------------------------------ MODULE MCWorker ------------------------------
(***************************************************************************)
(* The worker, one part at a time: the queue under calls in any order or   *)
(* under the loops that drain it, and the control-plane session.           *)
(***************************************************************************)
EXTENDS WorkerDrain, WorkerSession, TLC

CONSTANTS
    good, fine, bad, broken, t1, t2

MCSimulated == "plain" :> "ok" @@ "crashing" :> "panic"

(* Two tasks succeed, one of them pinned; one names no workload; one panics. *)
Line(config, workload, pin) == [run_config |-> config, workload |-> workload, execution_identity |-> pin]
MCLines ==
    good :> Line("plain", "kv", NoDigest) @@ fine :> Line("plain", "kv", <<"kv", "plain">>)
    @@ bad :> Line("plain", "other", NoDigest) @@ broken :> Line("crashing", "kv", NoDigest)

(* Dispatches that succeed, panic, do not decode, carry the hash of another  *)
(* config, and are pinned here or elsewhere.                                 *)
Dispatch(t, config, hash, pin) ==
    [task_id |-> t, oversized |-> FALSE, run_config |-> config, hash |-> hash,
     workload |-> "kv", execution_identity |-> pin]
MCDispatches ==
    {Dispatch(t1, "plain", "plain", NoDigest), Dispatch(t1, "plain", "crashing", NoDigest),
     Dispatch(t1, Malformed, "plain", NoDigest), Dispatch(t2, "crashing", "crashing", NoDigest),
     Dispatch(t2, "plain", "plain", <<"kv", "plain">>), Dispatch(t2, "plain", "plain", <<"kv", "crashing">>)}

VARIABLE part                   \* the part at work
partVars == <<part, drainVars, sessionVars>>

MCInit ==
    /\ part \in {"queue", "session"}
    /\ DrainInit /\ SessionInit
    /\ driver # "run_one" => sink = IF driver = "drain" THEN "http" ELSE "noop"
    /\ part = "session" => driver = "direct"

Queue_(A) == part = "queue" /\ A /\ UNCHANGED <<part, sessionVars>>
Session_(A) == part = "session" /\ A /\ UNCHANGED <<part, drainVars>>

(* The queue alone, which does not look into a task, is called with three of them. *)
MCNext == \/ Queue_(DrainNext /\ (driver = "direct" => fine \notin seen'))
          \/ Session_(SessionNext)

(* The fairness of DrainSpec and SessionSpec, for the part at work.        *)
MCSpec ==
    /\ MCInit /\ [][MCNext]_partVars
    /\ WF_partVars(Queue_(Progress)) /\ WF_partVars(Queue_(Elapse))
    /\ WF_partVars(Session_(WorkerNext)) /\ WF_partVars(Session_(TakeRequest))
=============================================================================
