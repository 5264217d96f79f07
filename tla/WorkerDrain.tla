---------------------------- MODULE WorkerDrain ----------------------------
(***************************************************************************)
(* The standalone worker: load_queue_file and run_standalone_drain in      *)
(* crates/ledger-worker/src/main.rs, driving execute_with_heartbeat of     *)
(* crates/ledger-worker/src/worker.rs over the queue of TaskQueue, and the *)
(* library entry point Worker::run_one, called again and again by its host;*)
(* or a host that calls the methods of the queue itself.                   *)
(*                                                                         *)
(* One loop pulls and runs tasks one after the other; the clock, and the   *)
(* heartbeat of the running task, advance at any point of it.  The drain   *)
(* loop acknowledges a task and then publishes its certificate; run_one    *)
(* publishes first, without heartbeats.  Publication is the exchange of    *)
(* crates/ledger-worker/src/artifact.rs: fetch a URL, transfer, confirm.   *)
(***************************************************************************)
EXTENDS TaskQueue, TaskExecution

CONSTANTS
    MaxConcurrent,  \* WorkerConfig::max_concurrent: pulls per wake-up
    Heartbeat,      \* heartbeat interval, in clock ticks
    Lines           \* per task, the run config, workload and pinned identity of its line

ASSUME MaxConcurrentAssumption == MaxConcurrent \in Nat
ASSUME HeartbeatAssumption == Heartbeat \in Nat \ {0}

VARIABLES
    driver,     \* "drain": the standalone loop; "run_one": a host calling run_one;
                \* "direct": a host calling the queue
    sink,       \* the artifact sink: "noop" or "http"
    pc,         \* where the process is
    round,      \* tasks run since the last wake-up
    current,    \* the task being executed or published
    beat,       \* ticks until the next heartbeat
    stored,     \* tasks whose certificate bytes the artifact service holds
    confirmed,  \* tasks whose certificate the worker confirmed
    printed     \* how often the result of each task was printed or returned

artifactVars == <<stored, confirmed>>
loopVars == <<driver, sink, pc, round, current, beat, artifactVars, printed>>
drainVars == <<queueVars, loopVars>>

Outcome(t) == execute_task(task_from_line(Lines[t]))

\* The stages of publish_result_certificate.
Publishing == {"publish", "put", "confirm"}

\* main with its flags: build_sink chooses the sink, or the process exits before
\* any task runs.
DrainInit ==
    /\ QueueInit
    /\ driver \in {"drain", "run_one", "direct"}
    /\ sink \in {"noop", "http"}
    /\ pc = IF driver = "direct" THEN "host" ELSE "loading"
    /\ round = 0
    /\ current = None
    /\ beat = 0
    /\ stored = {} /\ confirmed = {}
    /\ printed = [t \in Tasks |-> 0]

\* load_queue_file pushes the task of one line; lines that do not parse or repeat
\* an id are skipped and change nothing.
LoadTask ==
    /\ pc = "loading"
    /\ \E t \in Tasks : push(t)
    /\ UNCHANGED loopVars

\* The end of the queue file, or a read error of it, which ends the process.
EndLoad ==
    /\ pc = "loading"
    /\ pc' \in {IF driver = "drain" THEN "sleep" ELSE "pull", "stopped"}
    /\ UNCHANGED <<queueVars, driver, sink, round, current, beat, artifactVars, printed>>

\* The 200ms sleep of the loop elapses.
Wake ==
    /\ pc = "sleep"
    /\ pc' = "pull"
    /\ round' = 0
    /\ UNCHANGED <<queueVars, driver, sink, current, beat, artifactVars, printed>>

\* ctrl_c is only polled while the loop sleeps.
CtrlC ==
    /\ pc = "sleep"
    /\ pc' = "stopped"
    /\ UNCHANGED <<queueVars, driver, sink, round, current, beat, artifactVars, printed>>

\* One iteration of the for loop: pull, and start executing what was pulled.
\* The first tick of the heartbeat interval is due at once.
PullTask ==
    /\ driver = "drain" /\ pc = "pull"
    /\ round < MaxConcurrent
    /\ \E r \in Tasks \cup {None} :
        /\ pull(r)
        /\ pc' = IF r = None THEN "sleep" ELSE "run"
        /\ current' = r
    /\ beat' = 0
    /\ UNCHANGED <<driver, sink, round, artifactVars, printed>>

\* max_concurrent tasks were run since the wake-up.
EndRound ==
    /\ driver = "drain" /\ pc = "pull"
    /\ round >= MaxConcurrent
    /\ pc' = "sleep"
    /\ UNCHANGED <<queueVars, driver, sink, round, current, beat, artifactVars, printed>>

\* The heartbeat branch of the select! in execute_with_heartbeat.
ExtendLease ==
    /\ driver = "drain" /\ pc = "run"
    /\ beat = 0
    /\ extend_lease(current)
    /\ beat' = Heartbeat
    /\ UNCHANGED <<driver, sink, pc, round, current, artifactVars, printed>>

\* The completion branch: ack.
CompleteOk ==
    /\ driver = "drain" /\ pc = "run"
    /\ Outcome(current) = "ok"
    /\ ack(current)
    /\ pc' = "publish"
    /\ UNCHANGED <<driver, sink, round, current, beat, artifactVars, printed>>

\* Mutated CompleteErr: the failure is logged and not routed to the queue.
CompleteErr_unrouted ==
    /\ driver = "drain" /\ pc = "run"
    /\ Outcome(current) = "err"
    /\ pc' = "sleep"
    /\ current' = None
    /\ UNCHANGED <<queueVars, driver, sink, round, beat, artifactVars, printed>>

\* The completion branch: route_failure charges the task, the loop logs the
\* error and leaves the round.
CompleteErr ==
    /\ driver = "drain" /\ pc = "run"
    /\ Outcome(current) = "err"
    /\ report_failure(current)
    /\ pc' = "sleep"
    /\ current' = None
    /\ UNCHANGED <<driver, sink, round, beat, artifactVars, printed>>

\* The blocking task panicked: the JoinError returns past ack and route_failure.
CompletePanic ==
    /\ driver = "drain" /\ pc = "run"
    /\ Outcome(current) = "panic"
    /\ pc' = "sleep"
    /\ current' = None
    /\ UNCHANGED <<queueVars, driver, sink, round, beat, artifactVars, printed>>

\* run_one pulls; on an empty queue it returns None and the host calls again.
RunOne ==
    /\ driver = "run_one" /\ pc = "pull"
    /\ \E r \in Tasks \cup {None} :
        /\ pull(r)
        /\ pc' = IF r = None THEN "pull" ELSE "run"
        /\ current' = r
    /\ UNCHANGED <<driver, sink, round, beat, artifactVars, printed>>

\* execute_task returns to run_one: a result is published before anything else, an
\* error is charged, a panic unwinds through run_one into the host.
RunOneExecuted ==
    /\ driver = "run_one" /\ pc = "run"
    /\ \/ /\ Outcome(current) = "ok"
          /\ pc' = "publish"
          /\ UNCHANGED <<queueVars, current>>
       \/ /\ Outcome(current) = "err"
          /\ report_failure(current)
          /\ pc' = "pull" /\ current' = None
       \/ /\ Outcome(current) = "panic"
          /\ pc' = "stopped" /\ current' = None
          /\ UNCHANGED queueVars
    /\ UNCHANGED <<driver, sink, round, beat, artifactVars, printed>>

\* After publication run_one acknowledges the task and returns its result.
RunOneAcks ==
    /\ driver = "run_one" /\ pc = "print"
    /\ ack(current)
    /\ printed' = [printed EXCEPT ![current] = @ + 1]
    /\ pc' = "pull" /\ current' = None
    /\ UNCHANGED <<driver, sink, round, beat, artifactVars>>

\* A rendered certificate is uploaded; the upload starts with the URL.  The no-op
\* sink has nothing to fetch, transfer or confirm.
FetchUrl ==
    /\ pc = "publish"
    /\ pc' \in IF sink = "http" THEN {"put", "print"} ELSE {"print"}
    /\ UNCHANGED <<queueVars, driver, sink, round, current, beat, artifactVars, printed>>

\* The bytes are transferred, or not, and the worker learns of a success or not.
Put ==
    /\ pc = "put"
    /\ \/ pc' = "confirm" /\ stored' = stored \cup {current}
       \/ pc' = "print" /\ stored' \in {stored, stored \cup {current}}
    /\ UNCHANGED <<queueVars, driver, sink, round, current, beat, confirmed, printed>>

\* The confirmation arrives or fails; either way publication is over.
Confirm ==
    /\ pc = "confirm"
    /\ confirmed' \in {confirmed, confirmed \cup {current}}
    /\ pc' = "print"
    /\ UNCHANGED <<queueVars, driver, sink, round, current, beat, stored, printed>>

\* Publication is best-effort; the drain loop prints the result line anyway.
PrintResult ==
    /\ driver = "drain" /\ pc = "print"
    /\ printed' = [printed EXCEPT ![current] = @ + 1]
    /\ pc' = "pull"
    /\ round' = round + 1
    /\ current' = None
    /\ UNCHANGED <<queueVars, driver, sink, beat, artifactVars>>

\* A host of its own calls the methods of the queue, in any order.
CallQueue ==
    /\ pc = "host"
    /\ QueueNext
    /\ UNCHANGED loopVars

\* One clock tick passes, for the leases and for the heartbeat interval (late
\* ticks are skipped, MissedTickBehavior::Skip).
Elapse ==
    /\ pc # "stopped"
    /\ Tick
    /\ beat' = IF pc = "run" /\ beat > 0 THEN beat - 1 ELSE beat
    /\ UNCHANGED <<driver, sink, pc, round, current, artifactVars, printed>>

\* The steps that move the loop on: all but the heartbeats of a running task.
Progress ==
    \/ EndLoad \/ Wake \/ PullTask \/ EndRound
    \/ CompleteOk \/ CompleteErr \/ CompletePanic
    \/ RunOne \/ RunOneExecuted \/ RunOneAcks
    \/ FetchUrl \/ Put \/ Confirm \/ PrintResult

DrainNext == LoadTask \/ CtrlC \/ ExtendLease \/ Progress \/ CallQueue \/ Elapse

\* The loop and the clock keep going; execute_task terminates (max_steps bounds
\* every run), so an execution eventually completes however often it heartbeats,
\* and every request of a publication ends by its timeout.
Fairness == WF_drainVars(Progress) /\ WF_drainVars(Elapse)

DrainSpec == DrainInit /\ [][DrainNext]_drainVars /\ Fairness

-----------------------------------------------------------------------------
(* What the loop guarantees.                                               *)

\* The running task holds its lease until it completes, so its ack is never the
\* ignored kind; and a lease nobody is running was left behind by an execution
\* that panicked: no other path of the loop drops a task it pulled.  A result is
\* printed or returned exactly once for each task in done, whatever publication
\* does; a certificate is confirmed only when its bytes are stored, and stored
\* only for a task that is done or about to be acknowledged by run_one.
OwnedLeases ==
    LET ended(t) == current = t /\ pc \in Publishing \cup {"print"}
        held(t) == (current = t /\ pc = "run") \/ (driver = "run_one" /\ ended(t))
    IN  driver # "direct" =>
        /\ pc = "run" => current \in leased
        /\ \A t \in leased : held(t) \/ Outcome(t) = "panic"
        /\ \A t \in Tasks : done[t] = printed[t] + IF driver = "drain" /\ ended(t) THEN 1 ELSE 0
        /\ confirmed \subseteq stored
        /\ \A t \in stored : done[t] = 1 \/ (driver = "run_one" /\ ended(t))

\* Every task of the queue file is eventually finished, with the verdict its
\* execution deserves, unless ctrl-c stops the loop or a panic ends the host of
\* run_one: failing tasks do not starve the others, and a lease abandoned by a
\* panic is eventually reclaimed.
Drained ==
    \A t \in Tasks :
        t \in seen /\ driver # "direct" ~> \/ pc = "stopped"
                      \/ IF Outcome(t) = "ok" THEN done[t] = 1
                         ELSE failed[t] = 1 /\ attempts[t] >= MaxAttempts
=============================================================================
