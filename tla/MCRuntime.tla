------------------------------ MODULE MCRuntime ------------------------------
(***************************************************************************)
(* What a program under test runs on, one part at a time: its effect       *)
(* session with the engine server, the engine process it spawns, the       *)
(* in-process runtime, and durable workflows.                              *)
(***************************************************************************)
EXTENDS EngineSession, EngineHost, RtRuntime, Workflow, TLC

CONSTANTS a, b, t1, t2, t3

VARIABLE part                   \* the part at work
runtimeVars == <<part, engineVars, hostVars, rtVars, flowVars>>

MCWants ==
    (a :> {[op |-> "Sleep", ticks |-> 2], [op |-> "Clock"], [op |-> "Send", self |-> TRUE],
           [op |-> "Recv"], [op |-> "FsSync"], [op |-> "FsRead", len |-> 2],
           [op |-> "FsWrite", offset |-> 1, len |-> 1]})
    @@
    (b :> {[op |-> "Random", count |-> 1], [op |-> "Random", count |-> 2],
           [op |-> "Send", self |-> FALSE], [op |-> "FsWrite", offset |-> 0, len |-> 2]})
MCCalls == (a :> 3) @@ (b :> 1)
Request(workload, seed, steps, attempts) ==
    [workload |-> workload, seed |-> seed, steps |-> steps, attempts |-> attempts]
MCRequests ==
    {Request("kv", <<7, 1>>, 2, 2), Request("kv", <<7, 2>>, 2, 1), Request("other", <<7, 1>>, 2, 1),
     Request("kv", <<7, 1>>, 2, 0), Request("kv", <<7, 1>>, 1, 1)}
MCActors == (t1 :> 0) @@ (t2 :> 1) @@ (t3 :> 1)
MCLinks == {<<0, 1>>}
MCPlans == {<<"charge", "notify">>, <<"charge", "notify", "close">>, <<"notify", "charge">>,
            <<"charge", "charge">>}

-----------------------------------------------------------------------------
RuntimeInit == /\ part \in {"engine", "host", "rt", "flow"}
               /\ EngineInit /\ HostInit /\ RtInit /\ FlowInit
               /\ part # "rt" => build = "tokio"

Engine_(A) == part = "engine" /\ A /\ UNCHANGED <<part, hostVars, rtVars, flowVars>>
Host_(A) == part = "host" /\ A /\ UNCHANGED <<part, engineVars, rtVars, flowVars>>
Rt_(A) == part = "rt" /\ A /\ UNCHANGED <<part, engineVars, hostVars, flowVars>>
Flow_(A) == part = "flow" /\ A /\ UNCHANGED <<part, engineVars, hostVars, rtVars>>

RuntimeNext == Engine_(EngineNext) \/ Host_(HostNext) \/ Rt_(RtNext) \/ Flow_(FlowNext)

(* The fairness of EngineSpec, HostSpec and FlowSpec, for the part at work. *)
RuntimeSpec ==
    /\ RuntimeInit /\ [][RuntimeNext]_runtimeVars
    /\ WF_runtimeVars(Engine_(Server))
    /\ \A c \in Clients : WF_runtimeVars(Engine_(read_reply(c) \/ read_eof(c)))
    /\ WF_runtimeVars(Host_(Caller))
    /\ WF_runtimeVars(Flow_(recover_from_journal)) /\ WF_runtimeVars(Flow_(Resume))
    /\ WF_runtimeVars(Flow_(Return \/ Skip \/ Rerun \/ step_begin \/ Exec \/ step_end))
    /\ WF_runtimeVars(Flow_(wf.plan = NoPlan /\ \E steps \in Plans : set_plan(steps)))

(* Every call returns: one that waits for the server of an effect session   *)
(* (CallsReturn), and one that waits for an engine process (CallerReturns). *)
EveryCallReturns == CallsReturn /\ CallerReturns
=============================================================================
