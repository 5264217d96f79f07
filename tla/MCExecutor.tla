----------------------------- MODULE MCExecutor -----------------------------
(* Executor with every program up to a length, over two tasks, and           *)
(* configurations that turn on one group of features each; and the scheduler *)
(* with its drivers over chosen programs of three tasks.                     *)
EXTENDS Scheduler

CONSTANTS Plain, Faulty, Reordered, Async    \* program lengths under each configuration
CONSTANT SeedLength                          \* draws of the Random policy before they repeat

VARIABLE part       \* "loop" or "drive"

PlainConfig ==
    [max_steps |-> 6, capacity |-> 9, jitter |-> 0, lossy |-> FALSE, window |-> 0,
     draw |-> FALSE, block |-> FALSE, delays |-> {0}, faults |-> {}, partitions |-> {},
     monitored |-> FALSE]

FaultyConfigs ==
    {[PlainConfig EXCEPT !.capacity = 1, !.jitter = j, !.lossy = TRUE, !.block = j = 0, !.delays = {0, 1},
                         !.faults = {"drop", "duplicate", "oversize"},
                         !.partitions = IF j = 0 THEN {<<0, 1>>} ELSE {}, !.monitored = TRUE] :
        j \in 0..1}

ReorderedConfigs == {[PlainConfig EXCEPT !.window = w, !.draw = d] : w \in {1, 2}, d \in BOOLEAN}

\* Programs up to a length.  The last task ends its program with Done.
Bodies(alphabet, length) == UNION {[1..n -> alphabet] : n \in 0..length}
ProgramsOf(alphabet, length) == [0..1 -> Bodies(alphabet, length)]
WithDone(p) == [p EXCEPT ![1] = Append(@, [op |-> "done"])]

Do(op) == [op |-> op]
SleepFor(n) == [op |-> "sleep", ticks |-> n]
SendTo(t, n) == [op |-> "send", to |-> t, ticks |-> n]

Instructed ==
    UNION {{[config |-> c, program |-> WithDone(p), async |-> {}] :
                c \in g.configs, p \in ProgramsOf(g.alphabet, g.length)} :
        g \in {[configs |-> {PlainConfig}, length |-> Plain,
                alphabet |-> {Do("local"), Do("receive")} \cup {SleepFor(n) : n \in {0, 2}}
                             \cup {SendTo(0, 0), SendTo(1, 0), SendTo(1, 1)}],
               [configs |-> FaultyConfigs, length |-> Faulty,
                alphabet |-> {Do("receive"), [op |-> "partition", to |-> 1], SendTo(1, 0)}],
               [configs |-> ReorderedConfigs, length |-> Reordered,
                alphabet |-> {Do("receive"), SleepFor(1), SendTo(1, 0), SendTo(1, 1)}]}}

\* Async tasks, alone or beside an instruction program.
Spawn(body) == [op |-> "spawn", body |-> body]
Asynchronous ==
    {[config |-> PlainConfig, program |-> p, async |-> a] :
        p \in ProgramsOf({Do("receive"), SleepFor(1), SendTo(1, 1)}, Async)
              \cup {[q EXCEPT ![0] = <<Spawn(<<SleepFor(1), SendTo(1, 0)>>)>> \o @] :
                        q \in ProgramsOf({Do("receive"), SleepFor(1), SendTo(2, 0)}, Async - 1)},
        a \in {{0}, {0, 1}}}

MCRuns == Instructed \cup Asynchronous

\* Programs of three tasks: unrelated ones, a race of two senders, a chain, an
\* answer, sleepers that wake together, and one that ends up blocked.
Three(a, b, c) == [config |-> PlainConfig, program |-> 0 :> a @@ 1 :> b @@ 2 :> c, async |-> {}]
Programs ==
    {Three(<<Do("local")>>, <<Do("local")>>, <<Do("local")>>),
     Three(<<SendTo(2, 0)>>, <<SendTo(2, 0)>>, <<Do("receive")>>),
     Three(<<SendTo(1, 0)>>, <<Do("receive"), SendTo(2, 0)>>, <<Do("receive")>>),
     Three(<<SendTo(1, 0), Do("receive")>>, <<Do("receive"), SendTo(0, 0)>>, <<>>),
     Three(<<SleepFor(1), Do("local")>>, <<SleepFor(1)>>, <<>>),
     Three(<<Do("receive")>>, <<SendTo(0, 1)>>, <<Do("receive")>>)}

MCDrives ==
    {[run |-> r, plan |-> RecordPlan(p, 1), seed |-> <<0>>, max_runs |-> 0] :
        r \in Programs, p \in {"Pct", "Bandit"}}
    \cup {[run |-> r, plan |-> RecordPlan("Random", 0), seed |-> s, max_runs |-> 0] :
            r \in Programs, s \in [1..SeedLength -> 0..2]}
    \cup {[run |-> r, plan |-> RecordPlan("Dpor", 0), seed |-> s, max_runs |-> n] :
            r \in Programs, s \in [1..SeedLength -> 0..2], n \in {1, 3, 20}}

MCInit ==
    \/ /\ part = "loop" /\ Init
       /\ drive = <<>> /\ plan = RecordPlan("Random", 0) /\ SchedulerInit /\ base = <<>> /\ pending = <<>> /\ report = <<>>
    \/ part = "drive" /\ DriveInit

MCNext ==
    \/ part = "loop" /\ Next /\ UNCHANGED <<part, schedVars>>
    \/ part = "drive" /\ DriveNext /\ UNCHANGED part

MCSpec == MCInit /\ [][MCNext]_<<allVars, part>> /\ WF_<<allVars, part>>(MCNext)
=============================================================================
