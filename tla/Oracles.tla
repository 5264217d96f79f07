------------------------------- MODULE Oracles -------------------------------
(***************************************************************************)
(* Oracles over a run: crates/ledger-explorer/src/oracle.rs, the online    *)
(* monitors of monitor.rs and the divergence of two runs (diagnosis.rs).   *)
(*                                                                         *)
(* The run grows one step at a time; a step appends the entries of one     *)
(* actor, and the monitors see them as the executor's step monitor does.   *)
(* An entry is [kind, actor, seq, value, past, op]: past is the set of     *)
(* positions its vector clock covers, op the operation it witnesses.       *)
(***************************************************************************)
EXTENDS Integers, Sequences, FiniteSets, SequencesExt, FiniteSetsExt, TLC

CONSTANTS
    OracleKinds,        \* entry kinds: "Outcome", "Assert", "Send"
    OracleActors,
    OracleValues,
    OracleKeys,
    OracleLength,       \* bound on the entries of a run
    StepEntries,        \* entries a step may append
    LinBound,           \* DEFAULT_LIN_BOUND
    MaxGap              \* LivenessMonitor.max_gap_steps

VARIABLES
    run,                \* the entries of the journal, in append order
    halted,             \* RunOutcome::MonitorHalt
    gap,                \* LivenessMonitor.steps_since
    seen                \* entries the step monitor was given

oracle_vars == <<run, halted, gap, seen>>

HappensBefore(a, b) == a # b /\ a \in run[b].past

-----------------------------------------------------------------------------
(* Linearizability.                                                        *)

\* KeyValueSpec: a read returns the last value written, or zero.
Accepts_kv(state, op) == op.type # "Read" \/ state[op.key] = op.value
apply(state, op) == IF op.type = "Write" THEN [state EXCEPT ![op.key] = op.value] ELSE state

\* An operation has an invoke and a response entry.
Predecessors(ops) ==
    [later \in DOMAIN ops |->
        {earlier \in DOMAIN ops : earlier # later /\ HappensBefore(ops[earlier].response, ops[later].invoke)}]

\* As it would be if a branch that failed were not taken back.
RECURSIVE greedy_serialization(_, _, _, _)
greedy_serialization(ops, predecessors, state, pending) ==
    LET ready == {i \in pending : predecessors[i] \cap pending = {} /\ Accepts_kv(state, ops[i].op)}
    IN  pending = {} \/ (ready # {} /\ greedy_serialization(ops, predecessors, apply(state, ops[Min(ready)].op), pending \ {Min(ready)}))
RECURSIVE find_serialization(_, _, _, _)
find_serialization(ops, predecessors, state, pending) ==
    \/ pending = {}
    \/ \E i \in pending :
          /\ predecessors[i] \cap pending = {}
          /\ Accepts_kv(state, ops[i].op)
          /\ find_serialization(ops, predecessors, apply(state, ops[i].op), pending \ {i})

NoValues == [k \in OracleKeys |-> 0]

\* The operation named in the verdict: the first ready one that the state after
\* the first dead end rejects.
RECURSIVE dead_end(_, _, _, _)
dead_end(ops, predecessors, state, pending) ==
    LET ready == {i \in pending : predecessors[i] \cap pending = {}}
        accepted == {i \in ready : Accepts_kv(state, ops[i].op)}
        deeper == [i \in accepted |-> dead_end(ops, predecessors, apply(state, ops[i].op), pending \ {i})]
        found == {i \in accepted : deeper[i] # {}}
    IN  IF found # {} THEN deeper[Min(found)]
        ELSE IF ready \ accepted # {} THEN {Min(ready \ accepted)} ELSE {}

check_operations(ops) ==
    IF Len(ops) > LinBound THEN [violated |-> FALSE, witnesses |-> <<>>]
    ELSE IF find_serialization(ops, Predecessors(ops), NoValues, DOMAIN ops) THEN [violated |-> FALSE, witnesses |-> <<>>]
    ELSE LET failed == dead_end(ops, Predecessors(ops), NoValues, DOMAIN ops)
             at == IF failed = {} THEN 1 ELSE Min(failed)
         IN  [violated |-> TRUE, witnesses |-> <<ops[at].invoke, ops[at].response>>]

\* The default lin_history: an operation is invoked and answered at its witness.
history ==
    LET at == SelectSeq([i \in DOMAIN run |-> i], LAMBDA i : run[i].kind = "Send")
    IN  [k \in DOMAIN at |-> [invoke |-> at[k], response |-> at[k], op |-> run[at[k]].op]]

\* HistoryOracle: the operations in journal order, against the specification.
RECURSIVE replay_history(_, _, _)
replay_history(ops, state, k) ==
    IF k > Len(ops) THEN [violated |-> FALSE, witnesses |-> <<>>]
    ELSE IF Accepts_kv(state, ops[k].op) THEN replay_history(ops, apply(state, ops[k].op), k + 1)
    ELSE [violated |-> TRUE, witnesses |-> <<ops[k].invoke>>]

-----------------------------------------------------------------------------
(* Divergence of two runs.                                                 *)

Content(e) == <<e.actor, e.seq, e.kind, e.value>>
\* Append order, in which concurrent entries may be swapped.
entries_in_append_order(r) == [i \in DOMAIN r |-> Content(r[i])]
entries_in_vc_order(r) ==
    SortSeq([i \in DOMAIN r |-> Content(r[i])], LAMBDA a, b : a[1] < b[1] \/ (a[1] = b[1] /\ a[2] < b[2]))

first_divergence(left, right) ==
    LET l == entries_in_vc_order(left)
        r == entries_in_vc_order(right)
        common == 1 .. Min({Len(l), Len(r)})
        differ == {i \in common : l[i] # r[i]}
    IN  IF differ # {} THEN [what |-> "Diverged", left |-> <<l[Min(differ)]>>, right |-> <<r[Min(differ)]>>]
        ELSE IF Len(l) > Len(r) THEN [what |-> "Truncated", left |-> <<l[Len(r) + 1]>>, right |-> <<>>]
        ELSE IF Len(r) > Len(l) THEN [what |-> "Truncated", left |-> <<>>, right |-> <<r[Len(l) + 1]>>]
        ELSE [what |-> "Identical", left |-> <<>>, right |-> <<>>]

\* DifferentialOracle::compare, on the outputs and the journal root.
observable_outputs(r) == SelectSeq([i \in DOMAIN r |-> Content(r[i])], LAMBDA c : c[3] = "Outcome")
compare(left, right) ==
    /\ observable_outputs(left) = observable_outputs(right)
    /\ entries_in_append_order(left) = entries_in_append_order(right)

-----------------------------------------------------------------------------
(* Monitors.                                                               *)

\* SafetyMonitor rejects an assertion that did not pass; LivenessMonitor expects
\* an outcome at least every MaxGap entries.
Safe(e) == ~(e.kind = "Assert" /\ e.value = 0)
Gap(g, e) == IF e.kind = "Outcome" THEN 0 ELSE g + 1
Halts(g, e) == ~Safe(e) \/ Gap(g, e) > MaxGap

\* The step monitor stops at the first entry that a monitor halts on.
RECURSIVE feed(_, _, _)
feed(g, entries, k) ==
    IF k > Len(entries) THEN [gap |-> g, halted |-> FALSE]
    ELSE IF Halts(g, entries[k]) THEN [gap |-> Gap(g, entries[k]), halted |-> TRUE]
    ELSE feed(Gap(g, entries[k]), entries, k + 1)

\* MonitorOracle::check: reset, every entry, then quiescence.
GapAt(n) == LET last == {i \in 1 .. n : run[i].kind = "Outcome"} IN IF last = {} THEN n ELSE n - Max(last)
MonitorOracle ==
    LET flagged == {i \in DOMAIN run : ~Safe(run[i]) \/ GapAt(i) > MaxGap}
        quiescence == GapAt(Len(run)) > MaxGap
    IN  [violated |-> flagged # {} \/ quiescence,
         witnesses |-> IF flagged = {} /\ quiescence /\ run # <<>> THEN {Len(run)} ELSE flagged]

-----------------------------------------------------------------------------

OracleInit == run = <<>> /\ halted = FALSE /\ gap = 0 /\ seen = 0

Ops == [type : {"Write", "Read"}, key : OracleKeys, value : OracleValues]
NoOp == [type |-> "None", key |-> CHOOSE k \in OracleKeys : TRUE, value |-> 0]

\* The entries of a step: the clock covers the actor's own last entry, and that
\* of another actor when the entry receives from it.
NewEntry(r, kind, actor, value, op, from) ==
    LET own == {i \in DOMAIN r : r[i].actor = actor}
        heard == UNION {r[i].past : i \in (IF own = {} THEN {} ELSE {Max(own)}) \cup from}
    IN  [kind |-> kind, actor |-> actor, seq |-> Cardinality(own), value |-> value, op |-> op,
         past |-> heard \cup {Len(r) + 1}]

\* One step of the executor: its entries, then the step monitor on them.
Step ==
    /\ ~halted /\ Len(run) + StepEntries <= OracleLength
    /\ \E n \in 1 .. StepEntries, actor \in OracleActors :
         \E kinds \in [1 .. n -> OracleKinds], values \in [1 .. n -> OracleValues] :
           \E op \in Ops, from \in {{}} \cup {{i} : i \in DOMAIN run} :
             LET opOf(k) == IF kinds[k] = "Send" THEN op ELSE NoOp
                 one == Append(run, NewEntry(run, kinds[1], actor, values[1], opOf(1), from))
                 all == IF n = 1 THEN one ELSE Append(one, NewEntry(one, kinds[2], actor, values[2], opOf(2), {}))
                 outcome == feed(gap, SubSeq(all, seen + 1, Len(all)), 1)
             IN  /\ \A k \in 1 .. n : kinds[k] # "Assert" => values[k] = 0
                 /\ (\A k \in 1 .. n : kinds[k] # "Send") => op = CHOOSE o \in Ops : TRUE
                 /\ run' = all
                 /\ gap' = outcome.gap
                 /\ halted' = outcome.halted
                 /\ seen' = Len(all)

OracleNext == Step

OracleSpec == OracleInit /\ [][OracleNext]_oracle_vars

-----------------------------------------------------------------------------
(* Properties.                                                             *)

Orders(n) == {p \in [1 .. n -> 1 .. n] : \A a, b \in 1 .. n : a # b => p[a] # p[b]}

RECURSIVE StateAfter(_, _, _)
StateAfter(ops, p, k) == IF k = 0 THEN NoValues ELSE apply(StateAfter(ops, p, k - 1), ops[p[k]].op)

\* The oracle rejects a history exactly when no order of its operations that
\* respects their causal order satisfies the specification; a longer history
\* than the bound is accepted (check_operations).
LinearizabilityExact ==
    LET ops == history
        n == Len(ops)
        serial(p) ==
            /\ \A a, b \in 1 .. n : a < b => ~HappensBefore(ops[p[b]].response, ops[p[a]].invoke)
            /\ \A k \in 1 .. n : Accepts_kv(StateAfter(ops, p, k - 1), ops[p[k]].op)
    IN  /\ check_operations(ops).violated <=> (n <= LinBound /\ ~\E p \in Orders(n) : serial(p))
        /\ n <= LinBound /\ check_operations(ops).violated => replay_history(ops, NoValues, 1).violated

\* A run is halted while it runs exactly when the monitors reject its journal
\* afterwards, and then on an entry of its last step (to_step_monitor,
\* MonitorOracle::check).
MonitorAgrees ==
    /\ halted <=> MonitorOracle.violated
    /\ halted => MonitorOracle.witnesses # {} /\ Min(MonitorOracle.witnesses) > Len(run) - StepEntries

\* Two runs are identical for first_divergence exactly when they hold the same
\* entries, in whatever order concurrent ones were appended; otherwise it names
\* an entry that one of them does not hold.  Runs that the differential oracle
\* accepts do not diverge.
DivergenceExact ==
    \A k \in DOMAIN run, n \in {1, Len(run)} :
        LET swapped == IF k < Len(run) /\ ~HappensBefore(k, k + 1)
                       THEN [run EXCEPT ![k] = run[k + 1], ![k + 1] = run[k]] ELSE run
            changed == [swapped EXCEPT ![k].value = @ + n]
            prefix == SubSeq(run, 1, n)
            contents(r) == {Content(r[i]) : i \in DOMAIN r}
            exact(l, r) ==
                LET d == first_divergence(l, r)
                IN  /\ d.what = "Identical" <=> contents(l) = contents(r)
                    /\ d.what # "Identical" =>
                          \/ d.left # <<>> /\ d.left[1] \notin contents(r)
                          \/ d.right # <<>> /\ d.right[1] \notin contents(l)
                    /\ compare(l, r) => d.what = "Identical"
        IN  exact(run, swapped) /\ exact(run, changed) /\ exact(prefix, swapped) /\ exact(changed, prefix)
=============================================================================
