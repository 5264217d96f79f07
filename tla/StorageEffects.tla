--------------------------- MODULE StorageEffects ---------------------------
(***************************************************************************)
(* The effect boundary of a simulated task over SimFs: Boundary's storage   *)
(* calls with their scheduled and swarm faults (executor/effects.rs,        *)
(* executor/storage.rs, SimFault::crash_operation_for), and the correctness *)
(* monitor that audits the journal they write (ledger-journal/monitor.rs).  *)
(* A scalar write covers SCALAR bytes at offset 0.  A write runs in three   *)
(* stages without interruption; they are steps here, so that each applies   *)
(* one SimFs operation.  Which fault the schedule or the seed has for an    *)
(* entry is chosen when the entry is made.  Messages carry no order here.   *)
(***************************************************************************)
EXTENDS SimFs

CONSTANTS
    Tasks,
    fault_classes_per_run,
    MaxEffects,       \* bound: entries when a call begins
    MaxScalars,       \* bound: scalar writes
    MaxSends          \* bound: messages sent

ASSUME EffectsAssumption ==
    fault_classes_per_run \in Nat /\ MaxEffects \in Nat /\ MaxScalars \in Nat /\ MaxSends \in Nat

VARIABLES
    log,                 \* the journal
    coverage,            \* entries the boundary reported, per actor
    applied_faults,      \* the entries whose scheduled fault took effect
    fault_classes_used,
    journal_error,       \* the error slot: a run that has one fails
    in_transit,          \* sends not received, as <<entry, receiver>>
    parked,              \* tasks that wait for a message
    stage                \* where Boundary::write is

effectVars == <<log, coverage, applied_faults, fault_classes_used, journal_error, in_transit, parked, stage>>
netEffects == <<in_transit, parked>>

Idle == [at |-> "idle"]

EffectsInit ==
    /\ FsInit
    /\ log = <<>> /\ coverage = [t \in Tasks |-> 0]
    /\ applied_faults = {} /\ fault_classes_used = {} /\ journal_error = FALSE
    /\ in_transit = {} /\ parked = {} /\ stage = Idle

-----------------------------------------------------------------------------
(* Journaling.                                                             *)

Of(j, t) == {i \in DOMAIN j : j[i].actor = t}
Lookup(j, ids) == {i \in DOMAIN j : j[i].id \in ids}
merged(j, ids) == [u \in Tasks |-> Max({j[i].clock[u] : i \in Lookup(j, ids)} \cup {0})]
incremented(clock, t) == [clock EXCEPT ![t] = @ + 1]

\* The actor's head joins the parents that the effect observed.
WithHead(j, t, observed) == observed \cup {j[i].id : i \in {Max(Of(j, t) \cup {0})} \ {0}}

EntryFor(j, t, kind, parents, data) ==
    [id |-> Len(j) + 1, actor |-> t, kind |-> kind, seq |-> Cardinality(Of(j, t)),
     parents |-> parents, clock |-> incremented(merged(j, parents), t), data |-> data]

Extended(j, t, kind, observed, data) ==
    Append(j, EntryFor(j, t, kind, WithHead(j, t, observed), data))

\* journal_append, and note_journaled after an append that SimFs makes.
journal_append(t, kind, observed, data) ==
    /\ log' = Extended(log, t, kind, observed, data)
    /\ coverage' = [coverage EXCEPT ![t] = @ + 1]

\* record_journal_error.
Fails == journal_error' = TRUE /\ stage' = Idle /\ UNCHANGED <<log, coverage>>

Begins(t) == stage = Idle /\ ~journal_error /\ Len(log) < MaxEffects /\ t \notin parked

-----------------------------------------------------------------------------
(* Crash operations.                                                       *)

DropAllUnsynced == [op |-> "DropAllUnsynced"]
DropPath(p) == [op |-> "DropPaths", path |-> p]
Torn(write, prefix) == [op |-> "TornWrite", write |-> write, prefix |-> prefix]
Flip(op, write) == [op |-> op, write |-> write]
Damaging == {"TornWrite", "CorruptRange", "BitFlip"}

\* crash_operation_for: a crash, a corruption, and crash states 0 to 2.
crash_operation_for(p, write) ==
    {DropAllUnsynced, DropPath(p), Torn(write, 0), Flip("CorruptRange", write)}

\* The operation of each fault class of the swarm.
swarm_operation(p, write) ==
    {<<0, DropAllUnsynced>>, <<1, DropPath(p)>>, <<2, Torn(write, SCALAR \div 2)>>, <<4, Flip("BitFlip", write)>>}

Holding(write) ==
    {p \in DOMAIN files : \E s \in DOMAIN files[p].cache : files[p].cache[s].write_id = write}

\* apply_crash_operation has a target; operations on scalars stay within it.
Resolves(o) == o.op \in Damaging => Holding(o.write) # {}
WithinBound(o) == o.op \in Damaging => faults < MaxFaults

apply_crash_operation(o) ==
    CASE o.op = "DropAllUnsynced" -> DropPaths(Paths)
      [] o.op = "DropPaths" -> DropPaths({o.path})
      [] o.op = "TornWrite" -> \E p \in Holding(o.write) : TornWrite(p, 0, o.prefix)
      [] o.op = "CorruptRange" -> \E p \in Holding(o.write) : Corrupt(p, 0, 1..Len(files[p].cache[0].content))
      [] o.op = "BitFlip" -> \E p \in Holding(o.write) : Corrupt(p, 0, {1})

CrashActor(t, o) == journal_append(t, "Fault", {}, o)

-----------------------------------------------------------------------------
(* Boundary::write.                                                        *)

Write(t, p) ==
    /\ Begins(t) /\ entries < MaxScalars
    /\ write_bytes(p, 0, SCALAR)
    /\ journal_append(t, "FsWrite", {}, [path |-> p, write |-> entries'])
    /\ stage' = [at |-> "inject", task |-> t, path |-> p, write |-> entries', id |-> Len(log')]
    /\ UNCHANGED <<applied_faults, fault_classes_used, journal_error, netEffects>>

\* inject_write_fault: the operation is applied and then journaled.
inject_write_fault ==
    /\ stage.at = "inject"
    /\ \/ /\ stage' = [stage EXCEPT !.at = "swarm"]
          /\ UNCHANGED <<fsVars, log, coverage, applied_faults, journal_error>>
       \/ \E o \in crash_operation_for(stage.path, stage.write) :
            /\ Resolves(o) /\ WithinBound(o)
            /\ applied_faults' = applied_faults \cup {stage.id}
            /\ apply_crash_operation(o)
            /\ CrashActor(stage.task, o)
            /\ stage' = [stage EXCEPT !.at = "swarm"]
            /\ UNCHANGED journal_error
       \/ Fails /\ UNCHANGED <<fsVars, applied_faults>>         \* unknown crash state
    /\ UNCHANGED <<fault_classes_used, netEffects>>

\* Mutated maybe_crash_on_write: the fault is journaled when the budget forbids it.
maybe_crash_on_write_journaled_anyway ==
    /\ stage.at = "swarm"
    /\ \/ /\ stage' = Idle
          /\ UNCHANGED <<fsVars, log, coverage, fault_classes_used, journal_error>>
       \/ \E c \in swarm_operation(stage.path, stage.write) :
            /\ WithinBound(c[2])
            /\ IF Cardinality(fault_classes_used) >= Max({1, fault_classes_per_run})
               THEN /\ stage' = Idle
                    /\ CrashActor(stage.task, c[2])
                    /\ UNCHANGED <<fsVars, fault_classes_used, journal_error>>
               ELSE /\ fault_classes_used' = fault_classes_used \cup {c[1]}
                    /\ IF Resolves(c[2])
                       THEN /\ apply_crash_operation(c[2])
                            /\ CrashActor(stage.task, c[2])
                            /\ stage' = Idle
                            /\ UNCHANGED journal_error
                       ELSE Fails /\ UNCHANGED fsVars
    /\ UNCHANGED <<applied_faults, netEffects>>

\* The budget of classes is checked before the class is added.
maybe_crash_on_write ==
    /\ stage.at = "swarm"
    /\ \/ /\ stage' = Idle
          /\ UNCHANGED <<fsVars, log, coverage, fault_classes_used, journal_error>>
       \/ \E c \in swarm_operation(stage.path, stage.write) :
            /\ WithinBound(c[2])
            /\ Cardinality(fault_classes_used) < Max({1, fault_classes_per_run})
            /\ fault_classes_used' = fault_classes_used \cup {c[1]}
            /\ IF Resolves(c[2])
               THEN /\ apply_crash_operation(c[2])
                    /\ CrashActor(stage.task, c[2])
                    /\ stage' = Idle
                    /\ UNCHANGED journal_error
               ELSE Fails /\ UNCHANGED fsVars
    /\ UNCHANGED <<applied_faults, netEffects>>

-----------------------------------------------------------------------------
(* The other calls of a task.                                              *)

Fsync(t) ==
    /\ Begins(t)
    /\ fsync
    /\ journal_append(t, "FsFsync", {}, {})
    /\ UNCHANGED <<applied_faults, fault_classes_used, journal_error, netEffects, stage>>

\* The entries of the writes that a read observed.
WriteEntries(writes) == {log[i].id : i \in {k \in DOMAIN log : log[k].kind = "FsWrite" /\ log[k].data.write \in writes}}

Read(t, p) ==
    /\ Begins(t)
    /\ journal_append(t, "FsRead",
                      IF p \in DOMAIN files THEN WriteEntries(read_bytes(p, 0, SCALAR).parents) ELSE {},
                      [missing |-> p \notin DOMAIN files])
    /\ UNCHANGED <<fsVars, applied_faults, fault_classes_used, journal_error, netEffects, stage>>

\* crash_impl: storage crashes whether or not the entry could be journaled.
Crash(t) ==
    /\ Begins(t)
    /\ apply_crash_operation(DropAllUnsynced)
    /\ \/ CrashActor(t, DropAllUnsynced) /\ UNCHANGED <<journal_error, stage>>
       \/ Fails
    /\ UNCHANGED <<applied_faults, fault_classes_used, netEffects>>

\* send_bytes_inner, up to the network: the message leaves, perhaps delayed, or a
\* fault or the swarm drops it.  Only a scheduled fault is marked.
Send(t, u) ==
    /\ Begins(t)
    /\ Cardinality({i \in DOMAIN log : log[i].kind = "Send"}) < MaxSends
    /\ \/ /\ journal_append(t, "Send", {}, {})
          /\ in_transit' = in_transit \cup {<<Len(log'), u>>}
       \/ /\ log' = Extended(Extended(log, t, "Send", {}, {}), t, "Fault", {Len(log) + 1}, [op |-> "DropMessage"])
          /\ coverage' = [coverage EXCEPT ![t] = @ + 2]
          /\ UNCHANGED in_transit
    /\ applied_faults' \in {applied_faults, applied_faults \cup {Len(log) + 1}}
    /\ UNCHANGED <<fsVars, fault_classes_used, journal_error, parked, stage>>

\* recv_now with journal_recv, or the task parks.
Recv(t) ==
    /\ Begins(t)
    /\ IF \E m \in in_transit : m[2] = t
       THEN \E m \in in_transit :
                /\ m[2] = t
                /\ journal_append(t, "Recv", {m[1]}, {})
                /\ in_transit' = in_transit \ {m}
                /\ UNCHANGED parked
       ELSE /\ journal_append(t, "Block", {}, {})
            /\ parked' = parked \cup {t}
            /\ UNCHANGED in_transit
    /\ UNCHANGED <<fsVars, applied_faults, fault_classes_used, journal_error, stage>>

\* The executor wakes a parked task; the send is the enabler.
Wake(m) ==
    /\ stage = Idle /\ ~journal_error
    /\ m \in in_transit /\ m[2] \in parked
    /\ journal_append(m[2], "Wake", {m[1]}, {})
    /\ parked' = parked \ {m[2]}
    /\ UNCHANGED <<fsVars, applied_faults, fault_classes_used, journal_error, in_transit, stage>>

\* The run ends: its programs are over, all wait, or it failed.
Over == stage = Idle /\ (journal_error \/ Len(log) >= MaxEffects \/ parked = Tasks)
RunOver == Over /\ UNCHANGED <<fsVars, effectVars>>

EffectsNext ==
    \/ \E t \in Tasks, p \in Paths : Write(t, p) \/ Read(t, p)
    \/ inject_write_fault \/ maybe_crash_on_write
    \/ \E t \in Tasks : Fsync(t) \/ Crash(t) \/ Recv(t)
    \/ \E t, u \in Tasks : Send(t, u)
    \/ \E m \in in_transit : Wake(m)
    \/ RunOver

-----------------------------------------------------------------------------
(* JournalCorrectnessMonitor, on any sequence of entries.                   *)

Issue(tag, entry) == <<tag, entry.id>>

Enablers == {"Send", "Recv", "FsWrite", "FsFsync", "TimerFire"}
RequiredKinds(kind) ==
    CASE kind = "Recv" -> {"Send"} [] kind = "FsRead" -> {"FsWrite"} [] kind = "Wake" -> Enablers

check_parent_kind(j, e) ==
    e.kind \in {"Recv", "FsRead", "Wake"} =>
        \E i \in Lookup(j, e.parents) : j[i].kind \in RequiredKinds(e.kind)

Resolvable(j, e) == e.parents \subseteq {j[i].id : i \in DOMAIN j}

IssuesAt(j, i) ==
    {issue \in {"NonMonotonicSequence", "MissingParent", "ParentKindMismatch", "VectorClockMismatch"} :
        CASE issue = "NonMonotonicSequence" -> j[i].seq # Cardinality(Of(j, j[i].actor) \cap 1..i - 1)
          [] issue = "MissingParent" -> ~Resolvable(j, j[i])
          [] issue = "ParentKindMismatch" -> ~check_parent_kind(j, j[i])
          [] issue = "VectorClockMismatch" ->
                Resolvable(j, j[i]) /\ j[i].clock # incremented(merged(j, j[i].parents), j[i].actor)}

audit(j) == UNION {{Issue(tag, j[i]) : tag \in IssuesAt(j, i)} : i \in DOMAIN j}

\* The actors whose counts disagree.
check_coverage(j, boundary_entries) ==
    {t \in Tasks : Cardinality(Of(j, t)) # boundary_entries[t]}

\* verify_replay_fidelity: the first position at which two journals differ.
FirstDivergence(original, fork) ==
    Min({i \in 1..Max({Len(original), Len(fork)}) :
            ~(i \in DOMAIN original /\ i \in DOMAIN fork /\ original[i].id = fork[i].id)})

\* The monitor is exact on the journal of every run: it counts every effect of every
\* task, it finds nothing but the reads of missing files that do not follow a write
\* of the same task, and it notices that an entry was removed precisely when a
\* later entry refers to it.
MonitorExact ==
    /\ check_coverage(log, coverage) = {}
    /\ \A issues \in {audit(log)} :
       /\ issues = {Issue("ParentKindMismatch", log[i]) :
                        i \in {k \in DOMAIN log :
                                /\ log[k].kind = "FsRead" /\ log[k].data.missing
                                /\ \A h \in Lookup(log, log[k].parents) : log[h].kind # "FsWrite"}}
       /\ Over => \A i \in DOMAIN log :
            /\ audit(RemoveAt(log, i)) \subseteq issues
                <=> \A k \in DOMAIN log : log[i].id \notin log[k].parents
            /\ FirstDivergence(log, RemoveAt(log, i)) = i

-----------------------------------------------------------------------------
(* Storage as the journal alone tells it.                                  *)

Fresh(write) == [i \in 1..SCALAR |-> <<write, i, 0>>]
Damaged(bytes, o) ==
    CASE o.op = "TornWrite" -> SubSeq(bytes, 1, Min({o.prefix, Len(bytes)}))
      [] o.op = "CorruptRange" -> [i \in DOMAIN bytes |-> [bytes[i] EXCEPT ![3] = 1 - @]]
      [] o.op = "BitFlip" -> [i \in DOMAIN bytes |-> IF i = 1 THEN [bytes[i] EXCEPT ![3] = 1 - @] ELSE bytes[i]]

Lost(store, S) ==
    [p \in {q \in DOMAIN store : q \in S => store[q].saved # Unsaved} |->
        IF p \in S THEN [store[p] EXCEPT !.bytes = store[p].saved, !.write = 0] ELSE store[p]]

Told(store, e) ==
    CASE e.kind = "FsWrite" ->
            [p \in DOMAIN store \cup {e.data.path} |->
                IF p # e.data.path THEN store[p]
                ELSE [bytes |-> Fresh(e.data.write), write |-> e.data.write,
                      saved |-> IF p \in DOMAIN store THEN store[p].saved ELSE Unsaved]]
      [] e.kind = "FsFsync" -> [p \in DOMAIN store |-> [store[p] EXCEPT !.saved = store[p].bytes]]
      [] e.kind = "Fault" /\ e.data.op = "DropAllUnsynced" -> Lost(store, Paths)
      [] e.kind = "Fault" /\ e.data.op = "DropPaths" -> Lost(store, {e.data.path})
      [] e.kind = "Fault" /\ e.data.op \in Damaging ->
            [p \in DOMAIN store |->
                IF store[p].write = e.data.write
                THEN [store[p] EXCEPT !.bytes = Damaged(@, e.data)] ELSE store[p]]
      [] OTHER -> store

Retold ==
    LET tell[i \in 0..Len(log)] == IF i = 0 THEN <<>> ELSE Told(tell[i - 1], log[i])
    IN  tell[Len(log)]

\* In a run without an error the journal alone determines storage: its writes, syncs
\* and crash operations, applied in order to nothing, give the cached and the
\* durable bytes of every file.  So no fault took effect that was not journaled
\* and none was journaled that took no effect.  A scheduled fault of a write is
\* followed by its entry, and the swarm keeps to its budget of classes.
StorageRetold ==
    /\ ~journal_error /\ stage = Idle =>
        [p \in DOMAIN Retold |-> [bytes |-> Retold[p].bytes, saved |-> Retold[p].saved]]
            = [p \in DOMAIN files |->
                [bytes |-> Bytes(files[p].cache),
                 saved |-> IF files[p].durable_exists THEN Bytes(files[p].durable) ELSE Unsaved]]
    /\ \A i \in applied_faults : log[i].kind = "FsWrite" =>
            \E k \in Of(log, log[i].actor) : log[k].seq = log[i].seq + 1 /\ log[k].kind = "Fault"
    /\ Cardinality(fault_classes_used) <= Max({1, fault_classes_per_run})
=============================================================================
