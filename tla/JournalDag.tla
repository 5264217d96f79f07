----------------------------- MODULE JournalDag -----------------------------
(***************************************************************************)
(* The in-memory causal journal: Journal and JournalState in               *)
(* crates/ledger-journal/src/dag.rs, VectorClock in clock.rs.              *)
(*                                                                         *)
(* Entries are content-addressed: an entry is the record of its content    *)
(* and serves as its own id, which leaves out hash collisions.  Its        *)
(* parents are a set; their order only enters the hash.  All live views of *)
(* a journal share one frozen base by reference, so base and order are one *)
(* variable each; every view has an overlay of its own.  A batch is a      *)
(* sequence of pushes between its start and its end, during which only     *)
(* other views can move; an invalid entry ends it and leaves the pushes    *)
(* before it.                                                              *)
(***************************************************************************)
EXTENDS Integers, Sequences, FiniteSets

CONSTANTS
    Actors,
    Views,          \* names for the forks that are alive at one time
    Payloads,
    MaxParents,     \* MAX_PARENTS_PER_ENTRY
    Threshold,      \* OVERLAY_THRESHOLD
    MaxSeq          \* bound: entries per actor in a view

ASSUME DagAssumption == MaxParents \in Nat /\ MaxSeq \in Nat /\ Threshold \in Nat

VARIABLES
    live,           \* the views that exist
    base, order,    \* JournalState.base and .order, shared by every live view
    overlay, overlay_order, heads,      \* the rest of JournalState, per view
    batch           \* per view: whether a batch is open, and its last entry

vars == <<live, base, order, overlay, overlay_order, heads, batch>>

NoBatch == [open |-> FALSE, last |-> {}]

Init ==
    /\ \E v \in Views : live = {v}
    /\ base = {} /\ order = <<>>
    /\ overlay = [v \in Views |-> {}]
    /\ overlay_order = [v \in Views |-> <<>>]
    /\ heads = [v \in Views |-> <<>>]
    /\ batch = [v \in Views |-> NoBatch]

\* What get finds in a view, and the order in which entries() lists it.
Known(v) == overlay[v] \cup base
Log(v) == order \o overlay_order[v]

-----------------------------------------------------------------------------
(* Vector clocks.                                                          *)

happens_before_or_equal(c, d) == \A a \in Actors : c[a] <= d[a]

\* c is the merge of the clocks of the entries of P: the maximum per component.
IsMerge(c, P) ==
    \A a \in Actors :
        /\ \A p \in P : p.clock[a] <= c[a]
        /\ c[a] = 0 \/ \E p \in P : c[a] = p.clock[a]

incremented(c, a) == [c EXCEPT ![a] = @ + 1]

-----------------------------------------------------------------------------
(* Appending.                                                              *)

head(v, a) == IF a \in DOMAIN heads[v] THEN {heads[v][a]} ELSE {}

\* The next sequence number of an actor: one more than its head's.
sequence(v, a) ==
    IF a \in DOMAIN heads[v] THEN heads[v][a].seq + 1 ELSE 0

\* Mutated assemble_parents: the actor's own head is left out.
assemble_parents_headless(v, a, observed) == observed

\* The actor's head and what was observed; in a batch, the entry before as well.
assemble_parents(v, a, observed) ==
    head(v, a) \cup observed

\* Every parent is present, and there are not too many.
ValidParents(v, parents) ==
    parents \subseteq Known(v) /\ Cardinality(parents) <= MaxParents

EntryOf(v, a, parents, c, payload) ==
    [actor |-> a, seq |-> sequence(v, a), payload |-> payload, parents |-> parents,
     clock |-> incremented(c, a)]

\* freeze_overlay is called and the base is not shared.
CanFreeze(v, entries) ==
    Cardinality(entries) >= Threshold /\ live = {v}

\* The overlay of v becomes the given one; it is frozen when that is possible.
SetOverlay(v, entries, log) ==
    IF CanFreeze(v, entries)
    THEN /\ base' = base \cup entries
         /\ order' = order \o log
         /\ overlay' = [overlay EXCEPT ![v] = {}]
         /\ overlay_order' = [overlay_order EXCEPT ![v] = <<>>]
    ELSE /\ overlay' = [overlay EXCEPT ![v] = entries]
         /\ overlay_order' = [overlay_order EXCEPT ![v] = log]
         /\ UNCHANGED <<base, order>>

WithHead(v, a, e) ==
    [heads EXCEPT ![v] = [b \in DOMAIN @ \cup {a} |-> IF b = a THEN e ELSE @[b]]]

append(v, a, observed, payload) ==
    /\ v \in live /\ ~batch[v].open
    /\ sequence(v, a) < MaxSeq
    /\ ValidParents(v, assemble_parents(v, a, observed))
    /\ \E c \in [Actors -> 0..MaxSeq] :
        /\ IsMerge(c, assemble_parents(v, a, observed))
        /\ LET e == EntryOf(v, a, assemble_parents(v, a, observed), c, payload)
           IN  /\ heads' = WithHead(v, a, e)
               /\ SetOverlay(v, overlay[v] \cup {e}, Append(overlay_order[v], e))
    /\ UNCHANGED <<live, batch>>

\* append_batch: its start, one entry (chained to the one before, or not), and
\* its end, which is the only place where the overlay is frozen.
StartBatch(v) ==
    /\ v \in live /\ ~batch[v].open
    /\ batch' = [batch EXCEPT ![v].open = TRUE]
    /\ UNCHANGED <<live, base, order, overlay, overlay_order, heads>>

PushBatch(v, a, observed, chain_previous, payload) ==
    /\ v \in live /\ batch[v].open
    /\ sequence(v, a) < MaxSeq
    /\ LET chain == IF chain_previous THEN batch[v].last ELSE {}
           parents == assemble_parents(v, a, observed) \cup chain
       IN  /\ ValidParents(v, parents)
           /\ \E c \in [Actors -> 0..MaxSeq] :
                /\ IsMerge(c, parents)
                /\ LET e == EntryOf(v, a, parents, c, payload)
                   IN  /\ heads' = WithHead(v, a, e)
                       /\ overlay' = [overlay EXCEPT ![v] = @ \cup {e}]
                       /\ overlay_order' = [overlay_order EXCEPT ![v] = Append(@, e)]
                       /\ batch' = [batch EXCEPT ![v].last = {e}]
    /\ UNCHANGED <<live, base, order>>

EndBatch(v) ==
    /\ v \in live /\ batch[v].open
    /\ SetOverlay(v, overlay[v], overlay_order[v])
    /\ batch' = [batch EXCEPT ![v] = NoBatch]
    /\ UNCHANGED <<live, heads>>

\* Mutated FailBatch: the view goes back to the base.
FailBatch_resets(v) ==
    /\ v \in live /\ batch[v].open
    /\ batch' = [batch EXCEPT ![v] = NoBatch]
    /\ overlay' = [overlay EXCEPT ![v] = {}]
    /\ overlay_order' = [overlay_order EXCEPT ![v] = <<>>]
    /\ heads' = [heads EXCEPT ![v] =
                    [a \in {e.actor : e \in base} |->
                        CHOOSE e \in base : e.actor = a /\ \A d \in base : d.actor = a => d.seq <= e.seq]]
    /\ UNCHANGED <<live, base, order>>

\* An entry of the batch is invalid: no freeze, and what was pushed stays.
FailBatch(v) ==
    /\ v \in live /\ batch[v].open
    /\ batch' = [batch EXCEPT ![v] = NoBatch]
    /\ UNCHANGED <<live, base, order, overlay, overlay_order, heads>>

\* fork shares everything the view holds.
fork(v, w) ==
    /\ v \in live /\ ~batch[v].open
    /\ w \in Views \ live
    /\ live' = live \cup {w}
    /\ overlay' = [overlay EXCEPT ![w] = overlay[v]]
    /\ overlay_order' = [overlay_order EXCEPT ![w] = overlay_order[v]]
    /\ heads' = [heads EXCEPT ![w] = heads[v]]
    /\ UNCHANGED <<base, order, batch>>

\* A view is dropped while another one keeps the base alive.
Drop(v) ==
    /\ v \in live /\ ~batch[v].open
    /\ live # {v}
    /\ live' = live \ {v}
    /\ overlay' = [overlay EXCEPT ![v] = {}]
    /\ overlay_order' = [overlay_order EXCEPT ![v] = <<>>]
    /\ heads' = [heads EXCEPT ![v] = <<>>]
    /\ UNCHANGED <<base, order, batch>>

\* The ids a caller may have seen: those of any view, a sibling fork included.
Offered == UNION {Known(v) : v \in live}

Next ==
    \E v \in Views :
        \/ \E a \in Actors, observed \in SUBSET Offered, payload \in Payloads :
            \/ append(v, a, observed, payload)
            \/ \E chain_previous \in BOOLEAN :
                PushBatch(v, a, observed, chain_previous, payload)
        \/ StartBatch(v) \/ EndBatch(v) \/ FailBatch(v)
        \/ \E w \in Views : fork(v, w)
        \/ Drop(v)

Spec == Init /\ [][Next]_vars

-----------------------------------------------------------------------------

IsEntry(e) ==
    /\ e.actor \in Actors /\ e.seq \in Nat
    /\ e.clock \in [Actors -> Nat]

\* Types of the journal state; every head of a live view is an entry that get
\* finds in that view, in its overlay or in the shared base.
DagTypeOK ==
    /\ live \subseteq Views /\ live # {}
    /\ \A v \in live : \A e \in Known(v) : IsEntry(e)
    /\ \A v \in live : DOMAIN heads[v] \subseteq Actors
                       /\ \A a \in DOMAIN heads[v] : heads[v][a] \in Known(v)

\* Clocks tell causality: in any view, forks and batches included, x is in the
\* history that the clock of y summarises exactly when the clock of x happens
\* before or equals that of y, so looking at one component suffices.
ClocksTellCausality ==
    \A v \in live : \A x, y \in Known(v) :
        x.seq < y.clock[x.actor] <=> happens_before_or_equal(x.clock, y.clock)

\* Every parent is in the view and strictly before its child; in particular the
\* journal has no cycle.
ParentsPrecede ==
    \A v \in live : \A e \in Known(v) : \A p \in e.parents :
        /\ p \in Known(v)
        /\ happens_before_or_equal(p.clock, e.clock)
        /\ ~happens_before_or_equal(e.clock, p.clock)

\* An actor's entries in a view are numbered without gap or repetition up to
\* its head.
SequencesDense ==
    \A v \in live : \A a \in Actors :
        /\ \A x, y \in Known(v) : x.actor = a /\ y.actor = a /\ x.seq = y.seq => x = y
        /\ {x.seq : x \in {e \in Known(v) : e.actor = a}} = 0..(sequence(v, a) - 1)

\* A step of one view, a freeze of the shared base included, changes what no
\* other view holds, and no view ever loses or reorders an entry.
ForksIsolated ==
    [][\A v \in live \cap live' :
        /\ Len(Log(v)') >= Len(Log(v)) /\ SubSeq(Log(v)', 1, Len(Log(v))) = Log(v)
        /\ Known(v) \subseteq Known(v)'
        /\ (Known(v)' # Known(v) => \A w \in (live \cap live') \ {v} : Known(w)' = Known(w))]_vars
=============================================================================
