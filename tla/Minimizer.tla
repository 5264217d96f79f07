------------------------------ MODULE Minimizer ------------------------------
(***************************************************************************)
(* The minimization pipeline, crates/ledger-explorer/src/minimizer, with   *)
(* the causal slices of crates/ledger-journal/src/slice.rs: a finding is   *)
(* sliced, its entries, its scheduler decisions and its inputs are reduced *)
(* by delta debugging, one probe of the oracle at a time.                  *)
(*                                                                         *)
(* Entries are their positions in the journal of the finding, decisions    *)
(* and inputs their positions in the recorded sequence, so that a          *)
(* candidate is a set of positions.  What an oracle says of a candidate is *)
(* chosen when it is first asked, and then kept: runs are deterministic.   *)
(***************************************************************************)
EXTENDS Integers, Sequences, FiniteSets, SequencesExt, FiniteSetsExt, TLC

CONSTANTS
    Lineages,               \* functions from an entry to its parents
    DecisionCounts,         \* how many decisions a finding may have
    InputCounts,            \* how many generated inputs
    CANDIDATE_REPLAY_BATCH

VARIABLES
    lineage,        \* the parents of each entry of the finding's journal
    witnesses,      \* the witnesses of its verdict
    counts,         \* its decisions and inputs
    stage,          \* "slice", "entries", "decisions", "inputs" or "done"
    dd,             \* the ddmin in progress
    memo,           \* MemoizedReplay.cache
    built,          \* the candidate of the last probe and the journal built for it
    verdict,        \* what the oracle has said, in this stage
    repro           \* MinimizedRepro

min_vars == <<lineage, witnesses, counts, stage, dd, memo, built, verdict, repro>>

Entries == DOMAIN lineage
Unknown == 0        \* a witness that is not in the journal
Order(S) == SelectSeq([i \in 1 .. Max(S \cup {0}) |-> i], LAMBDA i : i \in S)

-----------------------------------------------------------------------------
(* Causal slices.                                                          *)

RECURSIVE causal_slice(_)
causal_slice(targets) ==
    LET up == targets \cup UNION {lineage[t] : t \in targets}
    IN  IF up = targets THEN targets ELSE causal_slice(up)

\* One pass in append order: parents come before their children.
forward_cone(sources) ==
    FoldLeft(LAMBDA hit, e : IF lineage[e] \cap hit # {} THEN hit \cup {e} ELSE hit, sources, Order(Entries))

causal_slice_forward(targets) == causal_slice(forward_cone(causal_slice(targets)))

-----------------------------------------------------------------------------
(* Memoized replay.  The root of a journal is the sequence of its ids.     *)

\* The result is a journal and the cache after the call, or an error.
replay_with_root(cache, source, prefix_root, batch) ==
    LET at == {i \in DOMAIN source : source[i] = batch[1]}
        first == Min(at) - 1
        len == Len(batch)
        key == <<prefix_root, batch>>
        journal == IF key \in DOMAIN cache THEN cache[key] ELSE SubSeq(source, 1, first + len)
    IN  IF batch = <<>>
        THEN IF source # prefix_root THEN [err |-> "PrefixMismatch"] ELSE [journal |-> source, cache |-> cache]
        ELSE IF at = {} THEN [err |-> "UnknownBatchEntry"]
        ELSE IF first + len > Len(source) \/ SubSeq(source, first + 1, first + len) # batch
        THEN [err |-> "NonContiguousBatch"]
        ELSE IF SubSeq(source, 1, first) # prefix_root THEN [err |-> "PrefixMismatch"]
        ELSE [journal |-> journal, cache |-> [k \in DOMAIN cache \cup {key} |-> IF k = key THEN journal ELSE cache[k]]]

RECURSIVE replay_batches(_, _, _, _, _)
replay_batches(cache, source, prefix_len, journal, offset) ==
    IF offset >= prefix_len THEN [journal |-> journal, cache |-> cache]
    ELSE LET end == Min({offset + CANDIDATE_REPLAY_BATCH, prefix_len})
             r == replay_with_root(cache, source, journal, SubSeq(source, offset + 1, end))
         IN  IF "err" \in DOMAIN r THEN r ELSE replay_batches(r.cache, source, prefix_len, r.journal, end)

\* None is 0: the caller treats the two alike.
source_prefix_len(source, candidate) ==
    IF Order(candidate) = SubSeq(source, 1, Cardinality(candidate)) THEN Cardinality(candidate) ELSE 0

\* A leading run of the source is replayed in batches, anything else is a subgraph.
candidate_journal(cache, source, candidate) ==
    IF source_prefix_len(source, candidate) > 0
    THEN replay_batches(cache, source, source_prefix_len(source, candidate), <<>>, 0)
    ELSE [journal |-> SelectSeq(source, LAMBDA e : e \in candidate), cache |-> cache]

-----------------------------------------------------------------------------
(* Delta debugging.                                                        *)

\* "check": the whole input is to be probed; "probe": a chunk is left out.
ddmin(input) ==
    [input |-> input, current |-> input, partitions |-> 2, index |-> 0,
     status |-> IF Cardinality(input) < 2 THEN "end" ELSE "check"]
Idle == [input |-> {}, current |-> {}, partitions |-> 2, index |-> 0, status |-> "idle"]

Chunk == (Cardinality(dd.current) + dd.partitions - 1) \div dd.partitions
Start == dd.index * Chunk

candidate ==
    IF dd.status = "check" THEN dd.input
    ELSE LET seq == Order(dd.current)
         IN  {seq[i] : i \in DOMAIN seq \ (Start + 1 .. Start + Chunk)}

\* A candidate that fails becomes the current one, with one partition fewer.
Reduced ==
    [dd EXCEPT !.current = candidate, !.index = 0,
               !.partitions = Max({dd.partitions - 1, 2}),
               !.status = IF Cardinality(candidate) < 2 THEN "end" ELSE "probe"]

\* No chunk could be left out: stop at single elements, else refine.  As it would
\* be if it were not refined, or stopped before single elements:
Refined_never(d) == [d EXCEPT !.index = 0]
Refined_coarse(d) ==
    IF 2 * d.partitions > Cardinality(d.current) THEN [d EXCEPT !.status = "end"]
    ELSE [d EXCEPT !.index = 0, !.partitions = 2 * d.partitions]
Refined(d) ==
    IF d.partitions = Cardinality(d.current) THEN [d EXCEPT !.status = "end"]
    ELSE [d EXCEPT !.index = 0, !.partitions = Min({2 * d.partitions, Cardinality(d.current)})]
Kept ==
    LET next == [dd EXCEPT !.index = @ + 1]
    IN  IF next.index < dd.partitions /\ next.index * Chunk < Cardinality(dd.current) THEN next
        ELSE Refined(dd)

Probed(fails) ==
    IF dd.status = "check"
    THEN IF fails THEN [dd EXCEPT !.status = "probe"] ELSE [dd EXCEPT !.status = "end"]
    ELSE IF fails THEN Reduced ELSE Kept

-----------------------------------------------------------------------------
(* The pipeline.                                                           *)

MinInit ==
    /\ lineage \in Lineages
    /\ witnesses \in SUBSET (DOMAIN lineage \cup {Unknown})
    /\ counts \in [decisions : DecisionCounts, inputs : InputCounts]
    /\ stage = "slice"
    /\ dd = Idle
    /\ memo = <<>>
    /\ built = [asked |-> {}, journal |-> {}]
    /\ verdict = <<>>
    /\ repro = [slice |-> {}, entries |-> {}, violations_preserved |-> FALSE,
                decisions |-> {}, inputs |-> {}, inputs_preserved |-> TRUE]

\* The oracle's answer on c: what it said before, or either.
Says(c, r) ==
    /\ c \in DOMAIN verdict => r = verdict[c]
    /\ verdict' = [x \in DOMAIN verdict \cup {c} |-> IF x = c THEN r ELSE verdict[x]]

\* The slice is kept when it can be taken and still violates.
TakeSlice ==
    /\ stage = "slice"
    /\ \E r \in BOOLEAN :
         LET sliced == witnesses # {} /\ Unknown \notin witnesses
             slice == causal_slice_forward(witnesses)
             kept == IF sliced /\ r THEN slice ELSE Entries
         IN  /\ IF sliced THEN Says(slice, r) ELSE ~r /\ UNCHANGED verdict
             /\ dd' = ddmin(kept)
             /\ repro' = [repro EXCEPT !.slice = kept]
    /\ stage' = "entries"
    /\ UNCHANGED <<lineage, witnesses, counts, memo, built>>

\* One probe of the journal stage.
ProbeEntries ==
    /\ stage = "entries" /\ dd.status \in {"check", "probe"}
    /\ LET made == candidate_journal(memo, Order(repro.slice), candidate)
       IN  IF "err" \in DOMAIN made
           THEN dd' = Probed(FALSE) /\ built' = [asked |-> candidate, journal |-> {}] /\ UNCHANGED <<memo, verdict>>
           ELSE \E r \in BOOLEAN :
                   /\ Says(ToSet(made.journal), r)
                   /\ dd' = Probed(r)
                   /\ memo' = made.cache
                   /\ built' = [asked |-> candidate, journal |-> ToSet(made.journal)]
    /\ UNCHANGED <<lineage, witnesses, counts, stage, repro>>

\* The final claim is derived from the journal of the reduced entries.
EndEntries ==
    /\ stage = "entries" /\ dd.status = "end"
    /\ \E r \in BOOLEAN :
         /\ dd.current \in DOMAIN verdict => r = verdict[dd.current]
         /\ repro' = [repro EXCEPT !.entries = dd.current, !.violations_preserved = r]
    /\ stage' = "decisions"
    /\ dd' = ddmin(1 .. counts.decisions)
    /\ verdict' = <<>> /\ memo' = <<>> /\ built' = [asked |-> {}, journal |-> {}]
    /\ UNCHANGED <<lineage, witnesses, counts>>

\* Probes of the stages that run the workload again: a run that fails to
\* replay does not violate.
ProbeRun ==
    /\ stage \in {"decisions", "inputs"} /\ dd.status \in {"check", "probe"}
    /\ \E r \in BOOLEAN : Says(candidate, r) /\ dd' = Probed(r)
    /\ UNCHANGED <<lineage, witnesses, counts, stage, memo, built, repro>>

\* minimize_input probes the recorded inputs before it reduces them.
EndDecisions ==
    /\ stage = "decisions" /\ dd.status = "end"
    /\ \E r \in BOOLEAN, generator \in BOOLEAN :
         /\ repro' = [repro EXCEPT !.decisions = dd.current, !.inputs_preserved = generator => r,
                                   !.inputs = IF generator THEN 1 .. counts.inputs ELSE {}]
         /\ verdict' = IF generator THEN (1 .. counts.inputs) :> r ELSE <<>>
         /\ dd' = IF generator /\ r THEN ddmin(1 .. counts.inputs)
                  ELSE [Idle EXCEPT !.status = "end", !.current = IF generator THEN 1 .. counts.inputs ELSE {}]
    /\ stage' = "inputs"
    /\ UNCHANGED <<lineage, witnesses, counts, memo, built>>

EndInputs ==
    /\ stage = "inputs" /\ dd.status = "end"
    /\ repro' = [repro EXCEPT !.inputs = dd.current]
    /\ stage' = "done"
    /\ UNCHANGED <<lineage, witnesses, counts, dd, memo, built, verdict>>

MinNext == TakeSlice \/ ProbeEntries \/ EndEntries \/ ProbeRun \/ EndDecisions \/ EndInputs

\* The pipeline is one sequential call.  MinNext is enabled until it is done, so
\* this is weak fairness of MinNext.
MinFairness == []<>(stage = "done") \/ []<><<MinNext>>_min_vars

MinSpec == MinInit /\ [][MinNext]_min_vars /\ MinFairness

-----------------------------------------------------------------------------
(* Properties.                                                             *)

\* A reduction that started from a failing input ends on a failing one from
\* which no single element can be left out without the failure going away, for
\* any predicate (minimizer/ddmin.rs: "Return a one-minimal failing subset").
\* A single element is never compared with the empty candidate.
OneMinimal ==
    (dd.status = "end" /\ dd.input \in DOMAIN verdict /\ verdict[dd.input] /\ Cardinality(dd.input) >= 2) =>
        /\ dd.current \in DOMAIN verdict /\ verdict[dd.current]
        /\ Cardinality(dd.current) >= 2 =>
              \A x \in dd.current : (dd.current \ {x}) \in DOMAIN verdict /\ ~verdict[dd.current \ {x}]

\* The journal a probe is asked about holds exactly the entries of its
\* candidate, whatever the memo has seen before, and replaying a candidate never
\* breaks the memo's contract (minimizer/mod.rs, candidate_journal).
MemoExact == built.journal = built.asked /\ \A k \in DOMAIN memo : memo[k] = k[1] \o k[2]

\* The entries that are minimized stand on their own: they hold the parents of
\* each of them (causal_slice_forward: "keeping the slice self-contained").
SliceStandsAlone == stage = "entries" => \A e \in repro.slice : lineage[e] \subseteq repro.slice

=============================================================================
