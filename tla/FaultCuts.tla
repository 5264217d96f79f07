------------------------------ MODULE FaultCuts ------------------------------
(***************************************************************************)
(* The pure part of lineage-driven fault injection: from a journal and the *)
(* witnesses of a violation to the derivation paths that support them, to  *)
(* the sets of events that cut every path, and to the faults that inject   *)
(* such a cut (crates/ledger-explorer/src: maxsat.rs, maxsat_cadical.rs,   *)
(* lineage.rs, support.rs, solver/, ldfi.rs, and the path check of         *)
(* certs.rs).                                                              *)
(*                                                                         *)
(* A journal is a function from the ids it holds to entries; a parent that *)
(* is not in its domain is one that journal.get does not find, as in a     *)
(* subgraph.  Ids are numbers: the order of hashes is the order of numbers.*)
(* Paths, clauses and cuts are sets of ids, which is what sorting and      *)
(* deduplicating the code's vectors makes of them.  The budgets of the two *)
(* unbounded walks (millions of cells) are not reached by a small journal  *)
(* and are left out; the budgets of the solvers are parameters.            *)
(***************************************************************************)
EXTENDS Integers, Sequences, FiniteSets, FiniteSetsExt, SequencesExt

CONSTANTS
    MAX_HITTING_SET_CANDIDATES,
    MAXSAT_BNB_MAX_NODES,
    MAXSAT_BNB_MAX_COST_UNITS

\* An Option: the empty sequence, or a sequence of one value.
None == <<>>
Some(x) == <<x>>
EmptyProvenance == "EmptyProvenance"
BudgetExhausted == "BudgetExhausted"
Unsupported == "Unsupported"
Failed(e) == [err |-> e]
IsFailure(r) == "err" \in DOMAIN r

parents(j, h) == ToSet(j[h].parents)

is_faultable(kind) == kind \in {"Send", "Recv", "FsRead", "FsWrite", "TimerFire", "TimerSet"}

Own(j, h) == IF is_faultable(j[h].kind) THEN {h} ELSE {}

event_fault_cost(j, h) ==
    IF h \notin DOMAIN j THEN 10
    ELSE CASE j[h].kind \in {"Send", "Recv"} -> 2
           [] j[h].kind \in {"TimerFire", "TimerSet"} -> 3
           [] j[h].kind \in {"FsRead", "FsWrite"} -> 4
           [] OTHER -> 5

\* The order of vectors of hashes: lexicographic, a prefix first.
Ids(S) == SelectSeq([i \in 1 .. Max(S \cup {0}) |-> i], LAMBDA h : h \in S)
LexLess(s, t) ==
    LET k == LongestCommonPrefix({s, t})
        n == Len(k)
    IN  s # t /\ (n = Len(s) \/ (n < Len(t) /\ s[n + 1] < t[n + 1]))
SetLess(A, B) == LexLess(Ids(A), Ids(B))

-----------------------------------------------------------------------------
(* Support expressions (support.rs).                                       *)

Opaque == [tag |-> "Opaque"]
AllOf(ids) == [tag |-> "AllOf", ids |-> ids]
AnyOf(branches) == [tag |-> "AnyOf", branches |-> branches]

RECURSIVE is_strong(_)
is_strong(e) ==
    CASE e.tag = "AllOf" -> TRUE
      [] e.tag = "AnyOf" -> \A b \in e.branches : is_strong(b)
      [] e.tag = "Opaque" -> FALSE

RECURSIVE eval_depth(_, _, _, _)
eval_depth(e, j, horizon, depth) ==
    IF horizon # None /\ depth > horizon[1] THEN "Unknown"
    ELSE CASE e.tag = "Opaque" -> "Unknown"
           [] e.tag = "AllOf" -> IF e.ids \subseteq DOMAIN j THEN "Satisfied" ELSE "NotSatisfied"
           [] e.tag = "AnyOf" ->
                LET outcomes == {eval_depth(b, j, horizon, depth + 1) : b \in e.branches}
                IN  IF "Satisfied" \in outcomes THEN "Satisfied"
                    ELSE IF "Unknown" \in outcomes THEN "Unknown" ELSE "NotSatisfied"

all_of_ids(ids) == IF ids = {} THEN Opaque ELSE AllOf(ids)

RECURSIVE hard_clauses_from_support(_)
hard_clauses_from_support(e) ==
    CASE e.tag = "AllOf" -> {e.ids} \ {{}}
      [] e.tag = "AnyOf" -> UNION {hard_clauses_from_support(b) : b \in e.branches}
      [] e.tag = "Opaque" -> {}

\* A branch list of one AllOf is that AllOf; a cut walk adds an Opaque branch.
support_from_paths(paths, truncated) ==
    LET branches == {AllOf(p) : p \in paths \ {{}}} \cup (IF truncated THEN {Opaque} ELSE {})
    IN  IF branches = {} THEN Opaque
        ELSE IF Cardinality(branches) = 1 /\ ~truncated THEN CHOOSE b \in branches : TRUE
        ELSE AnyOf(branches)

-----------------------------------------------------------------------------
(* The walks that collect derivation paths.  A walk of the encoder builds  *)
(* paths from the roots up and keeps a memo; those of the lineage index    *)
(* and of the certificate check build them from the witness down.          *)

RECURSIVE collect_memo(_, _)
collect_memo(j, cur) ==
    IF cur \notin DOMAIN j THEN {}
    ELSE IF parents(j, cur) = {} THEN {Own(j, cur)}
    ELSE {p \cup Own(j, cur) : p \in UNION {collect_memo(j, q) : q \in parents(j, cur)}}

RECURSIVE collect_bounded_memo(_, _, _, _)
collect_bounded_memo(j, cur, depth, limit) ==
    IF depth > limit THEN {{}}
    ELSE IF cur \notin DOMAIN j THEN {}
    ELSE IF parents(j, cur) = {} THEN {Own(j, cur)}
    ELSE {p \cup Own(j, cur) :
            p \in UNION {collect_bounded_memo(j, q, depth + 1, limit) : q \in parents(j, cur)}}

\* Whether a walk bounded by limit meets the bound.
RECURSIVE truncated_at(_, _, _, _)
truncated_at(j, cur, depth, limit) ==
    \/ depth > limit
    \/ cur \in DOMAIN j /\ \E q \in parents(j, cur) : truncated_at(j, q, depth + 1, limit)

RECURSIVE collect_bounded_hash(_, _, _, _, _)
collect_bounded_hash(j, cur, depth, max_depth, path) ==
    IF depth > max_depth THEN {path} \ {{}}
    ELSE IF cur \notin DOMAIN j THEN {}
    ELSE LET pushed == path \cup Own(j, cur)
         IN  IF parents(j, cur) = {} THEN {pushed} \ {{}}
             ELSE UNION {collect_bounded_hash(j, q, depth + 1, max_depth, pushed) : q \in parents(j, cur)}

RECURSIVE collect_hash(_, _, _)
collect_hash(j, cur, path) ==
    IF cur \notin DOMAIN j THEN {}
    ELSE LET pushed == path \cup Own(j, cur)
         IN  IF parents(j, cur) = {} THEN {pushed} \ {{}}
             ELSE UNION {collect_hash(j, q, pushed) : q \in parents(j, cur)}

\* The entries a lineage walk inserts into the closure.
RECURSIVE walk_closure(_, _, _, _)
walk_closure(j, cur, depth, horizon) ==
    IF cur \notin DOMAIN j \/ (horizon # None /\ depth > horizon[1]) THEN {}
    ELSE {cur} \cup UNION {walk_closure(j, q, depth + 1, horizon) : q \in parents(j, cur)}

collect_lineage(j, witnesses, horizon) ==
    LET raw == UNION {IF horizon # None THEN collect_bounded_hash(j, w, 0, horizon[1], {})
                                        ELSE collect_hash(j, w, {}) : w \in witnesses}
        bounded_cut == horizon # None /\ \E w \in witnesses : truncated_at(j, w, 0, horizon[1])
        clauses == hard_clauses_from_support(support_from_paths(raw, bounded_cut))
    IN  [closure |-> UNION {walk_closure(j, w, 0, horizon) : w \in witnesses},
         paths |-> IF clauses = {} THEN raw \ {{}} ELSE clauses]

\* The walk of the certificate check; a path never meets an entry twice.
RECURSIVE collect_fault_paths(_, _, _, _, _)
collect_fault_paths(j, cur, depth, horizon, path) ==
    IF depth > horizon THEN {path} \ {{}}
    ELSE IF cur \in path \/ cur \notin DOMAIN j THEN {}
    ELSE LET pushed == path \cup Own(j, cur)
         IN  IF parents(j, cur) = {} THEN {pushed} \ {{}}
             ELSE UNION {collect_fault_paths(j, q, depth + 1, horizon, pushed) : q \in parents(j, cur)}

collect_fault_paths_iterative(j, witnesses, horizon) ==
    UNION {collect_fault_paths(j, w, 0, horizon, {}) : w \in witnesses}

-----------------------------------------------------------------------------
(* Hazard encodings (maxsat.rs).                                           *)

\* hard: the clauses; cost: the weight of each literal; max_true: the
\* cardinality bound, if any.
Encoding(j, hard, max_faults) ==
    [hard |-> hard, cost |-> [h \in UNION hard |-> event_fault_cost(j, h)], max_true |-> max_faults]

encode_hazard(j, witnesses, horizon, max_faults) ==
    LET walked == UNION {IF horizon # None THEN collect_bounded_memo(j, w, 0, horizon[1])
                                           ELSE collect_memo(j, w) : w \in witnesses}
        truncated == horizon # None /\ \E w \in witnesses : truncated_at(j, w, 0, horizon[1])
        hard == hard_clauses_from_support(support_from_paths(walked \ {{}}, truncated))
    IN  IF ~(witnesses \subseteq DOMAIN j) THEN Failed("MissingParent")
        ELSE IF hard = {} /\ witnesses # {} THEN Failed(EmptyProvenance)
        ELSE Encoding(j, hard, max_faults)

\* The clauses of a declared support that name faultable entries of j.
support_clauses(j, support) ==
    {{h \in c : h \in DOMAIN j /\ is_faultable(j[h].kind)} : c \in hard_clauses_from_support(support)} \ {{}}

encode_hazard_with_support(j, witnesses, violated, max_faults, support) ==
    LET hard == support_clauses(j, support)
    IN  IF ~(witnesses \subseteq DOMAIN j) THEN Failed("MissingParent")
        ELSE IF hard = {} /\ (witnesses # {} \/ violated) THEN Failed(EmptyProvenance)
        ELSE Encoding(j, hard, max_faults)

-----------------------------------------------------------------------------
(* The exact hitting-set engine (solver/mod.rs, solver/hitting_set.rs).    *)

prune_supersets(sets) == {s \in sets : ~\E t \in sets : t \subseteq s /\ t # s}

\* One path: a candidate that misses it is extended by each of its events.
Expand(candidates, path) ==
    UNION {IF c \cap path # {} THEN {c} ELSE {c \cup {h} : h \in path} : c \in candidates}

\* How many candidates the code lists before it prunes, duplicates included.
Listed(candidates, path) ==
    MapThenSumSet(LAMBDA c : IF c \cap path # {} THEN 1 ELSE Cardinality(path), candidates)

compute_minimal_hitting_sets(paths) ==
    FoldLeft(LAMBDA acc, p :
              IF IsFailure(acc) THEN acc
              ELSE IF Listed(acc.sets, p) > MAX_HITTING_SET_CANDIDATES THEN Failed(BudgetExhausted)
              ELSE [sets |-> prune_supersets(Expand(acc.sets, p))],
            [sets |-> {{}}], SetToSortSeq(paths, SetLess))

CutCost(cost, cut) == MapThenSumSet(LAMBDA h : cost[h], cut)

\* claim: what the explanation says of the cut.
Hypothesis(cost, events, claim) ==
    [events |-> events, total_cost |-> CutCost(cost, events), claim |-> claim]

Cheaper(a, b) ==
    \/ a.total_cost < b.total_cost
    \/ /\ a.total_cost = b.total_cost
       /\ \/ Cardinality(a.events) < Cardinality(b.events)
          \/ /\ Cardinality(a.events) = Cardinality(b.events)
             /\ SetLess(a.events, b.events)

\* The vector clocks are incomparable.  An entry keeps in past the ids of its
\* causal past: clocks compare as pasts do (JournalDag, ClocksTellCausality).
concurrent_with(j, a, b) == a \notin j[b].past /\ b \notin j[a].past

\* One event of a is exchanged for a concurrent one in b.
ConcurrentSwap(j, a, b) ==
    /\ Cardinality(a.events) = Cardinality(b.events)
    /\ Cardinality(a.events \ b.events) = 1
    /\ \E x \in a.events \ b.events, y \in b.events \ a.events :
          {x, y} \subseteq DOMAIN j /\ concurrent_with(j, x, y)

samc_prune(j, hyps) ==
    FoldLeft(LAMBDA kept, h :
              IF \E k \in ToSet(kept) : ConcurrentSwap(j, k, h) THEN kept ELSE Append(kept, h),
            <<>>, SetToSortSeq(hyps, Cheaper))

\* A walk may stop at max_depth on the way it reaches an entry first, and an
\* entry is visited once: the last target is popped first, and last parents first.
RECURSIVE closure_walk(_, _, _, _)
closure_walk(j, frontier, seen, max_depth) ==
    IF frontier = <<>> THEN seen
    ELSE LET top == Last(frontier)
             id == top[1]
             rest == Front(frontier)
         IN  IF id \in seen THEN closure_walk(j, rest, seen, max_depth)
             ELSE LET now == seen \cup {id}
                      up == IF top[2] >= max_depth \/ id \notin DOMAIN j THEN <<>>
                            ELSE SelectSeq(j[id].parents, LAMBDA p : p \notin now)
                  IN  closure_walk(j, rest \o [i \in DOMAIN up |-> <<up[i], top[2] + 1>>], now, max_depth)

causal_closure_with_horizon(j, targets, max_depth) ==
    IF ~(ToSet(targets) \subseteq DOMAIN j) THEN Failed("MissingParent")
    ELSE [ids |-> closure_walk(j, [i \in DOMAIN targets |-> <<targets[i], 0>>], {}, max_depth) \cap DOMAIN j]

-----------------------------------------------------------------------------
(* Branch and bound (maxsat.rs).                                           *)

clause_min_cost(c, cost) == Min({cost[h] : h \in c})

\* The costs of clauses that share no literal, cheapest clause first.
disjoint_lower(hard, cost) ==
    LET before(a, b) ==
            \/ clause_min_cost(a, cost) < clause_min_cost(b, cost)
            \/ /\ clause_min_cost(a, cost) = clause_min_cost(b, cost)
               /\ \/ Cardinality(a) < Cardinality(b)
                  \/ Cardinality(a) = Cardinality(b) /\ SetLess(a, b)
    IN  FoldLeft(LAMBDA acc, c :
                   IF c \cap acc.used # {} THEN acc
                   ELSE [sum |-> acc.sum + clause_min_cost(c, cost), used |-> acc.used \cup c],
                 [sum |-> 0, used |-> {}], SetToSortSeq(hard, before)).sum

\* Take the literal that covers most clauses, then the cheapest, then the first.
RECURSIVE greedy_incumbent(_, _, _)
greedy_incumbent(uncovered, cost, chosen) ==
    IF uncovered = {} THEN chosen
    ELSE LET covers(h) == Cardinality({c \in uncovered : h \in c})
             better(a, b) == \/ covers(a) > covers(b)
                             \/ /\ covers(a) = covers(b)
                                /\ cost[a] < cost[b] \/ (cost[a] = cost[b] /\ a < b)
             literal == SetToSortSeq(UNION uncovered, better)[1]
         IN  greedy_incumbent({c \in uncovered : literal \notin c}, cost, chosen \cup {literal})

\* best: the incumbent cut and cost, and the nodes visited.  The clauses before
\* start are covered already.
RECURSIVE dfs(_, _, _, _, _)
dfs(enc, clauses, best, cur, start) ==
    LET cur_cost == CutCost(enc.cost, cur)
        now == [best EXCEPT !.nodes = @ + 1]
        uncovered == {i \in start .. Len(clauses) : clauses[i] \cap cur = {}}
        clause == Min(uncovered)
        cheap_first(a, b) == enc.cost[a] < enc.cost[b] \/ (enc.cost[a] = enc.cost[b] /\ a < b)
        branch(acc, h) ==
            IF acc.err \/ cur_cost + enc.cost[h] >= acc.cost THEN acc
            ELSE dfs(enc, clauses, acc, cur \cup {h}, clause + 1)
    IN  IF now.nodes > MAXSAT_BNB_MAX_NODES THEN [now EXCEPT !.err = TRUE]
        ELSE IF cur_cost >= now.cost THEN now
        ELSE IF enc.max_true # None /\ Cardinality(cur) > enc.max_true[1] THEN now
        ELSE IF uncovered = {} THEN [now EXCEPT !.cut = cur, !.cost = cur_cost]
        ELSE FoldLeft(branch, now, SetToSortSeq(clauses[clause], cheap_first))

Solution(cut, cost, lower) == [cut |-> cut, total_cost |-> cost, lower |-> lower]

solve_maxsat_bnb(enc) ==
    LET shorter(a, b) == \/ Cardinality(a) < Cardinality(b)
                         \/ Cardinality(a) = Cardinality(b) /\ SetLess(a, b)
        greedy == greedy_incumbent(enc.hard, enc.cost, {})
        best == dfs(enc, SetToSortSeq(enc.hard, shorter),
                    [cut |-> greedy, cost |-> CutCost(enc.cost, greedy), nodes |-> 0, err |-> FALSE], {}, 1)
    IN  IF enc.hard = {} THEN Solution({}, 0, 0)
        ELSE IF CutCost(enc.cost, DOMAIN enc.cost) > MAXSAT_BNB_MAX_COST_UNITS THEN Failed(BudgetExhausted)
        ELSE IF best.err THEN Failed(BudgetExhausted)
        ELSE Solution(best.cut, best.cost, Min({disjoint_lower(enc.hard, enc.cost), best.cost}))

-----------------------------------------------------------------------------
(* The threshold search over a SAT solver (maxsat_cadical.rs).             *)

\* The sequential counter over xs: s[i][c] says that at least c of the first i
\* hold.  Its clauses force every s upwards, so they have a solution if and only
\* if the least one breaks none of the clauses that forbid a k+1st.
sequential_at_most(k, xs) ==
    LET n == Len(xs)
        s[i \in 0 .. n, c \in 0 .. k] ==
            IF c = 0 THEN TRUE
            ELSE IF c > i THEN FALSE
            ELSE (xs[i] /\ s[i - 1, c - 1]) \/ s[i - 1, c]
    IN  CASE k >= n -> TRUE
          [] k < n /\ k = 0 -> \A i \in 1 .. n : ~xs[i]
          [] k < n /\ k > 0 -> \A i \in 2 .. n : k < i => ~(xs[i] /\ s[i - 1, k])

\* Every literal has as many unit variables as it costs, each equivalent to it.
Units(enc, cut) ==
    FoldLeft(LAMBDA acc, h : acc \o [i \in 1 .. enc.cost[h] |-> h \in cut], <<>>, Ids(DOMAIN enc.cost))

\* The cuts that satisfy the clauses for threshold k; the SAT solver gives one.
try_threshold(k, enc) ==
    {cut \in SUBSET DOMAIN enc.cost :
        /\ \A c \in enc.hard : c \cap cut # {}
        /\ (enc.max_true # None /\ Cardinality(DOMAIN enc.cost) > enc.max_true[1]) =>
               sequential_at_most(enc.max_true[1], [i \in DOMAIN Ids(DOMAIN enc.cost) |-> Ids(DOMAIN enc.cost)[i] \in cut])
        /\ k < CutCost(enc.cost, DOMAIN enc.cost) => sequential_at_most(k, Units(enc, cut))}

RECURSIVE threshold_search(_, _, _)
threshold_search(enc, lo, hi) ==
    IF lo >= hi THEN hi
    ELSE LET mid == lo + (hi - lo) \div 2
         IN  IF try_threshold(mid, enc) # {} THEN threshold_search(enc, lo, mid)
             ELSE threshold_search(enc, mid + 1, hi)

\* The solutions solve_maxsat_incremental may return.
solve_maxsat_incremental(enc) ==
    LET total == CutCost(enc.cost, DOMAIN enc.cost)
        k == threshold_search(enc, 0, total)
    IN  IF enc.hard = {} THEN {Solution({}, 0, 0)}
        ELSE IF try_threshold(total, enc) = {} THEN {Failed(Unsupported)}
        ELSE {Solution(cut, k, Min({disjoint_lower(enc.hard, enc.cost), k})) : cut \in try_threshold(k, enc)}

-----------------------------------------------------------------------------
(* From a cut to a fault schedule (ldfi.rs).                               *)

\* Sends of a message that a DuplicateMessage fault names; the first send of an id.
duplicate_senders(j) ==
    {h \in DOMAIN j :
        /\ j[h].kind = "Send"
        /\ \A g \in DOMAIN j : j[g].kind = "Send" /\ j[g].msg = j[h].msg => h <= g
        /\ \E f \in DOMAIN j : j[f].kind = "DuplicateMessage" /\ j[f].msg = j[h].msg}

\* The first parent of that kind that the journal has.
ParentOfKind(j, h, kind) ==
    SelectSeq(j[h].parents, LAMBDA p : p \in DOMAIN j /\ j[p].kind = kind)

OnTarget(class, h) == [class |-> class, target |-> <<h>>]

\* The injections for one event, in the order they are pushed.
Injections(j, h) ==
    LET of_send(p, to) ==
            IF p \in duplicate_senders(j) THEN <<OnTarget("Duplicate", p)>>
            ELSE <<OnTarget("Drop", p), OnTarget("Delay", p),
                   [class |-> "Partition", target |-> <<j[p].actor, to>>]>>
        of_write(p) == <<OnTarget("Corrupt", p), OnTarget("CrashState", p)>>
        send == ParentOfKind(j, h, "Send")
        write == ParentOfKind(j, h, "FsWrite")
    IN  CASE j[h].kind = "Send" -> of_send(h, j[h].to)
          [] j[h].kind = "Recv" -> IF send = <<>> THEN <<>> ELSE of_send(send[1], j[h].actor)
          [] j[h].kind = "FsWrite" -> of_write(h)
          [] j[h].kind = "FsRead" -> IF write = <<>> THEN <<>> ELSE of_write(write[1])
          [] j[h].kind = "TimerFire" -> <<OnTarget("Delay", h)>>
          [] OTHER -> <<>>

\* Each injection once: its key is its class and target.
hypothesis_to_schedule(j, hyp) ==
    FoldLeft(LAMBDA acc, i : IF Contains(acc, i) THEN acc ELSE Append(acc, i), <<>>,
             FlattenSeq([k \in DOMAIN Ids(hyp.events) |->
                 IF Ids(hyp.events)[k] \in DOMAIN j THEN Injections(j, Ids(hyp.events)[k]) ELSE <<>>]))
=============================================================================
