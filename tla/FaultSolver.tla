----------------------------- MODULE FaultSolver -----------------------------
(***************************************************************************)
(* The stateful solvers over FaultCuts: HittingSetSolver and MaxSatSolver  *)
(* with their clause and hypothesis caches, the lineage index they refresh *)
(* from call to call, and the solver state they persist and resume from    *)
(* (crates/ledger-explorer/src: solver/hitting_set.rs, solver/maxsat.rs,   *)
(* solver/config.rs, solver_cache.rs, lineage.rs, solver_state.rs).        *)
(*                                                                         *)
(* A solver is asked about subgraphs of one causal graph: ids are content  *)
(* addresses, so two journals that hold an id agree on its entry.  A hash  *)
(* of some fields is the record of those fields.  The bytes of an artifact *)
(* are the subject of DurableCodec.                                        *)
(***************************************************************************)
EXTENDS FaultCuts

CONSTANTS
    Graphs,             \* causal graphs: functions from ids to entries
    Configs,            \* solver configurations
    SolverCadical,      \* whether the build has the solver-cadical feature
    CADICAL_CUTOFF_HARD_CLAUSES,
    MaxCalls,           \* bound: questions asked and configurations set
    MaxStored           \* bound: artifacts saved

VARIABLES
    graph,              \* the entries that exist
    solver,             \* the solver in use
    stored,             \* artifacts saved in a journal
    answer,             \* what the last call was asked, and what it returned
    calls

solver_vars == <<graph, solver, stored, answer, calls>>

\* fields of a configuration: max_horizon, max_faults, engine, pins.
compute_key(closure, tag, config) == [closure |-> closure, tag |-> tag, config |-> [config EXCEPT !.engine = "Auto"]]
fingerprint(config, resolved) == [config |-> [config EXCEPT !.engine = "Auto"], engine |-> resolved]

initial_resolution(engine) == IF engine = "Cadical" /\ SolverCadical THEN "Cadical" ELSE "Builtin"

with_config(kind, config) ==
    [kind |-> kind, config |-> config, cache |-> <<>>, hyps |-> <<>>, lineage |-> None,
     resolved |-> IF kind = "hitting" THEN "Builtin" ELSE initial_resolution(config.engine)]

\* Auto takes the branch of the hitting-set solver below the cutoff.
select_solver(config, hard) ==
    CASE config.engine = "Builtin" -> with_config("hitting", config)
      [] config.engine = "Cadical" -> with_config("maxsat", config)
      [] config.engine = "Auto" ->
            IF Cardinality(hard) >= CADICAL_CUTOFF_HARD_CLAUSES /\ SolverCadical
            THEN with_config("maxsat", [config EXCEPT !.engine = "Cadical"])
            ELSE with_config("hitting", config)

NoAnswer == [clauses |-> {}, witnesses |-> {}, entries |-> {}, horizon |-> None, result |-> Failed("none")]

SolverInit ==
    /\ graph \in Graphs
    /\ \E c \in Configs, kind \in {"hitting", "maxsat"} : solver = with_config(kind, c)
    /\ stored = {}
    /\ answer = NoAnswer
    /\ calls = 0

Insert(f, k, v) == [x \in DOMAIN f \cup {k} |-> IF x = k THEN v ELSE f[x]]

\* The journal of a call holds some of the entries.
View(ids) == [h \in ids |-> graph[h]]

-----------------------------------------------------------------------------
(* The lineage index (lineage.rs).                                         *)

build(j, witnesses, config, resolved) ==
    LET walk == collect_lineage(j, witnesses, config.max_horizon)
    IN  [closure |-> walk.closure, paths |-> walk.paths, print |-> fingerprint(config, resolved)]

build_with_support(j, witnesses, config, resolved, support) ==
    LET clauses == support_clauses(j, support)
    IN  [closure |-> witnesses \cup UNION clauses, paths |-> clauses, print |-> fingerprint(config, resolved)]

refresh(index, j, witnesses, config, resolved) ==
    IF fingerprint(config, resolved) # index.print THEN build(j, witnesses, config, resolved)
    ELSE LET new == collect_lineage(j, witnesses \ index.closure, config.max_horizon)
         IN  [index EXCEPT !.closure = @ \cup new.closure, !.paths = @ \cup new.paths]

-----------------------------------------------------------------------------
(* Answers.                                                                *)

WeightedClause(j, path) == [literals |-> path, weight |-> Min({event_fault_cost(j, h) : h \in path})]
Literals(clauses) == {c.literals : c \in clauses}

\* Wording: only a strong support backs a minimum; a horizon counts as a cut walk.
claim_of(support, horizon) ==
    IF is_strong(support) THEN "minimum" ELSE IF horizon # None THEN "bounded" ELSE "heuristic"

Costs(j, events) == [h \in events |-> event_fault_cost(j, h)]

\* The hypotheses of a full solve over the clauses; a failure if the budget is exceeded.
SolvedHypotheses(j, clauses, claim) ==
    LET found == compute_minimal_hitting_sets(Literals(clauses))
    IN  IF IsFailure(found) THEN found
        ELSE [hyps |-> samc_prune(j, {Hypothesis(Costs(j, s), s, claim) : s \in found.sets})]

\* The hypotheses of an incremental solve: without a journal, an event costs what
\* its cheapest clause weighs, and nothing is pruned.
IncrementalHypotheses(clauses, horizon) ==
    LET found == compute_minimal_hitting_sets(Literals(clauses))
        cost == [h \in UNION Literals(clauses) |-> Min({c.weight : c \in {d \in clauses : h \in d.literals}})]
        claim == claim_of(support_from_paths(Literals(clauses), horizon # None), horizon)
    IN  IF clauses = {} THEN [hyps |-> <<>>]
        ELSE IF IsFailure(found) THEN found
        ELSE [hyps |-> SetToSortSeq({Hypothesis(cost, s, claim) : s \in found.sets}, Cheaper)]

\* A cached answer serves only a question with the clauses it was derived from.
CacheHit_by_key(s, key, clauses) == key \in DOMAIN s.hyps
CacheHit(s, key, clauses) ==
    key \in DOMAIN s.hyps /\ key \in DOMAIN s.cache /\ s.cache[key] = clauses

Answered(clauses, witnesses, j, result) ==
    answer' = [clauses |-> clauses, witnesses |-> witnesses, entries |-> DOMAIN j,
               horizon |-> solver.config.max_horizon, result |-> result]

\* From the cache, or by solving: the clauses are cached before the search, the
\* hypotheses after it.
Conclude(s, j, witnesses, key, clauses, solved) ==
    IF CacheHit(s, key, clauses)
    THEN /\ solver' = s
         /\ Answered(clauses, witnesses, j, [hyps |-> s.hyps[key]])
    ELSE /\ solver' = [s EXCEPT !.cache = Insert(@, key, clauses),
                                !.hyps = IF IsFailure(solved) THEN @ ELSE Insert(@, key, solved.hyps)]
         /\ Answered(clauses, witnesses, j, solved)

Call == calls < MaxCalls /\ calls' = calls + 1 /\ UNCHANGED graph

-----------------------------------------------------------------------------
(* HittingSetSolver.                                                       *)

solve(j, witnesses) ==
    LET fresh == IF solver.lineage # None THEN solver.lineage[1]
                 ELSE build(j, witnesses, solver.config, solver.resolved)
        index == refresh(fresh, j, witnesses, solver.config, solver.resolved)
        s == [solver EXCEPT !.lineage = Some(index)]
        paths == {p \cap DOMAIN j : p \in index.paths} \ {{}}
        clauses == {WeightedClause(j, p) : p \in paths}
        claim == claim_of(support_from_paths(paths, solver.config.max_horizon # None), solver.config.max_horizon)
        key == compute_key(witnesses, "Builtin", solver.config)
    IN  /\ Call /\ UNCHANGED stored
        /\ solver.kind = "hitting"
        /\ witnesses # {} \/ DOMAIN j # {}
        /\ IF paths = {}
           THEN /\ solver' = s
                /\ Answered({}, witnesses, j,
                            IF witnesses = {} THEN [hyps |-> <<>>] ELSE Failed(EmptyProvenance))
           ELSE Conclude(s, j, witnesses, key, clauses, SolvedHypotheses(j, clauses, claim))

solve_with_support(j, witnesses, support) ==
    LET clauses == {WeightedClause(j, c) : c \in support_clauses(j, support)}
        key == compute_key(witnesses, "Builtin", solver.config)
    IN  /\ Call /\ UNCHANGED stored
        /\ solver.kind = "hitting"
        /\ witnesses # {} \/ DOMAIN j # {}
        /\ IF clauses = {}
           THEN solver' = solver /\ Answered({}, {}, j, Failed(EmptyProvenance))
           ELSE Conclude(solver, j, {}, key, clauses,
                         SolvedHypotheses(j, clauses, claim_of(support, solver.config.max_horizon)))

set_config(config) ==
    /\ Call /\ UNCHANGED <<stored, answer>>
    /\ solver.kind = "hitting"
    /\ solver' = [solver EXCEPT !.config = config]

-----------------------------------------------------------------------------
(* MaxSatSolver, which keeps its caches in a HittingSetSolver.             *)

resolve_backend(clauses) ==
    IF /\ SolverCadical
       /\ \/ solver.config.engine = "Cadical"
          \/ solver.config.engine = "Auto" /\ Cardinality(clauses) >= CADICAL_CUTOFF_HARD_CLAUSES
    THEN "Cadical" ELSE "Builtin"

solve_with_certificate(j, witnesses) ==
    LET enc == encode_hazard(j, witnesses, solver.config.max_horizon, solver.config.max_faults)
        engine == resolve_backend(enc.hard)
        s == [solver EXCEPT !.resolved = engine]
        clauses == {WeightedClause(j, c) : c \in enc.hard}
        key == compute_key(witnesses, engine, solver.config)
        claim == claim_of(support_from_paths(enc.hard, solver.config.max_horizon # None), solver.config.max_horizon)
    IN  /\ Call /\ UNCHANGED stored
        /\ solver.kind = "maxsat"
        /\ witnesses # {} \/ DOMAIN j # {}
        /\ IF IsFailure(enc)
           THEN solver' = solver /\ Answered({}, witnesses, j, enc)
           ELSE \E sol \in IF engine = "Cadical" THEN solve_maxsat_incremental(enc) ELSE {solve_maxsat_bnb(enc)} :
                   IF IsFailure(sol)
                   THEN /\ solver' = [s EXCEPT !.cache = Insert(@, key, clauses)]
                        /\ Answered(clauses, witnesses, j, sol)
                   ELSE LET hyps == <<[events |-> sol.cut, total_cost |-> sol.total_cost, claim |-> claim]>>
                        IN  /\ solver' = [s EXCEPT !.cache = Insert(@, key, clauses),
                                                   !.hyps = Insert(@, key, hyps)]
                            /\ Answered(clauses, witnesses, j, [hyps |-> hyps])

\* Either solver; the clauses come with the hash of their closure.
solve_incremental(j, closure, clauses) ==
    LET engine == IF solver.kind = "maxsat" THEN resolve_backend(clauses) ELSE "Builtin"
        key == compute_key(closure, engine, solver.config)
    IN  /\ Call /\ UNCHANGED stored
        /\ Conclude([solver EXCEPT !.resolved = engine], j, {}, key, clauses,
                    IncrementalHypotheses(clauses, solver.config.max_horizon))

-----------------------------------------------------------------------------
(* Persisted state (solver_state.rs).                                      *)

snapshot_artifact(s) ==
    [closures |-> {[key |-> k,
                    clauses |-> IF k \in DOMAIN s.cache THEN s.cache[k] ELSE {},
                    hyps |-> IF k \in DOMAIN s.hyps
                             THEN [i \in DOMAIN s.hyps[k] |->
                                     [events |-> s.hyps[k][i].events, total_cost |-> s.hyps[k][i].total_cost]]
                             ELSE <<>>] : k \in DOMAIN s.cache \cup DOMAIN s.hyps},
     print |-> fingerprint(s.config, s.resolved),
     run_config_hash |-> s.config.run_config_hash,
     engine |-> s.resolved]

\* Saving what is saved already changes nothing.
persist_state ==
    /\ UNCHANGED <<graph, calls, solver, answer>>
    /\ Cardinality(stored) < MaxStored
    /\ stored' = stored \cup {snapshot_artifact(solver)}

Covered(closure) ==
    \A i \in DOMAIN closure.hyps : closure.hyps[i].events \subseteq UNION Literals(closure.clauses)

Accepts(s, artifact) ==
    /\ artifact.engine = s.resolved
    /\ artifact.run_config_hash = s.config.run_config_hash
    /\ artifact.print = fingerprint(s.config, s.resolved)
    /\ \A c \in artifact.closures : Covered(c)

\* Hypotheses are restored with non-empty clauses; everything is validated first.
Warmed(s, artifact) ==
    LET at(k) == CHOOSE c \in artifact.closures : c.key = k
        keys == {c.key : c \in artifact.closures}
        hyp_keys == {c.key : c \in {d \in artifact.closures : d.hyps # <<>> /\ d.clauses # {}}}
    IN  [s EXCEPT !.cache = [k \in DOMAIN @ \cup keys |-> IF k \in keys THEN at(k).clauses ELSE @[k]],
                  !.hyps = [k \in DOMAIN @ \cup hyp_keys |->
                              IF k \in hyp_keys
                              THEN [i \in DOMAIN at(k).hyps |->
                                      [events |-> at(k).hyps[i].events, total_cost |-> at(k).hyps[i].total_cost,
                                       claim |-> "resumed"]]
                              ELSE @[k]]]

resume(artifact) ==
    /\ UNCHANGED <<graph, calls, stored, answer>>
    /\ solver' = IF Accepts(solver, artifact) THEN Warmed(solver, artifact) ELSE solver

\* A later campaign constructs its solver anew.
Restart(config, hard) ==
    /\ UNCHANGED <<graph, calls, stored, answer>>
    /\ solver' = select_solver(config, hard)

-----------------------------------------------------------------------------
(* Properties.                                                             *)

\* An answer is made of inclusion-minimal cuts of the clauses it was asked
\* about, whether it was computed, cached, or resumed from another solver's
\* state.
AnswersAreMinimalCuts ==
    ~IsFailure(answer.result) =>
        \A i \in DOMAIN answer.result.hyps :
            LET events == answer.result.hyps[i].events
            IN  /\ \A c \in answer.clauses : events \cap c.literals # {}
                /\ \A h \in events : \E c \in answer.clauses : c.literals \cap events = {h}

\* Every hypothesis for a verdict breaks every derivation of each of its
\* witnesses in the journal of the call, also when the lineage index was built
\* for other witnesses before.
AnswersCutDerivations ==
    ~IsFailure(answer.result) =>
        \A i \in DOMAIN answer.result.hyps : \A w \in answer.witnesses :
            \A p \in collect_lineage(View(answer.entries), {w}, answer.horizon).paths :
                answer.result.hyps[i].events \cap p # {}
=============================================================================
