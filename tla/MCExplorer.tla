------------------------------ MODULE MCExplorer ------------------------------
(***************************************************************************)
(* The explorer, one part at a time: fault cuts over every small journal,  *)
(* the solvers with their caches, certificates, minimization, the feedback *)
(* campaign, the other campaigns, and the oracles.                         *)
(***************************************************************************)
EXTENDS FaultSolver, Certificates, Minimizer, Feedback, Campaigns, Oracles

CONSTANTS
    Parts,          \* the parts of this run
    CutKinds, CutActors, MaxEntries

VARIABLES
    part,           \* the part at work
    cut_journal     \* the journal that the operators on cuts are applied to

explorerVars == <<part, cut_journal, solver_vars, cert_vars, min_vars, feedback_vars, campaign_vars, oracle_vars>>

-----------------------------------------------------------------------------
(* Cuts over every journal that a few appends make.                        *)

Heads(j, a) == {h \in DOMAIN j : j[h].actor = a /\ \A g \in DOMAIN j : j[g].actor = a => g <= h}

\* Journal::append: the actor's last entry, then the observed ones.
AppendEntry(j, kind, actor, observed) ==
    LET own == Heads(j, actor)
    IN  Append(j, [kind |-> kind, actor |-> actor, parents |-> Ids(own) \o Ids(observed \ own), msg |-> Len(j) + 1,
                   to |-> 1, past |-> {Len(j) + 1} \cup UNION {j[p].past : p \in own \cup observed}])

Grow ==
    /\ Len(cut_journal) < MaxEntries
    /\ \E k \in CutKinds, a \in CutActors :
         \E observed \in SUBSET (DOMAIN cut_journal \ Heads(cut_journal, a)) :
            cut_journal' = AppendEntry(cut_journal, k, a, observed)

SolverConfig(h, e) == [max_horizon |-> h, max_faults |-> None, engine |-> e, run_config_hash |-> 0, pins |-> 0]
LastId == Len(cut_journal)
HittingSets(paths) == {s \in SUBSET UNION paths : \A p \in paths : s \cap p # {}}
MinimalHittingSets(paths) == {s \in HittingSets(paths) : \A t \in SUBSET s : t \in HittingSets(paths) => t = s}
Horizons == {None, Some(0), Some(1), Some(2)}

\* Within its budget the hitting-set enumeration returns exactly the minimal sets
\* that meet every derivation of the witness, and the reduction of concurrent
\* alternatives keeps the cheapest and drops a cut only for an equivalent one
\* that it keeps (compute_minimal_hitting_sets, samc_prune).
HittingSetsExact ==
    cut_journal # <<>> =>
      \A paths \in {collect_lineage(cut_journal, {LastId}, None).paths} : paths # {} =>
        \A sets \in {compute_minimal_hitting_sets(paths).sets} :
          \A hyps \in {{Hypothesis([h \in UNION paths |-> event_fault_cost(cut_journal, h)], s, "minimum") : s \in sets}} :
            \A kept \in {samc_prune(cut_journal, hyps)} :
              /\ sets = MinimalHittingSets(paths)
              /\ \A h \in hyps : /\ kept[1].total_cost <= h.total_cost
                                 /\ \E i \in DOMAIN kept : kept[i] = h \/ ConcurrentSwap(cut_journal, kept[i], h)

\* Branch and bound and the threshold search over a SAT solver both return a cut
\* of the least cost, their lower bound is sound, and the check of certificates,
\* which walks the journal by itself, accepts the cut at every horizon
\* (solve_maxsat_bnb, solve_maxsat_incremental, verify_inclusion_minimal).
EnginesAgree ==
    \A hz \in Horizons : cut_journal # <<>> =>
      \A enc \in {encode_hazard(cut_journal, {LastId}, hz, None)} :
        IF IsFailure(enc) THEN hz # None => collect_fault_paths_iterative(cut_journal, {LastId}, hz[1]) = {}
        ELSE \A best \in {Min({CutCost(enc.cost, s) : s \in HittingSets(enc.hard)})}, bnb \in {solve_maxsat_bnb(enc)} :
               /\ \A s \in solve_maxsat_incremental(enc) \cup {bnb} :
                    s.total_cost = best /\ CutCost(enc.cost, s.cut) = best /\ s.cut \in HittingSets(enc.hard)
               /\ bnb.lower <= best
               /\ hz # None => Essential(collect_fault_paths_iterative(cut_journal, {LastId}, hz[1]), bnb.cut)

\* A support that declares the derivations of the witness gives the encoding and
\* the lineage index that walking the journal gives, and an unbounded causal
\* closure is the past of the witness (encode_hazard_with_support,
\* build_with_support, causal_closure_with_horizon).
DeclaredSupportAgrees ==
    cut_journal # <<>> =>
      \A paths \in {collect_lineage(cut_journal, {LastId}, None).paths} :
        \A declared \in {IF Cardinality(paths) = 1 THEN all_of_ids(UNION paths) ELSE support_from_paths(paths, FALSE)} :
          /\ encode_hazard_with_support(cut_journal, {LastId}, TRUE, None, declared)
               = encode_hazard(cut_journal, {LastId}, None, None)
          /\ build_with_support(cut_journal, {LastId}, SolverConfig(None, "Auto"), "Builtin", declared).paths = paths
          /\ causal_closure_with_horizon(cut_journal, <<LastId>>, Len(cut_journal)).ids = cut_journal[LastId].past
          /\ \A d \in 0 .. 2 : causal_closure_with_horizon(cut_journal, <<LastId>>, d).ids \subseteq cut_journal[LastId].past

-----------------------------------------------------------------------------
(* Instances.                                                              *)

Entry(kind, actor, ps, past) == [kind |-> kind, actor |-> actor, parents |-> ps, past |-> past, msg |-> 0, to |-> 2]
MCGraphs ==
    {<<Entry("Send", 1, <<>>, {1}), Entry("FsWrite", 2, <<>>, {2}), Entry("Recv", 2, <<2, 1>>, {1, 2, 3}),
       Entry("Outcome", 2, <<3>>, {1, 2, 3, 4}), Entry("Outcome", 1, <<1>>, {1, 5})>>,
     <<Entry("Send", 1, <<>>, {1}), Entry("Send", 2, <<>>, {2}), Entry("FsWrite", 3, <<1, 2>>, {1, 2, 3}),
       Entry("Outcome", 3, <<3>>, {1, 2, 3, 4}), Entry("Outcome", 2, <<2>>, {2, 5})>>}
MCConfigs == {SolverConfig(None, "Auto"), SolverConfig(Some(1), "Builtin"), SolverConfig(None, "Cadical")}
Witnesses == {{4}, {5}, {4, 5}}
Views == {1 .. 5, 1 .. 4}       \* ancestor-closed, as journals are
Supports == {AllOf({1, 2, 3}), AllOf({3}), AnyOf({AllOf({1}), AllOf({2})}), AnyOf({AllOf({1, 2}), AllOf({3}), Opaque}), Opaque}
ClauseSets == {{[literals |-> {1, 2}, weight |-> 2]}, {[literals |-> {1, 3}, weight |-> 2], [literals |-> {2}, weight |-> 4]}}

MCCertJournals ==
    <<<<Entry("Send", 1, <<>>, {}), Entry("FsWrite", 1, <<>>, {}), Entry("Recv", 1, <<1>>, {}), Entry("Outcome", 1, <<3, 2>>, {})>>,
      <<Entry("Send", 1, <<>>, {}), Entry("TimerFire", 1, <<1>>, {}), Entry("Send", 1, <<1>>, {}),
        Entry("Outcome", 1, <<2, 3>>, {}), Entry("Outcome", 1, <<3>>, {})>>,
      <<Entry("Epoch", 1, <<>>, {}), Entry("Send", 1, <<1>>, {}), Entry("Outcome", 1, <<2>>, {})>>>>
MCCertHorizons == {None} \cup {Some(n) : n \in 0 .. 4}

MCLineages == {(1 :> {} @@ 2 :> {1} @@ 3 :> {} @@ 4 :> {2}), (1 :> {} @@ 2 :> {} @@ 3 :> {1, 2} @@ 4 :> {1})}

MCFeedbackJournals ==
    {<<Entry("Send", 1, <<>>, {}), Entry("FsWrite", 2, <<>>, {}), Entry("Recv", 2, <<1>>, {}),
       Entry("FsWrite", 1, <<>>, {}), Entry("TimerFire", 1, <<>>, {})>>}
Cut(S) == [events |-> S, cost |-> 1]
MCFeedbackCuts ==
    {<<Cut({3}), Cut({2}), Cut({4})>>, <<Cut({2, 4}), Cut({1, 4}), Cut({4}), Cut({5})>>,
     <<Cut({5}), Cut({2, 3}), Cut({4, 1})>>, <<>>}

-----------------------------------------------------------------------------
(* The parts side by side; a part that is not at work stands still.        *)

ExplorerInit ==
    /\ part \in Parts
    /\ cut_journal = <<>>
    /\ \/ part = "solver"
       \/ part # "solver" /\ graph = (CHOOSE g \in Graphs : TRUE)
                          /\ solver = with_config("hitting", CHOOSE c \in Configs : TRUE)
    /\ SolverInit
    /\ CertInit
    /\ \/ part = "minimizer"
       \/ part # "minimizer" /\ lineage = (CHOOSE l \in Lineages : TRUE) /\ witnesses = {}
                             /\ counts = [decisions |-> Min(DecisionCounts), inputs |-> Min(InputCounts)]
    /\ MinInit
    /\ \/ part = "feedback"
       \/ part # "feedback" /\ base = (CHOOSE j \in FeedbackJournals : TRUE) /\ cuts = <<>> /\ attempts = 0
    /\ FeedbackInit
    /\ \/ part = "campaigns"
       \/ part # "campaigns" /\ draws = [i \in 0 .. Max(CampaignAttempts) - 1 |-> Min(CampaignArms)]
                             /\ campaign = Fresh("plain", Min(CampaignAttempts))
    /\ CampaignInit
    /\ OracleInit

Cuts_(A) == part = "cuts" /\ A /\ UNCHANGED <<part, solver_vars, cert_vars, min_vars, feedback_vars, campaign_vars, oracle_vars>>
Solver_(A) == part = "solver" /\ A /\ UNCHANGED <<part, cut_journal, cert_vars, min_vars, feedback_vars, campaign_vars, oracle_vars>>
Cert_(A) == part = "certificates" /\ A /\ UNCHANGED <<part, cut_journal, solver_vars, min_vars, feedback_vars, campaign_vars, oracle_vars>>
Min_(A) == part = "minimizer" /\ A /\ UNCHANGED <<part, cut_journal, solver_vars, cert_vars, feedback_vars, campaign_vars, oracle_vars>>
Feedback_(A) == part = "feedback" /\ A /\ UNCHANGED <<part, cut_journal, solver_vars, cert_vars, min_vars, campaign_vars, oracle_vars>>
Campaign_(A) == part = "campaigns" /\ A /\ UNCHANGED <<part, cut_journal, solver_vars, cert_vars, min_vars, feedback_vars, oracle_vars>>
Oracle_(A) == part = "oracles" /\ A /\ UNCHANGED <<part, cut_journal, solver_vars, cert_vars, min_vars, feedback_vars, campaign_vars>>

SolverNext ==
    \/ \E v \in Views, w \in Witnesses : solve(View(v), w)
    \/ \E w \in Witnesses, e \in Supports : solve_with_support(View(1 .. 5), w, e)
    \/ \E c \in Configs : set_config(c)
    \/ \E v \in Views, w \in Witnesses : solve_with_certificate(View(v), w)
    \/ \E w \in Witnesses, c \in ClauseSets : solve_incremental(View(1 .. 5), w, c)
    \/ persist_state
    \/ \E a \in stored : resume(a)
    \/ \E c \in Configs : Restart(c, {})

ExplorerNext ==
    \/ Cuts_(Grow) \/ Solver_(SolverNext) \/ Cert_(CertNext) \/ Min_(MinNext)
    \/ Feedback_(FeedbackNext) \/ Campaign_(CampaignNext) \/ Oracle_(OracleNext)

\* The fairness of MinSpec.
ExplorerSpec ==
    /\ ExplorerInit /\ [][ExplorerNext]_explorerVars
    /\ []<>(part # "minimizer" \/ stage = "done") \/ []<><<ExplorerNext>>_explorerVars

-----------------------------------------------------------------------------
(* What the parts promise together (each conjunct is stated, with the code  *)
(* it is about, in the module of the part).                                 *)

\* A validator accepts a recorded cut exactly when it is an inclusion-minimal
\* cut of the presented journal, and a statement survives being written and read.
CertificatesSound == AcceptedCutsAreMinimal /\ QualifiedCutsAreAccepted /\ StatementsSurvive

\* A reduction ends one-minimal, on a slice that stands alone, and every probe
\* sees exactly its candidate although the replay memo is shared by all of them.
MinimizationSound == OneMinimal /\ MemoExact /\ SliceStandsAlone

\* The report of a campaign is about the runs it made: memo hits stand for runs
\* with the same configuration, every bad run is a finding, and the bandit tries
\* every arm.
CampaignsReportRuns == MemoHitsAreRuns /\ FindingsAreComplete /\ BanditTriesEveryArm

\* Linearizability, online monitors and divergence are decided exactly.
OraclesExact == LinearizabilityExact /\ MonitorAgrees /\ DivergenceExact

\* Every answer of a solver, fresh, cached or resumed, is made of minimal cuts of
\* the clauses it was asked about, and breaks every derivation of its witnesses.
AnswersAreCuts == AnswersAreMinimalCuts /\ AnswersCutDerivations

\* Every engine finds exactly the minimal, or a cheapest, cut of a journal, and so
\* does every answer of a solver with its caches (AnswersAreCuts).
CutsAreExact == HittingSetsExact /\ EnginesAgree /\ DeclaredSupportAgrees /\ AnswersAreCuts

\* The minimization pipeline ends for every oracle and every finding
\* (minimizer/pipeline.rs, minimize_full).
MinimizationEnds == part = "minimizer" => <>(stage = "done")
=============================================================================
