----------------------------- MODULE Certificates -----------------------------
(***************************************************************************)
(* Campaign certificates: crates/ledger-explorer/src/certs.rs and the      *)
(* services that issue, qualify and validate them.  A statement is issued  *)
(* for a campaign or for one hazard, a recorded cut is attached, it is     *)
(* written and read back as JSON, and it is validated against journals.    *)
(*                                                                         *)
(* The root of a journal stands for the journal; 0 is the zero digest.  A  *)
(* JSON object is a record that has exactly the fields that are written.   *)
(* Strings and the two attestation URIs are numbers: 0 is a blank one.     *)
(***************************************************************************)
EXTENDS FaultCuts, TLC

CONSTANTS
    CertJournals,           \* the journals of the findings, a sequence; an index is a root
    CertHorizons,           \* max_horizon of the solver of a recorded cut
    CertCaps,               \* recorded_witness_cap of certify_hazard
    CertRuns,               \* runs_executed of a report
    CertCosts,              \* costs of cuts recorded by others
    MAX_EVENT_COST, CERT_MAX_HASHES, MAX_CUT_MEMBERS, MAX_RECORDED_HORIZON,
    MAX_RESOLVED_DEPENDENCIES, MAX_INCLUSION_PATHS

VARIABLES
    cert,           \* None, or the certificate in hand
    origin,         \* how it was made: the root, the witnesses and the cap
    statement       \* None, or the JSON document

cert_vars == <<cert, origin, statement>>

CertRoots == DOMAIN CertJournals
Zero == 0
Blank == 0
CampaignV1 == 1

-----------------------------------------------------------------------------
(* Checks that need no journal.                                            *)

is_lineage_only_journal(j) == \E h \in DOMAIN j : j[h].kind = "Epoch"

Distinct(seq) == \A a, b \in DOMAIN seq : seq[a] = seq[b] => a = b

rule_of_three(runs) ==
    IF runs = 0 THEN None
    ELSE Some([upper_p |-> IF runs < 3 THEN <<1, 1>> ELSE <<3, runs>>, confidence |-> <<95, 100>>, method |-> 1])
InUnit(q) == q[1] >= 0 /\ q[1] <= q[2]

SolverDataOk(data) ==
    /\ data.cut # <<>> /\ Len(data.cut) <= MAX_CUT_MEMBERS
    /\ data.method # Blank
    /\ data.horizon # None => data.horizon[1] \in 1 .. MAX_RECORDED_HORIZON
    /\ Distinct(data.cut)
    /\ data.cost <= Len(data.cut) * MAX_EVENT_COST

verify(c) ==
    /\ c.predicate_type = CampaignV1 /\ c.build_type = CampaignV1
    /\ c.subject.name # Blank /\ c.builder_id # Blank
    /\ Len(c.resolved_dependencies) <= MAX_RESOLVED_DEPENDENCIES
    /\ \A d \in ToSet(c.resolved_dependencies) : d.name # Blank
    /\ c.findings_count <= c.runs_executed
    /\ c.findings_count > 0 <=> c.subject.digest # Zero
    /\ c.solver_data # None => SolverDataOk(c.solver_data[1])
    /\ c.inclusion_minimal # None => c.solver_data # None
    /\ c.journal_validation # None => c.findings_count > 0
    /\ c.statistical # None => /\ c.statistical[1].method # Blank
                               /\ InUnit(c.statistical[1].upper_p) /\ InUnit(c.statistical[1].confidence)

-----------------------------------------------------------------------------
(* Checks against a journal, given by its root.                            *)

verify_with_journal_with(c, root, strict) ==
    LET j == CertJournals[root]
    IN  /\ strict => ~is_lineage_only_journal(j)
        /\ c.solver_data # None => Len(c.solver_data[1].cut) <= Len(j)
        /\ c.subject.digest # Zero
        /\ c.solver_data # None => ToSet(c.solver_data[1].witnesses) \subseteq DOMAIN j
        /\ c.subject.digest = root
        /\ c.solver_data # None =>
              \A h \in ToSet(c.solver_data[1].cut) : h \in DOMAIN j /\ is_faultable(j[h].kind)
        /\ verify(c)
        /\ c.solver_data # None =>
              c.solver_data[1].cost = MapThenSumSet(LAMBDA h : event_fault_cost(j, h), ToSet(c.solver_data[1].cut))

verify_with_journal_and_identity(c, root, expected) ==
    c.execution_identity = expected /\ verify_with_journal_with(c, root, TRUE)

\* Every path has a member of the cut, and every member is alone on some path.
\* As it would be if it were enough that every member is on some path.
Essential_somewhere(paths, cut) == \A h \in cut : \E p \in paths : h \in p
Essential(paths, cut) == \A h \in cut : \E p \in paths : p \cap cut = {h}

\* The number of paths is bounded in the code as a list; here as a set.
verify_inclusion_minimal_with_support(c, root, strict, expected) ==
    /\ verify_with_journal_with(c, root, strict)
    /\ c.solver_data # None
    /\ LET data == c.solver_data[1]
           cut == ToSet(data.cut)
       IN  /\ data.support_provider_version # None /\ expected # None => data.support_provider_version = expected
           /\ data.reproduced /\ data.baseline_passed
           /\ data.horizon # None
           /\ data.witnesses # <<>>
           /\ LET paths == collect_fault_paths_iterative(CertJournals[root], ToSet(data.witnesses), data.horizon[1])
              IN  /\ Cardinality(paths) <= MAX_INCLUSION_PATHS
                  /\ \A p \in paths : p \cap cut # {}
                  /\ Essential(paths, cut)

-----------------------------------------------------------------------------
(* JSON.  An option is written when it is present.                         *)

Field(name, option) == IF option = None THEN <<>> ELSE name :> option[1]
Opt(object, name) == IF name \in DOMAIN object THEN Some(object[name]) ELSE None

\* Stable, by name.
SortByName(deps) ==
    FoldLeft(LAMBDA out, n : out \o SelectSeq(deps, LAMBDA d : d.name = n), <<>>,
             [n \in 1 .. 1 + Max({0} \cup {d.name : d \in ToSet(deps)}) |-> n - 1])

solver_json(data) ==
    [cut |-> data.cut, cost |-> data.cost, method |-> data.method,
     reproduced |-> data.reproduced, baselinePassed |-> data.baseline_passed]
    @@ Field("horizon", data.horizon)
    @@ Field("supportProviderVersion", data.support_provider_version)
    @@ Field("witnesses", IF data.witnesses = <<>> THEN None ELSE Some(data.witnesses))

\* The size of a document is counted in hashes: two and one per dependency, cut
\* member and witness.  Only the document that was made counts the witnesses.
to_json(c) ==
    LET data == c.solver_data
        predicate ==
            [buildDefinition |-> [buildType |-> c.build_type,
                                  externalParameters |-> "runConfigDigest" :> c.external_parameters_digest
                                                         @@ Field("executionIdentity", c.execution_identity),
                                  resolvedDependencies |-> SortByName(c.resolved_dependencies)],
             runDetails |-> [builder |-> c.builder_id, runsExecuted |-> c.runs_executed, findingsCount |-> c.findings_count]]
            @@ Field("solverData", IF data = None THEN None ELSE Some(solver_json(data[1])))
            @@ Field("journalValidation", c.journal_validation)
            @@ Field("inclusionMinimal", c.inclusion_minimal)
            @@ Field("statistical", c.statistical)
        size == 2 + Len(c.resolved_dependencies) + (IF data = None THEN 0 ELSE Len(data[1].cut) + Len(data[1].witnesses))
    IN  IF size > CERT_MAX_HASHES THEN None
        ELSE Some([subject |-> c.subject, predicateType |-> c.predicate_type, predicate |-> predicate, size |-> size])

check_object_fields(object, required, optional) ==
    required \subseteq DOMAIN object /\ DOMAIN object \subseteq required \cup optional

ParsableSolverData(data) ==
    /\ check_object_fields(data, {"cut", "cost", "method", "reproduced", "baselinePassed"},
                                 {"horizon", "supportProviderVersion", "witnesses"})
    /\ data.cut # <<>> /\ Len(data.cut) <= MAX_CUT_MEMBERS
    /\ "witnesses" \in DOMAIN data => Len(data.witnesses) <= MAX_RESOLVED_DEPENDENCIES
    /\ "horizon" \in DOMAIN data => data.horizon \in 1 .. MAX_RECORDED_HORIZON

ReadSolverData(data) ==
    [cut |-> data.cut, cost |-> data.cost, method |-> data.method,
     horizon |-> Opt(data, "horizon"), support_provider_version |-> Opt(data, "supportProviderVersion"),
     witnesses |-> IF "witnesses" \in DOMAIN data THEN data.witnesses ELSE <<>>,
     reproduced |-> data.reproduced, baseline_passed |-> data.baselinePassed]

from_json(doc) ==
    LET pred == doc.predicate
        bd == pred.buildDefinition
    IN  IF /\ doc.size <= CERT_MAX_HASHES
           /\ check_object_fields(pred, {"buildDefinition", "runDetails"},
                                  {"solverData", "statistical", "journalValidation", "inclusionMinimal"})
           /\ check_object_fields(bd.externalParameters, {"runConfigDigest"}, {"executionIdentity"})
           /\ Len(bd.resolvedDependencies) <= MAX_RESOLVED_DEPENDENCIES
           /\ "solverData" \in DOMAIN pred => ParsableSolverData(pred.solverData)
        THEN Some([subject |-> doc.subject, predicate_type |-> doc.predicateType, build_type |-> bd.buildType,
                   external_parameters_digest |-> bd.externalParameters.runConfigDigest,
                   execution_identity |-> Opt(bd.externalParameters, "executionIdentity"),
                   resolved_dependencies |-> SortByName(bd.resolvedDependencies),
                   builder_id |-> pred.runDetails.builder, runs_executed |-> pred.runDetails.runsExecuted,
                   findings_count |-> pred.runDetails.findingsCount,
                   solver_data |-> IF "solverData" \in DOMAIN pred THEN Some(ReadSolverData(pred.solverData)) ELSE None,
                   statistical |-> Opt(pred, "statistical"), journal_validation |-> Opt(pred, "journalValidation"),
                   inclusion_minimal |-> Opt(pred, "inclusionMinimal")])
        ELSE None

-----------------------------------------------------------------------------
(* Issuing.                                                                *)

\* The certificate of a report whose findings have the given roots.
from_campaign_inner(runs, findings, deps, identity) ==
    [subject |-> [name |-> 1, digest |-> IF findings = <<>> THEN Zero ELSE findings[1]],
     predicate_type |-> CampaignV1, build_type |-> CampaignV1, external_parameters_digest |-> 1,
     execution_identity |-> identity, resolved_dependencies |-> SortByName(deps),
     builder_id |-> 1, runs_executed |-> runs, findings_count |-> Len(findings), solver_data |-> None,
     statistical |-> IF findings = <<>> THEN rule_of_three(runs) ELSE None,
     journal_validation |-> None, inclusion_minimal |-> None]

from_campaign_with(runs, findings, deps, identity, strict) ==
    LET c == from_campaign_inner(runs, findings, deps, identity)
    IN  IF (strict => \A r \in ToSet(findings) : ~is_lineage_only_journal(CertJournals[r])) /\ verify(c)
        THEN Some(c) ELSE None

\* MaxSatSolver::solve_with_certificate: what it records of a solve.
recorded(root, witnesses, horizon) ==
    LET j == CertJournals[root]
        enc == encode_hazard(j, witnesses, horizon, None)
        best == solve_maxsat_bnb(enc)
    IN  IF IsFailure(enc) THEN None
        ELSE Some([cut |-> Ids(best.cut), cost |-> best.total_cost, method |-> 1, horizon |-> horizon,
                   support_provider_version |-> None, witnesses |-> Ids(witnesses),
                   reproduced |-> FALSE, baseline_passed |-> FALSE])

CertInit == cert = None /\ statement = None /\ origin = [root |-> Zero, witnesses |-> {}, cap |-> 0]

\* write_certificate, emit_statement: a certificate of a campaign.
EmitStatement ==
    /\ cert = None
    /\ \E runs \in CertRuns, findings \in BoundedSeq(CertRoots, 2), identity \in {None, Some(1)}, strict \in BOOLEAN :
         \E deps \in {<<>>, <<[name |-> 2, digest |-> 1], [name |-> 1, digest |-> 2], [name |-> 2, digest |-> 3]>>} :
            cert' = from_campaign_with(runs, findings, deps, identity, strict)
    /\ cert' # None
    /\ UNCHANGED <<origin, statement>>

\* The cut of a solver is recorded in the certificate of the same finding.
RecordCut ==
    /\ cert # None /\ cert[1].findings_count > 0 /\ cert[1].solver_data = None
    /\ LET root == cert[1].subject.digest
       IN  \E witnesses \in SUBSET DOMAIN CertJournals[root] \ {{}}, horizon \in CertHorizons :
             LET data == recorded(root, witnesses, horizon)
             IN  /\ data # None
                 /\ cert' = Some([cert[1] EXCEPT !.solver_data = data])
                 /\ origin' = [root |-> root, witnesses |-> witnesses, cap |-> Cardinality(witnesses)]
    /\ UNCHANGED statement

Capped(data, cap) == [data EXCEPT !.witnesses = SubSeq(@, 1, Min({Len(@), cap}))]

\* solver_data is a public field: a certificate may hold what another tool
\* recorded, for the findings of a single run.
RecordAny ==
    /\ cert # None /\ cert[1].solver_data = None
    /\ cert[1].findings_count = 1 /\ cert[1].runs_executed = 1
    /\ cert[1].resolved_dependencies = <<>> /\ cert[1].execution_identity = None
    /\ LET root == cert[1].subject.digest
           ids == DOMAIN CertJournals[root]
       IN  \E cut \in BoundedSeq(ids, 2) \ {<<>>}, cost \in CertCosts, w \in ids, horizon \in CertHorizons :
             /\ cert' = Some([cert[1] EXCEPT !.solver_data = Some(
                               [cut |-> cut, cost |-> cost, method |-> 1, horizon |-> horizon,
                                support_provider_version |-> None, witnesses |-> <<w>>,
                                reproduced |-> TRUE, baseline_passed |-> TRUE])])
             /\ origin' = [root |-> root, witnesses |-> {w}, cap |-> 0]
    /\ UNCHANGED statement

\* The horizon of a solver made without a configuration, 64, is the largest that
\* a statement may record.
DefaultHorizon == MAX_RECORDED_HORIZON

\* The cut of a capped statement was derived against witnesses it does not list.
certify_hazard ==
    /\ cert = None
    /\ \E root \in CertRoots, cap \in CertCaps : \E witnesses \in SUBSET DOMAIN CertJournals[root] \ {{}} :
         LET data == recorded(root, witnesses, Some(DefaultHorizon))
             c == from_campaign_with(1, <<root>>, <<>>, None, TRUE)
         IN  /\ data # None /\ c # None
             /\ cert' = Some([c[1] EXCEPT !.solver_data = Some(Capped(data[1], cap))])
             /\ verify_with_journal_with(cert'[1], root, TRUE)
             /\ origin' = [root |-> root, witnesses |-> witnesses, cap |-> cap]
    /\ UNCHANGED statement

\* qualify_cut: the evidence flags are recorded when the baseline passes, a fault
\* is applied, the replay keeps its prefix and violates, and the rerun passes.
qualify_cut ==
    /\ cert # None /\ cert[1].solver_data # None /\ ~cert[1].solver_data[1].reproduced
    /\ \E baseline, applied, prefix_ok, violated, rerun \in BOOLEAN :
         /\ ~baseline /\ applied /\ prefix_ok /\ violated /\ ~rerun
         /\ cert' = Some([cert[1] EXCEPT !.solver_data = Some([cert[1].solver_data[1] EXCEPT
                                                               !.reproduced = violated, !.baseline_passed = ~baseline])])
    /\ UNCHANGED <<origin, statement>>

WriteStatement ==
    /\ cert # None /\ statement = None
    /\ statement' = to_json(cert[1]) /\ statement' # None
    /\ UNCHANGED <<cert, origin>>

CertNext == EmitStatement \/ RecordCut \/ RecordAny \/ certify_hazard \/ qualify_cut \/ WriteStatement
CertSpec == CertInit /\ [][CertNext]_cert_vars

-----------------------------------------------------------------------------
(* Properties.                                                             *)

\* Derivations by their definition: the maximal chains of parents, at most
\* horizon + 1 long, that end in a witness.
Chains(j, witnesses, horizon) ==
    {c \in BoundedSeq(DOMAIN j, horizon + 1) \ {<<>>} :
        /\ c[1] \in witnesses
        /\ \A k \in 1 .. Len(c) - 1 : c[k + 1] \in parents(j, c[k])
        /\ Len(c) = horizon + 1 \/ parents(j, Last(c)) = {}}
Derivations(j, witnesses, horizon) ==
    {{h \in ToSet(c) : is_faultable(j[h].kind)} : c \in Chains(j, witnesses, horizon)} \ {{}}

\* A cut that inclusion-minimal validation accepts is about the journal that is
\* presented: it meets every derivation of the recorded witnesses within the
\* horizon, no proper part of it does, and its cost is the recorded one
\* (certs.rs: "Inclusion-minimal cut: every member essential").
AcceptedCutsAreMinimal ==
    \A root \in CertRoots :
        (cert # None /\ verify_inclusion_minimal_with_support(cert[1], root, TRUE, None)) =>
            LET data == cert[1].solver_data[1]
                all == Derivations(CertJournals[root], ToSet(data.witnesses), data.horizon[1])
                Meets(cut) == \A d \in all : d \cap cut # {}
            IN  /\ root = cert[1].subject.digest
                /\ Meets(ToSet(data.cut)) /\ \A h \in ToSet(data.cut) : ~Meets(ToSet(data.cut) \ {h})
                /\ data.cost = MapThenSumSet(LAMBDA h : event_fault_cost(CertJournals[root], h), ToSet(data.cut))

\* A cut that the solver derived within a recordable horizon and that qualified
\* is accepted, on the journal of its finding and on no other, when all of its
\* witnesses were recorded.
QualifiedCutsAreAccepted ==
    (cert # None /\ cert[1].solver_data # None /\ origin.cap >= Cardinality(origin.witnesses)) =>
        LET data == cert[1].solver_data[1]
        IN  (data.reproduced /\ data.horizon # None /\ data.horizon[1] \in 1 .. MAX_RECORDED_HORIZON
             /\ ~is_lineage_only_journal(CertJournals[origin.root])) =>
               \A root \in CertRoots :
                  verify_inclusion_minimal_with_support(cert[1], root, TRUE, None) <=> root = origin.root

\* A statement that is read back says what the certificate said when it was
\* written, and every validation answers the same for both ("The acceptance must
\* survive a JSON roundtrip", tests/certificate_emission.rs).
StatementsSurvive ==
    (statement # None /\ statement = to_json(cert[1]) /\ verify(cert[1])) =>
        /\ from_json(statement[1]) = cert
        /\ \A root \in CertRoots, identity \in {None, Some(1)} :
              verify_with_journal_and_identity(from_json(statement[1])[1], root, identity)
                  <=> (cert[1].execution_identity = identity /\ verify_with_journal_with(cert[1], root, TRUE))
=============================================================================
