------------------------------- MODULE Feedback -------------------------------
(***************************************************************************)
(* The feedback campaign, crates/ledger-explorer/src/search/feedback.rs,   *)
(* and the fault replay it runs, search/replay.rs.  After a search has     *)
(* found a violation, the cheapest cut is replayed as a fault schedule;    *)
(* faults that had no effect are suppressed, the others are made stronger, *)
(* and the next schedule is built from what is left.                       *)
(*                                                                         *)
(* An injection is [class, target, level]: the level counts the steps that *)
(* escalate has taken on the ticks, the mask or the crash state.           *)
(***************************************************************************)
EXTENDS FaultCuts

CONSTANTS
    FeedbackJournals,   \* the journals a finding may have
    FeedbackCuts,       \* the lists of hypotheses a solver may return for them
    MaxAttempts

VARIABLES
    base,           \* the journal of the first finding
    cuts,           \* its hypotheses, cheapest first
    attempts, search_runs, feedback_executed,
    phase,          \* "search", "solve", "rounds", "done" or "error"
    schedule,       \* the fault schedule of the next round
    suppressed, voided_sigs, escalated,
    applied,        \* injections that took effect in the last round
    findings        \* how many findings the report has

feedback_vars ==
    <<base, cuts, attempts, search_runs, feedback_executed, phase, schedule,
      suppressed, voided_sigs, escalated, applied, findings>>

-----------------------------------------------------------------------------
(* Fault schedules.                                                        *)

\* The declaration order of SimFault, from which its Ord is derived.
ClassOrder == <<"Drop", "Delay", "Partition", "Crash", "Corrupt", "CrashState", "Duplicate">>

Rank(i) == <<CHOOSE k \in DOMAIN ClassOrder : ClassOrder[k] = i.class>> \o i.target \o <<i.level>>

\* sort and dedup
Canonical(injections) == SortSeq(SetToSeq(injections), LAMBDA a, b : LexLess(Rank(a), Rank(b)))

fault_injection_target(i) == IF i.class = "Partition" THEN None ELSE i.target

\* How often escalate can be applied before it returns None: 1, 2, 4 .. 32 ticks,
\* the masks 1, 0xFF .. u64::MAX, and the crash states 0 to 2.
Ladder == [Delay |-> 5, Corrupt |-> 4, CrashState |-> 2]

escalate(i) ==
    CASE i.class = "Drop" -> Some([i EXCEPT !.class = "Crash"])
      [] i.class \in DOMAIN Ladder ->
            IF i.level < Ladder[i.class] THEN Some([i EXCEPT !.level = @ + 1]) ELSE None
      [] OTHER -> None

\* hypothesis_to_schedule starts every ladder at its foot.
ScheduleOf(hyp) ==
    LET injections == hypothesis_to_schedule(base, hyp)
    IN  [k \in DOMAIN injections |-> [class |-> injections[k].class, target |-> injections[k].target, level |-> 0]]

\* The base without what is suppressed or voided, one injection for a target.
Surviving(from, supp, void) ==
    LET live == SelectSeq(from, LAMBDA i :
                    IF fault_injection_target(i) = None THEN i \notin void ELSE i.target[1] \notin supp)
    IN  {live[k] : k \in {k \in DOMAIN live :
            \/ fault_injection_target(live[k]) = None
            \/ \A m \in 1 .. k - 1 : fault_injection_target(live[m]) # live[k].target}}
Swapped(i, esc) ==
    IF fault_injection_target(i) # None /\ i.target[1] \in DOMAIN esc THEN esc[i.target[1]] ELSE i

\* As it would be if escalated faults of suppressed targets were added too.
rebuild_with_suppressed(from, supp, void, esc) ==
    Canonical({Swapped(i, esc) : i \in Surviving(from, supp, void)} \cup {esc[t] : t \in DOMAIN esc})
\* The escalated fault takes the place of the base's; those of other targets are added.
rebuild_schedule(from, supp, void, esc) ==
    LET rebuilt == {Swapped(i, esc) : i \in Surviving(from, supp, void)}
        absent == {t \in DOMAIN esc \ supp : \A i \in rebuilt : fault_injection_target(i) # Some(t)}
    IN  Canonical(rebuilt \cup {esc[t] : t \in absent})

\* The schedule of the first hypothesis that has no suppressed event.
NextBase(supp) ==
    LET left == SelectSeq(cuts, LAMBDA h : h.events \cap supp = {})
    IN  IF left = <<>> THEN <<>> ELSE ScheduleOf(left[1])

-----------------------------------------------------------------------------
(* replay_with_faults.                                                     *)

\* The executor acts on the first injection of an entry, if it fits the entry.
First(t) == SelectSeq(schedule, LAMBDA i : fault_injection_target(i) = Some(t))[1]

Fits(t) ==
    /\ t \in DOMAIN base
    /\ \/ base[t].kind = "Send" /\ First(t).class \in {"Drop", "Delay", "Duplicate"}
       \/ base[t].kind = "FsWrite" /\ First(t).class \in {"Crash", "Corrupt", "CrashState"}

Targets == {i.target[1] : i \in {i \in ToSet(schedule) : fault_injection_target(i) # None}}

Applied(hit) == {First(t) : t \in hit}
Voided(hit) == ToSet(schedule) \ Applied(hit)

-----------------------------------------------------------------------------

FeedbackInit ==
    /\ base \in FeedbackJournals
    /\ cuts \in FeedbackCuts
    /\ attempts \in 0 .. MaxAttempts
    /\ phase = IF attempts = 0 THEN "done" ELSE "search"
    /\ search_runs = 0 /\ feedback_executed = 0 /\ findings = 0
    /\ schedule = <<>> /\ applied = {}
    /\ suppressed = {} /\ voided_sigs = {} /\ escalated = <<>>

\* Phase 0 has half of the attempts, and at least one.
Search ==
    /\ phase = "search"
    /\ search_runs' = search_runs + 1
    /\ \E violated \in BOOLEAN :
         /\ findings' = IF violated THEN 1 ELSE 0
         /\ phase' = IF violated THEN (IF search_runs' < attempts THEN "solve" ELSE "done")
                     ELSE IF search_runs' < Max({attempts \div 2, 1}) THEN "search" ELSE "done"
    /\ UNCHANGED <<base, cuts, attempts, feedback_executed, schedule, suppressed, voided_sigs, escalated, applied>>

\* Phase 1 starts from the cheapest hypothesis, if the solver has one.
Solve ==
    /\ phase = "solve"
    /\ \/ phase' = "rounds" /\ schedule' = IF cuts = <<>> THEN <<>> ELSE Canonical(ToSet(ScheduleOf(cuts[1])))
       \/ phase' = "error" /\ UNCHANGED schedule
    /\ UNCHANGED <<base, cuts, attempts, search_runs, feedback_executed, suppressed, voided_sigs, escalated, applied, findings>>

Suppress(injections) ==
    /\ suppressed' = suppressed \cup {i.target[1] : i \in {i \in injections : fault_injection_target(i) # None}}
    /\ voided_sigs' = voided_sigs \cup {i \in injections : fault_injection_target(i) = None}

\* The decisions no longer fit the ready sets: the whole schedule is voided.
StrictViolation ==
    /\ phase = "rounds"
    /\ Suppress(ToSet(schedule))
    /\ schedule' = rebuild_schedule(NextBase(suppressed'), suppressed', voided_sigs', escalated)
    /\ applied' = {}
    /\ feedback_executed' = feedback_executed + 1
    /\ phase' = IF search_runs + feedback_executed' < attempts THEN "rounds" ELSE "done"
    /\ UNCHANGED <<base, cuts, attempts, search_runs, escalated, findings>>

\* One replay, in which the faults of the entries in hit took effect.
Round ==
    /\ phase = "rounds"
    /\ \E hit \in SUBSET {t \in Targets : Fits(t)}, violated \in BOOLEAN :
         LET stronger == IF violated THEN {} ELSE {i \in Applied(hit) : escalate(i) # None}
             next == [t \in DOMAIN escalated \cup {i.target[1] : i \in stronger} |->
                         IF \E i \in stronger : i.target[1] = t
                         THEN escalate(First(t))[1] ELSE escalated[t]]
         IN  /\ Suppress(Voided(hit))
             /\ applied' = Applied(hit)
             /\ feedback_executed' = feedback_executed + 1
             /\ IF violated
                THEN phase' = "done" /\ findings' = findings + 1 /\ UNCHANGED <<schedule, escalated>>
                ELSE /\ escalated' = next
                     /\ schedule' = rebuild_schedule(NextBase(suppressed'), suppressed', voided_sigs', next)
                     /\ phase' = IF search_runs + feedback_executed' < attempts THEN "rounds" ELSE "done"
                     /\ UNCHANGED findings
    /\ UNCHANGED <<base, cuts, attempts, search_runs>>

\* A replay that fails otherwise, or journals another crash operation than the
\* one requested, ends the campaign.
RoundError ==
    /\ phase = "rounds" /\ phase' = "error"
    /\ UNCHANGED <<base, cuts, attempts, search_runs, feedback_executed, schedule, suppressed, voided_sigs, escalated, applied, findings>>

FeedbackNext == Search \/ Solve \/ StrictViolation \/ Round \/ RoundError

FeedbackSpec == FeedbackInit /\ [][FeedbackNext]_feedback_vars

-----------------------------------------------------------------------------
(* Properties.                                                             *)

\* From the second round on, a schedule holds no injection that has been voided
\* or whose target is suppressed, at most one injection for a target, and never a
\* weaker one than the target has been escalated to; and the campaign never runs
\* more than its attempts (rebuild_schedule).
ScheduleFollowsFeedback ==
    /\ search_runs + feedback_executed <= attempts
    /\ (feedback_executed > 0 /\ phase = "rounds") =>
          /\ Targets \cap suppressed = {} /\ ToSet(schedule) \cap voided_sigs = {}
          /\ \A t \in Targets :
                /\ Cardinality({i \in ToSet(schedule) : fault_injection_target(i) = Some(t)}) = 1
                /\ t \in DOMAIN escalated => First(t) = escalated[t]

=============================================================================
