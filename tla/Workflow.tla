------------------------------ MODULE Workflow ------------------------------
(***************************************************************************)
(* Durable workflows (ledger-flow, workflow.rs): a plan of named steps, run *)
(* by resume, which journals a begin before each effect and an end after    *)
(* it, and decides from the journal what to skip and what to run again.     *)
(* journal holds the entries of the workflow's actor.  The journal puts the *)
(* actor's head first among the parents, so the first parent of an entry,   *)
(* by which ends are paired with begins, is the entry before it.            *)
(***************************************************************************)
EXTENDS Naturals, Sequences, FiniteSets

CONSTANTS
    Plans,           \* the plans that may be attached
    MaxFailures,     \* bound: crashes, failed effects and failed appends
    MaxEffects       \* bound: effects, once a plan has gone astray

ASSUME WorkflowAssumption ==
    /\ \A p \in Plans : p \in Seq(STRING)
    /\ MaxFailures \in Nat /\ MaxEffects \in Nat

VARIABLES
    journal,         \* entries [kind, name, value]; an end has its value only
    wf,              \* WorkflowExecution: step_counter, completed_steps, plan
    pc,              \* where resume is; "idle" outside, "down" after a crash
    todo,            \* the steps of the plan that resume has not handled
    evidence,        \* the length of the journal when resume scanned it
    begin,           \* the begin entry that the running step will be paired with
    outcomes,        \* what resume will return: name, status, result
    effects,         \* history: the names whose effect was performed, in order
    failures,        \* history: how many failures there were
    astray           \* history: a plan was attached that forgets a step in progress

locals == <<todo, evidence, begin, outcomes>>
flowVars == <<journal, wf, pc, locals, effects, failures, astray>>

NoPlan == <<>>
Begin(name) == [kind |-> "StepBegin", name |-> name, value |-> 0]
End(value) == [kind |-> "StepEnd", name |-> "", value |-> value]

FlowInit ==
    /\ journal = <<>>
    /\ wf = [step_counter |-> 0, completed_steps |-> <<>>, plan |-> NoPlan]
    /\ pc = "idle"
    /\ todo = <<>> /\ evidence = 0 /\ begin = 0 /\ outcomes = <<>>
    /\ effects = <<>> /\ failures = 0 /\ astray = FALSE

-----------------------------------------------------------------------------
(* scan_step_evidence and classify, on the entries that resume scanned.    *)

begins(log, name) == {i \in DOMAIN log : log[i].kind = "StepBegin" /\ log[i].name = name}
Latest(S) == CHOOSE i \in S : \A j \in S : j <= i

\* Mutated Paired: by step_id, which step_begin has advanced when step_end uses it.
Paired_by_step_id(log, i) ==
    LET step_id(k) == Cardinality({j \in 1..k - 1 : log[j].kind = "StepBegin"})
    IN  i + 1 \in DOMAIN log /\ log[i + 1].kind = "StepEnd" /\ step_id(i) = step_id(i + 1)

\* The entry after a begin is its only possible end.
Paired(log, i) == i + 1 \in DOMAIN log /\ log[i + 1].kind = "StepEnd"

Scanned == SubSeq(journal, 1, evidence)

IsPending(name) == begins(Scanned, name) = {}
IsSkipped(name) == ~IsPending(name) /\ Paired(Scanned, Latest(begins(Scanned, name)))
IsInProgress(name) == ~IsPending(name) /\ ~Paired(Scanned, Latest(begins(Scanned, name)))

\* recover_from_journal: each end that follows a begin, under the begin's name, in the
\* order of the journal.
IsCompletion(log, i) == i > 1 /\ log[i].kind = "StepEnd" /\ log[i - 1].kind = "StepBegin"
Completions(log) == {i \in DOMAIN log : IsCompletion(log, i)}
Ranked(S, k) == {i \in S : Cardinality({j \in S : j <= i}) = k}
Nth(S, k) == CHOOSE i \in Ranked(S, k) : TRUE
Completion(log, i) == <<log[i - 1].name, log[i].value>>
completed(log) ==
    [k \in 1..Cardinality(Completions(log)) |-> Completion(log, Nth(Completions(log), k))]
CompletedNames(log) == {log[i - 1].name : i \in Completions(log)}

recover_from_journal ==
    /\ pc = "down"
    /\ wf' = [step_counter |-> Cardinality({i \in DOMAIN journal : journal[i].kind = "StepBegin"}),
              completed_steps |-> completed(journal), plan |-> NoPlan]
    /\ pc' = "idle"
    /\ UNCHANGED <<journal, locals, effects, failures, astray>>

-----------------------------------------------------------------------------
IsDistinct(steps) == \A i, j \in DOMAIN steps : steps[i] = steps[j] => i = j

\* A step in progress is the first of these steps that is not completed.
GoesOn(steps) ==
    \A i \in DOMAIN journal : journal[i].kind = "StepBegin" /\ i + 1 \notin Completions(journal) =>
        \E j \in DOMAIN steps :
            /\ steps[j] = journal[i].name
            /\ \A k \in 1..j - 1 : steps[k] \in CompletedNames(journal)

\* WorkflowPlan::plan and set_plan.
set_plan(steps) ==
    /\ pc = "idle"
    /\ IsDistinct(steps) /\ steps # wf.plan
    /\ wf' = [wf EXCEPT !.plan = steps]
    /\ astray' = (astray \/ ~GoesOn(steps))
    /\ UNCHANGED <<journal, pc, locals, effects, failures>>

\* resume: the plan is copied and the journal scanned once.
Resume ==
    /\ pc = "idle" /\ wf.plan # NoPlan
    /\ astray => Len(effects) < MaxEffects
    /\ pc' = "step"
    /\ todo' = wf.plan /\ evidence' = Len(journal) /\ begin' = 0 /\ outcomes' = <<>>
    /\ UNCHANGED <<journal, wf, effects, failures, astray>>

\* The loop is over and resume returns its outcomes.
Return ==
    /\ pc = "step" /\ todo = <<>>
    /\ pc' = "idle"
    /\ UNCHANGED <<journal, wf, locals, effects, failures, astray>>

Outcome(status, result) == Append(outcomes, <<Head(todo), status, result>>)

Skip ==
    /\ pc = "step" /\ todo # <<>>
    /\ IsSkipped(Head(todo))
    /\ outcomes' = Outcome("Skipped", Scanned[Latest(begins(Scanned, Head(todo))) + 1].value)
    /\ todo' = Tail(todo)
    /\ UNCHANGED <<journal, wf, pc, evidence, begin, effects, failures, astray>>

\* Mutated Rerun: resume gives up.
Rerun_refused ==
    /\ pc = "step" /\ todo # <<>>
    /\ IsInProgress(Head(todo))
    /\ pc' = "idle"
    /\ UNCHANGED <<journal, wf, locals, effects, failures, astray>>

\* A step in progress keeps the begin that the journal has.
Rerun ==
    /\ pc = "step" /\ todo # <<>>
    /\ IsInProgress(Head(todo))
    /\ begin' = Latest(begins(Scanned, Head(todo)))
    /\ pc' = "exec"
    /\ UNCHANGED <<journal, wf, todo, evidence, outcomes, effects, failures, astray>>

\* step_begin for a pending step.
step_begin ==
    /\ pc = "step" /\ todo # <<>>
    /\ IsPending(Head(todo))
    /\ journal' = Append(journal, Begin(Head(todo)))
    /\ wf' = [wf EXCEPT !.step_counter = @ + 1]
    /\ begin' = Len(journal')
    /\ pc' = "exec"
    /\ UNCHANGED <<todo, evidence, outcomes, effects, failures, astray>>

\* The effect is performed; its value tells the occasion.
Exec ==
    /\ pc = "exec"
    /\ effects' = Append(effects, Head(todo))
    /\ pc' = "end"
    /\ UNCHANGED <<journal, wf, locals, failures, astray>>

\* step_end: memory takes the step only after the journal has.
step_end ==
    /\ pc = "end"
    /\ journal' = Append(journal, End(Len(effects)))
    /\ wf' = [wf EXCEPT !.completed_steps = Append(@, <<Head(todo), Len(effects)>>)]
    /\ outcomes' = Outcome(IF begin <= evidence THEN "Rerun" ELSE "Executed", Len(effects))
    /\ todo' = Tail(todo)
    /\ pc' = "step"
    /\ UNCHANGED <<evidence, begin, effects, failures, astray>>

\* Mutated Fail: memory keeps a step whose end could not be journaled.
Fail_after_push ==
    /\ pc = "end" /\ failures < MaxFailures
    /\ failures' = failures + 1
    /\ wf' = [wf EXCEPT !.completed_steps = Append(@, <<Head(todo), Len(effects)>>)]
    /\ pc' = "idle"
    /\ UNCHANGED <<journal, locals, effects, astray>>

\* The append of a begin or an end fails, or the effect does: resume returns.
Fail ==
    /\ \/ pc = "step" /\ todo # <<>> /\ IsPending(Head(todo))
       \/ pc \in {"exec", "end"}
    /\ failures < MaxFailures
    /\ failures' = failures + 1
    /\ pc' = "idle"
    /\ UNCHANGED <<journal, wf, locals, effects, astray>>

\* The process dies and keeps the journal.
Crash ==
    /\ pc # "down" /\ failures < MaxFailures
    /\ failures' = failures + 1
    /\ pc' = "down"
    /\ UNCHANGED <<journal, wf, locals, effects, astray>>

FlowNext ==
    \/ recover_from_journal \/ Resume \/ Return \/ Skip \/ Rerun \/ step_begin \/ Exec
    \/ step_end \/ Fail \/ Crash
    \/ \E steps \in Plans : set_plan(steps)

\* Whoever owns the workflow recovers it, attaches a plan and resumes it.
Fairness ==
    /\ WF_flowVars(recover_from_journal) /\ WF_flowVars(Resume)
    /\ WF_flowVars(Return \/ Skip \/ Rerun \/ step_begin \/ Exec \/ step_end)
    /\ WF_flowVars(wf.plan = NoPlan /\ \E steps \in Plans : set_plan(steps))

FlowSpec == FlowInit /\ [][FlowNext]_flowVars /\ Fairness

-----------------------------------------------------------------------------
Steps == UNION {{p[i] : i \in DOMAIN p} : p \in Plans}

\* A running workflow and one recovered from its journal agree: the same steps
\* completed with the same results, and as many begins.  A step has at most one
\* begin however often it is run again, and each end follows the begin of its step,
\* as long as a plan that replaces another goes on with the step in progress.
RecoveryAgrees ==
  ~astray =>
    /\ pc # "down" =>
        /\ wf.completed_steps = completed(journal)
        /\ wf.step_counter = Cardinality({i \in DOMAIN journal : journal[i].kind = "StepBegin"})
    /\ \A s \in Steps : Cardinality(begins(journal, s)) <= 1
    /\ \A i \in DOMAIN journal : journal[i].kind = "StepEnd" => IsCompletion(journal, i)

\* An effect is performed only for a step that the journal does not show as
\* completed, and only when every step before it in the plan is completed.  When
\* resume returns, it reports each step of the plan in order, with the value of
\* an effect of that step, and that is what the journal holds.
EffectsInOrder ==
    [][~astray =>
       /\ effects' # effects =>
            /\ Head(todo) \notin CompletedNames(journal)
            /\ \A i \in DOMAIN wf.plan :
                 wf.plan[i] \in CompletedNames(journal)
                 \/ \E j \in DOMAIN wf.plan : j <= i /\ wf.plan[j] = Head(todo)
       /\ Return =>
            /\ Len(outcomes) = Len(wf.plan)
            /\ \A i \in DOMAIN outcomes :
                /\ outcomes[i][1] = wf.plan[i]
                /\ effects[outcomes[i][3]] = wf.plan[i]
                /\ \E k \in DOMAIN completed(journal) :
                    completed(journal)[k] = <<outcomes[i][1], outcomes[i][3]>>]_flowVars

\* A workflow that keeps its plan, and is recovered and resumed after every
\* failure, completes it.
Completes ==
    \A p \in {q \in Plans : IsDistinct(q)} :
        <>[](wf.plan = p /\ ~astray) => <>({p[i] : i \in DOMAIN p} \subseteq CompletedNames(journal))
=============================================================================
