----------------------------- MODULE Scheduler -----------------------------
(***************************************************************************)
(* The scheduler of ledger-sim (scheduler.rs), the strict and lenient       *)
(* replays of runtime.rs and the bounded DPOR driver (dpor.rs), over the    *)
(* executor of module Executor.  A driver makes a base run under a policy   *)
(* and then replays its decisions, or forces one other decision after       *)
(* another.  Network faults are off, so that a run is determined by its     *)
(* decisions.  The draws of the Random policy come from the seed: a value   *)
(* for each step.  Draws of other policies are choices.                     *)
(***************************************************************************)
EXTENDS Executor, SequencesExt

CONSTANTS
    Drives           \* what may be driven: a run, the plan of its base run, a seed, max_runs

VARIABLES
    drive,           \* what is being driven
    plan,            \* of the run: policy, changes, replay, strict, fallback
    picked,          \* Scheduler::decisions, which the RngDraw entries repeat
    violation,       \* "none", "OutOfRange", "Exhausted" or "Trailing"
    pct,             \* priorities, preemptions, last_chosen and generation
    trace,           \* StepTrace: ready list, position, journal lengths after it
    polled,          \* history: task, ready tasks and PCT generation of each choice
    base,            \* the result of the first run, once it is over
    pending,         \* the plans of the later runs that are not over
    report           \* their results

schedVars == <<drive, plan, picked, violation, pct, trace, polled, base, pending, report>>
allVars == <<vars, schedVars>>

RecordPlan(policy, changes) ==
    [policy |-> policy, changes |-> changes, replay |-> <<>>, strict |-> FALSE, fallback |-> "Random"]

\* with_replay_strict and with_replay_and_fallback.
ReplayPlan(replay, strict) ==
    [policy |-> "Replay", changes |-> 0, replay |-> replay, strict |-> strict, fallback |-> "Random"]

PctState(tasks) ==
    [priorities |-> [t \in tasks |-> 0], preemptions |-> 0, last_chosen |-> <<>>, generation |-> 0]

\* Scheduler::with_fallback and with_fallback_strict, but for the plan.
SchedulerInit ==
    /\ picked = <<>> /\ violation = "none" /\ trace = <<>> /\ polled = <<>>
    /\ pct = PctState(Tasks)

DriveInit ==
    /\ drive \in Drives
    /\ StartOf(drive.run)
    /\ plan = drive.plan
    /\ SchedulerInit
    /\ base = <<>> /\ pending = <<>> /\ report = <<>>

-----------------------------------------------------------------------------
(* One choice.                                                             *)

Positions == DOMAIN ready
draw(step) == drive.seed[(step % Len(drive.seed)) + 1]

\* pct_best: the highest priority, ties to the lowest position.
pct_best(priorities) ==
    CHOOSE i \in Positions : \A j \in Positions :
        \/ priorities[ready[i]] > priorities[ready[j]]
        \/ priorities[ready[i]] = priorities[ready[j]] /\ i <= j

\* Draws are from 1 on and all differ; 0 is a priority that has not been drawn.
Drawn(tasks, priorities) ==
    {p \in [Tasks -> 0..Cardinality(Tasks)] :
        /\ \A t \in Tasks \ tasks : p[t] = priorities[t]
        /\ \A t \in tasks : p[t] > 0 /\ \A u \in Tasks \ {t} : p[t] # p[u]}

\* The change that select_pct makes while its budget lasts.
Preempts(changes) ==
    /\ pct.preemptions < changes
    /\ Len(ready) > 1
    /\ pct.last_chosen # <<>> /\ pct.last_chosen[1] \in Range(ready)

select_pct(changes) ==
    LET fresh == {t \in Range(ready) : pct.priorities[t] = 0}
    IN  {[choice |-> pct_best(p),
          pct |-> [priorities |-> p, last_chosen |-> <<ready[pct_best(p)]>>,
                   preemptions |-> pct.preemptions + IF Preempts(changes) THEN 1 ELSE 0,
                   generation |-> pct.generation + IF Preempts(changes) THEN 1 ELSE 0]] :
            p \in Drawn(IF Preempts(changes) THEN Range(ready) ELSE fresh, pct.priorities)}

\* record_emission counts what a task journals itself, but not what the executor
\* journals for it.
task_pull_counts(t) ==
    Cardinality({i \in DOMAIN journal[t] : journal[t][i].kind \notin {"Spawn", "TimerFire", "Wake"}})

\* ucb1_score is infinite for a task that was never pulled; other scores are not
\* told apart.
select_bandit ==
    LET unpulled == {i \in Positions : task_pull_counts(ready[i]) = 0}
    IN  IF unpulled # {} THEN unpulled ELSE Positions

\* select_bandit_pct: a draw for each change marks a position; the last of the
\* highest marks is chosen.
select_bandit_pct ==
    LET changes == IF Len(ready) < 4 THEN 1 ELSE Len(ready) \div 2
        Mark(draws, i) ==
            LET hits == {c \in 1..changes : draws[c] = i}
            IN  IF hits = {} THEN 0 ELSE changes + 2 - CHOOSE c \in hits : \A d \in hits : c >= d
        Best(draws) ==
            CHOOSE i \in Positions : \A j \in Positions :
                \/ Mark(draws, i) > Mark(draws, j)
                \/ Mark(draws, i) = Mark(draws, j) /\ i >= j
    IN  {Best(draws) : draws \in [1..changes -> Positions]}

\* The choices that select_fallback may make, with the PCT state after them.
select_fallback(policy, changes, step) ==
    CASE policy \in {"Random", "Dpor", "Replay"} ->
            {[choice |-> (draw(step) % Len(ready)) + 1, pct |-> pct]}
      [] policy = "Pct" -> select_pct(changes)
      [] policy = "Bandit" -> {[choice |-> i, pct |-> pct] : i \in select_bandit \cup select_bandit_pct}

\* Scheduler::choose of a decision that is made, and note_step_journal_len.
Made(choice) ==
    /\ ChooseAt(choice)
    /\ picked' = Append(picked, choice - 1)
    /\ polled' = Append(polled, [task |-> ready[choice], ready |-> Range(ready), generation |-> pct'.generation])
    /\ trace' = IF plan.policy = "Dpor"
                THEN Append(trace, [ready |-> ready, chosen |-> choice,
                                    journal_len |-> [t \in Tasks |-> Len(journal'[t])]])
                ELSE trace

\* ReplayStream has a decision for this step.
Recorded(step) == plan.policy = "Replay" /\ step < Len(plan.replay)

\* Scheduler::choose.  A strict replay that cannot follow ends the run before the
\* choice is journaled or a task is polled.
choose ==
    /\ phase = "choose"
    /\ LET value == plan.replay[steps + 1]
           policy == IF plan.policy = "Replay" THEN plan.fallback ELSE plan.policy
       IN  IF plan.strict /\ (Recorded(steps) => value >= Len(ready))
           THEN /\ violation' = IF Recorded(steps) THEN "OutOfRange" ELSE "Exhausted"
                /\ phase' = "end" /\ outcome' = "error"
                /\ UNCHANGED <<netVars, steps, decisions, program, asyncVars, blocked_on, done, ready,
                               now, timers, journal, send_seq, journal_error, picked, pct, trace, polled>>
           ELSE /\ UNCHANGED violation
                /\ \/ Recorded(steps) /\ UNCHANGED pct /\ Made((value % Len(ready)) + 1)
                   \/ /\ ~Recorded(steps)
                      /\ \E selected \in select_fallback(policy, plan.changes, steps) :
                            pct' = selected.pct /\ Made(selected.choice)
    /\ UNCHANGED <<drive, plan, base, pending, report>>

\* Mutated Trailing: the last decision is counted as used.
Trailing_but_one == plan.strict /\ Len(plan.replay) > Len(picked) + 1

\* check_trailing: a strict replay must have used up its decisions.
Trailing == plan.strict /\ Len(plan.replay) > Len(picked)

\* The rest of the loop, without a step monitor.
LoopStep ==
    /\ BudgetExhausted \/ WakeStep \/ advance_quiescent \/ RewakeStep \/ Settle
    /\ violation' = IF phase' = "end" /\ Trailing THEN "Trailing" ELSE violation
    /\ UNCHANGED <<drive, plan, picked, pct, trace, polled, base, pending, report>>

-----------------------------------------------------------------------------
(* The drivers.                                                            *)

Result ==
    [plan |-> plan, picked |-> picked, polled |-> polled, trace |-> trace, journal |-> journal,
     outcome |-> IF violation = "none" THEN outcome ELSE "error", violation |-> violation]

\* The vector clock of entry i of task t in the journal of a result.
RECURSIVE ClockOf(_, _, _)
ClockOf(entries, t, i) ==
    LET own == IF i = 1 THEN [u \in DOMAIN entries |-> 0] ELSE ClockOf(entries, t, i - 1)
        of == entries[t][i].of
        sent == IF entries[t][i].kind \in {"Recv", "Wake"} /\ of # NoMessage
                THEN ClockOf(entries, of[1], CHOOSE k \in DOMAIN entries[of[1]] :
                                                 entries[of[1]][k] = Entry("Send", of))
                ELSE own
        merged == [u \in DOMAIN entries |-> IF own[u] >= sent[u] THEN own[u] ELSE sent[u]]
    IN  [merged EXCEPT ![t] = @ + 1]

happens_before(c, d) == c # d /\ \A u \in DOMAIN c : c[u] <= d[u]

\* Mutated sleep_set_pruned: the clocks are those after the step.
sleep_set_pruned_late(b, n, task, alt) ==
    LET Latest(t) == ClockOf(b.journal, t, b.trace[n].journal_len[t])
    IN  happens_before(Latest(task), Latest(alt)) \/ happens_before(Latest(alt), Latest(task))

\* sleep_set_pruned at step n: the clocks that the tasks had after the step before;
\* none at the first step.
sleep_set_pruned(b, n, task, alt) ==
    LET Latest(t) == ClockOf(b.journal, t, b.trace[n - 1].journal_len[t])
    IN  n > 1 /\ (happens_before(Latest(task), Latest(alt)) \/ happens_before(Latest(alt), Latest(task)))

\* run_dpor: the decisions to force, in order, as many as max_runs leaves room for.
flips(b) ==
    LET At(n) ==
            SelectSeq([i \in DOMAIN b.trace[n].ready |-> <<n, i>>],
                LAMBDA f : f[2] # b.trace[n].chosen
                    /\ ~sleep_set_pruned(b, n, b.trace[n].ready[b.trace[n].chosen], b.trace[n].ready[f[2]]))
        all == FlattenSeq([n \in DOMAIN b.trace |-> At(n)])
    IN  SubSeq(all, 1, IF Len(all) < drive.max_runs THEN Len(all) ELSE drive.max_runs - 1)

\* What follows the base run: the flips of run_dpor, or replays of its decisions
\* as they are, one too long, one too short and with one changed.
Plans(b) ==
    IF b.plan.policy = "Dpor"
    THEN [k \in DOMAIN flips(b) |->
            LET f == flips(b)[k] IN ReplayPlan(Append(SubSeq(b.picked, 1, f[1] - 1), f[2] - 1), FALSE)]
    ELSE <<ReplayPlan(b.picked, TRUE), ReplayPlan(Append(b.picked, 0), TRUE),
           ReplayPlan(Front(b.picked), TRUE), ReplayPlan([b.picked EXCEPT ![1] = @ + 1], TRUE),
           ReplayPlan(Front(b.picked), FALSE), ReplayPlan([b.picked EXCEPT ![1] = @ + 4], FALSE)>>

Over == base # <<>> /\ pending = <<>>

\* A run is over: its result is kept, and the next one is made.
NextRun ==
    /\ phase = "end"
    /\ ~Over
    /\ IF base = <<>>
       THEN base' = <<Result>> /\ pending' = Plans(Result) /\ UNCHANGED report
       ELSE report' = Append(report, Result) /\ pending' = Tail(pending) /\ UNCHANGED base
    /\ UNCHANGED drive
    /\ IF pending' # <<>>
       THEN /\ plan' = Head(pending')
            /\ Restart(drive.run)
            /\ picked' = <<>> /\ violation' = "none" /\ trace' = <<>> /\ polled' = <<>>
            /\ pct' = PctState(DOMAIN drive.run.program)
       ELSE UNCHANGED <<vars, plan, picked, violation, pct, trace, polled>>

DriveNext == choose \/ LoopStep \/ NextRun

-----------------------------------------------------------------------------
\* A strict replay of the decisions of a run makes the same run: the same entries
\* of every task and the same outcome.  It accepts no other number of decisions,
\* it follows what it accepts to the letter, and only a strict replay is refused.
ReplayFaithful ==
    Over => \A k \in DOMAIN report :
        LET r == report[k]
            b == base[1]
        IN  /\ r.plan.strict /\ r.plan.replay = b.picked =>
                /\ r.violation = "none" /\ r.outcome = b.outcome
                /\ r.journal = b.journal /\ r.picked = b.picked
            /\ r.plan.strict /\ r.plan.replay # b.picked =>
                /\ IsPrefix(r.plan.replay, b.picked) => r.violation = "Exhausted"
                /\ IsPrefix(b.picked, r.plan.replay) => r.violation = "Trailing"
            /\ r.plan.strict =>
                /\ IsPrefix(r.picked, r.plan.replay)
                /\ r.violation = "none" => r.picked = r.plan.replay
            /\ ~r.plan.strict => r.violation = "none" /\ r.outcome # "error"

\* The entries that entry i of task t depends on.
RECURSIVE Past(_, _, _)
Past(entries, t, i) ==
    LET of == entries[t][i].of
        sender == {<<u, k>> \in UNION {{u} \X DOMAIN entries[u] : u \in DOMAIN entries} :
                     of # NoMessage /\ entries[t][i].kind # "Send" /\ entries[u][k] = Entry("Send", of)}
    IN  {<<t, i>>} \cup (IF i = 1 THEN {} ELSE Past(entries, t, i - 1))
        \cup UNION {Past(entries, e[1], e[2]) : e \in sender}

\* The pairs of a step and a ready task not chosen at it, neither of whose entries
\* so far depends on the last entry of the other task.
Racing(b) ==
    UNION {{<<n, alt>> : alt \in {t \in b.polled[n].ready \ {b.polled[n].task} :
                LET task == b.polled[n].task
                    Latest(u) == b.trace[n - 1].journal_len[u]
                IN  n = 1 \/ /\ <<t, Latest(t)>> \notin Past(b.journal, task, Latest(task))
                             /\ <<task, Latest(task)>> \notin Past(b.journal, t, Latest(t))}} :
           n \in DOMAIN b.polled}

\* The driver explores what it says: each later run repeats the base run up to one
\* step and there polls another ready task that races with the chosen one, no such
\* pair is explored twice, and with room for all of them all are explored.
FlipsExact ==
    Over /\ drive.plan.policy = "Dpor" =>
        LET b == base[1]
            Step(r) == Len(r.plan.replay)
            Key(r) == <<Step(r), r.polled[Step(r)].task>>
            keys == {Key(report[k]) : k \in DOMAIN report}
        IN  /\ \A k \in DOMAIN report :
                /\ Key(report[k]) \in Racing(b)
                /\ \A i \in 1..Step(report[k]) - 1 : report[k].polled[i].task = b.polled[i].task
                /\ report[k].outcome # "error"
            /\ Cardinality(keys) = Len(report)
            /\ IF Cardinality(Racing(b)) < drive.max_runs THEN keys = Racing(b)
               ELSE /\ Len(report) = drive.max_runs - 1
                    /\ \A r \in Racing(b) \ keys : \A s \in keys : s[1] <= r[1]

\* The PCT policy changes priorities at most as often as it may, and between two
\* changes it follows one order: of two ready tasks it never prefers first one and
\* then the other.
PriorityOrder ==
    plan.policy = "Pct" =>
        /\ pct.generation <= plan.changes
        /\ \A i, j \in DOMAIN polled :
            /\ i < j /\ polled[i].generation = polled[j].generation
            /\ {polled[i].task, polled[j].task} \subseteq polled[i].ready \cap polled[j].ready
            => polled[i].task = polled[j].task

\* The two policies that search for schedules keep their promises: DPOR explores
\* exactly the racing alternatives, PCT follows one order between priority changes.
PoliciesKept == FlipsExact /\ PriorityOrder
=============================================================================
