------------------------------ MODULE Executor ------------------------------
(***************************************************************************)
(* The deterministic executor of ledger-sim (executor/mod.rs, effects.rs,   *)
(* adapter.rs, time.rs): one loop that wakes tasks, advances virtual time   *)
(* when none is ready, lets the scheduler choose and polls the chosen task  *)
(* once.  A task runs a program of instructions: a poll executes one, or,   *)
(* for an async task, all up to the next await that has to wait.  The       *)
(* scheduler may choose any index, which covers every policy.  phase says   *)
(* where in its iteration the loop is.                                      *)
(***************************************************************************)
EXTENDS SimNet

CONSTANT
    Runs             \* what may be run: a config, a program per task, the async tasks

VARIABLES
    phase,           \* where the loop is; "end" after it
    outcome,         \* RunOutcome, or "error"
    steps,           \* polls counted against max_steps
    decisions,       \* choices recorded by the scheduler
    program,         \* what each task has left to execute
    async,           \* the tasks that are async
    polling,         \* the async task that is being polled, if any
    timer_fired,     \* the timer of the task has fired and no sleep has seen it
    blocked_on,      \* "none", "Timer" or "Message"
    done,            \* finished tasks
    ready,           \* the ready list
    now,             \* virtual time
    timers,          \* [task, deadline], in the order in which they were set
    journal,         \* per actor, its entries [kind, of]: of is a message identity
    send_seq,        \* message identities taken, per task
    journal_error    \* an append failed on a path without a result

asyncVars == <<async, polling, timer_fired>>
execVars == <<phase, outcome, steps, decisions, program, asyncVars, blocked_on, done,
              ready, now, timers, journal, send_seq, journal_error>>
vars == <<netVars, execVars>>

Tasks == DOMAIN program
TaskOrder == [i \in 1..Cardinality(Tasks) |-> i - 1]

NoMessage == <<>>
Entry(kind, of) == [kind |-> kind, of |-> of]
Id(message) == <<message.from, message.seq>>

\* Tasks are numbered from 0 in the order of their programs.
StartOf(run) ==
    /\ config = run.config /\ program = run.program /\ async = run.async
    /\ NetInit
    /\ polling = <<>> /\ timer_fired = [t \in Tasks |-> FALSE]
    /\ phase = "wake" /\ outcome = "running"
    /\ steps = 0 /\ decisions = 0 /\ now = 0 /\ timers = <<>>
    /\ blocked_on = [t \in Tasks |-> "none"]
    /\ done = {}
    /\ ready = TaskOrder
    /\ journal = [t \in Tasks |-> <<Entry("Spawn", NoMessage)>>]
    /\ send_seq = [t \in Tasks |-> 0]
    /\ journal_error = FALSE

Init == \E run \in Runs : StartOf(run)

\* A new executor for the same or another run.
Restart(run) ==
    LET tasks == DOMAIN run.program
    IN  /\ config' = run.config /\ program' = run.program /\ async' = run.async
        /\ queue' = <<>> /\ partitions' = run.config.partitions
        /\ polling' = <<>> /\ timer_fired' = [t \in tasks |-> FALSE]
        /\ phase' = "wake" /\ outcome' = "running"
        /\ steps' = 0 /\ decisions' = 0 /\ now' = 0 /\ timers' = <<>>
        /\ blocked_on' = [t \in tasks |-> "none"]
        /\ done' = {}
        /\ ready' = [i \in 1..Cardinality(tasks) |-> i - 1]
        /\ journal' = [t \in tasks |-> <<Entry("Spawn", NoMessage)>>]
        /\ send_seq' = [t \in tasks |-> 0]
        /\ journal_error' = FALSE

-----------------------------------------------------------------------------
(* The loop.                                                               *)

all_tasks_done == done = Tasks

\* Mutated Finish: the budget wins over completion.
Finish_budget_wins(reason) ==
    /\ phase' = "end"
    /\ outcome' = IF journal_error THEN "error" ELSE reason

\* The end of run: a recorded append failure rejects it, completion wins over
\* the budget.
Finish(reason) ==
    /\ phase' = "end"
    /\ outcome' = IF journal_error THEN "error"
                  ELSE IF reason = "BudgetExhausted" /\ all_tasks_done THEN "Completed"
                  ELSE reason

BudgetExhausted ==
    /\ phase = "wake" /\ steps >= config.max_steps
    /\ Finish("BudgetExhausted")
    /\ UNCHANGED <<netVars, steps, decisions, program, asyncVars, blocked_on, done, ready, now,
                   timers, journal, send_seq, journal_error>>

\* The step monitor halts the run, before the first step or after any.
MonitorHalt ==
    /\ config.monitored /\ phase = "wake"
    /\ Finish("MonitorHalt")
    /\ UNCHANGED <<netVars, steps, decisions, program, asyncVars, blocked_on, done, ready, now,
                   timers, journal, send_seq, journal_error>>

\* The tasks that wake_blocked_with_messages wakes at a time, in task order.
Woken(time) ==
    SelectSeq(TaskOrder, LAMBDA t : blocked_on[t] = "Message" /\ has_ready_message(t, time))

wake_blocked_with_messages(time) ==
    LET woken == {t \in Tasks : blocked_on[t] = "Message" /\ has_ready_message(t, time)}
    IN  /\ ready' = ready \o Woken(time)
        /\ journal' = [t \in Tasks |->
                         IF t \in woken
                         THEN Append(journal[t], Entry("Wake", Id(queue[peek_index(t, time)])))
                         ELSE journal[t]]
        /\ blocked_on' = [t \in Tasks |-> IF t \in woken THEN "none" ELSE blocked_on[t]]

\* The head of an iteration.
WakeStep ==
    /\ phase = "wake" /\ steps < config.max_steps
    /\ wake_blocked_with_messages(now)
    /\ phase' = IF ready' = <<>> THEN "advance" ELSE "choose"
    /\ UNCHANGED <<netVars, outcome, steps, decisions, program, asyncVars, done, now, timers,
                   send_seq, journal_error>>

Earliest(S) == CHOOSE x \in S : \A y \in S : x <= y
Deadlines == {timers[i].deadline : i \in DOMAIN timers}

\* Timers whose deadline has come fire in the order in which they were set: no
\* two that fire at once have different deadlines.
FireTimers(time) ==
    LET Fires(timer) == timer.deadline <= time
        fired == SelectSeq(timers, Fires)
        tasks == {fired[i].task : i \in DOMAIN fired}
    IN  /\ now' = time
        /\ timers' = SelectSeq(timers, LAMBDA timer : ~Fires(timer))
        /\ ready' = ready \o [i \in DOMAIN fired |-> fired[i].task]
        /\ blocked_on' = [t \in Tasks |-> IF t \in tasks THEN "none" ELSE blocked_on[t]]
        /\ timer_fired' = [t \in Tasks |-> t \in tasks \/ timer_fired[t]]
        /\ journal' = [t \in Tasks |->
                         IF t \in tasks
                         THEN journal[t] \o <<Entry("TimerFire", NoMessage), Entry("Wake", NoMessage)>>
                         ELSE journal[t]]

\* advance_quiescent up to its last call: time moves to the earliest deadline or
\* delivery; if that has passed, to the earliest deadline.
advance_quiescent ==
    /\ phase = "advance" /\ phase' = "rewake"
    /\ LET times == Deadlines \cup DeliveryTimes
       IN  IF times = {} THEN UNCHANGED <<now, timers, ready, blocked_on, timer_fired, journal>>
           ELSE IF Earliest(times) > now THEN FireTimers(Earliest(times))
           ELSE IF Deadlines # {} THEN FireTimers(Earliest(Deadlines))
           ELSE UNCHANGED <<now, timers, ready, blocked_on, timer_fired, journal>>
    /\ UNCHANGED <<netVars, outcome, steps, decisions, program, async, polling, done, send_seq,
                   journal_error>>

\* Its last call.
RewakeStep ==
    /\ phase = "rewake"
    /\ wake_blocked_with_messages(now)
    /\ phase' = IF ready' = <<>> THEN "settle" ELSE "choose"
    /\ UNCHANGED <<netVars, outcome, steps, decisions, program, asyncVars, done, now, timers,
                   send_seq, journal_error>>

\* Mutated Settle: a blocked run goes on.
Settle_spins ==
    /\ phase = "settle"
    /\ IF all_tasks_done THEN Finish("Completed") ELSE phase' = "wake" /\ UNCHANGED outcome
    /\ UNCHANGED <<ready, blocked_on, journal, now>>
    /\ UNCHANGED <<netVars, steps, decisions, program, asyncVars, done, timers, send_seq, journal_error>>

\* Still nothing is ready: the run is over, or the clock moves to a message.
Settle ==
    /\ phase = "settle"
    /\ IF ~all_tasks_done /\ DeliveryTimes # {} /\ Earliest(DeliveryTimes) > now
       THEN /\ now' = Earliest(DeliveryTimes)
            /\ wake_blocked_with_messages(now')
            /\ IF ready' = <<>> THEN Finish("Blocked") ELSE phase' = "choose" /\ UNCHANGED outcome
       ELSE /\ Finish(IF all_tasks_done THEN "Completed" ELSE "Blocked")
            /\ UNCHANGED <<ready, blocked_on, journal, now>>
    /\ UNCHANGED <<netVars, steps, decisions, program, asyncVars, done, timers, send_seq, journal_error>>

-----------------------------------------------------------------------------
(* One instruction of task t.                                              *)

Journal(t, entries) == journal' = [journal EXCEPT ![t] = @ \o entries]
Park(t, why) == blocked_on' = [blocked_on EXCEPT ![t] = why]

\* Yield, Set, Input, ReadClock, Assert, Outcome and the Fs instructions: the
\* executor sees the entry only.
Local(t) ==
    /\ Journal(t, <<Entry("Local", NoMessage)>>)
    /\ UNCHANGED <<netVars, blocked_on, timer_fired, timers, send_seq, journal_error>>

\* park_sleep.
Sleep(t, ticks) ==
    /\ Journal(t, <<Entry("TimerSet", NoMessage)>>)
    /\ timers' = Append(timers, [task |-> t, deadline |-> now + ticks])
    /\ Park(t, "Timer")
    /\ timer_fired' = [timer_fired EXCEPT ![t] = FALSE]
    /\ UNCHANGED <<netVars, send_seq, journal_error>>

\* Receive: recv_now, or park_message.
Receive(t) ==
    /\ IF has_ready_message(t, now)
       THEN \E i \in served(t, now) :
                /\ Journal(t, <<Entry("Recv", Id(queue[i]))>>)
                /\ queue' = RemoveIndex(queue, i)
                /\ UNCHANGED blocked_on
       ELSE /\ Journal(t, <<Entry("Block", NoMessage)>>)
            /\ Park(t, "Message")
            /\ UNCHANGED queue
    /\ UNCHANGED <<config, partitions, timer_fired, timers, send_seq, journal_error>>

\* apply_partition.
Partition(t, pair) ==
    /\ Journal(t, <<Entry("Fault", NoMessage)>>)
    /\ toggle_partition(pair)
    /\ UNCHANGED <<config, queue, blocked_on, timer_fired, timers, send_seq, journal_error>>

\* journal_net_loss and journal_queue_full.
FateEntries(fate, id) ==
    CASE fate = "queued" -> <<>>
      [] fate = "lost" -> <<Entry("Lost", id)>>
      [] fate = "full" -> <<Entry(IF config.block THEN "Refused" ELSE "Lost", id)>>

\* Mutated Transmit: the loss of the first of two copies is not journaled.
Transmit_first_forgotten(t, message, delay, duplicate) ==
    \E one \in transmit_once(queue, message, delay) :
        IF one.fate # "full" /\ duplicate
        THEN \E two \in transmit_once(one.queue, message, delay) :
                /\ queue' = two.queue
                /\ Journal(t, <<Entry("Send", Id(message)), Entry("Duplicate", Id(message))>>
                              \o FateEntries(two.fate, Id(message)))
        ELSE /\ queue' = one.queue
             /\ Journal(t, <<Entry("Send", Id(message))>> \o FateEntries(one.fate, Id(message)))

\* One transmission, or two when a duplicate fault targets the message and the
\* queue was not full.
Transmit(t, message, delay, duplicate) ==
    \E one \in transmit_once(queue, message, delay) :
        IF one.fate # "full" /\ duplicate
        THEN \E two \in transmit_once(one.queue, message, delay) :
                /\ queue' = two.queue
                /\ Journal(t, <<Entry("Send", Id(message)), Entry("Duplicate", Id(message))>>
                              \o FateEntries(one.fate, Id(message))
                              \o FateEntries(two.fate, Id(message)))
        ELSE /\ queue' = one.queue
             /\ Journal(t, <<Entry("Send", Id(message))>> \o FateEntries(one.fate, Id(message)))

\* send_bytes_inner.
Send(t, to, delay) ==
    /\ send_seq' = [send_seq EXCEPT ![t] = @ + 1]
    /\ LET message == [from |-> t, seq |-> send_seq[t], to |-> to, deliver_at |-> now]
       IN  \/ /\ \E extra \in config.delays, duplicate \in {FALSE} \cup {"duplicate" \in config.faults} :
                     Transmit(t, message, delay + extra, duplicate)
              /\ UNCHANGED journal_error
           \/ /\ "drop" \in config.faults
              /\ Journal(t, <<Entry("Send", Id(message)), Entry("Lost", Id(message))>>)
              /\ UNCHANGED <<queue, journal_error>>
           \/ /\ "oversize" \in config.faults
              /\ journal_error' = TRUE
              /\ UNCHANGED <<queue, journal>>
    /\ UNCHANGED <<config, partitions, blocked_on, timer_fired, timers>>

\* ProgramFuture::execute_one for an instruction that does not finish the task.
execute_one(t, instruction) ==
    CASE instruction.op = "local" -> Local(t)
      [] instruction.op = "sleep" -> Sleep(t, instruction.ticks)
      [] instruction.op = "send" -> Send(t, instruction.to, instruction.ticks)
      [] instruction.op = "receive" -> Receive(t)
      [] instruction.op = "partition" -> Partition(t, <<t, instruction.to>>)

\* The program is over: a Done instruction, or none left.
Finished(t, entries) ==
    /\ Journal(t, entries)
    /\ done' = done \cup {t}
    /\ UNCHANGED <<netVars, blocked_on, timer_fired, timers, send_seq, journal_error, program>>

\* A receive that found nothing is executed again.
Consumed(t) ==
    program' = [program EXCEPT ![t] =
                  IF Head(@).op = "receive" /\ blocked_on'[t] = "Message" THEN @ ELSE Tail(@)]

swap_remove(s, i) == SubSeq([s EXCEPT ![i] = s[Len(s)]], 1, Len(s) - 1)

\* poll_task, for the task the scheduler chose: the poll of an async task begins.
poll_task(t, rest) ==
    IF t \in done \/ blocked_on[t] # "none"
    THEN /\ ready' = rest /\ phase' = "wake"
         /\ UNCHANGED <<netVars, steps, program, asyncVars, blocked_on, done, timers, journal, send_seq, journal_error>>
    ELSE IF t \in async
    THEN /\ ready' = rest /\ phase' = "poll" /\ polling' = <<t>>
         /\ UNCHANGED <<netVars, steps, program, async, timer_fired, blocked_on, done, timers, journal, send_seq, journal_error>>
    ELSE /\ steps' = steps + 1 /\ phase' = "wake"
         /\ \/ program[t] = <<>> /\ Finished(t, <<>>) /\ ready' = rest
            \/ /\ program[t] # <<>> /\ Head(program[t]).op = "done"
               /\ Finished(t, <<Entry("Outcome", NoMessage)>>) /\ ready' = rest
            \/ /\ program[t] # <<>> /\ Head(program[t]).op # "done"
               /\ execute_one(t, Head(program[t]))
               /\ Consumed(t)
               /\ ready' = IF blocked_on'[t] = "none" THEN Append(rest, t) ELSE rest
               /\ UNCHANGED done
         /\ UNCHANGED <<async, polling>>

\* The scheduler picks position i of the ready list.
ChooseAt(i) ==
    /\ phase = "choose"
    /\ decisions' = decisions + 1
    /\ poll_task(ready[i], swap_remove(ready, i))
    /\ UNCHANGED <<outcome, now>>

Choose == \E i \in DOMAIN ready : ChooseAt(i)

-----------------------------------------------------------------------------
(* The poll of an async task, one effect at a time.                        *)

Polled == polling[1]
Goes(ops) == phase = "poll" /\ program[Polled] # <<>> /\ Head(program[Polled]).op \in ops
PollGoesOn == UNCHANGED <<phase, polling, steps, ready>>

\* The future returned, or it waits: a task that did not park is ready again.
PollEnds ==
    /\ phase' = "wake" /\ polling' = <<>> /\ steps' = steps + 1
    /\ ready' = IF Polled \in done' \/ blocked_on'[Polled] # "none" THEN ready ELSE Append(ready, Polled)

AsyncReturns ==
    /\ phase = "poll" /\ program[Polled] = <<>>
    /\ Finished(Polled, <<>>)
    /\ PollEnds
    /\ UNCHANGED <<outcome, decisions, async, now>>

\* An effect that does not wait: a random draw is one of the local ones.
AsyncEffect ==
    /\ Goes({"local", "send", "partition"})
    /\ execute_one(Polled, Head(program[Polled]))
    /\ Consumed(Polled)
    /\ PollGoesOn
    /\ UNCHANGED <<outcome, decisions, async, done, now>>

\* Boundary::recv: RecvFuture.
AsyncReceive ==
    /\ Goes({"receive"})
    /\ Receive(Polled)
    /\ Consumed(Polled)
    /\ UNCHANGED <<outcome, decisions, async, done, now>>
    /\ IF blocked_on'[Polled] = "Message" THEN PollEnds ELSE PollGoesOn

\* Mutated Awake: the flag is left set.
Awake_keeps_flag(rest) ==
    IF timer_fired[Polled]
    THEN /\ program' = [program EXCEPT ![Polled] = rest]
         /\ UNCHANGED timer_fired
         /\ PollGoesOn
    ELSE /\ program' = [program EXCEPT ![Polled] = <<[op |-> "asleep"]>> \o rest]
         /\ UNCHANGED timer_fired
         /\ PollEnds

\* SleepFuture: it returns once the flag is set, and clears it.
Awake(rest) ==
    IF timer_fired[Polled]
    THEN /\ program' = [program EXCEPT ![Polled] = rest]
         /\ timer_fired' = [timer_fired EXCEPT ![Polled] = FALSE]
         /\ PollGoesOn
    ELSE /\ program' = [program EXCEPT ![Polled] = <<[op |-> "asleep"]>> \o rest]
         /\ UNCHANGED timer_fired
         /\ PollEnds

\* Effects::sleep sets the timer and awaits; unlike park_sleep it leaves the flag.
AsyncSleep ==
    /\ Goes({"sleep"})
    /\ Journal(Polled, <<Entry("TimerSet", NoMessage)>>)
    /\ timers' = Append(timers, [task |-> Polled, deadline |-> now + Head(program[Polled]).ticks])
    /\ Park(Polled, "Timer")
    /\ UNCHANGED <<netVars, outcome, decisions, async, done, now, send_seq, journal_error>>
    /\ Awake(Tail(program[Polled]))

AsyncWakes ==
    /\ Goes({"asleep"})
    /\ UNCHANGED <<netVars, outcome, decisions, async, blocked_on, done, now, timers, journal,
                   send_seq, journal_error>>
    /\ Awake(Tail(program[Polled]))

Grown(f, child, value) == [t \in Tasks \cup {child} |-> IF t = child THEN value ELSE f[t]]

\* Boundary::spawn_task: the child is ready before its parent is again.
AsyncSpawn ==
    /\ Goes({"spawn"})
    /\ LET child == Cardinality(Tasks)
       IN  /\ program' = Grown([program EXCEPT ![Polled] = Tail(@)], child, Head(program[Polled]).body)
           /\ async' = async \cup {child}
           /\ timer_fired' = Grown(timer_fired, child, FALSE)
           /\ blocked_on' = Grown(blocked_on, child, "none")
           /\ journal' = Grown(journal, child, <<Entry("Spawn", NoMessage)>>)
           /\ send_seq' = Grown(send_seq, child, 0)
           /\ ready' = Append(ready, child)
    /\ UNCHANGED <<netVars, phase, outcome, steps, decisions, polling, done, now, timers, journal_error>>

AsyncNext == AsyncReturns \/ AsyncEffect \/ AsyncReceive \/ AsyncSleep \/ AsyncWakes \/ AsyncSpawn

Next ==
    \/ BudgetExhausted \/ MonitorHalt \/ WakeStep \/ advance_quiescent \/ RewakeStep
    \/ Settle \/ Choose \/ AsyncNext

\* The loop runs until it breaks.
Spec == Init /\ [][Next]_vars /\ WF_vars(Next)

-----------------------------------------------------------------------------
\* No wakeup is lost and none is doubled: the ready list holds, once, each task
\* that is neither parked nor done, so every choice is a counted step and a
\* recorded decision is found again at the same step of a replay.  A task is
\* parked on a timer exactly when one timer is set for it, and time never passes
\* the deadline of a timer that has not fired.
ReadyExact ==
    /\ \A t \in Tasks :
        Cardinality({i \in DOMAIN ready : ready[i] = t}) =
            IF t \notin done /\ blocked_on[t] = "none" /\ <<t>> # polling THEN 1 ELSE 0
    /\ decisions = steps + Len(polling)
    /\ \A t \in Tasks :
        Cardinality({i \in DOMAIN timers : timers[i].task = t}) =
            IF blocked_on[t] = "Timer" THEN 1 ELSE 0
    /\ \A i \in DOMAIN timers : timers[i].deadline >= now

Count(kinds, id) ==
    Cardinality({<<t, i>> \in UNION {{t} \X DOMAIN journal[t] : t \in Tasks} :
                    journal[t][i].kind \in kinds /\ journal[t][i].of = id})

\* The journal accounts for every message: each copy sent is queued, received or
\* journaled as lost or refused, and a sender whose message has no Send entry has
\* recorded the error that rejects the run.  Without a reorder window the message
\* that a Wake entry names as its cause is the one that the woken task receives,
\* whatever is sent to it in between.
Accounted ==
    /\ \A t \in Tasks : \A k \in 0..send_seq[t] - 1 :
        LET id == <<t, k>>
        IN  /\ Count({"Send", "Duplicate"}, id) =
                 Count({"Recv", "Lost", "Refused"}, id)
                 + Cardinality({i \in DOMAIN queue : Id(queue[i]) = id})
            /\ Count({"Send"}, id) = 1 \/ journal_error
    /\ config.window = 0 =>
        \A t \in Tasks : \A i \in 1..Len(journal[t]) - 1 :
            journal[t][i].kind = "Wake" /\ journal[t][i].of # NoMessage
            => journal[t][i + 1] = Entry("Recv", journal[t][i].of)

\* A run says Completed only when every task is done, and Blocked only when each
\* unfinished task is parked, no parked receiver has a message to come, and no
\* timer is pending, unless time stopped at a message that nobody waits for.
OutcomeHonest ==
    /\ outcome = "Completed" => all_tasks_done
    /\ outcome \in {"Blocked", "BudgetExhausted"} => ~all_tasks_done
    /\ outcome = "Blocked" =>
        /\ \A t \in Tasks \ done : blocked_on[t] # "none" /\ ~(blocked_on[t] = "Message" /\ has_ready_message(t, now))
        /\ timers # <<>> => \E i \in DOMAIN queue :
                queue[i].deliver_at = now /\ blocked_on[queue[i].to] # "Message"

\* Every run ends: each iteration counts a step against the budget or stops.
Terminates == <>(phase = "end")

-----------------------------------------------------------------------------
(* What the repository says of the executor, and the code does not keep.   *)

\* "budget exhaustion, quiescence with pending tasks, or monitor halt all mean no
\* progress" (search/mod.rs): a run that ends as Blocked has no timer left that
\* would wake a task.
BlockedMeansNoProgress == outcome = "Blocked" => timers = <<>>
=============================================================================
