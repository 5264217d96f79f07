----------------------------- MODULE TaskQueue -----------------------------
(***************************************************************************)
(* The lease-accounting queue of the worker: InMemoryQueue in              *)
(* crates/ledger-worker/src/queue/memory.rs, filled by load_queue_file in  *)
(* crates/ledger-worker/src/main.rs.                                       *)
(*                                                                         *)
(* A task is its id.  Every method runs to completion under one lock, so   *)
(* each is one action.  The Vecs of finished tasks are bags (how often a   *)
(* task was pushed to each); the lease deadline is kept relative to now,   *)
(* as the time left, so that a run needs no bound on absolute time.        *)
(***************************************************************************)
EXTENDS Integers, Sequences, FiniteSets

CONSTANTS
    Tasks,          \* the task ids named by the queue file
    MaxAttempts,    \* Task::max_attempts
    LeaseTimeout,   \* InMemoryQueue::lease_timeout, in clock ticks
    Horizon,        \* bound: time left is kept within -Horizon..Horizon
    None            \* Option::None, the result of pulling an empty queue

ASSUME TasksAssumption == IsFiniteSet(Tasks)
ASSUME MaxAttemptsAssumption == MaxAttempts \in Nat
ASSUME LeaseAssumption == LeaseTimeout \in Nat /\ Horizon \in Nat /\ LeaseTimeout <= Horizon
ASSUME NoneAssumption == None \notin Tasks

VARIABLES
    seen,       \* ids load_queue_file has pushed (its seen_ids)
    queue,      \* VecDeque<Task>
    leased,     \* keys of the leased map
    left,       \* deadline - now, for the leased ids
    attempts,   \* Task::attempts
    done, failed, cancelled,    \* how often each task was pushed to the Vec
    taken       \* tasks handed to a caller by take_by_id

queueVars == <<seen, queue, leased, left, attempts, done, failed, cancelled, taken>>

QueueInit ==
    /\ seen = {}
    /\ queue = <<>>
    /\ leased = {}
    /\ left = [t \in Tasks |-> 0]
    /\ attempts = [t \in Tasks |-> 0]
    /\ done = [t \in Tasks |-> 0]
    /\ failed = [t \in Tasks |-> 0]
    /\ cancelled = [t \in Tasks |-> 0]
    /\ taken = {}

In(s, x) == \E i \in 1..Len(s) : s[i] = x

Distinct(s) == \A i, j \in 1..Len(s) : s[i] = s[j] => i = j

Queued(t) == In(queue, t)

Saturate(n) == IF n > Horizon THEN Horizon ELSE n

\* The bag f with one more copy of each member of S.
PushAll(f, S) == [t \in Tasks |-> IF t \in S THEN f[t] + 1 ELSE f[t]]

\* VecDeque::remove(i).
RemoveAt(s, i) == [j \in 1..(Len(s) - 1) |-> IF j < i THEN s[j] ELSE s[j + 1]]

\* iter().position(|x| x.id == t).
Position(s, t) == CHOOSE i \in 1..Len(s) : s[i] = t /\ \A j \in 1..(i - 1) : s[j] # t

\* Every order in which a HashMap may list the members of S.
Orders(S) ==
    {s \in [1..Cardinality(S) -> S] :
        Distinct(s) /\ \A x \in S : In(s, x)}

-----------------------------------------------------------------------------
(* Operations.                                                             *)

\* Mutated push: the duplicate-id test of load_queue_file is missing.
push_no_dedup(t) ==
    /\ seen' = seen \cup {t}
    /\ queue' = Append(queue, t)
    /\ UNCHANGED <<leased, left, attempts, done, failed, cancelled, taken>>

\* push; its caller load_queue_file skips an id it has seen before.
push(t) ==
    /\ t \notin seen
    /\ seen' = seen \cup {t}
    /\ queue' = Append(queue, t)
    /\ UNCHANGED <<leased, left, attempts, done, failed, cancelled, taken>>

\* Charging one attempt exhausts the budget of t.
Retires(t) == attempts[t] + 1 >= MaxAttempts

retire_or_requeue(t) ==
    /\ attempts' = [attempts EXCEPT ![t] = @ + 1]
    /\ \/ /\ Retires(t)
          /\ failed' = [failed EXCEPT ![t] = @ + 1]
          /\ queue' = queue
       \/ /\ ~Retires(t)
          /\ queue' = Append(queue, t)
          /\ failed' = failed

\* Mutated Expired: the deadline test is inverted.
Expired_flipped == {t \in leased : left[t] > 0}

Expired == {t \in leased : left[t] <= 0}

\* Mutated pull: an expired lease returns to the queue without a charge.
pull_uncharged(r) ==
    \E order \in Orders(Expired) :
        LET q == queue \o order IN
        /\ r = IF q = <<>> THEN None ELSE Head(q)
        /\ queue' = IF q = <<>> THEN q ELSE Tail(q)
        /\ leased' = (leased \ Expired) \cup IF q = <<>> THEN {} ELSE {r}
        /\ left' = [t \in Tasks |-> IF t = r THEN LeaseTimeout
                                    ELSE IF t \in Expired THEN 0 ELSE left[t]]
        /\ UNCHANGED <<seen, attempts, done, failed, cancelled, taken>>

\* pull: reclaim_expired charges every expired lease, then the front is leased.
\* r is the value pull returns.
pull(r) ==
    \E order \in Orders({t \in Expired : ~Retires(t)}) :
        LET q == queue \o order IN
        /\ attempts' = PushAll(attempts, Expired)
        /\ failed' = PushAll(failed, {t \in Expired : Retires(t)})
        /\ r = IF q = <<>> THEN None ELSE Head(q)
        /\ queue' = IF q = <<>> THEN q ELSE Tail(q)
        /\ leased' = (leased \ Expired) \cup IF q = <<>> THEN {} ELSE {r}
        /\ left' = [t \in Tasks |-> IF t = r THEN LeaseTimeout
                                    ELSE IF t \in Expired THEN 0 ELSE left[t]]
        /\ UNCHANGED <<seen, done, cancelled, taken>>

ack(t) ==
    \/ /\ t \in leased
       /\ leased' = leased \ {t}
       /\ left' = [left EXCEPT ![t] = 0]
       /\ done' = [done EXCEPT ![t] = @ + 1]
       /\ UNCHANGED <<seen, queue, attempts, failed, cancelled, taken>>
    \/ /\ t \notin leased
       /\ UNCHANGED queueVars

report_failure(t) ==
    \/ /\ t \in leased
       /\ leased' = leased \ {t}
       /\ left' = [left EXCEPT ![t] = 0]
       /\ retire_or_requeue(t)
       /\ UNCHANGED <<seen, done, cancelled, taken>>
    \/ /\ t \notin leased
       /\ UNCHANGED queueVars

extend_lease(t) ==
    /\ left' = IF t \in leased
               THEN [left EXCEPT ![t] = Saturate(@ + LeaseTimeout)]
               ELSE left
    /\ UNCHANGED <<seen, queue, leased, attempts, done, failed, cancelled, taken>>

cancel(t) ==
    \/ /\ Queued(t)
       /\ queue' = RemoveAt(queue, Position(queue, t))
       /\ cancelled' = [cancelled EXCEPT ![t] = @ + 1]
       /\ UNCHANGED <<seen, leased, left, attempts, done, failed, taken>>
    \/ /\ ~Queued(t)
       /\ t \in leased
       /\ leased' = leased \ {t}
       /\ left' = [left EXCEPT ![t] = 0]
       /\ cancelled' = [cancelled EXCEPT ![t] = @ + 1]
       /\ UNCHANGED <<seen, queue, attempts, done, failed, taken>>
    \/ /\ ~Queued(t)
       /\ t \notin leased
       /\ UNCHANGED queueVars

take_by_id(t) ==
    /\ \/ /\ Queued(t)
          /\ queue' = RemoveAt(queue, Position(queue, t))
          /\ UNCHANGED <<leased, left>>
       \/ /\ ~Queued(t)
          /\ t \in leased
          /\ leased' = leased \ {t}
          /\ left' = [left EXCEPT ![t] = 0]
          /\ queue' = queue
    /\ taken' = taken \cup {t}
    /\ UNCHANGED <<seen, attempts, done, failed, cancelled>>

\* The caller returns the task it owns, so t leaves taken.
record_taken_task_failure(t) ==
    /\ t \in taken
    /\ taken' = taken \ {t}
    /\ retire_or_requeue(t)
    /\ UNCHANGED <<seen, leased, left, done, cancelled>>

\* The injected clock advances by one tick.
Tick ==
    /\ left' = [t \in Tasks |-> IF t \in leased /\ left[t] > -Horizon
                                THEN left[t] - 1 ELSE left[t]]
    /\ UNCHANGED <<seen, queue, leased, attempts, done, failed, cancelled, taken>>

QueueNext ==
    \/ \E t \in Tasks : push(t)
    \/ \E r \in Tasks \cup {None} : pull(r)
    \/ \E t \in Tasks : ack(t)
    \/ \E t \in Tasks : report_failure(t)
    \/ \E t \in Tasks : extend_lease(t)
    \/ \E t \in Tasks : cancel(t)
    \/ \E t \in Tasks : take_by_id(t)
    \/ \E t \in Tasks : record_taken_task_failure(t)
    \/ Tick

QueueSpec == QueueInit /\ [][QueueNext]_queueVars

-----------------------------------------------------------------------------
(* What the queue guarantees.                                              *)

\* Types of the fields of InMemoryQueue; a bag never exceeds one copy of a task
\* only because of OneSlot, so its type here is Nat.
TypeOK ==
    /\ seen \subseteq Tasks
    /\ queue \in Seq(Tasks)
    /\ leased \subseteq Tasks
    /\ left \in [Tasks -> Int]
    /\ attempts \in [Tasks -> Nat]
    /\ done \in [Tasks -> Nat]
    /\ failed \in [Tasks -> Nat]
    /\ cancelled \in [Tasks -> Nat]
    /\ taken \subseteq Tasks

Terminal(t) == done[t] + failed[t] + cancelled[t]

\* Every task that was pushed is in exactly one place: waiting, leased, taken by
\* a caller, or pushed exactly once to exactly one of done, failed and cancelled.
\* No sequence of pulls, acks, failures, cancels and expiries loses a task or
\* finishes it twice.
OneSlot ==
    /\ Distinct(queue)
    /\ \A t \in Tasks :
        \/ t \notin seen /\ ~Queued(t) /\ t \notin leased /\ t \notin taken /\ Terminal(t) = 0
        \/ t \in seen /\ Queued(t) /\ t \notin leased /\ t \notin taken /\ Terminal(t) = 0
        \/ t \in seen /\ ~Queued(t) /\ t \in leased /\ t \notin taken /\ Terminal(t) = 0
        \/ t \in seen /\ ~Queued(t) /\ t \notin leased /\ t \in taken /\ Terminal(t) = 0
        \/ t \in seen /\ ~Queued(t) /\ t \notin leased /\ t \notin taken /\ Terminal(t) = 1

\* A task is never charged past its budget (one charge is always possible), it
\* is retired as failed exactly when the budget is spent, and a task that can
\* still run has budget left.
AttemptBudget ==
    \A t \in Tasks :
        /\ attempts[t] <= MaxAttempts \/ attempts[t] = 1
        /\ failed[t] > 0 => attempts[t] > 0 /\ attempts[t] >= MaxAttempts
        /\ Queued(t) \/ t \in leased \/ t \in taken => attempts[t] < MaxAttempts \/ attempts[t] = 0

\* A lease that ends without an ack or a cancel costs an attempt: no step takes a
\* task back from its holder for free, whether by a reported failure or by
\* expiry, and no step gives a charge back.
ReleaseIsCharged ==
    [][\A t \in Tasks :
        /\ attempts'[t] >= attempts[t]
        /\ t \in leased /\ Queued(t)' => attempts'[t] = attempts[t] + 1
        /\ t \in leased /\ failed'[t] > failed[t] => attempts'[t] = attempts[t] + 1]_queueVars

\* A finished task stays finished where it finished: it is never queued, leased
\* or taken again, whatever late ack, failure report, heartbeat or cancel arrives.
TerminalIsFinal ==
    [][\A t \in Tasks : Terminal(t) > 0 =>
        /\ done'[t] = done[t] /\ failed'[t] = failed[t] /\ cancelled'[t] = cancelled[t]
        /\ ~Queued(t)' /\ t \notin leased' /\ t \notin taken']_queueVars

\* The lifecycle status of a task, read off the slot that holds it.
Status(t) ==
    IF Queued(t) THEN "Queued"
    ELSE IF t \in leased THEN "Leased"
    ELSE IF t \in taken THEN "Taken"
    ELSE IF done[t] > 0 THEN "Done"
    ELSE IF failed[t] > 0 THEN "Failed"
    ELSE IF cancelled[t] > 0 THEN "Cancelled"
    ELSE "Absent"

Lifecycle == INSTANCE TaskLifecycle
    WITH status <- [t \in Tasks |-> Status(t)], charges <- attempts

\* The queue implements the task lifecycle: whatever is called in whatever order,
\* each task moves only along the arcs TaskStatus allows.
ImplementsLifecycle == Lifecycle!LifecycleSpec
=============================================================================
