-------------------------- MODULE TaskQueueProofs --------------------------
(***************************************************************************)
(* Proofs about TaskQueue for every finite set of tasks, every attempt     *)
(* budget and every lease timeout.                                         *)
(***************************************************************************)
EXTENDS TaskQueue, FiniteSetTheorems, TLAPS

-----------------------------------------------------------------------------
(* Facts about the sequence operators the queue is built from.             *)

\* push_back adds its element and nothing else, and keeps ids distinct when the
\* element is new (VecDeque::push_back in push and retire_or_requeue).
LEMMA AppendFacts ==
    ASSUME NEW S, NEW q \in Seq(S), NEW t \in S
    PROVE  /\ Append(q, t) \in Seq(S)
           /\ \A x : In(Append(q, t), x) <=> In(q, x) \/ x = t
           /\ Distinct(q) /\ ~In(q, t) => Distinct(Append(q, t))
<1>1. /\ Append(q, t) \in Seq(S)
      /\ Len(Append(q, t)) = Len(q) + 1
      /\ Len(q) \in Nat
      /\ \A i \in 1..Len(q) : Append(q, t)[i] = q[i]
      /\ Append(q, t)[Len(q) + 1] = t
  OBVIOUS
<1>2. \A x : In(Append(q, t), x) <=> In(q, x) \/ x = t
  <2>1. ASSUME NEW x, In(Append(q, t), x) PROVE In(q, x) \/ x = t
    BY <1>1, <2>1 DEF In
  <2>2. ASSUME NEW x, In(q, x) \/ x = t PROVE In(Append(q, t), x)
    BY <1>1, <2>2 DEF In
  <2> QED BY <2>1, <2>2
<1>3. ASSUME Distinct(q), ~In(q, t) PROVE Distinct(Append(q, t))
  BY <1>1, <1>3 DEF In, Distinct
<1> QED BY <1>1, <1>2, <1>3

\* pop_front removes the front and nothing else (pull).
LEMMA TailFacts ==
    ASSUME NEW S, NEW q \in Seq(S), q # <<>>, Distinct(q)
    PROVE  /\ Head(q) \in S
           /\ Tail(q) \in Seq(S)
           /\ Distinct(Tail(q))
           /\ \A x : In(Tail(q), x) <=> In(q, x) /\ x # Head(q)
           /\ In(q, Head(q))
<1>1. /\ Tail(q) \in Seq(S)
      /\ Len(q) \in Nat \ {0}
      /\ Len(Tail(q)) = Len(q) - 1
      /\ \A i \in 1..(Len(q) - 1) : Tail(q)[i] = q[i + 1]
      /\ Head(q) = q[1]
      /\ Head(q) \in S
  OBVIOUS
<1>2. Distinct(Tail(q))
  BY <1>1 DEF Distinct
<1>3. In(q, Head(q))
  BY <1>1 DEF In
<1>4. ASSUME NEW x, In(Tail(q), x) PROVE In(q, x) /\ x # Head(q)
  BY <1>1, <1>4 DEF In, Distinct
<1>5. ASSUME NEW x, In(q, x), x # Head(q) PROVE In(Tail(q), x)
  <2>1. PICK i \in 1..Len(q) : q[i] = x
    BY <1>5 DEF In
  <2>2. i # 1
    BY <2>1, <1>1, <1>5
  <2>3. i - 1 \in 1..(Len(q) - 1) /\ Tail(q)[i - 1] = x
    BY <2>1, <2>2, <1>1
  <2> QED BY <2>3, <1>1 DEF In
<1> QED BY <1>1, <1>2, <1>3, <1>4, <1>5

\* Appending one queue of new ids to another (reclaim_expired).
LEMMA ConcatFacts ==
    ASSUME NEW S, NEW q \in Seq(S), NEW r \in Seq(S)
    PROVE  /\ q \o r \in Seq(S)
           /\ \A x : In(q \o r, x) <=> In(q, x) \/ In(r, x)
           /\ Distinct(q) /\ Distinct(r) /\ (\A x : ~(In(q, x) /\ In(r, x))) => Distinct(q \o r)
<1>1. /\ q \o r \in Seq(S)
      /\ Len(q) \in Nat /\ Len(r) \in Nat
      /\ Len(q \o r) = Len(q) + Len(r)
      /\ \A i \in 1..(Len(q) + Len(r)) :
            (q \o r)[i] = IF i <= Len(q) THEN q[i] ELSE r[i - Len(q)]
  OBVIOUS
<1>2. ASSUME NEW x, In(q \o r, x) PROVE In(q, x) \/ In(r, x)
  <2>1. PICK i \in 1..(Len(q) + Len(r)) : (q \o r)[i] = x
    BY <1>1, <1>2 DEF In
  <2>2. CASE i <= Len(q)
    BY <2>1, <2>2, <1>1 DEF In
  <2>3. CASE i > Len(q)
    <3>1. i - Len(q) \in 1..Len(r) /\ r[i - Len(q)] = x
      BY <2>1, <2>3, <1>1
    <3> QED BY <3>1 DEF In
  <2> QED BY <2>1, <2>2, <2>3, <1>1
<1>3. ASSUME NEW x, In(q, x) PROVE In(q \o r, x)
  BY <1>1, <1>3 DEF In
<1>4. ASSUME NEW x, In(r, x) PROVE In(q \o r, x)
  <2>1. PICK i \in 1..Len(r) : r[i] = x
    BY <1>4 DEF In
  <2>2. i + Len(q) \in 1..(Len(q) + Len(r)) /\ (q \o r)[i + Len(q)] = x
    BY <2>1, <1>1
  <2> QED BY <2>2, <1>1 DEF In
<1>5. ASSUME Distinct(q), Distinct(r), \A x : ~(In(q, x) /\ In(r, x))
      PROVE  Distinct(q \o r)
  <2> SUFFICES ASSUME NEW i \in 1..(Len(q) + Len(r)), NEW j \in 1..(Len(q) + Len(r)),
                      (q \o r)[i] = (q \o r)[j]
               PROVE  i = j
    BY <1>1 DEF Distinct
  <2>1. CASE i <= Len(q) /\ j <= Len(q)
    BY <2>1, <1>1, <1>5 DEF Distinct
  <2>2. CASE i > Len(q) /\ j > Len(q)
    <3>1. i - Len(q) \in 1..Len(r) /\ j - Len(q) \in 1..Len(r)
      BY <2>2, <1>1
    <3>2. r[i - Len(q)] = r[j - Len(q)]
      BY <2>2, <1>1
    <3>3. i - Len(q) = j - Len(q)
      BY <3>1, <3>2, <1>5 DEF Distinct
    <3> QED BY <3>3, <1>1
  <2>3. CASE i <= Len(q) /\ j > Len(q)
    <3>1. j - Len(q) \in 1..Len(r) /\ r[j - Len(q)] = q[i] /\ i \in 1..Len(q)
      BY <2>3, <1>1
    <3> QED BY <3>1, <1>5 DEF In
  <2>4. CASE i > Len(q) /\ j <= Len(q)
    <3>1. i - Len(q) \in 1..Len(r) /\ r[i - Len(q)] = q[j] /\ j \in 1..Len(q)
      BY <2>4, <1>1
    <3> QED BY <3>1, <1>5 DEF In
  <2> QED BY <2>1, <2>2, <2>3, <2>4, <1>1
<1> QED BY <1>1, <1>2, <1>3, <1>4, <1>5

\* Removing the position of an id removes that id and nothing else (cancel and
\* take_by_id).
LEMMA RemoveFacts ==
    ASSUME NEW S, NEW q \in Seq(S), NEW t, In(q, t), Distinct(q)
    PROVE  LET p == RemoveAt(q, Position(q, t)) IN
           /\ p \in Seq(S)
           /\ Distinct(p)
           /\ \A x : In(p, x) <=> In(q, x) /\ x # t
<1> DEFINE k == Position(q, t)
           p == RemoveAt(q, k)
<1>1. Len(q) \in Nat /\ \A i \in 1..Len(q) : q[i] \in S
  OBVIOUS
<1>2. k \in 1..Len(q) /\ q[k] = t
  <2>1. PICK i \in 1..Len(q) : q[i] = t
    BY DEF In
  <2>2. \A j \in 1..(i - 1) : q[j] # t
    BY <2>1, <1>1 DEF Distinct
  <2> QED BY <2>1, <2>2 DEF Position
<1> HIDE DEF k
<1>3. /\ p \in Seq(S)
      /\ Len(p) = Len(q) - 1
      /\ \A j \in 1..(Len(q) - 1) : p[j] = IF j < k THEN q[j] ELSE q[j + 1]
  <2>1. p \in [1..(Len(q) - 1) -> S]
    BY <1>1, <1>2 DEF RemoveAt
  <2>2. Len(q) - 1 \in Nat
    BY <1>1, <1>2
  <2>3. p \in Seq(S) /\ Len(p) = Len(q) - 1
    BY <2>1, <2>2
  <2> QED BY <2>3 DEF RemoveAt
<1> HIDE DEF p
<1>4. Distinct(p)
  BY <1>1, <1>2, <1>3 DEF Distinct
<1>5. ASSUME NEW x, In(p, x) PROVE In(q, x) /\ x # t
  BY <1>1, <1>2, <1>3, <1>5 DEF In, Distinct
<1>6. ASSUME NEW x, In(q, x), x # t PROVE In(p, x)
  <2>1. PICK i \in 1..Len(q) : q[i] = x
    BY <1>6 DEF In
  <2>2. i # k
    BY <2>1, <1>2, <1>6
  <2>3. CASE i < k
    <3>1. i \in 1..(Len(q) - 1) /\ p[i] = x
      BY <2>1, <2>3, <1>1, <1>2, <1>3
    <3> QED BY <3>1, <1>3 DEF In
  <2>4. CASE i > k
    <3>1. i - 1 \in 1..(Len(q) - 1) /\ p[i - 1] = x
      BY <2>1, <2>4, <1>1, <1>2, <1>3
    <3> QED BY <3>1, <1>3 DEF In
  <2> QED BY <2>1, <2>2, <2>3, <2>4, <1>1, <1>2
<1> QED BY <1>3, <1>4, <1>5, <1>6 DEF p, k

\* An enumeration of a set of tasks is a sequence of exactly its members, each
\* once (the order in which reclaim_expired walks its HashMap).
LEMMA OrderFacts ==
    ASSUME NEW R \in SUBSET Tasks, NEW o \in Orders(R)
    PROVE  /\ o \in Seq(Tasks)
           /\ Distinct(o)
           /\ \A x : In(o, x) <=> x \in R
<1>1. Cardinality(R) \in Nat
  BY TasksAssumption, FS_Subset, FS_CardinalityType
<1>2. o \in [1..Cardinality(R) -> R] /\ Distinct(o) /\ \A x \in R : In(o, x)
  BY DEF Orders
<1>3. o \in Seq(R) /\ Len(o) = Cardinality(R)
  BY <1>1, <1>2
<1>4. o \in Seq(Tasks)
  BY <1>3
<1>5. ASSUME NEW x, In(o, x) PROVE x \in R
  BY <1>2, <1>3, <1>5 DEF In
<1> QED BY <1>2, <1>4, <1>5

-----------------------------------------------------------------------------
(* The inductive invariant.  OneSlot is what makes it inductive: without it  *)
(* a charge could meet a task that is queued or finished elsewhere.  A task  *)
(* enters the queue uncharged, as Task::new builds it.                       *)

FreshUncharged == \A t \in Tasks : t \notin seen => attempts[t] = 0

IInv == TypeOK /\ OneSlot /\ AttemptBudget /\ FreshUncharged

\* What each operation does to the contents of the queue.
LEMMA PushEffect ==
    ASSUME IInv, NEW t \in Tasks, push(t)
    PROVE  /\ queue' \in Seq(Tasks) /\ Distinct(queue')
           /\ \A x \in Tasks : Queued(x)' <=> Queued(x) \/ x = t
<1>1. queue \in Seq(Tasks) /\ Distinct(queue) /\ ~In(queue, t) /\ queue' = Append(queue, t)
  BY DEF IInv, TypeOK, OneSlot, Queued, push
<1> QED BY <1>1, AppendFacts DEF Queued

LEMMA RetireEffect ==
    ASSUME IInv, NEW t \in Tasks, ~Queued(t), retire_or_requeue(t)
    PROVE  /\ queue' \in Seq(Tasks) /\ Distinct(queue')
           /\ \A x \in Tasks : Queued(x)' <=> Queued(x) \/ (x = t /\ ~Retires(t))
           /\ attempts' = [attempts EXCEPT ![t] = @ + 1]
           /\ failed' = IF Retires(t) THEN [failed EXCEPT ![t] = @ + 1] ELSE failed
<1>1. queue \in Seq(Tasks) /\ Distinct(queue) /\ ~In(queue, t)
  BY DEF IInv, TypeOK, OneSlot, Queued
<1>2. CASE Retires(t)
  BY <1>1, <1>2 DEF retire_or_requeue, Queued
<1>3. CASE ~Retires(t)
  <2>1. /\ queue' = Append(queue, t) /\ failed' = failed
        /\ attempts' = [attempts EXCEPT ![t] = @ + 1]
    BY <1>3 DEF retire_or_requeue
  <2>2. /\ queue' \in Seq(Tasks) /\ Distinct(queue')
        /\ \A x : In(queue', x) <=> In(queue, x) \/ x = t
    BY <1>1, <2>1, AppendFacts
  <2> QED BY <2>1, <2>2, <1>3 DEF Queued
<1> QED BY <1>2, <1>3

LEMMA PullEffect ==
    ASSUME IInv, NEW r, pull(r)
    PROVE  /\ queue' \in Seq(Tasks) /\ Distinct(queue')
           /\ \A x \in Tasks : Queued(x)' <=>
                 x # r /\ (Queued(x) \/ (x \in Expired /\ ~Retires(x)))
           /\ \/ r = None /\ leased' = leased \ Expired
              \/ /\ r \in Tasks
                 /\ Queued(r) \/ (r \in Expired /\ ~Retires(r))
                 /\ leased' = (leased \ Expired) \cup {r}
<1> DEFINE R == {t \in Expired : ~Retires(t)}
<1>1. PICK o \in Orders(R) :
        LET q == queue \o o IN
        /\ r = IF q = <<>> THEN None ELSE Head(q)
        /\ queue' = IF q = <<>> THEN q ELSE Tail(q)
        /\ leased' = (leased \ Expired) \cup IF q = <<>> THEN {} ELSE {r}
  BY DEF pull
<1> DEFINE q == queue \o o
<1>2. queue \in Seq(Tasks) /\ Distinct(queue) /\ leased \subseteq Tasks
  BY DEF IInv, TypeOK, OneSlot
<1>3. R \subseteq Tasks
  BY <1>2 DEF Expired
<1>4. o \in Seq(Tasks) /\ Distinct(o) /\ \A x : In(o, x) <=> x \in R
  BY <1>3, OrderFacts
<1>5. \A x : ~(In(queue, x) /\ In(o, x))
  BY <1>3, <1>4 DEF IInv, OneSlot, Queued, Expired
<1> HIDE DEF R
<1>6. q \in Seq(Tasks) /\ Distinct(q) /\ \A x : In(q, x) <=> In(queue, x) \/ x \in R
  BY <1>2, <1>4, <1>5, ConcatFacts
<1>7. \A x \in Tasks : x \in R <=> x \in Expired /\ ~Retires(x)
  BY DEF R
<1> HIDE DEF q
<1>8. CASE q = <<>>
  <2>1. r = None /\ queue' = <<>> /\ leased' = leased \ Expired
    BY <1>1, <1>8 DEF q
  <2>2. \A x : ~In(q, x)
    BY <1>8 DEF In
  <2> QED BY <2>1, <2>2, <1>6, <1>7, <1>8, NoneAssumption DEF Queued
<1>9. CASE q # <<>>
  <2>1. r = Head(q) /\ queue' = Tail(q) /\ leased' = (leased \ Expired) \cup {r}
    BY <1>1, <1>9 DEF q
  <2>2. r \in Tasks /\ In(q, r) /\ queue' \in Seq(Tasks) /\ Distinct(queue')
        /\ \A x : In(queue', x) <=> In(q, x) /\ x # r
    BY <2>1, <1>6, <1>9, TailFacts
  <2> QED BY <2>1, <2>2, <1>6, <1>7 DEF Queued
<1> QED BY <1>8, <1>9

LEMMA RemoveEffect ==
    ASSUME IInv, NEW t \in Tasks, Queued(t), queue' = RemoveAt(queue, Position(queue, t))
    PROVE  /\ queue' \in Seq(Tasks) /\ Distinct(queue')
           /\ \A x \in Tasks : Queued(x)' <=> Queued(x) /\ x # t
<1>1. queue \in Seq(Tasks) /\ Distinct(queue) /\ In(queue, t)
  BY DEF IInv, TypeOK, OneSlot, Queued
<1> QED BY <1>1, RemoveFacts DEF Queued

\* One more copy of t in a bag.
LEMMA OneMore ==
    ASSUME NEW f \in [Tasks -> Nat], NEW t \in Tasks, NEW g, g = [f EXCEPT ![t] = @ + 1]
    PROVE  \A x \in Tasks : g[x] = IF x = t THEN f[x] + 1 ELSE f[x]
OBVIOUS

\* A task that is queued or held is not finished.
LEMMA NotFinished ==
    ASSUME IInv, NEW t \in Tasks, Queued(t) \/ t \in leased \/ t \in taken
    PROVE  t \in seen /\ Terminal(t) = 0 /\ done[t] = 0 /\ failed[t] = 0 /\ cancelled[t] = 0
<1>1. t \in seen /\ Terminal(t) = 0
  BY DEF IInv, OneSlot
<1>2. done[t] \in Nat /\ failed[t] \in Nat /\ cancelled[t] \in Nat
  BY DEF IInv, TypeOK
<1>3. done[t] + failed[t] + cancelled[t] = 0
  BY <1>1 DEF Terminal
<1>4. \A a, b, c \in Nat : a + b + c = 0 => a = 0 /\ b = 0 /\ c = 0
  OBVIOUS
<1> QED BY <1>1, <1>2, <1>3, <1>4, Zenon

\* The initial state satisfies the invariant.
LEMMA InitInv == QueueInit => IInv
  BY MaxAttemptsAssumption
  DEF QueueInit, IInv, TypeOK, OneSlot, AttemptBudget, FreshUncharged, Queued, In, Distinct, Terminal

\* Every operation, and every tick of the clock, preserves the invariant.
LEMMA NextInv == IInv /\ [QueueNext]_queueVars => IInv'
<1> SUFFICES ASSUME IInv, [QueueNext]_queueVars PROVE IInv'
  OBVIOUS
<1> USE MaxAttemptsAssumption, LeaseAssumption
<1>t. TypeOK /\ OneSlot /\ AttemptBudget /\ FreshUncharged
  BY DEF IInv
<1>10. ASSUME UNCHANGED queueVars PROVE IInv'
  BY <1>t, <1>10
  DEF queueVars, IInv, TypeOK, OneSlot, AttemptBudget, FreshUncharged, Queued, Terminal
<1>1. ASSUME NEW t \in Tasks, push(t) PROVE IInv'
  <2>1. /\ queue' \in Seq(Tasks) /\ Distinct(queue')
        /\ \A x \in Tasks : Queued(x)' <=> Queued(x) \/ x = t
    BY <1>1, PushEffect
  <2>2. TypeOK'
    BY <1>t, <1>1, <2>1 DEF push, TypeOK
  <2>3. OneSlot'
    BY <1>t, <1>1, <2>1 DEF push, TypeOK, OneSlot, Terminal
  <2>4. AttemptBudget' /\ FreshUncharged'
    BY <1>t, <1>1, <2>1 DEF push, TypeOK, AttemptBudget, FreshUncharged
  <2> QED BY <2>2, <2>3, <2>4 DEF IInv
<1>2. ASSUME NEW r, pull(r) PROVE IInv'
  <2>1. /\ queue' \in Seq(Tasks) /\ Distinct(queue')
        /\ \A x \in Tasks : Queued(x)' <=>
              x # r /\ (Queued(x) \/ (x \in Expired /\ ~Retires(x)))
        /\ \/ r = None /\ leased' = leased \ Expired
           \/ /\ r \in Tasks
              /\ Queued(r) \/ (r \in Expired /\ ~Retires(r))
              /\ leased' = (leased \ Expired) \cup {r}
    BY <1>2, PullEffect
  <2>2. /\ attempts' = [t \in Tasks |-> IF t \in Expired THEN attempts[t] + 1 ELSE attempts[t]]
        /\ failed' = [t \in Tasks |-> IF t \in Expired /\ Retires(t) THEN failed[t] + 1 ELSE failed[t]]
        /\ left' = [t \in Tasks |-> IF t = r THEN LeaseTimeout
                                    ELSE IF t \in Expired THEN 0 ELSE left[t]]
        /\ UNCHANGED <<seen, done, cancelled, taken>>
    BY <1>2 DEF pull, PushAll
  <2>3. Expired \subseteq leased
    BY DEF Expired
  <2>4. TypeOK'
    <3>1. seen' \subseteq Tasks /\ leased' \subseteq Tasks /\ taken' \subseteq Tasks
      BY <1>t, <2>1, <2>2 DEF TypeOK
    <3>2. left' \in [Tasks -> Int]
      BY <1>t, <2>2 DEF TypeOK
    <3>3. attempts' \in [Tasks -> Nat] /\ failed' \in [Tasks -> Nat]
      BY <1>t, <2>2 DEF TypeOK
    <3>4. done' \in [Tasks -> Nat] /\ cancelled' \in [Tasks -> Nat]
      BY <1>t, <2>2 DEF TypeOK
    <3> QED BY <2>1, <3>1, <3>2, <3>3, <3>4 DEF TypeOK
  <2>5. OneSlot'
    BY <1>t, <2>1, <2>2, <2>3, NoneAssumption DEF TypeOK, OneSlot, Terminal
  <2>6. FreshUncharged'
    BY <1>t, <2>2, <2>3 DEF TypeOK, OneSlot, FreshUncharged
  <2>7. AttemptBudget'
    BY <1>t, <2>1, <2>2, <2>3, NoneAssumption
    DEF TypeOK, OneSlot, AttemptBudget, Retires
  <2> QED BY <2>4, <2>5, <2>6, <2>7 DEF IInv
<1>3. ASSUME NEW t \in Tasks, ack(t) PROVE IInv'
  <2>1. CASE t \in leased
    <3>1. /\ queue' = queue /\ leased' = leased \ {t}
          /\ left' = [left EXCEPT ![t] = 0]
          /\ done' = [done EXCEPT ![t] = @ + 1]
          /\ UNCHANGED <<seen, attempts, failed, cancelled, taken>>
          /\ \A x \in Tasks : Queued(x)' <=> Queued(x)
      BY <1>3, <2>1 DEF ack, Queued
    <3>2. TypeOK'
      BY <1>t, <3>1 DEF TypeOK
    <3>3. OneSlot'
      <4>1. \A x \in Tasks : Terminal(x)' = IF x = t THEN 1 ELSE Terminal(x)
        BY <1>t, <2>1, <3>1 DEF TypeOK, OneSlot, Terminal
      <4> QED BY <1>t, <2>1, <3>1, <4>1 DEF OneSlot
    <3>4. AttemptBudget' /\ FreshUncharged'
      BY <1>t, <3>1 DEF TypeOK, AttemptBudget, FreshUncharged
    <3> QED BY <3>2, <3>3, <3>4 DEF IInv
  <2>2. CASE t \notin leased
    BY <1>3, <1>10, <2>2 DEF ack
  <2> QED BY <2>1, <2>2
<1>4. ASSUME NEW t \in Tasks, report_failure(t) PROVE IInv'
  <2>1. CASE t \in leased
    <3>1. /\ ~Queued(t) /\ retire_or_requeue(t)
          /\ leased' = leased \ {t} /\ left' = [left EXCEPT ![t] = 0]
          /\ UNCHANGED <<seen, done, cancelled, taken>>
      BY <1>t, <1>4, <2>1 DEF report_failure, OneSlot
    <3>2. /\ queue' \in Seq(Tasks) /\ Distinct(queue')
          /\ \A x \in Tasks : Queued(x)' <=> Queued(x) \/ (x = t /\ ~Retires(t))
          /\ attempts' = [attempts EXCEPT ![t] = @ + 1]
          /\ failed' = IF Retires(t) THEN [failed EXCEPT ![t] = @ + 1] ELSE failed
      BY <3>1, RetireEffect
    <3>3. TypeOK'
      <4>1. /\ seen' \subseteq Tasks /\ queue' \in Seq(Tasks)
            /\ leased' \subseteq Tasks /\ taken' \subseteq Tasks
        BY <1>t, <3>1, <3>2 DEF TypeOK
      <4>2. left' \in [Tasks -> Int] /\ attempts' \in [Tasks -> Nat]
        BY <1>t, <3>1, <3>2 DEF TypeOK
      <4>3. failed' \in [Tasks -> Nat]
        BY <1>t, <3>2 DEF TypeOK
      <4>4. done' \in [Tasks -> Nat] /\ cancelled' \in [Tasks -> Nat]
        BY <1>t, <3>1 DEF TypeOK
      <4> QED BY <4>1, <4>2, <4>3, <4>4 DEF TypeOK
    <3>4. /\ \A x \in Tasks : attempts'[x] = IF x = t THEN attempts[x] + 1 ELSE attempts[x]
          /\ \A x \in Tasks : failed'[x] = IF x = t /\ Retires(t) THEN failed[x] + 1 ELSE failed[x]
      BY <1>t, <3>2 DEF TypeOK
    <3>5. t \in seen /\ t \notin taken /\ failed[t] = 0
          /\ \A x \in Tasks : Terminal(x)' = IF x = t /\ Retires(t) THEN 1 ELSE Terminal(x)
      <4>1. t \in seen /\ done[t] = 0 /\ failed[t] = 0 /\ cancelled[t] = 0
        BY <2>1, NotFinished
      <4>2. t \notin taken
        BY <1>t, <2>1 DEF OneSlot
      <4>3. \A x \in Tasks : Terminal(x)' = IF x = t /\ Retires(t) THEN 1 ELSE Terminal(x)
        BY <3>1, <3>4, <4>1 DEF Terminal
      <4> QED BY <4>1, <4>2, <4>3
    <3>6. OneSlot'
      BY <1>t, <2>1, <3>1, <3>2, <3>5 DEF OneSlot
    <3>7. AttemptBudget' /\ FreshUncharged'
      <4>1. FreshUncharged'
        BY <1>t, <3>1, <3>4, <3>5 DEF FreshUncharged
      <4> SUFFICES ASSUME NEW x \in Tasks
          PROVE  /\ attempts'[x] <= MaxAttempts \/ attempts'[x] = 1
                 /\ failed'[x] > 0 => attempts'[x] > 0 /\ attempts'[x] >= MaxAttempts
                 /\ Queued(x)' \/ x \in leased' \/ x \in taken' => attempts'[x] < MaxAttempts \/ attempts'[x] = 0
        BY <4>1 DEF AttemptBudget
      <4>2. attempts[x] \in Nat /\ failed[x] \in Nat
        BY <1>t DEF TypeOK
      <4>3. CASE x = t
        BY <1>t, <2>1, <3>1, <3>2, <3>4, <3>5, <4>2, <4>3 DEF AttemptBudget, Retires
      <4>4. CASE x # t
        BY <1>t, <3>1, <3>2, <3>4, <4>4 DEF AttemptBudget
      <4> QED BY <4>3, <4>4
    <3> QED BY <3>3, <3>6, <3>7 DEF IInv
  <2>2. CASE t \notin leased
    BY <1>4, <1>10, <2>2 DEF report_failure
  <2> QED BY <2>1, <2>2
<1>5. ASSUME NEW t \in Tasks, extend_lease(t) PROVE IInv'
  <2>1. UNCHANGED <<seen, queue, leased, attempts, done, failed, cancelled, taken>>
        /\ left' \in [Tasks -> Int]
    BY <1>t, <1>5 DEF extend_lease, Saturate, TypeOK
  <2> QED BY <1>t, <2>1
       DEF IInv, TypeOK, OneSlot, AttemptBudget, FreshUncharged, Queued, Terminal
<1>6. ASSUME NEW t \in Tasks, cancel(t) PROVE IInv'
  <2>1. CASE Queued(t)
    <3>1. /\ queue' \in Seq(Tasks) /\ Distinct(queue')
          /\ \A x \in Tasks : Queued(x)' <=> Queued(x) /\ x # t
      BY <1>6, <2>1, RemoveEffect DEF cancel
    <3>2. cancelled' = [cancelled EXCEPT ![t] = @ + 1]
          /\ UNCHANGED <<seen, leased, left, attempts, done, failed, taken>>
      BY <1>6, <2>1 DEF cancel
    <3>3. TypeOK'
      BY <1>t, <3>1, <3>2 DEF TypeOK
    <3>4. OneSlot'
      <4>1. \A x \in Tasks : Terminal(x)' = IF x = t THEN 1 ELSE Terminal(x)
        <5>1. \A x \in Tasks : cancelled'[x] = IF x = t THEN cancelled[x] + 1 ELSE cancelled[x]
          BY <1>t, <3>2, OneMore DEF TypeOK
        <5>2. done[t] = 0 /\ failed[t] = 0 /\ cancelled[t] = 0
          BY <2>1, NotFinished
        <5>3. \A x \in Tasks \ {t} : Terminal(x)' = Terminal(x)
          BY <3>2, <5>1 DEF Terminal
        <5>4. Terminal(t)' = 1
          BY <3>2, <5>1, <5>2 DEF Terminal
        <5> QED BY <5>3, <5>4
      <4> QED BY <1>t, <2>1, <3>1, <3>2, <4>1 DEF OneSlot
    <3>5. AttemptBudget' /\ FreshUncharged'
      BY <1>t, <3>1, <3>2 DEF TypeOK, AttemptBudget, FreshUncharged
    <3> QED BY <3>3, <3>4, <3>5 DEF IInv
  <2>2. CASE ~Queued(t) /\ t \in leased
    <3>1. /\ queue' = queue /\ leased' = leased \ {t}
          /\ left' = [left EXCEPT ![t] = 0]
          /\ cancelled' = [cancelled EXCEPT ![t] = @ + 1]
          /\ UNCHANGED <<seen, attempts, done, failed, taken>>
          /\ \A x \in Tasks : Queued(x)' <=> Queued(x)
      BY <1>6, <2>2 DEF cancel, Queued
    <3>2. TypeOK'
      BY <1>t, <3>1 DEF TypeOK
    <3>3. OneSlot'
      <4>1. \A x \in Tasks : Terminal(x)' = IF x = t THEN 1 ELSE Terminal(x)
        <5>1. \A x \in Tasks : cancelled'[x] = IF x = t THEN cancelled[x] + 1 ELSE cancelled[x]
          BY <1>t, <3>1, OneMore DEF TypeOK
        <5>2. done[t] = 0 /\ failed[t] = 0 /\ cancelled[t] = 0
          BY <2>2, NotFinished
        <5>3. \A x \in Tasks \ {t} : Terminal(x)' = Terminal(x)
          BY <3>1, <5>1 DEF Terminal
        <5>4. Terminal(t)' = 1
          BY <3>1, <5>1, <5>2 DEF Terminal
        <5> QED BY <5>3, <5>4
      <4> QED BY <1>t, <2>2, <3>1, <4>1 DEF OneSlot
    <3>4. AttemptBudget' /\ FreshUncharged'
      BY <1>t, <3>1 DEF TypeOK, AttemptBudget, FreshUncharged
    <3> QED BY <3>2, <3>3, <3>4 DEF IInv
  <2>3. CASE ~Queued(t) /\ t \notin leased
    BY <1>6, <1>10, <2>3 DEF cancel
  <2> QED BY <2>1, <2>2, <2>3
<1>7. ASSUME NEW t \in Tasks, take_by_id(t) PROVE IInv'
  <2>1. taken' = taken \cup {t} /\ UNCHANGED <<seen, attempts, done, failed, cancelled>>
    BY <1>7 DEF take_by_id
  <2>2. CASE Queued(t)
    <3>1. /\ queue' \in Seq(Tasks) /\ Distinct(queue')
          /\ \A x \in Tasks : Queued(x)' <=> Queued(x) /\ x # t
      BY <1>7, <2>2, RemoveEffect DEF take_by_id
    <3>2. UNCHANGED <<leased, left>>
      BY <1>7, <2>2 DEF take_by_id
    <3>3. TypeOK'
      BY <1>t, <2>1, <3>1, <3>2 DEF TypeOK
    <3>4. OneSlot'
      BY <1>t, <2>1, <2>2, <3>1, <3>2 DEF TypeOK, OneSlot, Terminal
    <3>5. AttemptBudget' /\ FreshUncharged'
      BY <1>t, <2>1, <2>2, <3>1, <3>2 DEF TypeOK, AttemptBudget, FreshUncharged
    <3> QED BY <3>3, <3>4, <3>5 DEF IInv
  <2>3. CASE ~Queued(t)
    <3>1. /\ t \in leased /\ queue' = queue /\ leased' = leased \ {t}
          /\ left' = [left EXCEPT ![t] = 0]
          /\ \A x \in Tasks : Queued(x)' <=> Queued(x)
      BY <1>7, <2>3 DEF take_by_id, Queued
    <3>2. TypeOK'
      BY <1>t, <2>1, <3>1 DEF TypeOK
    <3>3. OneSlot'
      BY <1>t, <2>1, <3>1 DEF TypeOK, OneSlot, Terminal
    <3>4. AttemptBudget' /\ FreshUncharged'
      BY <1>t, <2>1, <3>1 DEF TypeOK, AttemptBudget, FreshUncharged
    <3> QED BY <3>2, <3>3, <3>4 DEF IInv
  <2> QED BY <2>2, <2>3
<1>8. ASSUME NEW t \in Tasks, record_taken_task_failure(t) PROVE IInv'
  <2>1. ~Queued(t) /\ t \in taken /\ taken' = taken \ {t} /\ retire_or_requeue(t)
        /\ UNCHANGED <<seen, leased, left, done, cancelled>>
    BY <1>t, <1>8 DEF record_taken_task_failure, OneSlot
  <2>2. /\ queue' \in Seq(Tasks) /\ Distinct(queue')
        /\ \A x \in Tasks : Queued(x)' <=> Queued(x) \/ (x = t /\ ~Retires(t))
        /\ attempts' = [attempts EXCEPT ![t] = @ + 1]
        /\ failed' = IF Retires(t) THEN [failed EXCEPT ![t] = @ + 1] ELSE failed
    BY <2>1, RetireEffect
  <2>3. TypeOK'
    BY <1>t, <2>1, <2>2 DEF TypeOK
  <2>4. /\ \A x \in Tasks : attempts'[x] = IF x = t THEN attempts[x] + 1 ELSE attempts[x]
        /\ \A x \in Tasks : failed'[x] = IF x = t /\ Retires(t) THEN failed[x] + 1 ELSE failed[x]
    <3>1. attempts \in [Tasks -> Nat] /\ failed \in [Tasks -> Nat]
      BY <1>t DEF TypeOK
    <3>2. \A x \in Tasks : attempts'[x] = IF x = t THEN attempts[x] + 1 ELSE attempts[x]
      BY <2>2, <3>1, OneMore
    <3>3. CASE Retires(t)
      BY <2>2, <3>1, <3>2, <3>3, OneMore
    <3>4. CASE ~Retires(t)
      BY <2>2, <3>2, <3>4
    <3> QED BY <3>3, <3>4
  <2>5. t \in seen /\ t \notin leased /\ failed[t] = 0
        /\ \A x \in Tasks : Terminal(x)' = IF x = t /\ Retires(t) THEN 1 ELSE Terminal(x)
    <3>1. t \in seen /\ done[t] = 0 /\ failed[t] = 0 /\ cancelled[t] = 0
      BY <2>1, NotFinished
    <3>2. t \notin leased
      BY <1>t, <2>1 DEF OneSlot
    <3>3. \A x \in Tasks : Terminal(x)' = IF x = t /\ Retires(t) THEN 1 ELSE Terminal(x)
      BY <2>1, <2>4, <3>1 DEF Terminal
    <3> QED BY <3>1, <3>2, <3>3
  <2>6. OneSlot'
    BY <1>t, <2>1, <2>2, <2>5 DEF OneSlot
  <2>7. AttemptBudget' /\ FreshUncharged'
    <3>1. FreshUncharged'
      BY <1>t, <2>1, <2>4, <2>5 DEF FreshUncharged
    <3> SUFFICES ASSUME NEW x \in Tasks
        PROVE  /\ attempts'[x] <= MaxAttempts \/ attempts'[x] = 1
               /\ failed'[x] > 0 => attempts'[x] > 0 /\ attempts'[x] >= MaxAttempts
               /\ Queued(x)' \/ x \in leased' \/ x \in taken' => attempts'[x] < MaxAttempts \/ attempts'[x] = 0
      BY <3>1 DEF AttemptBudget
    <3>2. attempts[x] \in Nat /\ failed[x] \in Nat
      BY <1>t DEF TypeOK
    <3>3. CASE x = t
      BY <1>t, <2>1, <2>2, <2>4, <2>5, <3>2, <3>3 DEF AttemptBudget, Retires
    <3>4. CASE x # t
      BY <1>t, <2>1, <2>2, <2>4, <3>4 DEF AttemptBudget
    <3> QED BY <3>3, <3>4
  <2> QED BY <2>3, <2>6, <2>7 DEF IInv
<1>9. ASSUME Tick PROVE IInv'
  <2>1. UNCHANGED <<seen, queue, leased, attempts, done, failed, cancelled, taken>>
        /\ left' \in [Tasks -> Int]
    BY <1>t, <1>9 DEF Tick, TypeOK
  <2> QED BY <1>t, <2>1
       DEF IInv, TypeOK, OneSlot, AttemptBudget, FreshUncharged, Queued, Terminal
<1> QED
  BY <1>1, <1>2, <1>3, <1>4, <1>5, <1>6, <1>7, <1>8, <1>9, <1>10 DEF QueueNext

-----------------------------------------------------------------------------
(* Refinement: every step moves every task along one arc of its lifecycle. *)

\* A task all of whose slots a step leaves alone keeps its status.
LEMMA Unmoved ==
    ASSUME NEW x \in Tasks, attempts'[x] = attempts[x],
           Queued(x)' <=> Queued(x), x \in leased' <=> x \in leased,
           x \in taken' <=> x \in taken,
           done'[x] = done[x], failed'[x] = failed[x], cancelled'[x] = cancelled[x]
    PROVE  Lifecycle!Move(x)
  BY DEF Lifecycle!Move, Lifecycle!FreeArc, Status

\* One attempt charged to a held task retires or requeues it (retire_or_requeue).
LEMMA ChargedMove ==
    ASSUME IInv, NEW x \in Tasks, x \in leased \/ x \in taken,
           attempts'[x] = attempts[x] + 1,
           Queued(x)' <=> ~Retires(x), x \notin leased', x \notin taken',
           done'[x] = done[x], cancelled'[x] = cancelled[x],
           failed'[x] = IF Retires(x) THEN failed[x] + 1 ELSE failed[x]
    PROVE  Lifecycle!Move(x)
<1>1. TypeOK /\ ~Queued(x) /\ done[x] = 0 /\ failed[x] = 0
  <2>1. done[x] \in Nat /\ failed[x] \in Nat /\ cancelled[x] \in Nat
    BY DEF IInv, TypeOK
  <2>2. ~Queued(x) /\ Terminal(x) = 0
    BY DEF IInv, OneSlot
  <2>3. done[x] + failed[x] + cancelled[x] = 0
    BY <2>2 DEF Terminal
  <2>4. done[x] = 0 /\ failed[x] = 0
    BY <2>1, <2>3
  <2> QED BY <2>2, <2>4 DEF IInv
<1>2. Status(x) = IF x \in leased THEN "Leased" ELSE "Taken"
  BY <1>1 DEF Status
<1>3. Status(x)' = IF Retires(x) THEN "Failed" ELSE "Queued"
  BY <1>1 DEF Status
<1> QED BY <1>1, <1>2, <1>3
     DEF Lifecycle!Move, Lifecycle!ChargedArc, Lifecycle!Held, Retires

\* The step of a holder that gives t back through retire_or_requeue.
LEMMA HeldRetires ==
    ASSUME IInv, NEW x \in Tasks, NEW t \in Tasks, retire_or_requeue(t),
           t \in leased \/ t \in taken, ~Queued(t),
           leased' = leased \ {t}, taken' \in {taken, taken \ {t}}, t \notin taken',
           done' = done, cancelled' = cancelled
    PROVE  Lifecycle!Move(x)
<1>1. TypeOK
  BY DEF IInv
<1>2. /\ Queued(x)' <=> Queued(x) \/ (x = t /\ ~Retires(t))
      /\ attempts' = [attempts EXCEPT ![t] = @ + 1]
      /\ failed' = IF Retires(t) THEN [failed EXCEPT ![t] = @ + 1] ELSE failed
  BY RetireEffect
<1>3. CASE x = t
  <2>1. attempts'[x] = attempts[x] + 1
        /\ failed'[x] = IF Retires(x) THEN failed[x] + 1 ELSE failed[x]
    BY <1>1, <1>2, <1>3 DEF TypeOK
  <2>2. Queued(x)' <=> ~Retires(x)
    BY <1>2, <1>3
  <2> QED BY <1>3, <2>1, <2>2, ChargedMove
<1>4. CASE x # t
  <2>1. attempts'[x] = attempts[x] /\ failed'[x] = failed[x]
    BY <1>1, <1>2, <1>4 DEF TypeOK
  <2> QED BY <1>2, <1>4, <2>1, Unmoved
<1> QED BY <1>3, <1>4

LEMMA StepMoves ==
    ASSUME IInv, [QueueNext]_queueVars, NEW x \in Tasks
    PROVE  Lifecycle!Move(x)
<1>t. TypeOK /\ OneSlot
  BY DEF IInv
<1>1. ASSUME NEW t \in Tasks, push(t) PROVE Lifecycle!Move(x)
  <2>1. Queued(x)' <=> Queued(x) \/ x = t
    BY <1>1, PushEffect
  <2>2. UNCHANGED <<leased, left, attempts, done, failed, cancelled, taken>> /\ t \notin seen
    BY <1>1 DEF push
  <2>3. CASE x = t
    <3>1. Status(x) = "Absent" /\ Status(x)' = "Queued"
      BY <1>t, <2>1, <2>2, <2>3 DEF TypeOK, OneSlot, Terminal, Status
    <3> QED BY <2>2, <3>1 DEF Lifecycle!Move, Lifecycle!FreeArc
  <2>4. CASE x # t
    BY <2>1, <2>2, <2>4, Unmoved
  <2> QED BY <2>3, <2>4
<1>2. ASSUME NEW r, pull(r) PROVE Lifecycle!Move(x)
  <2>1. /\ Queued(x)' <=> x # r /\ (Queued(x) \/ (x \in Expired /\ ~Retires(x)))
        /\ \/ r = None /\ leased' = leased \ Expired
           \/ /\ r \in Tasks
              /\ Queued(r) \/ (r \in Expired /\ ~Retires(r))
              /\ leased' = (leased \ Expired) \cup {r}
    BY <1>2, PullEffect
  <2>2. /\ attempts'[x] = IF x \in Expired THEN attempts[x] + 1 ELSE attempts[x]
        /\ failed'[x] = IF x \in Expired /\ Retires(x) THEN failed[x] + 1 ELSE failed[x]
        /\ UNCHANGED <<done, cancelled, taken>>
    BY <1>2 DEF pull, PushAll
  <2>3. CASE x \in Expired /\ x = r
    <3>1. Status(x) = "Leased" /\ Status(x)' = "Leased" /\ ~Retires(x)
      BY <1>t, <2>1, <2>3, NoneAssumption DEF OneSlot, Status, Expired
    <3> QED BY <1>t, <2>2, <2>3, <3>1, MaxAttemptsAssumption
         DEF TypeOK, Lifecycle!Move, Lifecycle!ChargedArc, Lifecycle!Held, Retires
  <2>4. CASE x \in Expired /\ x # r
    <3>1. x \in leased /\ x \notin leased' /\ x \notin taken' /\ ~Queued(x)
      BY <1>t, <2>1, <2>2, <2>4 DEF OneSlot, Expired
    <3> QED BY <2>1, <2>2, <2>4, <3>1, ChargedMove
  <2>5. CASE x \notin Expired /\ x = r
    <3>1. Status(x) = "Queued" /\ Status(x)' = "Leased"
      BY <2>1, <2>5, NoneAssumption DEF Status
    <3> QED BY <2>2, <2>5, <3>1 DEF Lifecycle!Move, Lifecycle!FreeArc
  <2>6. CASE x \notin Expired /\ x # r
    <3>1. (x \in leased' <=> x \in leased) /\ (Queued(x)' <=> Queued(x))
      BY <2>1, <2>6
    <3> QED BY <2>2, <2>6, <3>1, Unmoved
  <2> QED BY <2>3, <2>4, <2>5, <2>6
<1>3. ASSUME NEW t \in Tasks, ack(t) PROVE Lifecycle!Move(x)
  <2>1. CASE x = t /\ t \in leased
    <3>1. /\ queue' = queue /\ leased' = leased \ {t} /\ taken' = taken
          /\ attempts' = attempts /\ done'[x] = done[x] + 1
      BY <1>t, <1>3, <2>1 DEF ack, TypeOK
    <3>2. Status(x) = "Leased" /\ Status(x)' = "Done"
      <4>1. done[x] = 0 /\ failed[x] = 0 /\ cancelled[x] = 0
        BY <2>1, NotFinished
      <4>2. ~Queued(x) /\ x \notin taken /\ ~Queued(x)'
        BY <1>t, <2>1, <3>1 DEF OneSlot, Queued
      <4>3. x \in leased /\ x \notin leased' /\ x \notin taken' /\ done'[x] = 1
        BY <2>1, <3>1, <4>1, <4>2
      <4> QED BY <4>1, <4>2, <4>3 DEF Status
    <3> QED BY <3>1, <3>2 DEF Lifecycle!Move, Lifecycle!FreeArc
  <2>2. CASE x # t \/ t \notin leased
    <3>1. /\ (Queued(x)' <=> Queued(x)) /\ (x \in leased' <=> x \in leased)
          /\ done'[x] = done[x] /\ UNCHANGED <<attempts, failed, cancelled, taken>>
      BY <1>t, <1>3, <2>2 DEF ack, queueVars, TypeOK, Queued
    <3> QED BY <3>1, Unmoved
  <2> QED BY <2>1, <2>2
<1>4. ASSUME NEW t \in Tasks, report_failure(t) PROVE Lifecycle!Move(x)
  <2>1. CASE t \notin leased
    <3>1. UNCHANGED queueVars
      BY <1>4, <2>1 DEF report_failure
    <3> QED BY <3>1, Unmoved DEF queueVars, Queued
  <2>2. CASE t \in leased
    <3>1. ~Queued(t) /\ t \notin taken /\ leased' = leased \ {t} /\ retire_or_requeue(t)
          /\ UNCHANGED <<done, cancelled, taken>>
      BY <1>t, <1>4, <2>2 DEF report_failure, OneSlot
    <3> QED BY <1>t, <2>2, <3>1, HeldRetires
  <2> QED BY <2>1, <2>2
<1>5. ASSUME NEW t \in Tasks, extend_lease(t) PROVE Lifecycle!Move(x)
  <2>1. UNCHANGED <<queue, leased, attempts, done, failed, cancelled, taken>>
    BY <1>5 DEF extend_lease
  <2> QED BY <2>1, Unmoved DEF Queued
<1>6. ASSUME NEW t \in Tasks, cancel(t) PROVE Lifecycle!Move(x)
  <2>1. CASE ~Queued(t) /\ t \notin leased
    <3>1. UNCHANGED queueVars
      BY <1>6, <2>1 DEF cancel
    <3> QED BY <3>1, Unmoved DEF queueVars, Queued
  <2>2. CASE Queued(t) \/ t \in leased
    <3>1. /\ Queued(x)' <=> Queued(x) /\ x # t
          /\ x \in leased' <=> x \in leased /\ x # t
          /\ cancelled' = [cancelled EXCEPT ![t] = @ + 1]
          /\ UNCHANGED <<attempts, done, failed, taken>>
      <4>1. CASE Queued(t)
        <5>1. queue' = RemoveAt(queue, Position(queue, t)) /\ leased' = leased
              /\ cancelled' = [cancelled EXCEPT ![t] = @ + 1]
              /\ UNCHANGED <<attempts, done, failed, taken>>
          BY <1>6, <4>1 DEF cancel
        <5>2. Queued(x)' <=> Queued(x) /\ x # t
          BY <4>1, <5>1, RemoveEffect
        <5> QED BY <1>t, <4>1, <5>1, <5>2 DEF OneSlot
      <4>2. CASE ~Queued(t)
        BY <1>6, <2>2, <4>2 DEF cancel, Queued
      <4> QED BY <4>1, <4>2
    <3>2. CASE x = t
      <4>1. cancelled'[x] = cancelled[x] + 1 /\ x \notin taken /\ done[x] = 0 /\ failed[x] = 0
        BY <1>t, <2>2, <3>1, <3>2 DEF TypeOK, OneSlot, Terminal
      <4>2. Status(x) \in {"Queued", "Leased"} /\ Status(x)' = "Cancelled"
        BY <1>t, <2>2, <3>1, <3>2, <4>1 DEF TypeOK, Status
      <4> QED BY <3>1, <4>2 DEF Lifecycle!Move, Lifecycle!FreeArc
    <3>3. CASE x # t
      <4>1. cancelled'[x] = cancelled[x]
        BY <1>t, <3>1, <3>3 DEF TypeOK
      <4> QED BY <3>1, <3>3, <4>1, Unmoved
    <3> QED BY <3>2, <3>3
  <2> QED BY <2>1, <2>2
<1>7. ASSUME NEW t \in Tasks, take_by_id(t) PROVE Lifecycle!Move(x)
  <2>1. /\ Queued(t) \/ t \in leased
        /\ taken' = taken \cup {t}
        /\ UNCHANGED <<attempts, done, failed, cancelled>>
    BY <1>7 DEF take_by_id
  <2>2. /\ Queued(x)' <=> Queued(x) /\ x # t
        /\ x \in leased' <=> x \in leased /\ x # t
    <3>1. CASE Queued(t)
      <4>1. queue' = RemoveAt(queue, Position(queue, t)) /\ leased' = leased
        BY <1>7, <3>1 DEF take_by_id
      <4>2. Queued(x)' <=> Queued(x) /\ x # t
        BY <3>1, <4>1, RemoveEffect
      <4> QED BY <1>t, <3>1, <4>1, <4>2 DEF OneSlot
    <3>2. CASE ~Queued(t)
      BY <1>7, <3>2 DEF take_by_id, Queued
    <3> QED BY <3>1, <3>2
  <2>3. CASE x = t
    <3>1. Status(x) \in {"Queued", "Leased"} /\ Status(x)' = "Taken"
      BY <2>1, <2>2, <2>3 DEF Status
    <3> QED BY <2>1, <3>1 DEF Lifecycle!Move, Lifecycle!FreeArc
  <2>4. CASE x # t
    BY <2>1, <2>2, <2>4, Unmoved
  <2> QED BY <2>3, <2>4
<1>8. ASSUME NEW t \in Tasks, record_taken_task_failure(t) PROVE Lifecycle!Move(x)
  <2>1. ~Queued(t) /\ t \in taken /\ t \notin leased /\ retire_or_requeue(t)
        /\ leased' = leased \ {t} /\ taken' = taken \ {t}
        /\ UNCHANGED <<done, cancelled>>
    BY <1>t, <1>8 DEF record_taken_task_failure, OneSlot
  <2> QED BY <2>1, HeldRetires
<1>9. ASSUME Tick PROVE Lifecycle!Move(x)
  <2>1. UNCHANGED <<queue, leased, attempts, done, failed, cancelled, taken>>
    BY <1>9 DEF Tick
  <2> QED BY <2>1, Unmoved DEF Queued
<1>10. ASSUME UNCHANGED queueVars PROVE Lifecycle!Move(x)
  BY <1>10, Unmoved DEF queueVars, Queued
<1> QED
  BY <1>1, <1>2, <1>3, <1>4, <1>5, <1>6, <1>7, <1>8, <1>9, <1>10 DEF QueueNext

-----------------------------------------------------------------------------
(* Theorems.                                                               *)

\* The fields of InMemoryQueue keep their types.
THEOREM TypeCorrect == QueueSpec => []TypeOK
<1>1. IInv => TypeOK
  BY DEF IInv
<1> QED BY <1>1, InitInv, NextInv, PTL DEF QueueSpec

\* No call sequence loses a task or finishes it twice.
THEOREM OneSlotAlways == QueueSpec => []OneSlot
<1>1. IInv => OneSlot
  BY DEF IInv
<1> QED BY <1>1, InitInv, NextInv, PTL DEF QueueSpec

\* Attempts stay within the budget and failure means the budget is spent.
THEOREM AttemptBudgetAlways == QueueSpec => []AttemptBudget
<1>1. IInv => AttemptBudget
  BY DEF IInv
<1> QED BY <1>1, InitInv, NextInv, PTL DEF QueueSpec

\* A lease that ends without an ack or a cancel is charged one attempt.
THEOREM ReleaseIsChargedAlways == QueueSpec => ReleaseIsCharged
<1>1. ASSUME IInv, IInv', [QueueNext]_queueVars
      PROVE  \A t \in Tasks :
                /\ attempts'[t] >= attempts[t]
                /\ t \in leased /\ Queued(t)' => attempts'[t] = attempts[t] + 1
                /\ t \in leased /\ failed'[t] > failed[t] => attempts'[t] = attempts[t] + 1
  <2> TAKE t \in Tasks
  <2>1. Lifecycle!Move(t)
    BY <1>1, StepMoves
  <2>2. attempts'[t] >= attempts[t]
    BY <1>1, <2>1 DEF IInv, TypeOK, Lifecycle!Move
  <2>3. t \in leased => Status(t) = "Leased"
    BY <1>1 DEF IInv, OneSlot, Status
  <2>4. Queued(t)' => Status(t)' = "Queued"
    BY DEF Status
  <2>5. ASSUME t \in leased, failed'[t] > failed[t] PROVE Status(t)' = "Failed"
    <3>1. /\ failed[t] \in Nat
          /\ done'[t] \in Nat /\ failed'[t] \in Nat /\ cancelled'[t] \in Nat
      BY <1>1 DEF IInv, TypeOK
    <3>2. Terminal(t)' # 0
      BY <2>5, <3>1 DEF Terminal
    <3>3. Terminal(t)' = 1 /\ ~Queued(t)' /\ t \notin leased' /\ t \notin taken'
      BY <1>1, <3>2 DEF IInv, OneSlot
    <3>4. done'[t] + failed'[t] + cancelled'[t] = 1
      BY <3>3 DEF Terminal
    <3>5. done'[t] = 0 /\ failed'[t] > 0
      BY <2>5, <3>1, <3>4
    <3> QED BY <3>3, <3>5 DEF Status
  <2> QED BY <2>1, <2>2, <2>3, <2>4, <2>5 DEF Lifecycle!Move, Lifecycle!FreeArc
<1> QED BY <1>1, InitInv, NextInv, PTL DEF QueueSpec, ReleaseIsCharged

\* A finished task stays finished where it finished.
THEOREM TerminalIsFinalAlways == QueueSpec => TerminalIsFinal
<1>1. ASSUME IInv, IInv', [QueueNext]_queueVars
      PROVE  \A t \in Tasks : Terminal(t) > 0 =>
                /\ done'[t] = done[t] /\ failed'[t] = failed[t] /\ cancelled'[t] = cancelled[t]
                /\ ~Queued(t)' /\ t \notin leased' /\ t \notin taken'
  <2> SUFFICES ASSUME NEW t \in Tasks, Terminal(t) > 0
               PROVE  /\ done'[t] = done[t] /\ failed'[t] = failed[t]
                      /\ cancelled'[t] = cancelled[t]
                      /\ ~Queued(t)' /\ t \notin leased' /\ t \notin taken'
    OBVIOUS
  <2>1. Lifecycle!Move(t)
    BY <1>1, StepMoves
  <2>2. ~Queued(t) /\ t \notin leased /\ t \notin taken /\ Terminal(t) = 1
    BY <1>1 DEF IInv, OneSlot
  <2>3. Status(t) \in {"Done", "Failed", "Cancelled"}
    BY <1>1, <2>2 DEF IInv, TypeOK, Terminal, Status
  <2>4. Status(t)' = Status(t)
    BY <2>1, <2>3
       DEF Lifecycle!Move, Lifecycle!FreeArc, Lifecycle!ChargedArc, Lifecycle!Held
  <2>5. ~Queued(t)' /\ t \notin leased' /\ t \notin taken'
    BY <2>3, <2>4 DEF Status
  <2>6. /\ done[t] \in Nat /\ failed[t] \in Nat /\ cancelled[t] \in Nat
        /\ done'[t] \in Nat /\ failed'[t] \in Nat /\ cancelled'[t] \in Nat
    BY <1>1 DEF IInv, TypeOK
  <2>7. done[t] + failed[t] + cancelled[t] = 1
    BY <2>2 DEF Terminal
  <2>8. /\ Status(t) = IF done[t] > 0 THEN "Done" ELSE IF failed[t] > 0 THEN "Failed"
                       ELSE IF cancelled[t] > 0 THEN "Cancelled" ELSE "Absent"
        /\ Status(t)' = IF done'[t] > 0 THEN "Done" ELSE IF failed'[t] > 0 THEN "Failed"
                        ELSE IF cancelled'[t] > 0 THEN "Cancelled" ELSE "Absent"
    BY <2>2, <2>5 DEF Status
  <2>9. done'[t] + failed'[t] + cancelled'[t] \in {0, 1}
    BY <1>1 DEF IInv, OneSlot, Terminal
  <2>10. done'[t] = done[t] /\ failed'[t] = failed[t] /\ cancelled'[t] = cancelled[t]
    <3>1. CASE done[t] > 0
      <4>1. done'[t] > 0
        BY <2>4, <2>8, <3>1
      <4> QED BY <2>6, <2>7, <2>9, <3>1, <4>1
    <3>2. CASE ~(done[t] > 0) /\ failed[t] > 0
      <4>1. ~(done'[t] > 0) /\ failed'[t] > 0
        BY <2>4, <2>8, <3>2
      <4> QED BY <2>6, <2>7, <2>9, <3>2, <4>1
    <3>3. CASE ~(done[t] > 0) /\ ~(failed[t] > 0)
      <4>1. cancelled[t] > 0
        BY <2>6, <2>7, <3>3
      <4>2. ~(done'[t] > 0) /\ ~(failed'[t] > 0) /\ cancelled'[t] > 0
        BY <2>4, <2>8, <3>3, <4>1
      <4> QED BY <2>6, <2>7, <2>9, <3>3, <4>1, <4>2
    <3> QED BY <3>1, <3>2, <3>3
  <2> QED BY <2>5, <2>10
<1> QED BY <1>1, InitInv, NextInv, PTL DEF QueueSpec, TerminalIsFinal

\* The queue refines the lifecycle of TaskStatus.
THEOREM LifecycleRefined == QueueSpec => ImplementsLifecycle
<1>1. QueueInit => Lifecycle!LifecycleInit
  BY DEF QueueInit, Lifecycle!LifecycleInit, Status, Queued, In
<1>2. ASSUME IInv, IInv', [QueueNext]_queueVars
      PROVE  [Lifecycle!LifecycleNext]_<<[t \in Tasks |-> Status(t)], attempts>>
  <2>1. \A t \in Tasks : Lifecycle!Move(t)
    BY <1>2, StepMoves
  <2>2. [t \in Tasks |-> Status(t)]' \in [Tasks -> Lifecycle!Statuses]
    BY DEF Status, Lifecycle!Statuses
  <2>3. attempts' \in [Tasks -> Nat]
    BY <1>2 DEF IInv, TypeOK
  <2> QED BY <2>1, <2>2, <2>3 DEF Lifecycle!LifecycleNext
<1> QED BY <1>1, <1>2, InitInv, NextInv, PTL
     DEF QueueSpec, ImplementsLifecycle, Lifecycle!LifecycleSpec
=============================================================================
