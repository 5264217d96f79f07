------------------------- MODULE WorkerDrainProofs -------------------------
(***************************************************************************)
(* The loops of the worker over the queue, for every set of tasks, every   *)
(* outcome of them, every lease timeout, heartbeat and batch size: what    *)
(* the loops do to the queue is what its methods allow, and they own the   *)
(* leases they hold.                                                       *)
(***************************************************************************)
EXTENDS WorkerDrain, TaskQueueProofs

InTask == Publishing \cup {"run", "print"}

Idle == {"loading", "sleep", "pull", "stopped"}

Ended(t) == current = t /\ pc \in Publishing \cup {"print"}

Held(t) == (current = t /\ pc = "run") \/ (driver = "run_one" /\ Ended(t))

\* The loop is where it can be, and knows its task where it needs one.
LoopTyped ==
    /\ driver \in {"drain", "run_one", "direct"}
    /\ pc \in InTask \cup Idle \cup {"host"}
    /\ pc = "host" <=> driver = "direct"
    /\ pc \in InTask => current \in Tasks
    /\ stored \subseteq Tasks
    /\ printed \in [Tasks -> Nat]

\* The task in hand is leased until the loop acknowledges it, and its certificate
\* is confirmed after it was stored.
LeaseHeld ==
    /\ pc = "run" => current \in leased
    /\ driver = "run_one" /\ pc \in Publishing \cup {"print"} => current \in leased
    /\ pc = "confirm" => current \in stored

\* Nothing else is leased but what a panic left.
LeasesOwned == \A t \in leased : Held(t) \/ Outcome(t) = "panic"

PrintedOnce == \A t \in Tasks : done[t] = printed[t] + IF driver = "drain" /\ Ended(t) THEN 1 ELSE 0

StoredLate ==
    /\ confirmed \subseteq stored
    /\ \A t \in stored : done[t] = 1 \/ (driver = "run_one" /\ Ended(t))

LoopInv ==
    /\ LoopTyped
    /\ driver # "direct" => LeaseHeld /\ LeasesOwned /\ PrintedOnce /\ StoredLate

-----------------------------------------------------------------------------
(* The loops and the queue.                                                *)

\* Whatever a loop does to the queue, it does through one of its methods.
LEMMA LoopCallsQueue ==
    ASSUME LoopTyped, [DrainNext]_drainVars
    PROVE  [QueueNext]_queueVars
<1>1. CASE LoadTask \/ CallQueue
  BY <1>1 DEF LoadTask, CallQueue, QueueNext
<1>2. CASE EndLoad \/ Wake \/ CtrlC \/ EndRound \/ CompletePanic \/ FetchUrl \/ Put \/ Confirm \/ PrintResult
  BY <1>2 DEF EndLoad, Wake, CtrlC, EndRound, CompletePanic, FetchUrl, Put, Confirm, PrintResult
<1>3. CASE PullTask \/ RunOne
  BY <1>3 DEF PullTask, RunOne, QueueNext
<1>4. CASE ExtendLease \/ CompleteOk \/ CompleteErr
  <2>1. current \in Tasks
    BY <1>4 DEF ExtendLease, CompleteOk, CompleteErr, LoopTyped, InTask
  <2> QED BY <1>4, <2>1 DEF ExtendLease, CompleteOk, CompleteErr, QueueNext
<1>5. CASE RunOneExecuted \/ RunOneAcks
  <2>1. current \in Tasks
    BY <1>5 DEF RunOneExecuted, RunOneAcks, LoopTyped, InTask
  <2> QED BY <1>5, <2>1 DEF RunOneExecuted, RunOneAcks, QueueNext
<1>6. CASE Elapse
  BY <1>6 DEF Elapse, QueueNext
<1>7. CASE UNCHANGED drainVars
  BY <1>7 DEF drainVars
<1> QED BY <1>1, <1>2, <1>3, <1>4, <1>5, <1>6, <1>7 DEF DrainNext, Progress

LEMMA LoopInit == DrainInit => IInv /\ LoopInv
<1> SUFFICES ASSUME DrainInit PROVE IInv /\ LoopInv
  OBVIOUS
<1>1. IInv
  BY InitInv DEF DrainInit
<1>2. LoopInv
  BY DEF DrainInit, QueueInit, LoopInv, LoopTyped, InTask, Idle, Publishing, LeaseHeld, LeasesOwned,
         PrintedOnce, StoredLate, Ended
<1> QED BY <1>1, <1>2

\* What the queue guarantees of the counts of finished tasks.
LEMMA SlotFacts ==
    ASSUME IInv
    PROVE  /\ leased \subseteq Tasks
           /\ done \in [Tasks -> Nat]
           /\ \A t \in Tasks : done[t] \in Nat /\ done[t] <= 1
           /\ \A t \in leased : done[t] = 0
<1>1. TypeOK /\ OneSlot
  BY DEF IInv
<1>2. \A t \in Tasks : done[t] \in Nat /\ failed[t] \in Nat /\ cancelled[t] \in Nat
  BY <1>1 DEF TypeOK
<1>3. \A t \in Tasks : Terminal(t) <= 1 /\ (t \in leased => Terminal(t) = 0)
  BY <1>1 DEF OneSlot
<1> QED BY <1>1, <1>2, <1>3 DEF TypeOK, Terminal

\* Steps that move no task between idle places, or between the stages of a
\* publication, and leave the leases and the counts alone.
LEMMA LoopMoves ==
    ASSUME LoopInv, UNCHANGED <<leased, done, driver, printed, current, stored, confirmed>>,
           pc' = pc \/ (pc \in Idle /\ pc' \in Idle)
           \/ (pc \in Publishing /\ pc' \in (Publishing \cup {"print"}) \ {"confirm"})
    PROVE  LoopInv'
<1> USE DEF InTask, Idle, Publishing
<1>1. LoopTyped'
  BY DEF LoopInv, LoopTyped
<1> SUFFICES ASSUME driver # "direct" PROVE LeaseHeld' /\ LeasesOwned' /\ PrintedOnce' /\ StoredLate'
  BY <1>1 DEF LoopInv
<1>2. \A t \in Tasks : Ended(t)' <=> Ended(t)
  BY DEF Ended
<1>3. LeaseHeld'
  BY DEF LoopInv, LeaseHeld
<1>4. LeasesOwned'
  BY DEF LoopInv, LeasesOwned, Held, Ended, Outcome
<1>5. PrintedOnce' /\ StoredLate'
  BY DEF LoopInv, PrintedOnce, StoredLate, Ended
<1> QED BY <1>3, <1>4, <1>5

LEMMA LoopPulls ==
    ASSUME IInv, LoopInv, driver # "direct", pc = "pull", NEW r, pull(r), current' = r,
           IF r = None THEN pc' \in {"pull", "sleep"} ELSE pc' = "run",
           UNCHANGED <<driver, printed, stored, confirmed>>
    PROVE  LoopInv'
<1> USE DEF InTask, Idle, Publishing
<1>1. /\ \/ r = None /\ leased' = leased \ Expired
         \/ r \in Tasks /\ r # None /\ leased' = (leased \ Expired) \cup {r}
      /\ done' = done
  BY PullEffect, NoneAssumption DEF pull
<1>2. LoopTyped'
  BY <1>1 DEF LoopInv, LoopTyped
<1>3. LeaseHeld'
  BY <1>1 DEF LoopInv, LeaseHeld
<1>4. LeasesOwned'
  BY <1>1 DEF LoopInv, LeasesOwned, Held, Ended, Outcome
<1>5. PrintedOnce' /\ StoredLate'
  BY <1>1 DEF LoopInv, PrintedOnce, StoredLate, Ended
<1> QED BY <1>2, <1>3, <1>4, <1>5 DEF LoopInv

LEMMA LoopNext ==
    ASSUME IInv, LoopInv, [DrainNext]_drainVars
    PROVE  LoopInv'
<1> USE DEF InTask, Idle, Publishing
<1>t. LoopTyped
  BY DEF LoopInv
<1>1. CASE LoadTask
  BY <1>1, LoopMoves DEF LoadTask, push, loopVars, artifactVars
<1>2. CASE EndLoad
  BY <1>2, LoopMoves DEF EndLoad, queueVars, artifactVars
<1>3. CASE Wake \/ CtrlC \/ EndRound
  BY <1>3, LoopMoves DEF Wake, CtrlC, EndRound, queueVars, artifactVars
<1>4. CASE FetchUrl
  BY <1>4, LoopMoves DEF FetchUrl, queueVars, artifactVars
<1>5. CASE ExtendLease
  BY <1>5, LoopMoves DEF ExtendLease, extend_lease, artifactVars
<1>6. CASE Elapse
  BY <1>6, LoopMoves DEF Elapse, Tick, artifactVars
<1>7. CASE UNCHANGED drainVars
  BY <1>7, LoopMoves DEF drainVars, queueVars, loopVars, artifactVars
<1>8. CASE CallQueue
  BY <1>8, <1>t DEF CallQueue, loopVars, artifactVars, LoopInv, LoopTyped
<1>9. CASE PullTask \/ RunOne
  <2>1. driver # "direct" /\ pc = "pull"
    BY <1>9 DEF PullTask, RunOne
  <2>2. PICK r \in Tasks \cup {None} :
            /\ pull(r) /\ current' = r
            /\ IF r = None THEN pc' \in {"pull", "sleep"} ELSE pc' = "run"
            /\ UNCHANGED <<driver, printed, stored, confirmed>>
    BY <1>9 DEF PullTask, RunOne, artifactVars
  <2> QED BY <2>1, <2>2, LoopPulls
<1>10. CASE Put \/ Confirm
  <2>1. /\ pc \in {"put", "confirm"} /\ pc' \in {"confirm", "print"}
        /\ stored' \in {stored, stored \cup {current}}
        /\ pc' = "confirm" => current \in stored'
        /\ pc = "confirm" => stored' = stored
        /\ confirmed' = confirmed \/ (pc = "confirm" /\ confirmed' = confirmed \cup {current})
        /\ UNCHANGED <<leased, done, driver, printed, current>>
    BY <1>10 DEF Put, Confirm, queueVars
  <2>2. driver # "direct" /\ LeaseHeld /\ LeasesOwned /\ PrintedOnce /\ StoredLate /\ current \in Tasks
    BY <1>t, <2>1 DEF LoopInv, LoopTyped
  <2>3. LoopTyped'
    BY <1>t, <2>1, <2>2 DEF LoopTyped
  <2>4. LeaseHeld'
    BY <2>1, <2>2 DEF LeaseHeld
  <2>5. LeasesOwned'
    BY <2>1, <2>2 DEF LeasesOwned, Held, Ended, Outcome
  <2>6. PrintedOnce'
    BY <2>1, <2>2 DEF PrintedOnce, Ended
  <2>7. driver = "drain" => done[current] = 1
    <3>1. driver = "drain" => done[current] = printed[current] + 1
      BY <2>1, <2>2 DEF PrintedOnce, Ended
    <3> QED BY <1>t, <2>2, <3>1, SlotFacts DEF LoopTyped
  <2>8. StoredLate'
    BY <1>t, <2>1, <2>2, <2>7 DEF StoredLate, Ended, LoopTyped, LeaseHeld
  <2> QED BY <2>3, <2>4, <2>5, <2>6, <2>8 DEF LoopInv
<1>11. CASE CompleteOk
  <2>1. /\ driver = "drain" /\ pc = "run" /\ pc' = "publish" /\ ack(current)
        /\ UNCHANGED <<driver, printed, current, stored, confirmed>>
    BY <1>11 DEF CompleteOk, artifactVars
  <2>2. LeaseHeld /\ LeasesOwned /\ PrintedOnce /\ StoredLate /\ current \in leased /\ current \in Tasks
    BY <1>t, <2>1 DEF LoopInv, LoopTyped, LeaseHeld
  <2>3. leased' = leased \ {current} /\ done' = [done EXCEPT ![current] = @ + 1]
    BY <2>1, <2>2 DEF ack
  <2>4. LoopTyped' /\ LeaseHeld'
    BY <1>t, <2>1, <2>2 DEF LoopTyped, LeaseHeld
  <2>5. LeasesOwned'
    BY <2>1, <2>2, <2>3 DEF LeasesOwned, Held, Ended, Outcome
  <2>6. PrintedOnce'
    <3> SUFFICES ASSUME NEW t \in Tasks
        PROVE  done'[t] = printed'[t] + IF driver' = "drain" /\ Ended(t)' THEN 1 ELSE 0
      BY DEF PrintedOnce
    <3>1. done[t] = printed[t] + 0 /\ done[t] \in Nat /\ printed[t] \in Nat
      BY <1>t, <2>1, <2>2, SlotFacts DEF PrintedOnce, Ended, LoopTyped
    <3>2. done'[t] = IF t = current THEN done[t] + 1 ELSE done[t]
      BY <2>2, <2>3, SlotFacts
    <3>3. driver' = "drain" /\ (Ended(t)' <=> t = current)
      BY <2>1 DEF Ended
    <3> QED BY <2>1, <3>1, <3>2, <3>3
  <2>7. StoredLate'
    BY <1>t, <2>1, <2>2, <2>3, SlotFacts DEF StoredLate, Ended, LoopTyped
  <2> QED BY <2>4, <2>5, <2>6, <2>7 DEF LoopInv
<1>12. ASSUME pc = "run", pc' \in Idle, driver # "direct",
              UNCHANGED <<done, driver, printed, stored, confirmed>>,
              leased' = leased \ {current} \/ (leased' = leased /\ Outcome(current) = "panic")
       PROVE  LoopInv'
  <2>1. LeaseHeld /\ LeasesOwned /\ PrintedOnce /\ StoredLate
    BY <1>12 DEF LoopInv
  <2>2. LoopTyped' /\ LeaseHeld'
    BY <1>t, <1>12 DEF LoopTyped, LeaseHeld
  <2>3. LeasesOwned'
    BY <1>12, <2>1 DEF LeasesOwned, Held, Ended, Outcome
  <2>4. PrintedOnce' /\ StoredLate'
    BY <1>12, <2>1 DEF PrintedOnce, StoredLate, Ended
  <2> QED BY <2>2, <2>3, <2>4 DEF LoopInv
<1>13. CASE CompleteErr \/ CompletePanic
  <2>1. pc = "run" => current \in leased
    BY <1>13 DEF LoopInv, LeaseHeld, CompleteErr, CompletePanic
  <2> QED BY <1>13, <1>12, <2>1 DEF CompleteErr, CompletePanic, report_failure, queueVars, artifactVars
<1>14. CASE RunOneExecuted
  <2>1. /\ driver = "run_one" /\ pc = "run"
        /\ UNCHANGED <<driver, printed, stored, confirmed>>
    BY <1>14 DEF RunOneExecuted, artifactVars
  <2>2. LeaseHeld /\ LeasesOwned /\ PrintedOnce /\ StoredLate /\ current \in leased /\ current \in Tasks
    BY <1>t, <2>1 DEF LoopInv, LoopTyped, LeaseHeld
  <2>3. CASE pc' = "publish" /\ UNCHANGED <<queueVars, current>>
    <3>1. LoopTyped' /\ LeaseHeld'
      BY <1>t, <2>1, <2>2, <2>3 DEF LoopTyped, LeaseHeld, queueVars
    <3>2. LeasesOwned'
      BY <2>1, <2>2, <2>3 DEF LeasesOwned, Held, Ended, Outcome, queueVars
    <3>3. PrintedOnce' /\ StoredLate'
      BY <2>1, <2>2, <2>3 DEF PrintedOnce, StoredLate, Ended, queueVars
    <3> QED BY <3>1, <3>2, <3>3 DEF LoopInv
  <2>4. CASE report_failure(current) /\ pc' = "pull"
    BY <1>12, <2>1, <2>2, <2>4 DEF report_failure
  <2>5. CASE Outcome(current) = "panic" /\ pc' = "stopped" /\ UNCHANGED queueVars
    BY <1>12, <2>1, <2>5 DEF queueVars
  <2> QED BY <1>14, <2>3, <2>4, <2>5 DEF RunOneExecuted
<1>15. CASE RunOneAcks \/ PrintResult
  <2>1. /\ driver # "direct" /\ pc = "print" /\ pc' = "pull"
        /\ printed' = [printed EXCEPT ![current] = @ + 1]
        /\ UNCHANGED <<driver, stored, confirmed>>
        /\ IF driver = "run_one" THEN ack(current) ELSE driver = "drain" /\ UNCHANGED queueVars
    BY <1>15 DEF RunOneAcks, PrintResult, artifactVars
  <2>2. LeaseHeld /\ LeasesOwned /\ PrintedOnce /\ StoredLate /\ current \in Tasks
    BY <1>t, <2>1 DEF LoopInv, LoopTyped
  <2>3. IF driver = "run_one"
        THEN /\ current \in leased /\ leased' = leased \ {current}
             /\ done' = [done EXCEPT ![current] = @ + 1]
        ELSE leased' = leased /\ done' = done
    BY <2>1, <2>2 DEF LeaseHeld, ack, queueVars
  <2>4. LoopTyped' /\ LeaseHeld'
    BY <1>t, <2>1, <2>2 DEF LoopTyped, LeaseHeld
  <2>5. LeasesOwned'
    BY <2>1, <2>2, <2>3 DEF LeasesOwned, Held, Ended, Outcome
  <2>6. PrintedOnce'
    <3> SUFFICES ASSUME NEW t \in Tasks PROVE done'[t] = printed'[t] + 0
      BY <2>1 DEF PrintedOnce, Ended
    <3>1. done[t] \in Nat /\ printed[t] \in Nat
      BY <1>t, SlotFacts DEF LoopTyped
    <3>2. printed'[t] = IF t = current THEN printed[t] + 1 ELSE printed[t]
      BY <1>t, <2>1, <2>2 DEF LoopTyped
    <3>3. done'[t] = IF driver = "run_one" /\ t = current THEN done[t] + 1 ELSE done[t]
      BY <2>2, <2>3, SlotFacts
    <3>4. done[t] = printed[t] + IF driver = "drain" /\ t = current THEN 1 ELSE 0
      BY <2>1, <2>2 DEF PrintedOnce, Ended
    <3> QED BY <2>1, <3>1, <3>2, <3>3, <3>4
  <2>7. StoredLate'
    <3> SUFFICES ASSUME NEW t \in stored PROVE done'[t] = 1
      BY <2>1, <2>2 DEF StoredLate
    <3>1. t \in Tasks /\ (done[t] = 1 \/ (driver = "run_one" /\ t = current))
      BY <1>t, <2>2 DEF StoredLate, Ended, LoopTyped
    <3>2. current \in leased => done[current] = 0
      BY SlotFacts
    <3> QED BY <2>2, <2>3, <3>1, <3>2, SlotFacts
  <2> QED BY <2>4, <2>5, <2>6, <2>7 DEF LoopInv
<1> QED BY <1>1, <1>2, <1>3, <1>4, <1>5, <1>6, <1>7, <1>8, <1>9, <1>10, <1>11, <1>13, <1>14, <1>15
    DEF DrainNext, Progress

-----------------------------------------------------------------------------
(* The theorems.                                                           *)

LEMMA LoopAlways == DrainSpec => [](IInv /\ LoopInv)
<1>1. IInv /\ LoopInv /\ [DrainNext]_drainVars => (IInv /\ LoopInv)'
  <2> SUFFICES ASSUME IInv, LoopInv, [DrainNext]_drainVars PROVE IInv' /\ LoopInv'
    OBVIOUS
  <2>1. [QueueNext]_queueVars
    BY LoopCallsQueue DEF LoopInv
  <2> QED BY <2>1, NextInv, LoopNext
<1> QED BY <1>1, LoopInit, PTL DEF DrainSpec

\* The loops use the queue as its specification allows: every behaviour of the
\* drain loop, of run_one and of a host of the queue is a behaviour of the queue, so
\* whatever holds of the queue under calls in any order holds under them.
THEOREM DrainRefinesQueue == DrainSpec => QueueSpec
<1>1. DrainInit => QueueInit
  BY DEF DrainInit
<1>2. LoopInv /\ [DrainNext]_drainVars => [QueueNext]_queueVars
  BY LoopCallsQueue DEF LoopInv
<1> QED BY <1>1, <1>2, LoopAlways, PTL DEF DrainSpec, QueueSpec

\* OneSlot for the loops: no path of run_standalone_drain or run_one loses a task or
\* finishes it twice.
THEOREM DrainOneSlot == DrainSpec => []OneSlot
  BY DrainRefinesQueue, OneSlotAlways, PTL

\* OwnedLeases for every set of tasks and outcomes: a task keeps its lease while the
\* loop holds it, only a panic leaves a lease behind, and every acknowledged task is
\* reported exactly once, whatever its publication does.
THEOREM OwnedLeasesAlways == DrainSpec => []OwnedLeases
<1>1. LoopInv => OwnedLeases
  BY DEF LoopInv, OwnedLeases, LeaseHeld, LeasesOwned, PrintedOnce, StoredLate, Held, Ended
<1> QED BY <1>1, LoopAlways, PTL
=============================================================================
