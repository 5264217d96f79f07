------------------------ MODULE WorkerSessionProofs ------------------------
(***************************************************************************)
(* The session answers every assignment and every cancel exactly once, in  *)
(* order and with the right verdict, for any number of tasks, dispatches   *)
(* and messages and any capacity of the request channel.                   *)
(***************************************************************************)
EXTENDS WorkerSession, TLAPS

Messages == {Assign(d) : d \in Dispatches} \cup {Cancel(t) : t \in Ids}

Executing == {"first_beat", "running", "upload_ok", "upload_err"}

Places == Busy \cup {"hello", "ack", "ready", "closed"}

SessionTypeOK ==
    /\ place \in Places
    /\ inbound \in Seq(Responses)
    /\ in_flight \subseteq Ids
    /\ place \in Busy => assigned \in Ids
    /\ owed \in [Ids -> Seq(Messages)]
    /\ answers \in [Ids -> Seq(BOOLEAN)]

\* Since the loop runs a task to its end before it reads on, nothing is in flight
\* when it reads: only a malformed dispatch is ever rejected.
OneInFlight == in_flight = IF place \in Executing THEN {assigned} ELSE {}

\* What an answer to message m is to say.
Verdict(m) == m.kind = "assign" /\ Deserving(m.dispatch)

\* What the worker is about to answer to the message m it read last.
Working(m) ==
    /\ place = "cancel" => m.kind = "cancel"
    /\ place = "reject" => m.kind = "assign" /\ ~ValidDispatch(m.dispatch)
    /\ place \in Executing =>
        m.kind = "assign" /\ ValidDispatch(m.dispatch) /\ job = task_from_dispatch(m.dispatch)
    /\ place = "upload_ok" => execute_task(job) = "ok"
    /\ place = "upload_err" => execute_task(job) # "ok"

\* The answers to t are the verdicts on what was owed to it, but for the message
\* that is being worked on.
Answered(t) ==
    /\ \A i \in 1..Len(answers[t]) : answers[t][i] <=> Verdict(owed[t][i])
    /\ IF place \in Busy /\ assigned = t
       THEN /\ Len(owed[t]) = Len(answers[t]) + 1
            /\ Working(owed[t][Len(owed[t])])
       ELSE Len(owed[t]) = Len(answers[t])

IInv ==
    /\ SessionTypeOK
    /\ OneInFlight
    /\ up /\ place # "closed" => \A t \in Ids : Answered(t)

-----------------------------------------------------------------------------
(* What the operators compute.                                             *)

LEMMA AppendFacts ==
    ASSUME NEW S, NEW s \in Seq(S), NEW e \in S
    PROVE  /\ Append(s, e) \in Seq(S)
           /\ Len(Append(s, e)) = Len(s) + 1
           /\ Append(s, e)[Len(s) + 1] = e
           /\ \A i \in 1..Len(s) : Append(s, e)[i] = s[i]
OBVIOUS

LEMMA HeadTailFacts ==
    ASSUME NEW S, NEW s \in Seq(S), s # <<>>
    PROVE  Head(s) \in S /\ Tail(s) \in Seq(S)
OBVIOUS

\* execute_task says ok to a well-formed dispatch exactly when the control plane may
\* expect it: the gates of worker.rs and of transport.rs leave no other way through.
LEMMA DeservingExact ==
    ASSUME NEW d \in Dispatches
    PROVE  Deserving(d) <=> ValidDispatch(d) /\ execute_task(task_from_dispatch(d)) = "ok"
<1> DEFINE task == task_from_dispatch(d)
<1>1. /\ task.run_config = d.run_config /\ task.workload = d.workload
      /\ task.run_config_hash = d.hash /\ task.execution_identity = d.execution_identity
  BY DEF task_from_dispatch, Task
<1> HIDE DEF task
<1>2. CASE d.run_config = Malformed
  BY <1>2, DigestAssumption DEF Deserving, ValidDispatch
<1>3. CASE d.run_config \in DOMAIN Simulated
  <2>1. InvalidConfig(task) <=> d.run_config \in Unencodable
    BY <1>1, <1>3, DigestAssumption DEF InvalidConfig, run_config_hash
  <2>2. d.run_config \notin Unencodable => (HashMismatch(task) <=> d.hash # d.run_config)
    BY <1>1, DispatchAssumption DEF HashMismatch, run_config_hash
  <2>3. IdentityRefused(task) <=>
            d.execution_identity # NoDigest
            /\ ~(BuildComplete /\ d.execution_identity = <<d.workload, d.run_config>>)
    BY <1>1 DEF IdentityRefused, task_identity
  <2>4. UnknownWorkload(task) <=> d.workload \notin Workloads
    BY <1>1 DEF UnknownWorkload
  <2>5. execute_task(task) = "ok" <=>
            /\ ~InvalidConfig(task) /\ ~HashMismatch(task)
            /\ ~IdentityRefused(task) /\ ~UnknownWorkload(task)
            /\ Simulated[d.run_config] = "ok"
    BY <1>1 DEF execute_task
  <2>6. ASSUME Deserving(d) PROVE ValidDispatch(d)
    <3>1. d.hash # Malformed /\ d.run_config # Malformed
      BY <2>6, <1>3, DigestAssumption DEF Deserving
    <3>2. <<d.workload, d.run_config>> \in Workloads \X DOMAIN Simulated
      BY <2>6, <1>3 DEF Deserving
    <3>3. d.execution_identity # Malformed
      BY <2>6, <3>2, DigestAssumption DEF Deserving
    <3> QED BY <2>6, <3>1, <3>3 DEF Deserving, ValidDispatch
  <2>7. ASSUME ValidDispatch(d), execute_task(task) = "ok" PROVE Deserving(d)
    BY <1>3, <2>1, <2>2, <2>3, <2>4, <2>5, <2>7 DEF Deserving, ValidDispatch
  <2>8. ASSUME Deserving(d) PROVE execute_task(task) = "ok"
    BY <1>3, <2>1, <2>2, <2>3, <2>4, <2>5, <2>8 DEF Deserving
  <2> QED BY <2>6, <2>7, <2>8 DEF task
<1> QED BY <1>2, <1>3, DispatchAssumption

LEMMA MessageFacts ==
    ASSUME NEW m \in Responses
    PROVE  /\ m.kind = "assign" => m \in Messages /\ m.task \in Ids /\ m.dispatch \in Dispatches
           /\ m.kind = "cancel" => m \in Messages /\ m.task \in Ids
<1>1. CASE m \in {Assign(d) : d \in Dispatches}
  BY <1>1, DispatchAssumption DEF Messages, Assign
<1>2. CASE m \in {Cancel(t) : t \in Ids}
  BY <1>2 DEF Messages, Cancel
<1>3. CASE m \in {SessionAck(a) : a \in BOOLEAN} \cup {HeartbeatAck}
  BY <1>3 DEF SessionAck, HeartbeatAck
<1> QED BY <1>1, <1>2, <1>3 DEF Responses

-----------------------------------------------------------------------------
(* The invariant.                                                          *)

LEMMA InitInv == SessionInit => IInv
<1> SUFFICES ASSUME SessionInit PROVE IInv
  OBVIOUS
<1>1. SessionTypeOK
  BY DEF SessionInit, SessionTypeOK, Places, Busy
<1>2. OneInFlight
  BY DEF SessionInit, OneInFlight, Executing
<1>3. \A t \in Ids : Answered(t)
  BY DEF SessionInit, Answered, Busy
<1> QED BY <1>1, <1>2, <1>3 DEF IInv

\* Steps that read nothing and answer nothing keep what is answered.
LEMMA Unanswered ==
    ASSUME IInv, place # "closed", up' => up, UNCHANGED historyVars,
           place \in Busy <=> place' \in Busy,
           place \in Busy => assigned' = assigned /\ \A m \in Messages : Working(m) => Working(m)'
    PROVE  up' /\ place' # "closed" => \A t \in Ids : Answered(t)'
<1> SUFFICES ASSUME up', NEW t \in Ids PROVE Answered(t)'
  OBVIOUS
<1>1. Answered(t)
  BY DEF IInv
<1>2. owed[t] \in Seq(Messages) /\ answers[t] \in Seq(BOOLEAN) /\ owed' = owed /\ answers' = answers
  BY DEF IInv, SessionTypeOK, historyVars
<1>3. \A i \in 1..Len(answers'[t]) : answers'[t][i] <=> Verdict(owed'[t][i])
  BY <1>1, <1>2 DEF Answered
<1>4. CASE place \in Busy /\ assigned = t
  <2>1. Len(owed[t]) = Len(answers[t]) + 1 /\ Working(owed[t][Len(owed[t])])
    BY <1>1, <1>4 DEF Answered
  <2>2. owed[t][Len(owed[t])] \in Messages
    BY <1>2, <2>1
  <2>3. Working(owed[t][Len(owed[t])])'
    BY <1>2, <1>4, <2>1, <2>2 DEF Working
  <2> QED BY <1>2, <1>3, <1>4, <2>1, <2>3 DEF Answered, Verdict
<1>5. CASE ~(place \in Busy /\ assigned = t)
  BY <1>1, <1>2, <1>3, <1>5 DEF Answered, Verdict
<1> QED BY <1>4, <1>5

\* The step that answers the message in hand with the right verdict.
LEMMA AnswerGood ==
    ASSUME IInv, NEW ok \in BOOLEAN, answer(assigned, ok), place \in Busy, place' = "ready",
           owed' = owed, \A m \in Messages : Working(m) => (ok <=> Verdict(m))
    PROVE  /\ answers' \in [Ids -> Seq(BOOLEAN)]
           /\ \A t \in Ids : Answered(t)'
<1>1. /\ up /\ place # "closed" /\ assigned \in Ids
      /\ answers' = [answers EXCEPT ![assigned] = Append(@, ok)]
  BY DEF answer, send, IInv, SessionTypeOK, Busy
<1>2. answers \in [Ids -> Seq(BOOLEAN)] /\ owed \in [Ids -> Seq(Messages)]
  BY DEF IInv, SessionTypeOK
<1>3. answers' \in [Ids -> Seq(BOOLEAN)]
  BY <1>1, <1>2, AppendFacts
<1>4. ASSUME NEW t \in Ids PROVE Answered(t)'
  <2>1. Answered(t)
    BY <1>1 DEF IInv
  <2>2. place' \notin Busy
    BY DEF Busy
  <2>3. CASE t # assigned
    BY <1>1, <1>2, <2>1, <2>2, <2>3 DEF Answered, Verdict
  <2>4. CASE t = assigned
    <3> DEFINE n == Len(answers[t])
    <3>1. /\ answers'[t] = Append(answers[t], ok) /\ answers[t] \in Seq(BOOLEAN)
          /\ owed[t] \in Seq(Messages)
      BY <1>1, <1>2, <2>4
    <3>2. /\ Len(answers'[t]) = n + 1 /\ answers'[t][n + 1] = ok
          /\ \A i \in 1..n : answers'[t][i] = answers[t][i]
      BY <3>1, AppendFacts
    <3>3. Len(owed[t]) = n + 1 /\ Working(owed[t][n + 1])
      BY <2>1, <2>4 DEF Answered
    <3>4. owed[t][n + 1] \in Messages
      BY <3>1, <3>3
    <3>5. ok <=> Verdict(owed[t][n + 1])
      BY <3>3, <3>4
    <3>6. n \in Nat /\ \A i \in 1..n : answers[t][i] <=> Verdict(owed[t][i])
      BY <2>1, <3>1 DEF Answered
    <3>7. ASSUME NEW i \in 1..(n + 1) PROVE answers'[t][i] <=> Verdict(owed[t][i])
      <4>1. CASE i = n + 1
        BY <3>2, <3>5, <4>1
      <4>2. CASE i \in 1..n
        BY <3>2, <3>6, <4>2
      <4> QED BY <3>6, <4>1, <4>2
    <3> HIDE DEF n
    <3> QED BY <2>2, <3>2, <3>3, <3>7 DEF Answered, Verdict
  <2> QED BY <2>3, <2>4
<1> QED BY <1>3, <1>4

\* The step that reads an assignment or a cancel.
LEMMA ReadGood ==
    ASSUME IInv, place = "ready", NEW m \in Messages, m.task \in Ids,
           owed' = [owed EXCEPT ![m.task] = Append(@, m)], assigned' = m.task,
           answers' = answers, up' = up, place' \in Busy, Working(m)'
    PROVE  /\ owed' \in [Ids -> Seq(Messages)]
           /\ up' /\ place' # "closed" => \A t \in Ids : Answered(t)'
<1>1. answers \in [Ids -> Seq(BOOLEAN)] /\ owed \in [Ids -> Seq(Messages)]
  BY DEF IInv, SessionTypeOK
<1>2. owed' \in [Ids -> Seq(Messages)]
  BY <1>1, AppendFacts
<1>3. ASSUME up, NEW t \in Ids PROVE Answered(t)'
  <2>1. Answered(t) /\ place \notin Busy
    BY <1>3 DEF IInv, Busy
  <2>2. CASE t # m.task
    BY <1>1, <2>1, <2>2 DEF Answered, Verdict
  <2>3. CASE t = m.task
    <3> DEFINE n == Len(owed[t])
    <3>1. owed'[t] = Append(owed[t], m) /\ owed[t] \in Seq(Messages)
      BY <1>1, <2>3
    <3>2. /\ n \in Nat /\ Len(owed'[t]) = n + 1 /\ owed'[t][n + 1] = m
          /\ \A i \in 1..n : owed'[t][i] = owed[t][i]
      BY <3>1, AppendFacts
    <3>3. n = Len(answers[t]) /\ \A i \in 1..n : answers[t][i] <=> Verdict(owed[t][i])
      BY <2>1 DEF Answered
    <3>4. \A i \in 1..n : answers[t][i] <=> Verdict(owed'[t][i])
      BY <3>2, <3>3
    <3> HIDE DEF n
    <3> QED BY <2>3, <3>2, <3>3, <3>4 DEF Answered, Verdict
  <2> QED BY <2>2, <2>3
<1> QED BY <1>2, <1>3

LEMMA NextInv == IInv /\ [SessionNext]_sessionVars => IInv'
<1> SUFFICES ASSUME IInv, [SessionNext]_sessionVars PROVE IInv'
  OBVIOUS
<1> USE DEF Busy, Executing
<1>0. SessionTypeOK /\ OneInFlight
  BY DEF IInv
<1>1. CASE Respond
  <2>1. place' = place /\ SessionTypeOK' /\ OneInFlight'
    BY <1>0, <1>1, AppendFacts DEF Respond, workerVars, historyVars, SessionTypeOK, OneInFlight
  <2> QED BY <1>1, <2>1, Unanswered DEF Respond, workerVars, IInv, Working
<1>2. CASE TakeRequest \/ Disconnect
  <2>1. place' = place /\ SessionTypeOK' /\ OneInFlight'
    BY <1>0, <1>2 DEF TakeRequest, Disconnect, historyVars, SessionTypeOK, OneInFlight
  <2> QED BY <1>2, <2>1, Unanswered DEF TakeRequest, Disconnect, IInv, Working
<1>3. CASE SendHello \/ FirstBeat \/ Beat \/ Finish
  <2>1. SessionTypeOK' /\ OneInFlight'
    BY <1>0, <1>3 DEF SendHello, FirstBeat, Beat, Finish, historyVars, SessionTypeOK, OneInFlight, Places
  <2> QED BY <1>3, <2>1, Unanswered DEF SendHello, FirstBeat, Beat, Finish, IInv, Working
<1>4. CASE SendFails \/ ReadEnd
  BY <1>0, <1>4 DEF SendFails, ReadEnd, historyVars, IInv, SessionTypeOK, OneInFlight, Places
<1>5. CASE ReadAck \/ ReadOther
  <2>1. inbound' \in Seq(Responses)
    BY <1>0, <1>5, HeadTailFacts DEF ReadAck, ReadOther, SessionTypeOK
  <2>2. /\ place \in {"ack", "ready"} /\ place' \in {"ready", "closed"}
        /\ UNCHANGED <<in_flight, up, owed, answers>>
    BY <1>5 DEF ReadAck, ReadOther, workerVars, historyVars
  <2>3. SessionTypeOK' /\ OneInFlight'
    BY <1>0, <2>1, <2>2 DEF SessionTypeOK, OneInFlight, Places
  <2> QED BY <2>2, <2>3, Unanswered DEF IInv, historyVars
<1>6. CASE ReadAssign
  <2>0. inbound # <<>> /\ inbound \in Seq(Responses)
    BY <1>0, <1>6 DEF ReadAssign, SessionTypeOK
  <2>a. PICK m \in Responses : m = Head(inbound)
    BY <2>0, HeadTailFacts
  <2>1. /\ place = "ready" /\ m.kind = "assign" /\ inbound' \in Seq(Responses)
        /\ owed' = [owed EXCEPT ![m.task] = Append(@, m)] /\ assigned' = m.task
        /\ answers' = answers /\ up' = up
    BY <1>0, <1>6, <2>0, <2>a, HeadTailFacts DEF ReadAssign, SessionTypeOK
  <2>2. m \in Messages /\ m.task \in Ids
    BY <2>1, MessageFacts
  <2>3. in_flight = {}
    BY <1>0, <2>1 DEF OneInFlight
  <2>4. CASE ValidDispatch(m.dispatch)
    <3>1. in_flight' = {m.task} /\ job' = task_from_dispatch(m.dispatch) /\ place' = "first_beat"
      BY <1>6, <2>3, <2>4, <2>a DEF ReadAssign
    <3>2. Working(m)'
      BY <2>1, <2>4, <3>1 DEF Working
    <3>3. owed' \in [Ids -> Seq(Messages)] /\ (up' /\ place' # "closed" => \A t \in Ids : Answered(t)')
      BY <2>1, <2>2, <3>1, <3>2, ReadGood
    <3> QED BY <1>0, <2>1, <2>2, <3>1, <3>3 DEF IInv, SessionTypeOK, OneInFlight, Places
  <2>5. CASE ~ValidDispatch(m.dispatch)
    <3>1. in_flight' = {} /\ place' = "reject"
      BY <1>6, <2>3, <2>5, <2>a DEF ReadAssign
    <3>2. Working(m)'
      BY <2>1, <2>5, <3>1 DEF Working
    <3>3. owed' \in [Ids -> Seq(Messages)] /\ (up' /\ place' # "closed" => \A t \in Ids : Answered(t)')
      BY <2>1, <2>2, <3>1, <3>2, ReadGood
    <3> QED BY <1>0, <2>1, <2>2, <3>1, <3>3 DEF IInv, SessionTypeOK, OneInFlight, Places
  <2> QED BY <2>4, <2>5
<1>7. CASE ReadCancel
  <2>0. inbound # <<>> /\ inbound \in Seq(Responses)
    BY <1>0, <1>7 DEF ReadCancel, SessionTypeOK
  <2>a. PICK m \in Responses : m = Head(inbound)
    BY <2>0, HeadTailFacts
  <2>1. /\ place = "ready" /\ m.kind = "cancel" /\ inbound' \in Seq(Responses)
        /\ owed' = [owed EXCEPT ![m.task] = Append(@, m)] /\ assigned' = m.task
        /\ answers' = answers /\ up' = up /\ place' = "cancel" /\ in_flight' = in_flight
    BY <1>0, <1>7, <2>0, <2>a, HeadTailFacts DEF ReadCancel, SessionTypeOK
  <2>2. m \in Messages /\ m.task \in Ids
    BY <2>1, MessageFacts
  <2>3. Working(m)'
    BY <2>1 DEF Working
  <2>4. owed' \in [Ids -> Seq(Messages)] /\ (up' /\ place' # "closed" => \A t \in Ids : Answered(t)')
    BY <2>1, <2>2, <2>3, ReadGood
  <2> QED BY <1>0, <2>1, <2>2, <2>4 DEF IInv, SessionTypeOK, OneInFlight, Places
<1>8. CASE Reject \/ UploadCancelled
  <2>1. /\ place \in {"reject", "cancel"} /\ place' = "ready" /\ owed' = owed /\ up' = up
        /\ in_flight' = in_flight /\ inbound' = inbound
        /\ answer(assigned, FALSE) \/ (~up /\ answers' = answers)
    BY <1>8 DEF Reject, UploadCancelled
  <2>2. OneInFlight'
    BY <1>0, <2>1 DEF OneInFlight
  <2>3. CASE ~up /\ answers' = answers
    BY <1>0, <2>1, <2>2, <2>3 DEF IInv, SessionTypeOK, Places
  <2>4. CASE answer(assigned, FALSE)
    <3>1. ASSUME NEW m \in Messages, Working(m) PROVE ~Verdict(m)
      <4>1. m.kind = "cancel" \/ (m.kind = "assign" /\ ~ValidDispatch(m.dispatch))
        BY <2>1, <3>1 DEF Working
      <4>2. m.kind = "assign" => m.dispatch \in Dispatches
        BY MessageFacts DEF Messages, Responses
      <4> QED BY <4>1, <4>2, DeservingExact DEF Verdict
    <3>2. answers' \in [Ids -> Seq(BOOLEAN)] /\ \A t \in Ids : Answered(t)'
      BY <2>1, <2>4, <3>1, AnswerGood
    <3> QED BY <1>0, <2>1, <2>2, <3>2 DEF IInv, SessionTypeOK, Places
  <2> QED BY <2>1, <2>3, <2>4
<1>9. CASE Upload
  <2>1. /\ place \in {"upload_ok", "upload_err"} /\ place' = "ready" /\ owed' = owed /\ up' = up
        /\ in_flight' = in_flight \ {assigned} /\ inbound' = inbound
        /\ answer(assigned, place = "upload_ok")
    BY <1>9 DEF Upload
  <2>2. OneInFlight'
    BY <1>0, <2>1 DEF OneInFlight
  <2>3. ASSUME NEW m \in Messages, Working(m) PROVE (place = "upload_ok") <=> Verdict(m)
    <3>1. /\ m.kind = "assign" /\ ValidDispatch(m.dispatch) /\ job = task_from_dispatch(m.dispatch)
          /\ (place = "upload_ok") <=> execute_task(job) = "ok"
      BY <2>1, <2>3 DEF Working
    <3>2. m.dispatch \in Dispatches
      BY <3>1, MessageFacts DEF Messages, Responses
    <3> QED BY <3>1, <3>2, DeservingExact DEF Verdict
  <2>4. answers' \in [Ids -> Seq(BOOLEAN)] /\ \A t \in Ids : Answered(t)'
    BY <2>1, <2>3, AnswerGood
  <2> QED BY <1>0, <2>1, <2>2, <2>4 DEF IInv, SessionTypeOK, Places
<1>10. CASE UNCHANGED sessionVars
  <2>1. place' = place /\ SessionTypeOK' /\ OneInFlight'
    BY <1>0, <1>10 DEF sessionVars, workerVars, historyVars, SessionTypeOK, OneInFlight
  <2> QED BY <1>10, <2>1, Unanswered DEF sessionVars, workerVars, historyVars, IInv, Working
<1> QED BY <1>1, <1>2, <1>3, <1>4, <1>5, <1>6, <1>7, <1>8, <1>9, <1>10 DEF SessionNext, WorkerNext

\* AnsweredOnce for every set of tasks and dispatches, every capacity of the request
\* channel and every number of messages: run_control_plane never skips, repeats,
\* reorders or misjudges an answer while the stream lives.
THEOREM AnsweredOnceAlways == SessionSpec => []AnsweredOnce
<1>1. IInv => AnsweredOnce
  <2> SUFFICES ASSUME IInv, up, NEW t \in Ids, place # "closed"
      PROVE  /\ Len(owed[t]) = Len(answers[t]) + IF place \in Busy /\ assigned = t THEN 1 ELSE 0
             /\ \A i \in DOMAIN answers[t] :
                 answers[t][i] <=> owed[t][i].kind = "assign" /\ Deserving(owed[t][i].dispatch)
    BY DEF AnsweredOnce
  <2>1. Answered(t) /\ answers[t] \in Seq(BOOLEAN)
    BY DEF IInv, SessionTypeOK
  <2>2. DOMAIN answers[t] = 1..Len(answers[t]) /\ Len(answers[t]) \in Nat
    BY <2>1
  <2>3. Len(owed[t]) = Len(answers[t]) + IF place \in Busy /\ assigned = t THEN 1 ELSE 0
    <3>1. CASE place \in Busy /\ assigned = t
      BY <2>1, <3>1 DEF Answered
    <3>2. CASE ~(place \in Busy /\ assigned = t)
      <4>1. Len(owed[t]) = Len(answers[t])
        BY <2>1, <3>2 DEF Answered
      <4>2. (IF place \in Busy /\ assigned = t THEN 1 ELSE 0) = 0
        BY <3>2
      <4>3. \A n \in Nat : n + 0 = n
        OBVIOUS
      <4> QED BY <2>2, <4>1, <4>2, <4>3, Zenon
    <3> QED BY <3>1, <3>2
  <2> QED BY <2>1, <2>2, <2>3 DEF Answered, Verdict
<1> QED BY <1>1, InitInv, NextInv, PTL DEF SessionSpec
=============================================================================
