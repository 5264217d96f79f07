--------------------------- MODULE RuntimeProofs ---------------------------
(***************************************************************************)
(* Proofs about what a program under test runs on: the engine process that *)
(* its caller spawns (EngineHost) and the in-process network of ldgr-rt    *)
(* (RtRuntime), for every set of requests and tasks, every capacity, cap   *)
(* and number of calls.                                                    *)
(***************************************************************************)
EXTENDS EngineHost, RtRuntime, WellFoundedInduction, TLAPS

-----------------------------------------------------------------------------
(* The engine process: what is left behind.                                *)

\* An engine exists only between exec and kill, so that nobody can bind the socket
\* or make the directory again once the caller has cleaned up.
Lifetime ==
    /\ socket \in BOOLEAN
    /\ caller \in {"idle", "exec"} => child = "none" /\ ~socket
    /\ caller = "clean" => child = "reaped"

HostInv == Lifetime /\ NothingLeftBehind

LEMMA HostInvInit == HostInit => HostInv
  BY DEF HostInit, HostInv, Lifetime, NothingLeftBehind

LEMMA HostInvNext == HostInv /\ [HostNext]_hostVars => HostInv'
<1> SUFFICES ASSUME HostInv, [HostNext]_hostVars PROVE HostInv'
  OBVIOUS
<1> USE DEF HostInv, Lifetime, NothingLeftBehind
<1>1. CASE spawn
  BY <1>1 DEF spawn, processVars, resolve_engine_path, prepare_socket_dir_with, create_private_dir_checked
<1>2. CASE exec \/ poll_connected \/ poll_exited \/ poll_expired
  BY <1>2 DEF exec, poll_connected, poll_exited, poll_expired, processVars
<1>3. CASE run_workload \/ connect_ok \/ connect_retry
  BY <1>3 DEF run_workload, connect_ok, connect_retry, Returns, processVars
<1>4. CASE read_answer \/ read_closed \/ read_expired
  BY <1>4 DEF read_answer, read_closed, read_expired, Returns, processVars
<1>5. CASE drop_engine \/ kill \/ clean
  BY <1>5 DEF drop_engine, kill, clean, processVars
<1>6. CASE Engine
  BY <1>6 DEF Engine, engine_exit, engine_bind, engine_accept, engine_eof, engine_stalled, engine_reply,
              Logs, Running, callerVars
<1>7. CASE UNCHANGED hostVars
  BY <1>7 DEF hostVars
<1> QED BY <1>1, <1>2, <1>3, <1>4, <1>5, <1>6, <1>7 DEF HostNext, Caller

\* NothingLeftBehind for every request, cap and number of attempts: whatever the
\* engine does meanwhile, spawn and Drop of ipc.rs leave no process, socket or
\* directory behind, but for the directory of an engine that could not be started.
THEOREM NothingLeftBehindAlways == HostSpec => []NothingLeftBehind
<1>1. HostInv => NothingLeftBehind
  BY DEF HostInv
<1> QED BY <1>1, HostInvInit, HostInvNext, PTL DEF HostSpec

-----------------------------------------------------------------------------
(* The engine process: whose answer a call returns.                        *)

Conn == [number : Nat, open : BOOLEAN, line : Requests \cup {Nothing},
         answer : {handle_request(r) : r \in Requests} \cup {Nothing}]

\* The connections that still wait for the engine are of this call or of earlier
\* ones, and those of this call carry its request and the answer to it.
Matched(conn) ==
    /\ conn.number <= call.number
    /\ conn.number = call.number =>
        /\ conn.line # Nothing => conn.line = call.request
        /\ conn.answer # Nothing => conn.answer = handle_request(call.request)

MatchInv ==
    /\ call \in [number : Nat, request : Requests \cup {Nothing}, tries : Nat]
    /\ \E S : returned \in Seq(S)
    /\ conns \in Seq(Conn)
    /\ caller \in {"idle", "exec"} => phase = "start" /\ child = "none"
    /\ child = "running" /\ phase = "read" => conns # <<>>
    /\ \A i \in 1..Len(conns) : Matched(conns[i])

LEMMA AppendConn ==
    ASSUME NEW S, NEW s \in Seq(S), NEW e \in S
    PROVE  /\ Append(s, e) \in Seq(S) /\ Append(s, e) # <<>>
           /\ \A i \in 1..Len(Append(s, e)) :
                 Append(s, e)[i] = e \/ \E j \in 1..Len(s) : Append(s, e)[i] = s[j]
<1>1. /\ Append(s, e) \in Seq(S) /\ Len(Append(s, e)) = Len(s) + 1
      /\ Append(s, e)[Len(s) + 1] = e
      /\ \A i \in 1..Len(s) : Append(s, e)[i] = s[i]
  OBVIOUS
<1>2. Len(s) \in Nat /\ \A i \in 1..(Len(s) + 1) : i = Len(s) + 1 \/ i \in 1..Len(s)
  OBVIOUS
<1>3. Append(s, e) # <<>>
  BY <1>1, <1>2
<1> QED BY <1>1, <1>2, <1>3

LEMMA TailConn ==
    ASSUME NEW S, NEW s \in Seq(S), s # <<>>
    PROVE  /\ Tail(s) \in Seq(S)
           /\ \A i \in 1..Len(Tail(s)) : \E j \in 1..Len(s) : Tail(s)[i] = s[j]
<1>1. Tail(s) \in Seq(S) /\ Len(Tail(s)) = Len(s) - 1 /\ Len(s) \in Nat
  OBVIOUS
<1>2. \A i \in 1..(Len(s) - 1) : Tail(s)[i] = s[i + 1] /\ i + 1 \in 1..Len(s)
  OBVIOUS
<1> QED BY <1>1, <1>2

\* An answer of the engine is a record without the tail of stderr.
LEMMA AnswerForm ==
    ASSUME NEW r
    PROVE  \E e, roots : handle_request(r) = [error |-> e, tail |-> FALSE, roots |-> roots]
  BY DEF handle_request, run_workload_named, run_kv, IpcError

\* What a caller makes of the answer it reads.
LEMMA ParsedAnswer ==
    ASSUME NEW r, NEW result, result = parse_run_response(handle_request(r)),
           result.error \notin {"CounterBounds", "Connect", "Protocol", "Io"}
    PROVE  [result EXCEPT !.tail = FALSE] = handle_request(r)
<1>1. PICK e, roots : handle_request(r) = [error |-> e, tail |-> FALSE, roots |-> roots]
  BY AnswerForm
<1> DEFINE s == handle_request(r)
<1>a. s \in [error : {e}, tail : BOOLEAN, roots : {roots}] /\ s.tail = FALSE
  BY <1>1
<1>2. CASE e # Nothing
  <2>1. PICK b \in BOOLEAN : result = [s EXCEPT !.tail = b]
    <3>1. result = attach_tail(s)
      BY <1>1, <1>2 DEF parse_run_response
    <3>2. (stderr.drain = "closed") \in BOOLEAN
      OBVIOUS
    <3> QED BY <3>1, <3>2, Zenon DEF attach_tail
  <2> HIDE DEF s
  <2> QED BY <1>a, <2>1 DEF s
<1>3. CASE e = Nothing
  <2>1. result = handle_request(r)
    BY <1>1, <1>3 DEF parse_run_response, IpcError
  <2> QED BY <1>a, <2>1
<1> QED BY <1>2, <1>3

LEMMA MatchInit == HostInit => MatchInv
  BY DEF HostInit, MatchInv

\* The number of a call is new, so no connection is of it yet.
LEMMA MatchNext == MatchInv /\ [HostNext]_hostVars => MatchInv'
<1> SUFFICES ASSUME MatchInv, [HostNext]_hostVars PROVE MatchInv'
  OBVIOUS
<1> USE DEF Matched
<1>t. /\ call \in [number : Nat, request : Requests \cup {Nothing}, tries : Nat]
      /\ conns \in Seq(Conn)
      /\ \A i \in 1..Len(conns) : Matched(conns[i])
      /\ caller \in {"idle", "exec"} => phase = "start" /\ child = "none"
      /\ child = "running" /\ phase = "read" => conns # <<>>
  BY DEF MatchInv
<1>r. ASSUME NEW outcome, returned' = returned \/ returned' = Append(returned, outcome)
      PROVE  \E S : returned' \in Seq(S)
  <2>1. PICK S : returned \in Seq(S)
    BY DEF MatchInv
  <2>2. returned' \in Seq(S \cup {outcome})
    BY <1>r, <2>1
  <2> QED BY <2>2
<1>n. conns' = <<>> => conns' \in Seq(Conn) /\ \A i \in 1..Len(conns') : Matched(conns[i])'
  OBVIOUS
<1>1. CASE spawn \/ exec \/ poll_exited \/ poll_expired \/ drop_engine \/ clean
  BY <1>1, <1>t DEF spawn, exec, poll_exited, poll_expired, drop_engine, clean, processVars, MatchInv
<1>2. CASE kill
  BY <1>2, <1>t, <1>n DEF kill, MatchInv
<1>3. CASE poll_connected \/ connect_ok
  <2>1. PICK conn \in Conn :
            /\ conns' = Append(conns, conn)
            /\ conn.number <= call.number
            /\ conn.number = call.number =>
                 (conn.line # Nothing => conn.line = call.request) /\ conn.answer = Nothing
    <3>1. CASE poll_connected
      <4> DEFINE probe == [number |-> 0, open |-> FALSE, line |-> Nothing, answer |-> Nothing]
      <4>1. probe \in Conn /\ conns' = Append(conns, probe)
        BY <3>1 DEF poll_connected, Conn
      <4>2. probe.number <= call.number /\ probe.line = Nothing /\ probe.answer = Nothing
        BY <1>t
      <4> HIDE DEF probe
      <4> QED BY <4>1, <4>2
    <3>2. CASE connect_ok
      <4> DEFINE conn == [number |-> call.number, open |-> TRUE, line |-> call.request, answer |-> Nothing]
      <4>1. conn \in Conn /\ conns' = Append(conns, conn)
        BY <1>t, <3>2 DEF connect_ok, Conn
      <4>2. conn.number <= call.number /\ conn.line = call.request /\ conn.answer = Nothing
        BY <1>t
      <4> HIDE DEF conn
      <4> QED BY <4>1, <4>2
    <3> QED BY <1>3, <3>1, <3>2
  <2>2. /\ conns' \in Seq(Conn) /\ conns' # <<>>
        /\ \A i \in 1..Len(conns') : conns'[i] = conn \/ \E j \in 1..Len(conns) : conns'[i] = conns[j]
    BY <1>t, <2>1, AppendConn
  <2>3. UNCHANGED <<call, returned, phase, child>> /\ caller' \notin {"idle", "exec"}
    BY <1>3 DEF poll_connected, connect_ok
  <2>4. \A i \in 1..Len(conns') : Matched(conns[i])'
    BY <1>t, <2>1, <2>2, <2>3
  <2> QED BY <1>t, <2>2, <2>3, <2>4 DEF MatchInv
<1>4. CASE run_workload
  <2>1. PICK request \in Requests : call' = [number |-> call.number + 1, request |-> request, tries |-> RETRIES]
    BY <1>4 DEF run_workload
  <2>2. UNCHANGED <<conns, phase, child>> /\ caller' \notin {"idle", "exec"}
    BY <1>4 DEF run_workload, processVars, Returns
  <2>3. \E S : returned' \in Seq(S)
    BY <1>4, <1>r DEF run_workload, Returns
  <2>4. call' \in [number : Nat, request : Requests \cup {Nothing}, tries : Nat]
    BY <1>t, <2>1, HostAssumption
  <2>5. \A i \in 1..Len(conns) : conns[i].number \in Nat /\ conns[i].number < call'.number
    <3> SUFFICES ASSUME NEW i \in 1..Len(conns) PROVE conns[i].number \in Nat /\ conns[i].number < call.number + 1
      BY <2>1
    <3>1. conns[i] \in Conn
      BY <1>t
    <3> QED BY <1>t, <3>1 DEF Conn
  <2>6. \A i \in 1..Len(conns') : Matched(conns[i])'
    BY <2>2, <2>4, <2>5
  <2> QED BY <1>t, <2>2, <2>3, <2>4, <2>6 DEF MatchInv
<1>5. CASE connect_retry \/ read_closed
  <2>1. UNCHANGED <<conns, phase, child>> /\ caller' \notin {"idle", "exec"}
    BY <1>5 DEF connect_retry, read_closed, processVars, Returns
  <2>2. \E S : returned' \in Seq(S)
    BY <1>5, <1>r DEF connect_retry, read_closed, Returns
  <2>3. /\ call' \in [number : Nat, request : Requests \cup {Nothing}, tries : Nat]
        /\ call'.number = call.number /\ call'.request = call.request
    BY <1>5, <1>t DEF connect_retry, read_closed
  <2>4. \A i \in 1..Len(conns') : Matched(conns[i])'
    BY <1>t, <2>1, <2>3
  <2> QED BY <1>t, <2>1, <2>2, <2>3, <2>4 DEF MatchInv
<1>6. CASE read_answer \/ read_expired
  <2>1. Hangup /\ UNCHANGED <<call, phase, child>> /\ caller' \notin {"idle", "exec"}
    BY <1>6 DEF read_answer, read_expired, Returns
  <2>2. \E S : returned' \in Seq(S)
    BY <1>6, <1>r DEF read_answer, read_expired, Returns
  <2>3. /\ conns' \in Seq(Conn) /\ Len(conns') = Len(conns)
        /\ \A i \in 1..Len(conns) :
             /\ conns'[i].number = conns[i].number
             /\ conns'[i].line = conns[i].line /\ conns'[i].answer = conns[i].answer
    <3>1. DOMAIN conns = 1..Len(conns) /\ \A i \in 1..Len(conns) : conns[i] \in Conn
      BY <1>t
    <3>2. \A i \in 1..Len(conns) : conns'[i] \in {conns[i], [conns[i] EXCEPT !.open = FALSE]}
      BY <2>1, <3>1 DEF Hangup
    <3>3. conns' = [i \in 1..Len(conns) |-> conns'[i]]
      BY <2>1, <3>1 DEF Hangup
    <3>4. \A i \in 1..Len(conns) :
             /\ conns'[i] \in Conn
             /\ conns'[i].number = conns[i].number
             /\ conns'[i].line = conns[i].line /\ conns'[i].answer = conns[i].answer
      <4>1. ASSUME NEW c \in Conn, NEW d \in {c, [c EXCEPT !.open = FALSE]}
            PROVE  d \in Conn /\ d.number = c.number /\ d.line = c.line /\ d.answer = c.answer
        BY DEF Conn
      <4> TAKE i \in 1..Len(conns)
      <4>2. conns[i] \in Conn /\ conns'[i] \in {conns[i], [conns[i] EXCEPT !.open = FALSE]}
        BY <3>1, <3>2
      <4> QED BY <4>1, <4>2
    <3>5. conns' \in [1..Len(conns) -> Conn] /\ Len(conns) \in Nat
      BY <1>t, <3>3, <3>4
    <3> QED BY <3>4, <3>5
  <2>4. \A i \in 1..Len(conns') : Matched(conns[i])'
    BY <1>t, <2>1, <2>3
  <2>5. conns' = <<>> => conns = <<>>
    BY <1>t, <2>3
  <2> QED BY <1>t, <2>1, <2>2, <2>3, <2>4, <2>5 DEF MatchInv
<1>7. ASSUME Running, phase = "read", UNCHANGED callerVars, phase' = "accept", conns' = Tail(conns)
      PROVE  MatchInv'
  <2>1. conns # <<>>
    BY <1>7, <1>t DEF Running
  <2>2. /\ conns' \in Seq(Conn)
        /\ \A i \in 1..Len(conns') : \E j \in 1..Len(conns) : conns'[i] = conns[j]
    BY <1>7, <1>t, <2>1, TailConn
  <2>3. \A i \in 1..Len(conns') : Matched(conns[i])'
    BY <1>7, <1>t, <2>2 DEF callerVars
  <2> QED BY <1>7, <1>t, <2>2, <2>3 DEF MatchInv, callerVars
<1>8. ASSUME Running, UNCHANGED callerVars, conns' = <<>>, child' # "running", phase' = phase
      PROVE  MatchInv'
  BY <1>8, <1>t, <1>n DEF MatchInv, callerVars, Running
<1>9. CASE engine_exit \/ engine_eof
  BY <1>7, <1>8, <1>9 DEF engine_exit, engine_eof
<1>10. CASE engine_bind
  <2>1. CASE stderr.drain = "closed"
    BY <1>8, <1>10, <2>1 DEF engine_bind, Logs
  <2>2. CASE stderr.drain # "closed"
    <3>1. phase' = "accept" /\ UNCHANGED <<conns, child, callerVars>> /\ Running
      BY <1>10, <2>2 DEF engine_bind, Logs
    <3>2. caller \notin {"idle", "exec"}
      BY <1>t, <3>1 DEF Running
    <3> QED BY <1>t, <3>1, <3>2 DEF MatchInv, callerVars
  <2> QED BY <2>1, <2>2
<1>11. CASE engine_accept
  BY <1>11, <1>t DEF engine_accept, callerVars, MatchInv, Running
<1>12. CASE engine_stalled
  <2>1. CASE stderr.drain = "closed"
    BY <1>8, <1>12, <2>1 DEF engine_stalled, Logs
  <2>2. CASE stderr.drain # "closed"
    BY <1>7, <1>12, <2>2 DEF engine_stalled, Logs
  <2> QED BY <2>1, <2>2
<1>13. CASE engine_reply
  <2>1. CASE ~conns[1].open
    <3>1. CASE stderr.drain = "closed"
      BY <1>8, <1>13, <2>1, <3>1 DEF engine_reply, Logs
    <3>2. CASE stderr.drain # "closed"
      BY <1>7, <1>13, <2>1, <3>2 DEF engine_reply, Logs
    <3> QED BY <3>1, <3>2
  <2>2. CASE conns[1].open
    <3> DEFINE old == conns[1]
               new == [old EXCEPT !.answer = handle_request(old.line), !.line = Nothing]
    <3>1. /\ Running /\ phase = "read" /\ old.line # Nothing
          /\ conns' = [conns EXCEPT ![1].answer = handle_request(old.line), ![1].line = Nothing]
          /\ UNCHANGED <<caller, call, returned, child, phase>>
      BY <1>13, <2>2 DEF engine_reply, callerVars
    <3>2. 1 \in 1..Len(conns) /\ Len(conns) \in Nat /\ old \in Conn /\ Matched(old)
      BY <1>t, <3>1 DEF Running
    <3>3. conns' = [conns EXCEPT ![1] = new]
      BY <1>t, <3>1, <3>2 DEF Conn
    <3>4. /\ new \in Conn /\ new.number = old.number
          /\ new.line = Nothing /\ new.answer = handle_request(old.line)
      BY <3>1, <3>2 DEF Conn
    <3> HIDE DEF old, new
    <3>5. /\ conns' \in Seq(Conn) /\ Len(conns') = Len(conns) /\ conns'[1] = new
          /\ \A i \in 1..Len(conns) : i # 1 => conns'[i] = conns[i]
      BY <1>t, <3>2, <3>3, <3>4
    <3>6. \A i \in 1..Len(conns') : Matched(conns[i])'
      <4> SUFFICES ASSUME NEW i \in 1..Len(conns') PROVE Matched(conns[i])'
        OBVIOUS
      <4>1. CASE i # 1
        BY <1>t, <3>1, <3>5, <4>1
      <4>2. CASE i = 1
        <5>1. /\ conns'[i].number = old.number /\ conns'[i].line = Nothing
              /\ conns'[i].answer = handle_request(old.line)
          BY <3>4, <3>5, <4>2
        <5>2. old.number <= call.number /\ (old.number = call.number => old.line = call.request)
          BY <3>1, <3>2
        <5> QED BY <3>1, <5>1, <5>2
      <4> QED BY <4>1, <4>2
    <3>7. conns' # <<>>
      BY <3>2, <3>5
    <3> QED BY <1>t, <3>1, <3>5, <3>6, <3>7 DEF MatchInv
  <2> QED BY <2>1, <2>2
<1>14. CASE UNCHANGED hostVars
  BY <1>14, <1>t DEF hostVars, MatchInv
<1> QED BY <1>1, <1>2, <1>3, <1>4, <1>5, <1>6, <1>9, <1>10, <1>11, <1>12, <1>13, <1>14
    DEF HostNext, Caller, Engine

\* AnswersMatch for every set of requests, any number of calls and any cap on the
\* captured stderr: a call of run_workload never returns what the engine computed for
\* a request that an earlier call gave up.
THEOREM AnswersMatchAlways == HostSpec => AnswersMatch
<1> DEFINE Matches(n) ==
        returned'[n].error \notin {"CounterBounds", "Connect", "Protocol", "Io"}
            => [returned'[n] EXCEPT !.tail = FALSE] = handle_request(call'.request)
<1>1. ASSUME MatchInv, [HostNext]_hostVars, NEW n \in DOMAIN returned' \ DOMAIN returned
      PROVE  Matches(n)
  <2>1. PICK S : returned \in Seq(S)
    BY <1>1 DEF MatchInv
  <2>2. ASSUME NEW outcome, Returns(outcome) PROVE returned'[n] = outcome
    BY <1>1, <2>1, <2>2 DEF Returns
  <2>3. ASSUME NEW why \in {"CounterBounds", "Connect", "Protocol", "Io"}, Returns(IpcError(why))
        PROVE  Matches(n)
    BY <2>2, <2>3 DEF IpcError
  <2>4. CASE run_workload \/ connect_retry \/ read_closed \/ read_expired
    <3>1. \/ \E why \in {"CounterBounds", "Connect", "Protocol", "Io"} : Returns(IpcError(why))
          \/ returned' = returned
      BY <2>4 DEF run_workload, connect_retry, read_closed, read_expired
    <3> QED BY <1>1, <2>3, <3>1
  <2>5. CASE read_answer
    <3>1. PICK i \in MyConns : conns[i].answer # Nothing /\ Returns(parse_run_response(conns[i].answer))
      BY <2>5 DEF read_answer
    <3>2. i \in 1..Len(conns) /\ conns[i].number = call.number
      BY <1>1 DEF MyConns, Mine, MatchInv
    <3>3. conns[i].answer = handle_request(call.request) /\ call' = call
      BY <1>1, <2>5, <3>1, <3>2 DEF MatchInv, Matched, read_answer
    <3> QED BY <2>2, <3>1, <3>3, ParsedAnswer
  <2>6. CASE spawn \/ exec \/ poll_connected \/ poll_exited \/ poll_expired \/ connect_ok
             \/ drop_engine \/ kill \/ clean \/ Engine \/ UNCHANGED hostVars
    <3>1. returned' = returned
      BY <2>6 DEF spawn, exec, poll_connected, poll_exited, poll_expired, connect_ok, drop_engine, kill,
                  clean, Engine, engine_exit, engine_bind, engine_accept, engine_eof, engine_stalled,
                  engine_reply, callerVars, hostVars
    <3> QED BY <1>1, <3>1
  <2> QED BY <1>1, <2>4, <2>5, <2>6 DEF HostNext, Caller
<1>2. MatchInv /\ [HostNext]_hostVars =>
        [\A n \in DOMAIN returned' \ DOMAIN returned : Matches(n)]_hostVars
  BY <1>1
<1> QED BY <1>2, MatchInit, MatchNext, PTL DEF HostSpec, AnswersMatch

-----------------------------------------------------------------------------
(* The in-process network.                                                 *)

TaskState == [pc : {"run", "notify", "wait"}, ticket : {"none", "armed", "fired"}, sent : Nat]

\* Only a task inside a receive holds a ticket that a notification may still fire,
\* so a sender cannot forget its own.
WakeInv ==
    /\ task \in [Tasks -> TaskState]
    /\ \E S : queue \in Seq(S)
    /\ \A t \in Tasks : task[t].ticket = "armed" => task[t].pc = "wait"
    /\ NoLostWakeup

LEMMA ConcatFacts ==
    ASSUME NEW S, NEW s \in Seq(S), NEW t \in Seq(S)
    PROVE  /\ s \o t \in Seq(S) /\ Len(s \o t) = Len(s) + Len(t)
           /\ \A j \in 1..(Len(s) + Len(t)) :
                 (s \o t)[j] = IF j <= Len(s) THEN s[j] ELSE t[j - Len(s)]
OBVIOUS

\* Taking one message out of the queue brings no other in.
LEMMA WithoutFacts ==
    ASSUME NEW S, NEW q \in Seq(S), NEW i \in 1..Len(q)
    PROVE  /\ Without(q, i) \in Seq(S)
           /\ \A j \in 1..Len(Without(q, i)) : \E k \in 1..Len(q) : Without(q, i)[j] = q[k]
<1> DEFINE front == SubSeq(q, 1, i - 1)
           back  == SubSeq(q, i + 1, Len(q))
<1>1. Len(q) \in Nat /\ i \in Nat
  OBVIOUS
<1>2. /\ front \in Seq(S) /\ Len(front) = i - 1
      /\ \A j \in 1..(i - 1) : front[j] = q[j]
  BY <1>1
<1>3. /\ back \in Seq(S) /\ Len(back) = Len(q) - i
      /\ \A j \in 1..(Len(q) - i) : back[j] = q[i + j]
  BY <1>1
<1>4. Without(q, i) = front \o back
  BY DEF Without
<1> HIDE DEF front, back
<1>a. Len(front) + Len(back) = Len(q) - 1
  BY <1>1, <1>2, <1>3
<1>5. /\ front \o back \in Seq(S) /\ Len(front \o back) = Len(q) - 1
      /\ \A j \in 1..(Len(q) - 1) :
            (front \o back)[j] = IF j <= i - 1 THEN front[j] ELSE back[j - (i - 1)]
  <2>1. /\ front \o back \in Seq(S) /\ Len(front \o back) = Len(front) + Len(back)
        /\ \A j \in 1..(Len(front) + Len(back)) :
              (front \o back)[j] = IF j <= Len(front) THEN front[j] ELSE back[j - Len(front)]
    BY <1>2, <1>3, ConcatFacts
  <2>2. Len(front) = i - 1
    BY <1>2
  <2> QED BY <1>a, <2>1, <2>2
<1>6. ASSUME NEW j \in 1..(Len(q) - 1) PROVE \E k \in 1..Len(q) : (front \o back)[j] = q[k]
  <2>1. CASE j <= i - 1
    BY <1>1, <1>2, <1>5, <2>1
  <2>2. CASE j > i - 1
    <3>1. j - (i - 1) \in 1..(Len(q) - i) /\ i + (j - (i - 1)) = j + 1 /\ j + 1 \in 1..Len(q)
      BY <1>1, <2>2
    <3>2. (front \o back)[j] = q[j + 1]
      BY <1>1, <1>3, <1>5, <2>2, <3>1
    <3> QED BY <3>1, <3>2
  <2>3. j <= i - 1 \/ j > i - 1
    BY <1>1
  <2> QED BY <2>1, <2>2, <2>3
<1> QED BY <1>4, <1>5, <1>6

\* A nonempty set of positions has a first one.
LEMMA Least ==
    ASSUME NEW T \in SUBSET Nat, T # {}
    PROVE  (CHOOSE i \in T : \A j \in T : i <= j) \in T
<1> DEFINE R == OpToRel(<, Nat)
<1>1. IsWellFoundedOn(R, Nat)
  BY NatLessThanWellFounded
<1> HIDE DEF R
<1>2. PICK x \in T : \A y \in T : ~(<<y, x>> \in R)
  BY <1>1, WFMin
<1>3. \A y \in T : <<y, x>> \in R <=> y < x
  BY DEF R, OpToRel
<1>4. \A y \in T : ~(y < x)
  BY <1>2, <1>3, Zenon
<1>5. \A a, b \in Nat : ~(b < a) => a <= b
  OBVIOUS
<1>6. \A y \in T : x <= y
  BY <1>4, <1>5, Zenon
<1> QED BY <1>6, Zenon

\* Receiving the first of some queued messages brings none in.
LEMMA TakenFirst ==
    ASSUME WakeInv, NEW mine \in SUBSET DOMAIN queue, mine # {},
           queue' = Without(queue, CHOOSE i \in mine : \A j \in mine : i <= j)
    PROVE  /\ (\E S : queue \in Seq(S))'
           /\ \A actor : Addressed(actor)' # {} => Addressed(actor) # {}
<1>1. PICK S : queue \in Seq(S)
  BY DEF WakeInv
<1> DEFINE first == CHOOSE i \in mine : \A j \in mine : i <= j
<1>2. mine \in SUBSET Nat
  BY <1>1
<1>3. first \in mine
  BY <1>2, Least
<1>4. first \in 1..Len(queue)
  BY <1>1, <1>3
<1>5. queue' = Without(queue, first)
  OBVIOUS
<1> HIDE DEF first
<1>6. /\ queue' \in Seq(S)
      /\ \A j \in 1..Len(queue') : \E k \in 1..Len(queue) : queue'[j] = queue[k]
  <2>1. /\ Without(queue, first) \in Seq(S)
        /\ \A j \in 1..Len(Without(queue, first)) :
              \E k \in 1..Len(queue) : Without(queue, first)[j] = queue[k]
    BY <1>1, <1>4, WithoutFacts, SMTT(30)
  <2> QED BY <1>5, <2>1
<1>7. ASSUME NEW actor, Addressed(actor)' # {} PROVE Addressed(actor) # {}
  <2>1. PICK j \in DOMAIN queue' : queue'[j].to = actor
    BY <1>7 DEF Addressed
  <2>2. j \in 1..Len(queue')
    BY <1>6
  <2>3. PICK k \in 1..Len(queue) : queue'[j] = queue[k]
    BY <1>6, <2>2
  <2>4. k \in DOMAIN queue
    BY <1>1
  <2>5. queue[k].to = actor
    BY <2>1, <2>3
  <2> QED BY <2>4, <2>5 DEF Addressed
<1> QED BY <1>6, <1>7

\* A task that moves to another point, with or without a ticket.
LEMMA TaskMoves ==
    ASSUME task \in [Tasks -> TaskState], NEW t \in Tasks,
           NEW p \in {"run", "notify", "wait"}, NEW k \in {"none", "armed", "fired"},
           task' = [task EXCEPT ![t].pc = p, ![t].ticket = k]
    PROVE  /\ task' \in [Tasks -> TaskState]
           /\ task'[t].pc = p /\ task'[t].ticket = k
           /\ \A u \in Tasks \ {t} : task'[u] = task[u]
<1>1. task[t] \in TaskState
  OBVIOUS
<1>2. task' = [task EXCEPT ![t] = [task[t] EXCEPT !.pc = p, !.ticket = k]]
  OBVIOUS
<1>3. /\ [task[t] EXCEPT !.pc = p, !.ticket = k] \in TaskState
      /\ [task[t] EXCEPT !.pc = p, !.ticket = k].pc = p
      /\ [task[t] EXCEPT !.pc = p, !.ticket = k].ticket = k
  BY <1>1 DEF TaskState
<1> QED BY <1>2, <1>3

LEMMA WakeInit == RtInit => WakeInv
<1> SUFFICES ASSUME RtInit PROVE WakeInv
  OBVIOUS
<1>1. task \in [Tasks -> TaskState] /\ \A t \in Tasks : task[t].ticket = "none"
  BY DEF RtInit, FreshTasks, TaskState
<1>2. queue \in Seq({})
  BY DEF RtInit
<1> QED BY <1>1, <1>2 DEF WakeInv, NoLostWakeup

\* Every step of the runtime and of its network preserves the invariant.
LEMMA WakeNext == WakeInv /\ [RtNext]_rtVars => WakeInv'
<1> SUFFICES ASSUME WakeInv, [RtNext]_rtVars PROVE WakeInv'
  OBVIOUS
<1>t. /\ task \in [Tasks -> TaskState]
      /\ \A t \in Tasks : task[t].ticket = "armed" => task[t].pc = "wait"
      /\ NoLostWakeup
  BY DEF WakeInv
<1>0. PICK S : queue \in Seq(S)
  BY DEF WakeInv
<1>1. CASE UNCHANGED netVars
  BY <1>1 DEF WakeInv, NoLostWakeup, Addressed, netVars
<1>2. CASE run_start
  <2>1. task' \in [Tasks -> TaskState] /\ \A t \in Tasks : task'[t].ticket = "none"
    BY <1>2 DEF run_start, FreshTasks, TaskState
  <2>2. queue' \in Seq({})
    BY <1>2 DEF run_start
  <2> QED BY <2>1, <2>2 DEF WakeInv, NoLostWakeup
<1>3. CASE partition
  BY <1>3 DEF partition, WakeInv, NoLostWakeup, Addressed
<1>4. ASSUME NEW t \in Tasks, Conn_send(t) PROVE WakeInv'
  <2>1. task[t].pc = "run" /\ task[t].ticket # "armed" /\ task[t] \in TaskState
    BY <1>t, <1>4 DEF Conn_send
  <2>2. CASE task' = [task EXCEPT ![t].sent = @ + 1] /\ UNCHANGED queue
    <3>1. task' \in [Tasks -> TaskState]
      BY <1>t, <2>1, <2>2 DEF TaskState
    <3>2. \A u \in Tasks : task'[u].ticket = task[u].ticket /\ task'[u].pc = task[u].pc
      BY <1>t, <2>1, <2>2 DEF TaskState
    <3> QED BY <1>0, <1>t, <2>2, <3>1, <3>2 DEF WakeInv, NoLostWakeup, Addressed
  <2>3. ASSUME NEW m, task' = [task EXCEPT ![t].pc = "notify", ![t].sent = @ + 1],
               queue' = Append(queue, m)
        PROVE  WakeInv'
    <3>1. task' \in [Tasks -> TaskState]
      BY <1>t, <2>1, <2>3 DEF TaskState
    <3>2. \A u \in Tasks : task'[u].ticket = task[u].ticket
      BY <1>t, <2>1, <2>3 DEF TaskState
    <3>3. task'[t].pc = "notify" /\ \A u \in Tasks \ {t} : task'[u].pc = task[u].pc
      BY <1>t, <2>1, <2>3 DEF TaskState
    <3>4. queue' \in Seq(S \cup {m})
      BY <1>0, <2>3
    <3> QED BY <1>t, <2>1, <3>1, <3>2, <3>3, <3>4 DEF WakeInv, NoLostWakeup
  <2> QED BY <1>4, <2>2, <2>3 DEF Conn_send
<1>5. ASSUME NEW t \in Tasks, notify_waiters(t) PROVE WakeInv'
  <2>1. task[t].pc = "notify" /\ task[t].ticket # "armed"
    BY <1>t, <1>5 DEF notify_waiters
  <2>2. task' \in [Tasks -> TaskState]
    BY <1>t, <1>5 DEF notify_waiters, TaskState
  <2>3. \A u \in Tasks : task'[u].ticket # "armed"
    BY <1>t, <1>5, <2>1 DEF notify_waiters, TaskState
  <2> QED BY <1>0, <1>5, <2>2, <2>3 DEF notify_waiters, WakeInv, NoLostWakeup
<1>6. ASSUME NEW t \in Tasks, net_recv(t) PROVE WakeInv'
  <2>1. task[t].pc # "notify"
    BY <1>6 DEF net_recv
  <2>2. CASE recv_for(t)
    <3>1. task' = [task EXCEPT ![t].pc = "run", ![t].ticket = "none"]
      BY <2>2 DEF recv_for
    <3>2. task' \in [Tasks -> TaskState]
      BY <1>t, <3>1, TaskMoves
    <3>3. /\ task'[t].pc = "run" /\ task'[t].ticket = "none"
          /\ \A u \in Tasks \ {t} : task'[u] = task[u]
      BY <1>t, <3>1, TaskMoves
    <3>4. /\ (\E Q : queue \in Seq(Q))'
          /\ \A actor : Addressed(actor)' # {} => Addressed(actor) # {}
      BY <2>2, TakenFirst DEF recv_for, Addressed
    <3> QED BY <1>t, <2>1, <3>2, <3>3, <3>4 DEF WakeInv, NoLostWakeup
  <2>3. CASE net_recv_empty(t)
    <3>1. /\ task' = [task EXCEPT ![t].pc = "wait", ![t].ticket = "armed"]
          /\ queue' = queue /\ Addressed(actor_of[t]) = {}
      BY <2>3 DEF net_recv_empty
    <3>2. task' \in [Tasks -> TaskState]
      BY <1>t, <3>1, TaskMoves
    <3>3. /\ task'[t].pc = "wait" /\ task'[t].ticket = "armed"
          /\ \A u \in Tasks \ {t} : task'[u] = task[u]
      BY <1>t, <3>1, TaskMoves
    <3>4. \A actor : Addressed(actor)' = Addressed(actor)
      BY <3>1 DEF Addressed
    <3> QED BY <1>0, <1>t, <2>1, <3>1, <3>2, <3>3, <3>4 DEF WakeInv, NoLostWakeup
  <2> QED BY <1>6, <2>2, <2>3 DEF net_recv
<1>7. ASSUME NEW t \in Tasks, Conn_recv(t) PROVE WakeInv'
  <2>1. task' = task
    BY <1>7 DEF Conn_recv
  <2>2. PICK from : LET mine == {i \in Addressed(actor_of[t]) : queue[i].from = from}
                    IN  /\ mine # {}
                        /\ queue' = Without(queue, CHOOSE i \in mine : \A j \in mine : i <= j)
    BY <1>7 DEF Conn_recv
  <2>3. /\ (\E Q : queue \in Seq(Q))'
        /\ \A actor : Addressed(actor)' # {} => Addressed(actor) # {}
    <3> DEFINE mine == {i \in Addressed(actor_of[t]) : queue[i].from = from}
    <3>1. mine \in SUBSET DOMAIN queue
      BY DEF Addressed
    <3> QED BY <2>2, <3>1, TakenFirst
  <2> QED BY <1>t, <2>1, <2>3 DEF WakeInv, NoLostWakeup
<1>8. CASE run_refused \/ program_returns \/ run_ok \/ run_error
  BY <1>1, <1>8 DEF run_refused, program_returns, run_ok, run_error
<1>9. CASE UNCHANGED rtVars
  BY <1>1, <1>9 DEF rtVars
<1> QED BY <1>2, <1>3, <1>4, <1>5, <1>6, <1>7, <1>8, <1>9 DEF RtNext

\* No wakeup is lost, whatever the number of tasks and messages: in every reachable
\* state a receive that waits although a message to its actor is queued
\* (net.rs, net_recv) has a sender about to notify it.
THEOREM NoLostWakeupAlways == RtSpec => []NoLostWakeup
<1>1. WakeInv => NoLostWakeup
  BY DEF WakeInv
<1> QED BY <1>1, WakeInit, WakeNext, PTL DEF RtSpec
=============================================================================
