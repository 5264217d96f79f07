--------------------------- MODULE EngineSession ---------------------------
(***************************************************************************)
(* The effect protocol between a program under test (ldgr-rt, shim.rs) and  *)
(* the engine server (rt-server, lib.rs).  A client opens one connection,   *)
(* says Hello in frame 0 and asks for one effect at a time in frames 1, 2,  *)
(* ...; the server serves one connection after the other, gives each its    *)
(* own deterministic backend (backend_sim.rs) and answers a frame under the *)
(* number of that frame.  The client's calls may fail and the program may   *)
(* go on using the session, or go away, at any moment; the server drops a   *)
(* connection that stays silent.                                           *)
(***************************************************************************)
EXTENDS Naturals, Sequences, FiniteSets

CONSTANTS
    Clients,         \* connections, one per client
    Wants,           \* the effects that each client may ask for
    MAX_CALLS,       \* bound on the effects that each client asks for
    MAX_SEQ,         \* u64::MAX, scaled down
    MAX_FRAME,       \* MAX_FRAME_BYTES, in cells of payload
    MAX_COUNT,       \* MAX_RANDOM_COUNT, scaled down
    MAX_ACTOR,       \* the highest actor id, scaled down
    None

\* The effects of proto/msg.rs; the send to oneself is the one that comes back.
Effects ==
    [op : {"Clock", "Recv", "FsSync"}] \cup [op : {"Sleep"}, ticks : Nat]
    \cup [op : {"Random"}, count : Nat] \cup [op : {"Send"}, self : BOOLEAN]
    \cup [op : {"FsWrite"}, offset : Nat, len : Nat] \cup [op : {"FsRead"}, len : Nat]

ASSUME EngineAssumption ==
    /\ \A c \in Clients : Wants[c] \subseteq Effects
    /\ MAX_CALLS \in [Clients -> Nat] /\ MAX_SEQ \in Nat \ {0} /\ MAX_FRAME \in Nat /\ MAX_COUNT \in Nat
    /\ MAX_ACTOR \in Nat
    /\ None \notin Clients /\ None # "Finished"

\* What a connection may be opened with: an identity that is or is not the
\* server's, a user who is or is not the server's, an actor in range or not.
Dials == [identity : BOOLEAN, user : BOOLEAN, actor : 0..(MAX_ACTOR + 1)]

VARIABLES
    client,          \* EngineSession of each client: pc, next_seq, actor, asked, log, outcome, entries, calls
    up, down,        \* frames in flight to and from the server, per connection
    open,            \* [client, server]: which ends of the connection are open
    backlog,         \* connections not yet accepted, oldest first
    current,         \* the connection being served, or None
    session,         \* Session: phase, next_seq, send_sequence and backend
    applied,         \* per connection, the effects applied to its backend and their results
    listening        \* the accept loop runs

engineVars == <<client, up, down, open, backlog, current, session, applied, listening>>

--------------------------------------------------------------------------
\* Messages (proto/msg.rs) and the frames that carry them (proto/codec.rs).
Frame(seq, msg) == [seq |-> seq, msg |-> msg]
Hello(dial) == [kind |-> "Hello", dial |-> dial]
Welcome(actor) == [kind |-> "Welcome", actor |-> actor]
Reject(reason) == [kind |-> "Reject", reason |-> reason]
EffectRequest(effect) == [kind |-> "EffectRequest", effect |-> effect]
EffectResponse(result) == [kind |-> "EffectResponse", result |-> result]
Finish == [kind |-> "Finish"]
Goodbye(entries) == [kind |-> "Goodbye", entries |-> entries]

Field(r, name) == IF name \in DOMAIN r THEN r[name] ELSE 0

\* encode_frame refuses a body over the cap; decode_effect a count over its own.
Encodable(effect) == Field(effect, "len") <= MAX_FRAME \/ effect.op = "FsRead"
Decodable(effect) == Field(effect, "count") <= MAX_COUNT

--------------------------------------------------------------------------
\* The backend of one session (backend_sim.rs): the virtual clock, the
\* messages in the simulated network, the length of the one file (None when
\* there is no file) and the number of journal entries.
Backend == [now |-> 0, mail |-> <<>>, file |-> None, entries |-> 0]

Least(a, b) == IF a <= b THEN a ELSE b
Most(a, b) == IF a <= b THEN b ELSE a

\* Each operation gives the backend after it and its result; a result None is
\* an error, which takes the session with it.
Done(b, result) == [backend |-> b, result |-> result]
clock(b) == Done(b, <<"Clock", b.now>>)

\* TimerSet, TimerFire and Wake; the timer is the only one and fires at once.
sleep(b, ticks) == Done([b EXCEPT !.now = @ + ticks, !.entries = @ + 3], <<"Ok">>)

\* One RngDraw for each word.
rng(b, count) == Done([b EXCEPT !.entries = @ + count], <<"Random", count>>)

\* Messages to other actors stay in the network of this session.
send_impl(b, self, n) ==
    Done([b EXCEPT !.mail = IF self THEN Append(@, n) ELSE @, !.entries = @ + 1], <<"Ok">>)
recv(b) ==
    IF b.mail = <<>> THEN Done(b, <<"Recv">>)
    ELSE Done([b EXCEPT !.mail = Tail(@), !.entries = @ + 1], <<"Recv", Head(b.mail)>>)

\* A zero-length write creates no file.
fs_write_bytes(b, offset, len) ==
    Done([b EXCEPT !.entries = @ + 1,
                   !.file = IF len = 0 THEN @ ELSE IF @ = None THEN offset + len ELSE Most(@, offset + len)],
         <<"Ok">>)
fs_read_bytes(b, len) ==
    Done([b EXCEPT !.entries = @ + 1], <<"FsRead", IF b.file = None THEN 0 ELSE Least(b.file, len)>>)
fs_sync_path(b) ==
    IF b.file = None THEN Done(b, None) ELSE Done([b EXCEPT !.entries = @ + 1], <<"Ok">>)

apply(b, e, sent) ==
    CASE e.op = "Clock"   -> clock(b)
      [] e.op = "Sleep"   -> sleep(b, e.ticks)
      [] e.op = "Random"  -> rng(b, e.count)
      [] e.op = "Send"    -> send_impl(b, e.self, sent)
      [] e.op = "Recv"    -> recv(b)
      [] e.op = "FsWrite" -> fs_write_bytes(b, e.offset, e.len)
      [] e.op = "FsRead"  -> fs_read_bytes(b, e.len)
      [] e.op = "FsSync"  -> fs_sync_path(b)

\* The response must fit a frame as well.
Answerable(effect, result) == result # None /\ (effect.op = "FsRead" => result[2] <= MAX_FRAME)

NewSession == [phase |-> "hello", next_seq |-> 0, send_sequence |-> 0, backend |-> Backend]

NewClient ==
    [pc |-> "idle", next_seq |-> 0, actor |-> None, asked |-> None, log |-> <<>>,
     outcome |-> None, entries |-> 0, calls |-> 0]

EngineInit ==
    /\ client = [c \in Clients |-> NewClient]
    /\ up = [c \in Clients |-> <<>>]
    /\ down = [c \in Clients |-> <<>>]
    /\ open = [c \in Clients |-> [client |-> FALSE, server |-> FALSE]]
    /\ backlog = <<>>
    /\ current = None
    /\ session = NewSession
    /\ applied = [c \in Clients |-> <<>>]
    /\ listening = TRUE

--------------------------------------------------------------------------
\* The client (shim.rs).  pc is "idle" before connect, "hello", "waiting" or
\* "finishing" while a call waits for its reply, "ready" between calls and
\* "gone" once the session value is dropped.

serverVars == <<backlog, current, session, applied, listening>>

\* The stream is dropped with the session.
Gone(c, outcome) ==
    /\ client' = [client EXCEPT ![c].pc = "gone", ![c].outcome = outcome]
    /\ open' = [open EXCEPT ![c].client = FALSE]

\* connect: the actor is checked, then the connection and Hello in frame 0.
connect(c) ==
    /\ client[c].pc = "idle"
    /\ \E dial \in Dials :
         \/ /\ dial.actor > MAX_ACTOR
            /\ Gone(c, "InvalidActor")
            /\ UNCHANGED <<up, backlog>>
         \/ /\ dial.actor <= MAX_ACTOR /\ listening
            /\ client' = [client EXCEPT ![c].pc = "hello", ![c].actor = dial.actor]
            /\ open' = [open EXCEPT ![c] = [client |-> TRUE, server |-> TRUE]]
            /\ up' = [up EXCEPT ![c] = <<Frame(0, Hello(dial))>>]
            /\ backlog' = Append(backlog, c)
    /\ UNCHANGED <<down, current, session, applied, listening>>

\* connect on a server that is not listening.
connect_refused(c) ==
    /\ client[c].pc = "idle" /\ ~listening
    /\ Gone(c, "Io")
    /\ UNCHANGED <<up, down, serverVars>>

\* effect: the number is taken before the frame is built and written, so a
\* call that fails there has used it up.
effect(c) ==
    /\ client[c].pc = "ready" /\ client[c].calls < MAX_CALLS[c]
    /\ \E e \in Wants[c] :
         LET seq   == client[c].next_seq
             taken == [client EXCEPT ![c].next_seq = @ + 1, ![c].calls = @ + 1]
         IN  \/ /\ seq = MAX_SEQ
                /\ client' = [client EXCEPT ![c].outcome = "SequenceMismatch", ![c].calls = @ + 1]
                /\ UNCHANGED up
             \/ /\ seq < MAX_SEQ /\ Encodable(e) /\ open[c].server
                /\ client' = [taken EXCEPT ![c].pc = "waiting", ![c].asked = e]
                /\ up' = [up EXCEPT ![c] = Append(@, Frame(seq, EffectRequest(e)))]
             \/ /\ seq < MAX_SEQ /\ ~(Encodable(e) /\ open[c].server)
                /\ client' = [taken EXCEPT ![c].outcome = "Io"]
                /\ UNCHANGED up
    /\ UNCHANGED <<down, open, serverVars>>

\* finish consumes the session.
finish(c) ==
    /\ client[c].pc = "ready"
    /\ \/ /\ open[c].server
          /\ client' = [client EXCEPT ![c].pc = "finishing"]
          /\ up' = [up EXCEPT ![c] = Append(@, Frame(client[c].next_seq, Finish))]
          /\ UNCHANGED open
       \/ /\ ~open[c].server
          /\ Gone(c, "Io")
          /\ UNCHANGED up
    /\ UNCHANGED <<down, serverVars>>

\* The reply to Hello.
reply_to_hello(c, seq, msg) ==
    IF seq = 0 /\ msg.kind = "Welcome" /\ msg.actor = client[c].actor
    THEN /\ client' = [client EXCEPT ![c].pc = "ready", ![c].next_seq = 1]
         /\ UNCHANGED open
    ELSE Gone(c, IF seq = 0 /\ msg.kind = "Reject" THEN msg.reason ELSE "UnexpectedReply")

\* The reply to an effect: an error leaves the session in the caller's hands.
reply_to_effect(c, seq, msg) ==
    /\ client' = IF seq # client[c].next_seq - 1
                 THEN [client EXCEPT ![c].pc = "ready", ![c].outcome = "SequenceMismatch"]
                 ELSE IF msg.kind = "EffectResponse"
                 THEN [client EXCEPT ![c].pc = "ready",
                                     ![c].log = Append(@, <<client[c].asked, msg.result>>)]
                 ELSE [client EXCEPT ![c].pc = "ready", ![c].outcome = "UnexpectedReply"]
    /\ UNCHANGED open

\* The reply to Finish: the outcome is the Goodbye, or an error.
reply_to_finish(c, seq, msg) ==
    /\ client' = [client EXCEPT ![c].pc = "gone",
                                ![c].outcome = IF seq # client[c].next_seq THEN "SequenceMismatch"
                                               ELSE IF msg.kind = "Goodbye" THEN "Finished"
                                               ELSE "UnexpectedReply",
                                ![c].entries = IF seq = client[c].next_seq /\ msg.kind = "Goodbye"
                                               THEN msg.entries ELSE @]
    /\ open' = [open EXCEPT ![c].client = FALSE]

Blocked(c) == client[c].pc \in {"hello", "waiting", "finishing"}

\* read_message in the three calls.
read_reply(c) ==
    /\ Blocked(c) /\ down[c] # <<>>
    /\ down' = [down EXCEPT ![c] = Tail(@)]
    /\ LET frame == Head(down[c])
       IN  CASE client[c].pc = "hello" -> reply_to_hello(c, frame.seq, frame.msg)
             [] client[c].pc = "waiting" -> reply_to_effect(c, frame.seq, frame.msg)
             [] client[c].pc = "finishing" -> reply_to_finish(c, frame.seq, frame.msg)
    /\ UNCHANGED <<up, serverVars>>

\* The server's end is closed: the read fails.
read_eof(c) ==
    /\ Blocked(c) /\ down[c] = <<>> /\ ~open[c].server
    /\ IF client[c].pc = "waiting"
       THEN client' = [client EXCEPT ![c].pc = "ready", ![c].outcome = "Io"] /\ UNCHANGED open
       ELSE Gone(c, "Io")
    /\ UNCHANGED <<up, down, serverVars>>

\* The program drops the session, or ends, in or between calls.
drop(c) ==
    /\ open[c].client
    /\ Gone(c, "Dropped")
    /\ UNCHANGED <<up, down, serverVars>>

--------------------------------------------------------------------------
\* The server (rt-server, lib.rs): run's accept loop and Session::serve.

clientVars == <<client, backlog, listening>>

\* The session is over and both of its descriptors are dropped.
EndSession ==
    /\ current' = None
    /\ open' = [open EXCEPT ![current].server = FALSE]

Answer(frame) == down' = [down EXCEPT ![current] = Append(@, frame)]

\* Mutated accept: the backend of the previous session is kept.
accept_shared ==
    /\ listening /\ current = None /\ backlog # <<>>
    /\ backlog' = Tail(backlog)
    /\ LET c == Head(backlog)
       IN  IF Head(up[c]).msg.dial.user
           THEN /\ current' = c
                /\ session' = [NewSession EXCEPT !.backend = session.backend]
                /\ UNCHANGED open
           ELSE /\ open' = [open EXCEPT ![c].server = FALSE]
                /\ UNCHANGED <<current, session>>
    /\ UNCHANGED <<client, up, down, applied, listening>>

\* A peer of another user is shut down; any other gets a fresh session.
accept ==
    /\ listening /\ current = None /\ backlog # <<>>
    /\ backlog' = Tail(backlog)
    /\ LET c == Head(backlog)
       IN  IF Head(up[c]).msg.dial.user
           THEN current' = c /\ session' = NewSession /\ UNCHANGED open
           ELSE /\ open' = [open EXCEPT ![c].server = FALSE]
                /\ UNCHANGED <<current, session>>
    /\ UNCHANGED <<client, up, down, applied, listening>>

\* The accept call fails and run returns: every connection is closed.
accept_error ==
    /\ listening /\ current = None
    /\ listening' = FALSE
    /\ backlog' = <<>>
    /\ open' = [c \in Clients |-> [open[c] EXCEPT !.server = FALSE]]
    /\ UNCHANGED <<client, up, down, current, session, applied>>

\* The frame that the session reads next.
Reads(frame) ==
    /\ current # None /\ up[current] # <<>> /\ frame = Head(up[current])
    /\ up' = [up EXCEPT ![current] = Tail(@)]

\* reject: the refusal is always sent as frame 0.
reject(reason) ==
    /\ Answer(Frame(0, Reject(reason)))
    /\ EndSession

\* The handshake.
serve_hello ==
    /\ session.phase = "hello"
    /\ \E frame \in {Head(up[c]) : c \in {x \in Clients : up[x] # <<>>}} :
         /\ Reads(frame)
         /\ IF frame.msg.dial.identity
            THEN /\ session' = [session EXCEPT !.phase = "serve", !.next_seq = 1]
                 /\ Answer(Frame(frame.seq, Welcome(frame.msg.dial.actor)))
                 /\ UNCHANGED <<current, open>>
            ELSE reject("Identity") /\ UNCHANGED session
    /\ UNCHANGED <<clientVars, applied>>

\* The frames of the effect loop are numbered 1, 2, ...
InStep(seq) == seq = session.next_seq

\* An effect that arrives in step and decodes: applied, then answered; one
\* that fails, or whose result does not fit a frame, ends the session.
serve_effect ==
    /\ current # None /\ session.phase = "serve" /\ up[current] # <<>>
    /\ LET frame == Head(up[current])
           e     == frame.msg.effect
           done  == apply(session.backend, e, session.send_sequence)
       IN  /\ Reads(frame)
           /\ frame.msg.kind = "EffectRequest" /\ Decodable(e)
           /\ InStep(frame.seq) /\ session.next_seq < MAX_SEQ
           /\ session' = [session EXCEPT !.next_seq = @ + 1, !.backend = done.backend,
                                         !.send_sequence = @ + (IF e.op = "Send" THEN 1 ELSE 0)]
           /\ IF done.result = None THEN UNCHANGED applied
              ELSE applied' = [applied EXCEPT ![current] = Append(@, <<e, done.result>>)]
           /\ IF Answerable(e, done.result)
              THEN Answer(Frame(frame.seq, EffectResponse(done.result))) /\ UNCHANGED <<current, open>>
              ELSE EndSession /\ UNCHANGED down
    /\ UNCHANGED clientVars

\* Finish in step: the journal is counted and the session is over.
serve_finish ==
    /\ current # None /\ session.phase = "serve" /\ up[current] # <<>>
    /\ LET frame == Head(up[current])
       IN  /\ Reads(frame)
           /\ frame.msg.kind = "Finish" /\ InStep(frame.seq) /\ session.next_seq < MAX_SEQ
           /\ Answer(Frame(frame.seq, Goodbye(session.backend.entries)))
           /\ EndSession
    /\ UNCHANGED <<clientVars, session, applied>>

\* A frame out of step is refused.
serve_gap ==
    /\ current # None /\ session.phase = "serve" /\ up[current] # <<>>
    /\ LET frame == Head(up[current])
       IN  /\ Reads(frame)
           /\ (frame.msg.kind = "EffectRequest" => Decodable(frame.msg.effect))
           /\ ~InStep(frame.seq)
           /\ reject("Protocol")
    /\ UNCHANGED <<clientVars, session, applied>>

\* A frame that does not decode, or the last number: the session ends with
\* no reply.
serve_fatal ==
    /\ current # None /\ session.phase = "serve" /\ up[current] # <<>>
    /\ LET frame == Head(up[current])
       IN  /\ Reads(frame)
           /\ \/ frame.msg.kind = "EffectRequest" /\ ~Decodable(frame.msg.effect)
              \/ InStep(frame.seq) /\ session.next_seq = MAX_SEQ
    /\ EndSession
    /\ UNCHANGED <<clientVars, down, session, applied>>

\* The read fails: the client's end is closed, or it has been silent for the
\* length of the read timeout.
serve_read_error ==
    /\ current # None /\ up[current] = <<>>
    /\ EndSession
    /\ UNCHANGED <<clientVars, up, down, session, applied>>

Server ==
    accept \/ serve_hello \/ serve_effect \/ serve_finish \/ serve_gap \/ serve_fatal \/ serve_read_error

Client(c) == connect(c) \/ connect_refused(c) \/ effect(c) \/ finish(c) \/ drop(c)

EngineNext ==
    \/ Server \/ accept_error
    \/ \E c \in Clients : Client(c) \/ read_reply(c) \/ read_eof(c)

EngineSpec ==
    /\ EngineInit /\ [][EngineNext]_engineVars
    /\ WF_engineVars(Server)
    /\ \A c \in Clients : WF_engineVars(read_reply(c) \/ read_eof(c))

--------------------------------------------------------------------------
IsPrefixOf(s, t) == Len(s) <= Len(t) /\ s = SubSeq(t, 1, Len(s))

\* The journal entries that an effect with this result leaves.
Weight(done) ==
    CASE done[1].op = "Clock" -> 0
      [] done[1].op = "Sleep" -> 3
      [] done[1].op = "Random" -> done[1].count
      [] done[1].op = "Recv" /\ done[2] = <<"Recv">> -> 0
      [] done[1].op = "Recv" /\ done[2] # <<"Recv">> -> 1
      [] done[1].op \in {"Send", "FsWrite", "FsRead", "FsSync"} -> 1

Entries(history) ==
    LET total[i \in 0..Len(history)] == IF i = 0 THEN 0 ELSE total[i - 1] + Weight(history[i])
    IN  total[Len(history)]

\* The client and the engine tell the same history: whatever calls failed on
\* the way, the results that the client got are, in order, those of the first
\* effects applied to its backend, and at most the last one applied is unknown
\* to it; once finish has returned the Goodbye, the two histories are equal and
\* the Goodbye counts exactly their journal entries.
HistoriesAgree ==
    \A c \in Clients :
        /\ IsPrefixOf(client[c].log, applied[c])
        /\ Len(applied[c]) <= Len(client[c].log) + 1
        /\ client[c].outcome = "Finished" =>
              client[c].log = applied[c] /\ client[c].entries = Entries(applied[c])

\* A call that waits for the server returns: the server answers, refuses, or
\* closes the connection when it fails, times out or stops listening.
CallsReturn == \A c \in Clients : Blocked(c) ~> ~Blocked(c)
=============================================================================
