------------------------ MODULE EngineSessionProofs ------------------------
(***************************************************************************)
(* Proofs about the effect session: what the client was told, what the      *)
(* engine applied, and what its journal holds.                              *)
(***************************************************************************)
EXTENDS EngineConnectionProofs

-----------------------------------------------------------------------------
(* The inductive invariant of the whole server.                             *)

Distinct(queue) == \A i, j \in 1..Len(queue) : queue[i] = queue[j] => i = j

Stands(c) == Standing(c, current, session.phase, backlog)

Connection(c) == Conn(client[c], up[c], down[c], applied[c], Stands(c), session.backend.entries)

Types ==
    /\ DOMAIN client = Clients /\ DOMAIN up = Clients /\ DOMAIN down = Clients
    /\ DOMAIN open = Clients /\ DOMAIN applied = Clients
    /\ \A c \in Clients : DOMAIN open[c] = {"client", "server"} /\ open[c].server \in BOOLEAN
    /\ backlog \in Seq(Clients) /\ Distinct(backlog)
    /\ current \in Clients \cup {None} /\ ~InQueue(current, backlog)
    /\ IsSession(session)

IInv ==
    /\ Types
    /\ \A c \in Clients : Stands(c) # "none" => open[c].server
    /\ \A c \in Clients : Connection(c)

\* A step in one client's session and its stream.
OnlyClient(c) ==
    /\ UNCHANGED <<backlog, current, session, applied>>
    /\ DOMAIN client' = Clients /\ DOMAIN up' = Clients /\ DOMAIN down' = Clients
    /\ DOMAIN open' = Clients
    /\ DOMAIN open'[c] = {"client", "server"} /\ open'[c].server = open[c].server
    /\ \A x \in Clients \ {c} :
          client'[x] = client[x] /\ up'[x] = up[x] /\ down'[x] = down[x] /\ open'[x] = open[x]

\* Such a step that keeps its own connection in order keeps the invariant.
LEMMA ClientStep ==
    ASSUME IInv, NEW c \in Clients, OnlyClient(c),
           Conn(client'[c], up'[c], down'[c], applied[c], Stands(c), session.backend.entries)
    PROVE  IInv'
<1>1. Types'
  <2>1. \A x \in Clients : DOMAIN open'[x] = {"client", "server"} /\ open'[x].server \in BOOLEAN
    BY DEF IInv, Types, OnlyClient
  <2>2. UNCHANGED <<backlog, current, session>>
    BY DEF OnlyClient
  <2>3. Distinct(backlog)' /\ InQueue(current, backlog)' = InQueue(current, backlog) /\ IsSession(session)'
    BY <2>2 DEF IInv, Types, Distinct, InQueue, IsSession, IsBackend
  <2> QED BY <2>1, <2>2, <2>3 DEF IInv, Types, OnlyClient
<1>2. \A x \in Clients : Stands(x)' = Stands(x)
  BY DEF OnlyClient, Stands, Standing, InQueue
<1>3. \A x \in Clients : Stands(x)' # "none" => open'[x].server
  BY <1>2 DEF IInv, OnlyClient
<1>4. ASSUME NEW x \in Clients PROVE Connection(x)'
  <2>1. session' = session /\ applied' = applied
    BY DEF OnlyClient
  <2>2. CASE x = c
    BY <1>2, <2>1, <2>2 DEF Connection
  <2>3. CASE x # c
    <3>1. client'[x] = client[x] /\ up'[x] = up[x] /\ down'[x] = down[x]
      BY <2>3 DEF OnlyClient
    <3>2. Connection(x)
      BY DEF IInv
    <3> QED BY <1>2, <2>1, <3>1, <3>2 DEF Connection
  <2> QED BY <2>2, <2>3
<1> QED BY <1>1, <1>3, <1>4 DEF IInv

\* A step of the server in the session it serves.
OnlyServed ==
    /\ UNCHANGED <<client, backlog>>
    /\ current' \in {current, None} /\ IsSession(session')
    /\ DOMAIN up' = Clients /\ DOMAIN down' = Clients /\ DOMAIN applied' = Clients
    /\ IF current' = current THEN open' = open
       ELSE open' = [open EXCEPT ![current].server = FALSE]
    /\ \A x \in Clients \ {current} : up'[x] = up[x] /\ down'[x] = down[x] /\ applied'[x] = applied[x]

\* Such a step that keeps the served connection in order keeps the invariant.
LEMMA ServerStep ==
    ASSUME IInv, current \in Clients, OnlyServed,
           Conn(client[current], up'[current], down'[current], applied'[current],
                IF current' = current THEN session'.phase ELSE "none", session'.backend.entries)
    PROVE  IInv'
<1>0. None \notin Clients /\ current # None
  BY EngineAssumption
<1>1. client' = client /\ backlog' = backlog
  BY DEF OnlyServed
<1>2. /\ DOMAIN open' = Clients
      /\ \A x \in Clients : DOMAIN open'[x] = {"client", "server"} /\ open'[x].server \in BOOLEAN
      /\ \A x \in Clients \ {current} : open'[x] = open[x]
  <2>1. CASE open' = open
    BY <2>1 DEF IInv, Types
  <2>2. CASE open' = [open EXCEPT ![current].server = FALSE]
    <3>1. \A x \in Clients : open'[x] = IF x = current THEN [open[x] EXCEPT !.server = FALSE] ELSE open[x]
      BY <2>2, Zenon DEF IInv, Types
    <3>2. DOMAIN open' = Clients
      BY <2>2 DEF IInv, Types
    <3> QED BY <3>1, <3>2, Zenon DEF IInv, Types
  <2> QED BY <2>1, <2>2 DEF OnlyServed
<1>3. ~InQueue(None, backlog)
  BY <1>0 DEF IInv, Types, InQueue
<1>4. Types'
  <2>1. Distinct(backlog)' /\ ~InQueue(current, backlog)'
    BY <1>1, <1>3 DEF IInv, Types, Distinct, InQueue, OnlyServed
  <2>2. IsSession(session)'
    BY DEF OnlyServed, IsSession, IsBackend
  <2> QED BY <1>1, <1>2, <2>1, <2>2 DEF IInv, Types, OnlyServed
<1>6. ASSUME NEW x \in Clients, x # current
      PROVE  Stands(x)' = Stands(x) /\ Stands(x) \in {"queued", "none"}
  BY <1>0, <1>1, <1>6 DEF Stands, Standing, InQueue, OnlyServed
<1>7. Standing(current, current', session'.phase, backlog')
        = IF current' = current THEN session'.phase ELSE "none"
  <2>1. ~InQueue(current, backlog')
    BY <1>1 DEF IInv, Types
  <2> QED BY <2>1 DEF Standing
<1>8. ASSUME NEW x \in Clients, Stands(x)' # "none" PROVE open'[x].server
  <2>1. CASE x # current
    BY <1>2, <1>6, <1>8, <2>1 DEF IInv
  <2>2. CASE x = current
    <3>1. current' = current
      BY <1>7, <1>8, <2>2 DEF Stands
    <3>2. Stands(current) # "none"
      BY DEF IInv, Types, Stands, Standing, IsSession
    <3> QED BY <2>2, <3>1, <3>2 DEF IInv, OnlyServed
  <2> QED BY <2>1, <2>2
<1>9. ASSUME NEW x \in Clients PROVE Connection(x)'
  <2>1. CASE x = current
    BY <1>1, <1>7, <2>1 DEF Connection, Stands
  <2>2. CASE x # current
    <3>1. client'[x] = client[x] /\ up'[x] = up[x] /\ down'[x] = down[x] /\ applied'[x] = applied[x]
      BY <1>1, <2>2 DEF OnlyServed
    <3>2. Conn(client[x], up[x], down[x], applied[x], Stands(x), session'.backend.entries)
      BY <1>6, <2>2, ConnElsewhere DEF IInv, Connection
    <3> QED BY <1>6, <2>2, <3>1, <3>2 DEF Connection
  <2> QED BY <2>1, <2>2
<1> QED BY <1>4, <1>8, <1>9 DEF IInv

-----------------------------------------------------------------------------
(* The steps of the clients.                                                *)

\* What the invariant says of one connection.
LEMMA Here ==
    ASSUME IInv, NEW c \in Clients
    PROVE  /\ Conn(client[c], up[c], down[c], applied[c], Stands(c), session.backend.entries)
           /\ Shape(client[c])
           /\ DOMAIN client = Clients /\ DOMAIN up = Clients /\ DOMAIN down = Clients
           /\ DOMAIN open = Clients /\ DOMAIN open[c] = {"client", "server"}
<1>1. Connection(c)
  BY DEF IInv
<1> QED BY <1>1, Zenon DEF IInv, Types, Connection, Conn

\* Gone, in the client's own state.
LEMMA GoneStep ==
    ASSUME IInv, NEW c \in Clients, NEW o, Gone(c, o)
    PROVE  /\ DOMAIN client' = Clients /\ DOMAIN open' = Clients
           /\ DOMAIN open'[c] = {"client", "server"} /\ open'[c].server = open[c].server
           /\ Shape(client'[c]) /\ client'[c].pc = "gone" /\ client'[c].outcome = o
           /\ client'[c].log = client[c].log /\ client'[c].next_seq = client[c].next_seq
           /\ \A x \in Clients \ {c} : client'[x] = client[x] /\ open'[x] = open[x]
<1>1. /\ client' = [client EXCEPT ![c].pc = "gone", ![c].outcome = o]
      /\ open' = [open EXCEPT ![c].client = FALSE]
  BY DEF Gone
<1>2. /\ DOMAIN client = Clients /\ DOMAIN open = Clients /\ DOMAIN open[c] = {"client", "server"}
      /\ Shape(client[c])
  BY Here
<1>3. /\ DOMAIN open' = Clients
      /\ DOMAIN open'[c] = {"client", "server"} /\ open'[c].server = open[c].server
      /\ \A x \in Clients \ {c} : open'[x] = open[x]
  BY <1>1, <1>2
<1>4. /\ DOMAIN client' = Clients
      /\ Shape(client'[c]) /\ client'[c].pc = "gone" /\ client'[c].outcome = o
      /\ client'[c].log = client[c].log /\ client'[c].next_seq = client[c].next_seq
      /\ \A x \in Clients \ {c} : client'[x] = client[x]
  BY <1>1, <1>2 DEF Shape
<1> QED BY <1>3, <1>4

\* A session dropped with nothing read or written.
LEMMA DropsOut ==
    ASSUME IInv, NEW c \in Clients, NEW o, o # "Finished", Gone(c, o), UNCHANGED <<up, down, serverVars>>
    PROVE  IInv'
<1>1. OnlyClient(c)
  BY GoneStep, Here DEF OnlyClient, serverVars
<1>2. /\ Shape(client'[c]) /\ client'[c].pc = "gone" /\ client'[c].outcome = o
      /\ client'[c].log = client[c].log /\ client'[c].next_seq = client[c].next_seq
  BY GoneStep
<1>3. Conn(client[c], up[c], down[c], applied[c], Stands(c), session.backend.entries)
  BY Here
<1>4. Conn(client'[c], up'[c], down'[c], applied[c], Stands(c), session.backend.entries)
  <2>1. Conn(client'[c], up[c], down[c], applied[c], Stands(c), session.backend.entries)
    BY <1>2, <1>3, ConnGone
  <2> QED BY <2>1
<1> QED BY <1>1, <1>4, ClientStep

\* connect: refused for its actor, or queued behind the others.
LEMMA ConnectStep ==
    ASSUME IInv, NEW c \in Clients, connect(c)
    PROVE  IInv'
<1>1. PICK dial \in Dials :
         \/ /\ dial.actor > MAX_ACTOR
            /\ Gone(c, "InvalidActor")
            /\ UNCHANGED <<up, backlog>>
         \/ /\ dial.actor <= MAX_ACTOR /\ listening
            /\ client' = [client EXCEPT ![c].pc = "hello", ![c].actor = dial.actor]
            /\ open' = [open EXCEPT ![c] = [client |-> TRUE, server |-> TRUE]]
            /\ up' = [up EXCEPT ![c] = <<Frame(0, Hello(dial))>>]
            /\ backlog' = Append(backlog, c)
  BY DEF connect
<1>2. client[c].pc = "idle" /\ UNCHANGED <<down, current, session, applied, listening>>
  BY DEF connect
<1>3. CASE Gone(c, "InvalidActor") /\ UNCHANGED <<up, backlog>>
  BY <1>2, <1>3, DropsOut DEF serverVars
<1>4. CASE /\ client' = [client EXCEPT ![c].pc = "hello", ![c].actor = dial.actor]
           /\ open' = [open EXCEPT ![c] = [client |-> TRUE, server |-> TRUE]]
           /\ up' = [up EXCEPT ![c] = <<Frame(0, Hello(dial))>>]
           /\ backlog' = Append(backlog, c)
  <2>1. /\ Conn(client[c], up[c], down[c], applied[c], Stands(c), session.backend.entries)
        /\ Shape(client[c])
        /\ DOMAIN client = Clients /\ DOMAIN up = Clients /\ DOMAIN down = Clients /\ DOMAIN open = Clients
    BY Here
  <2>2. /\ DOMAIN client' = Clients /\ Shape(client'[c]) /\ client'[c].pc = "hello"
        /\ client'[c].log = client[c].log /\ client'[c].next_seq = client[c].next_seq
        /\ client'[c].outcome = client[c].outcome
        /\ \A x \in Clients \ {c} : client'[x] = client[x]
    BY <1>4, <2>1 DEF Shape
  <2>3. /\ DOMAIN open' = Clients /\ open'[c] = [client |-> TRUE, server |-> TRUE]
        /\ \A x \in Clients \ {c} : open'[x] = open[x]
        /\ DOMAIN up' = Clients /\ up'[c] = <<Frame(0, Hello(dial))>>
        /\ \A x \in Clients \ {c} : up'[x] = up[x]
    BY <1>4, <2>1
  <2>4. /\ Stands(c) = "none"
        /\ Conn(client'[c], up'[c], down'[c], applied'[c], "queued", session'.backend.entries)
    BY <1>2, <2>1, <2>2, <2>3, ConnConnects
  <2>5. current # c /\ ~InQueue(c, backlog)
    BY <2>4, Zenon DEF IInv, Types, Stands, Standing, IsSession
  <2>6. \A x : InQueue(x, backlog') <=> InQueue(x, backlog) \/ x = c
    <3>1. backlog \in Seq(Clients)
      BY DEF IInv, Types
    <3>2. /\ Len(backlog') = Len(backlog) + 1 /\ Len(backlog) \in Nat /\ backlog'[Len(backlog) + 1] = c
          /\ \A i \in 1..Len(backlog) : backlog'[i] = backlog[i]
      BY <1>4, <3>1
    <3> QED BY <3>2 DEF InQueue
  <2>7. backlog' \in Seq(Clients) /\ Distinct(backlog')
    <3>1. backlog \in Seq(Clients) /\ Distinct(backlog)
      BY DEF IInv, Types
    <3>2. /\ Len(backlog') = Len(backlog) + 1 /\ Len(backlog) \in Nat /\ backlog'[Len(backlog) + 1] = c
          /\ \A i \in 1..Len(backlog) : backlog'[i] = backlog[i] /\ backlog[i] # c
      BY <1>4, <2>5, <3>1 DEF InQueue
    <3>3. Distinct(backlog')
      BY <3>1, <3>2 DEF Distinct
    <3> QED BY <1>4, <3>1, <3>3
  <2>8. Stands(c)' = "queued" /\ \A x \in Clients \ {c} : Stands(x)' = Stands(x)
    BY <1>2, <2>5, <2>6 DEF Stands, Standing
  <2>9. Types'
    <3>1. \A x \in Clients : DOMAIN open'[x] = {"client", "server"} /\ open'[x].server \in BOOLEAN
      <4>1. DOMAIN open'[c] = {"client", "server"} /\ open'[c].server = TRUE
        BY <2>3
      <4>2. \A x \in Clients \ {c} : DOMAIN open'[x] = {"client", "server"} /\ open'[x].server \in BOOLEAN
        BY <2>3 DEF IInv, Types
      <4> QED BY <4>1, <4>2, Zenon
    <3>2. current \in Clients \cup {None} /\ ~InQueue(current, backlog')
      BY <2>5, <2>6 DEF IInv, Types
    <3>3. Distinct(backlog)' /\ ~InQueue(current, backlog)'
      BY <1>2, <2>7, <3>2 DEF Distinct, InQueue
    <3>4. IsSession(session)'
      BY <1>2 DEF IInv, Types, IsSession, IsBackend
    <3> QED BY <1>2, <2>2, <2>3, <2>7, <3>1, <3>2, <3>3, <3>4 DEF IInv, Types
  <2>10. ASSUME NEW x \in Clients, Stands(x)' # "none" PROVE open'[x].server
    BY <2>3, <2>8, <2>10 DEF IInv
  <2>11. ASSUME NEW x \in Clients PROVE Connection(x)'
    <3>1. CASE x = c
      BY <2>4, <2>8, <3>1 DEF Connection
    <3>2. CASE x # c
      <4>1. Connection(x)
        BY DEF IInv
      <4>2. client'[x] = client[x] /\ up'[x] = up[x] /\ down'[x] = down[x] /\ applied'[x] = applied[x]
            /\ Stands(x)' = Stands(x) /\ session' = session
        BY <1>2, <2>2, <2>3, <2>8, <3>2
      <4> QED BY <4>1, <4>2 DEF Connection
    <3> QED BY <3>1, <3>2
  <2> QED BY <2>9, <2>10, <2>11 DEF IInv
<1> QED BY <1>1, <1>3, <1>4

\* A step that leaves the stream's ends alone.
LEMMA QuietStep ==
    ASSUME IInv, NEW c \in Clients, UNCHANGED <<open, serverVars>>,
           DOMAIN client' = Clients, DOMAIN up' = Clients, DOMAIN down' = Clients,
           \A x \in Clients \ {c} : client'[x] = client[x] /\ up'[x] = up[x] /\ down'[x] = down[x],
           Conn(client'[c], up'[c], down'[c], applied[c], Stands(c), session.backend.entries)
    PROVE  IInv'
<1>1. OnlyClient(c)
  BY Here DEF OnlyClient, serverVars
<1> QED BY <1>1, ClientStep

\* effect: no number left, sent, or failed with its number used up.
LEMMA EffectStep ==
    ASSUME IInv, NEW c \in Clients, effect(c)
    PROVE  IInv'
<1>1. /\ Conn(client[c], up[c], down[c], applied[c], Stands(c), session.backend.entries)
      /\ Shape(client[c])
      /\ DOMAIN client = Clients /\ DOMAIN up = Clients /\ DOMAIN down = Clients
  BY Here
<1>2. client[c].pc = "ready" /\ UNCHANGED <<down, open, serverVars>>
  BY DEF effect
<1>3. client[c].outcome # "Finished"
  BY <1>1, <1>2 DEF Conn
<1>4. ASSUME NEW y, Shape(y), y.pc = "ready", y.log = client[c].log,
             y.next_seq \in {client[c].next_seq, client[c].next_seq + 1}, y.outcome # "Finished",
             client'[c] = y, DOMAIN client' = Clients,
             \A x \in Clients \ {c} : client'[x] = client[x],
             UNCHANGED up
      PROVE  IInv'
  <2>1. Conn(y, up[c], down[c], applied[c], Stands(c), session.backend.entries)
    BY <1>1, <1>2, <1>4, ConnCallFails
  <2>2. Conn(client'[c], up'[c], down'[c], applied[c], Stands(c), session.backend.entries)
    BY <1>2, <1>4, <2>1
  <2> QED BY <1>1, <1>2, <1>4, <2>2, QuietStep
<1>5. CASE /\ client' = [client EXCEPT ![c].outcome = "SequenceMismatch", ![c].calls = @ + 1]
           /\ UNCHANGED up
  <2>1. /\ DOMAIN client' = Clients /\ Shape(client'[c]) /\ client'[c].pc = "ready"
        /\ client'[c].log = client[c].log /\ client'[c].next_seq = client[c].next_seq
        /\ client'[c].outcome # "Finished"
        /\ \A x \in Clients \ {c} : client'[x] = client[x]
    BY <1>1, <1>2, <1>5 DEF Shape
  <2> QED BY <1>4, <1>5, <2>1, Zenon
<1>6. CASE /\ client' = [[client EXCEPT ![c].next_seq = @ + 1, ![c].calls = @ + 1] EXCEPT ![c].outcome = "Io"]
           /\ UNCHANGED up
  <2>1. /\ DOMAIN client' = Clients /\ Shape(client'[c]) /\ client'[c].pc = "ready"
        /\ client'[c].log = client[c].log /\ client'[c].next_seq = client[c].next_seq + 1
        /\ client'[c].outcome # "Finished"
        /\ \A x \in Clients \ {c} : client'[x] = client[x]
    BY <1>1, <1>2, <1>6 DEF Shape
  <2> QED BY <1>4, <1>6, <2>1, Zenon
<1>7. ASSUME NEW e \in Wants[c],
             client' = [[client EXCEPT ![c].next_seq = @ + 1, ![c].calls = @ + 1]
                          EXCEPT ![c].pc = "waiting", ![c].asked = e],
             up' = [up EXCEPT ![c] = Append(@, Frame(client[c].next_seq, EffectRequest(e)))]
      PROVE  IInv'
  <2>1. /\ DOMAIN client' = Clients /\ Shape(client'[c]) /\ client'[c].pc = "waiting"
        /\ client'[c].log = client[c].log /\ client'[c].next_seq = client[c].next_seq + 1
        /\ client'[c].outcome = client[c].outcome /\ client'[c].asked = e
        /\ \A x \in Clients \ {c} : client'[x] = client[x]
    BY <1>1, <1>2, <1>7 DEF Shape
  <2>2. /\ DOMAIN up' = Clients
        /\ up'[c] = Append(up[c], Frame(client[c].next_seq, EffectRequest(e)))
        /\ \A x \in Clients \ {c} : up'[x] = up[x]
    BY <1>1, <1>7
  <2>3. e \in Effects
    BY EngineAssumption
  <2>4. Conn(client'[c], up'[c], down[c], applied[c], Stands(c), session.backend.entries)
    BY <1>1, <1>2, <2>1, <2>2, <2>3, ConnAsks
  <2>5. Conn(client'[c], up'[c], down'[c], applied[c], Stands(c), session.backend.entries)
    BY <1>2, <2>4
  <2> QED BY <1>1, <1>2, <2>1, <2>2, <2>5, QuietStep, Zenon
<1> QED BY <1>5, <1>6, <1>7 DEF effect

\* finish: sent, or failed on a closed stream.
LEMMA FinishStep ==
    ASSUME IInv, NEW c \in Clients, finish(c)
    PROVE  IInv'
<1>1. /\ Conn(client[c], up[c], down[c], applied[c], Stands(c), session.backend.entries)
      /\ Shape(client[c])
      /\ DOMAIN client = Clients /\ DOMAIN up = Clients /\ DOMAIN down = Clients
  BY Here
<1>2. client[c].pc = "ready" /\ UNCHANGED <<down, serverVars>>
  BY DEF finish
<1>3. CASE Gone(c, "Io") /\ UNCHANGED up
  BY <1>2, <1>3, DropsOut
<1>4. CASE /\ client' = [client EXCEPT ![c].pc = "finishing"]
           /\ up' = [up EXCEPT ![c] = Append(@, Frame(client[c].next_seq, Finish))]
           /\ UNCHANGED open
  <2>1. /\ DOMAIN client' = Clients /\ Shape(client'[c]) /\ client'[c].pc = "finishing"
        /\ client'[c].log = client[c].log /\ client'[c].next_seq = client[c].next_seq
        /\ client'[c].outcome = client[c].outcome
        /\ \A x \in Clients \ {c} : client'[x] = client[x]
    BY <1>1, <1>4 DEF Shape
  <2>2. /\ DOMAIN up' = Clients /\ up'[c] = Append(up[c], Frame(client[c].next_seq, Finish))
        /\ \A x \in Clients \ {c} : up'[x] = up[x]
    BY <1>1, <1>4
  <2>3. Conn(client'[c], up'[c], down[c], applied[c], Stands(c), session.backend.entries)
    BY <1>1, <1>2, <2>1, <2>2, ConnFinishes
  <2>4. Conn(client'[c], up'[c], down'[c], applied[c], Stands(c), session.backend.entries)
    BY <1>2, <2>3
  <2> QED BY <1>1, <1>2, <1>4, <2>1, <2>2, <2>4, QuietStep
<1> QED BY <1>3, <1>4 DEF finish

\* The client reads the reply to its call.
LEMMA ReplyStep ==
    ASSUME IInv, NEW c \in Clients, read_reply(c)
    PROVE  IInv'
<1> DEFINE f == Head(down[c])
<1>1. /\ Conn(client[c], up[c], down[c], applied[c], Stands(c), session.backend.entries)
      /\ Shape(client[c])
      /\ DOMAIN client = Clients /\ DOMAIN up = Clients /\ DOMAIN down = Clients
      /\ DOMAIN open = Clients /\ DOMAIN open[c] = {"client", "server"}
  BY Here
<1>2. down[c] # <<>> /\ down' = [down EXCEPT ![c] = Tail(@)] /\ UNCHANGED <<up, serverVars>>
  BY DEF read_reply
<1>3. Replied(client[c], down[c], applied[c], Stands(c))
  BY <1>1, <1>2 DEF Conn
<1>4. down[c] = <<f>> /\ down[c][1] = f /\ Tail(down[c]) = <<>>
  <2>1. PICK g : down[c] = <<g>>
    BY <1>3 DEF Replied
  <2> QED BY <2>1, Singles
<1>5. /\ DOMAIN down' = Clients /\ down'[c] = <<>> /\ \A x \in Clients \ {c} : down'[x] = down[x]
  BY <1>1, <1>2, <1>4
<1> HIDE DEF f
<1>6. CASE client[c].pc = "hello"
  <2>1. reply_to_hello(c, f.seq, f.msg)
    BY <1>6 DEF read_reply, f
  <2>2. CASE client' = [client EXCEPT ![c].pc = "ready", ![c].next_seq = 1] /\ UNCHANGED open
    <3>1. /\ DOMAIN client' = Clients /\ Shape(client'[c]) /\ client'[c].pc = "ready"
          /\ client'[c].log = client[c].log /\ client'[c].next_seq = 1
          /\ client'[c].outcome = client[c].outcome
          /\ \A x \in Clients \ {c} : client'[x] = client[x]
      BY <1>1, <2>2 DEF Shape
    <3>2. Conn(client'[c], up[c], <<>>, applied[c], Stands(c), session.backend.entries)
      BY <1>1, <1>2, <1>6, <3>1, ConnWelcomed
    <3>3. Conn(client'[c], up'[c], down'[c], applied[c], Stands(c), session.backend.entries)
      BY <1>2, <1>5, <3>2, Zenon
    <3> QED BY <1>1, <1>2, <1>5, <2>2, <3>1, <3>3, QuietStep
  <2>3. ASSUME NEW o, o # "Finished", Gone(c, o) PROVE IInv'
    <3>1. OnlyClient(c)
      BY <1>1, <1>2, <1>5, <2>3, GoneStep DEF OnlyClient, serverVars
    <3>2. /\ Shape(client'[c]) /\ client'[c].pc = "gone" /\ client'[c].outcome = o
          /\ client'[c].log = client[c].log /\ client'[c].next_seq = client[c].next_seq
      BY <2>3, GoneStep
    <3>3. Conn(client'[c], up[c], down[c], applied[c], Stands(c), session.backend.entries)
      BY <1>1, <2>3, <3>2, ConnGone, Zenon
    <3>4. Conn(client'[c], up[c], <<>>, applied[c], Stands(c), session.backend.entries)
      BY <3>2, <3>3, ConnGoneReads
    <3>5. Conn(client'[c], up'[c], down'[c], applied[c], Stands(c), session.backend.entries)
      BY <1>2, <1>5, <3>4, Zenon
    <3> QED BY <3>1, <3>5, ClientStep
  <2>4. f.msg.kind = "Reject" => f.msg.reason # "Finished"
    BY <1>3, <1>4 DEF Replied
  <2> QED BY <2>1, <2>2, <2>3, <2>4 DEF reply_to_hello
<1>7. CASE client[c].pc = "waiting"
  <2>1. reply_to_effect(c, f.seq, f.msg)
    BY <1>7 DEF read_reply, f
  <2>2. CASE f.seq # client[c].next_seq - 1
    <3>1. client' = [client EXCEPT ![c].pc = "ready", ![c].outcome = "SequenceMismatch"] /\ open' = open
      BY <2>1, <2>2 DEF reply_to_effect
    <3>2. /\ DOMAIN client' = Clients /\ Shape(client'[c]) /\ client'[c].pc = "ready"
          /\ client'[c].log = client[c].log /\ client'[c].next_seq = client[c].next_seq
          /\ client'[c].outcome # "Finished"
          /\ \A x \in Clients \ {c} : client'[x] = client[x]
      BY <1>1, <3>1 DEF Shape
    <3>3. Stands(c) = "none"
      BY <1>3, <1>4, <1>7, <2>2 DEF Replied
    <3>4. Conn(client'[c], up[c], <<>>, applied[c], "none", session.backend.entries)
      <4>1. Conn(client[c], up[c], down[c], applied[c], "none", session.backend.entries)
        BY <1>1, <3>3
      <4> QED BY <1>7, <3>2, <4>1, ConnCutOff
    <3>5. Conn(client'[c], up'[c], down'[c], applied[c], Stands(c), session.backend.entries)
      BY <1>2, <1>5, <3>3, <3>4, Zenon
    <3> QED BY <1>1, <1>2, <1>5, <3>1, <3>2, <3>5, QuietStep
  <2>3. CASE f.seq = client[c].next_seq - 1
    <3>1. f.msg.kind = "EffectResponse"
      BY <1>3, <1>4, <1>7, <2>3 DEF Replied
    <3>2. /\ client' = [client EXCEPT ![c].pc = "ready", ![c].log = Append(@, <<client[c].asked, f.msg.result>>)]
          /\ open' = open
      BY <2>1, <2>3, <3>1 DEF reply_to_effect
    <3>3. /\ DOMAIN client' = Clients /\ Shape(client'[c]) /\ client'[c].pc = "ready"
          /\ client'[c].log = Append(client[c].log, <<client[c].asked, f.msg.result>>)
          /\ client'[c].next_seq = client[c].next_seq /\ client'[c].outcome = client[c].outcome
          /\ \A x \in Clients \ {c} : client'[x] = client[x]
      BY <1>1, <3>2 DEF Shape
    <3>4. Conn(client'[c], up[c], <<>>, applied[c], Stands(c), session.backend.entries)
      <4>1. down[c][1].seq = client[c].next_seq - 1 /\ client'[c].log = applied[c]
        BY <1>3, <1>4, <1>7, <2>3, <3>3 DEF Replied
      <4> QED BY <1>1, <1>2, <1>7, <3>3, <4>1, ConnAnswered
    <3>5. Conn(client'[c], up'[c], down'[c], applied[c], Stands(c), session.backend.entries)
      BY <1>2, <1>5, <3>4, Zenon
    <3> QED BY <1>1, <1>2, <1>5, <3>2, <3>3, <3>5, QuietStep
  <2> QED BY <2>2, <2>3
<1>8. CASE client[c].pc = "finishing"
  <2>1. reply_to_finish(c, f.seq, f.msg)
    BY <1>8 DEF read_reply, f
  <2>2. /\ DOMAIN client' = Clients /\ Shape(client'[c]) /\ client'[c].pc = "gone"
        /\ client'[c].log = client[c].log /\ client'[c].next_seq = client[c].next_seq
        /\ client'[c].outcome = "Finished" =>
              f.msg.kind = "Goodbye" /\ client'[c].entries = f.msg.entries
        /\ \A x \in Clients \ {c} : client'[x] = client[x]
    BY <1>1, <2>1 DEF reply_to_finish, Shape
  <2>3. /\ DOMAIN open' = Clients
        /\ DOMAIN open'[c] = {"client", "server"} /\ open'[c].server = open[c].server
        /\ \A x \in Clients \ {c} : open'[x] = open[x]
    BY <1>1, <2>1 DEF reply_to_finish
  <2>4. OnlyClient(c)
    BY <1>1, <1>2, <1>5, <2>2, <2>3 DEF OnlyClient, serverVars
  <2>5. Conn(client'[c], up[c], <<>>, applied[c], Stands(c), session.backend.entries)
    BY <1>1, <1>2, <1>4, <1>8, <2>2, ConnFinished
  <2>6. Conn(client'[c], up'[c], down'[c], applied[c], Stands(c), session.backend.entries)
    BY <1>2, <1>5, <2>5, Zenon
  <2> QED BY <2>4, <2>6, ClientStep
<1> QED BY <1>6, <1>7, <1>8 DEF read_reply, Blocked

\* The client finds the stream closed.
LEMMA EofStep ==
    ASSUME IInv, NEW c \in Clients, read_eof(c)
    PROVE  IInv'
<1>1. /\ Conn(client[c], up[c], down[c], applied[c], Stands(c), session.backend.entries)
      /\ Shape(client[c])
      /\ DOMAIN client = Clients /\ DOMAIN up = Clients /\ DOMAIN down = Clients
  BY Here
<1>2. down[c] = <<>> /\ ~open[c].server /\ UNCHANGED <<up, down, serverVars>>
  BY DEF read_eof
<1>3. CASE Gone(c, "Io")
  BY <1>2, <1>3, DropsOut
<1>4. CASE /\ client[c].pc = "waiting"
           /\ client' = [client EXCEPT ![c].pc = "ready", ![c].outcome = "Io"] /\ UNCHANGED open
  <2>1. /\ DOMAIN client' = Clients /\ Shape(client'[c]) /\ client'[c].pc = "ready"
        /\ client'[c].log = client[c].log /\ client'[c].next_seq = client[c].next_seq
        /\ client'[c].outcome # "Finished"
        /\ \A x \in Clients \ {c} : client'[x] = client[x]
    BY <1>1, <1>4 DEF Shape
  <2>2. Stands(c) = "none"
    BY <1>2 DEF IInv
  <2>3. Conn(client'[c], up[c], <<>>, applied[c], "none", session.backend.entries)
    <3>1. Conn(client[c], up[c], down[c], applied[c], "none", session.backend.entries)
      BY <1>1, <2>2
    <3> QED BY <1>4, <2>1, <3>1, ConnCutOff, Zenon
  <2>4. Conn(client'[c], up'[c], down'[c], applied[c], Stands(c), session.backend.entries)
    BY <1>2, <2>2, <2>3
  <2> QED BY <1>1, <1>2, <1>4, <2>1, <2>4, QuietStep
<1> QED BY <1>3, <1>4 DEF read_eof

-----------------------------------------------------------------------------
(* The steps of the server.                                                 *)

\* What is left of the backlog once its head is taken.
LEMMA TakeHead ==
    ASSUME NEW queue \in Seq(Clients), queue # <<>>, Distinct(queue)
    PROVE  /\ Head(queue) \in Clients /\ Tail(queue) \in Seq(Clients) /\ Distinct(Tail(queue))
           /\ InQueue(Head(queue), queue) /\ ~InQueue(Head(queue), Tail(queue))
           /\ \A x : x # Head(queue) => (InQueue(x, Tail(queue)) <=> InQueue(x, queue))
<1>1. /\ Len(queue) \in Nat /\ Len(queue) >= 1 /\ Head(queue) = queue[1] /\ Head(queue) \in Clients
      /\ Tail(queue) \in Seq(Clients) /\ Len(Tail(queue)) = Len(queue) - 1
      /\ \A i \in 1..Len(Tail(queue)) : Tail(queue)[i] = queue[i + 1]
  OBVIOUS
<1>2. Distinct(Tail(queue))
  BY <1>1 DEF Distinct
<1>3. InQueue(Head(queue), queue)
  BY <1>1 DEF InQueue
<1>4. ~InQueue(Head(queue), Tail(queue))
  BY <1>1 DEF InQueue, Distinct
<1>5. ASSUME NEW x, x # Head(queue), InQueue(x, queue) PROVE InQueue(x, Tail(queue))
  <2>1. PICK i \in 1..Len(queue) : queue[i] = x
    BY <1>5 DEF InQueue
  <2>2. i # 1 /\ i - 1 \in 1..Len(Tail(queue)) /\ (i - 1) + 1 = i
    BY <1>1, <1>5, <2>1
  <2> QED BY <1>1, <2>1, <2>2 DEF InQueue
<1>6. ASSUME NEW x, InQueue(x, Tail(queue)) PROVE InQueue(x, queue)
  <2>1. PICK i \in 1..Len(Tail(queue)) : Tail(queue)[i] = x
    BY <1>6 DEF InQueue
  <2>2. i + 1 \in 1..Len(queue)
    BY <1>1
  <2> QED BY <1>1, <2>1, <2>2 DEF InQueue
<1> QED BY <1>1, <1>2, <1>3, <1>4, <1>5, <1>6

\* accept: the oldest connection is served next, or shut down.
LEMMA AcceptStep ==
    ASSUME IInv, accept
    PROVE  IInv'
<1>c. PICK c : c = Head(backlog)
  OBVIOUS
<1>0. None \notin Clients
  BY EngineAssumption
<1>1. /\ current = None /\ backlog # <<>> /\ backlog' = Tail(backlog)
      /\ UNCHANGED <<client, up, down, applied, listening>>
  BY DEF accept
<1>2. /\ backlog \in Seq(Clients) /\ Distinct(backlog) /\ DOMAIN open = Clients
      /\ \A x \in Clients : DOMAIN open[x] = {"client", "server"} /\ open[x].server \in BOOLEAN
  BY DEF IInv, Types
<1>3. /\ c \in Clients /\ Tail(backlog) \in Seq(Clients) /\ Distinct(Tail(backlog))
      /\ InQueue(c, backlog) /\ ~InQueue(c, Tail(backlog))
      /\ \A x : x # c => (InQueue(x, Tail(backlog)) <=> InQueue(x, backlog))
  BY <1>1, <1>2, <1>c, TakeHead
<1>4. \/ current' = c /\ session' = NewSession /\ open' = open
      \/ current' = None /\ session' = session /\ open' = [open EXCEPT ![c].server = FALSE]
  BY <1>1, <1>c DEF accept
<1>5. current # c /\ Stands(c) = "queued"
  BY <1>0, <1>1, <1>3 DEF Stands, Standing
<1>6. IsSession(session)' /\ (current' = c => session'.phase = "hello" /\ session'.backend.entries = 0)
  <2>1. CASE session' = NewSession /\ current' = c
    <3>1. IsBackend(Backend) /\ Backend.entries = 0
      BY DEF Backend, IsBackend
    <3>2. IsSession(NewSession) /\ NewSession.phase = "hello" /\ NewSession.backend = Backend
      BY <3>1 DEF NewSession, IsSession
    <3> QED BY <2>1, <3>1, <3>2 DEF IsSession, IsBackend
  <2>2. CASE session' = session /\ current' = None
    BY <1>0, <1>3, <2>2 DEF IInv, Types, IsSession, IsBackend
  <2> QED BY <1>4, <2>1, <2>2
<1>7. /\ DOMAIN open' = Clients
      /\ \A x \in Clients : DOMAIN open'[x] = {"client", "server"} /\ open'[x].server \in BOOLEAN
      /\ \A x \in Clients \ {c} : open'[x] = open[x]
      /\ current' = c => open' = open
  <2>1. CASE open' = open
    BY <1>2, <2>1
  <2>2. CASE current' = None /\ open' = [open EXCEPT ![c].server = FALSE]
    <3>1. \A x \in Clients : open'[x] = IF x = c THEN [open[x] EXCEPT !.server = FALSE] ELSE open[x]
      BY <1>2, <2>2, Zenon
    <3>2. DOMAIN open' = Clients
      BY <1>2, <2>2
    <3> QED BY <1>0, <1>2, <1>3, <2>2, <3>1, <3>2, Zenon
  <2> QED BY <1>4, <2>1, <2>2
<1>8. Types'
  <2>1. ~InQueue(None, Tail(backlog))
    BY <1>0, <1>3 DEF InQueue
  <2>2. current' \in Clients \cup {None} /\ ~InQueue(current', backlog')
    BY <1>1, <1>3, <1>4, <2>1
  <2>3. backlog' \in Seq(Clients) /\ Distinct(backlog')
    BY <1>1, <1>3
  <2>4. Distinct(backlog)' /\ ~InQueue(current, backlog)'
    BY <2>2, <2>3 DEF Distinct, InQueue
  <2> QED BY <1>1, <1>6, <1>7, <2>2, <2>3, <2>4 DEF IInv, Types
<1>9. Stands(c)' = IF current' = c THEN "hello" ELSE "none"
  BY <1>1, <1>3, <1>6 DEF Stands, Standing
<1>10. ASSUME NEW x \in Clients, x # c
       PROVE  Stands(x)' = Stands(x) /\ Stands(x) \in {"queued", "none"}
  BY <1>0, <1>1, <1>3, <1>4, <1>10 DEF Stands, Standing
<1>11. ASSUME NEW x \in Clients, Stands(x)' # "none" PROVE open'[x].server
  <2>1. CASE x = c
    BY <1>5, <1>7, <1>9, <1>11, <2>1 DEF IInv
  <2>2. CASE x # c
    BY <1>7, <1>10, <1>11, <2>2 DEF IInv
  <2> QED BY <2>1, <2>2
<1>12. ASSUME NEW x \in Clients PROVE Connection(x)'
  <2>1. Conn(client[x], up[x], down[x], applied[x], Stands(x), session.backend.entries)
    BY Here
  <2>2. CASE x = c
    <3>1. Conn(client[x], up[x], down[x], applied[x], "queued", session.backend.entries)
      BY <1>5, <2>1, <2>2
    <3>2. Conn(client[x], up[x], down[x], applied[x], "hello", 0)
      BY <3>1, ConnAccepted
    <3>3. Conn(client[x], up[x], down[x], applied[x], "none", session'.backend.entries)
      BY <3>1, ConnClosed
    <3>4. Conn(client[x], up[x], down[x], applied[x], Stands(x)', session'.backend.entries)
      BY <1>6, <1>9, <2>2, <3>2, <3>3
    <3> QED BY <1>1, <3>4 DEF Connection
  <2>3. CASE x # c
    <3>1. Conn(client[x], up[x], down[x], applied[x], Stands(x), session'.backend.entries)
      BY <1>10, <2>1, <2>3, ConnElsewhere
    <3> QED BY <1>1, <1>10, <2>3, <3>1 DEF Connection
  <2> QED BY <2>2, <2>3
<1> QED BY <1>8, <1>11, <1>12 DEF IInv

\* accept fails: every connection is let go of.
LEMMA AcceptErrorStep ==
    ASSUME IInv, accept_error
    PROVE  IInv'
<1>1. /\ current = None /\ backlog' = <<>> /\ open' = [c \in Clients |-> [open[c] EXCEPT !.server = FALSE]]
      /\ UNCHANGED <<client, up, down, current, session, applied>>
  BY DEF accept_error
<1>2. None \notin Clients
  BY EngineAssumption
<1>3. \A x : ~InQueue(x, backlog')
  BY <1>1 DEF InQueue
<1>4. \A x \in Clients : Stands(x)' = "none"
  BY <1>1, <1>2, <1>3 DEF Stands, Standing
<1>5. Types'
  <2>1. \A x \in Clients : DOMAIN open'[x] = {"client", "server"} /\ open'[x].server \in BOOLEAN
    BY <1>1, Zenon DEF IInv, Types
  <2>2. Distinct(backlog)' /\ ~InQueue(current, backlog)' /\ IsSession(session)'
    BY <1>1 DEF IInv, Types, Distinct, InQueue, IsSession, IsBackend
  <2> QED BY <1>1, <2>1, <2>2 DEF IInv, Types
<1>6. ASSUME NEW x \in Clients PROVE Connection(x)'
  <2>1. Conn(client[x], up[x], down[x], applied[x], Stands(x), session.backend.entries)
    BY Here
  <2>2. Conn(client[x], up[x], down[x], applied[x], "none", session.backend.entries)
    BY <2>1, ConnClosed
  <2> QED BY <1>1, <1>4, <2>2 DEF Connection
<1> QED BY <1>4, <1>5, <1>6 DEF IInv

\* What the invariant says of the connection being served.
LEMMA Served ==
    ASSUME IInv, current # None
    PROVE  /\ current \in Clients /\ IsSession(session)
           /\ Conn(client[current], up[current], down[current], applied[current], session.phase,
                   session.backend.entries)
           /\ DOMAIN up = Clients /\ DOMAIN down = Clients /\ DOMAIN applied = Clients
<1>1. current \in Clients /\ IsSession(session)
  BY DEF IInv, Types
<1>2. Stands(current) = session.phase
  BY DEF Stands, Standing
<1>3. DOMAIN up = Clients /\ DOMAIN down = Clients /\ DOMAIN applied = Clients
  BY DEF IInv, Types
<1>4. Conn(client[current], up[current], down[current], applied[current], Stands(current), session.backend.entries)
  BY <1>1, Here
<1> QED BY <1>1, <1>2, <1>3, <1>4

\* Reading the one frame that waits.
LEMMA ReadsOne ==
    ASSUME IInv, current # None, up[current] # <<>>, NEW f, Reads(f)
    PROVE  /\ f = up[current][1] /\ up'[current] = <<>> /\ DOMAIN up' = Clients
           /\ \A x \in Clients \ {current} : up'[x] = up[x]
<1>1. /\ current \in Clients /\ DOMAIN up = Clients /\ session.phase \in {"hello", "serve"}
      /\ Conn(client[current], up[current], down[current], applied[current], session.phase,
              session.backend.entries)
  BY Served DEF IsSession
<1>2. up[current] = <<up[current][1]>>
  BY <1>1, Zenon DEF Conn, Requested
<1>3. Head(up[current]) = up[current][1] /\ Tail(up[current]) = <<>>
  <2>1. PICK g : up[current] = <<g>>
    BY <1>2
  <2> QED BY <2>1, Singles
<1>4. f = Head(up[current]) /\ up' = [up EXCEPT ![current] = Tail(up[current])]
  BY DEF Reads
<1> QED BY <1>1, <1>3, <1>4

\* Sending one frame touches no other connection.
LEMMA AnswerOne ==
    ASSUME IInv, current # None, NEW f, Answer(f)
    PROVE  /\ down'[current] = Append(down[current], f) /\ DOMAIN down' = Clients
           /\ \A x \in Clients \ {current} : down'[x] = down[x]
<1>1. current \in Clients /\ DOMAIN down = Clients
  BY Served
<1> QED BY <1>1 DEF Answer

\* The handshake: Welcome, or Reject and the end of the session.
LEMMA HelloStep ==
    ASSUME IInv, serve_hello
    PROVE  IInv'
<1>1. PICK f : /\ Reads(f)
               /\ IF f.msg.dial.identity
                  THEN /\ session' = [session EXCEPT !.phase = "serve", !.next_seq = 1]
                       /\ Answer(Frame(f.seq, Welcome(f.msg.dial.actor)))
                       /\ UNCHANGED <<current, open>>
                  ELSE reject("Identity") /\ UNCHANGED session
  BY DEF serve_hello
<1>2. session.phase = "hello" /\ UNCHANGED <<client, backlog, listening, applied>>
  BY DEF serve_hello, clientVars
<1>3. current # None /\ up[current] # <<>>
  BY <1>1 DEF Reads
<1>4. /\ current \in Clients /\ IsSession(session) /\ DOMAIN applied = Clients
      /\ Conn(client[current], up[current], down[current], applied[current], "hello", session.backend.entries)
  BY <1>2, <1>3, Served
<1>5. /\ up'[current] = <<>> /\ DOMAIN up' = Clients
      /\ \A x \in Clients \ {current} : up'[x] = up[x]
  BY <1>1, <1>3, ReadsOne
<1>6. CASE /\ session' = [session EXCEPT !.phase = "serve", !.next_seq = 1]
           /\ Answer(Frame(f.seq, Welcome(f.msg.dial.actor)))
           /\ UNCHANGED <<current, open>>
  <2> DEFINE g == Frame(f.seq, Welcome(f.msg.dial.actor))
  <2>1. g.msg.kind # "Reject"
    BY DEF Frame, Welcome
  <2> HIDE DEF g
  <2>2. /\ down'[current] = Append(down[current], g) /\ DOMAIN down' = Clients
        /\ \A x \in Clients \ {current} : down'[x] = down[x]
    BY <1>3, <1>6, AnswerOne DEF g
  <2>3. IsSession(session') /\ session'.phase = "serve" /\ session'.backend = session.backend
    BY <1>4, <1>6 DEF IsSession
  <2>4. OnlyServed
    BY <1>2, <1>4, <1>5, <1>6, <2>2, <2>3 DEF OnlyServed
  <2>5. Conn(client[current], <<>>, Append(down[current], g), applied[current], "serve", session.backend.entries)
    BY <1>4, <2>1, ConnGreeted
  <2>6. Conn(client[current], up'[current], down'[current], applied'[current],
             IF current' = current THEN session'.phase ELSE "none", session'.backend.entries)
    BY <1>2, <1>5, <1>6, <2>2, <2>3, <2>5
  <2> QED BY <1>4, <2>4, <2>6, ServerStep
<1>7. CASE reject("Identity") /\ UNCHANGED session
  <2> DEFINE g == Frame(0, Reject("Identity"))
  <2>1. g.msg.reason # "Finished"
    BY DEF Frame, Reject
  <2> HIDE DEF g
  <2>2. Answer(g) /\ current' = None /\ open' = [open EXCEPT ![current].server = FALSE]
    BY <1>7 DEF reject, EndSession, g
  <2>3. /\ down'[current] = Append(down[current], g) /\ DOMAIN down' = Clients
        /\ \A x \in Clients \ {current} : down'[x] = down[x]
    BY <1>3, <2>2, AnswerOne
  <2>4. OnlyServed
    BY <1>2, <1>3, <1>4, <1>5, <1>7, <2>2, <2>3 DEF OnlyServed
  <2>5. Conn(client[current], <<>>, Append(down[current], g), applied[current], "none", session.backend.entries)
    BY <1>4, <2>1, ConnGreeted
  <2>6. Conn(client[current], up'[current], down'[current], applied'[current],
             IF current' = current THEN session'.phase ELSE "none", session'.backend.entries)
    BY <1>2, <1>3, <1>5, <1>7, <2>2, <2>3, <2>5
  <2> QED BY <1>4, <2>4, <2>6, ServerStep
<1> QED BY <1>1, <1>6, <1>7

\* An effect in step: its entries and its place in the history come together.
LEMMA EffectServed ==
    ASSUME IInv, serve_effect
    PROVE  IInv'
<1>f. PICK f : f = Head(up[current])
  OBVIOUS
<1>e. PICK e : e = f.msg.effect
  OBVIOUS
<1>d. PICK done : done = apply(session.backend, e, session.send_sequence)
  OBVIOUS
<1>1. /\ current # None /\ session.phase = "serve" /\ up[current] # <<>>
      /\ Reads(f) /\ f.msg.kind = "EffectRequest"
      /\ session' = [session EXCEPT !.next_seq = @ + 1, !.backend = done.backend,
                                    !.send_sequence = @ + (IF e.op = "Send" THEN 1 ELSE 0)]
      /\ IF done.result = None THEN UNCHANGED applied
         ELSE applied' = [applied EXCEPT ![current] = Append(@, <<e, done.result>>)]
      /\ IF Answerable(e, done.result)
         THEN Answer(Frame(f.seq, EffectResponse(done.result))) /\ UNCHANGED <<current, open>>
         ELSE EndSession /\ UNCHANGED down
  BY <1>f, <1>e, <1>d DEF serve_effect
<1>2. UNCHANGED <<client, backlog, listening>>
  BY DEF serve_effect, clientVars
<1>3. /\ current \in Clients /\ IsSession(session) /\ DOMAIN applied = Clients /\ DOMAIN down = Clients
      /\ Conn(client[current], up[current], down[current], applied[current], "serve", session.backend.entries)
  BY <1>1, Served
<1>4. /\ f = up[current][1] /\ up'[current] = <<>> /\ DOMAIN up' = Clients
      /\ \A x \in Clients \ {current} : up'[x] = up[x]
  BY <1>1, ReadsOne
<1>5. e \in Effects
  BY <1>1, <1>3, <1>4, <1>e DEF Conn, Requested
<1>6. /\ IsBackend(done.backend)
      /\ done.result # None => /\ <<e, done.result>> \in Pairs
                               /\ done.backend.entries = session.backend.entries + Weight(<<e, done.result>>)
  BY <1>3, <1>5, <1>d, ApplyWeighs DEF IsSession
<1>7. IsSession(session') /\ session'.phase = "serve" /\ session'.backend = done.backend
  BY <1>1, <1>3, <1>6 DEF IsSession
<1>8. CASE done.result = None
  <2>1. current' = None /\ open' = [open EXCEPT ![current].server = FALSE] /\ down' = down /\ applied' = applied
    BY <1>1, <1>8 DEF Answerable, EndSession
  <2>2. OnlyServed
    BY <1>1, <1>2, <1>3, <1>4, <1>7, <2>1 DEF OnlyServed
  <2>3. Conn(client[current], <<>>, down[current], applied[current], "none", done.backend.entries)
    BY <1>3, ConnClosed
  <2>4. Conn(client[current], up'[current], down'[current], applied'[current],
             IF current' = current THEN session'.phase ELSE "none", session'.backend.entries)
    BY <1>1, <1>4, <1>7, <2>1, <2>3
  <2> QED BY <1>3, <2>2, <2>4, ServerStep
<1>9. CASE done.result # None
  <2>p. PICK p : p = <<e, done.result>>
    BY Zenon
  <2>1. /\ DOMAIN applied' = Clients /\ applied'[current] = Append(applied[current], p)
        /\ \A x \in Clients \ {current} : applied'[x] = applied[x]
    BY <1>1, <1>3, <1>9, <2>p
  <2>2. /\ Conn(client[current], <<>>, Append(down[current], Frame(f.seq, EffectResponse(done.result))),
                Append(applied[current], p), "serve", session.backend.entries + Weight(p))
        /\ \A m : Conn(client[current], <<>>, down[current], Append(applied[current], p), "none", m)
    BY <1>1, <1>3, <1>4, <1>6, <1>9, <1>e, <2>p, ConnApplied
  <2>3. session'.backend.entries = session.backend.entries + Weight(p)
    BY <1>6, <1>7, <1>9, <2>p
  <2>4. CASE Answer(Frame(f.seq, EffectResponse(done.result))) /\ UNCHANGED <<current, open>>
    <3>1. /\ down'[current] = Append(down[current], Frame(f.seq, EffectResponse(done.result)))
          /\ DOMAIN down' = Clients /\ \A x \in Clients \ {current} : down'[x] = down[x]
      BY <1>1, <2>4, AnswerOne
    <3>2. OnlyServed
      BY <1>2, <1>3, <1>4, <1>7, <2>1, <2>4, <3>1 DEF OnlyServed
    <3>3. Conn(client[current], up'[current], down'[current], applied'[current],
               IF current' = current THEN session'.phase ELSE "none", session'.backend.entries)
      BY <1>4, <1>7, <2>1, <2>2, <2>3, <2>4, <3>1
    <3> QED BY <1>3, <3>2, <3>3, ServerStep
  <2>5. CASE EndSession /\ UNCHANGED down
    <3>1. current' = None /\ open' = [open EXCEPT ![current].server = FALSE] /\ down' = down
      BY <2>5 DEF EndSession
    <3>2. OnlyServed
      BY <1>1, <1>2, <1>3, <1>4, <1>7, <2>1, <3>1 DEF OnlyServed
    <3>3. Conn(client[current], up'[current], down'[current], applied'[current],
               IF current' = current THEN session'.phase ELSE "none", session'.backend.entries)
      BY <1>1, <1>4, <2>1, <2>2, <3>1
    <3> QED BY <1>3, <3>2, <3>3, ServerStep
  <2> QED BY <1>1, <2>4, <2>5
<1> QED BY <1>8, <1>9

\* The session ends with a last frame to the client.
LEMMA Dismissed ==
    ASSUME IInv, current # None, session.phase = "serve", up[current] # <<>>,
           NEW f, Reads(f), NEW g, Answer(g), EndSession,
           UNCHANGED <<client, backlog, session, applied>>,
           \/ g = Frame(0, Reject("Protocol"))
           \/ f.msg.kind = "Finish" /\ g = Frame(f.seq, Goodbye(session.backend.entries))
    PROVE  IInv'
<1>1. /\ current \in Clients /\ IsSession(session) /\ DOMAIN applied = Clients
      /\ Conn(client[current], up[current], down[current], applied[current], "serve", session.backend.entries)
  BY Served
<1>2. /\ f = up[current][1] /\ up'[current] = <<>> /\ DOMAIN up' = Clients
      /\ \A x \in Clients \ {current} : up'[x] = up[x]
  BY ReadsOne
<1>3. /\ down'[current] = Append(down[current], g) /\ DOMAIN down' = Clients
      /\ \A x \in Clients \ {current} : down'[x] = down[x]
  BY AnswerOne
<1>4. current' = None /\ open' = [open EXCEPT ![current].server = FALSE]
  BY DEF EndSession
<1>5. OnlyServed
  BY <1>1, <1>2, <1>3, <1>4 DEF OnlyServed
<1>6. Conn(client[current], <<>>, Append(down[current], g), applied[current], "none", session.backend.entries)
  BY <1>1, <1>2, ConnDismissed
<1>7. Conn(client[current], up'[current], down'[current], applied'[current],
           IF current' = current THEN session'.phase ELSE "none", session'.backend.entries)
  BY <1>2, <1>3, <1>4, <1>6
<1> QED BY <1>1, <1>5, <1>7, ServerStep

\* Finish in step is answered with the count of the journal.
LEMMA FinishServed ==
    ASSUME IInv, serve_finish
    PROVE  IInv'
<1>f. PICK f : f = Head(up[current])
  OBVIOUS
<1>1. /\ current # None /\ session.phase = "serve" /\ up[current] # <<>>
      /\ Reads(f) /\ f.msg.kind = "Finish"
      /\ Answer(Frame(f.seq, Goodbye(session.backend.entries))) /\ EndSession
      /\ UNCHANGED <<client, backlog, session, applied>>
  BY <1>f DEF serve_finish, clientVars
<1> QED BY <1>1, Dismissed

\* A frame out of step is refused under number 0, which no waiting call takes.
LEMMA GapServed ==
    ASSUME IInv, serve_gap
    PROVE  IInv'
<1>f. PICK f : f = Head(up[current])
  OBVIOUS
<1>1. /\ current # None /\ session.phase = "serve" /\ up[current] # <<>>
      /\ Reads(f) /\ Answer(Frame(0, Reject("Protocol"))) /\ EndSession
      /\ UNCHANGED <<client, backlog, session, applied>>
  BY <1>f DEF serve_gap, reject, clientVars
<1> QED BY <1>1, Dismissed

\* The session ends with no word to the client.
LEMMA HungUp ==
    ASSUME IInv, current # None, EndSession, UNCHANGED <<client, backlog, down, session, applied>>,
           DOMAIN up' = Clients, \A x \in Clients \ {current} : up'[x] = up[x]
    PROVE  IInv'
<1>1. /\ current \in Clients /\ IsSession(session) /\ DOMAIN applied = Clients /\ DOMAIN down = Clients
      /\ Conn(client[current], up[current], down[current], applied[current], session.phase,
              session.backend.entries)
  BY Served
<1>2. current' = None /\ open' = [open EXCEPT ![current].server = FALSE]
  BY DEF EndSession
<1>3. OnlyServed
  BY <1>1, <1>2 DEF OnlyServed
<1>4. Conn(client[current], up'[current], down[current], applied[current], "none", session.backend.entries)
  BY <1>1, ConnClosed
<1>5. Conn(client[current], up'[current], down'[current], applied'[current],
           IF current' = current THEN session'.phase ELSE "none", session'.backend.entries)
  BY <1>2, <1>4
<1> QED BY <1>1, <1>3, <1>5, ServerStep

\* A frame that does not decode, or the last number.
LEMMA FatalServed ==
    ASSUME IInv, serve_fatal
    PROVE  IInv'
<1>1. PICK f : /\ Reads(f) /\ current # None /\ up[current] # <<>> /\ EndSession
               /\ UNCHANGED <<client, backlog, down, session, applied>>
  BY DEF serve_fatal, clientVars
<1>2. DOMAIN up' = Clients /\ \A x \in Clients \ {current} : up'[x] = up[x]
  BY <1>1, ReadsOne
<1> QED BY <1>1, <1>2, HungUp

\* The client is gone or silent.
LEMMA ReadErrorServed ==
    ASSUME IInv, serve_read_error
    PROVE  IInv'
<1>1. /\ current # None /\ EndSession
      /\ UNCHANGED <<client, backlog, up, down, session, applied>>
  BY DEF serve_read_error, clientVars
<1>2. DOMAIN up' = Clients /\ \A x \in Clients \ {current} : up'[x] = up[x]
  BY <1>1, Served
<1> QED BY <1>1, <1>2, HungUp

-----------------------------------------------------------------------------
\* No connection yet.
LEMMA Initially ==
    ASSUME EngineInit
    PROVE  IInv
<1>0. None \notin Clients /\ None # "Finished"
  BY EngineAssumption
<1>1. IsSession(session)
  <2>1. IsBackend(Backend)
    BY DEF Backend, IsBackend
  <2> QED BY <2>1 DEF EngineInit, NewSession, IsSession
<1>2. \A x : ~InQueue(x, backlog)
  BY DEF EngineInit, InQueue
<1>3. \A c \in Clients : Stands(c) = "none"
  BY <1>0, <1>2 DEF EngineInit, Stands, Standing
<1>4. Types
  <2>1. \A c \in Clients : DOMAIN open[c] = {"client", "server"} /\ open[c].server \in BOOLEAN
    BY Zenon DEF EngineInit
  <2>2. backlog \in Seq(Clients) /\ Distinct(backlog)
    BY DEF EngineInit, Distinct
  <2> QED BY <1>1, <1>2, <2>1, <2>2 DEF EngineInit, Types
<1>5. ASSUME NEW c \in Clients PROVE Connection(c)
  <2>1. /\ client[c] = NewClient /\ down[c] = <<>> /\ applied[c] = <<>> /\ Stands(c) = "none"
    BY <1>3 DEF EngineInit
  <2>2. /\ Shape(NewClient) /\ NewClient.pc = "idle" /\ NewClient.next_seq = 0
        /\ NewClient.log = <<>> /\ NewClient.outcome = None
    BY DEF NewClient, Shape
  <2>4. Conn(NewClient, up[c], <<>>, <<>>, "none", session.backend.entries)
    BY <1>0, <2>2, ConnNew
  <2> QED BY <2>1, <2>4 DEF Connection
<1> QED BY <1>3, <1>4, <1>5 DEF IInv

\* Nothing changes.
LEMMA Stutters ==
    ASSUME IInv, UNCHANGED engineVars
    PROVE  IInv'
<1>1. Types'
  BY DEF engineVars, IInv, Types, Distinct, InQueue, IsSession, IsBackend
<1>2. \A c \in Clients : Stands(c)' = Stands(c)
  BY DEF engineVars, Stands, Standing, InQueue
<1>3. \A c \in Clients : Connection(c)'
  BY <1>2 DEF IInv, engineVars, Connection
<1> QED BY <1>1, <1>2, <1>3 DEF IInv, engineVars

\* Every step of the clients and of the server keeps the invariant.
LEMMA Inductive ==
    ASSUME IInv, [EngineNext]_engineVars
    PROVE  IInv'
<1>1. CASE UNCHANGED engineVars
  BY <1>1, Stutters
<1>2. CASE Server
  BY <1>2, AcceptStep, HelloStep, EffectServed, FinishServed, GapServed, FatalServed, ReadErrorServed
     DEF Server
<1>3. CASE accept_error
  BY <1>3, AcceptErrorStep
<1>4. ASSUME NEW c \in Clients, Client(c) \/ read_reply(c) \/ read_eof(c) PROVE IInv'
  <2>1. CASE connect_refused(c)
    BY <2>1, DropsOut DEF connect_refused
  <2>2. CASE drop(c)
    BY <2>2, DropsOut DEF drop
  <2> QED BY <1>4, <2>1, <2>2, ConnectStep, EffectStep, FinishStep, ReplyStep, EofStep DEF Client
<1> QED BY <1>1, <1>2, <1>3, <1>4 DEF EngineNext

\* Whatever calls fail, sessions drop, connections wait their turn or time
\* out, each client's results are those of the first effects applied to its
\* own backend, with at most the last one unknown to it; and a Goodbye counts
\* exactly the journal entries of the history that both sides share.  Holds for
\* any number of clients, calls and effects (shim.rs, effect and finish;
\* rt-server lib.rs, Session::serve; backend_sim.rs).
THEOREM HistoriesAgreeAlways == EngineSpec => []HistoriesAgree
<1>1. EngineInit => IInv
  BY Initially
<1>2. IInv /\ [EngineNext]_engineVars => IInv'
  BY Inductive
<1>3. IInv => HistoriesAgree
  <2>1. ASSUME IInv, NEW c \in Clients PROVE Agree(client[c], applied[c])
    <3>1. Conn(client[c], up[c], down[c], applied[c], Stands(c), session.backend.entries)
      BY <2>1, Here
    <3> QED BY <3>1, ConnAgrees
  <2> QED BY <2>1 DEF HistoriesAgree, Agree
<1> QED BY <1>1, <1>2, <1>3, PTL DEF EngineSpec
=============================================================================
