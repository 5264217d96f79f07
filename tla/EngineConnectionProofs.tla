----------------------- MODULE EngineConnectionProofs -----------------------
(***************************************************************************)
(* Lemmas about one connection of the effect session: how the journal      *)
(* entries of a history are counted, what holds between the client's       *)
(* session, the frames in flight and the effects applied, and that each    *)
(* step of either end keeps it.                                            *)
(***************************************************************************)
EXTENDS EngineSession, WellFoundedInduction, TLAPS

\* What effects return, and the histories they make.
Results == {<<"Ok">>, <<"Recv">>} \cup ({"Clock", "Random", "Recv", "FsRead"} \X Nat)
Pairs == Effects \X Results

IsBackend(b) ==
    /\ DOMAIN b = {"now", "mail", "file", "entries"}
    /\ b.now \in Nat /\ b.mail \in Seq(Nat) /\ b.file \in Nat \cup {None} /\ b.entries \in Nat

IsSession(s) ==
    /\ DOMAIN s = {"phase", "next_seq", "send_sequence", "backend"}
    /\ s.phase \in {"hello", "serve"} /\ s.next_seq \in Nat /\ s.send_sequence \in Nat
    /\ IsBackend(s.backend)

-----------------------------------------------------------------------------
(* Counting journal entries.                                                *)

IsTotal(f, history, n) ==
    f = [i \in 0..n |-> IF i = 0 THEN 0 ELSE f[i - 1] + Weight(history[i])]

\* A nonempty set of numbers has a first one.
LEMMA First ==
    ASSUME NEW T \in SUBSET Nat, T # {}
    PROVE  \E x \in T : \A y \in T : x <= y
<1> DEFINE R == OpToRel(<, Nat)
<1>1. IsWellFoundedOn(R, Nat)
  BY NatLessThanWellFounded, Zenon
<1> HIDE DEF R
<1>2. PICK x \in T : \A y \in T : ~(<<y, x>> \in R)
  BY <1>1, WFMin, Zenon
<1>3. \A y \in T : <<y, x>> \in R <=> y < x
  BY DEF R, OpToRel
<1>4. \A y \in T : ~(y < x)
  BY <1>2, <1>3, Zenon
<1>5. \A p, q \in Nat : ~(q < p) => p <= q
  OBVIOUS
<1>6. \A y \in T : x <= y
  BY <1>4, <1>5, Zenon
<1> QED BY <1>6, Zenon

\* A running total exists for every length: a shortest one without would extend.
LEMMA TotalExists ==
    ASSUME NEW history, NEW m \in Nat
    PROVE  \E f : IsTotal(f, history, m)
<1> DEFINE T == {n \in Nat : ~ \E f : IsTotal(f, history, n)}
<1> SUFFICES ASSUME T # {} PROVE FALSE
  OBVIOUS
<1>1. PICK n \in T : \A k \in T : n <= k
  BY First, Zenon
<1>2. CASE n = 0
  <2> DEFINE f == [i \in 0..0 |-> 0]
  <2>1. f = [i \in 0..0 |-> IF i = 0 THEN 0 ELSE f[i - 1] + Weight(history[i])]
    OBVIOUS
  <2> QED BY <1>1, <1>2, <2>1, Zenon DEF IsTotal
<1>3. CASE n # 0
  <2>1. n \in Nat /\ n - 1 \in Nat /\ n - 1 \notin T
    BY <1>1, <1>3
  <2>2. PICK f : IsTotal(f, history, n - 1)
    BY <2>1
  <2> DEFINE g == [i \in 0..n |-> IF i = n THEN f[n - 1] + Weight(history[n]) ELSE f[i]]
  <2>3. \A i \in 0..n : g[i] = IF i = 0 THEN 0 ELSE g[i - 1] + Weight(history[i])
    <3> TAKE i \in 0..n
    <3>1. CASE i = n
      <4>1. n - 1 \in 0..n /\ n - 1 # n
        BY <2>1
      <4>2. g[n - 1] = f[n - 1]
        BY <4>1
      <4> QED BY <1>3, <3>1, <4>2
    <3>2. CASE i # n
      <4>1. i \in 0..n - 1 /\ g[i] = f[i]
        BY <2>1, <3>2
      <4>2. f[i] = IF i = 0 THEN 0 ELSE f[i - 1] + Weight(history[i])
        BY <2>2, <4>1 DEF IsTotal
      <4>3. CASE i = 0
        BY <4>1, <4>2, <4>3
      <4>4. CASE i # 0
        <5>1. i - 1 \in 0..n /\ i - 1 # n
          BY <2>1, <4>1, <4>4
        <5>2. g[i - 1] = f[i - 1]
          BY <5>1
        <5> QED BY <4>1, <4>2, <4>4, <5>2
      <4> QED BY <4>3, <4>4
    <3> QED BY <3>1, <3>2
  <2>4. g = [i \in 0..n |-> g[i]]
    OBVIOUS
  <2> HIDE DEF g
  <2>5. g = [i \in 0..n |-> IF i = 0 THEN 0 ELSE g[i - 1] + Weight(history[i])]
    BY <2>3, <2>4, Zenon
  <2> QED BY <1>1, <2>5 DEF IsTotal
<1> QED BY <1>2, <1>3

\* There is only one: the first place where two differ follows one where they agree.
LEMMA TotalUnique ==
    ASSUME NEW history, NEW n \in Nat, NEW f, NEW g, IsTotal(f, history, n), IsTotal(g, history, n)
    PROVE  f = g
<1> DEFINE T == {i \in 0..n : f[i] # g[i]}
<1>1. \A i \in 0..n : /\ f[i] = IF i = 0 THEN 0 ELSE f[i - 1] + Weight(history[i])
                      /\ g[i] = IF i = 0 THEN 0 ELSE g[i - 1] + Weight(history[i])
  BY DEF IsTotal
<1>2. ASSUME T # {} PROVE FALSE
  <2>1. T \in SUBSET Nat
    OBVIOUS
  <2>2. PICK i \in T : \A j \in T : i <= j
    BY <1>2, <2>1, First, Zenon
  <2>3. i # 0
    BY <1>1, <2>2
  <2>4. i - 1 \in 0..n /\ ~(i <= i - 1)
    BY <2>2, <2>3
  <2>5. f[i - 1] = g[i - 1]
    BY <2>2, <2>4
  <2> QED BY <1>1, <2>2, <2>3, <2>5
<1>3. f = [i \in 0..n |-> f[i]] /\ g = [i \in 0..n |-> g[i]]
  BY DEF IsTotal
<1>4. \A i \in 0..n : f[i] = g[i]
  BY <1>2
<1> QED BY <1>3, <1>4

\* Entries is the last value of the running total.
LEMMA EntriesIs ==
    ASSUME NEW S, NEW history \in Seq(S)
    PROVE  \E f : IsTotal(f, history, Len(history)) /\ Entries(history) = f[Len(history)]
<1> DEFINE f == CHOOSE g : IsTotal(g, history, Len(history))
<1>1. Len(history) \in Nat
  OBVIOUS
<1>2. IsTotal(f, history, Len(history))
  BY <1>1, TotalExists
<1>3. Entries(history) = f[Len(history)]
  BY DEF Entries, IsTotal
<1> QED BY <1>2, <1>3, Zenon

\* A history with no effect leaves no entry.
LEMMA EntriesEmpty == Entries(<<>>) = 0
<1>1. <<>> \in Seq(Nat) /\ Len(<<>>) = 0
  OBVIOUS
<1>2. PICK f : IsTotal(f, <<>>, 0) /\ Entries(<<>>) = f[0]
  BY <1>1, EntriesIs, Zenon
<1> QED BY <1>2 DEF IsTotal

\* One more effect adds its own weight and nothing else.
LEMMA EntriesAppend ==
    ASSUME NEW S, NEW history \in Seq(S), NEW p \in S
    PROVE  Entries(Append(history, p)) = Entries(history) + Weight(p)
<1> DEFINE more == Append(history, p)
           n == Len(history)
<1>1. /\ more \in Seq(S) /\ Len(more) = n + 1 /\ n \in Nat
      /\ more[n + 1] = p /\ \A i \in 1..n : more[i] = history[i]
  OBVIOUS
<1> HIDE DEF more, n
<1>2. PICK f : IsTotal(f, more, n + 1) /\ Entries(more) = f[n + 1]
  BY <1>1, EntriesIs
<1>3. PICK g : IsTotal(g, history, n) /\ Entries(history) = g[n]
  BY EntriesIs DEF n
<1> DEFINE h == [i \in 0..n |-> f[i]]
<1>4. \A i \in 0..n + 1 : f[i] = IF i = 0 THEN 0 ELSE f[i - 1] + Weight(more[i])
  BY <1>2, Zenon DEF IsTotal
<1>5. \A i \in 0..n : h[i] = IF i = 0 THEN 0 ELSE h[i - 1] + Weight(history[i])
  <2> TAKE i \in 0..n
  <2>1. i \in 0..n + 1 /\ h[i] = f[i]
    BY <1>1
  <2>2. CASE i = 0
    BY <1>4, <2>1, <2>2
  <2>3. CASE i # 0
    <3>1. i \in 1..n /\ i - 1 \in 0..n
      BY <1>1, <2>3
    <3>2. more[i] = history[i] /\ h[i - 1] = f[i - 1]
      BY <1>1, <3>1
    <3> QED BY <1>4, <2>1, <2>3, <3>2
  <2> QED BY <2>2, <2>3
<1>6. h = [i \in 0..n |-> h[i]]
  OBVIOUS
<1>7. h[n] = f[n]
  BY <1>1
<1> HIDE DEF h
<1>8. IsTotal(h, history, n)
  BY <1>5, <1>6, Zenon DEF IsTotal
<1>9. g = h
  BY <1>1, <1>3, <1>8, TotalUnique
<1>10. f[n + 1] = f[n] + Weight(p)
  <2>1. n + 1 \in 0..n + 1 /\ n + 1 # 0 /\ (n + 1) - 1 = n
    BY <1>1
  <2> QED BY <1>1, <1>4, <2>1
<1> QED BY <1>2, <1>3, <1>7, <1>9, <1>10 DEF more

\* An effect that returns adds to the journal what it weighs.
LEMMA ApplyWeighs ==
    ASSUME NEW b, IsBackend(b), NEW e \in Effects, NEW sent \in Nat
    PROVE  LET done == apply(b, e, sent)
           IN  /\ IsBackend(done.backend)
               /\ done.result # None =>
                    /\ <<e, done.result>> \in Pairs
                    /\ done.backend.entries = b.entries + Weight(<<e, done.result>>)
<1> DEFINE done == apply(b, e, sent)
           Goal == /\ IsBackend(done.backend)
                   /\ done.result # None =>
                        /\ done.result \in Results
                        /\ done.backend.entries = b.entries + Weight(<<e, done.result>>)
<1> SUFFICES Goal
  BY DEF Pairs
<1>1. CASE e \in [op : {"Clock", "Recv", "FsSync"}]
  <2>1. CASE e.op = "Clock"
    <3>1. done = [backend |-> b, result |-> <<"Clock", b.now>>]
      BY <2>1 DEF apply, clock, Done
    <3>2. \A r : Weight(<<e, r>>) = 0
      BY <2>1 DEF Weight
    <3> HIDE DEF done
    <3> QED BY <3>1, <3>2 DEF IsBackend, Results
  <2>2. CASE e.op = "Recv"
    <3>1. done = recv(b)
      BY <2>2 DEF apply
    <3>2. \A r : Weight(<<e, r>>) = IF r = <<"Recv">> THEN 0 ELSE 1
      BY <2>2 DEF Weight
    <3> HIDE DEF done
    <3>3. CASE b.mail = <<>>
      <4>1. done.backend = b /\ done.result = <<"Recv">>
        BY <3>1, <3>3 DEF recv, Done
      <4>2. b.entries = b.entries + 0
        BY DEF IsBackend
      <4> QED BY <3>2, <4>1, <4>2 DEF Results
    <3>4. CASE b.mail # <<>>
      <4>1. Head(b.mail) \in Nat /\ Tail(b.mail) \in Seq(Nat)
        BY <3>4 DEF IsBackend
      <4>a. done.result = <<"Recv", Head(b.mail)>> /\ done.backend = [b EXCEPT !.mail = Tail(b.mail), !.entries = b.entries + 1]
        BY <3>1, <3>4 DEF recv, Done
      <4>b. /\ DOMAIN done.backend = DOMAIN b
            /\ done.backend.now = b.now /\ done.backend.mail = Tail(b.mail)
            /\ done.backend.file = b.file /\ done.backend.entries = b.entries + 1
        BY <4>a DEF IsBackend
      <4>3. IsBackend(done.backend) /\ done.backend.entries = b.entries + 1
        BY <4>1, <4>b DEF IsBackend
      <4>4. done.result \in Results /\ done.result # <<"Recv">>
        BY <4>1, <4>a DEF Results
      <4> QED BY <3>2, <4>3, <4>4
    <3> QED BY <3>3, <3>4
  <2>3. CASE e.op = "FsSync"
    <3>1. done = fs_sync_path(b)
      BY <2>3 DEF apply
    <3>2. \A r : Weight(<<e, r>>) = 1
      BY <2>3 DEF Weight
    <3> HIDE DEF done
    <3> QED BY <3>1, <3>2 DEF fs_sync_path, Done, IsBackend, Results
  <2> QED BY <1>1, <2>1, <2>2, <2>3
<1>2. CASE e \in [op : {"Sleep"}, ticks : Nat]
  <2>1. done = sleep(b, e.ticks) /\ e.ticks \in Nat
    BY <1>2 DEF apply
  <2>2. \A r : Weight(<<e, r>>) = 3
    BY <1>2 DEF Weight
  <2> HIDE DEF done
  <2>a. done.result = <<"Ok">> /\ done.backend = [b EXCEPT !.now = b.now + e.ticks, !.entries = b.entries + 3]
    BY <2>1 DEF sleep, Done
  <2>b. /\ DOMAIN done.backend = DOMAIN b
        /\ done.backend.now = b.now + e.ticks /\ done.backend.mail = b.mail
        /\ done.backend.file = b.file /\ done.backend.entries = b.entries + 3
    BY <2>a DEF IsBackend
  <2>3. IsBackend(done.backend)
    BY <2>1, <2>b DEF IsBackend
  <2> QED BY <2>2, <2>3, <2>a, <2>b DEF Results
<1>3. CASE e \in [op : {"Random"}, count : Nat]
  <2>1. done = rng(b, e.count) /\ e.count \in Nat
    BY <1>3 DEF apply
  <2>2. \A r : Weight(<<e, r>>) = e.count
    BY <1>3 DEF Weight
  <2> HIDE DEF done
  <2> QED BY <2>1, <2>2 DEF rng, Done, IsBackend, Results
<1>4. CASE e \in [op : {"Send"}, self : BOOLEAN]
  <2>1. done = send_impl(b, e.self, sent) /\ e.self \in BOOLEAN
    BY <1>4 DEF apply
  <2>2. \A r : Weight(<<e, r>>) = 1
    BY <1>4 DEF Weight
  <2> HIDE DEF done
  <2>3. b.mail \in Seq(Nat) /\ Append(b.mail, sent) \in Seq(Nat)
    BY DEF IsBackend
  <2>a. done.result = <<"Ok">> /\ done.backend = [b EXCEPT !.mail = IF e.self THEN Append(b.mail, sent) ELSE b.mail, !.entries = b.entries + 1]
    BY <2>1 DEF send_impl, Done
  <2>b. /\ DOMAIN done.backend = DOMAIN b
        /\ done.backend.now = b.now /\ done.backend.mail = (IF e.self THEN Append(b.mail, sent) ELSE b.mail)
        /\ done.backend.file = b.file /\ done.backend.entries = b.entries + 1
    BY <2>a DEF IsBackend
  <2>4. IsBackend(done.backend)
    BY <2>3, <2>b DEF IsBackend
  <2> QED BY <2>2, <2>4, <2>a, <2>b DEF Results
<1>5. CASE e \in [op : {"FsWrite"}, offset : Nat, len : Nat]
  <2>1. done = fs_write_bytes(b, e.offset, e.len) /\ e.offset \in Nat /\ e.len \in Nat
    BY <1>5 DEF apply
  <2>2. \A r : Weight(<<e, r>>) = 1
    BY <1>5 DEF Weight
  <2> HIDE DEF done
  <2> DEFINE len == IF e.len = 0 THEN b.file
                    ELSE IF b.file = None THEN e.offset + e.len ELSE Most(b.file, e.offset + e.len)
  <2>3. len \in Nat \cup {None}
    BY <2>1 DEF Most, IsBackend
  <2>a. done.result = <<"Ok">> /\ done.backend = [b EXCEPT !.entries = b.entries + 1, !.file = len]
    BY <2>1 DEF fs_write_bytes, Done
  <2>b. /\ DOMAIN done.backend = DOMAIN b
        /\ done.backend.now = b.now /\ done.backend.mail = b.mail
        /\ done.backend.file = len /\ done.backend.entries = b.entries + 1
    BY <2>a DEF IsBackend
  <2> HIDE DEF len
  <2>4. IsBackend(done.backend)
    BY <2>3, <2>b DEF IsBackend
  <2> QED BY <2>2, <2>4, <2>a, <2>b DEF Results
<1>6. CASE e \in [op : {"FsRead"}, len : Nat]
  <2>1. done = fs_read_bytes(b, e.len) /\ e.len \in Nat
    BY <1>6 DEF apply
  <2>2. \A r : Weight(<<e, r>>) = 1
    BY <1>6 DEF Weight
  <2> HIDE DEF done
  <2> DEFINE len == IF b.file = None THEN 0 ELSE Least(b.file, e.len)
  <2>3. len \in Nat
    BY <2>1 DEF Least, IsBackend
  <2>a. done.result = <<"FsRead", len>> /\ done.backend = [b EXCEPT !.entries = b.entries + 1]
    BY <2>1 DEF fs_read_bytes, Done
  <2>b. /\ DOMAIN done.backend = DOMAIN b
        /\ done.backend.now = b.now /\ done.backend.mail = b.mail
        /\ done.backend.file = b.file /\ done.backend.entries = b.entries + 1
    BY <2>a DEF IsBackend
  <2> HIDE DEF len
  <2>4. IsBackend(done.backend)
    BY <2>b DEF IsBackend
  <2> QED BY <2>2, <2>3, <2>4, <2>a, <2>b DEF Results
<1> HIDE DEF Goal
<1> QED BY <1>1, <1>2, <1>3, <1>4, <1>5, <1>6 DEF Effects

-----------------------------------------------------------------------------
(* One connection: the client's session x, the frames u to and d from the   *)
(* server, the effects a applied for it, where it stands with the server    *)
(* ("queued", "hello", "serve" or "none") and, when it is the one served,   *)
(* the number n of entries in the server's journal.                         *)

InQueue(c, queue) == \E i \in 1..Len(queue) : queue[i] = c

Standing(c, serving, phase, queue) ==
    IF serving = c THEN phase ELSE IF InQueue(c, queue) THEN "queued" ELSE "none"

Shape(x) == DOMAIN x = {"pc", "next_seq", "actor", "asked", "log", "outcome", "entries", "calls"}

\* The served connection holds at most one request, sent when every reply
\* had been read; only the client's last call can have been applied unseen.
Requested(x, u, d, a) ==
    /\ u = <<u[1]>> /\ d = <<>> /\ a = x.log
    /\ x.pc \in {"waiting", "finishing", "gone"}
    /\ u[1].msg.kind = "EffectRequest" => u[1].msg.effect \in Effects
    /\ x.pc = "waiting" => u[1] = Frame(x.next_seq - 1, EffectRequest(x.asked))
    /\ x.pc = "finishing" => u[1].msg.kind = "Finish"

\* What may be in the reply to each call.
Replied(x, d, a, st) ==
    /\ d = <<d[1]>>
    /\ d[1].msg.kind = "Reject" => d[1].msg.reason # "Finished"
    /\ x.pc \notin {"idle", "ready"}
    /\ st \notin {"queued", "hello"}
    /\ x.pc = "waiting" =>
         \/ /\ d[1].seq = x.next_seq - 1 /\ d[1].msg.kind = "EffectResponse"
            /\ a = Append(x.log, <<x.asked, d[1].msg.result>>)
         \/ st = "none" /\ d[1].seq # x.next_seq - 1
    /\ x.pc = "finishing" =>
         /\ st = "none"
         /\ d[1].msg.kind = "Goodbye" => a = x.log /\ d[1].msg.entries = Entries(a)

Conn(x, u, d, a, st, n) ==
    /\ Shape(x)
    /\ x.pc \in {"idle", "hello", "ready", "waiting", "finishing", "gone"}
    /\ x.next_seq \in Nat /\ x.log \in Seq(Pairs) /\ a \in Seq(Pairs)
    /\ a = x.log \/ (a # <<>> /\ a = Append(x.log, a[Len(a)]))
    /\ d = <<>> \/ Replied(x, d, a, st)
    /\ x.pc \in {"idle", "hello"} => a = <<>> /\ x.log = <<>>
    /\ x.pc = "idle" => st = "none"
    /\ x.pc = "ready" => x.next_seq >= 1
    /\ x.pc = "waiting" => x.next_seq >= 2
    /\ st \in {"queued", "hello"} => x.pc \in {"hello", "gone"} /\ a = <<>> /\ u = <<u[1]>>
    /\ st \in {"hello", "serve"} => n = Entries(a)
    /\ st = "serve" => u = <<>> \/ Requested(x, u, d, a)
    /\ st = "serve" /\ x.pc = "ready" => a = x.log
    /\ st = "serve" /\ x.pc = "finishing" => u # <<>>
    /\ x.outcome = "Finished" => x.pc = "gone" /\ st = "none" /\ a = x.log /\ x.entries = Entries(a)

\* What the histories of one connection owe each other.
Agree(x, a) ==
    /\ IsPrefixOf(x.log, a) /\ Len(a) <= Len(x.log) + 1
    /\ x.outcome = "Finished" => x.log = a /\ x.entries = Entries(a)

\* A connection in order has histories that agree.
LEMMA ConnAgrees ==
    ASSUME NEW x, NEW u, NEW d, NEW a, NEW st, NEW n, Conn(x, u, d, a, st, n)
    PROVE  Agree(x, a)
<1>1. x.log \in Seq(Pairs) /\ a \in Seq(Pairs)
  BY DEF Conn
<1>2. x.outcome = "Finished" => x.log = a /\ x.entries = Entries(a)
  BY DEF Conn
<1>3. CASE a = x.log
  <2>1. SubSeq(a, 1, Len(a)) = a
    BY <1>1
  <2>2. Len(a) \in Nat
    BY <1>1
  <2> QED BY <1>2, <1>3, <2>1, <2>2 DEF IsPrefixOf, Agree
<1>4. ASSUME a # <<>>, a = Append(x.log, a[Len(a)])
      PROVE  IsPrefixOf(x.log, a) /\ Len(a) <= Len(x.log) + 1
  <2>0. PICK p \in Pairs : a = Append(x.log, p)
    BY <1>1, <1>4
  <2>1. Len(a) = Len(x.log) + 1 /\ Len(x.log) \in Nat
    BY <1>1, <2>0
  <2>2. SubSeq(a, 1, Len(x.log)) \in Seq(Pairs) /\ Len(SubSeq(a, 1, Len(x.log))) = Len(x.log)
    BY <1>1, <2>1
  <2>3. \A i \in 1..Len(x.log) : SubSeq(a, 1, Len(x.log))[i] = x.log[i]
    BY <1>1, <2>0, <2>1
  <2>4. SubSeq(a, 1, Len(x.log)) = x.log
    BY <1>1, <2>2, <2>3
  <2> QED BY <2>1, <2>4 DEF IsPrefixOf
<1> QED BY <1>2, <1>3, <1>4 DEF Conn, Agree

\* A connection that the server lets go of owes nothing more.
LEMMA ConnClosed ==
    ASSUME NEW x, NEW u, NEW d, NEW a, NEW st, NEW n, NEW v, NEW m, Conn(x, u, d, a, st, n)
    PROVE  Conn(x, v, d, a, "none", m)
<1>1. d = <<>> \/ Replied(x, d, a, "none")
  BY DEF Conn, Replied
<1> QED BY <1>1, Zenon DEF Conn

\* The journal of another session does not matter to a connection in the queue.
LEMMA ConnElsewhere ==
    ASSUME NEW x, NEW u, NEW d, NEW a, NEW st \in {"queued", "none"}, NEW n, NEW m, Conn(x, u, d, a, st, n)
    PROVE  Conn(x, u, d, a, st, m)
BY Zenon DEF Conn

\* A session value that is dropped.
LEMMA ConnGone ==
    ASSUME NEW x, NEW u, NEW d, NEW a, NEW st, NEW n, Conn(x, u, d, a, st, n),
           NEW y, Shape(y), y.pc = "gone", y.log = x.log, y.next_seq = x.next_seq, y.outcome # "Finished"
    PROVE  Conn(y, u, d, a, st, n)
<1>1. d = <<>> \/ Replied(y, d, a, st)
  BY DEF Conn, Replied
<1>2. st = "serve" => u = <<>> \/ Requested(y, u, d, a)
  BY DEF Conn, Requested
<1> QED BY <1>1, <1>2 DEF Conn

\* Sequences of one frame.
LEMMA Singles ==
    \A f : /\ Append(<<>>, f) = <<f>> /\ Head(<<f>>) = f /\ Tail(<<f>>) = <<>>
           /\ <<f>>[1] = f /\ <<f>> # <<>>
OBVIOUS

-----------------------------------------------------------------------------
(* The steps of one connection.                                             *)

\* A session not yet connected.
LEMMA ConnNew ==
    ASSUME NEW x, Shape(x), x.pc = "idle", x.next_seq = 0, x.log = <<>>, x.outcome # "Finished",
           NEW u, NEW n
    PROVE  Conn(x, u, <<>>, <<>>, "none", n)
<1>1. <<>> \in Seq(Pairs)
  OBVIOUS
<1> QED BY <1>1 DEF Conn

\* Hello is sent and the connection waits its turn.
LEMMA ConnConnects ==
    ASSUME NEW x, NEW u, NEW d, NEW a, NEW st, NEW n, Conn(x, u, d, a, st, n), x.pc = "idle",
           NEW y, Shape(y), y.pc = "hello", y.log = x.log, y.next_seq = x.next_seq, y.outcome = x.outcome,
           NEW f, NEW m
    PROVE  st = "none" /\ Conn(y, <<f>>, d, a, "queued", m)
<1>1. d = <<>> /\ st = "none" /\ a = <<>> /\ x.log = <<>> /\ x.outcome # "Finished"
  BY DEF Conn, Replied
<1> QED BY <1>1 DEF Conn

\* A call that fails leaves the session as it was, but for the number it used.
LEMMA ConnCallFails ==
    ASSUME NEW x, NEW u, NEW d, NEW a, NEW st, NEW n, Conn(x, u, d, a, st, n), x.pc = "ready",
           NEW y, Shape(y), y.pc = "ready", y.log = x.log, y.next_seq \in {x.next_seq, x.next_seq + 1},
           y.outcome # "Finished"
    PROVE  Conn(y, u, d, a, st, n)
<1>1. d = <<>> /\ (st = "serve" => u = <<>>)
  BY DEF Conn, Replied, Requested
<1>2. y.next_seq \in Nat /\ y.next_seq >= 1
  BY DEF Conn
<1> QED BY <1>1, <1>2 DEF Conn

\* A request is sent: in a session being served it is the only frame under way.
LEMMA ConnAsks ==
    ASSUME NEW x, NEW u, NEW d, NEW a, NEW st, NEW n, Conn(x, u, d, a, st, n), x.pc = "ready",
           NEW e \in Effects, NEW y, Shape(y), y.pc = "waiting", y.asked = e, y.log = x.log,
           y.next_seq = x.next_seq + 1, y.outcome = x.outcome
    PROVE  Conn(y, Append(u, Frame(x.next_seq, EffectRequest(e))), d, a, st, n)
<1> DEFINE f == Frame(x.next_seq, EffectRequest(e))
           v == Append(u, f)
<1>1. /\ d = <<>> /\ x.outcome # "Finished" /\ x.next_seq \in Nat /\ x.next_seq >= 1
      /\ st \notin {"queued", "hello"}
      /\ (st = "serve" => u = <<>> /\ a = x.log)
  BY DEF Conn, Replied, Requested
<1>2. y.next_seq \in Nat /\ y.next_seq >= 2 /\ x.next_seq = y.next_seq - 1
  BY <1>1
<1>3. f.msg.effect \in Effects /\ f = Frame(y.next_seq - 1, EffectRequest(y.asked))
  BY <1>2 DEF Frame, EffectRequest
<1> HIDE DEF f
<1>4. st = "serve" => Requested(y, v, d, a)
  <2> SUFFICES ASSUME st = "serve" PROVE Requested(y, v, d, a)
    OBVIOUS
  <2>1. v = <<f>>
    BY <1>1, Singles
  <2>2. v[1] = f
    BY <2>1, Singles
  <2> HIDE DEF v
  <2> QED BY <1>1, <1>3, <2>1, <2>2 DEF Requested
<1> HIDE DEF v
<1>5. Conn(y, v, d, a, st, n)
  BY <1>1, <1>2, <1>4 DEF Conn
<1> QED BY <1>5 DEF v, f

\* So is the request to finish.
LEMMA ConnFinishes ==
    ASSUME NEW x, NEW u, NEW d, NEW a, NEW st, NEW n, Conn(x, u, d, a, st, n), x.pc = "ready",
           NEW y, Shape(y), y.pc = "finishing", y.log = x.log, y.next_seq = x.next_seq,
           y.outcome = x.outcome
    PROVE  Conn(y, Append(u, Frame(x.next_seq, Finish)), d, a, st, n)
<1> DEFINE f == Frame(x.next_seq, Finish)
           v == Append(u, f)
<1>1. /\ d = <<>> /\ x.outcome # "Finished" /\ st \notin {"queued", "hello"}
      /\ (st = "serve" => u = <<>> /\ a = x.log)
  BY DEF Conn, Replied, Requested
<1>2. f.msg.kind = "Finish"
  BY DEF Frame, Finish
<1> HIDE DEF f
<1>3. st = "serve" => v = <<f>> /\ v[1] = f /\ v # <<>>
  BY <1>1, Singles
<1> HIDE DEF v
<1>4. st = "serve" => Requested(y, v, d, a)
  BY <1>1, <1>2, <1>3 DEF Requested
<1>5. Conn(y, v, d, a, st, n)
  BY <1>1, <1>3, <1>4 DEF Conn
<1> QED BY <1>5 DEF v, f

\* The reply to Hello, read by a session that goes on.
LEMMA ConnWelcomed ==
    ASSUME NEW x, NEW u, NEW d, NEW a, NEW st, NEW n, Conn(x, u, d, a, st, n), x.pc = "hello", d # <<>>,
           NEW y, Shape(y), y.pc = "ready", y.log = x.log, y.next_seq = 1, y.outcome = x.outcome
    PROVE  Conn(y, u, <<>>, a, st, n)
<1>1. /\ st \notin {"queued", "hello"} /\ x.outcome # "Finished" /\ a = x.log
      /\ (st = "serve" => u = <<>>)
  BY DEF Conn, Replied, Requested
<1> QED BY <1>1 DEF Conn

\* A reply that nobody will look at again.
LEMMA ConnGoneReads ==
    ASSUME NEW x, NEW u, NEW d, NEW a, NEW st, NEW n, Conn(x, u, d, a, st, n), x.pc = "gone"
    PROVE  Conn(x, u, <<>>, a, st, n)
<1>1. st = "serve" => u = <<>> \/ Requested(x, u, <<>>, a)
  BY DEF Conn, Requested
<1> QED BY <1>1 DEF Conn

\* The answer to the call that waits for it.
LEMMA ConnAnswered ==
    ASSUME NEW x, NEW u, NEW d, NEW a, NEW st, NEW n, Conn(x, u, d, a, st, n), x.pc = "waiting", d # <<>>,
           d[1].seq = x.next_seq - 1,
           NEW y, Shape(y), y.pc = "ready", y.log = a, y.next_seq = x.next_seq, y.outcome = x.outcome
    PROVE  Conn(y, u, <<>>, a, st, n)
<1>1. /\ st \notin {"queued", "hello"} /\ x.outcome # "Finished"
      /\ (st = "serve" => u = <<>>) /\ x.next_seq >= 2 /\ x.next_seq \in Nat
  BY DEF Conn, Replied, Requested
<1> QED BY <1>1 DEF Conn

\* A session whose connection is over stays with the caller.
LEMMA ConnCutOff ==
    ASSUME NEW x, NEW u, NEW d, NEW a, NEW n, Conn(x, u, d, a, "none", n), x.pc = "waiting",
           NEW y, Shape(y), y.pc = "ready", y.log = x.log, y.next_seq = x.next_seq, y.outcome # "Finished"
    PROVE  Conn(y, u, <<>>, a, "none", n)
<1>1. x.next_seq >= 2 /\ x.next_seq \in Nat
  BY DEF Conn
<1> QED BY <1>1 DEF Conn

\* The reply to Finish.
LEMMA ConnFinished ==
    ASSUME NEW x, NEW u, NEW d, NEW a, NEW st, NEW n, Conn(x, u, d, a, st, n), x.pc = "finishing", d # <<>>,
           NEW y, Shape(y), y.pc = "gone", y.log = x.log, y.next_seq = x.next_seq,
           y.outcome = "Finished" => d[1].msg.kind = "Goodbye" /\ y.entries = d[1].msg.entries
    PROVE  Conn(y, u, <<>>, a, st, n)
<1>1. st = "none" /\ (d[1].msg.kind = "Goodbye" => a = x.log /\ d[1].msg.entries = Entries(a))
  BY DEF Conn, Replied
<1> QED BY <1>1 DEF Conn

\* The connection gets its turn, with a journal of its own that is empty.
LEMMA ConnAccepted ==
    ASSUME NEW x, NEW u, NEW d, NEW a, NEW n, Conn(x, u, d, a, "queued", n)
    PROVE  Conn(x, u, d, a, "hello", 0)
<1>1. d = <<>> /\ a = <<>> /\ x.pc \in {"hello", "gone"} /\ x.outcome # "Finished" /\ u = <<u[1]>>
  BY DEF Conn, Replied
<1>2. 0 = Entries(a)
  BY <1>1, EntriesEmpty
<1> QED BY <1>1, <1>2 DEF Conn

\* Hello read: Welcome, or a refusal that ends the session.
LEMMA ConnGreeted ==
    ASSUME NEW x, NEW u, NEW d, NEW a, NEW n, Conn(x, u, d, a, "hello", n), NEW f,
           f.msg.kind = "Reject" => f.msg.reason # "Finished",
           NEW st \in {"serve", "none"}
    PROVE  Conn(x, <<>>, Append(d, f), a, st, n)
<1>1. d = <<>> /\ a = <<>> /\ x.pc \in {"hello", "gone"} /\ x.outcome # "Finished" /\ n = Entries(a)
  BY DEF Conn, Replied
<1>2. Append(d, f) = <<f>> /\ <<f>>[1] = f
  BY <1>1, Singles
<1>3. Replied(x, <<f>>, a, st)
  BY <1>1, <1>2 DEF Replied
<1> QED BY <1>1, <1>2, <1>3 DEF Conn

\* An effect applied, with its answer on the way or the session ended.
LEMMA ConnApplied ==
    ASSUME NEW x, NEW u, NEW d, NEW a, NEW n, Conn(x, u, d, a, "serve", n), u # <<>>,
           u[1].msg.kind = "EffectRequest",
           NEW r, <<u[1].msg.effect, r>> \in Pairs
    PROVE  LET p == <<u[1].msg.effect, r>>
           IN  /\ Conn(x, <<>>, Append(d, Frame(u[1].seq, EffectResponse(r))), Append(a, p), "serve",
                        n + Weight(p))
               /\ \A m : Conn(x, <<>>, d, Append(a, p), "none", m)
<1> DEFINE p == <<u[1].msg.effect, r>>
           f == Frame(u[1].seq, EffectResponse(r))
           b == Append(a, p)
<1>1. Requested(x, u, d, a) /\ n = Entries(a) /\ x.outcome # "Finished"
  BY DEF Conn
<1>2. d = <<>> /\ a = x.log /\ a \in Seq(Pairs) /\ x.pc \in {"waiting", "gone"}
  BY <1>1 DEF Conn, Requested
<1>3. b = Append(x.log, p) /\ b \in Seq(Pairs) /\ b # <<>> /\ b[Len(b)] = p
  BY <1>2
<1>4. Entries(b) = n + Weight(p)
  BY <1>1, <1>2, EntriesAppend
<1>5. /\ f.seq = u[1].seq /\ f.msg.kind = "EffectResponse" /\ f.msg.result = r
      /\ Append(d, f) = <<f>> /\ <<f>>[1] = f
  BY <1>2, Singles DEF Frame, EffectResponse
<1>6. x.pc = "waiting" => u[1].seq = x.next_seq - 1 /\ p = <<x.asked, r>>
  BY <1>1 DEF Requested, Frame, EffectRequest
<1> HIDE DEF f, b, p
<1>7. Replied(x, <<f>>, b, "serve")
  BY <1>2, <1>3, <1>5, <1>6 DEF Replied
<1>8. Conn(x, <<>>, <<f>>, b, "serve", n + Weight(p))
  BY <1>1, <1>2, <1>3, <1>4, <1>7 DEF Conn
<1>9. \A m : Conn(x, <<>>, d, b, "none", m)
  BY <1>1, <1>2, <1>3 DEF Conn
<1> QED BY <1>5, <1>8, <1>9 DEF f, b, p

\* A request refused, or the last one answered with the count of the journal.
LEMMA ConnDismissed ==
    ASSUME NEW x, NEW u, NEW d, NEW a, NEW n, Conn(x, u, d, a, "serve", n), u # <<>>,
           NEW f, NEW m,
           \/ f = Frame(0, Reject("Protocol"))
           \/ u[1].msg.kind = "Finish" /\ f = Frame(u[1].seq, Goodbye(n))
    PROVE  Conn(x, <<>>, Append(d, f), a, "none", m)
<1>1. Requested(x, u, d, a) /\ n = Entries(a) /\ x.outcome # "Finished"
  BY DEF Conn
<1>2. Append(d, f) = <<f>> /\ <<f>>[1] = f
  BY <1>1, Singles DEF Requested
<1>3. a = x.log /\ x.pc \in {"waiting", "finishing", "gone"}
  BY <1>1 DEF Requested
<1>4. Replied(x, <<f>>, a, "none")
  <2>1. CASE f = Frame(0, Reject("Protocol"))
    <3>1. f.seq = 0 /\ f.msg.kind = "Reject" /\ f.msg.reason = "Protocol"
      BY <2>1 DEF Frame, Reject
    <3>2. x.pc = "waiting" => 0 # x.next_seq - 1
      BY DEF Conn
    <3> QED BY <1>2, <1>3, <3>1, <3>2, Zenon DEF Replied
  <2>2. CASE u[1].msg.kind = "Finish" /\ f = Frame(u[1].seq, Goodbye(n))
    <3>1. f.msg.kind = "Goodbye" /\ f.msg.entries = n
      BY <2>2 DEF Frame, Goodbye
    <3>2. x.pc # "waiting"
      BY <1>1, <2>2 DEF Requested, Frame, EffectRequest
    <3> QED BY <1>1, <1>2, <1>3, <3>1, <3>2 DEF Replied
  <2> QED BY <2>1, <2>2
<1> QED BY <1>1, <1>2, <1>3, <1>4 DEF Conn
=============================================================================
