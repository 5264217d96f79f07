-------------------------- MODULE JournalDagProofs --------------------------
(***************************************************************************)
(* Proofs about JournalDag, for any sets of actors, views and payloads.    *)
(*                                                                         *)
(* The inductive invariant says of each live view, by itself, that its     *)
(* entries and heads are Good.  The part that makes it inductive is        *)
(* Covered: whatever a clock counts is in the view, with a clock below it. *)
(* Appending keeps a view good (AppendGood); every other step leaves each  *)
(* view's entries as they are, and moves them at most from overlay to base.*)
(***************************************************************************)
EXTENDS JournalDag, TLAPS

Typed(E, h) ==
    /\ \A e \in E : IsEntry(e)
    /\ DOMAIN h \subseteq Actors

HeadsLast(E, h) ==
    /\ \A a \in DOMAIN h : h[a] \in E /\ h[a].actor = a
    /\ \A e \in E : e.actor \in DOMAIN h /\ e.seq <= h[e.actor].seq

OnePerSeq(E) ==
    \A x, y \in E : x.actor = y.actor /\ x.seq = y.seq => x = y

OwnCount(E) ==
    \A e \in E : e.clock[e.actor] = e.seq + 1

Covered(E) ==
    \A e \in E : \A a \in Actors : \A n \in Nat :
        n < e.clock[a] => \E x \in E :
            x.actor = a /\ x.seq = n /\ happens_before_or_equal(x.clock, e.clock)

Causal(E) ==
    \A e \in E : \A p \in e.parents :
        /\ p \in E
        /\ happens_before_or_equal(p.clock, e.clock)
        /\ p.clock[e.actor] < e.clock[e.actor]

Good(E, h) ==
    /\ Typed(E, h) /\ HeadsLast(E, h) /\ OnePerSeq(E)
    /\ OwnCount(E) /\ Covered(E) /\ Causal(E)

IInv ==
    /\ live \subseteq Views /\ live # {}
    /\ DOMAIN overlay = Views /\ DOMAIN heads = Views
    /\ \A v \in live : Good(Known(v), heads[v])

-----------------------------------------------------------------------------
(* Appending one entry to a good view.                                     *)

\* The clock order on clocks of the right type is transitive.
LEMMA OrderTransitive ==
    ASSUME NEW b \in [Actors -> Nat], NEW c \in [Actors -> Nat], NEW d \in [Actors -> Nat],
           happens_before_or_equal(b, c), happens_before_or_equal(c, d)
    PROVE  happens_before_or_equal(b, d)
BY DEF happens_before_or_equal

\* No clock of a good view counts more entries of an actor than there are.
LEMMA ClockBounded ==
    ASSUME NEW E, NEW h, Good(E, h), NEW e \in E, NEW a \in Actors
    PROVE  /\ a \in DOMAIN h => e.clock[a] <= h[a].seq + 1
           /\ a \notin DOMAIN h => e.clock[a] = 0
<1>1. e.clock[a] \in Nat
  BY DEF Good, Typed, IsEntry
<1>2. CASE e.clock[a] = 0
  <2>1. a \in DOMAIN h => h[a].seq \in Nat
    BY DEF Good, Typed, HeadsLast, IsEntry
  <2> QED  BY <1>2, <2>1
<1>3. CASE e.clock[a] # 0
  <2> DEFINE n == e.clock[a] - 1
  <2>1. n \in Nat /\ n < e.clock[a]
    BY <1>1, <1>3
  <2>2. PICK x \in E : x.actor = a /\ x.seq = n
    BY <2>1 DEF Good, Covered
  <2>3. a \in DOMAIN h /\ n <= h[a].seq
    BY <2>2 DEF Good, HeadsLast
  <2>4. h[a].seq \in Nat
    BY <2>3 DEF Good, Typed, HeadsLast, IsEntry
  <2> QED  BY <1>1, <2>1, <2>3, <2>4
<1> QED  BY <1>2, <1>3

\* A view stays good when an entry is appended whose parents are in the view,
\* the actor's head among them, and whose clock is their merge, incremented.
LEMMA AppendGood ==
    ASSUME NEW E, NEW h, Good(E, h), NEW a \in Actors, NEW P, P \subseteq E,
           a \in DOMAIN h => h[a] \in P,
           NEW c \in [Actors -> Nat], IsMerge(c, P), NEW payload,
           NEW seq, seq = IF a \in DOMAIN h THEN h[a].seq + 1 ELSE 0,
           NEW e, e = [actor |-> a, seq |-> seq, payload |-> payload, parents |-> P,
                       clock |-> incremented(c, a)],
           NEW g, g = [b \in DOMAIN h \cup {a} |-> IF b = a THEN e ELSE h[b]]
    PROVE  Good(E \cup {e}, g)
<1> DEFINE F == E \cup {e}
<1>f. e.actor = a /\ e.seq = seq /\ e.parents = P /\ e.clock = incremented(c, a)
  OBVIOUS
<1>s. seq \in Nat
  <2>1. a \in DOMAIN h => h[a].seq \in Nat
    BY DEF Good, Typed, HeadsLast, IsEntry
  <2> QED  BY <2>1
<1>c. /\ e.clock \in [Actors -> Nat]
      /\ e.clock[a] = c[a] + 1
      /\ \A b \in Actors : b # a => e.clock[b] = c[b]
  BY <1>f DEF incremented
<1>t. \A x \in E : IsEntry(x)
  BY DEF Good, Typed
<1>m. c[a] = seq
  <2>1. \A p \in P : p.clock[a] \in Nat
    BY <1>t DEF IsEntry
  <2>2. CASE a \in DOMAIN h
    <3>1. h[a] \in P /\ h[a].clock[a] = seq
      BY <2>2 DEF Good, OwnCount, HeadsLast
    <3>2. seq <= c[a]
      BY <3>1 DEF IsMerge
    <3>3. \A p \in P : p.clock[a] <= seq
      BY <2>2, ClockBounded
    <3>4. c[a] = 0 \/ \E p \in P : c[a] = p.clock[a]
      BY DEF IsMerge
    <3> QED  BY <3>2, <3>3, <3>4, <1>s, <2>1
  <2>3. CASE a \notin DOMAIN h
    <3>1. \A p \in P : p.clock[a] = 0
      BY <2>3, ClockBounded
    <3> QED  BY <3>1, <2>3 DEF IsMerge
  <2> QED  BY <2>2, <2>3
<1>b. \A p \in P : /\ happens_before_or_equal(p.clock, e.clock)
                   /\ p.clock[a] < e.clock[a]
  <2> SUFFICES ASSUME NEW p \in P
               PROVE  /\ happens_before_or_equal(p.clock, e.clock)
                      /\ p.clock[a] < e.clock[a]
    OBVIOUS
  <2>1. p.clock \in [Actors -> Nat]
    BY <1>t DEF IsEntry
  <2>2. \A b \in Actors : p.clock[b] <= c[b]
    BY DEF IsMerge
  <2>3. \A b \in Actors : c[b] <= e.clock[b]
    BY <1>c
  <2> QED  BY <1>c, <2>1, <2>2, <2>3 DEF happens_before_or_equal
<1>n. e \notin E
  <2>1. SUFFICES ASSUME e \in E PROVE FALSE
    OBVIOUS
  <2>2. a \in DOMAIN h /\ seq <= h[a].seq
    BY <2>1, <1>f DEF Good, HeadsLast
  <2>3. h[a].seq \in Nat
    BY <2>2, <1>t DEF Good, HeadsLast, IsEntry
  <2> QED  BY <2>2, <2>3
<1>1. Typed(F, g)
  <2>1. IsEntry(e)
    BY <1>c, <1>f, <1>s DEF IsEntry
  <2>2. DOMAIN g \subseteq Actors
    BY DEF Good, Typed
  <2> QED  BY <1>t, <2>1, <2>2 DEF Typed
<1>2. HeadsLast(F, g)
  <2>1. \A b \in DOMAIN g : g[b] \in F /\ g[b].actor = b
    BY <1>f DEF Good, HeadsLast
  <2>2. \A x \in E : x.actor \in DOMAIN g /\ x.seq <= g[x.actor].seq
    <3> SUFFICES ASSUME NEW x \in E
                 PROVE  x.actor \in DOMAIN g /\ x.seq <= g[x.actor].seq
      OBVIOUS
    <3>1. x.actor \in DOMAIN h /\ x.seq <= h[x.actor].seq
      BY DEF Good, HeadsLast
    <3>2. x.seq \in Nat /\ h[x.actor].seq \in Nat
      BY <3>1, <1>t DEF Good, HeadsLast, IsEntry
    <3>3. CASE x.actor = a
      <4>1. g[a].seq = h[a].seq + 1
        BY <3>1, <3>3, <1>f
      <4> QED  BY <3>1, <3>2, <3>3, <4>1
    <3>4. CASE x.actor # a
      BY <3>1, <3>4
    <3> QED  BY <3>3, <3>4
  <2>3. e.actor \in DOMAIN g /\ e.seq <= g[e.actor].seq
    BY <1>f, <1>s
  <2> QED  BY <2>1, <2>2, <2>3 DEF HeadsLast
<1>3. OnePerSeq(F)
  <2>1. \A x \in E : x.actor = a => x.seq # seq
    <3> SUFFICES ASSUME NEW x \in E, x.actor = a PROVE x.seq # seq
      OBVIOUS
    <3>1. a \in DOMAIN h /\ x.seq <= h[a].seq
      BY DEF Good, HeadsLast
    <3>2. x.seq \in Nat /\ h[a].seq \in Nat
      BY <3>1, <1>t DEF Good, HeadsLast, IsEntry
    <3> QED  BY <3>1, <3>2
  <2> QED  BY <2>1, <1>f DEF Good, OnePerSeq
<1>4. OwnCount(F)
  BY <1>f, <1>c, <1>m DEF Good, OwnCount
<1>5. Covered(F)
  <2>1. ASSUME NEW x \in E, NEW b \in Actors, NEW n \in Nat, n < x.clock[b]
        PROVE  \E y \in F : y.actor = b /\ y.seq = n /\ happens_before_or_equal(y.clock, x.clock)
    BY <2>1 DEF Good, Covered
  <2>2. ASSUME NEW b \in Actors, NEW n \in Nat, n < e.clock[b]
        PROVE  \E y \in F : y.actor = b /\ y.seq = n /\ happens_before_or_equal(y.clock, e.clock)
    <3>1. CASE n < c[b]
      <4>1. PICK p \in P : c[b] = p.clock[b]
        BY <3>1 DEF IsMerge
      <4>2. PICK y \in E : /\ y.actor = b /\ y.seq = n
                           /\ happens_before_or_equal(y.clock, p.clock)
        BY <3>1, <4>1 DEF Good, Covered
      <4>3. happens_before_or_equal(y.clock, e.clock)
        BY <4>2, <1>b, <1>c, <1>t, OrderTransitive DEF IsEntry
      <4> QED  BY <4>2, <4>3
    <3>2. CASE ~(n < c[b])
      <4>1. b = a /\ n = seq
        BY <3>2, <2>2, <1>c, <1>m, <1>s
      <4>2. happens_before_or_equal(e.clock, e.clock)
        BY <1>c DEF happens_before_or_equal
      <4> QED  BY <4>1, <4>2, <1>f
    <3> QED  BY <3>1, <3>2
  <2> QED  BY <2>1, <2>2 DEF Covered
<1>6. Causal(F)
  <2>1. \A p \in e.parents : /\ p \in F
                             /\ happens_before_or_equal(p.clock, e.clock)
                             /\ p.clock[e.actor] < e.clock[e.actor]
    BY <1>b, <1>f
  <2> QED  BY <2>1 DEF Good, Causal
<1> QED  BY <1>1, <1>2, <1>3, <1>4, <1>5, <1>6 DEF Good

-----------------------------------------------------------------------------
(* The inductive invariant.                                                *)

\* SetOverlay gives view v exactly the given overlay on top of the base, and
\* leaves the other live views alone.
LEMMA SetOverlayKnown ==
    ASSUME IInv, NEW v \in live, NEW entries, NEW log, SetOverlay(v, entries, log)
    PROVE  /\ DOMAIN overlay' = Views
           /\ Known(v)' = entries \cup base
           /\ \A w \in live \ {v} : Known(w)' = Known(w)
<1>v. v \in Views /\ DOMAIN overlay = Views
  BY DEF IInv
<1>1. CASE CanFreeze(v, entries)
  <2>1. base' = base \cup entries /\ overlay' = [overlay EXCEPT ![v] = {}]
    BY <1>1 DEF SetOverlay
  <2>2. live \ {v} = {}
    BY <1>1 DEF CanFreeze
  <2> QED  BY <1>v, <2>1, <2>2 DEF Known
<1>2. CASE ~CanFreeze(v, entries)
  <2>1. base' = base /\ overlay' = [overlay EXCEPT ![v] = entries]
    BY <1>2 DEF SetOverlay
  <2> QED  BY <1>v, <2>1 DEF Known, IInv
<1> QED  BY <1>1, <1>2

\* What an entry that passes the checks of append does to its view.
LEMMA EntryGood ==
    ASSUME IInv, NEW v \in live, NEW a \in Actors, NEW parents, NEW payload,
           head(v, a) \subseteq parents, ValidParents(v, parents),
           NEW c \in [Actors -> 0..MaxSeq], IsMerge(c, parents),
           heads' = WithHead(v, a, EntryOf(v, a, parents, c, payload))
    PROVE  /\ Good(Known(v) \cup {EntryOf(v, a, parents, c, payload)}, heads'[v])
           /\ DOMAIN heads' = Views
           /\ \A w \in live \ {v} : heads'[w] = heads[w]
<1> DEFINE e == EntryOf(v, a, parents, c, payload)
<1>1. v \in Views /\ DOMAIN heads = Views /\ live \subseteq Views
  BY DEF IInv
<1>2. /\ DOMAIN heads' = Views
      /\ heads'[v] = [b \in DOMAIN heads[v] \cup {a} |-> IF b = a THEN e ELSE heads[v][b]]
      /\ \A w \in live \ {v} : heads'[w] = heads[w]
  BY <1>1 DEF WithHead
<1>3. Good(Known(v), heads[v])
  BY DEF IInv
<1>4. c \in [Actors -> Nat]
  BY DagAssumption
<1>5. parents \subseteq Known(v)
  BY DEF ValidParents
<1>6. a \in DOMAIN heads[v] => heads[v][a] \in parents
  BY DEF head
<1>7. e = [actor |-> a, seq |-> sequence(v, a), payload |-> payload, parents |-> parents,
           clock |-> incremented(c, a)]
  BY DEF EntryOf
<1>8. sequence(v, a) = IF a \in DOMAIN heads[v] THEN heads[v][a].seq + 1 ELSE 0
  BY DEF sequence
<1> HIDE DEF e
<1>9. Good(Known(v) \cup {e}, heads'[v])
  BY <1>2, <1>3, <1>4, <1>5, <1>6, <1>7, <1>8, AppendGood
<1> QED  BY <1>2, <1>9 DEF e

\* The invariant holds initially.
LEMMA InitGood == Init => IInv
<1> SUFFICES ASSUME Init PROVE IInv
  OBVIOUS
<1>1. live \subseteq Views /\ live # {} /\ DOMAIN overlay = Views /\ DOMAIN heads = Views
  BY DEF Init
<1>2. ASSUME NEW v \in live PROVE Good(Known(v), heads[v])
  <2>1. Known(v) = {} /\ DOMAIN heads[v] = {}
    BY <1>1 DEF Init, Known
  <2> QED  BY <2>1 DEF Good, Typed, HeadsLast, OnePerSeq, OwnCount, Covered, Causal
<1> QED  BY <1>1, <1>2 DEF IInv

\* A step after which every live view holds what a live view held before, and
\* under the same heads, keeps the invariant.
LEMMA SameViews ==
    ASSUME IInv, live' \subseteq Views, live' # {},
           DOMAIN overlay' = Views, DOMAIN heads' = Views,
           \A w \in live' : \E v \in live : Known(w)' = Known(v) /\ heads'[w] = heads[v]
    PROVE  IInv'
<1>1. ASSUME NEW w \in live' PROVE Good(Known(w)', heads'[w])
  <2>1. PICK v \in live : Known(w)' = Known(v) /\ heads'[w] = heads[v]
    OBVIOUS
  <2>2. Good(Known(v), heads[v])
    BY DEF IInv
  <2> QED  BY <2>1, <2>2
<1> QED  BY <1>1 DEF IInv

\* Every step keeps the invariant.
LEMMA StepGood == IInv /\ [Next]_vars => IInv'
<1> SUFFICES ASSUME IInv, [Next]_vars PROVE IInv'
  OBVIOUS
<1>i. live \subseteq Views /\ live # {} /\ DOMAIN overlay = Views /\ DOMAIN heads = Views
  BY DEF IInv
<1>1. ASSUME NEW v \in Views, NEW a \in Actors, NEW observed, NEW payload,
             append(v, a, observed, payload)
      PROVE  IInv'
  <2> DEFINE parents == assemble_parents(v, a, observed)
  <2>1. v \in live /\ live' = live /\ ValidParents(v, parents)
    BY <1>1 DEF append
  <2>2. PICK c \in [Actors -> 0..MaxSeq] :
            /\ IsMerge(c, parents)
            /\ heads' = WithHead(v, a, EntryOf(v, a, parents, c, payload))
            /\ SetOverlay(v, overlay[v] \cup {EntryOf(v, a, parents, c, payload)},
                          Append(overlay_order[v], EntryOf(v, a, parents, c, payload)))
    BY <1>1 DEF append
  <2> DEFINE e == EntryOf(v, a, parents, c, payload)
  <2>3. head(v, a) \subseteq parents
    BY DEF assemble_parents
  <2>4. /\ Good(Known(v) \cup {e}, heads'[v])
        /\ DOMAIN heads' = Views
        /\ \A w \in live \ {v} : heads'[w] = heads[w]
    BY <2>1, <2>2, <2>3, EntryGood
  <2>5. /\ DOMAIN overlay' = Views
        /\ Known(v)' = (overlay[v] \cup {e}) \cup base
        /\ \A w \in live \ {v} : Known(w)' = Known(w)
    BY <2>1, <2>2, SetOverlayKnown
  <2>6. Known(v)' = Known(v) \cup {e}
    BY <2>5 DEF Known
  <2> HIDE DEF e
  <2>7. \A w \in live : Good(Known(w)', heads'[w])
    BY <2>4, <2>5, <2>6 DEF IInv
  <2> QED  BY <1>i, <2>1, <2>4, <2>5, <2>7 DEF IInv
<1>2. ASSUME NEW v \in Views, NEW a \in Actors, NEW observed, NEW payload,
             NEW chain_previous, PushBatch(v, a, observed, chain_previous, payload)
      PROVE  IInv'
  <2> DEFINE chain == IF chain_previous THEN batch[v].last ELSE {}
             parents == assemble_parents(v, a, observed) \cup chain
  <2>1. v \in live /\ live' = live /\ base' = base /\ ValidParents(v, parents)
    BY <1>2 DEF PushBatch
  <2>2. PICK c \in [Actors -> 0..MaxSeq] :
            /\ IsMerge(c, parents)
            /\ heads' = WithHead(v, a, EntryOf(v, a, parents, c, payload))
            /\ overlay' = [overlay EXCEPT ![v] = @ \cup {EntryOf(v, a, parents, c, payload)}]
    BY <1>2 DEF PushBatch
  <2> DEFINE e == EntryOf(v, a, parents, c, payload)
  <2>3. head(v, a) \subseteq parents
    BY DEF assemble_parents
  <2>4. /\ Good(Known(v) \cup {e}, heads'[v])
        /\ DOMAIN heads' = Views
        /\ \A w \in live \ {v} : heads'[w] = heads[w]
    BY <2>1, <2>2, <2>3, EntryGood
  <2>5. /\ DOMAIN overlay' = Views
        /\ overlay'[v] = overlay[v] \cup {e}
        /\ \A w \in live \ {v} : overlay'[w] = overlay[w]
    BY <1>i, <2>2
  <2> HIDE DEF e
  <2>6. /\ Known(v)' = Known(v) \cup {e}
        /\ \A w \in live \ {v} : Known(w)' = Known(w)
    BY <2>1, <2>5 DEF Known
  <2>7. \A w \in live : Good(Known(w)', heads'[w])
    BY <2>4, <2>6 DEF IInv
  <2> QED  BY <1>i, <2>1, <2>4, <2>5, <2>7 DEF IInv
<1>3. ASSUME NEW v \in Views, StartBatch(v) \/ FailBatch(v) PROVE IInv'
  <2>1. UNCHANGED <<live, base, overlay, heads>>
    BY <1>3 DEF StartBatch, FailBatch
  <2>2. \A w \in live : Known(w)' = Known(w)
    BY <2>1 DEF Known
  <2> QED  BY <1>i, <2>1, <2>2, SameViews
<1>4. ASSUME NEW v \in Views, EndBatch(v) PROVE IInv'
  <2>1. v \in live /\ live' = live /\ heads' = heads
        /\ SetOverlay(v, overlay[v], overlay_order[v])
    BY <1>4 DEF EndBatch
  <2>2. /\ DOMAIN overlay' = Views /\ Known(v)' = overlay[v] \cup base
        /\ \A w \in live \ {v} : Known(w)' = Known(w)
    BY <2>1, SetOverlayKnown
  <2>3. \A w \in live : Known(w)' = Known(w)
    BY <2>2 DEF Known
  <2> QED  BY <1>i, <2>1, <2>2, <2>3, SameViews
<1>5. ASSUME NEW v \in Views, NEW w \in Views, fork(v, w) PROVE IInv'
  <2>1. /\ v \in live /\ w \notin live /\ live' = live \cup {w} /\ base' = base
        /\ overlay' = [overlay EXCEPT ![w] = overlay[v]]
        /\ heads' = [heads EXCEPT ![w] = heads[v]]
    BY <1>5 DEF fork
  <2>2. DOMAIN overlay' = Views /\ DOMAIN heads' = Views
    BY <1>i, <2>1
  <2>3. Known(w)' = Known(v) /\ heads'[w] = heads[v]
    BY <1>i, <2>1 DEF Known
  <2>4. \A u \in live : Known(u)' = Known(u) /\ heads'[u] = heads[u]
    BY <1>i, <2>1 DEF Known
  <2>5. \A u \in live' : \E t \in live : Known(u)' = Known(t) /\ heads'[u] = heads[t]
    BY <2>1, <2>3, <2>4
  <2> QED  BY <1>i, <2>1, <2>2, <2>5, SameViews
<1>6. ASSUME NEW v \in Views, Drop(v) PROVE IInv'
  <2>1. /\ v \in live /\ live # {v} /\ live' = live \ {v} /\ base' = base
        /\ overlay' = [overlay EXCEPT ![v] = {}]
        /\ heads' = [heads EXCEPT ![v] = <<>>]
    BY <1>6 DEF Drop
  <2>2. DOMAIN overlay' = Views /\ DOMAIN heads' = Views /\ live' \subseteq Views /\ live' # {}
    BY <1>i, <2>1
  <2>3. \A u \in live' : u \in live /\ Known(u)' = Known(u) /\ heads'[u] = heads[u]
    BY <1>i, <2>1 DEF Known
  <2> QED  BY <2>2, <2>3, SameViews
<1>7. CASE UNCHANGED vars
  <2>1. UNCHANGED <<live, base, overlay, heads>>
    BY <1>7 DEF vars
  <2>2. \A w \in live : Known(w)' = Known(w)
    BY <2>1 DEF Known
  <2> QED  BY <1>i, <2>1, <2>2, SameViews
<1> QED  BY <1>1, <1>2, <1>3, <1>4, <1>5, <1>6, <1>7 DEF Next

\* Every reachable state satisfies the invariant.
THEOREM AlwaysGood == Spec => []IInv
BY InitGood, StepGood, PTL DEF Spec

-----------------------------------------------------------------------------
(* The properties.                                                         *)

\* Views, heads and entries always have their types, and every head is found.
THEOREM TypeCorrect == Spec => []DagTypeOK
<1>1. IInv => DagTypeOK
  BY DEF IInv, DagTypeOK, Good, Typed, HeadsLast
<1> QED  BY <1>1, AlwaysGood, PTL

\* Comparing one component of two clocks decides causality in every view, for
\* any number of actors, forks and entries.
THEOREM CausalityAlways == Spec => []ClocksTellCausality
<1>1. IInv => ClocksTellCausality
  <2> SUFFICES ASSUME IInv, NEW v \in live, NEW x \in Known(v), NEW y \in Known(v)
               PROVE  x.seq < y.clock[x.actor] <=> happens_before_or_equal(x.clock, y.clock)
    BY DEF ClocksTellCausality
  <2>1. Good(Known(v), heads[v])
    BY DEF IInv
  <2>2. IsEntry(x) /\ IsEntry(y) /\ x.clock[x.actor] = x.seq + 1
    BY <2>1 DEF Good, Typed, OwnCount
  <2>3. ASSUME x.seq < y.clock[x.actor] PROVE happens_before_or_equal(x.clock, y.clock)
    <3>1. PICK z \in Known(v) : /\ z.actor = x.actor /\ z.seq = x.seq
                                /\ happens_before_or_equal(z.clock, y.clock)
      BY <2>1, <2>2, <2>3 DEF Good, Covered, IsEntry
    <3>2. z = x
      BY <2>1, <3>1 DEF Good, OnePerSeq
    <3> QED  BY <3>1, <3>2
  <2>4. ASSUME happens_before_or_equal(x.clock, y.clock) PROVE x.seq < y.clock[x.actor]
    BY <2>2, <2>4 DEF happens_before_or_equal, IsEntry
  <2> QED  BY <2>3, <2>4
<1> QED  BY <1>1, AlwaysGood, PTL

\* Parents are in the view and strictly before their children.
THEOREM ParentsPrecedeAlways == Spec => []ParentsPrecede
<1>1. IInv => ParentsPrecede
  <2> SUFFICES ASSUME IInv, NEW v \in live, NEW e \in Known(v), NEW p \in e.parents
               PROVE  /\ p \in Known(v)
                      /\ happens_before_or_equal(p.clock, e.clock)
                      /\ ~happens_before_or_equal(e.clock, p.clock)
    BY DEF ParentsPrecede
  <2>1. Good(Known(v), heads[v])
    BY DEF IInv
  <2>2. /\ p \in Known(v) /\ happens_before_or_equal(p.clock, e.clock)
        /\ p.clock[e.actor] < e.clock[e.actor]
    BY <2>1 DEF Good, Causal
  <2>3. IsEntry(e) /\ IsEntry(p)
    BY <2>1, <2>2 DEF Good, Typed
  <2>4. ~happens_before_or_equal(e.clock, p.clock)
    BY <2>2, <2>3 DEF happens_before_or_equal, IsEntry
  <2> QED  BY <2>2, <2>4
<1> QED  BY <1>1, AlwaysGood, PTL

\* Sequence numbers are dense and unique per actor in every view.
THEOREM SequencesDenseAlways == Spec => []SequencesDense
<1>1. IInv => SequencesDense
  <2> SUFFICES ASSUME IInv, NEW v \in live, NEW a \in Actors
               PROVE  /\ \A x, y \in Known(v) :
                            x.actor = a /\ y.actor = a /\ x.seq = y.seq => x = y
                      /\ {x.seq : x \in {e \in Known(v) : e.actor = a}}
                            = 0..(sequence(v, a) - 1)
    BY DEF SequencesDense
  <2>1. Good(Known(v), heads[v])
    BY DEF IInv
  <2>2. \A x, y \in Known(v) : x.actor = a /\ y.actor = a /\ x.seq = y.seq => x = y
    BY <2>1 DEF Good, OnePerSeq
  <2>3. ASSUME NEW x \in Known(v), x.actor = a PROVE x.seq \in 0..(sequence(v, a) - 1)
    <3>1. a \in DOMAIN heads[v] /\ x.seq <= heads[v][a].seq
      BY <2>1, <2>3 DEF Good, HeadsLast
    <3>2. x.seq \in Nat /\ heads[v][a].seq \in Nat
      BY <2>1, <3>1 DEF Good, Typed, HeadsLast, IsEntry
    <3> QED  BY <3>1, <3>2 DEF sequence
  <2>4. ASSUME NEW n \in 0..(sequence(v, a) - 1)
        PROVE  \E x \in Known(v) : x.actor = a /\ x.seq = n
    <3>1. a \in DOMAIN heads[v]
      BY DEF sequence
    <3>2. /\ heads[v][a] \in Known(v) /\ heads[v][a].actor = a
          /\ heads[v][a].seq \in Nat
          /\ heads[v][a].clock[a] = heads[v][a].seq + 1
      BY <2>1, <3>1 DEF Good, Typed, HeadsLast, IsEntry, OwnCount
    <3>3. n \in Nat /\ n < heads[v][a].clock[a]
      BY <3>1, <3>2 DEF sequence
    <3> QED  BY <2>1, <3>2, <3>3 DEF Good, Covered
  <2> QED  BY <2>2, <2>3, <2>4
<1> QED  BY <1>1, AlwaysGood, PTL

-----------------------------------------------------------------------------
(* Isolation of forks.  The logs are typed by the sets they list.          *)

LogTyped ==
    /\ order \in Seq(base)
    /\ DOMAIN overlay_order = Views
    /\ \A v \in live : overlay_order[v] \in Seq(overlay[v])

LInv == IInv /\ LogTyped

Extends(l, m) == Len(m) >= Len(l) /\ SubSeq(m, 1, Len(l)) = l

\* A sequence over a set is one over any larger set.
LEMMA SeqMonotone ==
    ASSUME NEW A, NEW B, A \subseteq B, NEW s \in Seq(A)
    PROVE  s \in Seq(B)
<1>1. s \in [1..Len(s) -> B] /\ Len(s) \in Nat
  OBVIOUS
<1> QED  BY <1>1

\* The empty sequence is one over any set, and neutral.
LEMMA EmptySeq ==
    /\ \A S : <<>> \in Seq(S)
    /\ \A S : \A s \in Seq(S) : s \o <<>> = s
OBVIOUS

\* A log extends itself, and appending to its second part extends the whole.
LEMMA AppendExtends ==
    ASSUME NEW S, NEW s \in Seq(S), NEW t \in Seq(S), NEW e \in S
    PROVE  /\ Extends(s \o t, s \o t)
           /\ Extends(s \o t, s \o Append(t, e))
<1>1. s \o t \in Seq(S) /\ s \o Append(t, e) \in Seq(S)
  OBVIOUS
<1>2. Len(s \o t) = Len(s) + Len(t) /\ Len(s \o Append(t, e)) = Len(s) + Len(t) + 1
  OBVIOUS
<1>3. \A i \in 1..(Len(s) + Len(t)) : (s \o Append(t, e))[i] = (s \o t)[i]
  OBVIOUS
<1>4. Extends(s \o t, s \o t)
  BY <1>1, <1>2 DEF Extends
<1>5. Extends(s \o t, s \o Append(t, e))
  BY <1>1, <1>2, <1>3 DEF Extends
<1> QED  BY <1>1, <1>4, <1>5

\* SetOverlay gives view v the given log after the frozen order, and leaves the
\* logs of the other live views alone.
LEMMA SetOverlayLog ==
    ASSUME LInv, NEW v \in live, live' = live, NEW entries, NEW log \in Seq(entries),
           SetOverlay(v, entries, log)
    PROVE  /\ LogTyped'
           /\ Log(v)' = order \o log
           /\ \A w \in live \ {v} : Log(w)' = Log(w)
<1>v. v \in Views /\ DOMAIN overlay = Views /\ DOMAIN overlay_order = Views /\ live \subseteq Views
  BY DEF LInv, IInv, LogTyped
<1>o. order \in Seq(base) /\ \A w \in live : overlay_order[w] \in Seq(overlay[w])
  BY DEF LInv, LogTyped
<1>1. CASE CanFreeze(v, entries)
  <2>1. /\ base' = base \cup entries /\ order' = order \o log
        /\ overlay' = [overlay EXCEPT ![v] = {}]
        /\ overlay_order' = [overlay_order EXCEPT ![v] = <<>>]
    BY <1>1 DEF SetOverlay
  <2>2. live = {v}
    BY <1>1 DEF CanFreeze
  <2>3. order \in Seq(base \cup entries) /\ log \in Seq(base \cup entries)
    BY <1>o, SeqMonotone
  <2>4. order' \in Seq(base')
    BY <2>1, <2>3
  <2>5. overlay_order'[v] = <<>> /\ overlay'[v] = {} /\ DOMAIN overlay_order' = Views
    BY <1>v, <2>1
  <2>6. LogTyped'
    <3>1. \A w \in live' : overlay_order'[w] = <<>>
      BY <2>2, <2>5
    <3>2. \A w \in live' : overlay_order'[w] \in Seq(overlay'[w])
      BY <3>1, EmptySeq
    <3> QED  BY <2>4, <2>5, <3>2 DEF LogTyped
  <2>7. Log(v)' = order \o log
    <3>1. Log(v)' = (order \o log) \o <<>>
      BY <2>1, <2>5 DEF Log
    <3>2. order \o log \in Seq(base \cup entries)
      BY <2>3
    <3> QED  BY <3>1, <3>2, EmptySeq
  <2> QED  BY <2>2, <2>6, <2>7
<1>2. CASE ~CanFreeze(v, entries)
  <2>1. /\ base' = base /\ order' = order
        /\ overlay' = [overlay EXCEPT ![v] = entries]
        /\ overlay_order' = [overlay_order EXCEPT ![v] = log]
    BY <1>2 DEF SetOverlay
  <2>2. /\ DOMAIN overlay_order' = Views
        /\ overlay_order'[v] = log /\ overlay'[v] = entries
        /\ \A w \in live \ {v} : overlay_order'[w] = overlay_order[w] /\ overlay'[w] = overlay[w]
    BY <1>v, <2>1
  <2>3. LogTyped'
    BY <1>o, <2>1, <2>2 DEF LogTyped
  <2>4. Log(v)' = order \o log /\ \A w \in live \ {v} : Log(w)' = Log(w)
    BY <2>1, <2>2 DEF Log
  <2> QED  BY <2>3, <2>4
<1> QED  BY <1>1, <1>2

\* What ForksIsolated asks of one step.
IsolatedStep ==
    \A v \in live \cap live' :
        /\ Extends(Log(v), Log(v)')
        /\ Known(v) \subseteq Known(v)'
        /\ (Known(v)' # Known(v) => \A w \in (live \cap live') \ {v} : Known(w)' = Known(w))

\* A log extends itself.
LEMMA LogExtendsItself ==
    ASSUME LInv, NEW v \in live
    PROVE  Log(v) \in Seq(Known(v)) /\ Extends(Log(v), Log(v))
<1>1. order \in Seq(Known(v)) /\ overlay_order[v] \in Seq(Known(v))
  <2>1. order \in Seq(base) /\ overlay_order[v] \in Seq(overlay[v])
    BY DEF LInv, LogTyped
  <2>2. base \subseteq Known(v) /\ overlay[v] \subseteq Known(v)
    BY DEF Known
  <2> QED  BY <2>1, <2>2, SeqMonotone
<1>2. Log(v) \in Seq(Known(v))
  BY <1>1 DEF Log
<1> QED  BY <1>2 DEF Extends

\* A step in which only view v moves, by one entry, is isolated.
LEMMA OneViewMoves ==
    ASSUME LInv, NEW v \in live, live' = live, NEW e,
           Known(v)' = Known(v) \cup {e},
           Log(v)' = order \o Append(overlay_order[v], e),
           \A w \in live \ {v} : Log(w)' = Log(w) /\ Known(w)' = Known(w)
    PROVE  IsolatedStep
<1> DEFINE S == Known(v) \cup {e}
<1>1. order \in Seq(S) /\ overlay_order[v] \in Seq(S)
  <2>1. order \in Seq(base) /\ overlay_order[v] \in Seq(overlay[v])
    BY DEF LInv, LogTyped
  <2>2. base \subseteq S /\ overlay[v] \subseteq S
    BY DEF Known
  <2> QED  BY <2>1, <2>2, SeqMonotone
<1>2. Extends(Log(v), Log(v)')
  <2>1. Extends(order \o overlay_order[v], order \o Append(overlay_order[v], e))
    BY <1>1, AppendExtends
  <2> QED  BY <2>1 DEF Log
<1>3. \A w \in live \ {v} : Extends(Log(w), Log(w)')
  BY LogExtendsItself
<1> QED  BY <1>2, <1>3 DEF IsolatedStep

\* A step that changes neither log nor entries of a view that survives it is
\* isolated.
LEMMA NoViewMoves ==
    ASSUME LInv, \A w \in live \cap live' : Log(w)' = Log(w) /\ Known(w)' = Known(w)
    PROVE  IsolatedStep
BY LogExtendsItself DEF IsolatedStep

\* Every step keeps the logs typed and is isolated.
LEMMA StepIsolated == LInv /\ [Next]_vars => LogTyped' /\ IsolatedStep
<1> SUFFICES ASSUME LInv, [Next]_vars PROVE LogTyped' /\ IsolatedStep
  OBVIOUS
<1>i. /\ IInv /\ live \subseteq Views /\ DOMAIN overlay = Views /\ DOMAIN overlay_order = Views
      /\ order \in Seq(base) /\ \A w \in live : overlay_order[w] \in Seq(overlay[w])
  BY DEF LInv, IInv, LogTyped
<1>1. ASSUME NEW v \in Views, NEW a \in Actors, NEW observed, NEW payload,
             append(v, a, observed, payload)
      PROVE  LogTyped' /\ IsolatedStep
  <2>1. v \in live /\ live' = live
    BY <1>1 DEF append
  <2>2. PICK e : SetOverlay(v, overlay[v] \cup {e}, Append(overlay_order[v], e))
    BY <1>1 DEF append
  <2>3. Append(overlay_order[v], e) \in Seq(overlay[v] \cup {e})
    <3>1. overlay_order[v] \in Seq(overlay[v] \cup {e})
      BY <1>i, <2>1, SeqMonotone
    <3> QED  BY <3>1
  <2>4. /\ Known(v)' = (overlay[v] \cup {e}) \cup base
        /\ \A w \in live \ {v} : Known(w)' = Known(w)
    BY <1>i, <2>1, <2>2, SetOverlayKnown
  <2>5. Known(v)' = Known(v) \cup {e}
    BY <2>4 DEF Known
  <2>6. /\ LogTyped' /\ Log(v)' = order \o Append(overlay_order[v], e)
        /\ \A w \in live \ {v} : Log(w)' = Log(w)
    BY <2>1, <2>2, <2>3, SetOverlayLog
  <2> QED  BY <2>1, <2>4, <2>5, <2>6, OneViewMoves
<1>2. ASSUME NEW v \in Views, NEW a \in Actors, NEW observed, NEW payload,
             NEW chain_previous, PushBatch(v, a, observed, chain_previous, payload)
      PROVE  LogTyped' /\ IsolatedStep
  <2>1. v \in live /\ live' = live /\ base' = base /\ order' = order
    BY <1>2 DEF PushBatch
  <2>2. PICK e : /\ overlay' = [overlay EXCEPT ![v] = @ \cup {e}]
                 /\ overlay_order' = [overlay_order EXCEPT ![v] = Append(@, e)]
    BY <1>2 DEF PushBatch
  <2>3. /\ DOMAIN overlay_order' = Views
        /\ overlay'[v] = overlay[v] \cup {e} /\ overlay_order'[v] = Append(overlay_order[v], e)
        /\ \A w \in live \ {v} : overlay'[w] = overlay[w] /\ overlay_order'[w] = overlay_order[w]
    BY <1>i, <2>2
  <2>4. Append(overlay_order[v], e) \in Seq(overlay[v] \cup {e})
    <3>1. overlay_order[v] \in Seq(overlay[v] \cup {e})
      BY <1>i, <2>1, SeqMonotone
    <3> QED  BY <3>1
  <2>5. LogTyped'
    BY <1>i, <2>1, <2>3, <2>4 DEF LogTyped
  <2>6. Known(v)' = Known(v) \cup {e} /\ \A w \in live \ {v} : Known(w)' = Known(w)
    BY <2>1, <2>3 DEF Known
  <2>7. /\ Log(v)' = order \o Append(overlay_order[v], e)
        /\ \A w \in live \ {v} : Log(w)' = Log(w)
    BY <2>1, <2>3 DEF Log
  <2> QED  BY <2>1, <2>5, <2>6, <2>7, OneViewMoves
<1>3. ASSUME UNCHANGED <<live, base, order, overlay, overlay_order>>
      PROVE  LogTyped' /\ IsolatedStep
  <2>1. \A w \in live : Log(w)' = Log(w) /\ Known(w)' = Known(w)
    BY <1>3 DEF Log, Known
  <2>2. LogTyped'
    BY <1>3, <1>i DEF LogTyped
  <2> QED  BY <2>1, <2>2, NoViewMoves
<1>4. ASSUME NEW v \in Views, EndBatch(v) PROVE LogTyped' /\ IsolatedStep
  <2>1. v \in live /\ live' = live /\ SetOverlay(v, overlay[v], overlay_order[v])
    BY <1>4 DEF EndBatch
  <2>2. overlay_order[v] \in Seq(overlay[v])
    BY <1>i, <2>1
  <2>3. Known(v)' = overlay[v] \cup base /\ \A w \in live \ {v} : Known(w)' = Known(w)
    BY <1>i, <2>1, SetOverlayKnown
  <2>4. /\ LogTyped' /\ Log(v)' = order \o overlay_order[v]
        /\ \A w \in live \ {v} : Log(w)' = Log(w)
    BY <2>1, <2>2, SetOverlayLog
  <2>5. Log(v)' = Log(v) /\ Known(v)' = Known(v)
    BY <2>3, <2>4 DEF Log, Known
  <2>6. \A w \in live : Log(w)' = Log(w) /\ Known(w)' = Known(w)
    BY <2>3, <2>4, <2>5
  <2> QED  BY <2>1, <2>4, <2>6, NoViewMoves
<1>5. ASSUME NEW v \in Views, NEW w \in Views, fork(v, w) PROVE LogTyped' /\ IsolatedStep
  <2>1. /\ v \in live /\ w \notin live /\ live' = live \cup {w}
        /\ base' = base /\ order' = order
        /\ overlay' = [overlay EXCEPT ![w] = overlay[v]]
        /\ overlay_order' = [overlay_order EXCEPT ![w] = overlay_order[v]]
    BY <1>5 DEF fork
  <2>2. /\ DOMAIN overlay_order' = Views
        /\ overlay'[w] = overlay[v] /\ overlay_order'[w] = overlay_order[v]
        /\ \A u \in live : overlay'[u] = overlay[u] /\ overlay_order'[u] = overlay_order[u]
    BY <1>i, <2>1
  <2>3. \A u \in live' : overlay_order'[u] \in Seq(overlay'[u])
    BY <1>i, <2>1, <2>2
  <2>4. LogTyped'
    BY <1>i, <2>1, <2>2, <2>3 DEF LogTyped
  <2>5. \A u \in live : Log(u)' = Log(u) /\ Known(u)' = Known(u)
    BY <2>1, <2>2 DEF Log, Known
  <2> QED  BY <2>4, <2>5, NoViewMoves
<1>6. ASSUME NEW v \in Views, Drop(v) PROVE LogTyped' /\ IsolatedStep
  <2>1. /\ live' = live \ {v} /\ base' = base /\ order' = order
        /\ overlay' = [overlay EXCEPT ![v] = {}]
        /\ overlay_order' = [overlay_order EXCEPT ![v] = <<>>]
    BY <1>6 DEF Drop
  <2>2. /\ DOMAIN overlay_order' = Views
        /\ \A u \in live' : /\ u \in live
                            /\ overlay'[u] = overlay[u] /\ overlay_order'[u] = overlay_order[u]
    BY <1>i, <2>1
  <2>3. LogTyped'
    BY <1>i, <2>1, <2>2 DEF LogTyped
  <2>4. \A u \in live \cap live' : Log(u)' = Log(u) /\ Known(u)' = Known(u)
    BY <2>1, <2>2 DEF Log, Known
  <2> QED  BY <2>3, <2>4, NoViewMoves
<1>7. ASSUME NEW v \in Views, StartBatch(v) \/ FailBatch(v)
      PROVE  UNCHANGED <<live, base, order, overlay, overlay_order>>
  BY <1>7 DEF StartBatch, FailBatch
<1>8. CASE UNCHANGED vars
  BY <1>3, <1>8 DEF vars
<1> QED  BY <1>1, <1>2, <1>3, <1>4, <1>5, <1>6, <1>7, <1>8 DEF Next

\* Whatever one fork does, the others keep exactly their entries, and no view
\* loses or reorders what it has: a freeze only ever extends an unshared base.
THEOREM IsolationAlways == Spec => ForksIsolated
<1>1. Init => LInv
  <2>1. Init => LogTyped
    BY EmptySeq DEF Init, LogTyped
  <2> QED  BY <2>1, InitGood DEF LInv
<1>2. LInv /\ [Next]_vars => LInv'
  BY StepGood, StepIsolated DEF LInv
<1>3. LInv /\ [Next]_vars =>
        [\A v \in live \cap live' :
            /\ Len(Log(v)') >= Len(Log(v)) /\ SubSeq(Log(v)', 1, Len(Log(v))) = Log(v)
            /\ Known(v) \subseteq Known(v)'
            /\ (Known(v)' # Known(v) =>
                    \A w \in (live \cap live') \ {v} : Known(w)' = Known(w))]_vars
  BY StepIsolated DEF IsolatedStep, Extends
<1> QED  BY <1>1, <1>2, <1>3, PTL DEF Spec, ForksIsolated
=============================================================================
