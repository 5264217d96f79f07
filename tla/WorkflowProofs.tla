--------------------------- MODULE WorkflowProofs ---------------------------
(***************************************************************************)
(* Proofs about durable workflows: what a running workflow believes, what a *)
(* recovered one reads from the journal, and the order of the effects.      *)
(***************************************************************************)
EXTENDS Workflow, FiniteSetTheorems, TLAPS

Entry == [kind : {"StepBegin", "StepEnd"}, name : STRING \cup {""}, value : Nat]
IsBegin(i) == journal[i].kind = "StepBegin"
BeginSet(log) == {i \in DOMAIN log : log[i].kind = "StepBegin"}

FlowTypeOK ==
    /\ journal \in Seq(Entry)
    /\ wf \in [step_counter : Nat, completed_steps : Seq(STRING \X Nat), plan : Plans \cup {NoPlan}]
    /\ IsDistinct(wf.plan)
    /\ pc \in {"idle", "down", "step", "exec", "end"}
    /\ todo \in Seq(STRING) /\ evidence \in Nat /\ begin \in Nat
    /\ outcomes \in Seq(STRING \X {"Skipped", "Rerun", "Executed"} \X Nat)
    /\ effects \in Seq(STRING)

\* Begins are at odd places and each but the last is followed by its end; a step has
\* one begin; an end has the value of an effect of its step.
Shaped(log, done) ==
    /\ \A i \in 1..Len(log) : \E k \in Nat :
          \/ i = 2 * k + 1 /\ log[i].kind = "StepBegin"
          \/ i = 2 * k + 2 /\ log[i].kind = "StepEnd"
    /\ \A i, j \in 1..Len(log) :
          /\ log[i].kind = "StepBegin" /\ log[j].kind = "StepBegin"
          /\ log[i].name = log[j].name
          => i = j
    /\ \A i \in 1..Len(log) :
          log[i].kind = "StepEnd" => /\ log[i].value \in 1..Len(done)
                                     /\ done[log[i].value] = log[i - 1].name

Ranks(log) == \A k \in 1..Cardinality(Completions(log)) : Ranked(Completions(log), k) # {}

\* What the running workflow has counted is what the journal tells.
Agrees ==
    /\ wf.completed_steps = completed(journal)
    /\ wf.step_counter = Cardinality(BeginSet(journal))
    /\ Ranks(journal)

\* Where resume is, when the step it handles is number h of the plan.  Whatever was
\* appended since the scan is about steps that it has handled.
AtStep(h) ==
    /\ Len(todo) = Len(wf.plan) + 1 - h
    /\ \A i \in 1..Len(todo) : todo[i] = wf.plan[h - 1 + i]
    /\ evidence <= Len(journal)
    /\ \A i \in 1..h - 1 : wf.plan[i] \in CompletedNames(journal)
    /\ evidence < Len(journal) =>
          \A i \in 1..Len(journal) : i >= evidence /\ IsBegin(i) =>
             \E g \in 1..Len(wf.plan) :
                /\ journal[i].name = wf.plan[g]
                /\ g < h \/ (g = h /\ pc # "step")
    /\ pc # "step" => /\ h <= Len(wf.plan) /\ begin = Len(journal) /\ Len(journal) > 0
                      /\ IsBegin(Len(journal)) /\ journal[Len(journal)].name = wf.plan[h]
    /\ pc = "end" => Len(effects) > 0 /\ effects[Len(effects)] = wf.plan[h]
    /\ Len(outcomes) = h - 1
    /\ \A i \in 1..h - 1 :
          /\ outcomes[i][1] = wf.plan[i]
          /\ \E c \in Completions(journal) : Completion(journal, c) = <<wf.plan[i], outcomes[i][3]>>

Resuming == pc \in {"step", "exec", "end"}

Good ==
    /\ FlowTypeOK /\ Shaped(journal, effects) /\ Agrees
    /\ pc # "down" /\ wf.plan # NoPlan => GoesOn(wf.plan)
    /\ Resuming => wf.plan # NoPlan /\ \E h \in 1..Len(wf.plan) + 1 : AtStep(h)

\* The inductive invariant.
FlowInv == astray \in BOOLEAN /\ (~astray => Good)

-----------------------------------------------------------------------------
(* Enumerating a set of places in order.                                    *)

LEMMA SubsetFinite ==
    ASSUME NEW n \in Nat, NEW S \in SUBSET (1..n)
    PROVE  IsFiniteSet(S) /\ Cardinality(S) \in Nat
<1>1. IsFiniteSet(1..n)
  BY FS_Interval
<1>2. IsFiniteSet(S)
  BY <1>1, FS_Subset, Zenon
<1> QED BY <1>2, FS_CardinalityType

\* A place after all others has the next rank and changes no other.
LEMMA RankExtend ==
    ASSUME NEW n \in Nat, NEW S \in SUBSET (1..n)
    PROVE  /\ Cardinality(S \cup {n + 1}) = Cardinality(S) + 1
           /\ \A k \in 1..Cardinality(S) : Ranked(S \cup {n + 1}, k) = Ranked(S, k)
           /\ Ranked(S \cup {n + 1}, Cardinality(S) + 1) = {n + 1}
<1> DEFINE T == S \cup {n + 1}
<1>1. IsFiniteSet(S) /\ Cardinality(S) \in Nat
  BY SubsetFinite
<1>2. n + 1 \notin S /\ \A i \in S : i \in Nat /\ i <= n
  OBVIOUS
<1>3. Cardinality(T) = Cardinality(S) + 1
  BY <1>1, <1>2, FS_AddElement
<1>4. {j \in T : j <= n + 1} = T
  <2>1. \A j \in T : j <= n + 1
    BY <1>2
  <2> QED BY <2>1, Zenon
<1>5. \A i \in S : {j \in T : j <= i} = {j \in S : j <= i}
  <2> TAKE i \in S
  <2>1. ~(n + 1 <= i)
    BY <1>2
  <2> QED BY <2>1
<1>6. \A i \in S : Cardinality({j \in S : j <= i}) \in Nat /\ Cardinality({j \in S : j <= i}) <= Cardinality(S)
  <2> TAKE i \in S
  <2>1. {j \in S : j <= i} \in SUBSET S
    OBVIOUS
  <2>2. IsFiniteSet({j \in S : j <= i}) /\ Cardinality({j \in S : j <= i}) <= Cardinality(S)
    BY <1>1, <2>1, FS_Subset
  <2> QED BY <2>2, FS_CardinalityType
<1>7. \A k : Ranked(T, k) = {i \in S : Cardinality({j \in S : j <= i}) = k}
                            \cup (IF Cardinality(S) + 1 = k THEN {n + 1} ELSE {})
  <2> TAKE k
  <2>1. \A i \in S : Cardinality({j \in T : j <= i}) = Cardinality({j \in S : j <= i})
    BY <1>5
  <2>2. Cardinality({j \in T : j <= n + 1}) = Cardinality(S) + 1
    BY <1>3, <1>4
  <2> HIDE DEF T
  <2>3. \A i : i \in T <=> i \in S \/ i = n + 1
    BY DEF T
  <2> QED BY <1>2, <2>1, <2>2, <2>3, Zenon DEF Ranked
<1>8. \A k \in 1..Cardinality(S) : Ranked(T, k) = Ranked(S, k)
  <2> TAKE k \in 1..Cardinality(S)
  <2>1. Cardinality(S) + 1 # k
    BY <1>1
  <2> QED BY <1>7, <2>1 DEF Ranked
<1>9. Ranked(T, Cardinality(S) + 1) = {n + 1}
  <2>1. {i \in S : Cardinality({j \in S : j <= i}) = Cardinality(S) + 1} = {}
    <3>1. \A i \in S : Cardinality({j \in S : j <= i}) # Cardinality(S) + 1
      BY <1>1, <1>6
    <3> QED BY <3>1, Zenon
  <2> QED BY <1>7, <2>1, Zenon
<1> QED BY <1>3, <1>8, <1>9

\* Every place has a rank, which no other has.
LEMMA RankOf ==
    ASSUME NEW n \in Nat, NEW S \in SUBSET (1..n), NEW c \in S
    PROVE  \E k \in 1..Cardinality(S) : Nth(S, k) = c
<1> DEFINE below(i) == {j \in S : j <= i}
           k == Cardinality(below(c))
<1>o. \A a, b, d \in S : a <= b /\ b <= d => a <= d
  OBVIOUS
<1>1. IsFiniteSet(S) /\ Cardinality(S) \in Nat
  BY SubsetFinite, Zenon
<1>2. \A i \in S : IsFiniteSet(below(i)) /\ Cardinality(below(i)) \in Nat /\ Cardinality(below(i)) <= Cardinality(S)
  <2> TAKE i \in S
  <2>1. below(i) \in SUBSET S
    OBVIOUS
  <2>2. IsFiniteSet(below(i)) /\ Cardinality(below(i)) <= Cardinality(S)
    BY <1>1, <2>1, FS_Subset
  <2> QED BY <2>2, FS_CardinalityType
<1>3. k # 0
  <2>1. c \in below(c)
    OBVIOUS
  <2> QED BY <1>2, <2>1, FS_EmptySet
<1>4. k \in 1..Cardinality(S)
  BY <1>1, <1>2, <1>3
<1>5. ASSUME NEW i \in S, Cardinality(below(i)) = k PROVE i = c
  <2>1. i <= c \/ c <= i
    OBVIOUS
  <2>2. CASE i <= c
    <3>1. below(i) \in SUBSET below(c)
      BY <1>o, <2>2, Zenon
    <3>2. below(i) = below(c)
      BY <1>2, <1>5, <3>1, FS_Subset
    <3>3. c \in below(i)
      BY <3>2
    <3> QED BY <2>2, <3>3
  <2>3. CASE c <= i
    <3>1. below(c) \in SUBSET below(i)
      BY <1>o, <2>3, Zenon
    <3>2. below(i) = below(c)
      BY <1>2, <1>5, <3>1, FS_Subset
    <3>3. i \in below(c)
      BY <3>2
    <3> QED BY <2>3, <3>3
  <2> QED BY <2>1, <2>2, <2>3
<1>6. Ranked(S, k) = {c}
  BY <1>5, Zenon DEF Ranked
<1>7. Nth(S, k) = c
  BY <1>6 DEF Nth
<1> QED BY <1>4, <1>7

-----------------------------------------------------------------------------
(* What one more entry does to what the journal tells.                      *)

LEMMA AppendFacts ==
    ASSUME NEW S, NEW s \in Seq(S), NEW e \in S
    PROVE  /\ Append(s, e) \in Seq(S) /\ Len(Append(s, e)) = Len(s) + 1
           /\ DOMAIN Append(s, e) = 1..Len(s) + 1 /\ DOMAIN s = 1..Len(s) /\ Len(s) \in Nat
           /\ \A i \in 1..Len(s) : Append(s, e)[i] = s[i]
           /\ Append(s, e)[Len(s) + 1] = e
OBVIOUS

EndsStep(log, e) == Len(log) > 0 /\ e.kind = "StepEnd" /\ log[Len(log)].kind = "StepBegin"

LEMMA CompletionsAppend ==
    ASSUME NEW log \in Seq(Entry), NEW e \in Entry
    PROVE  /\ Completions(log) \in SUBSET (1..Len(log))
           /\ Completions(Append(log, e)) =
                 Completions(log) \cup (IF EndsStep(log, e) THEN {Len(log) + 1} ELSE {})
           /\ \A c \in Completions(log) : c - 1 \in 1..Len(log)
           /\ \A c \in 1..Len(log) : c - 1 \in 1..Len(log) => Completion(Append(log, e), c) = Completion(log, c)
           /\ BeginSet(log) \in SUBSET (1..Len(log))
           /\ BeginSet(Append(log, e)) =
                 BeginSet(log) \cup (IF e.kind = "StepBegin" THEN {Len(log) + 1} ELSE {})
<1> DEFINE new == Append(log, e)
           n == Len(log)
<1>1. /\ DOMAIN new = 1..n + 1 /\ DOMAIN log = 1..n /\ n \in Nat
      /\ \A i \in 1..n : new[i] = log[i]
      /\ new[n + 1] = e
  BY AppendFacts
<1> HIDE DEF new, n
<1>2. \A c \in 1..n : IsCompletion(log, c) => c - 1 \in 1..n
  BY <1>1 DEF IsCompletion
<1>3. \A c \in 1..n : IsCompletion(new, c) <=> IsCompletion(log, c)
  <2> TAKE c \in 1..n
  <2>1. c > 1 => c - 1 \in 1..n
    BY <1>1
  <2> QED BY <1>1, <2>1 DEF IsCompletion
<1>4. IsCompletion(new, n + 1) <=> n > 0 /\ e.kind = "StepEnd" /\ log[n].kind = "StepBegin"
  <2>1. n + 1 > 1 <=> n > 0
    BY <1>1
  <2>2. n + 1 - 1 = n /\ (n > 0 => n \in 1..n)
    BY <1>1
  <2> QED BY <1>1, <2>1, <2>2 DEF IsCompletion
<1>5. \A c : c \in 1..n + 1 <=> c \in 1..n \/ c = n + 1
  BY <1>1
<1>6. Completions(new) = Completions(log) \cup (IF EndsStep(log, e) THEN {n + 1} ELSE {})
  BY <1>1, <1>3, <1>4, <1>5 DEF Completions, EndsStep, n
<1>7. BeginSet(new) = BeginSet(log) \cup (IF e.kind = "StepBegin" THEN {n + 1} ELSE {})
  BY <1>1, <1>5 DEF BeginSet
<1>8. \A c \in 1..n : c - 1 \in 1..n => Completion(new, c) = Completion(log, c)
  BY <1>1 DEF Completion
<1>9. Completions(log) \in SUBSET (1..n) /\ BeginSet(log) \in SUBSET (1..n)
  BY <1>1 DEF Completions, BeginSet
<1> QED BY <1>1, <1>2, <1>6, <1>7, <1>8, <1>9 DEF Completions, new, n

LEMMA NthIn ==
    ASSUME NEW S, NEW k, Ranked(S, k) # {}
    PROVE  Nth(S, k) \in S
<1>1. Nth(S, k) \in Ranked(S, k)
  BY DEF Nth
<1> QED BY <1>1 DEF Ranked

\* An entry that completes no step leaves the completed steps as they are.
LEMMA CompletedSame ==
    ASSUME NEW log \in Seq(Entry), NEW e \in Entry, Ranks(log), ~EndsStep(log, e)
    PROVE  completed(Append(log, e)) = completed(log) /\ Ranks(Append(log, e))
<1>1. Completions(Append(log, e)) = Completions(log)
  BY CompletionsAppend, Zenon
<1>2. \A k \in 1..Cardinality(Completions(log)) :
         Completion(Append(log, e), Nth(Completions(log), k)) = Completion(log, Nth(Completions(log), k))
  <2> TAKE k \in 1..Cardinality(Completions(log))
  <2>1. Nth(Completions(log), k) \in Completions(log)
    BY NthIn DEF Ranks
  <2> QED BY <2>1, CompletionsAppend
<1>3. completed(Append(log, e)) = completed(log)
  BY <1>1, <1>2 DEF completed
<1> QED BY <1>1, <1>3 DEF Ranks

\* An end after a begin adds one completed step, after the others.
LEMMA CompletedMore ==
    ASSUME NEW log \in Seq(Entry), NEW e \in Entry, Ranks(log), EndsStep(log, e)
    PROVE  /\ completed(Append(log, e)) = Append(completed(log), <<log[Len(log)].name, e.value>>)
           /\ Ranks(Append(log, e))
<1> DEFINE C == Completions(log)
           D == Completions(Append(log, e))
           m == Cardinality(C)
           n == Len(log)
<1>1. /\ C \in SUBSET (1..n) /\ D = C \cup {n + 1} /\ n \in Nat
      /\ \A c \in C : c - 1 \in 1..n
      /\ \A c \in 1..n : c - 1 \in 1..n => Completion(Append(log, e), c) = Completion(log, c)
  BY CompletionsAppend
<1>2. m \in Nat
  BY <1>1, SubsetFinite, Zenon
<1> HIDE DEF D, m
<1>3. /\ Cardinality(D) = m + 1
      /\ \A k \in 1..m : Ranked(D, k) = Ranked(C, k)
      /\ Ranked(D, m + 1) = {n + 1}
  <2> HIDE DEF C, n
  <2> QED BY <1>1, RankExtend, Zenon DEF m
<1>4. \A k : k \in 1..m + 1 <=> k \in 1..m \/ k = m + 1
  BY <1>2
<1>5. \A k \in 1..m : Nth(D, k) = Nth(C, k) /\ Nth(C, k) \in C
  <2> TAKE k \in 1..m
  <2>1. Nth(D, k) = Nth(C, k)
    BY <1>3 DEF Nth
  <2>2. Ranked(C, k) # {}
    BY DEF Ranks, m
  <2> QED BY <2>1, <2>2, NthIn
<1>6. Nth(D, m + 1) = n + 1
  BY <1>3 DEF Nth
<1>7. Completion(Append(log, e), n + 1) = <<log[n].name, e.value>>
  <2>1. n > 0 /\ n + 1 - 1 = n /\ n \in 1..n
    BY <1>1 DEF EndsStep
  <2>2. Append(log, e)[n] = log[n] /\ Append(log, e)[n + 1] = e
    BY <2>1, AppendFacts
  <2> QED BY <2>1, <2>2 DEF Completion
<1>8. completed(log) = [k \in 1..m |-> Completion(log, Nth(C, k))]
  BY DEF completed, m
<1>9. completed(Append(log, e)) = [k \in 1..m + 1 |-> Completion(Append(log, e), Nth(D, k))]
  BY <1>3 DEF completed, D
<1> HIDE DEF C, n
<1>10. \A k \in 1..m : Completion(Append(log, e), Nth(D, k)) = completed(log)[k]
  BY <1>1, <1>5, <1>8, Zenon
<1>11. Append(completed(log), <<log[n].name, e.value>>) =
          [k \in 1..m + 1 |-> IF k = m + 1 THEN <<log[n].name, e.value>> ELSE completed(log)[k]]
  BY <1>2, <1>8
<1>12. completed(Append(log, e)) = Append(completed(log), <<log[n].name, e.value>>)
  BY <1>4, <1>6, <1>7, <1>9, <1>10, <1>11, Zenon
<1>13. Ranks(Append(log, e))
  <2>1. \A k \in 1..m : Ranked(D, k) # {}
    BY <1>3 DEF Ranks, m, C
  <2>2. Ranked(D, m + 1) # {}
    BY <1>3, Zenon
  <2> QED BY <1>3, <1>4, <2>1, <2>2 DEF Ranks, D
<1> QED BY <1>12, <1>13 DEF n

-----------------------------------------------------------------------------
(* Reading a journal of that shape.                                         *)

LEMMA ShapeFacts ==
    ASSUME NEW log \in Seq(Entry), NEW done, Shaped(log, done)
    PROVE  /\ Len(log) \in Nat /\ DOMAIN log = 1..Len(log)
           /\ \A i \in 1..Len(log) : log[i].kind = "StepBegin" /\ i # Len(log) => i + 1 \in Completions(log)
           /\ \A i \in 1..Len(log) : log[i].kind = "StepEnd" => i \in Completions(log)
           /\ \A c \in Completions(log) :
                 /\ c \in 1..Len(log) /\ c - 1 \in 1..Len(log)
                 /\ log[c].kind = "StepEnd" /\ log[c - 1].kind = "StepBegin"
           /\ Len(log) > 0 /\ log[Len(log)].kind = "StepBegin" => \E k \in Nat : Len(log) = 2 * k + 1
           /\ Len(log) > 0 /\ log[Len(log)].kind = "StepEnd" => \E k \in Nat : Len(log) = 2 * k
           /\ \A i \in 1..Len(log) : log[i].kind = "StepBegin" \/ log[i].kind = "StepEnd"
<1> DEFINE n == Len(log)
<1>1. n \in Nat /\ DOMAIN log = 1..n
  OBVIOUS
<1> HIDE DEF n
<1>2. \A i \in 1..n : \E k \in Nat :
         (i = 2 * k + 1 /\ log[i].kind = "StepBegin") \/ (i = 2 * k + 2 /\ log[i].kind = "StepEnd")
  BY Zenon DEF Shaped, n
<1>3. \A i \in 1..n : log[i].kind = "StepBegin" /\ i # n => i + 1 \in 1..n /\ log[i + 1].kind = "StepEnd"
  <2> TAKE i \in 1..n
  <2> HAVE log[i].kind = "StepBegin" /\ i # n
  <2>1. i + 1 \in 1..n
    BY <1>1
  <2>2. PICK k \in Nat : i = 2 * k + 1
    BY <1>2, Zenon
  <2>3. PICK j \in Nat : (i + 1 = 2 * j + 1 /\ log[i + 1].kind = "StepBegin")
                         \/ (i + 1 = 2 * j + 2 /\ log[i + 1].kind = "StepEnd")
    BY <1>2, <2>1, Zenon
  <2>4. i + 1 # 2 * j + 1
    BY <2>2
  <2> QED BY <2>1, <2>3, <2>4
<1>4. \A i \in 1..n : log[i].kind = "StepEnd" => i > 1 /\ i - 1 \in 1..n /\ log[i - 1].kind = "StepBegin"
  <2> TAKE i \in 1..n
  <2> HAVE log[i].kind = "StepEnd"
  <2>1. PICK k \in Nat : i = 2 * k + 2
    BY <1>2
  <2>2. i > 1 /\ i - 1 \in 1..n
    BY <1>1, <2>1
  <2>3. PICK j \in Nat : (i - 1 = 2 * j + 1 /\ log[i - 1].kind = "StepBegin")
                         \/ (i - 1 = 2 * j + 2 /\ log[i - 1].kind = "StepEnd")
    BY <1>2, <2>2
  <2>4. i - 1 # 2 * j + 2
    BY <2>1
  <2> QED BY <2>2, <2>3, <2>4
<1>5. \A i \in 1..n : log[i].kind = "StepEnd" => i \in Completions(log)
  BY <1>1, <1>4 DEF Completions, IsCompletion
<1>6. \A i \in 1..n : log[i].kind = "StepBegin" /\ i # n => i + 1 \in Completions(log)
  BY <1>3, <1>5
<1>7. \A c \in Completions(log) :
         /\ c \in 1..n /\ c - 1 \in 1..n
         /\ log[c].kind = "StepEnd" /\ log[c - 1].kind = "StepBegin"
  BY <1>1, <1>4 DEF Completions, IsCompletion
<1>8. n > 0 => n \in 1..n
  BY <1>1
<1>9. n > 0 /\ log[n].kind = "StepBegin" => \E k \in Nat : n = 2 * k + 1
  BY <1>2, <1>8
<1>10. ASSUME n > 0, log[n].kind = "StepEnd" PROVE \E k \in Nat : n = 2 * k
  <2>1. PICK k \in Nat : n = 2 * k + 2
    BY <1>2, <1>8, <1>10, Zenon
  <2>2. k + 1 \in Nat /\ n = 2 * (k + 1)
    BY <2>1
  <2> QED BY <2>2
<1> QED BY <1>1, <1>2, <1>5, <1>6, <1>7, <1>9, <1>10, Zenon DEF n

LEMMA StateFacts ==
    ASSUME Good
    PROVE  /\ journal \in Seq(Entry) /\ Len(journal) \in Nat /\ DOMAIN journal = 1..Len(journal)
           /\ Shaped(journal, effects) /\ evidence \in Nat
           /\ effects \in Seq(STRING) /\ Len(effects) \in Nat
           /\ outcomes \in Seq(STRING \X {"Skipped", "Rerun", "Executed"} \X Nat)
<1>1. /\ journal \in Seq(Entry) /\ effects \in Seq(STRING) /\ evidence \in Nat
      /\ outcomes \in Seq(STRING \X {"Skipped", "Rerun", "Executed"} \X Nat)
      /\ Shaped(journal, effects)
  BY DEF Good, FlowTypeOK
<1> QED BY <1>1

LEMMA PlanFacts ==
    ASSUME Good, wf.plan # NoPlan
    PROVE  wf.plan \in Seq(STRING) /\ Len(wf.plan) \in Nat /\ DOMAIN wf.plan = 1..Len(wf.plan)
<1>1. wf.plan \in Plans
  BY DEF Good, FlowTypeOK
<1>2. wf.plan \in Seq(STRING)
  BY <1>1, WorkflowAssumption
<1> QED BY <1>2

\* While a step runs there is a step to run.
LEMMA RunningFacts ==
    ASSUME Good, wf.plan # NoPlan, NEW h \in 1..Len(wf.plan) + 1, AtStep(h), pc # "step"
    PROVE  todo # <<>>
<1>1. h <= Len(wf.plan) /\ Len(todo) = Len(wf.plan) + 1 - h
  BY DEF AtStep
<1>2. Len(todo) > 0
  BY <1>1, PlanFacts
<1> QED BY <1>2

\* What resume finds of a step in the part of the journal that it scanned.
LEMMA ScanFacts ==
    ASSUME Good, evidence <= Len(journal), NEW name
    PROVE  /\ IsPending(name) => \A i \in 1..Len(journal) : IsBegin(i) /\ journal[i].name = name => i > evidence
           /\ ~IsPending(name) =>
                 \E b \in 1..evidence :
                    /\ b \in 1..Len(journal) /\ IsBegin(b) /\ journal[b].name = name
                    /\ Latest(begins(Scanned, name)) = b
                    /\ Paired(Scanned, b) <=> b + 1 <= evidence /\ journal[b + 1].kind = "StepEnd"
                    /\ b + 1 <= evidence => Scanned[b + 1] = journal[b + 1]
<1>1. /\ journal \in Seq(Entry) /\ evidence \in Nat /\ Len(journal) \in Nat
      /\ Shaped(journal, effects)
  BY DEF Good, FlowTypeOK
<1>2. DOMAIN Scanned = 1..evidence /\ \A i \in 1..evidence : Scanned[i] = journal[i]
  BY <1>1 DEF Scanned
<1>3. \A i : i \in begins(Scanned, name) <=> i \in 1..evidence /\ IsBegin(i) /\ journal[i].name = name
  BY <1>2 DEF begins, IsBegin
<1>4. ASSUME IsPending(name), NEW i \in 1..Len(journal), IsBegin(i), journal[i].name = name
      PROVE  i > evidence
  BY <1>1, <1>3, <1>4 DEF IsPending
<1>5. ASSUME ~IsPending(name)
      PROVE  \E b \in 1..evidence :
                    /\ b \in 1..Len(journal) /\ IsBegin(b) /\ journal[b].name = name
                    /\ Latest(begins(Scanned, name)) = b
                    /\ Paired(Scanned, b) <=> b + 1 <= evidence /\ journal[b + 1].kind = "StepEnd"
                    /\ b + 1 <= evidence => Scanned[b + 1] = journal[b + 1]
  <2>1. PICK b : b \in begins(Scanned, name)
    BY <1>5 DEF IsPending
  <2>2. b \in 1..evidence /\ b \in 1..Len(journal) /\ IsBegin(b) /\ journal[b].name = name
    BY <1>1, <1>3, <2>1
  <2>3. \A i \in begins(Scanned, name) : i \in 1..Len(journal) /\ IsBegin(i) /\ journal[i].name = name
    BY <1>1, <1>3
  <2>4. begins(Scanned, name) = {b}
    BY <1>1, <2>1, <2>2, <2>3, Zenon DEF Shaped, IsBegin
  <2>5. Latest({b}) = b
    <3>1. b <= b
      BY <2>2
    <3> QED BY <3>1 DEF Latest
  <2>6. b + 1 \in 1..evidence <=> b + 1 <= evidence
    BY <1>1, <2>2
  <2> QED BY <1>2, <2>2, <2>4, <2>5, <2>6 DEF Paired
<1> QED BY <1>4, <1>5

-----------------------------------------------------------------------------
(* The inductive invariant holds at first and every step keeps it.          *)

LEMMA FlowInitInv == FlowInit => FlowInv
<1> SUFFICES ASSUME FlowInit PROVE Good
  BY Zenon DEF FlowInit, FlowInv
<1>1. /\ journal = <<>> /\ DOMAIN journal = {} /\ Len(journal) = 0
      /\ wf = [step_counter |-> 0, completed_steps |-> <<>>, plan |-> NoPlan]
      /\ pc = "idle" /\ todo = <<>> /\ evidence = 0 /\ begin = 0 /\ outcomes = <<>> /\ effects = <<>>
  BY DEF FlowInit
<1>2. FlowTypeOK
  BY <1>1 DEF FlowTypeOK, IsDistinct, NoPlan
<1>3. Shaped(journal, effects)
  BY <1>1 DEF Shaped
<1>4. Completions(journal) = {} /\ BeginSet(journal) = {}
  BY <1>1 DEF Completions, BeginSet
<1>5. Cardinality({}) = 0
  BY FS_EmptySet
<1>6. completed(journal) = <<>>
  <2>1. 1..0 = {}
    OBVIOUS
  <2> QED BY <1>4, <1>5, <2>1 DEF completed
<1>7. Agrees
  <2>1. 1..0 = {}
    OBVIOUS
  <2>2. Ranks(journal)
    BY <1>4, <1>5, <2>1 DEF Ranks
  <2> QED BY <1>1, <1>4, <1>5, <1>6, <2>2, Zenon DEF Agrees
<1> QED BY <1>1, <1>2, <1>3, <1>7 DEF Good, Resuming

\* A step that leaves the journal, the effects and the counts alone and ends outside of
\* resume.
LEMMA QuietStep ==
    ASSUME Good, UNCHANGED <<journal, wf, locals, effects>>, pc' \in {"idle", "down"},
           pc = "down" => pc' = "down"
    PROVE  Good'
<1>1. FlowTypeOK' /\ Shaped(journal, effects)' /\ Agrees'
  BY DEF Good, FlowTypeOK, Agrees, locals
<1>2. (pc # "down" /\ wf.plan # NoPlan => GoesOn(wf.plan))'
  BY DEF Good, GoesOn
<1> QED BY <1>1, <1>2 DEF Good, Resuming

LEMMA RecoverKeeps ==
    ASSUME Good, recover_from_journal
    PROVE  Good'
<1>1. wf'.step_counter = wf.step_counter /\ wf'.completed_steps = wf.completed_steps /\ wf'.plan = NoPlan
  BY DEF recover_from_journal, Good, Agrees, BeginSet
<1>2. wf' = [step_counter |-> wf.step_counter, completed_steps |-> wf.completed_steps, plan |-> NoPlan]
  BY DEF recover_from_journal, Good, Agrees, BeginSet
<1>3. journal' = journal /\ effects' = effects /\ pc' = "idle" /\ UNCHANGED locals
  BY DEF recover_from_journal
<1>4. FlowTypeOK'
  BY <1>2, <1>3 DEF Good, FlowTypeOK, locals, IsDistinct, NoPlan
<1>5. Shaped(journal, effects)' /\ Agrees'
  BY <1>1, <1>3 DEF Good, Agrees
<1> QED BY <1>1, <1>3, <1>4, <1>5 DEF Good, Resuming

LEMMA SetPlanKeeps ==
    ASSUME Good, NEW steps \in Plans, set_plan(steps), ~astray'
    PROVE  Good'
<1>1. /\ wf' = [wf EXCEPT !.plan = steps] /\ journal' = journal /\ effects' = effects
      /\ pc' = "idle" /\ UNCHANGED locals /\ IsDistinct(steps)
  BY DEF set_plan
<1>2. /\ wf'.plan = steps /\ wf'.step_counter = wf.step_counter
      /\ wf'.completed_steps = wf.completed_steps
      /\ wf' \in [step_counter : Nat, completed_steps : Seq(STRING \X Nat), plan : Plans \cup {NoPlan}]
  BY <1>1, Zenon DEF Good, FlowTypeOK
<1>3. GoesOn(steps)
  BY Zenon DEF set_plan
<1>4. FlowTypeOK'
  BY <1>1, <1>2 DEF Good, FlowTypeOK, locals, IsDistinct
<1>5. Shaped(journal, effects)' /\ Agrees'
  BY <1>1, <1>2 DEF Good, Agrees
<1>6. GoesOn(wf.plan)'
  BY <1>1, <1>2, <1>3 DEF GoesOn
<1> QED BY <1>1, <1>4, <1>5, <1>6 DEF Good, Resuming

LEMMA ResumeKeeps ==
    ASSUME Good, Resume
    PROVE  Good'
<1>1. /\ journal' = journal /\ wf' = wf /\ effects' = effects /\ pc' = "step" /\ pc = "idle"
      /\ wf.plan # NoPlan
      /\ todo' = wf.plan /\ evidence' = Len(journal) /\ begin' = 0 /\ outcomes' = <<>>
  BY DEF Resume
<1>2. wf.plan \in Seq(STRING) /\ Len(wf.plan) \in Nat /\ Len(journal) \in Nat
  BY <1>1, WorkflowAssumption DEF Good, FlowTypeOK
<1>3. FlowTypeOK'
  BY <1>1, <1>2 DEF Good, FlowTypeOK, IsDistinct
<1>4. Shaped(journal, effects)' /\ Agrees'
  BY <1>1 DEF Good, Agrees
<1>5. GoesOn(wf.plan)'
  BY <1>1 DEF Good, GoesOn
<1>6. AtStep(1)'
  BY <1>1, <1>2 DEF AtStep
<1>7. 1 \in 1..Len(wf.plan) + 1
  BY <1>2
<1> QED BY <1>1, <1>3, <1>4, <1>5, <1>6, <1>7 DEF Good

\* The step that resume handles, and what is left after it.
LEMMA HeadFacts ==
    ASSUME Good, wf.plan # NoPlan, NEW h \in 1..Len(wf.plan) + 1, AtStep(h), todo # <<>>
    PROVE  /\ wf.plan \in Seq(STRING) /\ Len(wf.plan) \in Nat
           /\ h \in 1..Len(wf.plan) /\ h + 1 \in 1..Len(wf.plan) + 1
           /\ Head(todo) = wf.plan[h] /\ Head(todo) \in STRING
           /\ Tail(todo) \in Seq(STRING)
           /\ Len(Tail(todo)) = Len(wf.plan) + 1 - (h + 1)
           /\ \A i \in 1..Len(Tail(todo)) : Tail(todo)[i] = wf.plan[(h + 1) - 1 + i]
           /\ \A g \in 1..Len(wf.plan) : wf.plan[g] = wf.plan[h] => g = h
<1>1. wf.plan \in Seq(STRING) /\ Len(wf.plan) \in Nat /\ DOMAIN wf.plan = 1..Len(wf.plan)
  BY WorkflowAssumption DEF Good, FlowTypeOK
<1>2. todo \in Seq(STRING) /\ Len(todo) = Len(wf.plan) + 1 - h
      /\ \A i \in 1..Len(todo) : todo[i] = wf.plan[h - 1 + i]
  BY DEF Good, FlowTypeOK, AtStep
<1>3. Len(todo) >= 1 /\ Head(todo) = todo[1] /\ Len(Tail(todo)) = Len(todo) - 1 /\ Tail(todo) \in Seq(STRING)
      /\ todo[1] \in STRING /\ \A i \in 1..Len(Tail(todo)) : Tail(todo)[i] = todo[i + 1]
  BY <1>2
<1>4. h \in 1..Len(wf.plan) /\ h + 1 \in 1..Len(wf.plan) + 1
  BY <1>1, <1>2, <1>3
<1>5. Head(todo) = wf.plan[h]
  <2>1. 1 \in 1..Len(todo) /\ h - 1 + 1 = h
    BY <1>2, <1>3
  <2>2. todo[1] = wf.plan[h - 1 + 1]
    BY <1>2, <2>1
  <2> QED BY <1>3, <2>1, <2>2
<1>6. \A i \in 1..Len(Tail(todo)) : Tail(todo)[i] = wf.plan[(h + 1) - 1 + i]
  <2> TAKE i \in 1..Len(Tail(todo))
  <2>1. i + 1 \in 1..Len(todo) /\ h - 1 + (i + 1) = (h + 1) - 1 + i
    BY <1>1, <1>2, <1>3
  <2>2. todo[i + 1] = wf.plan[h - 1 + (i + 1)]
    BY <1>2, <2>1
  <2> QED BY <1>3, <2>1, <2>2
<1>7. \A g \in 1..Len(wf.plan) : wf.plan[g] = wf.plan[h] => g = h
  BY <1>1, <1>4, Zenon DEF Good, FlowTypeOK, IsDistinct
<1>8. Len(Tail(todo)) = Len(wf.plan) + 1 - (h + 1)
  <2>1. \A p \in Nat : \A t, u : t = p + 1 - h /\ u = t - 1 => u = p + 1 - (h + 1)
    BY <1>4
  <2> QED BY <1>1, <1>2, <1>3, <2>1, Zenon
<1> QED BY <1>1, <1>3, <1>4, <1>5, <1>6, <1>7, <1>8, Zenon

LEMMA SkipKeeps ==
    ASSUME Good, Skip
    PROVE  Good'
<1>1. /\ UNCHANGED <<journal, wf, pc, evidence, begin, effects>> /\ pc = "step" /\ todo # <<>>
      /\ todo' = Tail(todo) /\ IsSkipped(Head(todo))
  BY DEF Skip
<1>2. wf.plan # NoPlan /\ GoesOn(wf.plan)
  BY <1>1 DEF Good, Resuming
<1>3. PICK h \in 1..Len(wf.plan) + 1 : AtStep(h)
  BY <1>1 DEF Good, Resuming
<1>4. /\ Len(wf.plan) \in Nat /\ h \in 1..Len(wf.plan) /\ h + 1 \in 1..Len(wf.plan) + 1
      /\ Head(todo) = wf.plan[h] /\ Head(todo) \in STRING /\ Tail(todo) \in Seq(STRING)
      /\ Len(Tail(todo)) = Len(wf.plan) + 1 - (h + 1)
      /\ \A i \in 1..Len(Tail(todo)) : Tail(todo)[i] = wf.plan[(h + 1) - 1 + i]
  BY <1>1, <1>2, <1>3, HeadFacts, Zenon
<1>5. evidence <= Len(journal) /\ evidence \in Nat /\ journal \in Seq(Entry) /\ Shaped(journal, effects)
  BY <1>3, StateFacts DEF AtStep
<1>6. PICK b \in 1..evidence :
         /\ b \in 1..Len(journal) /\ IsBegin(b) /\ journal[b].name = wf.plan[h]
         /\ Latest(begins(Scanned, wf.plan[h])) = b
         /\ Paired(Scanned, b) <=> b + 1 <= evidence /\ journal[b + 1].kind = "StepEnd"
         /\ b + 1 <= evidence => Scanned[b + 1] = journal[b + 1]
  BY <1>1, <1>4, <1>5, ScanFacts, Zenon DEF IsSkipped
<1>7. b + 1 <= evidence /\ b + 1 \in 1..Len(journal) /\ journal[b + 1].kind = "StepEnd"
      /\ Scanned[b + 1] = journal[b + 1]
  <2>1. Paired(Scanned, b)
    BY <1>1, <1>4, <1>6, Zenon DEF IsSkipped
  <2>2. b + 1 <= evidence /\ journal[b + 1].kind = "StepEnd" /\ Scanned[b + 1] = journal[b + 1]
    BY <1>6, <2>1
  <2>3. Len(journal) \in Nat
    BY <1>5
  <2>4. b + 1 \in 1..Len(journal)
    BY <1>5, <2>2, <2>3
  <2> QED BY <2>2, <2>4
<1>8. b + 1 \in Completions(journal)
  BY <1>5, <1>7, ShapeFacts
<1> DEFINE v == journal[b + 1].value
           o == <<wf.plan[h], "Skipped", v>>
<1>9. v \in Nat /\ outcomes' = Append(outcomes, o)
  <2>1. v \in Nat
    <3>1. journal[b + 1] \in Entry
      BY <1>5, <1>7
    <3> QED BY <3>1, Zenon DEF Entry
  <2>2. Scanned[Latest(begins(Scanned, Head(todo))) + 1].value = v
    BY <1>4, <1>6, <1>7, Zenon
  <2> QED BY <1>4, <2>1, <2>2, Zenon DEF Skip, Outcome
<1>10. Completion(journal, b + 1) = <<wf.plan[h], v>>
  <2>1. (b + 1) - 1 = b
    BY <1>5
  <2> QED BY <1>6, <2>1 DEF Completion
<1>11. wf.plan[h] \in CompletedNames(journal)
  <2>1. (b + 1) - 1 = b
    BY <1>5
  <2> QED BY <1>6, <1>8, <2>1 DEF CompletedNames
<1>12. o \in STRING \X {"Skipped", "Rerun", "Executed"} \X Nat
  BY <1>4, <1>9
<1> HIDE DEF v, o
<1>13. /\ outcomes' \in Seq(STRING \X {"Skipped", "Rerun", "Executed"} \X Nat)
       /\ Len(outcomes') = (h + 1) - 1
       /\ \A i \in 1..h - 1 : outcomes'[i] = outcomes[i]
       /\ outcomes'[h] = o
  <2>1. outcomes \in Seq(STRING \X {"Skipped", "Rerun", "Executed"} \X Nat) /\ Len(outcomes) = h - 1
    BY <1>3, StateFacts DEF AtStep
  <2>2. h - 1 + 1 = h /\ (h + 1) - 1 = h
    BY <1>4
  <2> QED BY <1>9, <1>12, <2>1, <2>2, AppendFacts
<1>14. FlowTypeOK'
  BY <1>1, <1>4, <1>13 DEF Good, FlowTypeOK, IsDistinct
<1>15. Shaped(journal, effects)' /\ Agrees' /\ GoesOn(wf.plan)'
  BY <1>1, <1>2 DEF Good, Agrees, GoesOn
<1>16. \A i \in 1..(h + 1) - 1 :
          /\ outcomes'[i][1] = wf.plan[i]
          /\ \E c \in Completions(journal) : Completion(journal, c) = <<wf.plan[i], outcomes'[i][3]>>
  <2> TAKE i \in 1..(h + 1) - 1
  <2>1. i \in 1..h - 1 \/ i = h
    BY <1>4
  <2>2. CASE i \in 1..h - 1
    <3>1. /\ outcomes[i][1] = wf.plan[i]
          /\ \E c \in Completions(journal) : Completion(journal, c) = <<wf.plan[i], outcomes[i][3]>>
      BY <1>3, <2>2 DEF AtStep
    <3> QED BY <1>13, <2>2, <3>1, Zenon
  <2>3. CASE i = h
    <3>1. o[1] = wf.plan[h] /\ o[3] = v
      BY DEF o
    <3> QED BY <1>8, <1>10, <1>13, <2>3, <3>1
  <2> QED BY <2>1, <2>2, <2>3
<1>17. \A i \in 1..(h + 1) - 1 : wf.plan[i] \in CompletedNames(journal)
  <2> TAKE i \in 1..(h + 1) - 1
  <2>1. i \in 1..h - 1 \/ i = h
    BY <1>4
  <2> QED BY <1>3, <1>11, <2>1 DEF AtStep
<1>18. evidence < Len(journal) =>
          \A i \in 1..Len(journal) : i >= evidence /\ IsBegin(i) =>
             \E g \in 1..Len(wf.plan) : journal[i].name = wf.plan[g] /\ g < h + 1
  <2> SUFFICES ASSUME evidence < Len(journal), NEW i \in 1..Len(journal), i >= evidence, IsBegin(i)
               PROVE  \E g \in 1..Len(wf.plan) : journal[i].name = wf.plan[g] /\ g < h + 1
    OBVIOUS
  <2>1. PICK g \in 1..Len(wf.plan) : journal[i].name = wf.plan[g] /\ g < h
    BY <1>1, <1>3 DEF AtStep
  <2>2. g < h + 1
    BY <1>4, <2>1
  <2> QED BY <2>1, <2>2
<1>19. AtStep(h + 1)'
  BY <1>1, <1>4, <1>5, <1>13, <1>16, <1>17, <1>18, Zenon DEF AtStep, IsBegin
<1> QED BY <1>1, <1>2, <1>4, <1>14, <1>15, <1>19 DEF Good

\* The begin of a step in progress is the last entry of the journal.
LEMMA RerunKeeps ==
    ASSUME Good, Rerun
    PROVE  Good'
<1>1. /\ UNCHANGED <<journal, wf, todo, evidence, outcomes, effects>>
      /\ pc = "step" /\ pc' = "exec" /\ todo # <<>>
      /\ IsInProgress(Head(todo)) /\ begin' = Latest(begins(Scanned, Head(todo)))
  BY DEF Rerun
<1>2. wf.plan # NoPlan /\ GoesOn(wf.plan)
  BY <1>1 DEF Good, Resuming
<1>3. PICK h \in 1..Len(wf.plan) + 1 : AtStep(h)
  BY <1>1 DEF Good, Resuming
<1>4. /\ Len(wf.plan) \in Nat /\ h \in 1..Len(wf.plan) /\ Head(todo) = wf.plan[h]
      /\ \A g \in 1..Len(wf.plan) : wf.plan[g] = wf.plan[h] => g = h
  BY <1>1, <1>2, <1>3, HeadFacts, Zenon
<1>5. /\ evidence <= Len(journal) /\ evidence \in Nat /\ journal \in Seq(Entry) /\ Len(journal) \in Nat
      /\ Shaped(journal, effects)
  BY <1>3, StateFacts DEF AtStep
<1>6. PICK b \in 1..evidence :
         /\ b \in 1..Len(journal) /\ IsBegin(b) /\ journal[b].name = wf.plan[h]
         /\ Latest(begins(Scanned, wf.plan[h])) = b
         /\ Paired(Scanned, b) <=> b + 1 <= evidence /\ journal[b + 1].kind = "StepEnd"
  BY <1>1, <1>4, <1>5, ScanFacts DEF IsInProgress
<1>7. ~(b + 1 <= evidence /\ journal[b + 1].kind = "StepEnd")
  BY <1>1, <1>4, <1>6, Zenon DEF IsInProgress
<1>8. ASSUME b # Len(journal) PROVE FALSE
  <2>1. b + 1 \in Completions(journal)
    BY <1>5, <1>6, <1>8, ShapeFacts DEF IsBegin
  <2>2. journal[b + 1].kind = "StepEnd"
    BY <1>5, <2>1, ShapeFacts
  <2>3. b >= evidence /\ evidence < Len(journal)
    BY <1>5, <1>6, <1>7, <1>8, <2>2
  <2>4. PICK g \in 1..Len(wf.plan) : journal[b].name = wf.plan[g] /\ g < h
    BY <1>1, <1>3, <1>6, <2>3 DEF AtStep
  <2>5. g = h
    BY <1>4, <1>6, <2>4
  <2> QED BY <1>4, <2>4, <2>5
<1>9. /\ begin' = Len(journal) /\ Len(journal) > 0 /\ IsBegin(Len(journal))
      /\ journal[Len(journal)].name = wf.plan[h] /\ begin' \in Nat
  BY <1>1, <1>4, <1>5, <1>6, <1>8
<1>10. FlowTypeOK'
  BY <1>1, <1>9 DEF Good, FlowTypeOK, IsDistinct
<1>11. Shaped(journal, effects)' /\ Agrees' /\ GoesOn(wf.plan)'
  BY <1>1, <1>2 DEF Good, Agrees, GoesOn
<1>12. evidence < Len(journal) =>
          \A i \in 1..Len(journal) : i >= evidence /\ IsBegin(i) =>
             \E g \in 1..Len(wf.plan) : journal[i].name = wf.plan[g] /\ g < h
  BY <1>1, <1>3 DEF AtStep
<1>13. AtStep(h)'
  <2>1. /\ Len(todo) = Len(wf.plan) + 1 - h /\ (\A i \in 1..Len(todo) : todo[i] = wf.plan[h - 1 + i])
        /\ (\A i \in 1..h - 1 : wf.plan[i] \in CompletedNames(journal))
        /\ Len(outcomes) = h - 1
        /\ \A i \in 1..h - 1 :
              /\ outcomes[i][1] = wf.plan[i]
              /\ \E c \in Completions(journal) : Completion(journal, c) = <<wf.plan[i], outcomes[i][3]>>
    BY <1>3 DEF AtStep
  <2>2. h <= Len(wf.plan)
    BY <1>4
  <2> QED BY <1>1, <1>5, <1>9, <1>12, <2>1, <2>2 DEF AtStep, IsBegin
<1> QED BY <1>1, <1>2, <1>3, <1>10, <1>11, <1>13 DEF Good

LEMMA ExecKeeps ==
    ASSUME Good, Exec
    PROVE  Good'
<1>1. /\ UNCHANGED <<journal, wf, todo, evidence, begin, outcomes>> /\ pc = "exec" /\ pc' = "end"
      /\ effects' = Append(effects, Head(todo))
  BY DEF Exec, locals
<1>2. wf.plan # NoPlan /\ GoesOn(wf.plan)
  BY <1>1 DEF Good, Resuming
<1>3. PICK h \in 1..Len(wf.plan) + 1 : AtStep(h)
  BY <1>1 DEF Good, Resuming
<1>4. todo # <<>>
  BY <1>1, <1>2, <1>3, RunningFacts
<1>5. Head(todo) = wf.plan[h] /\ Head(todo) \in STRING
  BY <1>2, <1>3, <1>4, HeadFacts, Zenon
<1>6. effects \in Seq(STRING) /\ Len(effects) \in Nat
  BY DEF Good, FlowTypeOK
<1>7. /\ effects' \in Seq(STRING) /\ Len(effects') = Len(effects) + 1
      /\ \A i \in 1..Len(effects) : effects'[i] = effects[i]
      /\ effects'[Len(effects')] = wf.plan[h]
  BY <1>1, <1>5, <1>6, AppendFacts
<1>8. FlowTypeOK'
  BY <1>1, <1>7 DEF Good, FlowTypeOK, IsDistinct
<1>9. Shaped(journal, effects')
  <2>1. \A x \in 1..Len(effects) : x \in 1..Len(effects') /\ effects'[x] = effects[x]
    BY <1>6, <1>7
  <2> QED BY <2>1 DEF Good, Shaped
<1>10. Agrees' /\ GoesOn(wf.plan)'
  BY <1>1, <1>2 DEF Good, Agrees, GoesOn
<1>11. Len(effects') > 0
  BY <1>6, <1>7
<1>12. AtStep(h)'
  BY <1>1, <1>3, <1>7, <1>11 DEF AtStep, IsBegin
<1> QED BY <1>1, <1>2, <1>3, <1>8, <1>9, <1>10, <1>12 DEF Good

\* What is completed stays completed when the journal grows.
LEMMA NamesAppend ==
    ASSUME NEW log \in Seq(Entry), NEW e \in Entry
    PROVE  /\ CompletedNames(log) \subseteq CompletedNames(Append(log, e))
           /\ \A c \in Completions(log) : /\ c \in Completions(Append(log, e))
                                         /\ Completion(Append(log, e), c) = Completion(log, c)
<1>1. \A c \in Completions(log) : /\ c \in Completions(Append(log, e))
                                 /\ c \in 1..Len(log) /\ c - 1 \in 1..Len(log)
                                 /\ Completion(Append(log, e), c) = Completion(log, c)
  BY CompletionsAppend
<1>2. \A c \in Completions(log) : Append(log, e)[c - 1].name = log[c - 1].name
  BY <1>1, AppendFacts
<1>3. ASSUME NEW x \in CompletedNames(log) PROVE x \in CompletedNames(Append(log, e))
  <2>1. PICK c \in Completions(log) : x = log[c - 1].name
    BY DEF CompletedNames
  <2>2. c \in Completions(Append(log, e)) /\ x = Append(log, e)[c - 1].name
    BY <1>1, <1>2, <2>1
  <2> QED BY <2>2, Zenon DEF CompletedNames
<1> QED BY <1>1, <1>3

\* Before a pending step begins, no step is in progress and this one has no begin.
LEMMA PendingFacts ==
    ASSUME Good, pc = "step", todo # <<>>, IsPending(Head(todo)),
           NEW h \in 1..Len(wf.plan) + 1, AtStep(h)
    PROVE  /\ \A i \in 1..Len(journal) : IsBegin(i) => journal[i].name # wf.plan[h]
           /\ Len(journal) > 0 => ~IsBegin(Len(journal))
<1>1. wf.plan # NoPlan /\ GoesOn(wf.plan)
  BY DEF Good, Resuming
<1>2. /\ Len(wf.plan) \in Nat /\ h \in 1..Len(wf.plan) /\ Head(todo) = wf.plan[h]
      /\ wf.plan \in Seq(STRING) /\ DOMAIN wf.plan = 1..Len(wf.plan)
      /\ \A g \in 1..Len(wf.plan) : wf.plan[g] = wf.plan[h] => g = h
  <2>1. wf.plan \in Seq(STRING)
    BY <1>1, HeadFacts, Zenon
  <2>2. DOMAIN wf.plan = 1..Len(wf.plan)
    BY <2>1
  <2> QED BY <1>1, <2>1, <2>2, HeadFacts, Zenon
<1>3. /\ evidence <= Len(journal) /\ evidence \in Nat /\ journal \in Seq(Entry) /\ Len(journal) \in Nat
      /\ Shaped(journal, effects) /\ DOMAIN journal = 1..Len(journal)
  BY StateFacts DEF AtStep
<1>4. \A i \in 1..Len(journal) : IsBegin(i) => journal[i].name # wf.plan[h]
  <2> SUFFICES ASSUME NEW i \in 1..Len(journal), IsBegin(i), journal[i].name = wf.plan[h]
               PROVE  FALSE
    OBVIOUS
  <2>1. i > evidence
    BY <1>2, <1>3, ScanFacts
  <2>2. evidence < Len(journal) /\ i >= evidence
    BY <1>3, <2>1
  <2>3. PICK g \in 1..Len(wf.plan) : journal[i].name = wf.plan[g] /\ g < h
    BY <2>2 DEF AtStep
  <2> QED BY <1>2, <2>3
<1>5. \A x \in CompletedNames(journal) :
         \E i \in 1..Len(journal) : i # Len(journal) /\ IsBegin(i) /\ journal[i].name = x
  <2> TAKE x \in CompletedNames(journal)
  <2>1. PICK c \in Completions(journal) : x = journal[c - 1].name
    BY DEF CompletedNames
  <2>2. c \in 1..Len(journal) /\ c - 1 \in 1..Len(journal) /\ IsBegin(c - 1)
    BY <1>3, ShapeFacts DEF IsBegin
  <2>3. c - 1 # Len(journal)
    BY <1>3, <2>2
  <2> QED BY <2>1, <2>2, <2>3
<1>6. ASSUME Len(journal) > 0, IsBegin(Len(journal)) PROVE FALSE
  <2>1. Len(journal) \in 1..Len(journal) /\ Len(journal) + 1 \notin 1..Len(journal)
    BY <1>3, <1>6
  <2>2. Len(journal) + 1 \notin Completions(journal)
    BY <1>3, <2>1, ShapeFacts
  <2>3. PICK j \in 1..Len(wf.plan) :
           /\ wf.plan[j] = journal[Len(journal)].name
           /\ \A k \in 1..j - 1 : wf.plan[k] \in CompletedNames(journal)
    BY <1>1, <1>2, <1>3, <1>6, <2>1, <2>2, Zenon DEF GoesOn, IsBegin
  <2>4. CASE j < h
    <3>1. wf.plan[j] \in CompletedNames(journal)
      BY <1>2, <2>4 DEF AtStep
    <3>2. PICK i \in 1..Len(journal) : i # Len(journal) /\ IsBegin(i) /\ journal[i].name = wf.plan[j]
      BY <1>5, <3>1
    <3> QED BY <1>3, <1>6, <2>1, <2>3, <3>2, Zenon DEF Shaped, IsBegin
  <2>5. CASE j = h
    BY <1>4, <1>6, <2>1, <2>3, <2>5
  <2>6. CASE h < j
    <3>1. wf.plan[h] \in CompletedNames(journal)
      BY <1>2, <2>3, <2>6
    <3> QED BY <1>4, <1>5, <3>1
  <2> QED BY <1>2, <2>4, <2>5, <2>6
<1> QED BY <1>4, <1>6

LEMMA BeginKeeps ==
    ASSUME Good, step_begin
    PROVE  Good'
<1> DEFINE n == Len(journal)
<1>1. /\ UNCHANGED <<todo, evidence, outcomes, effects>> /\ pc = "step" /\ pc' = "exec" /\ todo # <<>>
      /\ IsPending(Head(todo)) /\ journal' = Append(journal, Begin(Head(todo)))
      /\ wf' = [wf EXCEPT !.step_counter = @ + 1] /\ begin' = Len(journal')
  BY DEF step_begin
<1>2. wf.plan # NoPlan /\ GoesOn(wf.plan)
  BY <1>1 DEF Good, Resuming
<1>3. PICK h \in 1..Len(wf.plan) + 1 : AtStep(h)
  BY <1>1 DEF Good, Resuming
<1>4. /\ Len(wf.plan) \in Nat /\ h \in 1..Len(wf.plan) /\ Head(todo) = wf.plan[h] /\ Head(todo) \in STRING
      /\ wf.plan \in Seq(STRING)
  BY <1>1, <1>2, <1>3, HeadFacts
<1>5. /\ evidence <= n /\ evidence \in Nat /\ journal \in Seq(Entry) /\ n \in Nat
      /\ Shaped(journal, effects)
  BY <1>3, StateFacts DEF AtStep
<1>6. /\ \A i \in 1..n : IsBegin(i) => journal[i].name # wf.plan[h]
      /\ n > 0 => ~IsBegin(n)
  BY <1>1, <1>3, PendingFacts
<1> DEFINE e == Begin(wf.plan[h])
<1>7. e \in Entry /\ e.kind = "StepBegin" /\ e.name = wf.plan[h] /\ journal' = Append(journal, e)
  BY <1>1, <1>4, Zenon DEF Begin, Entry
<1> HIDE DEF e, n
<1>8. /\ journal' \in Seq(Entry) /\ Len(journal') = n + 1
      /\ DOMAIN journal' = 1..n + 1
      /\ \A i \in 1..n : journal'[i] = journal[i]
      /\ journal'[n + 1] = e
  <2>1. Append(journal, e)[n + 1] = e /\ Len(Append(journal, e)) = n + 1 /\ DOMAIN Append(journal, e) = 1..n + 1
        /\ (\A i \in 1..n : Append(journal, e)[i] = journal[i]) /\ Append(journal, e) \in Seq(Entry)
    BY <1>5, <1>7, AppendFacts DEF n
  <2> QED BY <1>7, <2>1, Zenon
<1>9. /\ wf'.plan = wf.plan /\ wf'.step_counter = wf.step_counter + 1
      /\ wf'.completed_steps = wf.completed_steps
      /\ wf' \in [step_counter : Nat, completed_steps : Seq(STRING \X Nat), plan : Plans \cup {NoPlan}]
  <2>1. wf \in [step_counter : Nat, completed_steps : Seq(STRING \X Nat), plan : Plans \cup {NoPlan}]
    BY DEF Good, FlowTypeOK
  <2>2. wf.step_counter + 1 \in Nat
    BY <2>1
  <2> QED BY <1>1, <2>1, <2>2, Zenon
<1>10. FlowTypeOK'
  <2>1. begin' \in Nat
    BY <1>1, <1>5, <1>8
  <2> QED BY <1>1, <1>8, <1>9, <2>1 DEF Good, FlowTypeOK, IsDistinct
<1>11. \A i \in 1..n + 1 : i \in 1..n \/ i = n + 1
  BY <1>5
<1>12. Shaped(journal', effects)
  <2>1. \E k \in Nat : n + 1 = 2 * k + 1
    <3>1. CASE n = 0
      <4>1. 0 \in Nat /\ n + 1 = 2 * 0 + 1
        BY <3>1
      <4> QED BY <4>1
    <3>2. CASE n > 0
      <4>1. n \in 1..n
        BY <1>5, <3>2
      <4>2. journal[n].kind = "StepEnd"
        BY <1>5, <1>6, <3>2, <4>1, ShapeFacts DEF IsBegin, n
      <4>3. PICK k \in Nat : n = 2 * k
        BY <1>5, <3>2, <4>2, ShapeFacts DEF n
      <4>4. n + 1 = 2 * k + 1
        BY <4>3
      <4> QED BY <4>4
    <3> QED BY <1>5, <3>1, <3>2
  <2>2. \A i \in 1..n + 1 : \E k \in Nat :
          \/ i = 2 * k + 1 /\ journal'[i].kind = "StepBegin"
          \/ i = 2 * k + 2 /\ journal'[i].kind = "StepEnd"
    <3>1. \A i \in 1..n : \E k \in Nat :
            \/ i = 2 * k + 1 /\ journal[i].kind = "StepBegin"
            \/ i = 2 * k + 2 /\ journal[i].kind = "StepEnd"
      BY <1>5, Zenon DEF Shaped, n
    <3> TAKE i \in 1..n + 1
    <3>2. CASE i \in 1..n
      BY <1>8, <3>1, <3>2, Zenon
    <3>3. CASE i = n + 1
      BY <1>7, <1>8, <2>1, <3>3, Zenon
    <3> QED BY <1>11, <3>2, <3>3
  <2>3. \A i, j \in 1..n + 1 :
          /\ journal'[i].kind = "StepBegin" /\ journal'[j].kind = "StepBegin"
          /\ journal'[i].name = journal'[j].name
          => i = j
    BY <1>5, <1>6, <1>7, <1>8, <1>11 DEF Shaped, IsBegin, n
  <2>4. \A i \in 1..n + 1 :
          journal'[i].kind = "StepEnd" => /\ journal'[i].value \in 1..Len(effects)
                                          /\ effects[journal'[i].value] = journal'[i - 1].name
    <3> TAKE i \in 1..n + 1
    <3> HAVE journal'[i].kind = "StepEnd"
    <3>1. i \in 1..n
      BY <1>7, <1>8, <1>11
    <3>2. journal[i].kind = "StepEnd" /\ journal'[i] = journal[i]
      BY <1>8, <3>1
    <3>3. i - 1 \in 1..n
      BY <1>5, <3>1, <3>2, ShapeFacts DEF n
    <3> QED BY <1>5, <1>8, <3>1, <3>2, <3>3, Zenon DEF Shaped, n
  <2> QED BY <1>8, <2>2, <2>3, <2>4 DEF Shaped
<1>13. ~EndsStep(journal, e)
  BY <1>7 DEF EndsStep
<1>14. Agrees'
  <2>1. completed(journal') = completed(journal) /\ Ranks(journal')
    BY <1>5, <1>7, <1>13, CompletedSame DEF Good, Agrees
  <2>2. BeginSet(journal) \in SUBSET (1..n) /\ BeginSet(journal') = BeginSet(journal) \cup {n + 1}
    BY <1>5, <1>7, CompletionsAppend DEF n
  <2>3. Cardinality(BeginSet(journal')) = Cardinality(BeginSet(journal)) + 1
    BY <1>5, <2>2, RankExtend, Zenon
  <2> QED BY <1>9, <2>1, <2>3 DEF Good, Agrees
<1>15. /\ CompletedNames(journal) \subseteq CompletedNames(journal')
       /\ \A c \in Completions(journal) : c \in Completions(journal') /\ Completion(journal', c) = Completion(journal, c)
  BY <1>5, <1>7, NamesAppend
<1>16. \A k \in 1..h - 1 : wf.plan[k] \in CompletedNames(journal')
  BY <1>3, <1>15 DEF AtStep
<1>17. GoesOn(wf.plan)'
  <2>1. DOMAIN wf.plan = 1..Len(wf.plan)
    BY <1>4
  <2>2. ASSUME NEW i \in 1..n + 1, journal'[i].kind = "StepBegin", i + 1 \notin Completions(journal')
        PROVE  \E j \in DOMAIN wf.plan : /\ wf.plan[j] = journal'[i].name
                                          /\ \A k \in 1..j - 1 : wf.plan[k] \in CompletedNames(journal')
    <3>1. i = n + 1
      BY <1>8, <1>12, <2>2, ShapeFacts
    <3> QED BY <1>4, <1>7, <1>8, <1>16, <2>1, <3>1, Zenon
  <2>3. \A i \in DOMAIN journal' : journal'[i].kind = "StepBegin" /\ i + 1 \notin Completions(journal') =>
           \E j \in DOMAIN wf.plan : /\ wf.plan[j] = journal'[i].name
                                     /\ \A k \in 1..j - 1 : wf.plan[k] \in CompletedNames(journal')
    BY <1>8, <2>2
  <2>4. \A i \in DOMAIN journal' : journal'[i].kind = "StepBegin" /\ i + 1 \notin Completions(journal)' =>
           \E j \in DOMAIN wf'.plan : /\ wf'.plan[j] = journal'[i].name
                                      /\ \A k \in 1..j - 1 : wf'.plan[k] \in CompletedNames(journal)'
    BY <1>9, <2>3
  <2> QED BY <2>4 DEF GoesOn
<1>18. \A i \in 1..n + 1 : i >= evidence /\ journal'[i].kind = "StepBegin" =>
          \E g \in 1..Len(wf.plan) : journal'[i].name = wf.plan[g] /\ (g < h \/ g = h)
  <2> TAKE i \in 1..n + 1
  <2> HAVE i >= evidence /\ journal'[i].kind = "StepBegin"
  <2>1. CASE i = n + 1
    BY <1>4, <1>7, <1>8, <2>1
  <2>2. CASE i \in 1..n
    <3>1. IsBegin(i) /\ journal'[i] = journal[i]
      BY <1>8, <2>2 DEF IsBegin
    <3>2. i # n
      BY <1>5, <1>6, <2>2, <3>1
    <3>3. evidence < n
      BY <1>5, <2>2, <3>2
    <3>4. PICK g \in 1..Len(wf.plan) : journal[i].name = wf.plan[g] /\ g < h
      BY <1>1, <1>3, <2>2, <3>1, <3>3 DEF AtStep, n
    <3> QED BY <3>1, <3>4
  <2> QED BY <1>11, <2>1, <2>2
<1>19. \A i \in 1..h - 1 :
          /\ outcomes[i][1] = wf.plan[i]
          /\ \E c \in Completions(journal') : Completion(journal', c) = <<wf.plan[i], outcomes[i][3]>>
  <2> TAKE i \in 1..h - 1
  <2>1. PICK c \in Completions(journal) : Completion(journal, c) = <<wf.plan[i], outcomes[i][3]>>
    BY <1>3 DEF AtStep
  <2>2. c \in Completions(journal') /\ Completion(journal', c) = <<wf.plan[i], outcomes[i][3]>>
    BY <1>15, <2>1
  <2>3. outcomes[i][1] = wf.plan[i]
    BY <1>3 DEF AtStep
  <2> QED BY <2>2, <2>3
<1>20. evidence <= n + 1 /\ n + 1 > 0 /\ h <= Len(wf.plan)
  BY <1>4, <1>5
<1>21. AtStep(h)'
  <2>1. Len(todo) = Len(wf.plan) + 1 - h /\ (\A i \in 1..Len(todo) : todo[i] = wf.plan[h - 1 + i])
        /\ Len(outcomes) = h - 1
    BY <1>3 DEF AtStep
  <2> QED BY <1>1, <1>7, <1>8, <1>9, <1>16, <1>18, <1>19, <1>20, <2>1 DEF AtStep, IsBegin
<1> QED BY <1>1, <1>2, <1>3, <1>9, <1>10, <1>12, <1>14, <1>17, <1>21 DEF Good

LEMMA EndKeeps ==
    ASSUME Good, step_end
    PROVE  Good'
<1> DEFINE n == Len(journal)
           v == Len(effects)
<1>1. /\ UNCHANGED <<evidence, begin, effects>> /\ pc = "end" /\ pc' = "step"
      /\ journal' = Append(journal, End(v)) /\ todo' = Tail(todo)
      /\ wf' = [wf EXCEPT !.completed_steps = Append(@, <<Head(todo), v>>)]
      /\ outcomes' = Outcome(IF begin <= evidence THEN "Rerun" ELSE "Executed", v)
  BY DEF step_end
<1>2. wf.plan # NoPlan
  BY <1>1 DEF Good, Resuming
<1>3. PICK h \in 1..Len(wf.plan) + 1 : AtStep(h)
  BY <1>1 DEF Good, Resuming
<1>a. todo # <<>>
  BY <1>1, <1>2, <1>3, RunningFacts
<1>4. /\ Len(wf.plan) \in Nat /\ h \in 1..Len(wf.plan) /\ Head(todo) = wf.plan[h] /\ Head(todo) \in STRING
      /\ h + 1 \in 1..Len(wf.plan) + 1 /\ Tail(todo) \in Seq(STRING)
      /\ Len(Tail(todo)) = Len(wf.plan) + 1 - (h + 1)
      /\ \A i \in 1..Len(Tail(todo)) : Tail(todo)[i] = wf.plan[(h + 1) - 1 + i]
  BY <1>2, <1>3, <1>a, HeadFacts, Zenon
<1>5. /\ evidence <= n /\ evidence \in Nat /\ journal \in Seq(Entry) /\ n \in Nat /\ v \in Nat
      /\ Shaped(journal, effects)
  BY <1>3, StateFacts DEF AtStep
<1>6. n > 0 /\ IsBegin(n) /\ journal[n].name = wf.plan[h] /\ v > 0 /\ effects[v] = wf.plan[h] /\ n \in 1..n
  BY <1>1, <1>3, <1>5 DEF AtStep
<1> DEFINE e == End(v)
           status == IF begin <= evidence THEN "Rerun" ELSE "Executed"
           o == <<wf.plan[h], status, v>>
<1>7. e \in Entry /\ e.kind = "StepEnd" /\ e.value = v /\ journal' = Append(journal, e)
  BY <1>1, <1>5, Zenon DEF End, Entry
<1>b. outcomes' = Append(outcomes, o) /\ o \in STRING \X {"Skipped", "Rerun", "Executed"} \X Nat
      /\ o[1] = wf.plan[h] /\ o[3] = v
  BY <1>1, <1>4, <1>5, Zenon DEF Outcome
<1> HIDE DEF e, n, v, o, status
<1>8. /\ journal' \in Seq(Entry) /\ Len(journal') = n + 1
      /\ DOMAIN journal' = 1..n + 1
      /\ \A i \in 1..n : journal'[i] = journal[i]
      /\ journal'[n + 1] = e
  <2>1. Append(journal, e)[n + 1] = e /\ Len(Append(journal, e)) = n + 1 /\ DOMAIN Append(journal, e) = 1..n + 1
        /\ (\A i \in 1..n : Append(journal, e)[i] = journal[i]) /\ Append(journal, e) \in Seq(Entry)
    BY <1>5, <1>7, AppendFacts DEF n
  <2> QED BY <1>7, <2>1, Zenon
<1>9. /\ wf'.plan = wf.plan /\ wf'.step_counter = wf.step_counter
      /\ wf'.completed_steps = Append(wf.completed_steps, <<wf.plan[h], v>>)
      /\ wf' \in [step_counter : Nat, completed_steps : Seq(STRING \X Nat), plan : Plans \cup {NoPlan}]
  <2>1. wf \in [step_counter : Nat, completed_steps : Seq(STRING \X Nat), plan : Plans \cup {NoPlan}]
    BY DEF Good, FlowTypeOK
  <2>2. <<wf.plan[h], v>> \in STRING \X Nat
    BY <1>4, <1>5
  <2>3. Append(wf.completed_steps, <<wf.plan[h], v>>) \in Seq(STRING \X Nat)
    BY <2>1, <2>2
  <2>4. wf' = [wf EXCEPT !.completed_steps = Append(wf.completed_steps, <<wf.plan[h], v>>)]
    BY <1>1, <1>4, Zenon DEF v
  <2> QED BY <2>1, <2>3, <2>4, Zenon
<1>10. /\ outcomes' \in Seq(STRING \X {"Skipped", "Rerun", "Executed"} \X Nat)
       /\ Len(outcomes') = (h + 1) - 1
       /\ \A i \in 1..h - 1 : outcomes'[i] = outcomes[i]
       /\ outcomes'[h] = o
  <2>1. outcomes \in Seq(STRING \X {"Skipped", "Rerun", "Executed"} \X Nat) /\ Len(outcomes) = h - 1
    BY <1>3, StateFacts DEF AtStep
  <2>2. h - 1 + 1 = h /\ (h + 1) - 1 = h
    BY <1>4
  <2> QED BY <1>b, <2>1, <2>2, AppendFacts
<1>11. FlowTypeOK'
  BY <1>1, <1>4, <1>8, <1>9, <1>10 DEF Good, FlowTypeOK, IsDistinct
<1>12. \A i \in 1..n + 1 : i \in 1..n \/ i = n + 1
  BY <1>5
<1>13. Shaped(journal', effects)
  <2>1. \E k \in Nat : n + 1 = 2 * k + 2
    <3>1. PICK k \in Nat : n = 2 * k + 1
      BY <1>5, <1>6, ShapeFacts DEF IsBegin, n
    <3>2. n + 1 = 2 * k + 2
      BY <3>1
    <3> QED BY <3>2
  <2>2. \A i \in 1..n + 1 : \E k \in Nat :
          \/ i = 2 * k + 1 /\ journal'[i].kind = "StepBegin"
          \/ i = 2 * k + 2 /\ journal'[i].kind = "StepEnd"
    <3>1. \A i \in 1..n : \E k \in Nat :
            \/ i = 2 * k + 1 /\ journal[i].kind = "StepBegin"
            \/ i = 2 * k + 2 /\ journal[i].kind = "StepEnd"
      BY <1>5, Zenon DEF Shaped, n
    <3> TAKE i \in 1..n + 1
    <3>2. CASE i \in 1..n
      BY <1>8, <3>1, <3>2, Zenon
    <3>3. CASE i = n + 1
      BY <1>7, <1>8, <2>1, <3>3, Zenon
    <3> QED BY <1>12, <3>2, <3>3
  <2>3. \A i, j \in 1..n + 1 :
          /\ journal'[i].kind = "StepBegin" /\ journal'[j].kind = "StepBegin"
          /\ journal'[i].name = journal'[j].name
          => i = j
    BY <1>5, <1>7, <1>8, <1>12 DEF Shaped, n
  <2>4. \A i \in 1..n + 1 :
          journal'[i].kind = "StepEnd" => /\ journal'[i].value \in 1..Len(effects)
                                          /\ effects[journal'[i].value] = journal'[i - 1].name
    <3> TAKE i \in 1..n + 1
    <3> HAVE journal'[i].kind = "StepEnd"
    <3>1. CASE i \in 1..n
      <4>1. journal[i].kind = "StepEnd" /\ journal'[i] = journal[i]
        BY <1>8, <3>1
      <4>2. i - 1 \in 1..n
        BY <1>5, <3>1, <4>1, ShapeFacts DEF n
      <4> QED BY <1>5, <1>8, <3>1, <4>1, <4>2 DEF Shaped, n
    <3>2. CASE i = n + 1
      <4>1. i - 1 = n
        BY <1>5, <3>2
      <4>2. v \in 1..v
        BY <1>5, <1>6
      <4> QED BY <1>6, <1>7, <1>8, <3>2, <4>1, <4>2 DEF v
    <3> QED BY <1>12, <3>1, <3>2
  <2> QED BY <1>8, <2>2, <2>3, <2>4 DEF Shaped
<1>14. EndsStep(journal, e)
  BY <1>6, <1>7 DEF EndsStep, IsBegin, n
<1>15. Agrees'
  <2>1. completed(journal') = Append(completed(journal), <<wf.plan[h], v>>) /\ Ranks(journal')
    BY <1>5, <1>6, <1>7, <1>14, CompletedMore DEF Good, Agrees, n
  <2>2. BeginSet(journal') = BeginSet(journal)
    BY <1>5, <1>7, CompletionsAppend, Zenon DEF n
  <2> QED BY <1>9, <2>1, <2>2 DEF Good, Agrees
<1>16. /\ CompletedNames(journal) \subseteq CompletedNames(journal')
       /\ \A c \in Completions(journal) : c \in Completions(journal') /\ Completion(journal', c) = Completion(journal, c)
  BY <1>5, <1>7, NamesAppend
<1>17. n + 1 \in Completions(journal') /\ (n + 1) - 1 = n /\ journal'[n] = journal[n]
  <2>1. n + 1 \in 1..n + 1
    BY <1>5
  <2>2. n + 1 \in Completions(journal')
    BY <1>7, <1>8, <1>13, <2>1, ShapeFacts, Zenon
  <2> QED BY <1>5, <1>6, <1>8, <2>2
<1>18. Completion(journal', n + 1) = <<wf.plan[h], v>>
  BY <1>6, <1>7, <1>8, <1>17 DEF Completion
<1>19. wf.plan[h] \in CompletedNames(journal')
  BY <1>6, <1>17 DEF CompletedNames
<1>20. \A k \in 1..(h + 1) - 1 : wf.plan[k] \in CompletedNames(journal')
  <2> TAKE k \in 1..(h + 1) - 1
  <2>1. k \in 1..h - 1 \/ k = h
    BY <1>4
  <2> QED BY <1>3, <1>16, <1>19, <2>1 DEF AtStep
<1>21. GoesOn(wf.plan)'
  <2>1. \A i \in 1..n + 1 : journal'[i].kind = "StepBegin" => i + 1 \in Completions(journal')
    <3> TAKE i \in 1..n + 1
    <3> HAVE journal'[i].kind = "StepBegin"
    <3>1. i # n + 1
      BY <1>7, <1>8
    <3> QED BY <1>8, <1>13, <3>1, ShapeFacts
  <2>2. \A i \in DOMAIN journal' : journal'[i].kind = "StepBegin" => i + 1 \in Completions(journal)'
    BY <1>8, <2>1
  <2> QED BY <2>2 DEF GoesOn
<1>22. \A i \in 1..n + 1 : i >= evidence /\ journal'[i].kind = "StepBegin" =>
          \E g \in 1..Len(wf.plan) : journal'[i].name = wf.plan[g] /\ g < h + 1
  <2> TAKE i \in 1..n + 1
  <2> HAVE i >= evidence /\ journal'[i].kind = "StepBegin"
  <2>1. i \in 1..n
    BY <1>7, <1>8, <1>12
  <2>2. IsBegin(i) /\ journal'[i] = journal[i]
    BY <1>8, <2>1 DEF IsBegin
  <2>3. h < h + 1 /\ \A g \in 1..Len(wf.plan) : g < h => g < h + 1
    BY <1>4
  <2>4. CASE i = n
    BY <1>4, <1>6, <2>2, <2>3, <2>4
  <2>5. CASE i # n
    <3>1. evidence < n
      BY <1>5, <2>1, <2>5
    <3>2. PICK g \in 1..Len(wf.plan) : journal[i].name = wf.plan[g] /\ (g < h \/ g = h)
      BY <1>3, <2>1, <2>2, <3>1 DEF AtStep, n
    <3> QED BY <2>2, <2>3, <3>2
  <2> QED BY <2>4, <2>5
<1>23. \A i \in 1..(h + 1) - 1 :
          /\ outcomes'[i][1] = wf.plan[i]
          /\ \E c \in Completions(journal') : Completion(journal', c) = <<wf.plan[i], outcomes'[i][3]>>
  <2> TAKE i \in 1..(h + 1) - 1
  <2>1. i \in 1..h - 1 \/ i = h
    BY <1>4
  <2>2. CASE i \in 1..h - 1
    <3>1. PICK c \in Completions(journal) : Completion(journal, c) = <<wf.plan[i], outcomes[i][3]>>
      BY <1>3, <2>2 DEF AtStep
    <3>2. c \in Completions(journal') /\ Completion(journal', c) = <<wf.plan[i], outcomes[i][3]>>
      BY <1>16, <3>1
    <3>3. outcomes[i][1] = wf.plan[i] /\ outcomes'[i] = outcomes[i]
      BY <1>3, <1>10, <2>2 DEF AtStep
    <3> QED BY <3>2, <3>3
  <2>3. CASE i = h
    BY <1>b, <1>10, <1>17, <1>18, <2>3
  <2> QED BY <2>1, <2>2, <2>3
<1>24. AtStep(h + 1)'
  <2>1. evidence <= n + 1
    BY <1>5
  <2> QED BY <1>1, <1>4, <1>8, <1>9, <1>10, <1>20, <1>22, <1>23, <2>1, Zenon DEF AtStep, IsBegin
<1> QED BY <1>1, <1>2, <1>4, <1>9, <1>11, <1>13, <1>15, <1>21, <1>24 DEF Good

LEMMA FlowNextInv == FlowInv /\ [FlowNext]_flowVars => FlowInv'
<1> SUFFICES ASSUME FlowInv, [FlowNext]_flowVars PROVE FlowInv'
  OBVIOUS
<1>1. astray' \in BOOLEAN
  BY Zenon DEF FlowInv, FlowNext, flowVars, recover_from_journal, Resume, Return, Skip, Rerun, step_begin,
         Exec, step_end, Fail, Crash, set_plan
<1>2. ~astray' => ~astray
  BY DEF FlowInv, FlowNext, flowVars, recover_from_journal, Resume, Return, Skip, Rerun, step_begin,
         Exec, step_end, Fail, Crash, set_plan
<1> SUFFICES ASSUME ~astray', Good PROVE Good'
  BY <1>1, <1>2 DEF FlowInv
<1>3. CASE recover_from_journal
  BY <1>3, RecoverKeeps
<1>4. CASE Resume
  BY <1>4, ResumeKeeps
<1>5. CASE Return
  BY <1>5, QuietStep DEF Return
<1>6. CASE Skip
  BY <1>6, SkipKeeps
<1>7. CASE Rerun
  BY <1>7, RerunKeeps
<1>8. CASE step_begin
  BY <1>8, BeginKeeps
<1>9. CASE Exec
  BY <1>9, ExecKeeps
<1>10. CASE step_end
  BY <1>10, EndKeeps
<1>11. CASE Fail
  BY <1>11, QuietStep DEF Fail
<1>12. CASE Crash
  BY <1>12, QuietStep DEF Crash
<1>13. ASSUME NEW steps \in Plans, set_plan(steps) PROVE Good'
  BY <1>13, SetPlanKeeps
<1>14. CASE UNCHANGED flowVars
  <2>1. UNCHANGED <<journal, wf, pc, todo, evidence, begin, outcomes, effects>>
    BY <1>14 DEF flowVars, locals
  <2>2. FlowTypeOK' /\ Shaped(journal, effects)' /\ Agrees'
    BY <2>1 DEF Good, FlowTypeOK, Agrees
  <2>3. (pc # "down" /\ wf.plan # NoPlan => GoesOn(wf.plan))'
    BY <2>1 DEF Good, GoesOn
  <2>4. \A h : AtStep(h) => AtStep(h)'
    BY <2>1 DEF AtStep, IsBegin
  <2>5. (Resuming => wf.plan # NoPlan /\ \E h \in 1..Len(wf.plan) + 1 : AtStep(h))'
    BY <2>1, <2>4 DEF Good, Resuming
  <2> QED BY <2>2, <2>3, <2>5 DEF Good
<1> QED BY <1>3, <1>4, <1>5, <1>6, <1>7, <1>8, <1>9, <1>10, <1>11, <1>12, <1>13, <1>14 DEF FlowNext

LEMMA FlowInvAlways == FlowSpec => []FlowInv
<1>1. FlowInit => FlowInv
  BY FlowInitInv
<1>2. FlowInv /\ [FlowNext]_flowVars => FlowInv'
  BY FlowNextInv
<1> QED BY <1>1, <1>2, PTL DEF FlowSpec

-----------------------------------------------------------------------------
\* Whatever plans are attached and however often effects and appends fail and the
\* process crashes, recover_from_journal returns what the running workflow has counted,
\* a step has one begin, and each end is paired with the begin of its step.
THEOREM RecoveryAgreesAlways == FlowSpec => []RecoveryAgrees
<1>1. FlowInv => RecoveryAgrees
  <2> SUFFICES ASSUME Good
               PROVE  /\ wf.completed_steps = completed(journal)
                      /\ wf.step_counter = Cardinality({i \in DOMAIN journal : journal[i].kind = "StepBegin"})
                      /\ \A s \in Steps : Cardinality(begins(journal, s)) <= 1
                      /\ \A i \in DOMAIN journal : journal[i].kind = "StepEnd" => IsCompletion(journal, i)
    BY DEF FlowInv, RecoveryAgrees
  <2>1. journal \in Seq(Entry) /\ Shaped(journal, effects) /\ DOMAIN journal = 1..Len(journal)
    BY DEF Good, FlowTypeOK
  <2>2. ASSUME NEW s \in Steps PROVE Cardinality(begins(journal, s)) <= 1
    <3>1. CASE begins(journal, s) = {}
      <4>1. Cardinality(begins(journal, s)) = 0
        BY <3>1, FS_EmptySet
      <4> QED BY <4>1
    <3>2. CASE begins(journal, s) # {}
      <4>1. PICK b : b \in begins(journal, s)
        BY <3>2
      <4>2. begins(journal, s) = {b}
        BY <2>1, <4>1 DEF begins, Shaped
      <4>3. Cardinality({b}) = 1
        BY FS_Singleton
      <4> QED BY <4>2, <4>3
    <3> QED BY <3>1, <3>2
  <2>3. \A i \in DOMAIN journal : journal[i].kind = "StepEnd" => IsCompletion(journal, i)
    <3>1. \A i \in 1..Len(journal) : journal[i].kind = "StepEnd" => i \in Completions(journal)
      BY <2>1, ShapeFacts
    <3> QED BY <2>1, <3>1 DEF Completions
  <2> QED BY <2>2, <2>3 DEF Good, Agrees, BeginSet
<1> QED BY <1>1, FlowInvAlways, PTL

\* resume performs the effect of a step only when the journal shows every earlier step of
\* the plan completed and this one not, and it returns, for each step of the plan in order,
\* the value of an effect of that step, which is the one that the journal holds.
THEOREM EffectsInOrderAlways == FlowSpec => EffectsInOrder
<1> DEFINE InOrder ==
       ~astray =>
       /\ effects' # effects =>
            /\ Head(todo) \notin CompletedNames(journal)
            /\ \A i \in DOMAIN wf.plan :
                 wf.plan[i] \in CompletedNames(journal)
                 \/ \E j \in DOMAIN wf.plan : j <= i /\ wf.plan[j] = Head(todo)
       /\ Return =>
            /\ Len(outcomes) = Len(wf.plan)
            /\ \A i \in DOMAIN outcomes :
                /\ outcomes[i][1] = wf.plan[i]
                /\ effects[outcomes[i][3]] = wf.plan[i]
                /\ \E k \in DOMAIN completed(journal) :
                    completed(journal)[k] = <<outcomes[i][1], outcomes[i][3]>>
<1>1. ASSUME Good, Exec
      PROVE  /\ Head(todo) \notin CompletedNames(journal)
             /\ \A i \in DOMAIN wf.plan :
                 wf.plan[i] \in CompletedNames(journal)
                 \/ \E j \in DOMAIN wf.plan : j <= i /\ wf.plan[j] = Head(todo)
  <2>1. pc = "exec" /\ wf.plan # NoPlan
    BY <1>1 DEF Exec, Good, Resuming
  <2>2. PICK h \in 1..Len(wf.plan) + 1 : AtStep(h)
    BY <1>1, <2>1 DEF Good, Resuming
  <2>3. wf.plan \in Seq(STRING) /\ Len(wf.plan) \in Nat /\ DOMAIN wf.plan = 1..Len(wf.plan)
    BY <1>1, <2>1, PlanFacts
  <2>4. /\ h <= Len(wf.plan) /\ Len(todo) = Len(wf.plan) + 1 - h
        /\ Len(journal) > 0 /\ IsBegin(Len(journal)) /\ journal[Len(journal)].name = wf.plan[h]
    BY <2>1, <2>2 DEF AtStep
  <2>5. todo # <<>>
    BY <1>1, <2>1, <2>2, RunningFacts
  <2>6. Head(todo) = wf.plan[h] /\ h \in 1..Len(wf.plan)
    BY <1>1, <2>1, <2>2, <2>5, HeadFacts, Zenon
  <2>7. journal \in Seq(Entry) /\ Shaped(journal, effects) /\ Len(journal) \in Nat
    BY <1>1 DEF Good, FlowTypeOK
  <2>8. ASSUME wf.plan[h] \in CompletedNames(journal) PROVE FALSE
    <3>1. PICK c \in Completions(journal) : wf.plan[h] = journal[c - 1].name
      BY <2>8 DEF CompletedNames
    <3>2. c \in 1..Len(journal) /\ c - 1 \in 1..Len(journal) /\ journal[c - 1].kind = "StepBegin"
      BY <2>7, ShapeFacts
    <3>3. c - 1 = Len(journal)
      BY <2>4, <2>7, <3>1, <3>2 DEF Shaped, IsBegin
    <3> QED BY <2>7, <3>2, <3>3
  <2>9. ASSUME NEW i \in 1..Len(wf.plan)
        PROVE  wf.plan[i] \in CompletedNames(journal) \/ h <= i
    <3>1. CASE i \in 1..h - 1
      BY <2>2, <3>1 DEF AtStep
    <3>2. CASE h <= i
      BY <3>2
    <3> QED BY <2>6, <3>1, <3>2
  <2> QED BY <2>3, <2>6, <2>8, <2>9
<1>2. ASSUME Good, Return
      PROVE  /\ Len(outcomes) = Len(wf.plan)
             /\ \A i \in DOMAIN outcomes :
                /\ outcomes[i][1] = wf.plan[i]
                /\ effects[outcomes[i][3]] = wf.plan[i]
                /\ \E k \in DOMAIN completed(journal) :
                    completed(journal)[k] = <<outcomes[i][1], outcomes[i][3]>>
  <2>1. pc = "step" /\ todo = <<>> /\ wf.plan # NoPlan
    BY <1>2 DEF Return, Good, Resuming
  <2>2. PICK h \in 1..Len(wf.plan) + 1 : AtStep(h)
    BY <1>2, <2>1 DEF Good, Resuming
  <2>3. wf.plan \in Seq(STRING) /\ Len(wf.plan) \in Nat /\ outcomes \in Seq(STRING \X {"Skipped", "Rerun", "Executed"} \X Nat)
    BY <1>2, <2>1, PlanFacts, StateFacts
  <2>4. Len(todo) = Len(wf.plan) + 1 - h /\ Len(todo) = 0 /\ Len(outcomes) = h - 1
    BY <2>1, <2>2 DEF AtStep
  <2>5. Len(outcomes) = Len(wf.plan) /\ DOMAIN outcomes = 1..h - 1
    BY <2>3, <2>4
  <2>6. journal \in Seq(Entry) /\ Shaped(journal, effects) /\ Len(journal) \in Nat
    BY <1>2 DEF Good, FlowTypeOK
  <2>7. ASSUME NEW i \in 1..h - 1
        PROVE  /\ outcomes[i][1] = wf.plan[i]
               /\ effects[outcomes[i][3]] = wf.plan[i]
               /\ \E k \in DOMAIN completed(journal) :
                    completed(journal)[k] = <<outcomes[i][1], outcomes[i][3]>>
    <3>1. outcomes[i][1] = wf.plan[i]
      BY <2>2 DEF AtStep
    <3>2. PICK c \in Completions(journal) : Completion(journal, c) = <<wf.plan[i], outcomes[i][3]>>
      BY <2>2 DEF AtStep
    <3>3. journal[c - 1].name = wf.plan[i] /\ journal[c].value = outcomes[i][3]
      BY <3>2 DEF Completion
    <3>4. c \in 1..Len(journal) /\ journal[c].kind = "StepEnd"
      BY <2>6, ShapeFacts
    <3>5. effects[outcomes[i][3]] = wf.plan[i]
      BY <2>6, <3>3, <3>4, Zenon DEF Shaped
    <3>6. Completions(journal) \in SUBSET (1..Len(journal))
      BY <2>6, ShapeFacts
    <3>7. PICK k \in 1..Cardinality(Completions(journal)) : Nth(Completions(journal), k) = c
      BY <2>6, <3>6, RankOf, Zenon
    <3>8. k \in DOMAIN completed(journal) /\ completed(journal)[k] = Completion(journal, c)
      BY <3>7 DEF completed
    <3> QED BY <3>1, <3>2, <3>5, <3>8
  <2> QED BY <2>5, <2>7
<1>3. ASSUME effects' # effects, [FlowNext]_flowVars PROVE Exec
  BY <1>3 DEF FlowNext, flowVars, recover_from_journal, Resume, Return, Skip, Rerun, step_begin,
              step_end, Fail, Crash, set_plan
<1>4. FlowInv /\ [FlowNext]_flowVars => InOrder
  <2> SUFFICES ASSUME FlowInv, [FlowNext]_flowVars, ~astray PROVE InOrder
    OBVIOUS
  <2>1. Good
    BY DEF FlowInv
  <2> QED BY <1>1, <1>2, <1>3, <2>1
<1>5. FlowInv /\ [FlowNext]_flowVars => [InOrder]_flowVars
  BY <1>4
<1>6. FlowSpec => [][InOrder]_flowVars
  BY <1>5, FlowInvAlways, PTL DEF FlowSpec
<1> QED BY <1>6 DEF EffectsInOrder
=============================================================================
