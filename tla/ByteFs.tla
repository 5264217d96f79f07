------------------------------- MODULE ByteFs -------------------------------
(***************************************************************************)
(* What a simulated filesystem promises: a file is a sequence of bytes, of  *)
(* which an earlier one is saved.  A byte knows the write that put it       *)
(* there, and Hole is a zero that nobody wrote.                             *)
(***************************************************************************)
EXTENDS Naturals, Sequences, Functions

CONSTANTS Paths, Unsaved

VARIABLE store       \* for each existing path [bytes, saved]

Hole == <<0, 0, 0>>
Writer(byte) == byte[1]
Save(file) == [file EXCEPT !.saved = file.bytes]

ByteInit == store = <<>>

(* The steps, as relations between the files before and after.             *)

\* One file takes bytes of a write somewhere, and holes up to there; the rest of
\* it is as it was, and what is saved stays saved.
Overlaid(old, new) ==
    \E from, to \in 0..Len(new) :
        /\ from < to
        /\ \A i \in DOMAIN new :
            IF from < i /\ i <= to THEN new[i] # Hole /\ Writer(new[i]) = Writer(new[to])
            ELSE new[i] = IF i <= Len(old) THEN old[i] ELSE Hole
        /\ Len(new) = IF to > Len(old) THEN to ELSE Len(old)

Write(before, after, p) ==
    /\ DOMAIN after = DOMAIN before \cup {p}
    /\ \A q \in DOMAIN before \ {p} : after[q] = before[q]
    /\ LET old == IF p \in DOMAIN before THEN before[p] ELSE [bytes |-> <<>>, saved |-> Unsaved]
       IN  Overlaid(old.bytes, after[p].bytes) /\ after[p].saved = old.saved

Create(before, after, p) ==
    /\ p \notin DOMAIN before
    /\ after = [q \in DOMAIN before \cup {p} |->
                  IF q = p THEN [bytes |-> <<>>, saved |-> Unsaved] ELSE before[q]]

Sync(before, after, S) ==
    after = [q \in DOMAIN before |-> IF q \in S THEN Save(before[q]) ELSE before[q]]

\* The file moves with what is saved of it, and replaces the one that was there.
Move(before, after, p, q) ==
    /\ p \in DOMAIN before /\ p # q
    /\ after = [r \in (DOMAIN before \ {p}) \cup {q} |-> IF r = q THEN before[p] ELSE before[r]]

\* A crash gives each file back as it was saved, if it was.
Crash(before, after, S) ==
    after = [q \in {r \in DOMAIN before : r \in S => before[r].saved # Unsaved} |->
               IF q \in S THEN [before[q] EXCEPT !.bytes = before[q].saved] ELSE before[q]]

\* A fault changes or takes bytes of one write in one file, and may shorten it.
Damage(before, after, p) ==
    /\ p \in DOMAIN before /\ DOMAIN after = DOMAIN before
    /\ \E w \in {Writer(b) : b \in Range(before[p].bytes) \ {Hole}} :
        LET old == before[p].bytes
            new == after[p].bytes
        IN  /\ after = [before EXCEPT ![p].bytes = new]
            /\ Len(new) <= Len(old)
            /\ \A i \in DOMAIN old :
                IF old[i] # Hole /\ Writer(old[i]) = w
                THEN i \in DOMAIN new => new[i] = Hole \/ Writer(new[i]) = w
                ELSE IF i \in DOMAIN new THEN new[i] = old[i] ELSE old[i] = Hole

\* The two bound names let TLC compute the mapped files once for each step.
ByteNext ==
    \E before \in {store}, after \in {store'} :
        \/ \E p \in Paths : Write(before, after, p) \/ Create(before, after, p) \/ Damage(before, after, p)
        \/ \E S \in SUBSET Paths : Sync(before, after, S) \/ Crash(before, after, S)
        \/ \E p, q \in Paths : Move(before, after, p, q)

ByteSpec == ByteInit /\ [][ByteNext]_store
=============================================================================
