------------------------------ MODULE MCStorage ------------------------------
(***************************************************************************)
(* Where entries are kept, one part at a time: the graph of entries that   *)
(* the views of a journal share, and the store whose steps fail.           *)
(***************************************************************************)
EXTENDS JournalDag, PersistentJournal, TLC

VARIABLE part                   \* the part at work
storageVars == <<part, vars, persistVars>>

\* No definition tells actors or views apart.
Symmetry == Permutations(Actors) \cup Permutations(Views)

StorageInit == part \in {"dag", "store"} /\ Init /\ JournalInit

Dag_(A) == part = "dag" /\ A /\ UNCHANGED <<part, persistVars>>
Store_(A) == part = "store" /\ A /\ UNCHANGED <<part, vars>>

StorageNext == Dag_(Next) \/ Store_(JournalNext)

StorageSpec == StorageInit /\ [][StorageNext]_storageVars

-----------------------------------------------------------------------------

=============================================================================
