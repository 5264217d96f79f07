-------------------------- MODULE PersistentJournal -------------------------
(***************************************************************************)
(* PersistentJournal in crates/ledger-journal/src/persistent.rs: an        *)
(* in-memory journal, the segment store as its durable copy, and the       *)
(* snapshot file (snapshot.rs, snapshot_store.rs).                         *)
(*                                                                         *)
(* One actor appends, so that an entry is determined by its place: its     *)
(* hash covers its predecessor, and a replay reproduces the hash exactly   *)
(* when the predecessor is the one the entry was created after.            *)
(***************************************************************************)
EXTENDS SegmentStore

CONSTANTS
    MaxEntries,     \* bound: entries created over the whole behaviour
    MaxBatch,       \* bound: entries of one append_batch
    Interval,       \* snapshot_interval
    Classes,        \* retention classes that are set
    Calls           \* the calls that are made besides append and append_batch

ASSUME JournalAssumption ==
    /\ MaxEntries \in Nat /\ MaxBatch \in Nat \ {0} /\ Interval \in Nat \ {0}
    /\ Classes \subseteq RetentionClass
    /\ Calls \subseteq {"force_seal", "write_manifest", "fork", "reject"}

VARIABLES
    journal,    \* the in-memory journal, in append order
    saved,      \* snapshot_state of the call: what a store failure rolls back to
    due,        \* entries of the call that have still to be snapshotted
    snapFile,   \* the snapshot file: whether its header matches the records, and these
    prev,       \* entry -> the entry it was created after, 0 for none
    was,        \* history: what was sealed and what was journalled when it went down
    mishaps     \* history: which of the known divergences have happened

journalVars == <<journal, saved, due, snapFile, prev, was, mishaps>>
persistVars == <<storeVars, journalVars>>

NoSnapshots == [chain |-> "ok", entries |-> {}]

JournalInit ==
    /\ StoreInit
    /\ journal = <<>> /\ saved = <<>> /\ due = <<>> /\ snapFile = NoSnapshots
    /\ prev = <<>> /\ mishaps = {}
    /\ was = [must |-> <<>>, may |-> <<>>, clean |-> TRUE]

Ready == pc = "idle" /\ due = <<>>

\* The next n entries, created one after another at the end of the journal.
Fresh(n) == [i \in 1..n |-> Len(prev) + i]
Chained(n) == [i \in 1..n |-> IF i > 1 THEN Len(prev) + i - 1
                              ELSE IF journal = <<>> THEN 0 ELSE Last(journal)]

\* The place of an entry is its sequence number plus one.
should_snapshot(place) == place > 1 /\ (place - 1) % Interval = 0

-----------------------------------------------------------------------------

\* append (n = 1) and append_batch: memory first, then the store; the
\* snapshots follow when the store has finished.
AppendEntries(n) ==
    /\ Ready
    /\ Len(prev) + n <= MaxEntries
    /\ saved' = journal
    /\ journal' = journal \o Fresh(n)
    /\ prev' = prev \o Chained(n)
    /\ \/ /\ append_frames(Fresh(n))
          /\ due' = SelectSeq(Fresh(n), LAMBDA e :
                        should_snapshot(Len(journal) + e - Len(prev)))
          /\ mishaps' = mishaps
       \/ /\ append_fails(Fresh(n))
          /\ due' = <<>>
          /\ mishaps' = mishaps \cup {"failed"}
    /\ UNCHANGED <<snapFile, was>>

\* append_batch with an invalid entry after the first n: the journal keeps the
\* valid ones and the store is never called.
RejectBatch(n) ==
    /\ Ready
    /\ "reject" \in Calls
    /\ Len(prev) + n <= MaxEntries
    /\ journal' = journal \o Fresh(n)
    /\ prev' = prev \o Chained(n)
    /\ mishaps' = mishaps \cup {"rejected"}
    /\ UNCHANGED <<storeVars, saved, due, snapFile, was>>

\* SnapshotStore::append writes the record, then the chain in the header.  The
\* chain it continues is the one in memory: a file that is broken stays so.
WriteSnapshot ==
    /\ pc = "idle"
    /\ due # <<>>
    /\ snapFile.chain # "half"
    /\ snapFile' = [chain |-> IF snapFile.chain = "ok" THEN "half" ELSE "broken",
                    entries |-> snapFile.entries \cup {Head(due)}]
    /\ due' = IF snapFile.chain = "ok" THEN due ELSE Tail(due)
    /\ UNCHANGED <<storeVars, journal, saved, prev, was, mishaps>>

CommitSnapshot ==
    /\ pc = "idle"
    /\ due # <<>>
    /\ snapFile.chain = "half"
    /\ snapFile' = [snapFile EXCEPT !.chain = "ok"]
    /\ due' = Tail(due)
    /\ UNCHANGED <<storeVars, journal, saved, prev, was, mishaps>>

\* An I/O error in SnapshotStore::append ends the call; nothing is rolled back.
SnapshotFails ==
    /\ pc = "idle"
    /\ due # <<>>
    /\ "snapshot" \in Errors
    /\ due' = <<>>
    /\ snapFile' = [snapFile EXCEPT !.chain = IF @ = "ok" THEN "ok" ELSE "broken"]
    /\ mishaps' = mishaps \cup {"failed"}
    /\ UNCHANGED <<storeVars, journal, saved, prev, was>>

force_seal ==
    /\ Ready
    /\ "force_seal" \in Calls
    /\ seal_writer
    /\ saved' = journal
    /\ UNCHANGED <<journal, due, snapFile, prev, was, mishaps>>

SetRetention(class) ==
    /\ Ready
    /\ set_retention(class)
    /\ saved' = journal
    /\ UNCHANGED <<journal, due, snapFile, prev, was, mishaps>>

WriteManifest ==
    /\ Ready
    /\ "write_manifest" \in Calls
    /\ write_manifest
    /\ UNCHANGED journalVars

\* A step of the store within a call.
Proceed ==
    /\ StoreStep
    /\ mishaps' = IF pc' = "failed" THEN mishaps \cup {"failed"} ELSE mishaps
    /\ UNCHANGED <<journal, saved, due, snapFile, prev, was>>

\* The call returns the store's error; an append restores snapshot_state first.
Rollback ==
    /\ pc = "failed"
    /\ journal' = saved
    /\ due' = <<>>
    /\ pc' = "idle"
    /\ UNCHANGED <<diskVars, sealed, archived, retention, writer, wal, next_segment_id, job,
                   saved, snapFile, prev, was, mishaps>>

\* fork, continued in the fork's directory: every sealed segment becomes a loose
\* file, a fresh load finds them, the entries past them are appended (sealing
\* whenever a segment is full) and the manifest is written.
Fork ==
    /\ Ready
    /\ "fork" \in Calls
    /\ LET rest == SubSeq(journal, Len(SealedEntries) + 1, Len(journal))
           full == Len(rest) \div SealAt
           open == SubSeq(rest, full * SealAt + 1, Len(rest))
           next == IF sealed = <<>> THEN 0 ELSE Last(sealed).id + 1
           chunk(id) == SubSeq(rest, (id - next) * SealAt + 1, (id - next + 1) * SealAt)
           ids == Ascending(SealedIds \cup next..(next + full - 1))
       IN  /\ loose' = [id \in ToSet(ids) |->
                            IF id < next THEN segment_bytes(id) ELSE chunk(id)]
           /\ sealed' = [i \in 1..Len(ids) |-> [id |-> ids[i], fault |->
                            /\ ids[i] >= next
                            /\ ToSet(chunk(ids[i])) \cap FaultRelevant # {}]]
           /\ next_segment_id' = next + full
           /\ writer' = open
           /\ wal' = (open # <<>>)
           /\ walFile' = IF open = <<>> THEN NoWal ELSE [prefix |-> "ok", frames |-> open]
           /\ manifest' = [retention |-> "Hot", segs |-> sealed']
    /\ archive' = NoArchive /\ archived' = {} /\ retention' = "Hot"
    /\ snapFile' = NoSnapshots
    /\ UNCHANGED <<pc, job, journal, saved, due, prev, was, mishaps>>

-----------------------------------------------------------------------------

GoDown(clean) ==
    /\ was' = [must |-> IF clean THEN journal ELSE SealedEntries,
               may |-> journal, clean |-> clean]
    /\ mishaps' = IF StaleManifest THEN mishaps \cup {"stale"} ELSE mishaps
    /\ journal' = <<>> /\ saved' = <<>> /\ due' = <<>>
    /\ UNCHANGED <<snapFile, prev>>

CrashDown == Crash /\ GoDown(FALSE)

CloseDown == Ready /\ Close /\ GoDown(TRUE)

\* Replaying the persisted entries reproduces their hashes.
Replays(entries) ==
    \A i \in 1..Len(entries) : prev[entries[i]] = IF i = 1 THEN 0 ELSE entries[i - 1]

\* The checks of open on what the store holds: the replay, and every snapshot's
\* entry must be in the journal.
Accepts ==
    /\ Replays(LoadedEntries \o recovered)
    /\ snapFile.entries \subseteq ToSet(LoadedEntries \o recovered)

Open ==
    /\ snapFile.chain = "ok"
    /\ load
    /\ Accepts
    /\ journal' = entries_in_append_order'
    /\ saved' = journal'
    /\ UNCHANGED <<due, snapFile, prev, was, mishaps>>

\* open returns an error; all it may have changed is the torn WAL prefix.
OpenFails ==
    /\ pc = "down"
    /\ \/ snapFile.chain # "ok" /\ UNCHANGED storeVars
       \/ snapFile.chain = "ok" /\ LoadFails
       \/ /\ snapFile.chain = "ok" /\ LoadableSegments /\ walFile.prefix # "torn"
          /\ ~Accepts
          /\ UNCHANGED storeVars
    /\ UNCHANGED journalVars

JournalNext ==
    \/ \E n \in 1..MaxBatch : AppendEntries(n) \/ RejectBatch(n)
    \/ WriteSnapshot \/ CommitSnapshot \/ SnapshotFails
    \/ force_seal \/ WriteManifest \/ Fork
    \/ \E class \in Classes : SetRetention(class)
    \/ Proceed \/ Rollback
    \/ CrashDown \/ CloseDown \/ Open \/ OpenFails

\* Whoever finds the journal closed opens it, again if an attempt fails.
JournalSpec == JournalInit /\ [][JournalNext]_persistVars /\ WF_persistVars(Open) /\ WF_persistVars(OpenFails)

-----------------------------------------------------------------------------

Entries == 1..MaxEntries

\* The memory journal is the read authority and the store its durable copy:
\* between calls they hold the same entries in the same order, unless a call
\* failed, a batch was rejected or a stale manifest was loaded.
MemoryIsStore ==
    mishaps = {} /\ pc = "idle" => entries_in_append_order = journal

\* Every tier is non-destructive: at every instant of seal and retain, failed
\* ones included, each sealed segment is in a loose file or in the archive.
SealedOnDisk ==
    "stale" \notin mishaps => SealedIds \subseteq DOMAIN loose \cup ArchiveIds

\* A journal that is opened again holds at least what had been sealed when it
\* crashed (everything, when it was closed) and nothing that it did not hold.
NonDestructive ==
    [][Open /\ mishaps = {} =>
        IsPrefix(was.must, journal') /\ IsPrefix(journal', was.may)]_persistVars

\* When retain succeeds each segment is in exactly the place its class calls
\* for: warm keeps the fault-relevant and the newest loose, cold archives all.
RetainSettles ==
    [][RetainManifest /\ "stale" \notin mishaps =>
        \A i \in 1..Len(sealed) :
            LET kept == \/ retention = "Hot"
                        \/ retention = "Warm" /\ (sealed[i].fault \/ i > Len(sealed) - KeepTail)
            IN  /\ kept <=> sealed[i].id \in DOMAIN loose
                /\ kept <=> sealed[i].id \notin ArchiveIds]_persistVars

\* No crash fell between a record and the header that commits it, and the WAL
\* still holds what a snapshot covers.
Untorn ==
    /\ ~archive.torn /\ snapFile.chain = "ok"
    /\ snapFile.entries \subseteq ToSet(LoadedEntries \o recovered)

\* A journal that was closed between calls, or crashed at any step that tears
\* neither the archive nor the snapshots, is open again after finitely many
\* attempts, and its replay reproduces every hash.
Reopens == pc = "down" /\ mishaps = {} /\ (was.clean \/ Untorn) ~> pc = "idle"

-----------------------------------------------------------------------------
(* What the repository says of the journal, and the code does not keep.    *)

\* "sealed entries must be retrievable after crash" (segment/mod.rs, the test
\* crash_right_after_seal_reopens_cleanly).
SealedRetrievable == [][Open => IsPrefix(was.must, journal')]_persistVars

\* "Header rewrite is the commit point" (archive.rs, snapshot_store.rs) and "with
\* crash-recovery semantics" (ROADMAP.md): a journal that crashed opens again.
CrashRecovers == pc = "down" ~> pc = "idle"
=============================================================================
