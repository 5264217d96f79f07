---------------------------- MODULE SegmentStore ----------------------------
(***************************************************************************)
(* The on-disk segment store of the journal: SegmentStore, SegmentWriter   *)
(* and ArchiveStore in crates/ledger-journal/src/segment/ and archive.rs.  *)
(*                                                                         *)
(* An entry is a number, its content address.  Every file operation that a *)
(* crash or an I/O error can separate from the next one is a step of its   *)
(* own; pc says which comes next.  Segments, the manifest and a rebuilt    *)
(* archive are written to a temporary file, synced and renamed, so each is *)
(* one atomic step; an archive append is two.  Temporary files are deleted *)
(* on load and never read, so they are left out.                           *)
(***************************************************************************)
EXTENDS Integers, Sequences, FiniteSets, SequencesExt

CONSTANTS
    SealAt,         \* entries that fill a segment (SEGMENT_TARGET_SIZE)
    KeepTail,       \* KEEP_TAIL: newest segments the warm tier keeps loose
    FaultRelevant,  \* entries of a fault-relevant kind
    Errors          \* steps at which an I/O error may strike

ASSUME SegmentAssumption == SealAt \in Nat \ {0} /\ KeepTail \in Nat \ {0}

VARIABLES
    \* files
    loose,      \* segment id -> entries, for every segment-*.seg present
    walFile,    \* wal.bin: its frame prefix and its complete frames
    manifest,   \* manifest.bin
    archive,    \* archive.ldgr; torn: the header does not match the records
    \* memory
    sealed, archived, retention, writer, wal, next_segment_id,
    pc,         \* the next file operation of the call in progress
    job         \* what retain has still to do

diskVars == <<loose, walFile, manifest, archive>>
memVars == <<sealed, archived, retention, writer, wal, next_segment_id, pc, job>>
storeVars == <<diskVars, memVars>>

RetentionClass == {"Hot", "Warm", "Cold"}

NoWal == [prefix |-> "missing", frames |-> <<>>]
NoManifest == [retention |-> "Hot", segs |-> <<>>]     \* read like a missing file
NoArchive == [torn |-> FALSE, records |-> <<>>]        \* read like a missing file
NoJob == [promote |-> {}, rebuild |-> FALSE, pending |-> <<>>]

\* SegmentStore::new in a fresh directory.
StoreInit ==
    /\ loose = <<>> /\ walFile = NoWal /\ manifest = NoManifest /\ archive = NoArchive
    /\ sealed = <<>> /\ archived = {} /\ retention = "Hot"
    /\ writer = <<>> /\ wal = FALSE /\ next_segment_id = 0
    /\ pc = "idle" /\ job = NoJob

ArchiveIds == {r.id : r \in ToSet(archive.records)}
SealedIds == {s.id : s \in ToSet(sealed)}
ManifestIds == {s.id : s \in ToSet(manifest.segs)}
Record(records, id) == CHOOSE r \in records : r.id = id
Ascending(S) == [i \in 1..Cardinality(S) |->
                    CHOOSE n \in S : Cardinality({m \in S : m < n}) = i - 1]
Smallest(S) == CHOOSE i \in S : \A j \in S : i <= j
Without(f, id) == [i \in DOMAIN f \ {id} |-> f[i]]
With(f, id, x) == [i \in DOMAIN f \cup {id} |-> IF i = id THEN x ELSE f[i]]

\* segment_bytes: the archived copy wins over the loose file.
segment_bytes(id) ==
    IF \E r \in archived : r.id = id THEN Record(archived, id).entries ELSE loose[id]

SealedEntries == FlattenSeq([i \in 1..Len(sealed) |-> segment_bytes(sealed[i].id)])

entries_in_append_order == SealedEntries \o writer

-----------------------------------------------------------------------------
(* Appending and sealing.                                                  *)

\* append, append_slice and append_frames of the entries es: a store without a
\* WAL handle truncates wal.bin first (ensure_wal).
append_frames(es) ==
    /\ pc = "idle"
    /\ writer' = writer \o es
    /\ walFile' = [prefix |-> "ok", frames |-> (IF wal THEN walFile.frames ELSE <<>>) \o es]
    /\ wal' = TRUE
    /\ pc' = IF Len(writer') >= SealAt THEN "seal" ELSE "idle"
    /\ UNCHANGED <<loose, manifest, archive, sealed, archived, retention, next_segment_id, job>>

\* The same when ensure_wal fails, before or after the file is created, or when
\* the WAL write fails after the writer has taken the frames.
append_fails(es) ==
    /\ pc = "idle"
    /\ \/ /\ "ensure_wal" \in Errors /\ ~wal
          /\ walFile' \in {walFile, [prefix |-> "empty", frames |-> <<>>]}
          /\ UNCHANGED <<writer, wal>>
       \/ /\ "write_wal" \in Errors
          /\ \E k \in 0..Len(es) :
                walFile' = [prefix |-> "ok", frames |->
                    (IF wal THEN walFile.frames ELSE <<>>) \o SubSeq(es, 1, k)]
          /\ writer' = writer \o es
          /\ wal' = TRUE
    /\ pc' = "failed"
    /\ UNCHANGED <<loose, manifest, archive, sealed, archived, retention, next_segment_id, job>>

\* seal_writer, called on its own (force_seal); an empty writer is left alone.
seal_writer ==
    /\ pc = "idle"
    /\ writer # <<>>
    /\ pc' = "seal"
    /\ UNCHANGED <<diskVars, sealed, archived, retention, writer, wal, next_segment_id, job>>

\* Mutated SealSegment: the open writer is sealed but not taken.
SealSegment_keeps_writer ==
    /\ pc = "seal"
    /\ loose' = With(loose, next_segment_id, writer)
    /\ sealed' = Append(sealed, [id |-> next_segment_id,
                                 fault |-> ToSet(writer) \cap FaultRelevant # {}])
    /\ next_segment_id' = next_segment_id + 1
    /\ wal' = FALSE
    /\ pc' = "remove_wal"
    /\ UNCHANGED <<walFile, manifest, archive, archived, retention, writer, job>>

\* SegmentWriter::seal renames the finished file into place.
SealSegment ==
    /\ pc = "seal"
    /\ loose' = With(loose, next_segment_id, writer)
    /\ sealed' = Append(sealed, [id |-> next_segment_id,
                                 fault |-> ToSet(writer) \cap FaultRelevant # {}])
    /\ next_segment_id' = next_segment_id + 1
    /\ writer' = <<>>
    /\ wal' = FALSE
    /\ pc' = "remove_wal"
    /\ UNCHANGED <<walFile, manifest, archive, archived, retention, job>>

RemoveWal ==
    /\ pc = "remove_wal"
    /\ walFile' = NoWal
    /\ pc' = IF retention = "Hot" THEN "idle" ELSE "retain"
    /\ UNCHANGED <<loose, manifest, archive, sealed, archived, retention, writer, wal,
                   next_segment_id, job>>

-----------------------------------------------------------------------------
(* Retention.                                                              *)

set_retention(class) ==
    /\ pc = "idle"
    /\ retention' = class
    /\ pc' = "retain"
    /\ UNCHANGED <<diskVars, sealed, archived, writer, wal, next_segment_id, job>>

\* Mutated newest_tail_start: one segment too many is kept.
newest_tail_start_early ==
    IF Cardinality(SealedIds) <= KeepTail + 1 THEN 0
    ELSE CHOOSE i \in SealedIds : Cardinality({j \in SealedIds : j > i}) = KeepTail

newest_tail_start ==
    IF Cardinality(SealedIds) <= KeepTail THEN 0
    ELSE CHOOSE i \in SealedIds : Cardinality({j \in SealedIds : j >= i}) = KeepTail

should_keep_loose(segment) ==
    CASE retention = "Hot" -> TRUE
      [] retention = "Warm" -> segment.fault \/ segment.id >= newest_tail_start
      [] retention = "Cold" -> FALSE

\* The first half of retain: load the archive and decide what moves.
PlanRetain ==
    /\ pc = "retain"
    /\ LET wanted == {s.id : s \in {x \in ToSet(sealed) : should_keep_loose(x)}}
           toArchive == SelectSeq(sealed, LAMBDA s : s.id \notin wanted \cup ArchiveIds)
       IN  IF archive.torn \/ \E s \in ToSet(toArchive) : s.id \notin DOMAIN loose
           THEN pc' = "failed" /\ job' = job
           ELSE /\ pc' = "promote"
                /\ job' = [promote |-> wanted \cap ArchiveIds,
                           rebuild |-> wanted \cap ArchiveIds # {},
                           pending |-> [i \in 1..Len(toArchive) |->
                                            [id |-> toArchive[i].id,
                                             entries |-> loose[toArchive[i].id]]]]
    /\ UNCHANGED <<diskVars, sealed, archived, retention, writer, wal, next_segment_id>>

\* write_loose_file for one segment that returns from the archive.
PromoteOne ==
    /\ pc = "promote"
    /\ job.promote # {}
    /\ LET id == Smallest(job.promote) IN
        /\ loose' = With(loose, id, Record(ToSet(archive.records), id).entries)
        /\ job' = [job EXCEPT !.promote = @ \ {id}]
    /\ UNCHANGED <<walFile, manifest, archive, sealed, archived, retention, writer, wal,
                   next_segment_id, pc>>

\* ArchiveStore::write_all, or the removal of an archive left empty: what the
\* retention class wants loose leaves the archive, what it does not enters it.
RebuildArchive ==
    /\ pc = "promote"
    /\ job.promote = {}
    /\ job.rebuild
    /\ LET kept == {r \in ToSet(archive.records) :
                        \A s \in ToSet(sealed) : s.id = r.id => ~should_keep_loose(s)}
       IN  archive' = [torn |-> FALSE,
                       records |-> LET all == kept \cup ToSet(job.pending)
                                       ids == Ascending({r.id : r \in all})
                                   IN  [i \in DOMAIN ids |-> Record(all, ids[i])]]
    /\ archived' = ToSet(archive'.records)
    /\ pc' = "remove"
    /\ UNCHANGED <<loose, walFile, manifest, sealed, retention, writer, wal,
                   next_segment_id, job>>

\* ArchiveStore::append: the record is written first, the header after it.
AppendRecord ==
    /\ pc = "promote"
    /\ ~job.rebuild
    /\ job.pending # <<>>
    /\ archive' = [torn |-> TRUE, records |-> Append(archive.records, Head(job.pending))]
    /\ pc' = "commit"
    /\ UNCHANGED <<loose, walFile, manifest, sealed, archived, retention, writer, wal,
                   next_segment_id, job>>

CommitRecord ==
    /\ pc = "commit"
    /\ archive' = [archive EXCEPT !.torn = FALSE]
    /\ job' = [job EXCEPT !.pending = Tail(@)]
    /\ pc' = "promote"
    /\ UNCHANGED <<loose, walFile, manifest, sealed, archived, retention, writer, wal,
                   next_segment_id>>

\* Nothing (more) to append: the in-memory list of archived segments is replaced.
EndArchive ==
    /\ pc = "promote"
    /\ ~job.rebuild
    /\ job.pending = <<>>
    /\ archived' = ToSet(archive.records)
    /\ pc' = "remove"
    /\ UNCHANGED <<diskVars, sealed, retention, writer, wal, next_segment_id, job>>

ToRemove == {r.id : r \in archived} \cap SealedIds \cap DOMAIN loose

RemoveLoose ==
    /\ pc = "remove"
    /\ ToRemove # {}
    /\ loose' = Without(loose, Smallest(ToRemove))
    /\ UNCHANGED <<walFile, manifest, archive, memVars>>

CurrentManifest == [retention |-> retention, segs |-> sealed]

\* The last step of retain.
RetainManifest ==
    /\ pc = "remove"
    /\ ToRemove = {}
    /\ manifest' = CurrentManifest
    /\ pc' = "idle"
    /\ job' = NoJob
    /\ UNCHANGED <<loose, walFile, archive, sealed, archived, retention, writer, wal,
                   next_segment_id>>

\* write_manifest, called on its own.
write_manifest ==
    /\ pc = "idle"
    /\ manifest' = CurrentManifest
    /\ UNCHANGED <<loose, walFile, archive, memVars>>

\* Mutated StepFails: retain goes on to remove the loose files.
StepFails_ignored ==
    /\ pc \in Errors
    /\ pc' = IF pc = "promote" THEN "remove" ELSE "failed"
    /\ archived' = IF pc = "promote" THEN ToSet(archive.records) \cup ToSet(job.pending)
                   ELSE archived
    /\ writer' = IF pc = "seal" THEN <<>> ELSE writer
    /\ job' = NoJob
    /\ UNCHANGED <<diskVars, sealed, retention, wal, next_segment_id>>

\* The file operation of a step returns an I/O error.  A failed seal has already
\* taken the writer; nothing else is undone.
StepFails ==
    /\ pc \in Errors
    /\ pc' = "failed"
    /\ writer' = IF pc = "seal" THEN <<>> ELSE writer
    /\ job' = NoJob
    /\ UNCHANGED <<diskVars, sealed, archived, retention, wal, next_segment_id>>

-----------------------------------------------------------------------------
(* Crashes and loading.                                                    *)

\* What a crash can leave of the WAL: frames are buffered and never synced, so
\* any number of the last ones is lost, and so may be the end of the prefix.  A
\* partial last frame is dropped by last_complete_frame_end and left out here.
CrashedWals ==
    IF walFile.prefix # "ok" THEN {walFile}
    ELSE {[prefix |-> "ok", frames |-> SubSeq(walFile.frames, 1, k)] :
              k \in 0..Len(walFile.frames)}
         \cup {[prefix |-> p, frames |-> <<>>] : p \in {"empty", "torn"}}

Down ==
    /\ sealed' = <<>> /\ archived' = {} /\ retention' = "Hot" /\ writer' = <<>>
    /\ wal' = FALSE /\ next_segment_id' = 0 /\ pc' = "down" /\ job' = NoJob

\* The process dies, or the machine does before the WAL reaches the disk; the
\* other files keep every write that returned.
Crash ==
    /\ pc # "down"
    /\ walFile' \in CrashedWals
    /\ Down
    /\ UNCHANGED <<loose, manifest, archive>>

\* The store is dropped between calls, which flushes the WAL.
Close ==
    /\ pc = "idle"
    /\ Down
    /\ UNCHANGED diskVars

\* The segment ids load_sealed_segments reads: those of the manifest, if it has
\* any, else those found on disk.
load_ids ==
    IF manifest.segs # <<>> THEN [i \in 1..Len(manifest.segs) |-> manifest.segs[i].id]
    ELSE Ascending(DOMAIN loose \cup ArchiveIds)

OnDisk(id) == id \in DOMAIN loose \cup ArchiveIds

\* A segment that is missing is tolerated in the last place only.
LoadableSegments ==
    /\ ~archive.torn
    /\ \A i \in 1..(Len(load_ids) - 1) : OnDisk(load_ids[i])

loaded_ids == SelectSeq(load_ids, OnDisk)

LoadedEntries ==
    LET ids == loaded_ids
        bytes(id) == IF id \in ArchiveIds THEN Record(ToSet(archive.records), id).entries
                     ELSE loose[id]
    IN  FlattenSeq([i \in DOMAIN ids |-> bytes(ids[i])])

load_sealed_segments ==
    LET ids == load_ids
        present == loaded_ids
        flag(id) == \E s \in ToSet(manifest.segs) : s.id = id /\ s.fault
        inArchive == {r \in ToSet(archive.records) : r.id \in ToSet(present)}
    IN  /\ LoadableSegments
        /\ next_segment_id' = IF ids = <<>> THEN 0 ELSE Last(ids) + 1
        /\ sealed' = [i \in DOMAIN present |-> [id |-> present[i], fault |-> flag(present[i])]]
        /\ archived' = inArchive
        /\ retention' = IF inArchive = {} \/ manifest.retention # "Hot" THEN manifest.retention
                        ELSE IF ToSet(present) \subseteq {r.id : r \in inArchive}
                             THEN "Cold" ELSE "Warm"

\* Mutated recovered: frames that a sealed segment already holds are kept.
recovered_no_dedup == walFile.frames

\* Mutated recovered: any sealed segment is taken to hold the frames of the WAL.
recovered_if_unsealed == IF LoadedEntries = <<>> THEN walFile.frames ELSE <<>>

\* The frames of the WAL that no sealed segment holds.
recovered ==
    LET sealed_ids == ToSet(LoadedEntries)
    IN  SelectSeq(walFile.frames, LAMBDA e : e \notin sealed_ids)

\* They return to the writer; the handle is reopened only when there are some.
recover_wal ==
    /\ walFile.prefix # "torn"
    /\ writer' = recovered
    /\ wal' = (recovered # <<>>)

\* SegmentStore::load.
load ==
    /\ pc = "down"
    /\ load_sealed_segments
    /\ recover_wal
    /\ pc' = "idle"
    /\ job' = NoJob
    /\ UNCHANGED diskVars

\* SegmentStore::load when it fails; a torn WAL prefix has been truncated away
\* before it is found invalid.
LoadFails ==
    /\ pc = "down"
    /\ ~LoadableSegments \/ walFile.prefix = "torn"
    /\ walFile' = IF LoadableSegments THEN [prefix |-> "empty", frames |-> <<>>] ELSE walFile
    /\ UNCHANGED <<loose, manifest, archive, memVars>>

\* The steps of a call in progress.
StoreStep ==
    \/ SealSegment \/ RemoveWal \/ PlanRetain \/ PromoteOne \/ RebuildArchive
    \/ AppendRecord \/ CommitRecord \/ EndArchive \/ RemoveLoose \/ RetainManifest
    \/ StepFails

\* A segment on disk that the manifest, being non-empty, hides from a load.
StaleManifest ==
    manifest.segs # <<>> /\ \E id \in DOMAIN loose \cup ArchiveIds : id \notin ManifestIds
=============================================================================
