------------------------------- MODULE SimFs --------------------------------
(***************************************************************************)
(* The simulated filesystem of ledger-sim (simfs.rs), in its default build. *)
(* A file is a map from offsets to ranges that do not overlap, one in the   *)
(* page cache and one that is durable.  A byte is <<write, place, flips>>:  *)
(* the write that put it there, its place in it, and whether it is damaged. *)
(* A call that fails changes nothing and is left out.                       *)
(***************************************************************************)
EXTENDS Naturals, Sequences, SequencesExt

CONSTANTS
    Paths,
    Unsaved,
    max_file_extent, max_resident_bytes,
    RANGE_OVERHEAD, PATH_OVERHEAD,
    SCALAR,          \* length of a value that is appended
    MaxWrites,      \* bound: journaled writes and allocations
    MaxFaults        \* bound: torn and corrupted writes

ASSUME SimFsAssumption ==
    /\ max_file_extent \in Nat /\ max_resident_bytes \in Nat /\ MaxWrites \in Nat /\ MaxFaults \in Nat
    /\ RANGE_OVERHEAD \in Nat /\ PATH_OVERHEAD \in Nat /\ SCALAR \in Nat

VARIABLES
    files,           \* File of each existing path
    entries,         \* number of journaled mutations; the last one is its own name
    torn,            \* history: the writes that lost bytes
    faults           \* number of torn and corrupted writes

fsVars == <<files, entries, torn, faults>>

Hole == <<0, 0, 0>>
NewFile(id) == [cache |-> <<>>, durable |-> <<>>, length |-> 0, created_by |-> id, durable_exists |-> FALSE]

FsInit == files = <<>> /\ entries = 0 /\ torn = {} /\ faults = 0

End(cache, s) == s + Len(cache[s].content)
Put(p, file) == files' = [q \in DOMAIN files \cup {p} |-> IF q = p THEN file ELSE files[q]]
Journaled == entries < MaxWrites /\ entries' = entries + 1
Faulted == faults < MaxFaults /\ faults' = faults + 1

Ends(cache) == {End(cache, s) : s \in DOMAIN cache}
recompute_length(cache) == Max(Ends(cache) \cup {0})

-----------------------------------------------------------------------------
(* Writing.                                                                *)

Total(Weight(_), S) == FoldSet(LAMBDA x, sum : Weight(x) + sum, 0, S)
Content(cache) == Total(LAMBDA s : Len(cache[s].content), DOMAIN cache)

charge_resident(additional_bytes, new_ranges, new_paths) ==
    Total(LAMBDA p : Content(files[p].cache), DOMAIN files) + additional_bytes
    + (Total(LAMBDA p : Cardinality(DOMAIN files[p].cache), DOMAIN files) + new_ranges) * RANGE_OVERHEAD
    + (Cardinality(DOMAIN files) + new_paths) * PATH_OVERHEAD <= max_resident_bytes

\* Mutated Overwritten: what begins before the window is dropped whole.
Overwritten_left_lost(cache, from, to, range) ==
    LET affected == {s \in DOMAIN cache : s < to /\ End(cache, s) > from}
        right == {s \in affected : End(cache, s) > to}
        Part(s, i, j) == [cache[s] EXCEPT !.content = SubSeq(@, i - s + 1, j - s)]
    IN  [s \in (DOMAIN cache \ affected) \cup {from} \cup {to : r \in right} |->
            IF s = from THEN range
            ELSE IF s = to /\ right # {} THEN LET r == Max(right) IN Part(r, to, End(cache, r))
            ELSE cache[s]]

\* The cache after a write to [from, to): what extends into the window is trimmed.
Overwritten(cache, from, to, range) ==
    LET affected == {s \in DOMAIN cache : s < to /\ End(cache, s) > from}
        left == {s \in affected : s < from}
        right == {s \in affected : End(cache, s) > to}
        Part(s, i, j) == [cache[s] EXCEPT !.content = SubSeq(@, i - s + 1, j - s)]
    IN  [s \in (DOMAIN cache \ affected) \cup left \cup {from} \cup {to : r \in right} |->
            IF s = from THEN range
            ELSE IF s = to /\ right # {} THEN LET r == Max(right) IN Part(r, to, End(cache, r))
            ELSE IF s \in left THEN Part(s, s, from)
            ELSE cache[s]]

write_bytes(p, offset, len) ==
    LET exists == p \in DOMAIN files
        file == IF exists THEN files[p] ELSE NewFile(entries')
        range == [content |-> [i \in 1..len |-> <<entries', i, 0>>], write_id |-> entries']
    IN  /\ offset + len <= max_file_extent
        /\ charge_resident(len, IF ~exists \/ len > 0 THEN 1 ELSE 0, IF exists THEN 0 ELSE 1)
        /\ Journaled
        /\ IF len = 0 THEN UNCHANGED files
           ELSE Put(p, [file EXCEPT !.length = Max({@, offset + len}),
                                    !.cache = Overwritten(@, offset, offset + len, range)])
        /\ UNCHANGED <<torn, faults>>

append_tear(p) == write_bytes(p, IF p \in DOMAIN files THEN files[p].length ELSE 0, SCALAR)

allocate(p) ==
    /\ p \notin DOMAIN files
    /\ charge_resident(0, 1, 1)
    /\ Journaled
    /\ Put(p, NewFile(entries'))
    /\ UNCHANGED <<torn, faults>>

-----------------------------------------------------------------------------
(* Persisting and renaming.  These take no name that a read could refer to. *)

persist(file) == [file EXCEPT !.durable = file.cache, !.durable_exists = TRUE]

fsync ==
    /\ files' = [p \in DOMAIN files |-> persist(files[p])]
    /\ UNCHANGED <<entries, torn, faults>>

fsync_path(p) ==
    /\ p \in DOMAIN files
    /\ Put(p, persist(files[p]))
    /\ UNCHANGED <<entries, torn, faults>>

rename(p, q) ==
    /\ p \in DOMAIN files /\ p # q
    /\ files' = [r \in (DOMAIN files \ {p}) \cup {q} |-> IF r = q THEN files[p] ELSE files[r]]
    /\ UNCHANGED <<entries, torn, faults>>

-----------------------------------------------------------------------------
(* apply_crash_operation.                                                  *)

drop_unsynced(file) ==
    [file EXCEPT !.cache = file.durable, !.length = recompute_length(file.durable)]

\* DropPaths, and DropAllUnsynced for all paths.
DropPaths(S) ==
    /\ files' = [p \in {q \in DOMAIN files : q \in S => files[q].durable_exists} |->
                    IF p \in S THEN drop_unsynced(files[p]) ELSE files[p]]
    /\ UNCHANGED <<entries, torn, faults>>

\* The range that an operator finds: the first of the write's in path order.
Target(p, s, write) ==
    /\ p \in DOMAIN files /\ s \in DOMAIN files[p].cache
    /\ files[p].cache[s].write_id = write
    /\ \A t \in DOMAIN files[p].cache : files[p].cache[t].write_id = write => s <= t

TornWrite(p, s, prefix) ==
    /\ \E write \in 1..entries : Target(p, s, write) /\ torn' = torn \cup {write}
    /\ prefix <= Len(files[p].cache[s].content)
    /\ LET cache == [files[p].cache EXCEPT ![s].content = SubSeq(@, 1, prefix)]
       IN  Put(p, [files[p] EXCEPT !.cache = cache, !.length = recompute_length(cache)])
    /\ Faulted /\ UNCHANGED entries

\* CorruptRange and BitFlip.
Corrupt(p, s, Hit) ==
    /\ \E write \in 1..entries : Target(p, s, write)
    /\ Hit # {} /\ Hit \subseteq DOMAIN files[p].cache[s].content
    /\ Put(p, [files[p] EXCEPT !.cache[s].content =
                 [i \in DOMAIN @ |-> IF i \in Hit THEN [@[i] EXCEPT ![3] = 1 - @] ELSE @[i]]])
    /\ Faulted /\ UNCHANGED <<entries, torn>>

-----------------------------------------------------------------------------
(* read_bytes, of an existing file: the bytes and the parents of the entry. *)

Monus(a, b) == IF a > b THEN a - b ELSE 0
Holes(n) == [i \in 1..n |-> Hole]

\* Mutated CopyRange: holes are skipped.
CopyRange_dense(cache, window_end, acc, s) ==
    LET from == Max({s, acc.cursor})
        copy_len == Monus(Min({End(cache, s), window_end}), from)
    IN  IF End(cache, s) <= acc.cursor THEN acc
        ELSE [out |-> acc.out \o SubSeq(cache[s].content, from - s + 1, from - s + copy_len),
              parents |-> acc.parents \cup {cache[s].write_id},
              cursor |-> from + copy_len]

\* One range of the loop.  A hole before it is filled with zeros.
CopyRange(cache, window_end, acc, s) ==
    LET from == Max({s, acc.cursor})
        copy_len == Monus(Min({End(cache, s), window_end}), from)
    IN  IF End(cache, s) <= acc.cursor THEN acc
        ELSE [out |-> acc.out \o Holes(from - acc.cursor)
                      \o SubSeq(cache[s].content, from - s + 1, from - s + copy_len),
              parents |-> acc.parents \cup {cache[s].write_id},
              cursor |-> from + copy_len]

Ascending == [i \in 1..max_file_extent + 1 |-> i - 1]

read_bytes(p, offset, requested_len) ==
    LET cache == files[p].cache
        window_end == offset + Min({Monus(files[p].length, offset), requested_len})
        starts == SelectSeq(Ascending, LAMBDA s : s \in DOMAIN cache /\ s < Max({window_end, offset + 1}))
        end == FoldLeft(LAMBDA acc, s : CopyRange(cache, window_end, acc, s),
                        [out |-> <<>>, parents |-> {}, cursor |-> offset], starts)
    IN  [content |-> end.out \o Holes(Monus(window_end, end.cursor)),
         parents |-> IF end.parents = {} THEN {files[p].created_by} ELSE end.parents]

-----------------------------------------------------------------------------
Offsets == 0..max_file_extent
Lengths == 0..max_file_extent

FsNext ==
    \/ \E p \in Paths, offset \in Offsets, len \in Lengths : write_bytes(p, offset, len)
    \/ \E p \in Paths : append_tear(p) \/ allocate(p) \/ fsync_path(p)
    \/ \E p, q \in Paths : rename(p, q)
    \/ fsync
    \/ \E S \in SUBSET Paths : DropPaths(S)
    \/ \E p \in Paths, s \in Offsets, prefix \in Lengths : TornWrite(p, s, prefix)
    \/ \E p \in Paths, s \in Offsets, i, j \in 1..max_file_extent : Corrupt(p, s, i..j)

FsSpec == FsInit /\ [][FsNext]_fsVars

-----------------------------------------------------------------------------
(* The bytes that ranges stand for.                                        *)

Bytes(ranges) ==
    [i \in 1..recompute_length(ranges) |->
        LET covering == {s \in DOMAIN ranges : s < i /\ i <= End(ranges, s)}
        IN  IF covering = {} THEN Hole ELSE ranges[Max(covering)].content[i - Max(covering)]]

Reference ==
    INSTANCE ByteFs WITH
        store <- [p \in DOMAIN files |->
                    [bytes |-> Bytes(files[p].cache),
                     saved |-> IF files[p].durable_exists THEN Bytes(files[p].durable) ELSE Unsaved]]

\* Splitting, trimming, persisting and restoring ranges does to the bytes of a file
\* what a filesystem promises: a write changes its own bytes only, a crash gives
\* back exactly what was saved, and damage stays within the write it targets.
ImplementsByteFs == Reference!ByteSpec

Writers(bytes) == {b[1] : b \in Range(bytes) \ {Hole}}

\* Every read of any file returns the bytes that are there up to the end of the
\* file, and its entry has as parents the writes of those bytes and, besides
\* them, only writes that were torn; a read of no written byte has one parent.
ReadsExplained ==
    \A p \in DOMAIN files :
        /\ files[p].length = recompute_length(files[p].cache)
        /\ \A bytes \in {Bytes(files[p].cache)}, offset \in Offsets, n \in Lengths :
            \A read \in {read_bytes(p, offset, n)} :
                /\ read.content = SubSeq(bytes, offset + 1, Min({offset + n, files[p].length}))
                /\ Writers(read.content) \subseteq read.parents
                /\ \/ read.parents \subseteq Writers(read.content) \cup torn
                   \/ Writers(read.content) = {} /\ Cardinality(read.parents) = 1
=============================================================================
