---------------------------- MODULE DurableCodec ----------------------------
(***************************************************************************)
(* The durable records: the execution identity (ledger-journal             *)
(* identity.rs), the solver-state artifact (ledger-explorer                *)
(* solver_state.rs), the frames of the write-ahead log and of segments     *)
(* (ledger-journal segment), actor snapshots (snapshot.rs), run manifests  *)
(* (ledger-format manifest.rs) and the container prefix (frame.rs).        *)
(***************************************************************************)
EXTENDS WireCodec

(* blake3, of which only that distinct contents used here have distinct    *)
(* digests is relied on.                                                   *)
Digest(b) == [i \in 1..DIGEST_LEN |->
                FoldLeft(LAMBDA acc, x : (acc * (29 + 2 * i) + x + 7) % 256, i, b)]

-----------------------------------------------------------------------------
(* ExecutionIdentity.                                                      *)

identity_text == <<"string", 8, MAX_IDENTITY_FIELD_BYTES, TRUE>>
flag == <<"byte", {0, 1}>>
(* A u32 is written in eight bytes.                                        *)
wide_u32 == <<"capped", 8, <<255, 255, 255, 255>>>>
input_digests == <<"seq", DIGEST_LEN + 2, MAX_IDENTITY_INPUT_DIGESTS, <<"framed">>>>

canonical_bytes_fields ==
    <<<<"engine_revision", <<"opt", identity_text>>>>, <<"engine_dirty", flag>>,
      <<"engine_version", identity_text>>, <<"toolchain", identity_text>>,
      <<"target_triple", identity_text>>, <<"build_profile", identity_text>>,
      <<"features", identity_text>>, <<"lockfile_digest", <<"opt", <<"framed">>>>>>,
      <<"sut_revision", <<"opt", identity_text>>>>, <<"sut_dirty", flag>>,
      <<"sut_artifact_digest", <<"opt", <<"framed">>>>>>, <<"guest_digest", <<"opt", <<"framed">>>>>>,
      <<"workload_id", identity_text>>, <<"program_digest", <<"framed">>>>,
      <<"input_digests", input_digests>>, <<"backend", identity_text>>,
      <<"runtime_profile", identity_text>>, <<"run_config_digest", <<"framed">>>>,
      <<"seed_tree_root", <<"framed">>>>, <<"faultspec_digest", <<"opt", <<"framed">>>>>>,
      <<"oracle_version", <<"opt", <<"u", 8>>>>>>, <<"support_provider_version", <<"opt", <<"u", 8>>>>>>,
      <<"journal_format_version", <<"u", 8>>>>, <<"crash_semantics_version", <<"u", 8>>>>,
      <<"max_steps", <<"u", 8>>>>>>

(* encode_hashes sorts the input digests.                                  *)
encode_hashes(digests) == SortSeq(digests, Before)
canonical_bytes(identity) ==
    PutFields(canonical_bytes_fields, [identity EXCEPT !.input_digests = encode_hashes(@)])

from_canonical_bytes_fields ==
    <<<<"engine_revision", <<"opt", identity_text>>>>, <<"engine_dirty", flag>>,
      <<"engine_version", identity_text>>, <<"toolchain", identity_text>>,
      <<"target_triple", identity_text>>, <<"build_profile", identity_text>>,
      <<"features", identity_text>>, <<"lockfile_digest", <<"opt", <<"framed">>>>>>,
      <<"sut_revision", <<"opt", identity_text>>>>, <<"sut_dirty", flag>>,
      <<"sut_artifact_digest", <<"opt", <<"framed">>>>>>, <<"guest_digest", <<"opt", <<"framed">>>>>>,
      <<"workload_id", identity_text>>, <<"program_digest", <<"framed">>>>,
      <<"input_digests", input_digests>>, <<"backend", identity_text>>,
      <<"runtime_profile", identity_text>>, <<"run_config_digest", <<"framed">>>>,
      <<"seed_tree_root", <<"framed">>>>, <<"faultspec_digest", <<"opt", <<"framed">>>>>>,
      <<"oracle_version", <<"opt", <<"u", 8>>>>>>, <<"support_provider_version", <<"opt", <<"u", 8>>>>>>,
      <<"journal_format_version", wide_u32>>, <<"crash_semantics_version", wide_u32>>,
      <<"max_steps", <<"u", 8>>>>>>
identity_from_canonical_bytes(in) == Whole(in, TakeFields(from_canonical_bytes_fields, in, 1, <<>>))

-----------------------------------------------------------------------------
(* The solver-state artifact.                                              *)

STATE_MAGIC == <<76, 83>>               \* two bytes for the eight
STATE_FORMAT_VERSION == 2

Hashes(bound) == <<"seq", bound, UNCAPPED, <<"raw">>>>
encode_closure ==
    <<<<"key", <<"raw">>>>,
      <<"clauses", <<"seq", 1, UNCAPPED, <<"rec",
            <<<<"literals", Hashes(1)>>, <<"weight", <<"u", 8>>>>>>>>>>>>,
      <<"hypotheses", <<"seq", 1, UNCAPPED, <<"rec",
            <<<<"events", Hashes(1)>>, <<"total_cost", <<"u", 8>>>>>>>>>>>>>>
encode_artifact_fields ==
    <<<<"resolved_engine", <<"byte">>>>, <<"run_config_hash", <<"opt", <<"raw">>>>>>,
      <<"config_fingerprint", <<"raw">>>>,
      <<"closures", <<"seq", 1, UNCAPPED, <<"rec", encode_closure>>>>>>>>
(* A clause or a hypothesis needs 16 bytes, a closure a key and 16 more.   *)
decode_closure ==
    <<<<"key", <<"raw">>>>,
      <<"clauses", <<"seq", 16, UNCAPPED, <<"rec",
            <<<<"literals", Hashes(DIGEST_LEN)>>, <<"weight", <<"u", 8>>>>>>>>>>>>,
      <<"hypotheses", <<"seq", 16, UNCAPPED, <<"rec",
            <<<<"events", Hashes(DIGEST_LEN)>>, <<"total_cost", <<"u", 8>>>>>>>>>>>>>>
decode_artifact_fields ==
    <<<<"resolved_engine", <<"byte", {0, 1}>>>>, <<"run_config_hash", <<"opt", <<"raw">>>>>>,
      <<"config_fingerprint", <<"raw">>>>,
      <<"closures", <<"seq", DIGEST_LEN + 16, UNCAPPED, <<"rec", decode_closure>>>>>>>>

(* SolverEngine::Auto, which must be resolved first.                       *)
AUTO == 254
encode_artifact(artifact) ==
    IF artifact.resolved_engine = AUTO THEN Reject
    ELSE Joined(<<Ok(STATE_MAGIC \o <<STATE_FORMAT_VERSION>>, 0), PutFields(encode_artifact_fields, artifact)>>)
decode_artifact(in) ==
    IF Len(in) < Len(STATE_MAGIC) + 3 + DIGEST_LEN + 8 THEN Reject
    ELSE IF SubSeq(in, 1, Len(STATE_MAGIC) + 1) # STATE_MAGIC \o <<STATE_FORMAT_VERSION>> THEN Reject
    ELSE Whole(in, TakeFields(decode_artifact_fields, in, Len(STATE_MAGIC) + 2, <<>>))

-----------------------------------------------------------------------------
(* Frames of entries: length, id, data length, data, vector clock.  The    *)
(* id is the digest of data and clock together, so it says nothing of      *)
(* where one ends and the other begins.                                    *)

encode_clock(clock) ==
    LET actors == SetToSortSeq(DOMAIN clock, Before)
    IN  major(5, Numeral(Len(actors)))
        \o Concat([i \in DOMAIN actors |-> major(0, actors[i]) \o major(0, clock[actors[i]])])
ClockOfMap(r) ==
    LET pairs == r.v[2] IN
        IF /\ r.ok
           /\ r.v[1] = "Map"
           /\ \A i \in DOMAIN pairs : /\ pairs[i][1][1] = "Unsigned" /\ pairs[i][2][1] = "Unsigned"
                                      /\ Len(pairs[i][1][2]) <= 4
        THEN Ok([a \in {pairs[i][1][2] : i \in DOMAIN pairs} |->
                    (CHOOSE p \in Range(pairs) : p[1][2] = a)[2][2]], 0)
        ELSE Reject
decode_vector_clock(in) == ClockOfMap(from_canonical_bytes(in))

MIN_FRAME_PAYLOAD == DIGEST_LEN + 8
EntryOf(data, clock) ==
    [id |-> Digest(encode_entry(data).v \o encode_clock(clock)), data |-> data, vector_clock |-> clock]
encode_entry_frame(id, data, clock) ==
    IF ~data.ok THEN Reject
    ELSE Ok(le(Numeral(DIGEST_LEN + 8 + Len(data.v) + Len(clock)), 8)
            \o id \o le(Numeral(Len(data.v)), 8) \o data.v \o clock, 0)
write_frame(entry) ==
    encode_entry_frame(entry.id, encode_entry(entry.data), encode_clock(entry.vector_clock))

(* The payload of the frame at offset and where it ends; at = 0 marks the  *)
(* end of the block.                                                       *)
next_frame(block, offset) ==
    IF offset > Len(block) THEN Ok(<<>>, 0)
    ELSE LET len == Uint(block, offset, 8) IN
         IF ~len.ok \/ ~Exceeds(len.v, MIN_FRAME_PAYLOAD - 1) THEN Reject
         ELSE IF Exceeds(len.v, Len(block) - len.at + 1) THEN Reject
         ELSE take(block, len.at, Number(len.v))

\* An entry is filed under the digest of its content.
HashMatches(content, id) == Digest(content) = id
EntryWithClock(id, entry, vc) ==
    IF entry.ok /\ vc.ok THEN Ok([id |-> id, data |-> entry.v, vector_clock |-> vc.v], 0) ELSE Reject
decode_frame_payload(payload) ==
    LET id == SubSeq(payload, 1, DIGEST_LEN)
        data_len == Uint(payload, DIGEST_LEN + 1, 8)
        from == MIN_FRAME_PAYLOAD + 1
        upto == MIN_FRAME_PAYLOAD + Number(data_len.v)
    IN  IF Len(payload) < MIN_FRAME_PAYLOAD THEN Reject
        ELSE IF Exceeds(data_len.v, Len(payload) - MIN_FRAME_PAYLOAD) THEN Reject
        ELSE IF ~HashMatches(SubSeq(payload, from, Len(payload)), id) THEN Reject
        ELSE EntryWithClock(id, decode_entry(SubSeq(payload, from, upto)),
                            decode_vector_clock(SubSeq(payload, upto + 1, Len(payload))))

(* The walk over a block: the entries up to the end or to the first bad    *)
(* frame, and whether it reached the end.                                  *)
RECURSIVE Walk(_, _, _), WalkFrame(_, _, _), WalkEntry(_, _, _, _)
Walk(block, offset, so_far) == WalkFrame(block, next_frame(block, offset), so_far)
WalkFrame(block, frame, so_far) ==
    IF ~frame.ok \/ frame.at = 0 THEN [ok |-> frame.ok, v |-> so_far, at |-> 0]
    ELSE WalkEntry(block, frame.at, decode_frame_payload(frame.v), so_far)
WalkEntry(block, offset, entry, so_far) ==
    IF entry.ok THEN Walk(block, offset, Append(so_far, entry.v))
    ELSE [ok |-> FALSE, v |-> so_far, at |-> 0]

-----------------------------------------------------------------------------
(* Snapshots and manifests.                                                *)

snapshot_to_canonical_bytes(s) ==
    array(6) \o major(0, s.actor) \o major(0, s.sequence) \o bytes(to_framed_bytes(s.entry_id))
    \o bytes(encode_clock(s.vector_clock)) \o bytes(to_framed_bytes(s.state_hash)) \o bytes(s.state_data)

IsA(v, variant) == v[1] = variant
decode_framed_hash(v) == IF IsA(v, "Bytes") THEN from_framed_bytes(v[2]) ELSE Reject
ItemsOf(r, n) ==
    IF r.ok /\ IsA(r.v, "Array") THEN (IF Len(r.v[2]) = n THEN Ok(r.v[2], 0) ELSE Reject) ELSE Reject

SnapshotOf(r) ==
    IF ~r.ok THEN Reject ELSE
    LET i == r.v
        entry_id == decode_framed_hash(i[3]) state_hash == decode_framed_hash(i[5])
        clock == IF IsA(i[4], "Bytes") THEN decode_vector_clock(i[4][2]) ELSE Reject
    IN  IF /\ IsA(i[1], "Unsigned") /\ IsA(i[2], "Unsigned") /\ IsA(i[6], "Bytes")
           /\ Len(i[1][2]) <= 4
           /\ entry_id.ok /\ clock.ok /\ state_hash.ok
        THEN Ok([actor |-> i[1][2], sequence |-> i[2][2], entry_id |-> entry_id.v,
                 vector_clock |-> clock.v, state_hash |-> state_hash.v, state_data |-> i[6][2]], 0)
        ELSE Reject
snapshot_from_canonical_bytes(in) == SnapshotOf(ItemsOf(from_canonical_bytes(in), 6))

MANIFEST_FORMAT_VERSION == <<3>>
CRASH_SEMANTICS_VERSION == <<1>>
manifest_to_canonical_bytes(m) ==
    LET actors == SetToSortSeq(DOMAIN m.actor_heads, Before)
    IN  array(8) \o major(0, m.format_version) \o major(0, m.crash_semantics_version)
        \o (IF m.execution_identity = <<>> THEN <<246>>
            ELSE bytes(to_framed_bytes(m.execution_identity[1])))
        \o bytes(to_framed_bytes(m.root_seed))
        \o major(3, Numeral(Len(m.policy_tag))) \o m.policy_tag
        \o bytes(to_framed_bytes(m.journal_root)) \o major(0, m.entry_count)
        \o try_encode(<<"Map", [k \in DOMAIN actors |->
                <<<<"Unsigned", actors[k]>>, <<"Bytes", to_framed_bytes(m.actor_heads[actors[k]])>>>>]>>).v

ManifestOf(r) ==
    IF ~r.ok THEN Reject ELSE
    LET i == r.v
        identity == CASE i[3] = <<"Null">> -> Ok(<<>>, 0)
                      [] IsA(i[3], "Bytes") /\ from_framed_bytes(i[3][2]).ok
                                     -> Ok(<<from_framed_bytes(i[3][2]).v>>, 0)
                      [] OTHER -> Reject
        seed == decode_framed_hash(i[4]) root == decode_framed_hash(i[6])
        heads == i[8][2]
    IN  IF /\ i[1] = <<"Unsigned", MANIFEST_FORMAT_VERSION>>
           /\ i[2] = <<"Unsigned", CRASH_SEMANTICS_VERSION>>
           /\ identity.ok /\ seed.ok /\ root.ok
           /\ IsA(i[5], "Text") /\ IsA(i[7], "Unsigned") /\ IsA(i[8], "Map")
           /\ \A k \in DOMAIN heads : /\ IsA(heads[k][1], "Unsigned") /\ Len(heads[k][1][2]) <= 4
                                      /\ decode_framed_hash(heads[k][2]).ok
        THEN Ok([format_version |-> i[1][2], crash_semantics_version |-> i[2][2],
                 execution_identity |-> identity.v, root_seed |-> seed.v, policy_tag |-> i[5][2],
                 journal_root |-> root.v, entry_count |-> i[7][2],
                 actor_heads |-> [a \in {heads[k][1][2] : k \in DOMAIN heads} |->
                     decode_framed_hash((CHOOSE h \in Range(heads) : h[1][2] = a)[2]).v]], 0)
        ELSE Reject
manifest_from_canonical_bytes(in) == ManifestOf(ItemsOf(from_canonical_bytes(in), 8))

-----------------------------------------------------------------------------
(* The container prefix: magic, version, header length, flags.             *)

encode_prefix(magic, header_len) == magic \o le(<<3>>, 4) \o le(header_len, 4) \o le(<<>>, 4)
parse_prefix(in, expected) ==
    LET magic == take(in, 1, Len(expected))
        version == Uint(in, magic.at, 4)
        header_len == Uint(in, version.at, 4)
        flags == Uint(in, header_len.at, 4)
    IN  IF Len(in) < Len(expected) + 12 THEN Reject
        ELSE IF /\ magic.v = expected
                /\ version.v = <<3>>
                /\ ~Exceeds(header_len.v, MAX_HEADER_BYTES)
                /\ flags.v = <<>>
             THEN Ok(header_len.v, flags.at) ELSE Reject
=============================================================================
