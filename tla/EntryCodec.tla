----------------------------- MODULE EntryCodec -----------------------------
(***************************************************************************)
(* The canonical v3 encoding of journal entries (ledger-format entry.rs)   *)
(* with path references (path.rs), over the byte layer of Cbor.            *)
(*                                                                         *)
(* The 24 payload kinds are three tables, each translated from its own     *)
(* place in the source: the fields of every payload case (the type         *)
(* declarations), the order in which the encoder writes them, and the      *)
(* order, readers and arity checks of the decoder.  A payload is a record  *)
(* of its fields with its case name in "case".  A digest, a path hash and  *)
(* a capability identifier are DIGEST_LEN bytes instead of 32, 32 and 16.  *)
(***************************************************************************)
EXTENDS Cbor, TLC

CONSTANTS
    DIGEST_LEN,
    MAX_ENTRY_BYTES,
    MAX_PARENTS_PER_ENTRY,
    MAX_VECTOR_CLOCK_ACTORS,
    MAX_CANONICAL_PATH_BYTES

ASSUME EntryAssumption ==
    {DIGEST_LEN, MAX_ENTRY_BYTES, MAX_PARENTS_PER_ENTRY, MAX_VECTOR_CLOCK_ACTORS,
     MAX_CANONICAL_PATH_BYTES} \subseteq Nat

ENTRY_FORMAT_VERSION == <<3>>

-----------------------------------------------------------------------------
(* Paths: '/' is 47, '.' is 46.                                            *)

Split(raw) == FoldLeft(LAMBDA acc, b : IF b = 47 THEN Append(acc, <<>>)
                                       ELSE [acc EXCEPT ![Len(acc)] = Append(@, b)],
                       <<<<>>>>, raw)
(* "." and empty components vanish, ".." pops one and fails at the root;   *)
(* the length limit applies to the canonical bytes.                        *)
canonicalize(raw) ==
    LET Step(acc, component) ==
            CASE component \in {<<>>, <<46>>} -> acc
              [] component = <<46, 46>> -> IF acc.v = <<>> THEN Reject
                                           ELSE [acc EXCEPT !.v = Front(@)]
              [] OTHER -> [acc EXCEPT !.v = Append(@, component)]
        out == FoldLeft(LAMBDA acc, component : IF acc.ok THEN Step(acc, component) ELSE acc,
                        Ok(<<>>, 0), Split(raw))
        canonical == IF out.v = <<>> THEN <<47>>
                     ELSE Concat([i \in 1..Len(out.v) |-> <<47>> \o out.v[i]])
    IN  IF \/ \E i \in 1..Len(raw) : raw[i] = 0
           \/ ~out.ok
        THEN Reject
        ELSE IF Len(canonical) > MAX_CANONICAL_PATH_BYTES THEN Reject
        ELSE Ok(canonical, 0)

-----------------------------------------------------------------------------
(* Entry kinds and the fields of every payload case.                       *)

EntryKinds == <<"Spawn", "Block", "Wake", "TimerSet", "TimerFire", "ClockRead",
    "Send", "Recv", "FsWrite", "FsFsync", "FsRead", "RngDraw", "Outcome",
    "Assert", "Snapshot", "Epoch", "InputStep", "CapRequest", "CapGrant",
    "CapInvoke", "CapRevoke", "Fault", "StepBegin", "StepEnd">>
tag(kind) == Numeral((CHOOSE i \in DOMAIN EntryKinds : EntryKinds[i] = kind) - 1)
from_tag(n) == IF Exceeds(n, 23) THEN "none" ELSE EntryKinds[Number(n) + 1]

(* Block, wake and step-end discriminants, message frames.                 *)
StepFields ==
    [Yield        |-> <<>>, WaitMessage |-> <<>>,
     TimerReady   |-> [timer_id |-> "u64"],
     MessageReady |-> [message_id |-> "msgid"],
     Completed    |-> [step_id |-> "u64", result |-> "value"],
     Failed       |-> [step_id |-> "u64", error |-> "value"],
     Cancelled    |-> [step_id |-> "u64", reason |-> "value"],
     Send         |-> [message_id |-> "msgid", from |-> "u32", to |-> "u32", original_content |-> "bytes"],
     Recv         |-> [message_id |-> "msgid", from |-> "u32", to |-> "u32", observed_content |-> "bytes"]]

(* Filesystem, randomness, outcome and marker payloads.                    *)
EffectFields ==
    [Write     |-> [path_ref |-> "path", offset |-> "u64", content |-> "bytes"],
     Allocate  |-> [path_ref |-> "path"],
     Rename    |-> [from_path_ref |-> "path", to_path_ref |-> "path"],
     FsFsync   |-> [path_ref |-> "path"],
     Missing   |-> <<>>,
     Present   |-> [content |-> "bytes"],
     FsRead    |-> [path_ref |-> "path", offset |-> "u64", requested_len |-> "u64", observed |-> "Observed"],
     RngDraw   |-> [stream |-> "u32", draw_index |-> "u64", content |-> "bytes"],
     Outcome   |-> [schema |-> "hash", value |-> "value"],
     Assert    |-> [predicate |-> "hash", passed |-> "bool", detail |-> "value"],
     Snapshot  |-> [snapshot_digest |-> "hash"],
     Epoch     |-> [epoch |-> "u64"],
     InputStep |-> [generator |-> "u64", replay |-> "u64", value |-> "value"]]

(* Capability, crash and fault payloads.                                   *)
FaultFields ==
    [CapRequest       |-> [request |-> "id", subject |-> "hash", capability |-> "hash"],
     CapGrant         |-> [request |-> "id", grant |-> "id", epoch |-> "u64"],
     CapInvoke        |-> [grant |-> "id", operation |-> "hash"],
     CapRevoke        |-> [grant |-> "id", epoch |-> "u64"],
     DropAllUnsynced  |-> <<>>,
     DropPaths        |-> [paths |-> "paths"],
     TornWrite        |-> [write_entry |-> "hash", persisted_prefix |-> "u64"],
     CorruptRange     |-> [write_entry |-> "hash", offset |-> "u64", xor_bytes |-> "bytes"],
     BitFlip          |-> [write_entry |-> "hash", offset |-> "u64", bit |-> "u8"],
     DropMessage      |-> [message_id |-> "msgid"],
     DelayMessage     |-> [message_id |-> "msgid", ticks |-> "u64"],
     DuplicateMessage |-> [message_id |-> "msgid", copy_ordinal |-> "u32"],
     CorruptMessage   |-> [message_id |-> "msgid", offset |-> "u64", xor_bytes |-> "bytes"],
     Partition        |-> [src |-> "u32", dst |-> "u32", enabled |-> "bool"],
     CrashActor       |-> [actor |-> "u32", crash_operation |-> "Crash"],
     StepBegin        |-> [step_id |-> "u64", name |-> "bytes", idempotency_key |-> "opt"]]

(* The variants EntryPayload itself declares.                              *)
OwnFields ==
    [Spawn     |-> [child_actor |-> "u32"],
     TimerSet  |-> [timer_id |-> "u64", deadline_ticks |-> "u64"],
     TimerFire |-> [timer_id |-> "u64", deadline_ticks |-> "u64"],
     ClockRead |-> [ticks |-> "u64"]]

PayloadFields == OwnFields @@ StepFields @@ EffectFields @@ FaultFields

(* EntryPayload::kind: a case of an enum payload belongs to its kind.      *)
kind_of(case) ==
    CASE case \in {"Yield", "WaitMessage"} -> "Block"
      [] case \in {"TimerReady", "MessageReady"} -> "Wake"
      [] case \in {"Write", "Allocate", "Rename"} -> "FsWrite"
      [] case \in {"DropMessage", "DelayMessage", "DuplicateMessage", "CorruptMessage",
                   "Partition", "CrashActor"} -> "Fault"
      [] case \in {"Completed", "Failed", "Cancelled"} -> "StepEnd"
      [] OTHER -> case

-----------------------------------------------------------------------------
(* The encoder: the discriminant, if any, and the fields in written order. *)

Row(disc, order) == [disc |-> disc, order |-> order]

scheduling_rows ==
    [Spawn        |-> Row(<<>>, <<"child_actor">>),
     Yield        |-> Row(<<0>>, <<>>),
     WaitMessage  |-> Row(<<1>>, <<>>),
     TimerReady   |-> Row(<<0>>, <<"timer_id">>),
     MessageReady |-> Row(<<1>>, <<"message_id">>),
     TimerSet     |-> Row(<<>>, <<"timer_id", "deadline_ticks">>),
     TimerFire    |-> Row(<<>>, <<"timer_id", "deadline_ticks">>),
     ClockRead    |-> Row(<<>>, <<"ticks">>),
     Send         |-> Row(<<>>, <<"message_id", "from", "to", "original_content">>),
     Recv         |-> Row(<<>>, <<"message_id", "from", "to", "observed_content">>)]
fs_rows ==
    [Write    |-> Row(<<0>>, <<"path_ref", "offset", "content">>),
     Allocate |-> Row(<<1>>, <<"path_ref">>),
     Rename   |-> Row(<<2>>, <<"from_path_ref", "to_path_ref">>),
     FsFsync  |-> Row(<<>>, <<"path_ref">>),
     FsRead   |-> Row(<<>>, <<"path_ref", "offset", "requested_len", "observed">>),
     Missing  |-> Row(<<0>>, <<>>),
     Present  |-> Row(<<1>>, <<"content">>)]
value_rows ==
    [RngDraw    |-> Row(<<>>, <<"stream", "draw_index", "content">>),
     Outcome    |-> Row(<<>>, <<"schema", "value">>),
     Assert     |-> Row(<<>>, <<"predicate", "passed", "detail">>),
     Snapshot   |-> Row(<<>>, <<"snapshot_digest">>),
     Epoch      |-> Row(<<>>, <<"epoch">>),
     InputStep  |-> Row(<<>>, <<"generator", "replay", "value">>),
     CapRequest |-> Row(<<>>, <<"request", "subject", "capability">>),
     CapGrant   |-> Row(<<>>, <<"request", "grant", "epoch">>),
     CapInvoke  |-> Row(<<>>, <<"grant", "operation">>),
     CapRevoke  |-> Row(<<>>, <<"grant", "epoch">>),
     StepBegin  |-> Row(<<>>, <<"step_id", "name", "idempotency_key">>),
     Completed  |-> Row(<<0>>, <<"step_id", "result">>),
     Failed     |-> Row(<<1>>, <<"step_id", "error">>),
     Cancelled  |-> Row(<<2>>, <<"step_id", "reason">>)]
encode_fault_payload ==
    [DropMessage      |-> Row(<<0>>, <<"message_id">>),
     DelayMessage     |-> Row(<<1>>, <<"message_id", "ticks">>),
     DuplicateMessage |-> Row(<<2>>, <<"message_id", "copy_ordinal">>),
     CorruptMessage   |-> Row(<<3>>, <<"message_id", "offset", "xor_bytes">>),
     Partition        |-> Row(<<4>>, <<"src", "dst", "enabled">>),
     CrashActor       |-> Row(<<5>>, <<"actor", "crash_operation">>),
     DropAllUnsynced  |-> Row(<<0>>, <<>>),
     DropPaths        |-> Row(<<1>>, <<"paths">>),
     TornWrite        |-> Row(<<2>>, <<"write_entry", "persisted_prefix">>),
     CorruptRange     |-> Row(<<3>>, <<"write_entry", "offset", "xor_bytes">>),
     BitFlip          |-> Row(<<4>>, <<"write_entry", "offset", "bit">>)]
encode_rows == scheduling_rows @@ fs_rows @@ value_rows @@ encode_fault_payload

array(n) == major(4, Numeral(n))
bytes(b) == major(2, Numeral(Len(b))) \o b
to_framed_bytes(digest) == <<30, 32>> \o digest
encode_path_ref(r) == array(2) \o bytes(r[1]) \o bytes(r[2])
encode_message_id(m) == array(2) \o major(0, m[1]) \o major(0, m[2])

(* A sequence of encodings; one that fails fails the whole.                *)
Joined(rs) == IF \A i \in DOMAIN rs : rs[i].ok
              THEN Ok(Concat([i \in DOMAIN rs |-> rs[i].v]), 0) ELSE Reject

RECURSIVE encode_payload(_), encode_field(_, _)
encode_payload(p) ==
    LET row == encode_rows[p.case]
        disc == [i \in DOMAIN row.disc |-> Ok(major(0, Numeral(row.disc[i])), 0)]
        fields == [i \in DOMAIN row.order |->
                      encode_field(PayloadFields[p.case][row.order[i]], p[row.order[i]])]
    IN  Joined(<<Ok(array(Len(disc) + Len(fields)), 0)>> \o disc \o fields)

encode_field(type, v) ==
    CASE type \in {"u64", "u32", "u8"} -> Ok(major(0, v), 0)
      [] type \in {"bytes", "id"}      -> Ok(bytes(v), 0)
      [] type = "hash"                 -> Ok(bytes(to_framed_bytes(v)), 0)
      [] type = "bool"                 -> Ok(<<IF v THEN 245 ELSE 244>>, 0)
      [] type = "opt"                  -> Ok(IF v = <<>> THEN <<246>> ELSE bytes(v[1]), 0)
      [] type = "path"                 -> Ok(encode_path_ref(v), 0)
      [] type = "paths"                -> Ok(array(Len(v)) \o Concat([i \in DOMAIN v |-> encode_path_ref(v[i])]), 0)
      [] type = "msgid"                -> Ok(encode_message_id(v), 0)
      [] type = "value"                -> value_encode(v)
      [] type \in {"Observed", "Crash"} -> encode_payload(v)

(* EntryData::encode_into: too many parents are refused before anything is *)
(* written, an encoding above the cap after.                               *)
EntryData(kind, actor, parents, clock, sequence, payload) ==
    [format_version |-> ENTRY_FORMAT_VERSION, kind |-> kind, actor |-> actor,
     parents |-> parents, vector_clock |-> clock, sequence |-> sequence, payload |-> payload]

Capped(out) == IF Len(out) > MAX_ENTRY_BYTES THEN Reject ELSE Ok(out, 0)
EncodedWith(e, payload) ==
    IF ~payload.ok THEN Reject
    ELSE Capped(array(7) \o major(0, e.format_version) \o major(0, tag(e.kind))
               \o major(0, e.actor)
               \o array(Len(e.parents))
               \o Concat([i \in DOMAIN e.parents |-> bytes(to_framed_bytes(e.parents[i]))])
               \o array(Len(e.vector_clock))
               \o Concat([i \in DOMAIN e.vector_clock |-> major(0, e.vector_clock[i])])
               \o major(0, e.sequence) \o payload.v)
encode_entry(e) ==
    IF Len(e.parents) > MAX_PARENTS_PER_ENTRY THEN Reject
    ELSE EncodedWith(e, encode_payload(e.payload))

-----------------------------------------------------------------------------
(* The decoder.  For each payload kind: the array sizes it accepts, and    *)
(* for each discriminant the case, the sizes that case accepts and its     *)
(* fields with their readers, in read order.  Where the code checks the    *)
(* size once for all cases, every case accepts every size.                 *)

R(case, sizes, reads) == [case |-> case, sizes |-> sizes, reads |-> reads]
(* A kind without discriminant has one reader, at 0.                       *)
Plain(case, reads) == [sizes |-> {Len(reads)}, tagged |-> FALSE,
                       cases |-> (0 :> R(case, {Len(reads)}, reads))]
Tagged(sizes, cases) == [sizes |-> sizes, tagged |-> TRUE, cases |-> cases]

decode_scheduling ==
    [Spawn     |-> Plain("Spawn", <<<<"child_actor", "u32">>>>),
     Block     |-> Tagged({1}, 0 :> R("Yield", {1}, <<>>) @@ 1 :> R("WaitMessage", {1}, <<>>)),
     Wake      |-> Tagged({2}, 0 :> R("TimerReady", {2}, <<<<"timer_id", "u64">>>>)
                            @@ 1 :> R("MessageReady", {2}, <<<<"message_id", "msgid">>>>)),
     TimerSet  |-> Plain("TimerSet", <<<<"timer_id", "u64">>, <<"deadline_ticks", "u64">>>>),
     TimerFire |-> Plain("TimerFire", <<<<"timer_id", "u64">>, <<"deadline_ticks", "u64">>>>),
     ClockRead |-> Plain("ClockRead", <<<<"ticks", "u64">>>>),
     Send      |-> Plain("Send", <<<<"message_id", "msgid">>, <<"from", "u32">>, <<"to", "u32">>, <<"original_content", "bytes">>>>),
     Recv      |-> Plain("Recv", <<<<"message_id", "msgid">>, <<"from", "u32">>, <<"to", "u32">>, <<"observed_content", "bytes">>>>)]
decode_fs ==
    [FsWrite  |-> Tagged(2..4,
          0 :> R("Write", {4}, <<<<"path_ref", "path">>, <<"offset", "u64">>, <<"content", "bytes">>>>)
       @@ 1 :> R("Allocate", {2}, <<<<"path_ref", "path">>>>)
       @@ 2 :> R("Rename", {3}, <<<<"from_path_ref", "path">>, <<"to_path_ref", "path">>>>)),
     FsFsync  |-> Plain("FsFsync", <<<<"path_ref", "path">>>>),
     FsRead   |-> Plain("FsRead", <<<<"path_ref", "path">>, <<"offset", "u64">>, <<"requested_len", "u64">>, <<"observed", "Observed">>>>),
     Observed |-> Tagged({1, 2}, 0 :> R("Missing", {1, 2}, <<>>)
                              @@ 1 :> R("Present", {1, 2}, <<<<"content", "bytes">>>>)),
     RngDraw  |-> Plain("RngDraw", <<<<"stream", "u32">>, <<"draw_index", "u64">>, <<"content", "bytes">>>>)]
decode_values ==
    [Outcome    |-> Plain("Outcome", <<<<"schema", "hash">>, <<"value", "value">>>>),
     Assert     |-> Plain("Assert", <<<<"predicate", "hash">>, <<"passed", "bool">>, <<"detail", "value">>>>),
     Snapshot   |-> Plain("Snapshot", <<<<"snapshot_digest", "hash">>>>),
     Epoch      |-> Plain("Epoch", <<<<"epoch", "u64">>>>),
     InputStep  |-> Plain("InputStep", <<<<"generator", "u64">>, <<"replay", "u64">>, <<"value", "value">>>>)]
decode_steps ==
    [CapRequest |-> Plain("CapRequest", <<<<"request", "id">>, <<"subject", "hash">>, <<"capability", "hash">>>>),
     CapGrant   |-> Plain("CapGrant", <<<<"request", "id">>, <<"grant", "id">>, <<"epoch", "u64">>>>),
     CapInvoke  |-> Plain("CapInvoke", <<<<"grant", "id">>, <<"operation", "hash">>>>),
     CapRevoke  |-> Plain("CapRevoke", <<<<"grant", "id">>, <<"epoch", "u64">>>>),
     StepBegin  |-> Plain("StepBegin", <<<<"step_id", "u64">>, <<"name", "bytes">>, <<"idempotency_key", "opt">>>>),
     StepEnd    |-> Tagged({3}, 0 :> R("Completed", {3}, <<<<"step_id", "u64">>, <<"result", "value">>>>)
                             @@ 1 :> R("Failed", {3}, <<<<"step_id", "u64">>, <<"error", "value">>>>)
                             @@ 2 :> R("Cancelled", {3}, <<<<"step_id", "u64">>, <<"reason", "value">>>>))]
decode_fault_payload ==
    [Fault |-> Tagged(2..4,
          0 :> R("DropMessage", 2..4, <<<<"message_id", "msgid">>>>)
       @@ 1 :> R("DelayMessage", 2..4, <<<<"message_id", "msgid">>, <<"ticks", "u64">>>>)
       @@ 2 :> R("DuplicateMessage", 2..4, <<<<"message_id", "msgid">>, <<"copy_ordinal", "u32">>>>)
       @@ 3 :> R("CorruptMessage", 2..4, <<<<"message_id", "msgid">>, <<"offset", "u64">>, <<"xor_bytes", "xor">>>>)
       @@ 4 :> R("Partition", 2..4, <<<<"src", "u32">>, <<"dst", "u32">>, <<"enabled", "bool">>>>)
       @@ 5 :> R("CrashActor", 2..4, <<<<"actor", "u32">>, <<"crash_operation", "Crash">>>>))]
decode_crash_operation ==
    [Crash |-> Tagged(1..4,
          0 :> R("DropAllUnsynced", 1..4, <<>>)
       @@ 1 :> R("DropPaths", 1..4, <<<<"paths", "paths">>>>)
       @@ 2 :> R("TornWrite", 1..4, <<<<"write_entry", "hash">>, <<"persisted_prefix", "u64">>>>)
       @@ 3 :> R("CorruptRange", 1..4, <<<<"write_entry", "hash">>, <<"offset", "u64">>, <<"xor_bytes", "xor">>>>)
       @@ 4 :> R("BitFlip", 1..4, <<<<"write_entry", "hash">>, <<"offset", "u64">>, <<"bit", "bit">>>>))]
decode_rows == decode_scheduling @@ decode_fs @@ decode_values @@ decode_steps
               @@ decode_fault_payload @@ decode_crash_operation

from_framed_bytes(b) == IF Len(b) = DIGEST_LEN + 2 /\ SubSeq(b, 1, 2) = <<30, 32>>
                        THEN Ok(SubSeq(b, 3, Len(b)), 0) ELSE Reject

(* ItemReader::read_unsigned, read_bytes, read_bool, read_array: the item  *)
(* must be of the variant the field is made of, and within the field's     *)
(* bounds.  A path must canonicalize and be short; the result of           *)
(* canonicalizing is not compared with it.                                 *)
VariantOf(type) == CASE type \in {"u64", "u32", "bit"} -> "Unsigned"
                     [] type \in {"bytes", "xor", "id", "hash", "location"} -> "Bytes"
                     [] type = "bool" -> "Bool"
                     [] type \in {"count", "pair"} -> "ArrayOf"
InBounds(type, v) == CASE type = "u32"      -> Len(v) <= 4
                       [] type = "bit"      -> ~Exceeds(v, 7)
                       [] type = "xor"      -> v # <<>>
                       [] type = "id"       -> Len(v) = DIGEST_LEN
                       [] type = "hash"     -> from_framed_bytes(v).ok
                       [] type = "location" -> canonicalize(v).ok /\ Len(v) <= MAX_CANONICAL_PATH_BYTES
                       [] type = "pair"     -> v = 2
                       [] OTHER             -> TRUE
Scalar(type, item) ==
    IF ~item.ok THEN Reject
    ELSE IF type = "opt" THEN CASE item.v[1] = "Null"  -> Ok(<<>>, item.at)
                                [] item.v[1] = "Bytes" -> Ok(<<item.v[2]>>, item.at)
                                [] OTHER -> Reject
    ELSE IF item.v[1] # VariantOf(type) THEN Reject
    ELSE IF ~InBounds(type, item.v[2]) THEN Reject
    ELSE Ok(IF type = "hash" THEN from_framed_bytes(item.v[2]).v ELSE item.v[2], item.at)

Copies(type, n) == [i \in 1..n |-> type]
Then(r, f) == IF f.ok THEN Ok(Append(r.v, f.v), f.at) ELSE Reject
WithoutHead(r) == IF r.ok THEN Ok(Tail(r.v), r.at) ELSE Reject
(* The payload case and its fields by name.                                *)
Named(chosen, r) ==
    IF ~r.ok THEN Reject
    ELSE Ok([f \in {chosen.reads[i][1] : i \in DOMAIN chosen.reads} |->
                r.v[CHOOSE i \in DOMAIN chosen.reads : chosen.reads[i][1] = f]]
            @@ [case |-> chosen.case], r.at)

(* Fields(types, in, r) reads fields of these types one after the other    *)
(* where r, the result of the fields before, ends.                         *)
RECURSIVE Fields(_, _, _), decode_field(_, _, _), decode_payload(_, _, _), decode_case(_, _, _)
Fields(types, in, r) ==
    IF ~r.ok \/ types = <<>> THEN r
    ELSE Fields(Tail(types), in, Then(r, decode_field(Head(types), in, r.at)))

decode_field(type, in, c) ==
    CASE type = "msgid" -> WithoutHead(Fields(<<"pair", "u32", "u64">>, in, Ok(<<>>, c)))
      [] type = "path"  -> WithoutHead(Fields(<<"pair", "id", "location">>, in, Ok(<<>>, c)))
      [] type = "paths" -> LET n == Scalar("count", read_item(in, c)) IN
                           IF n.ok THEN Fields(Copies("path", n.v), in, Ok(<<>>, n.at)) ELSE Reject
      [] type = "value" -> read_canonical_value(in, c)
      [] type \in {"Observed", "Crash"} -> decode_payload(type, in, c)
      [] OTHER          -> Scalar(type, read_item(in, c))

decode_payload(kind, in, c) ==
    decode_case(decode_rows[kind], in,
                Fields(<<"count">> \o Copies("u64", IF decode_rows[kind].tagged THEN 1 ELSE 0), in, Ok(<<>>, c)))
(* The size and the discriminant, if any, are in h.                        *)
decode_case(row, in, h) ==
    LET disc == IF row.tagged THEN h.v[2] ELSE <<>>
        chosen == row.cases[Number(disc)]
    IN  IF ~h.ok THEN Reject
        ELSE IF /\ h.v[1] \in row.sizes
                /\ Len(disc) <= 1 /\ Number(disc) \in DOMAIN row.cases
                /\ h.v[1] \in chosen.sizes
        THEN Named(chosen, Fields([i \in DOMAIN chosen.reads |-> chosen.reads[i][2]], in, Ok(<<>>, h.at)))
        ELSE Reject

(* EntryData::decode, from the last check to the first: h holds the fields *)
(* up to the number of parents, p the parents and the size of the clock, k *)
(* the clock and the sequence number.                                      *)
EntryOfParts(in, h, p, k, payload) ==
    IF ~(payload.ok /\ payload.at = Len(in) + 1) THEN Reject
    ELSE Ok(EntryData(from_tag(h.v[3]), h.v[4], Front(p.v), Front(k.v), k.v[Len(k.v)], payload.v), 0)
decode_after_clock(in, h, p, k) ==
    IF ~k.ok THEN Reject ELSE EntryOfParts(in, h, p, k, decode_payload(from_tag(h.v[3]), in, k.at))
decode_after_parents(in, h, p) ==
    IF ~p.ok THEN Reject
    ELSE LET actors == p.v[Len(p.v)] IN
         IF actors > MAX_VECTOR_CLOCK_ACTORS THEN Reject
         ELSE decode_after_clock(in, h, p, Fields(Copies("u64", actors + 1), in, Ok(<<>>, p.at)))
decode_after_header(in, h) ==
    IF ~h.ok THEN Reject
    ELSE IF /\ h.v[1] = 7
            /\ h.v[2] = ENTRY_FORMAT_VERSION
            /\ from_tag(h.v[3]) # "none"
            /\ h.v[5] <= MAX_PARENTS_PER_ENTRY
    THEN decode_after_parents(in, h, Fields(Copies("hash", h.v[5]) \o <<"count">>, in, Ok(<<>>, h.at)))
    ELSE Reject
decode_entry(in) ==
    IF Len(in) > MAX_ENTRY_BYTES THEN Reject
    ELSE decode_after_header(in, Fields(<<"count", "u64", "u64", "u32", "count">>, in, Ok(<<>>, 1)))
=============================================================================
