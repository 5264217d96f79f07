------------------------------ MODULE WireCodec ------------------------------
(***************************************************************************)
(* The fixed-layout binary codecs: the SUT protocol (ldgr-rt proto), the   *)
(* execution identity (ledger-journal identity.rs), the solver-state       *)
(* artifact (ledger-explorer solver_state.rs), the segment frames          *)
(* (ledger-journal segment) and the container prefix (ledger-format        *)
(* frame.rs).  Each codec is a table of fields in the order its encoder    *)
(* writes them and one in the order its decoder reads them; Put and Take   *)
(* are the little-endian cursors the four files each write out.            *)
(*                                                                         *)
(* Field types: <<"u", width>>, <<"capped", width, largest>>, <<"raw">>    *)
(* and <<"framed">> digests, <<"byte", allowed>>, <<"opt", type>>,         *)
(* <<"string", length width, longest, utf8>>, <<"seq", bytes an element    *)
(* needs, most, type>>, <<"rec", fields>> and <<"case", tag -> [name,      *)
(* fields]>>.                                                              *)
(***************************************************************************)
EXTENDS EntryCodec

CONSTANTS
    MAX_FRAME_BYTES, MAX_PATH_BYTES, MAX_PAYLOAD_BYTES,     \* ldgr-rt proto
    MAX_RANDOM_COUNT, MAX_ACTOR,                            \* numerals
    MAX_IDENTITY_FIELD_BYTES, MAX_IDENTITY_INPUT_DIGESTS,   \* identity.rs
    MAX_HEADER_BYTES                                        \* limits.rs

ASSUME WireAssumption ==
    {MAX_FRAME_BYTES, MAX_PATH_BYTES, MAX_PAYLOAD_BYTES, MAX_IDENTITY_FIELD_BYTES,
     MAX_IDENTITY_INPUT_DIGESTS, MAX_HEADER_BYTES} \subseteq Nat

(* No cap of the encoder's own; larger than any length used.               *)
UNCAPPED == 65535

le(n, width) == Reverse(Pad(n, width))
Before(a, b) == \/ Len(a) < Len(b)
                \/ Len(a) = Len(b) /\ \E i \in 1..Len(a) : a[i] < b[i] /\ \A j \in 1..(i - 1) : a[j] = b[j]

-----------------------------------------------------------------------------
(* The cursors.                                                            *)

RECURSIVE Put(_, _), PutFields(_, _)
Put(type, v) ==
    CASE type[1] = "u"      -> Ok(le(v, type[2]), 0)
      [] type[1] = "raw"    -> Ok(v, 0)
      [] type[1] = "framed" -> Ok(to_framed_bytes(v), 0)
      [] type[1] = "byte"   -> Ok(<<v>>, 0)
      [] type[1] = "opt"    -> IF v = <<>> THEN Ok(<<0>>, 0)
                               ELSE Joined(<<Ok(<<1>>, 0), Put(type[2], v[1])>>)
      [] type[1] = "string" -> IF Len(v) > type[3] THEN Reject
                               ELSE Ok(le(Numeral(Len(v)), type[2]) \o v, 0)
      [] type[1] = "seq"    -> IF Len(v) > type[3] THEN Reject
                               ELSE Joined(<<Ok(le(Numeral(Len(v)), 8), 0)>>
                                           \o [i \in DOMAIN v |-> Put(type[4], v[i])])
      [] type[1] = "rec"    -> PutFields(type[2], v)
      [] type[1] = "case"   ->
            LET t == CHOOSE t \in DOMAIN type[2] : type[2][t].name = v.case
            IN  Joined(<<Ok(<<t>>, 0), PutFields(type[2][t].fields, v)>>)
PutFields(fields, v) == Joined([i \in DOMAIN fields |-> Put(fields[i][2], v[fields[i][1]])])

take(in, c, n) == IF c + n - 1 > Len(in) THEN Reject ELSE Ok(SubSeq(in, c, c + n - 1), c + n)

(* A declared count is bounded by what the remaining bytes can hold.       *)
bounded_count(in, c, n, elem_bytes) == ~Exceeds(n, (Len(in) - c + 1) \div elem_bytes)

Uint(in, c, width) == LET b == take(in, c, width)
                      IN  IF b.ok THEN Ok(Trim(Reverse(b.v)), b.at) ELSE Reject

RECURSIVE Take(_, _, _), TakeFields(_, _, _, _), TakeMany(_, _, _, _)
Take(type, in, c) ==
    LET byte == take(in, c, 1) IN
    CASE type[1] = "u"      -> Uint(in, c, type[2])
      [] type[1] = "capped" -> LET n == Uint(in, c, type[2]) IN
                               IF n.ok /\ ~Before(type[3], n.v) THEN n ELSE Reject
      [] type[1] = "raw"    -> take(in, c, DIGEST_LEN)
      [] type[1] = "framed" -> LET b == take(in, c, DIGEST_LEN + 2) IN
                               IF b.ok /\ from_framed_bytes(b.v).ok
                               THEN Ok(from_framed_bytes(b.v).v, b.at) ELSE Reject
      [] type[1] = "byte"   -> IF byte.ok /\ byte.v[1] \in type[2] THEN Ok(byte.v[1], byte.at) ELSE Reject
      [] type[1] = "opt"    -> IF ~(byte.ok /\ byte.v[1] \in {0, 1}) THEN Reject
                               ELSE IF byte.v[1] = 0 THEN Ok(<<>>, byte.at)
                               ELSE LET r == Take(type[2], in, byte.at)
                                    IN  IF r.ok THEN Ok(<<r.v>>, r.at) ELSE Reject
      [] type[1] = "string" -> LET n == Uint(in, c, type[2]) IN
                               IF ~n.ok \/ Exceeds(n.v, type[3]) THEN Reject
                               ELSE LET b == take(in, n.at, Number(n.v)) IN
                                    IF b.ok /\ (type[4] => from_utf8(b.v)) THEN b ELSE Reject
      [] type[1] = "seq"    -> LET n == Uint(in, c, 8) IN
                               IF \/ ~n.ok
                                  \/ Exceeds(n.v, type[3])
                                  \/ ~bounded_count(in, n.at, n.v, type[2])
                               THEN Reject ELSE TakeMany(type[4], in, n.at, Number(n.v))
      [] type[1] = "rec"    -> TakeFields(type[2], in, c, <<>>)
      [] type[1] = "case"   -> IF ~(byte.ok /\ byte.v[1] \in DOMAIN type[2]) THEN Reject
                               ELSE LET row == type[2][byte.v[1]]
                                    IN  TakeFields(row.fields, in, byte.at, [case |-> row.name])
TakeFields(fields, in, c, so_far) ==
    IF fields = <<>> THEN Ok(so_far, c)
    ELSE LET r == Take(fields[1][2], in, c)
         IN  IF ~r.ok THEN Reject
             ELSE TakeFields(Tail(fields), in, r.at, (fields[1][1] :> r.v) @@ so_far)
TakeMany(type, in, c, n) ==
    IF n = 0 THEN Ok(<<>>, c)
    ELSE LET head == Take(type, in, c)
             rest == TakeMany(type, in, head.at, n - 1)
         IN  IF head.ok /\ rest.ok THEN Ok(<<head.v>> \o rest.v, rest.at) ELSE Reject

Case(name, fields) == [name |-> name, fields |-> fields]

-----------------------------------------------------------------------------
(* ldgr-rt proto: messages inside sequence-numbered frames.                *)

MAGIC == <<76, 82>>                     \* two bytes for the four
PROTOCOL_VERSION == <<1>>
FRAME_HEADER_LEN == Len(MAGIC) + 2 + 2 + 4 + 8

encode_effect ==
    (1 :> Case("Clock", <<>>)) @@ (2 :> Case("Sleep", <<<<"ticks", <<"u", 8>>>>>>))
    @@ (3 :> Case("Random", <<<<"stream", <<"u", 4>>>>, <<"count", <<"u", 4>>>>>>))
    @@ (4 :> Case("Send", <<<<"to", <<"u", 4>>>>, <<"payload", <<"string", 4, UNCAPPED>>>>>>))
    @@ (5 :> Case("Recv", <<>>))
    @@ (6 :> Case("FsWrite", <<<<"path", <<"string", 4, UNCAPPED>>>>, <<"offset", <<"u", 8>>>>,
                               <<"bytes", <<"string", 4, UNCAPPED>>>>>>))
    @@ (7 :> Case("FsRead", <<<<"path", <<"string", 4, UNCAPPED>>>>, <<"offset", <<"u", 8>>>>,
                              <<"len", <<"u", 8>>>>>>))
    @@ (8 :> Case("FsSync", <<<<"path", <<"string", 4, UNCAPPED>>>>>>))
encode_result ==
    (1 :> Case("Clock", <<<<"ticks", <<"u", 8>>>>>>)) @@ (2 :> Case("Ok", <<>>))
    @@ (3 :> Case("Random", <<<<"words", <<"string", 4, UNCAPPED>>>>>>))
    @@ (4 :> Case("Recv", <<<<"payload", <<"opt", <<"string", 4, UNCAPPED>>>>>>>>))
    @@ (5 :> Case("FsRead", <<<<"observed", <<"string", 4, UNCAPPED>>>>>>))
encode_message ==
    (1 :> Case("Hello", <<<<"identity", <<"framed">>>>, <<"actor", <<"u", 4>>>>>>))
    @@ (2 :> Case("Welcome", <<<<"actor", <<"u", 4>>>>>>))
    @@ (3 :> Case("Reject", <<<<"reason", <<"byte">>>>, <<"detail", <<"string", 4, UNCAPPED>>>>>>))
    @@ (4 :> Case("EffectRequest", <<<<"effect", <<"case", encode_effect>>>>>>))
    @@ (5 :> Case("EffectResponse", <<<<"result", <<"case", encode_result>>>>>>))
    @@ (6 :> Case("Finish", <<>>))
    @@ (7 :> Case("Goodbye", <<<<"root", <<"framed">>>>, <<"entries", <<"u", 8>>>>>>))

bounded_bytes == <<"string", 4, MAX_PAYLOAD_BYTES, FALSE>>
bounded_string == <<"string", 4, MAX_PATH_BYTES, TRUE>>
decode_effect ==
    (1 :> Case("Clock", <<>>)) @@ (2 :> Case("Sleep", <<<<"ticks", <<"u", 8>>>>>>))
    @@ (3 :> Case("Random", <<<<"stream", <<"u", 4>>>>, <<"count", <<"capped", 4, MAX_RANDOM_COUNT>>>>>>))
    @@ (4 :> Case("Send", <<<<"to", <<"capped", 4, MAX_ACTOR>>>>, <<"payload", bounded_bytes>>>>))
    @@ (5 :> Case("Recv", <<>>))
    @@ (6 :> Case("FsWrite", <<<<"path", bounded_string>>, <<"offset", <<"u", 8>>>>, <<"bytes", bounded_bytes>>>>))
    @@ (7 :> Case("FsRead", <<<<"path", bounded_string>>, <<"offset", <<"u", 8>>>>, <<"len", <<"u", 8>>>>>>))
    @@ (8 :> Case("FsSync", <<<<"path", bounded_string>>>>))
decode_result ==
    (1 :> Case("Clock", <<<<"ticks", <<"u", 8>>>>>>)) @@ (2 :> Case("Ok", <<>>))
    @@ (3 :> Case("Random", <<<<"words", bounded_bytes>>>>))
    @@ (4 :> Case("Recv", <<<<"payload", <<"opt", bounded_bytes>>>>>>))
    @@ (5 :> Case("FsRead", <<<<"observed", bounded_bytes>>>>))
decode_message ==
    (1 :> Case("Hello", <<<<"identity", <<"framed">>>>, <<"actor", <<"capped", 4, MAX_ACTOR>>>>>>))
    @@ (2 :> Case("Welcome", <<<<"actor", <<"u", 4>>>>>>))
    @@ (3 :> Case("Reject", <<<<"reason", <<"byte", 1..3>>>>, <<"detail", bounded_string>>>>))
    @@ (4 :> Case("EffectRequest", <<<<"effect", <<"case", decode_effect>>>>>>))
    @@ (5 :> Case("EffectResponse", <<<<"result", <<"case", decode_result>>>>>>))
    @@ (6 :> Case("Finish", <<>>))
    @@ (7 :> Case("Goodbye", <<<<"root", <<"framed">>>>, <<"entries", <<"u", 8>>>>>>))

encode_frame(seq, body) ==
    IF Len(body) > MAX_FRAME_BYTES THEN Reject
    ELSE Ok(MAGIC \o le(PROTOCOL_VERSION, 2) \o <<0, 0>> \o le(Numeral(Len(body)), 4)
            \o le(seq, 8) \o body, 0)
(* The sequence number and the body length; the body comes later.          *)
parse_header(in) ==
    LET version == Uint(in, Len(MAGIC) + 1, 2)
        reserved == Uint(in, version.at, 2)
        body_len == Uint(in, reserved.at, 4)
        seq == Uint(in, body_len.at, 8)
    IN  IF Len(in) < FRAME_HEADER_LEN THEN Reject
        ELSE IF /\ SubSeq(in, 1, Len(MAGIC)) = MAGIC
                /\ version.v = PROTOCOL_VERSION
                /\ reserved.v = <<>>
                /\ ~Exceeds(body_len.v, MAX_FRAME_BYTES)
             THEN Ok(<<seq.v, Number(body_len.v)>>, FRAME_HEADER_LEN + 1) ELSE Reject
(* Bytes after the body are the next frame's.                              *)
BodyOf(in, h) ==
    IF ~h.ok THEN Reject
    ELSE LET body == take(in, h.at, h.v[2])
         IN  IF body.ok THEN Ok(<<h.v[1], body.v>>, body.at) ELSE Reject
decode_frame(in) == BodyOf(in, parse_header(in))

to_frame(seq, message) ==
    LET body == Put(<<"case", encode_message>>, message)
    IN  IF body.ok THEN encode_frame(seq, body.v) ELSE Reject
Numbered(f, m) == IF m.ok THEN Ok(<<f.v[1], m.v>>, f.at) ELSE Reject
MessageOf(f) ==
    IF ~f.ok THEN Reject
    ELSE Numbered(f, Whole(f.v[2], Take(<<"case", decode_message>>, f.v[2], 1)))
from_frame(in) == MessageOf(decode_frame(in))
=============================================================================
