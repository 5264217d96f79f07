-------------------------------- MODULE Cbor --------------------------------
(***************************************************************************)
(* The canonical CBOR layer of ledger-format: the value encoder, the       *)
(* strict decoder, the tolerant reader, the borrowed item reader and the   *)
(* bounded CanonicalValue (crates/ledger-format/src/cbor, value.rs).       *)
(*                                                                         *)
(* A byte string is a sequence of 0..255.  A u64 is its big-endian numeral *)
(* with no leading zero (<<>> is zero), so its full width is kept without  *)
(* 64-bit arithmetic.  A value is a tuple headed by the Rust variant name. *)
(* A parser maps (input, cursor) to Ok(value, next cursor) or to Reject:   *)
(* which CborError a rejection carries is left out.                        *)
(***************************************************************************)
EXTENDS Integers, Sequences, SequencesExt, FiniteSets

CONSTANTS
    MAX_DEPTH,                          \* cbor/mod.rs
    MAX_CANONICAL_VALUE_DEPTH,          \* limits.rs
    MAX_CANONICAL_VALUE_ITEMS,
    MAX_CANONICAL_VALUE_STRING_BYTES

ASSUME CborAssumption ==
    /\ {MAX_DEPTH, MAX_CANONICAL_VALUE_DEPTH, MAX_CANONICAL_VALUE_ITEMS,
        MAX_CANONICAL_VALUE_STRING_BYTES} \subseteq Nat

Ok(v, at) == [ok |-> TRUE, v |-> v, at |-> at]
Reject == [ok |-> FALSE, v |-> <<"Error">>, at |-> 0]

-----------------------------------------------------------------------------
(* Numerals, headers and UTF-8.                                            *)

Trim(b) == LET z == {i \in 1..Len(b) : \A j \in 1..i : b[j] = 0}
           IN  SubSeq(b, Cardinality(z) + 1, Len(b))
Pad(n, w) == [i \in 1..(w - Len(n)) |-> 0] \o n
(* The integer of a numeral of at most three bytes.                        *)
Number(n) == CASE n = <<>>   -> 0
               [] Len(n) = 1 -> n[1]
               [] Len(n) = 2 -> n[1] * 256 + n[2]
               [] Len(n) = 3 -> (n[1] * 256 + n[2]) * 256 + n[3]
Numeral(k) == Trim(<<k \div 65536, (k \div 256) % 256, k % 256>>)
(* The numeral is larger than the integer k < 2^16.                        *)
Exceeds(n, k) == Len(n) > 2 \/ Number(n) > k

Major(byte) == byte \div 32
Additional(byte) == byte % 32
Width(additional) == CASE additional = 24 -> 1 [] additional = 25 -> 2
                       [] additional = 26 -> 4 [] additional = 27 -> 8

(* The shortest header: inline up to 23, then 1, 2, 4 or 8 bytes.          *)
major(kind, n) ==
    CASE Len(n) <= 1 /\ Number(n) <= 23 -> <<kind * 32 + Number(n)>>
      [] Len(n) = 1 /\ n[1] > 23        -> <<kind * 32 + 24>> \o n
      [] Len(n) = 2                     -> <<kind * 32 + 25>> \o n
      [] Len(n) \in 3..4                -> <<kind * 32 + 26>> \o Pad(n, 4)
      [] Len(n) \in 5..8                -> <<kind * 32 + 27>> \o Pad(n, 8)

(* The one-byte form must hold at least 24, the two-byte form more than    *)
(* u8::MAX, the four-byte form more than u16::MAX, the eight-byte form     *)
(* more than u32::MAX.                                                     *)
Shortest_two_byte(additional, n) == IF additional = 25 THEN Len(n) >= 1 ELSE
    CASE additional < 24 -> TRUE
      [] additional = 24 -> Exceeds(n, 23)
      [] additional = 26 -> Len(n) > 2
      [] additional = 27 -> Len(n) > 4
Shortest(additional, n) ==
    CASE additional < 24 -> TRUE
      [] additional = 24 -> Exceeds(n, 23)
      [] additional = 25 -> Len(n) = 2
      [] additional = 26 -> Len(n) > 2
      [] additional = 27 -> Len(n) > 4

(* The argument of the header at c, without the width check.               *)
read_argument(in, c) ==
    LET additional == Additional(in[c]) IN
    IF additional < 24 THEN Ok(Trim(<<additional>>), c + 1)
    ELSE IF additional > 27 THEN Reject
    ELSE IF c + Width(additional) > Len(in) THEN Reject
    ELSE Ok(Trim(SubSeq(in, c + 1, c + Width(additional))), c + 1 + Width(additional))

InShortestForm(additional, h) == IF h.ok /\ Shortest(additional, h.v) THEN h ELSE Reject
decode_header(in, c) ==
    IF c > Len(in) THEN Reject ELSE InShortestForm(Additional(in[c]), read_argument(in, c))

(* core::str::from_utf8, one character at a time.                          *)
Utf8Char(s) ==
    LET Cont(i) == s[i] \in 128..191 IN
    CASE Len(s) = 1 -> s[1] < 128
      [] Len(s) = 2 -> s[1] \in 194..223 /\ Cont(2)
      [] Len(s) = 3 -> /\ s[1] \in 224..239 /\ Cont(2) /\ Cont(3)
                       /\ (s[1] = 224 => s[2] >= 160) /\ (s[1] = 237 => s[2] < 160)
      [] Len(s) = 4 -> /\ s[1] \in 240..244 /\ Cont(2) /\ Cont(3) /\ Cont(4)
                       /\ (s[1] = 240 => s[2] >= 144) /\ (s[1] = 244 => s[2] < 144)
RECURSIVE from_utf8(_)
from_utf8(s) == \/ s = <<>>
                \/ \E n \in 1..4 : /\ n <= Len(s)
                                   /\ Utf8Char(SubSeq(s, 1, n))
                                   /\ from_utf8(SubSeq(s, n + 1, Len(s)))

-----------------------------------------------------------------------------
(* Floats.  A float is <<sign, m, e>>, the number (-1)^sign * m * 2^e with *)
(* m odd (or <<sign, 0, 0>>); m = -1 is infinity and m = -2 is NaN.  Bits  *)
(* come as <<sign, exponent, mantissa>>.  Of a double only the top 28      *)
(* mantissa bits may be set (its last three bytes are zero).               *)

RECURSIVE Odd(_, _, _)
Odd(sign, m, e) == CASE m = 0 -> <<sign, 0, 0>>
                     [] m > 0 /\ m % 2 = 1 -> <<sign, m, e>>
                     [] m > 0 /\ m % 2 = 0 -> Odd(sign, m \div 2, e + 1)
(* The value of an IEEE pattern with fbits mantissa bits, exponent bias    *)
(* bias and all-ones exponent top.                                         *)
FloatOf(bits, fbits, bias, top) ==
    LET sign == bits[1] exp == bits[2] mant == bits[3] IN
    CASE exp = top -> <<sign, IF mant = 0 THEN -1 ELSE -2, 0>>
      [] exp = 0   -> Odd(sign, mant, 1 - bias - fbits)
      [] OTHER     -> Odd(sign, 2 ^ fbits + mant, exp - bias - fbits)
f16_bits_to_f64(bits) == FloatOf(bits, 10, 15, 31)
f32_value(bits) == FloatOf(bits, 23, 127, 255)
f64_value(bits) == FloatOf(bits, 28, 1023, 2047)

(* Round to nearest even after dropping the low shift bits.                *)
RoundEven(full, shift) ==
    LET m == full \div 2 ^ shift
        round_bit == (full \div 2 ^ (shift - 1)) % 2
        sticky == full % 2 ^ (shift - 1)
    IN  IF round_bit = 1 /\ (sticky # 0 \/ m % 2 = 1) THEN m + 1 ELSE m

f32_bits_to_f16(bits) ==
    LET sign == bits[1] exp == bits[2] mant == bits[3]
        exp16 == exp - 127 + 15
        shift == 14 - exp16
        m16 == RoundEven(mant, 13)
    IN  IF exp = 255 THEN <<sign, 31, IF mant = 0 THEN 0 ELSE 1>>
        ELSE IF exp16 >= 31 THEN <<sign, 31, 0>>
        ELSE IF exp16 > 0 THEN
            IF m16 = 1024 THEN <<sign, exp16 + 1, 0>> ELSE <<sign, exp16, m16>>
        ELSE IF shift >= 25 THEN <<sign, 0, 0>>
        ELSE LET m == RoundEven(mant + 2 ^ 23, shift)
             IN  <<sign, m \div 1024, m % 1024>>

(* Big-endian float bytes to bits and back.                                *)
Bits16(b) == <<b[1] \div 128, (b[1] % 128) \div 4, (b[1] % 4) * 256 + b[2]>>
Bits32(b) == <<b[1] \div 128, (b[1] % 128) * 2 + b[2] \div 128,
               ((b[2] % 128) * 256 + b[3]) * 256 + b[4]>>
Bits64(b) == <<b[1] \div 128, (b[1] % 128) * 16 + b[2] \div 16,
               (((b[2] % 16) * 256 + b[3]) * 256 + b[4]) * 256 + b[5]>>
Bytes16(x) == <<x[1] * 128 + x[2] * 4 + x[3] \div 256, x[3] % 256>>
Bytes32(x) == <<x[1] * 128 + x[2] \div 2, (x[2] % 2) * 128 + x[3] \div 65536,
                (x[3] \div 256) % 256, x[3] % 256>>
Bytes64(x) == <<x[1] * 128 + x[2] \div 16, (x[2] % 16) * 16 + x[3] \div 2 ^ 24,
                (x[3] \div 65536) % 256, (x[3] \div 256) % 256, x[3] % 256, 0, 0, 0>>

(* The exact pattern of a value, <<>> when it has none: what the casts     *)
(* `value as f32` and `value as f64` give, compared with the value.        *)
RECURSIVE TopBit(_)
TopBit(m) == IF m < 2 THEN 0 ELSE 1 + TopBit(m \div 2)
PatternOf(v, fbits, bias, top) ==
    LET sign == v[1] m == v[2] e == v[3] k == TopBit(m) IN
    CASE m = -2 -> <<>>
      [] m = -1 -> <<sign, top, 0>>
      [] m = 0  -> <<sign, 0, 0>>
      [] m > 0 /\ k <= fbits /\ e + k \in (1 - bias)..(top - 1 - bias)
                -> <<sign, e + k + bias, (m - 2 ^ k) * 2 ^ (fbits - k)>>
      [] m > 0 /\ e + k < 1 - bias /\ e >= 1 - bias - fbits
                -> <<sign, 0, m * 2 ^ (e - (1 - bias - fbits))>>
      [] OTHER  -> <<>>
as_f32(v) == PatternOf(v, 23, 127, 255)
as_f64(v) == PatternOf(v, 28, 1023, 2047)

value_round_trips_as_f16(v) ==
    /\ as_f32(v) # <<>>
    /\ f16_bits_to_f64(f32_bits_to_f16(as_f32(v))) = v

encode_minimal_float(v) ==
    IF value_round_trips_as_f16(v) THEN <<249>> \o Bytes16(f32_bits_to_f16(as_f32(v)))
    ELSE IF as_f32(v) # <<>> THEN <<250>> \o Bytes32(as_f32(v))
    ELSE <<251>> \o Bytes64(as_f64(v))

NonCanonicalFloat(v) == v[2] = -2 \/ v = <<1, 0, 0>>

(* One float of the given additional (25, 26, 27) at c; narrow says the    *)
(* strict readers refuse the value because a narrower width holds it.      *)
FloatAt(in, c, additional) ==
    IF c + Width(additional) - 1 > Len(in) THEN Reject
    ELSE LET b == SubSeq(in, c, c + Width(additional) - 1)
             v == CASE additional = 25 -> f16_bits_to_f64(Bits16(b))
                    [] additional = 26 -> f32_value(Bits32(b))
                    [] additional = 27 -> f64_value(Bits64(b))
         IN  Ok(<<"Float", v>>, c + Width(additional))
(* decode_f16, decode_f32 and decode_f64 of a float that was read.         *)
CanonicalFloat(b, f, additional) ==
    IF /\ f.ok
       /\ ~NonCanonicalFloat(f.v[2])
       /\ additional = 26 => f16_bits_to_f64(f32_bits_to_f16(Bits32(b))) # f.v[2]
       /\ additional = 27 => as_f32(f.v[2]) = <<>>
    THEN f ELSE Reject
decode_float(in, c, additional) ==
    CanonicalFloat(SubSeq(in, c, c + Width(additional) - 1), FloatAt(in, c, additional), additional)

-----------------------------------------------------------------------------
(* The value encoder.                                                      *)

(* RFC 8949 4.2.3: shorter first, then bytewise.                           *)
compare_canonical_keys(a, b) ==
    \/ Len(a) < Len(b)
    \/ /\ Len(a) = Len(b)
       /\ \E i \in 1..Len(a) : a[i] < b[i] /\ \A j \in 1..(i - 1) : a[j] = b[j]

Concat(seqs) == LET cat[i \in 0..Len(seqs)] == IF i = 0 THEN <<>> ELSE cat[i - 1] \o seqs[i]
                IN  cat[Len(seqs)]
NoRepeat(seq) == \A i, j \in 1..Len(seq) : i # j => seq[i] # seq[j]

RECURSIVE try_encode(_)
try_encode(v) ==
    LET children(vs) == [i \in 1..Len(vs) |-> try_encode(vs[i])]
        All(rs) == \A i \in 1..Len(rs) : rs[i].ok
        Out(rs) == Concat([i \in 1..Len(rs) |-> rs[i].v])
        Size == Numeral(Len(v[2]))
    IN
    CASE v[1] = "Unsigned" -> Ok(major(0, v[2]), 0)
      [] v[1] = "Negative" -> Ok(major(1, v[2]), 0)
      [] v[1] = "Bytes"    -> Ok(major(2, Size) \o v[2], 0)
      [] v[1] = "Text"     -> Ok(major(3, Size) \o v[2], 0)
      [] v[1] = "Array"    ->
            LET items == children(v[2]) IN
            IF All(items) THEN Ok(major(4, Size) \o Out(items), 0) ELSE Reject
      [] v[1] = "Map"      ->
            LET ks == children([i \in 1..Len(v[2]) |-> v[2][i][1]])
                vs == children([i \in 1..Len(v[2]) |-> v[2][i][2]])
                pairs == {<<ks[i].v, vs[i].v>> : i \in 1..Len(v[2])}
                sorted == SetToSortSeq(pairs, LAMBDA a, b : compare_canonical_keys(a[1], b[1]))
            IN  IF All(ks) /\ All(vs) /\ NoRepeat([i \in 1..Len(ks) |-> ks[i].v])
                THEN Ok(major(5, Size) \o Concat([i \in 1..Len(sorted) |->
                                                    sorted[i][1] \o sorted[i][2]]), 0)
                ELSE Reject
      [] v[1] = "Tag"      -> Reject            \* TAG_ALLOWLIST is empty
      [] v[1] = "Bool"     -> Ok(<<IF v[2] THEN 245 ELSE 244>>, 0)
      [] v[1] = "Null"     -> Ok(<<246>>, 0)
      [] v[1] = "Float"    -> IF NonCanonicalFloat(v[2]) THEN Reject
                              ELSE Ok(encode_minimal_float(v[2]), 0)

-----------------------------------------------------------------------------
(* The strict decoder.                                                     *)

decode_simple(in, c) ==
    LET additional == Additional(in[c]) IN
    CASE additional = 20 -> Ok(<<"Bool", FALSE>>, c + 1)
      [] additional = 21 -> Ok(<<"Bool", TRUE>>, c + 1)
      [] additional = 22 -> Ok(<<"Null">>, c + 1)
      [] additional \in 25..27 -> decode_float(in, c + 1, additional)
      [] OTHER -> Reject

(* A container around what was read.                                       *)
Wrap(variant, r) == IF r.ok THEN Ok(<<variant, r.v>>, r.at) ELSE Reject

(* A declared length is at most the bytes that remain.                     *)
Fits(in, c, n) == ~Exceeds(n, Len(in) - c + 1)

String(in, c, n, kind) ==
    IF ~Fits(in, c, n) THEN Reject
    ELSE LET b == SubSeq(in, c, c + Number(n) - 1) IN
         IF kind = "Text" /\ ~from_utf8(b) THEN Reject
         ELSE Ok(<<kind, b>>, c + Number(n))

RECURSIVE decode_value(_, _, _), decode_body(_, _, _, _),
          decode_items(_, _, _, _), decode_entries(_, _, _, _, _)
decode_value(in, c, depth) ==
    IF depth > MAX_DEPTH \/ c > Len(in) THEN Reject
    ELSE IF Major(in[c]) = 7 THEN decode_simple(in, c)
    ELSE decode_body(in, Major(in[c]), depth, decode_header(in, c))

(* What follows the header h.                                              *)
decode_body(in, kind, depth, h) ==
    IF ~h.ok THEN Reject ELSE
    CASE kind = 0 -> Ok(<<"Unsigned", h.v>>, h.at)
      [] kind = 1 -> Ok(<<"Negative", h.v>>, h.at)
      [] kind \in {2, 3} -> String(in, h.at, h.v, IF kind = 2 THEN "Bytes" ELSE "Text")
      [] kind = 4 -> IF ~Fits(in, h.at, h.v) THEN Reject
                     ELSE Wrap("Array", decode_items(in, h.at, Number(h.v), depth + 1))
      [] kind = 5 -> IF ~Fits(in, h.at, h.v) THEN Reject
                     ELSE Wrap("Map", decode_entries(in, h.at, Number(h.v), depth + 1, <<>>))
      [] kind = 6 -> Reject                     \* TAG_ALLOWLIST is empty

decode_items(in, c, n, depth) ==
    IF n = 0 THEN Ok(<<>>, c)
    ELSE LET head == decode_value(in, c, depth)
             rest == decode_items(in, head.at, n - 1, depth)
         IN  IF head.ok /\ rest.ok THEN Ok(<<head.v>> \o rest.v, rest.at) ELSE Reject

(* prev is the raw bytes of the previous key, <<>> for none.               *)
decode_entries(in, c, n, depth, prev) ==
    IF n = 0 THEN Ok(<<>>, c)
    ELSE LET k == decode_value(in, c, depth)
             raw == SubSeq(in, c, k.at - 1)
             v == decode_value(in, k.at, depth)
             rest == decode_entries(in, v.at, n - 1, depth, raw)
         IN  IF /\ k.ok
                /\ prev # <<>> => compare_canonical_keys(prev, raw)
                /\ v.ok /\ rest.ok
             THEN Ok(<<<<k.v, v.v>>>> \o rest.v, rest.at) ELSE Reject

(* Nothing may follow.                                                     *)
Whole(in, r) == IF r.ok /\ r.at = Len(in) + 1 THEN r ELSE Reject

from_canonical_bytes(in) == Whole(in, decode_value(in, 1, 0))

-----------------------------------------------------------------------------
(* The tolerant reader: any width, indefinite lengths, any tag, any float. *)
(* A break inside an indefinite container is the value <<"Break">>.        *)

tolerant_simple(in, c) ==
    LET additional == Additional(in[c]) IN
    CASE additional = 20 -> Ok(<<"Bool", FALSE>>, c + 1)
      [] additional = 21 -> Ok(<<"Bool", TRUE>>, c + 1)
      [] additional = 22 -> Ok(<<"Null">>, c + 1)
      [] additional \in 25..27 -> FloatAt(in, c + 1, additional)
      [] OTHER -> Reject

(* A declared count is at most the items the remaining bytes can hold.     *)
bounded_item_count(in, c, n, min_bytes) == ~Exceeds(n, (Len(in) - c + 1) \div min_bytes)

RECURSIVE Pairs(_)
Pairs(s) == IF s = <<>> THEN <<>> ELSE <<<<s[1], s[2]>>>> \o Pairs(SubSeq(s, 3, Len(s)))
Paired(r) == IF r.ok /\ Len(r.v) % 2 = 0 THEN Ok(<<"Map", Pairs(r.v)>>, r.at) ELSE Reject
LabelledBy(tag, r) == IF r.ok THEN Ok(<<"Tag", tag, r.v>>, r.at) ELSE Reject
(* The items of an indefinite container; strings join their chunks.        *)
Indefinite(kind, r) ==
    LET name == IF kind = 2 THEN "Bytes" ELSE "Text"
    IN  CASE ~(kind \in 2..5 /\ r.ok) -> Reject
          [] kind \in {2, 3} /\ r.ok ->
                IF \A i \in DOMAIN r.v : r.v[i][1] = name
                THEN Ok(<<name, Concat([i \in DOMAIN r.v |-> r.v[i][2]])>>, r.at) ELSE Reject
          [] kind = 4 /\ r.ok -> Wrap("Array", r)
          [] kind = 5 /\ r.ok -> Paired(r)

RECURSIVE decode_item(_, _, _, _), tolerant_body(_, _, _, _), tolerant_items(_, _, _, _),
          tolerant_until(_, _, _)
decode_item(in, c, depth, break_allowed) ==
    IF depth > MAX_DEPTH \/ c > Len(in) THEN Reject
    ELSE IF in[c] = 255 THEN (IF break_allowed THEN Ok(<<"Break">>, c + 1) ELSE Reject)
    ELSE IF Major(in[c]) = 7 THEN tolerant_simple(in, c)
    ELSE IF Additional(in[c]) = 31
         THEN Indefinite(Major(in[c]), tolerant_until(in, c + 1, depth + 1))
    ELSE tolerant_body(in, Major(in[c]), depth, read_argument(in, c))

(* What follows the header h.                                              *)
tolerant_body(in, kind, depth, h) ==
    IF ~h.ok THEN Reject ELSE
    CASE kind = 0 -> Ok(<<"Unsigned", h.v>>, h.at)
      [] kind = 1 -> Ok(<<"Negative", h.v>>, h.at)
      [] kind \in {2, 3} -> String(in, h.at, h.v, IF kind = 2 THEN "Bytes" ELSE "Text")
      [] kind = 4 -> IF ~bounded_item_count(in, h.at, h.v, 1) THEN Reject
                     ELSE Wrap("Array", tolerant_items(in, h.at, Number(h.v), depth + 1))
      [] kind = 5 -> IF ~bounded_item_count(in, h.at, h.v, 2) THEN Reject
                     ELSE Paired(tolerant_items(in, h.at, 2 * Number(h.v), depth + 1))
      [] kind = 6 -> LabelledBy(h.v, decode_item(in, h.at, depth + 1, FALSE))

(* n items, none of them a break.                                          *)
tolerant_items(in, c, n, depth) ==
    IF n = 0 THEN Ok(<<>>, c)
    ELSE LET head == decode_item(in, c, depth, FALSE)
             rest == tolerant_items(in, head.at, n - 1, depth)
         IN  IF head.ok /\ rest.ok THEN Ok(<<head.v>> \o rest.v, rest.at) ELSE Reject

(* Items up to the break.  A map refuses a break after a key, which is an  *)
(* odd number of items here.                                               *)
tolerant_until(in, c, depth) ==
    LET head == decode_item(in, c, depth, TRUE) IN
    IF ~head.ok THEN Reject
    ELSE IF head.v = <<"Break">> THEN Ok(<<>>, head.at)
    ELSE LET rest == tolerant_until(in, head.at, depth)
         IN  IF rest.ok THEN Ok(<<head.v>> \o rest.v, rest.at) ELSE Reject

parse_tolerant(in) == Whole(in, decode_item(in, 1, 0, FALSE))

-----------------------------------------------------------------------------
(* The bounded canonical value (value.rs).  Budget::visit adds one to both *)
(* its depth and its item counter and nothing takes the depth back, so     *)
(* both counters run over every node of the value.                         *)

RECURSIVE Nodes(_), Collections(_), Strings(_)
Children(v) == CASE v[1] = "Array" -> v[2]
                 [] v[1] = "Map"   -> Concat(v[2])
                 [] OTHER          -> <<>>
SumOver(f(_), vs) == FoldLeft(LAMBDA acc, x : acc + f(x), 0, vs)
Nodes(v) == 1 + SumOver(Nodes, Children(v))
Collections(v) == (IF v[1] \in {"Array", "Map"} THEN Len(v[2]) ELSE 0)
                  + SumOver(Collections, Children(v))
Strings(v) == (IF v[1] \in {"Bytes", "Text"} THEN {Len(v[2])} ELSE {})
              \cup UNION {Strings(Children(v)[i]) : i \in 1..Len(Children(v))}
InItems(v) == /\ Nodes(v) + Collections(v) <= MAX_CANONICAL_VALUE_ITEMS
              /\ \A n \in Strings(v) : n <= MAX_CANONICAL_VALUE_STRING_BYTES
Budget(v) == Nodes(v) <= MAX_CANONICAL_VALUE_DEPTH /\ InItems(v)

(* CanonicalValue has no tags; its encoder is the value encoder under the  *)
(* budget.                                                                 *)
value_encode(v) == IF Budget(v) THEN try_encode(v) ELSE Reject

(* from_cbor copies the decoded tree under the budget; a tag never reaches *)
(* it.                                                                     *)
InBudget(r) == IF r.ok /\ Budget(r.v) THEN r ELSE Reject
value_from_canonical_bytes(in) == InBudget(from_canonical_bytes(in))

-----------------------------------------------------------------------------
(* The borrowed item reader (items.rs): one header at a time; containers   *)
(* come back as their declared size.  A simple value of 24 and up is read  *)
(* as an unsigned integer.                                                 *)

read_simple(in, c) ==
    IF Additional(in[c]) # 24 THEN decode_simple(in, c)
    ELSE IF c + 1 > Len(in) \/ in[c + 1] < 24 THEN Reject
    ELSE Ok(<<"Unsigned", <<in[c + 1]>>>>, c + 2)

ItemOf(in, kind, h) ==
    IF ~h.ok \/ kind = 6 THEN Reject ELSE
    CASE kind = 0 -> Ok(<<"Unsigned", h.v>>, h.at)
      [] kind = 1 -> Ok(<<"Negative", h.v>>, h.at)
      [] kind \in {2, 3} -> String(in, h.at, h.v, IF kind = 2 THEN "Bytes" ELSE "Text")
      [] kind \in {4, 5} -> IF Fits(in, h.at, h.v)
                            THEN Ok(<<IF kind = 4 THEN "ArrayOf" ELSE "MapOf", Number(h.v)>>, h.at)
                            ELSE Reject
read_item(in, c) ==
    IF c > Len(in) THEN Reject
    ELSE IF Major(in[c]) = 7 THEN read_simple(in, c)
    ELSE ItemOf(in, Major(in[c]), decode_header(in, c))

RECURSIVE read_value(_, _), read_contents(_, _), read_values(_, _, _), read_pairs(_, _, _, _)
read_value(in, c) == read_contents(in, read_item(in, c))
read_contents(in, item) ==
    CASE ~item.ok -> Reject
      [] item.ok /\ item.v[1] = "ArrayOf" -> Wrap("Array", read_values(in, item.at, item.v[2]))
      [] item.ok /\ item.v[1] = "MapOf" -> Wrap("Map", read_pairs(in, item.at, item.v[2], <<>>))
      [] OTHER -> item

read_values(in, c, n) ==
    IF n = 0 THEN Ok(<<>>, c)
    ELSE LET head == read_value(in, c)
             rest == read_values(in, head.at, n - 1)
         IN  IF head.ok /\ rest.ok THEN Ok(<<head.v>> \o rest.v, rest.at) ELSE Reject

read_pairs(in, c, n, prev) ==
    IF n = 0 THEN Ok(<<>>, c)
    ELSE LET k == read_value(in, c)
             raw == SubSeq(in, c, k.at - 1)
             v == read_value(in, k.at)
             rest == read_pairs(in, v.at, n - 1, raw)
         IN  IF /\ k.ok
                /\ prev # <<>> => compare_canonical_keys(prev, raw)
                /\ v.ok /\ rest.ok
             THEN Ok(<<<<k.v, v.v>>>> \o rest.v, rest.at) ELSE Reject

(* The budget is spent as the items come; what it refuses is the same.     *)
read_canonical_value(in, c) == InBudget(read_value(in, c))
=============================================================================
