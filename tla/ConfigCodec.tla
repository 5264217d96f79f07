----------------------------- MODULE ConfigCodec -----------------------------
(***************************************************************************)
(* The versioned document of a RunConfig (ledger-sim config_canonical.rs), *)
(* at the level of CBOR values: what the bytes of a value are, and that    *)
(* only canonical bytes are read, is module Cbor's.                        *)
(*                                                                         *)
(* A CBOR value is a pair of its kind and its content; a map is a function *)
(* from its text keys, so a duplicate key cannot arise and the key order   *)
(* is the byte layer's.  Integers stop at U64_MAX; a usize is a value up   *)
(* to usize_max, which with the sim-fs-journaling feature is what a build  *)
(* adds to the format.  A float counts halves, with INFINITE for the       *)
(* non-finite ones and NEGATIVE_ZERO apart.  An Option is a sequence of    *)
(* at most one element.                                                    *)
(***************************************************************************)
EXTENDS Integers, Sequences, SequencesExt, FiniteSets, TLC

CONSTANTS
    U32_MAX, U64_MAX,
    MAX_DNS_NAME_LEN,
    MAX_REORDER_WINDOW

ASSUME ConfigAssumption ==
    /\ {U32_MAX, U64_MAX, MAX_DNS_NAME_LEN, MAX_REORDER_WINDOW} \subseteq Nat
    /\ U32_MAX <= U64_MAX

(* What a build fixes: its pointer width and its feature.                  *)
Builds == [usize_max : {U32_MAX, U64_MAX}, journaling : BOOLEAN]

FORMAT_VERSION == 2
INFINITE == 99
NEGATIVE_ZERO == -99
ONE == 2

Yes(v) == [ok |-> TRUE, v |-> v]
No == [ok |-> FALSE, v |-> <<>>]
Unsigned(n) == <<"Unsigned", n>>
Bytes(b) == <<"Bytes", b>>
Array(items) == <<"Array", items>>
Null == <<"Null", 0>>
Framed(digest) == Bytes(<<"framed", digest>>)
All(results) == \A i \in DOMAIN results : results[i].ok
Values(results) == [i \in DOMAIN results |-> results[i].v]
(* An array of encodings or decodings; one failure fails it.               *)
Collect(results) == IF All(results) THEN Yes(Values(results)) ELSE No
ArrayOf(results) == IF All(results) THEN Yes(Array(Values(results))) ELSE No

-----------------------------------------------------------------------------
(* The encoder.                                                            *)

float(value) == IF value = INFINITE THEN No ELSE Yes(<<"Float", value>>)

optional(value) == IF value = <<>> THEN Null ELSE Unsigned(value[1])

is_default_queue_by_capacity(link) == link.capacity = <<>>
is_default_queue(link) == link.capacity = <<>> /\ link.queue_policy = "Drop"

link_value(link) ==
    IF link.jitter = U64_MAX \/ link.reorder_window > MAX_REORDER_WINDOW THEN No
    ELSE ArrayOf(<<Yes(Unsigned(link.base_delay)), Yes(Unsigned(link.jitter)),
                   float(link.loss_probability), Yes(Unsigned(link.reorder_window))>>
                 \o IF is_default_queue(link) THEN <<>>
                    ELSE <<Yes(optional(link.capacity)),
                           Yes(Unsigned(IF link.queue_policy = "Drop" THEN 0 ELSE 1))>>)

swarm_value(swarm) ==
    IF swarm.max_delay_ticks = U64_MAX THEN No
    ELSE ArrayOf(<<float(swarm.drop_probability), float(swarm.delay_probability),
                   Yes(Unsigned(swarm.max_delay_ticks)), float(swarm.crash_probability),
                   Yes(Unsigned(swarm.fault_classes_per_run))>>)

policy_value(policy) ==
    CASE policy[1] = "Random" -> Yes(Array(<<Unsigned(0)>>))
      [] policy[1] = "Pct"    -> Yes(Array(<<Unsigned(1), Unsigned(policy[2])>>))
      [] policy[1] = "Bandit" -> ArrayOf(<<Yes(Unsigned(2)), float(policy[2]), float(policy[3])>>)
      [] policy[1] = "Replay" -> Yes(Array(<<Unsigned(3)>>))
      [] policy[1] = "Dpor"   -> Yes(Array(<<Unsigned(4)>>))

fault_value(fault) ==
    CASE fault[1] = "Drop"       -> Array(<<Unsigned(0), Framed(fault[2])>>)
      [] fault[1] = "Delay"      -> Array(<<Unsigned(1), Framed(fault[2]), Unsigned(fault[3])>>)
      [] fault[1] = "Partition"  -> Array(<<Unsigned(2), Unsigned(fault[2]), Unsigned(fault[3])>>)
      [] fault[1] = "Crash"      -> Array(<<Unsigned(3), Framed(fault[2])>>)
      [] fault[1] = "Corrupt"    -> Array(<<Unsigned(4), Framed(fault[2]), Unsigned(fault[3])>>)
      [] fault[1] = "CrashState" -> Array(<<Unsigned(5), Framed(fault[2]), Unsigned(fault[3])>>)
      [] fault[1] = "Duplicate"  -> Array(<<Unsigned(6), Framed(fault[2])>>)

fs_journaling_value(mode, build) ==
    IF mode = <<>> \/ ~build.journaling THEN Null
    ELSE Unsigned(CASE mode[1] = "Writeback" -> 0 [] mode[1] = "Ordered" -> 1
                    [] mode[1] = "Data" -> 2)

(* The DNS table is a map ordered by name; a name is <<length, which>>.    *)
NameBefore(a, b) == a[1] < b[1] \/ (a[1] = b[1] /\ a[2] < b[2])
fields(c, build) ==
    LET names == SetToSortSeq(DOMAIN c.dns, NameBefore)
        Link(l) == LET v == link_value(l[3])
                   IN  IF v.ok THEN Yes(Array(<<Unsigned(l[1]), Unsigned(l[2]), v.v>>)) ELSE No
        links == ArrayOf([i \in DOMAIN c.links |-> Link(c.links[i])])
        swarm == swarm_value(c.swarm)
        policy == policy_value(c.policy)
    IN  IF ~(links.ok /\ swarm.ok /\ policy.ok) THEN No
        ELSE Yes([dns |-> Array([i \in DOMAIN names |->
                                   Array(<<<<"Text", names[i]>>, Unsigned(c.dns[names[i]])>>)]),
                  seed |-> Framed(c.seed),
                  links |-> links.v, swarm |-> swarm.v, policy |-> policy.v,
                  monitor |-> <<"Bool", c.monitor>>,
                  max_steps |-> Unsigned(c.max_steps),
                  dropped_events |-> Array([i \in DOMAIN c.dropped_events |->
                                              Framed(c.dropped_events[i])]),
                  fs_journaling |-> fs_journaling_value(c.fs_journaling, build),
                  fault_schedule |-> Array([i \in DOMAIN c.fault_schedule |->
                                              fault_value(c.fault_schedule[i])]),
                  reorder_draw |-> <<"Bool", c.reorder_draw>>,
                  max_file_extent |-> optional(c.max_file_extent),
                  max_resident_bytes |-> optional(c.max_resident_bytes)])

(* The byte layer refuses a negative zero anywhere in the value.           *)
RECURSIVE Encodable(_)
Encodable(v) == CASE v[1] = "Float" -> v[2] # NEGATIVE_ZERO
                  [] v[1] = "Array" -> \A i \in DOMAIN v[2] : Encodable(v[2][i])
                  [] v[1] = "Map"   -> \A k \in DOMAIN v[2] : Encodable(v[2][k])
                  [] OTHER -> TRUE

config_to_canonical_bytes(c, build) ==
    LET f == fields(c, build)
        document == Array(<<Unsigned(FORMAT_VERSION), <<"Map", f.v>>>>)
    IN  IF f.ok /\ Encodable(document) THEN Yes(document) ELSE No

-----------------------------------------------------------------------------
(* The decoder.                                                            *)

Kind(value, kind) == IF value[1] = kind THEN Yes(value[2]) ELSE No
bool_of(value) == Kind(value, "Bool")
u64_of(value) == Kind(value, "Unsigned")
AtMost(value, max) == IF value[1] = "Unsigned" /\ value[2] <= max THEN Yes(value[2]) ELSE No
usize_of(value, build) == AtMost(value, build.usize_max)
u32_of(value) == AtMost(value, U32_MAX)
optional_u64(value) == CASE value = Null -> Yes(<<>>)
                         [] value[1] = "Unsigned" -> Yes(<<value[2]>>)
                         [] OTHER -> No
finite_float_of(value) == IF value[1] = "Float" /\ value[2] # INFINITE THEN Yes(value[2]) ELSE No
probability_of(value) ==
    IF /\ value[1] = "Float"
       /\ value[2] \in 0..ONE
    THEN Yes(value[2]) ELSE No
decode_config_hash(value) ==
    IF value[1] = "Bytes" /\ value[2][1] = "framed" THEN Yes(value[2][2]) ELSE No
(* Each element of an array by one decoder.                                *)
ListOf(value, decoder(_)) ==
    IF value[1] # "Array" THEN No
    ELSE Collect([i \in DOMAIN value[2] |-> decoder(value[2][i])])
decode_hash_list(value) == ListOf(value, decode_config_hash)

(* A tagged array: the tag, then exactly as many items as the case reads.  *)
TaggedAs(value, tag, readers) ==
    /\ value[1] = "Array"
    /\ value[2] # <<>>
    /\ value[2][1] = Unsigned(tag)
    /\ Len(value[2]) = 1 + Len(readers)
    /\ All(readers)
Rest(value, i) == IF value[1] = "Array" /\ i + 1 \in DOMAIN value[2] THEN value[2][i + 1] ELSE Null

decode_policy(value, build) ==
    LET pct == <<usize_of(Rest(value, 1), build)>>
        bandit == <<finite_float_of(Rest(value, 1)), probability_of(Rest(value, 2))>>
    IN  CASE TaggedAs(value, 0, <<>>)   -> Yes(<<"Random">>)
          [] TaggedAs(value, 1, pct)    -> Yes(<<"Pct">> \o Values(pct))
          [] TaggedAs(value, 2, bandit) -> Yes(<<"Bandit">> \o Values(bandit))
          [] TaggedAs(value, 3, <<>>)   -> Yes(<<"Replay">>)
          [] TaggedAs(value, 4, <<>>)   -> Yes(<<"Dpor">>)
          [] OTHER -> No

decode_swarm(value, build) ==
    IF value[1] # "Array" THEN No
    ELSE IF Len(value[2]) # 5 THEN No
    ELSE LET i == value[2]
             r == <<probability_of(i[1]), probability_of(i[2]), u64_of(i[3]),
                    probability_of(i[4]), usize_of(i[5], build)>>
         IN  IF All(r) /\ r[3].v # U64_MAX
             THEN Yes([drop_probability |-> r[1].v, delay_probability |-> r[2].v,
                       max_delay_ticks |-> r[3].v, crash_probability |-> r[4].v,
                       fault_classes_per_run |-> r[5].v])
             ELSE No

decode_capacity(value, build) ==
    CASE value = Null -> Yes(<<>>)
      [] value[1] = "Unsigned" /\ value[2] <= build.usize_max -> Yes(<<value[2]>>)
      [] OTHER -> No
decode_queue_policy(value) ==
    CASE value = Unsigned(0) -> Yes("Drop") [] value = Unsigned(1) -> Yes("Block") [] OTHER -> No

(* A jitter of u64::MAX has no draw modulus.                               *)
decodable_jitter(jitter) == jitter # U64_MAX

decode_link(value, build) ==
    IF ~(value[1] = "Array" /\ Len(value[2]) = 3) THEN No
    ELSE LET ends == <<usize_of(value[2][1], build), usize_of(value[2][2], build)>>
             items == value[2][3][2]
         IN
    IF ~(All(ends) /\ value[2][3][1] = "Array" /\ Len(items) \in {4, 6}) THEN No
    ELSE LET r == <<u64_of(items[1]), u64_of(items[2]), probability_of(items[3]),
                    usize_of(items[4], build)>>
                  \o IF Len(items) = 4 THEN <<Yes(<<>>), Yes("Drop")>>
                     ELSE <<decode_capacity(items[5], build), decode_queue_policy(items[6])>>
         IN
    IF ~(All(r) /\ decodable_jitter(r[2].v) /\ r[4].v <= MAX_REORDER_WINDOW) THEN No
    ELSE Yes(<<ends[1].v, ends[2].v,
               [base_delay |-> r[1].v, jitter |-> r[2].v, loss_probability |-> r[3].v,
                reorder_window |-> r[4].v, capacity |-> r[5].v, queue_policy |-> r[6].v]>>)
decode_links(value, build) == ListOf(value, LAMBDA v : decode_link(v, build))

(* The table need not come sorted; a repeated name is refused.             *)
decode_dns(value, build) ==
    LET Entry(v) == IF ~(v[1] = "Array" /\ Len(v[2]) = 2) THEN No
                    ELSE LET actor == usize_of(v[2][2], build)
                         IN  IF /\ v[2][1][1] = "Text"
                                /\ v[2][1][2][1] <= MAX_DNS_NAME_LEN
                                /\ actor.ok
                             THEN Yes(<<v[2][1][2], actor.v>>) ELSE No
        entries == ListOf(value, Entry)
        names == {entries.v[i][1] : i \in DOMAIN entries.v}
    IN  IF entries.ok /\ Cardinality(names) = Len(entries.v)
        THEN Yes([n \in names |-> (CHOOSE e \in Range(entries.v) : e[1] = n)[2]])
        ELSE No

decode_fault(value) ==
    LET id == decode_config_hash(Rest(value, 1)) n == u64_of(Rest(value, 2))
        link == <<u32_of(Rest(value, 1)), u32_of(Rest(value, 2))>>
    IN  CASE TaggedAs(value, 0, <<id>>)    -> Yes(<<"Drop", id.v>>)
          [] TaggedAs(value, 1, <<id, n>>) -> Yes(<<"Delay", id.v, n.v>>)
          [] TaggedAs(value, 2, link)      -> Yes(<<"Partition">> \o Values(link))
          [] TaggedAs(value, 3, <<id>>)    -> Yes(<<"Crash", id.v>>)
          [] TaggedAs(value, 4, <<id, n>>) -> Yes(<<"Corrupt", id.v, n.v>>)
          [] TaggedAs(value, 5, <<id, n>>) -> Yes(<<"CrashState", id.v, n.v>>)
          [] TaggedAs(value, 6, <<id>>)    -> Yes(<<"Duplicate", id.v>>)
          [] OTHER -> No
decode_faults(value) == ListOf(value, decode_fault)

decode_fs_journaling(value, build) ==
    CASE value = Null -> Yes(<<>>)
      [] build.journaling /\ value = Unsigned(0) -> Yes(<<"Writeback">>)
      [] build.journaling /\ value = Unsigned(1) -> Yes(<<"Ordered">>)
      [] build.journaling /\ value = Unsigned(2) -> Yes(<<"Data">>)
      [] OTHER -> No

RequiredFields == {"dns", "seed", "links", "swarm", "policy", "monitor", "max_steps",
                   "fs_journaling", "dropped_events", "fault_schedule"}
(* The optional fields and what their absence means.                       *)
OptionalFields == [reorder_draw |-> FALSE, max_file_extent |-> <<>>, max_resident_bytes |-> <<>>]

decode_config_field(name, value, build) ==
    CASE name = "dns"            -> decode_dns(value, build)
      [] name = "seed"           -> decode_config_hash(value)
      [] name = "links"          -> decode_links(value, build)
      [] name = "swarm"          -> decode_swarm(value, build)
      [] name = "policy"         -> decode_policy(value, build)
      [] name \in {"monitor", "reorder_draw"} -> bool_of(value)
      [] name = "max_steps"      -> usize_of(value, build)
      [] name = "fs_journaling"  -> decode_fs_journaling(value, build)
      [] name = "dropped_events" -> decode_hash_list(value)
      [] name = "fault_schedule" -> decode_faults(value)
      [] name \in {"max_file_extent", "max_resident_bytes"} -> optional_u64(value)
      [] OTHER -> No

config_from_canonical_bytes(document, build) ==
    IF ~(document[1] = "Array" /\ Len(document[2]) = 2) THEN No
    ELSE IF ~(document[2][1] = Unsigned(FORMAT_VERSION) /\ document[2][2][1] = "Map") THEN No
    ELSE LET map == document[2][2][2]
             read == [name \in DOMAIN map |-> decode_config_field(name, map[name], build)]
         IN  IF All(read) /\ RequiredFields \subseteq DOMAIN map
             THEN Yes([name \in DOMAIN map |-> read[name].v] @@ OptionalFields)
             ELSE No
=============================================================================
