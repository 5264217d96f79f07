------------------------------ MODULE MCFormats ------------------------------
(***************************************************************************)
(* Every codec on sample values: a value is encoded, the encoding decoded; *)
(* then one byte of the encoding is overwritten, or it is cut short, or    *)
(* (for the run configuration) a node of its document is replaced, and the *)
(* result is decoded.  Canonical CBOR is also read from every byte string  *)
(* up to MAX_LEN over Alphabet; Marks are the bytes written over others.    *)
(***************************************************************************)
EXTENDS DurableCodec, ConfigCodec

CONSTANTS Alphabet, Marks, MAX_LEN

RandomCount == <<4>>
ActorMax == <<2, 0>>

VARIABLES
    codec,      \* which codec is at work
    stage,      \* how far the value or the bytes have come
    value,      \* the value that was encoded
    data,       \* its encoding, possibly altered
    out,        \* what the decoder made of it
    again,      \* what was read, encoded again
    back        \* and decoded again
vars == <<codec, stage, value, data, out, again, back>>

D(x) == [i \in 1..DIGEST_LEN |-> x]

-----------------------------------------------------------------------------
(* Sample values.                                                          *)

Leaves == {<<"Unsigned", n>> : n \in {<<>>, <<23>>, <<24>>, <<255>>, <<1, 0>>, <<1, 0, 0>>,
                                      <<255, 255, 255, 255>>, <<1, 0, 0, 0, 0>>}}
          \cup {<<"Negative", <<5>>>>, <<"Bytes", <<>>>>, <<"Text", <<97>>>>, <<"Bool", TRUE>>, <<"Null">>}
Floats == {f32_value(<<0, e, m>>) : e \in {0, 1, 101, 102, 103, 112, 113, 127, 142, 143, 254, 255},
                                   m \in {0, 1, 2^12, 2^13, 2^13 + 2^12, 2^22, 2^23 - 1, 2^23 - 2^13}}
          \cup {f64_value(<<1, e, m>>) : e \in {0, 800, 1023, 2047}, m \in {0, 1, 32, 2^27}}
Maps == {<<"Map", <<<<a, <<"Null">>>>, <<b, <<"Bool", FALSE>>>>>>>> : a, b \in Leaves}
CborValues == Leaves \cup {<<"Float", f>> : f \in Floats}
              \cup {<<"Array", s>> : s \in UNION {[1..n -> Leaves] : n \in 0..2}}
              \cup Maps \cup {<<"Array", <<m, m>>>> : m \in Maps}

Sample(type) ==
    CASE type = "u64"   -> {<<>>, <<24>>, <<1, 0, 0, 0, 0>>}
      [] type = "u32"   -> {<<2>>, <<1, 0, 0, 0>>}
      [] type = "u8"    -> {<<7>>}
      [] type = "bytes" -> {<<9>>}
      [] type = "id"    -> {D(1), D(2)}
      [] type = "hash"  -> {D(5)}
      [] type = "bool"  -> BOOLEAN
      [] type = "opt"   -> {<<>>, <<<<1>>>>}
      [] type = "path"  -> {<<D(1), <<47, 97>>>>, <<D(2), <<47>>>>}
      [] type = "paths" -> {<<>>, <<<<D(1), <<47, 97>>>>, <<D(2), <<47>>>>>>}
      [] type = "msgid" -> {<<<<1>>, <<2>>>>}
      [] type = "value" -> {<<"Unsigned", <<24>>>>, <<"Array", <<<<"Null">>, <<"Null">>, <<"Text", <<97, 97>>>>>>>>}
      [] type = "Observed" -> {[case |-> "Missing"], [case |-> "Present", content |-> <<>>]}
      [] type = "Crash" -> {[case |-> "DropAllUnsynced"], [case |-> "DropPaths", paths |-> <<>>],
                            [case |-> "TornWrite", write_entry |-> D(1), persisted_prefix |-> <<3>>],
                            [case |-> "CorruptRange", write_entry |-> D(1), offset |-> <<3>>, xor_bytes |-> <<1>>],
                            [case |-> "BitFlip", write_entry |-> D(1), offset |-> <<3>>, bit |-> <<1>>]}
Payloads(case) ==
    FoldSet(LAMBDA f, acc : {(f :> v) @@ p : v \in Sample(PayloadFields[case][f]), p \in acc},
            {[case |-> case]}, DOMAIN PayloadFields[case])
Inner == {"Missing", "Present", "DropAllUnsynced", "DropPaths", "TornWrite", "CorruptRange", "BitFlip"}
Entries == UNION {{EntryData(kind_of(c), <<1>>, ps, <<<<>>, <<1>>>>, <<4>>, p) :
                     p \in Payloads(c), ps \in {<<>>, <<D(1)>>}} : c \in DOMAIN PayloadFields \ Inner}

Effects == {[case |-> "Clock"], [case |-> "Sleep", ticks |-> <<1, 0>>], [case |-> "Recv"],
            [case |-> "Random", stream |-> <<1>>, count |-> MAX_RANDOM_COUNT],
            [case |-> "Send", to |-> MAX_ACTOR, payload |-> <<7>>],
            [case |-> "FsWrite", path |-> <<97>>, offset |-> <<2>>, bytes |-> <<3, 4>>],
            [case |-> "FsRead", path |-> <<97>>, offset |-> <<2>>, len |-> <<3>>],
            [case |-> "FsSync", path |-> <<>>]}
Results == {[case |-> "Clock", ticks |-> <<9>>], [case |-> "Ok"], [case |-> "Random", words |-> <<1, 2>>],
            [case |-> "Recv", payload |-> <<>>], [case |-> "Recv", payload |-> <<<<>>>>],
            [case |-> "Recv", payload |-> <<<<5>>>>], [case |-> "FsRead", observed |-> <<8>>]}
Messages == {[case |-> "Hello", identity |-> D(3), actor |-> <<1>>], [case |-> "Welcome", actor |-> <<1, 0>>],
             [case |-> "Reject", reason |-> 2, detail |-> <<97>>], [case |-> "Finish"],
             [case |-> "Goodbye", root |-> D(4), entries |-> <<1, 0, 0>>]}
            \cup {[case |-> "EffectRequest", effect |-> e] : e \in Effects}
            \cup {[case |-> "EffectResponse", result |-> r] : r \in Results}

BaseIdentity ==
    [engine_revision |-> <<<<97>>>>, engine_dirty |-> 0, engine_version |-> <<97>>, toolchain |-> <<98>>,
     target_triple |-> <<97>>, build_profile |-> <<98>>, features |-> <<>>, lockfile_digest |-> <<D(1)>>,
     sut_revision |-> <<>>, sut_dirty |-> 1, sut_artifact_digest |-> <<>>, guest_digest |-> <<>>,
     workload_id |-> <<99>>, program_digest |-> D(2), input_digests |-> <<>>, backend |-> <<100>>,
     runtime_profile |-> <<101>>, run_config_digest |-> D(3), seed_tree_root |-> D(4),
     faultspec_digest |-> <<>>, oracle_version |-> <<>>, support_provider_version |-> <<>>,
     journal_format_version |-> <<3>>, crash_semantics_version |-> <<1>>, max_steps |-> <<9>>]
Identities == {BaseIdentity}
    \cup {[BaseIdentity EXCEPT !.input_digests = s] : s \in {<<D(1)>>, <<D(1), D(2)>>, <<D(2), D(1)>>}}
    \cup {[BaseIdentity EXCEPT ![f] = <<>>] : f \in {"engine_revision", "lockfile_digest", "engine_version", "workload_id"}}
    \cup {[BaseIdentity EXCEPT ![f] = <<D(9)>>] : f \in {"sut_artifact_digest", "guest_digest", "faultspec_digest"}}
    \cup {[BaseIdentity EXCEPT ![f] = <<<<7>>>>] : f \in {"oracle_version", "support_provider_version"}}

Clauses == {<<>>, <<[literals |-> <<D(1), D(2)>>, weight |-> <<5>>]>>}
Hypotheses == {<<>>, <<[events |-> <<D(1)>>, total_cost |-> <<1, 0>>], [events |-> <<>>, total_cost |-> <<>>]>>}
Artifacts == {[resolved_engine |-> e, run_config_hash |-> h, config_fingerprint |-> D(8), closures |-> c] :
                e \in {0, 1, AUTO}, h \in {<<>>, <<D(6)>>},
                c \in {<<>>} \cup {<<[key |-> D(7), clauses |-> cl, hypotheses |-> hy]>> : cl \in Clauses, hy \in Hypotheses}}

Clocks == {<<>>, (<<1>> :> <<2>>), (<<>> :> <<1>>) @@ (<<1>> :> <<24>>)}
FrameEntry(v, clock) ==
    EntryOf(EntryData("Epoch", <<1>>, <<>>, <<<<1>>>>, <<4>>, [case |-> "Epoch", epoch |-> v]), clock)
Blocks == {<<FrameEntry(<<2>>, c)>> : c \in Clocks} \cup {<<FrameEntry(<<2>>, <<>>), FrameEntry(<<>>, c)>> : c \in Clocks}
Snapshots == {[actor |-> <<1>>, sequence |-> <<2>>, entry_id |-> D(1), vector_clock |-> c,
               state_hash |-> Digest(<<7>>), state_data |-> <<7>>] : c \in Clocks}
Manifests == {[format_version |-> <<3>>, crash_semantics_version |-> <<1>>, execution_identity |-> i,
               root_seed |-> D(1), policy_tag |-> <<97>>, journal_root |-> D(2), entry_count |-> <<3>>,
               actor_heads |-> h] : i \in {<<>>, <<D(3)>>}, h \in {<<>>, (<<1>> :> D(1)) @@ (<<24>> :> D(2))}}

-----------------------------------------------------------------------------
(* Run configurations: two fields varied at a time.                        *)

BaseLink == [base_delay |-> 1, jitter |-> 0, loss_probability |-> 1, reorder_window |-> 0,
             capacity |-> <<>>, queue_policy |-> "Drop"]
BaseConfig ==
    [dns |-> <<>>, seed |-> "s", links |-> <<>>, monitor |-> TRUE, max_steps |-> 1,
     dropped_events |-> <<>>, fs_journaling |-> <<>>, fault_schedule |-> <<>>, reorder_draw |-> FALSE,
     max_file_extent |-> <<>>, max_resident_bytes |-> <<>>, policy |-> <<"Random">>,
     swarm |-> [drop_probability |-> 0, delay_probability |-> 1, max_delay_ticks |-> 0,
                crash_probability |-> 2, fault_classes_per_run |-> 1]]
Varied ==
    [dns |-> {(<<1, 1>> :> 1) @@ (<<1, 2>> :> 0), (<<MAX_DNS_NAME_LEN, 1>> :> U64_MAX)},
     links |-> {<<<<0, 1, [BaseLink EXCEPT !.jitter = j, !.reorder_window = w, !.capacity = c, !.queue_policy = p]>>>> :
                  j \in {0, U64_MAX}, w \in {1, MAX_REORDER_WINDOW + 1}, c \in {<<>>, <<1>>, <<U64_MAX>>},
                  p \in {"Drop", "Block"}}
               \cup {<<<<0, 1, BaseLink>>, <<1, U64_MAX, BaseLink>>>>},
     monitor |-> BOOLEAN, max_steps |-> {0, U64_MAX}, dropped_events |-> {<<"a", "b">>, <<"b", "a">>},
     fs_journaling |-> {<<"Ordered">>, <<"Data">>, <<"Writeback">>},
     fault_schedule |-> {<<f>> : f \in {<<"Drop", "a">>, <<"Crash", "a">>, <<"Duplicate", "b">>,
                                        <<"Partition", 0, 1>>, <<"Partition", 1, 0>>}
                                       \cup {<<k, "a", 3>> : k \in {"Delay", "Corrupt", "CrashState"}}},
     reorder_draw |-> BOOLEAN, max_file_extent |-> {<<0>>, <<1>>}, max_resident_bytes |-> {<<0>>},
     policy |-> {<<"Replay">>, <<"Dpor">>, <<"Pct", U64_MAX>>}
                \cup {<<"Bandit", x, 1>> : x \in {-1, 5, INFINITE, NEGATIVE_ZERO}},
     swarm |-> {[BaseConfig.swarm EXCEPT !.max_delay_ticks = t, !.crash_probability = 0] : t \in {1, U64_MAX}}]
Configs == UNION {{[BaseConfig EXCEPT ![f] = v, ![g] = w] : v \in Varied[f], w \in Varied[g]} : f, g \in DOMAIN Varied}
Edited == UNION {{[BaseConfig EXCEPT ![f] = v] : v \in Varied[f]} : f \in DOMAIN Varied}
(* A build can hold the configuration at all.                              *)
Representable(c, build) ==
    LET Fits1(n) == n <= build.usize_max IN
    /\ Fits1(c.max_steps) /\ Fits1(c.swarm.fault_classes_per_run)
    /\ \A d \in DOMAIN c.dns : Fits1(c.dns[d])
    /\ c.policy[1] = "Pct" => Fits1(c.policy[2])
    /\ \A i \in DOMAIN c.links :
          /\ Fits1(c.links[i][1]) /\ Fits1(c.links[i][2]) /\ Fits1(c.links[i][3].reorder_window)
          /\ \A k \in DOMAIN c.links[i][3].capacity : Fits1(c.links[i][3].capacity[k])
    /\ c.fs_journaling # <<>> => build.journaling
Jobs == {<<c, w, r>> \in Configs \X Builds \X Builds : Representable(c, w)}

(* Nodes to put in the place of a document's own.                          *)
OddNodes == {Null, Unsigned(1), Unsigned(U64_MAX), <<"Bool", TRUE>>, <<"Float", 3>>, Array(<<>>),
             Bytes(<<"raw", "a">>), Framed("a"), Array(<<Unsigned(2), Unsigned(1), Unsigned(1)>>)}
RECURSIVE Edits(_)
Edits(v) ==
    OddNodes \cup
    IF v[1] # "Array" THEN {}
    ELSE UNION {{Array([v[2] EXCEPT ![i] = t]) : t \in Edits(v[2][i])} : i \in DOMAIN v[2]}
         \cup {Array(Append(v[2], t)) : t \in OddNodes}
         \cup {Array(v[2] \o <<Null, Unsigned(0)>>)}

-----------------------------------------------------------------------------
(* Encoding and decoding by codec.                                         *)

Encoded(k, v) ==
    CASE k = "cbor"     -> try_encode(v)
      [] k = "entry"    -> encode_entry(v)
      [] k = "message"  -> to_frame(<<1, 2>>, v)
      [] k = "identity" -> canonical_bytes(v)
      [] k = "artifact" -> encode_artifact(v)
      [] k = "block"    -> Joined([i \in DOMAIN v |-> write_frame(v[i])])
      [] k = "snapshot" -> Ok(snapshot_to_canonical_bytes(v), 0)
      [] k = "manifest" -> Ok(encode_prefix(<<77>>, Numeral(Len(manifest_to_canonical_bytes(v))))
                              \o manifest_to_canonical_bytes(v), 0)
      [] k = "config"   -> config_to_canonical_bytes(v[1], v[2])
ManifestFile(in) ==
    LET p == parse_prefix(in, <<77>>) IN
    IF p.ok /\ Number(p.v) = Len(in) - p.at + 1
    THEN manifest_from_canonical_bytes(SubSeq(in, p.at, Len(in))) ELSE Reject
(* The only message in b, with the sequence number it was sent with.       *)
Lone(b, m) == IF m.ok /\ m.v[1] = <<1, 2>> /\ m.at = Len(b) + 1 THEN Ok(m.v[2], 0) ELSE Reject
Decoded(k, b) ==
    CASE k = "cbor"     -> from_canonical_bytes(b)
      [] k = "entry"    -> decode_entry(b)
      [] k = "message"  -> Lone(b, from_frame(b))
      [] k = "identity" -> identity_from_canonical_bytes(b)
      [] k = "artifact" -> decode_artifact(b)
      [] k = "block"    -> Walk(b, 1, <<>>)
      [] k = "snapshot" -> snapshot_from_canonical_bytes(b)
      [] k = "manifest" -> ManifestFile(b)
      [] k = "config"   -> config_from_canonical_bytes(b, value[3])

Start(k, s, v, d) ==
    codec = k /\ stage = s /\ value = v /\ data = d /\ out = Reject /\ again = Reject /\ back = Reject

Init ==
    \/ \E v \in CborValues : Start("cbor", "value", v, <<>>)
    \/ \E n \in 0..MAX_LEN : \E b \in [1..n -> Alphabet] : Start("cbor", "altered", <<"Null">>, b)
    \/ \E v \in Entries : Start("entry", "value", v, <<>>)
    \/ \E v \in Messages : Start("message", "value", v, <<>>)
    \/ \E v \in Identities : Start("identity", "value", v, <<>>)
    \/ \E v \in Artifacts : Start("artifact", "value", v, <<>>)
    \/ \E v \in Blocks : Start("block", "value", v, <<>>)
    \/ \E v \in Snapshots : Start("snapshot", "value", v, <<>>)
    \/ \E v \in Manifests : Start("manifest", "value", v, <<>>)
    \/ \E v \in Jobs : Start("config", "value", v, <<>>)

(* A value is written, perhaps altered, and read; what was read is written *)
(* and read again.  A value that is refused stays.                         *)
WriteValue ==
    /\ stage \in {"value", "read", "read altered"}
    /\ stage # "value" => out.ok
    /\ LET original == stage = "value"
           v == CASE original -> value
                  [] ~original /\ codec = "config" -> <<out.v, value[3]>>
                  [] OTHER -> out.v
       IN  \E written \in {Encoded(codec, v)} :
            /\ original => written.ok
            /\ stage' = IF original THEN "written" ELSE "rewritten"
            /\ data' = IF original THEN written.v ELSE data
            /\ again' = IF original THEN again ELSE written
    /\ UNCHANGED <<codec, value, out, back>>

ReadBytes ==
    /\ stage \in {"written", "altered", "cut", "rewritten"}
    /\ stage = "rewritten" => again.ok
    /\ LET first == stage # "rewritten"
       IN  \E v \in {Decoded(codec, IF first THEN data ELSE again.v)} :
            /\ stage' = CASE stage = "written" -> "read"
                          [] stage = "altered" -> "read altered"
                          [] stage = "cut" -> "read cut"
                          [] OTHER -> "reread"
            /\ out' = IF first THEN v ELSE out
            /\ back' = IF first THEN back ELSE v
    /\ UNCHANGED <<codec, value, data, again>>

(* One byte is overwritten.                                                *)
Overwrite ==
    /\ stage = "written" /\ codec \notin {"cbor", "config"}
    /\ \E i \in DOMAIN data, b \in Marks : b # data[i] /\ data' = [data EXCEPT ![i] = b]
    /\ stage' = "altered"
    /\ UNCHANGED <<codec, value, out, again, back>>

(* A tail is lost, as in a torn write.                                     *)
Cut ==
    /\ stage = "written" /\ codec = "block"
    /\ \E n \in 0..(Len(data) - 1) : data' = SubSeq(data, 1, n)
    /\ stage' = "cut"
    /\ UNCHANGED <<codec, value, out, again, back>>

(* A node of a configuration is replaced, or a field left out.             *)
EditDocument ==
    /\ stage = "written" /\ codec = "config"
    /\ value[1] \in Edited /\ value[2].journaling /\ value[3] = value[2]
    /\ LET map == data[2][2][2] IN
       \E f \in DOMAIN map :
          \E m \in {[g \in DOMAIN map \ {f} |-> map[g]]}
                   \cup {[map EXCEPT ![f] = t] : t \in Edits(map[f])} :
             data' = Array(<<Unsigned(FORMAT_VERSION), <<"Map", m>>>>)
    /\ stage' = "altered"
    /\ UNCHANGED <<codec, value, out, again, back>>

Next == WriteValue \/ ReadBytes \/ Overwrite \/ Cut \/ EditDocument

-----------------------------------------------------------------------------
(* Properties.                                                             *)

RECURSIVE Sorted(_)
Sorted(v) ==
    CASE v[1] = "Array" -> <<"Array", [i \in 1..Len(v[2]) |-> Sorted(v[2][i])]>>
      [] v[1] = "Map"   -> <<"Map", SetToSortSeq({<<Sorted(v[2][i][1]), Sorted(v[2][i][2])>> : i \in 1..Len(v[2])},
                               LAMBDA a, b : compare_canonical_keys(try_encode(a[1]).v, try_encode(b[1]).v))>>
      [] OTHER -> v
(* What the codec promises to give back: map keys and input digests are    *)
(* sorted.                                                                 *)
Normal(k, v) == CASE k = "cbor" -> Sorted(v)
                  [] k = "identity" -> [v EXCEPT !.input_digests = SortSeq(@, Before)]
                  [] OTHER -> v

(* Whatever an encoder writes, its decoder reads back unchanged: CBOR      *)
(* values, all 24 kinds of journal entry, protocol messages, identities,   *)
(* solver state, log frames, snapshots and manifests.  A configuration     *)
(* written by one build is read by another exactly, or is refused because  *)
(* that build cannot hold it (a narrower usize, no journaling filesystem). *)
ReadsBack ==
    stage = "read" =>
        IF codec = "config"
        THEN /\ out.ok <=> Representable(value[1], value[3])
             /\ out.ok => out.v = value[1]
        ELSE out.ok /\ out.v = Normal(codec, value)

(* What a decoder accepts is what an encoder writes.  The strict CBOR      *)
(* decoder and the decoders of protocol messages, solver state, snapshots  *)
(* and manifests accept only the bytes the encoder would have written for  *)
(* the value they return, so a content hash over them identifies the       *)
(* value; the tolerant and the item-by-item readers read those bytes       *)
(* alike.  An entry, an identity or a configuration decoded               *)
(* from altered bytes can be encoded again, and that encoding is read as   *)
(* the same value: no accepted record is lost by being rewritten.          *)
AcceptedIsStable ==
    /\ stage = "rewritten" =>
        /\ again.ok
        /\ codec \in {"cbor", "message", "artifact", "snapshot", "manifest"} => again.v = data
        /\ codec = "cbor" => parse_tolerant(data) = out
        /\ codec = "cbor" /\ value_from_canonical_bytes(data).ok => read_canonical_value(data, 1) = out
    /\ stage = "reread" =>
        /\ back.ok
        /\ codec \in {"entry", "identity", "config"} => back.v = Normal(codec, out.v)

(* A log whose tail is lost yields exactly the entries of the whole frames *)
(* before the cut; a log with one byte altered yields a prefix of its      *)
(* entries, or, when only the redundant length fields could tell, nothing  *)
(* that was not written.                                                   *)
LogYieldsPrefix ==
    codec = "block" =>
        /\ stage \in {"read altered", "read cut"} =>
              /\ Len(out.v) <= Len(value)
              /\ out.v = SubSeq(value, 1, Len(out.v))
        /\ stage = "read cut" =>
              LET ends == {n \in 0..Len(value) :
                             Len(Joined([i \in 1..n |-> write_frame(value[i])]).v) <= Len(data)}
              IN  Len(out.v) = Max(ends)

(* Every codec reads back what it wrote (ReadsBack), and a log that was     *)
(* cut or damaged yields only what was logged (LogYieldsPrefix).            *)
CodecsRoundTrip == ReadsBack /\ LogYieldsPrefix
=============================================================================
