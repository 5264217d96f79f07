----------------------------- MODULE FaultSpec ------------------------------
(***************************************************************************)
(* The failure-scenario language: its line parser (parser.rs) and compiler  *)
(* (compiler.rs) in ledger-faultspec, and the bridge of the explorer that    *)
(* turns a compiled scenario into the faults of a simulated run              *)
(* (faultspec_bridge.rs).                                                    *)
(*                                                                         *)
(* A line is the sequence of its words, split at white space:               *)
(*   <<"word", w>>, <<"link", s, d>> for s->d, <<"percent", v>>,            *)
(*   <<"time", v, unit>>, <<"range", lo, hi>> for [lo,hi).                  *)
(* A name is a sequence of words.  Letter case, trailing commas, comments   *)
(* and the texts of errors are left out.  An operation that can fail        *)
(* returns the empty set, or the set of its one result.                     *)
(***************************************************************************)
EXTENDS Integers, Sequences, FiniteSets, SequencesExt, Bitwise

CONSTANTS
    Spelling,            \* the bytes of each word
    MAX_NAME_LEN,
    MAX_REGISTRY_ACTOR_ID,
    U64_MAX, I64_MAX,
    MAX_BLOCKS,          \* 5 in compile
    MAX_PER_ACTOR        \* 3 in compile

VARIABLES
    dsl,                 \* the lines of the scenario
    phase,               \* how far compile_and_convert is; "refused" after an error
    scenario,            \* [name, blocks] once parsed
    registry,            \* ids of the names that have no number
    at,                  \* blocks compiled
    seen, id_owners,     \* target keys, and the name of each id of a partition
    fault_entries, schedule,    \* the compiled scenario
    engine,              \* the faults of the run
    meant                \* history: the blocks the lines were written for, if any

parseVars == <<dsl, meant, scenario>>
compileVars == <<registry, at, seen, id_owners, fault_entries, schedule>>
specVars == <<parseVars, compileVars, phase, engine>>

Word(w) == <<"word", w>>

-----------------------------------------------------------------------------
(* parser.rs.                                                              *)

First(S) == IF S = {} THEN {} ELSE {Min(S)}
Final(S) == IF S = {} THEN {} ELSE {Max(S)}
From(ts, i) == SubSeq(ts, i, Len(ts))

\* Where " w " is found in a trimmed text: not at its beginning or its end.
Inside(ts, w) == {i \in 2..Len(ts) - 1 : ts[i] = Word(w)}

Spell(name) ==
    LET upto[i \in 0..Len(name)] ==
            IF i = 0 THEN <<>>
            ELSE upto[i - 1] \o (IF i > 1 THEN <<32>> ELSE <<>>) \o Spelling[name[i][2]]
    IN  upto[Len(name)]

check_name_len(name) == Len(Spell(name)) <= MAX_NAME_LEN
Named(ts) == {n \in {ts} : ts # <<>> /\ check_name_len(ts)}

Scale(unit) == CASE unit = "ms" -> 1000 [] unit = "us" -> 1 [] unit = "s" -> 1000000 [] unit = "" -> 1

parse_duration_ticks(ts) ==
    {t[2] * Scale(t[3]) : t \in {x \in Range(ts) :
        Len(ts) = 1 /\ x[1] = "time" /\ x[2] \in 0..U64_MAX \div Scale(x[3])}}

extract_percent(ts) ==
    {ts[i][2] : i \in First({k \in DOMAIN ts : ts[k][1] = "percent"})} \cap 0..255

\* The sides of the first link that has both.
extract_link(ts) ==
    {ts[i] : i \in {k \in First({k \in DOMAIN ts : ts[k][1] = "link" /\ ts[k][2] # "" /\ ts[k][3] # ""}) :
                        check_name_len(<<Word(ts[k][2])>>) /\ check_name_len(<<Word(ts[k][3])>>)}}

extract_duration_after(ts, kw) ==
    IF Inside(ts, kw) = {} THEN {0}
    ELSE UNION {parse_duration_ticks(<<ts[i + 1]>>) : i \in First(Inside(ts, kw))}

Src(l) == <<Word(l[2])>>
Dst(l) == <<Word(l[3])>>

parse_drop(ts) ==
    {[kind |-> "Drop", percent |-> p, src |-> Src(l), dst |-> Dst(l), duration |-> f, period |-> e] :
        p \in {v \in extract_percent(ts) : v <= 100}, l \in extract_link(ts),
        f \in extract_duration_after(ts, "for"), e \in extract_duration_after(ts, "every")}

parse_crash_restart(r) ==
    IF Inside(r, "after") = {}
    THEN {[kind |-> "CrashRestart", actor |-> a, after |-> <<Word("FsFsync")>>] : a \in Named(r)}
    ELSE UNION {{[kind |-> "CrashRestart", actor |-> a, after |-> f] :
                    a \in Named(SubSeq(r, 1, i - 1)), f \in Named(From(r, i + 1))} :
                i \in First(Inside(r, "after"))}

parse_corrupt(ts) ==
    UNION {{[kind |-> "Corrupt", from |-> ts[i][2], to |-> ts[i][3], segment |-> s] :
              s \in UNION {Named(From(ts, k + 1)) : k \in Final(Inside(ts, "of"))}} :
           i \in {k \in First({k \in DOMAIN ts : ts[k][1] = "range"}) : ts[k][2] < ts[k][3]}}

parse_torn_write(ts) ==
    {[kind |-> "TornWrite", flag |-> n] :
        n \in IF Inside(ts, "on") = {} THEN Named(From(ts, 2))
              ELSE UNION {Named(From(ts, i + 1)) : i \in First(Inside(ts, "on"))}}

\* parse_partition and parse_duplicate.
parse_link(kind, r) == {[kind |-> kind, src |-> Src(l), dst |-> Dst(l)] : l \in extract_link(r)}

Negated(ts) == [i \in DOMAIN ts |-> IF ts[i][1] = "time" THEN [ts[i] EXCEPT ![2] = -@] ELSE ts[i]]
Negative(ts) == ts # <<>> /\ ts[1][1] = "time" /\ ts[1][2] < 0

\* The ticks of a signed duration, within i64.
skew(ts) ==
    IF Negative(ts) THEN {-v : v \in {w \in parse_duration_ticks(Negated(ts)) : w <= I64_MAX}}
    ELSE {w \in parse_duration_ticks(ts) : w <= I64_MAX}

parse_clock_skew(r) ==
    UNION {{[kind |-> "ClockSkew", actor |-> a, ticks |-> v] : a \in Named(p[1]), v \in skew(p[2])} :
           p \in IF Inside(r, "by") = {} THEN {<<SubSeq(r, 1, 1), SubSeq(r, 2, Min({2, Len(r)}))>>}
                 ELSE {<<SubSeq(r, 1, i - 1), From(r, i + 1)>> : i \in First(Inside(r, "by"))}}

ContainsS(t) ==
    CASE t[1] = "time" -> t[3] # ""
      [] t[1] = "word" -> 115 \in Range(Spelling[t[2]])
      [] t[1] = "link" -> \E i \in {2, 3} : 115 \in Range(Spelling[t[i]])
      [] OTHER -> FALSE

\* Without " by " the last word is the delay if it contains an s, and there is no
\* delay otherwise.
parse_bounded_latency(r) ==
    {[kind |-> "BoundedLatency", src |-> Src(l), dst |-> Dst(l), ticks |-> v] :
        l \in extract_link(r),
        v \in IF Inside(r, "by") # {}
              THEN UNION {parse_duration_ticks(From(r, i + 1)) : i \in First(Inside(r, "by"))}
              ELSE IF r # <<>> /\ ContainsS(Last(r)) THEN parse_duration_ticks(<<Last(r)>>) ELSE {0}}

parse_block(ts) ==
    CASE ts[1] = Word("torn-write") -> parse_torn_write(ts)
      [] Len(ts) > 1 /\ ts[1] = Word("drop") -> parse_drop(ts)
      [] Len(ts) > 1 /\ ts[1] = Word("crash-restart") -> parse_crash_restart(Tail(ts))
      [] Len(ts) > 1 /\ ts[1] = Word("corrupt") -> parse_corrupt(ts)
      [] Len(ts) > 1 /\ ts[1] = Word("partition") -> parse_link("Partition", Tail(ts))
      [] Len(ts) > 1 /\ ts[1] = Word("duplicate") -> parse_link("Duplicate", Tail(ts))
      [] Len(ts) > 1 /\ ts[1] = Word("clock-skew") -> parse_clock_skew(Tail(ts))
      [] Len(ts) > 1 /\ ts[1] \in {Word("delay"), Word("bounded-latency")} -> parse_bounded_latency(Tail(ts))
      [] OTHER -> {}

HasHeader(lines) == lines # <<>> /\ lines[1][1] = Word("scenario") /\ Len(lines[1]) > 1
Titles(lines) == IF HasHeader(lines) THEN Named(Tail(lines[1])) ELSE {<<Word("default")>>}
BlockLines(lines) == IF HasHeader(lines) THEN Tail(lines) ELSE lines

parse_scenario(lines) ==
    {[name |-> n, blocks |-> [i \in DOMAIN BlockLines(lines) |-> CHOOSE b \in parse_block(BlockLines(lines)[i]) : TRUE]] :
        n \in {t \in Titles(lines) :
                /\ lines # <<>>
                /\ \A i \in DOMAIN BlockLines(lines) : parse_block(BlockLines(lines)[i]) # {}
                /\ t = <<Word("default")>> => BlockLines(lines) # <<>>}}

-----------------------------------------------------------------------------
(* Names and ids.                                                          *)

Linked == {"Drop", "Partition", "BoundedLatency", "Duplicate"}

actor_names_for_block(b) ==
    IF b.kind \in Linked THEN <<b.src, b.dst>>
    ELSE IF b.kind \in {"CrashRestart", "ClockSkew"} THEN <<b.actor>> ELSE <<>>

\* What the storm heuristic counts: segments and flags too.
actors_for_block(b) ==
    CASE b.kind = "Corrupt" -> <<b.segment>> [] b.kind = "TornWrite" -> <<b.flag>>
      [] OTHER -> actor_names_for_block(b)

Digits(s) == s # <<>> /\ Range(s) \subseteq 48..57
Decimal(s) == LET upto[i \in 0..Len(s)] == IF i = 0 THEN 0 ELSE 10 * upto[i - 1] + s[i] - 48 IN upto[Len(s)]
SuffixAfter(s, mark) == UNION {{x \in {From(s, i + 1)} : Digits(x)} : i \in Final({k \in DOMAIN s : s[k] = mark})}

\* After the last '-', or else the last ':'.
numeric_suffix(name) ==
    {Decimal(x) : x \in IF SuffixAfter(Spell(name), 45) # {} THEN SuffixAfter(Spell(name), 45)
                       ELSE SuffixAfter(Spell(name), 58)}

\* A u32 is <<high, low>> half; h * 31 + b wraps.
Times31(h, b) == <<(31 * h[1] + (31 * h[2] + b) \div 2^16) % 2^16, (31 * h[2] + b) % 2^16>>
HashOf(s) == LET upto[i \in 0..Len(s)] == IF i = 0 THEN <<0, 0>> ELSE Times31(upto[i - 1], s[i]) IN upto[Len(s)]
IdOf(h) == IF h = <<0, 0>> THEN 1 ELSE 1 + ((h[1] * (2^16 % 10000) + h[2]) % 10000)
opaque_actor_id(name) == IdOf(HashOf(Spell(name)))

with_known == (<<Word("leader")>> :> 3002) @@ (<<Word("replica")>> :> 4633)

register(r, name, id) ==
    IF id <= MAX_REGISTRY_ACTOR_ID /\ \A n \in DOMAIN r : r[n] # id THEN {(name :> id) @@ r} ELSE {}

scenario_registry(names) ==
    LET after[i \in 0..Len(names)] ==
            IF i = 0 THEN {with_known}
            ELSE UNION {IF numeric_suffix(names[i]) # {} \/ names[i] \in DOMAIN r THEN {r}
                        ELSE register(r, names[i], opaque_actor_id(names[i])) : r \in after[i - 1]}
    IN  after[Len(names)]

resolve(r, name) ==
    IF numeric_suffix(name) # {} THEN {n \in numeric_suffix(name) : n <= MAX_REGISTRY_ACTOR_ID}
    ELSE {r[n] : n \in {name} \cap DOMAIN r}
-----------------------------------------------------------------------------
(* compile.                                                                *)

target_key(b) ==
    IF b.kind \in Linked THEN <<b.kind, b.src, b.dst>>
    ELSE <<b.kind, CASE b.kind = "Corrupt" -> b.segment [] b.kind = "TornWrite" -> b.flag [] OTHER -> b.actor>>

Concerned(blocks) == FlattenSeq([i \in DOMAIN blocks |-> actors_for_block(blocks[i])])
Occurrences(s, x) == Cardinality({i \in DOMAIN s : s[i] = x})

Storm(blocks) ==
    \/ Len(blocks) > MAX_BLOCKS
    \/ \E a \in Range(Concerned(blocks)) : Occurrences(Concerned(blocks), a) > MAX_PER_ACTOR

\* The journal kind and the fault of a block; its injection has the fields of it.
compile_block(r, b) ==
    CASE b.kind = "Drop" -> IF b.percent > 100 THEN {} ELSE {<<"Send", <<"Drop">>>>}
      [] b.kind = "CrashRestart" -> {<<"FsWrite", <<"Crash">>>>}
      [] b.kind = "Corrupt" -> IF b.from >= b.to THEN {} ELSE {<<"FsWrite", <<"Corrupt">>>>}
      [] b.kind = "TornWrite" -> {<<"FsWrite", <<"CrashState", 2>>>>}
      [] b.kind = "Partition" ->
            {<<"Send", <<"Partition", p[1], p[2]>>>> :
                p \in {q \in resolve(r, b.src) \X resolve(r, b.dst) : q[1] = q[2] => b.src = b.dst}}
      [] b.kind = "ClockSkew" -> IF b.ticks < 0 THEN {} ELSE {<<"TimerFire", <<"Delay", b.ticks>>>>}
      [] b.kind = "BoundedLatency" -> {<<"Send", <<"Delay", b.ticks>>>>}
      [] b.kind = "Duplicate" ->
            {<<"Send", <<"Duplicate">>>> :
                p \in {q \in resolve(r, b.src) \X resolve(r, b.dst) : q[1] = q[2] => b.src = b.dst}}

Owned(owners, id, name) == IF id \in DOMAIN owners THEN {o \in {owners} : o[id] = name} ELSE {(id :> name) @@ owners}

\* Mutated check_partition_collision: duplicated links are not recorded.
check_partition_collision_cuts_only(r, b, owners) ==
    IF b.kind # "Partition" THEN {owners}
    ELSE UNION {UNION {Owned(o, d, b.dst) : o \in Owned(owners, s, b.src), d \in resolve(r, b.dst)} :
                s \in resolve(r, b.src)}

check_partition_collision(r, b, owners) ==
    IF b.kind \notin {"Partition", "Duplicate"} THEN {owners}
    ELSE UNION {UNION {Owned(o, d, b.dst) : o \in Owned(owners, s, b.src), d \in resolve(r, b.dst)} :
                s \in resolve(r, b.src)}

-----------------------------------------------------------------------------
(* The bridge.                                                             *)

\* block_hash, of the name of the scenario, the place and the label of the block.
Label(b) == IF b.kind = "Corrupt" THEN <<"Corrupt", b.segment, b.from, b.to>> ELSE target_key(b)
block_hash(i) == <<scenario.name, i, Label(schedule[i])>>

SimFault(r, i, b) ==
    CASE b.kind = "Drop" -> {<<"Drop", block_hash(i)>>}
      [] b.kind = "Partition" -> {<<"Partition", s, d>> : s \in resolve(r, b.src), d \in resolve(r, b.dst)}
      [] b.kind = "CrashRestart" -> {<<"Crash", block_hash(i)>>}
      [] b.kind = "Corrupt" -> {<<"Corrupt", block_hash(i), b.from ^^ b.to>>}
      [] b.kind = "TornWrite" -> {<<"CrashState", block_hash(i), 2>>}
      [] b.kind \in {"ClockSkew", "BoundedLatency"} -> {<<"Delay", block_hash(i), b.ticks>>}
      [] b.kind = "Duplicate" -> {<<"Duplicate", block_hash(i)>>}

\* to_sim_injections, of one injection.
Converted(r, i) == SimFault(r, i, schedule[i])

-----------------------------------------------------------------------------
(* The syntax, as the library, the tests and the documentation write it.    *)

Link(b) == <<"link", b.src[1][2], b.dst[1][2]>>
Ticks(v) == <<"time", v, "us">>
Clause(kw, v) == IF v = 0 THEN <<>> ELSE <<Word(kw), Ticks(v)>>

Rendered(b) ==
    CASE b.kind = "Drop" ->
            <<Word("drop"), <<"percent", b.percent>>, Link(b)>> \o Clause("for", b.duration) \o Clause("every", b.period)
      [] b.kind = "CrashRestart" -> <<Word("crash-restart")>> \o b.actor \o <<Word("after")>> \o b.after
      [] b.kind = "Corrupt" ->
            <<Word("corrupt"), Word("sector"), Word("range"), <<"range", b.from, b.to>>, Word("of")>> \o b.segment
      [] b.kind = "TornWrite" -> <<Word("torn-write"), Word("on")>> \o b.flag
      [] b.kind = "Partition" -> <<Word("partition"), Link(b)>>
      [] b.kind = "Duplicate" -> <<Word("duplicate"), Link(b)>>
      [] b.kind = "ClockSkew" -> <<Word("clock-skew")>> \o b.actor \o <<Word("by"), Ticks(b.ticks)>>
      [] b.kind = "BoundedLatency" -> <<Word("delay"), Link(b), Word("by"), Ticks(b.ticks)>>

-----------------------------------------------------------------------------
(* compile_and_convert.                                                    *)

\* A scenario written for blocks, or a line that is no block.
SpecInit(Plans, Malformed) ==
    /\ \/ \E bs \in Plans, header \in {<<>>, <<<<Word("scenario"), Word("x")>>>>} :
            /\ meant = IF header \o bs = <<>> THEN {} ELSE {bs}
            /\ dsl = header \o [i \in DOMAIN bs |-> Rendered(bs[i])]
       \/ \E line \in Malformed : meant = {} /\ dsl = <<line>>
    /\ phase = "parse" /\ scenario = [name |-> <<>>, blocks |-> <<>>]
    /\ registry = <<>> /\ at = 0 /\ seen = {} /\ id_owners = <<>>
    /\ fault_entries = <<>> /\ schedule = <<>> /\ engine = <<>>

Refused == phase' = "refused" /\ UNCHANGED <<parseVars, compileVars, engine>>

Parse ==
    /\ phase = "parse"
    /\ IF parse_scenario(dsl) = {} THEN Refused
       ELSE /\ scenario' \in parse_scenario(dsl)
            /\ phase' = "storm"
            /\ UNCHANGED <<dsl, meant, compileVars, engine>>

CheckStorm ==
    /\ phase = "storm"
    /\ IF Storm(scenario.blocks) THEN Refused
       ELSE phase' = "register" /\ UNCHANGED <<parseVars, compileVars, engine>>

NamesOf(blocks) == FlattenSeq([i \in DOMAIN blocks |-> actor_names_for_block(blocks[i])])

Register ==
    /\ phase = "register"
    /\ IF scenario_registry(NamesOf(scenario.blocks)) = {} THEN Refused
       ELSE /\ registry' \in scenario_registry(NamesOf(scenario.blocks))
            /\ phase' = "compile"
            /\ UNCHANGED <<parseVars, at, seen, id_owners, fault_entries, schedule, engine>>

CompileBlock(b) ==
    IF \/ target_key(b) \in seen
       \/ compile_block(registry, b) = {}
       \/ check_partition_collision(registry, b, id_owners) = {}
    THEN Refused
    ELSE /\ seen' = seen \cup {target_key(b)}
         /\ \E f \in compile_block(registry, b) : fault_entries' = Append(fault_entries, f)
         /\ id_owners' \in check_partition_collision(registry, b, id_owners)
         /\ schedule' = Append(schedule, b)
         /\ at' = at + 1
         /\ UNCHANGED <<parseVars, registry, phase, engine>>

Compile == phase = "compile" /\ at < Len(scenario.blocks) /\ CompileBlock(scenario.blocks[at + 1])

Convert ==
    /\ phase = "compile" /\ at = Len(scenario.blocks)
    /\ \E again \in {scenario_registry(FlattenSeq([i \in DOMAIN schedule |-> actor_names_for_block(schedule[i])]))} :
        IF again = {} \/ \E i \in DOMAIN schedule, r \in again : Converted(r, i) = {} THEN Refused
        ELSE /\ \E r \in again : engine' = [i \in DOMAIN schedule |-> CHOOSE f \in Converted(r, i) : TRUE]
             /\ phase' = "done"
             /\ UNCHANGED <<parseVars, compileVars>>

SpecOver == phase \in {"done", "refused"} /\ UNCHANGED specVars

-----------------------------------------------------------------------------
SpecNext == Parse \/ CheckStorm \/ Register \/ Compile \/ Convert \/ SpecOver

-----------------------------------------------------------------------------
(* When a plan is sound, whatever the order of its blocks.                  *)

IdIn(name) ==
    IF numeric_suffix(name) # {} THEN CHOOSE n \in numeric_suffix(name) : TRUE ELSE opaque_actor_id(name)

Cuts(bs) == UNION {{b.src, b.dst} : b \in {x \in Range(bs) : x.kind \in {"Partition", "Duplicate"}}}
Opaque(bs) == {n \in Range(NamesOf(bs)) \cup DOMAIN with_known : numeric_suffix(n) = {}}
Apart(names, Id) == \A n, m \in names : n # m => Id[n] # Id[m]
Ids(names) == [n \in names |-> IdIn(n)]

Sound(bs) ==
    /\ ~Storm(bs)
    /\ \A i, j \in DOMAIN bs : i # j => target_key(bs[i]) # target_key(bs[j])
    /\ Apart(Opaque(bs), Ids(Opaque(bs))) /\ Apart(Cuts(bs), Ids(Cuts(bs)))
    /\ \A n \in Cuts(bs) : IdIn(n) <= MAX_REGISTRY_ACTOR_ID
    /\ \A b \in Range(bs) : b.kind = "ClockSkew" => b.ticks >= 0

\* A scenario in the documented syntax is read as it was meant, and compiled and
\* converted exactly when it is sound, whatever the order of its blocks: no storm,
\* no target twice, no two names that would silently become one actor, no skew
\* whose direction would be lost.  Each block then becomes one fault of the run,
\* in order, no two alike; the bridge gives a partition the ids that the compiler
\* gave it, a delay keeps its length, a corruption changes something.  A line that
\* is no block is refused.
PlansExact ==
    phase \in {"done", "refused"} =>
        /\ meant = {} => phase = "refused"
        /\ \A bs \in meant :
            /\ phase = "done" <=> Sound(bs)
            /\ phase = "done" =>
                /\ scenario.blocks = bs /\ Len(engine) = Len(bs) /\ Len(fault_entries) = Len(bs)
                /\ \A i, j \in DOMAIN bs : i # j => engine[i] # engine[j]
                /\ \A i \in DOMAIN bs :
                    /\ bs[i].kind = "Partition" => engine[i] = fault_entries[i][2]
                    /\ bs[i].kind \in {"ClockSkew", "BoundedLatency"} => engine[i][3] = bs[i].ticks
                    /\ bs[i].kind = "Corrupt" => engine[i][3] # 0
=============================================================================
