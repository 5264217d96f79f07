------------------------------ MODULE MCSimFs -------------------------------
(***************************************************************************)
(* Storage and its faults, in three parts: SimFs under any sequence of      *)
(* calls; SimFs under the scalar calls of simulated tasks, with their       *)
(* faults and their journal; and fault scenarios, from text to faults.      *)
(* Paths are interchangeable, and so are tasks.                             *)
(***************************************************************************)
EXTENDS StorageEffects, FaultSpec

VARIABLE part

Symmetry == Permutations(Paths) \cup Permutations(Tasks)

-----------------------------------------------------------------------------
(* Sample scenarios.  The hashes of Aa and BB are equal, so are those of     *)
(* rlc and leader, and the number of n-2113 is the hash of Aa.               *)

N(w) == <<Word(w)>>
Spellings ==
    ("leader" :> <<108, 101, 97, 100, 101, 114>>) @@ ("replica" :> <<114, 101, 112, 108, 105, 99, 97>>)
    @@ ("Aa" :> <<65, 97>>) @@ ("BB" :> <<66, 66>>) @@ ("rlc" :> <<114, 108, 99>>)
    @@ ("n-1" :> <<110, 45, 49>>) @@ ("m:1" :> <<109, 58, 49>>) @@ ("n-2113" :> <<110, 45, 50, 49, 49, 51>>)
    @@ ("n-1048577" :> <<110, 45, 49, 48, 52, 56, 53, 55, 55>>) @@ ("n-x:7" :> <<110, 45, 120, 58, 55>>)
    @@ ("disks" :> <<100, 105, 115, 107, 115>>)
    @@ ("FsFsync" :> <<70, 115, 70, 115, 121, 110, 99>>) @@ ("x" :> <<120>>) @@ ("after" :> <<97, 102, 116, 101, 114>>)
    @@ ("long" :> <<97, 97, 97, 97, 97, 97, 97, 97, 97, 97, 97>>) @@ ("" :> <<>>)

BlockOf(kind, s, d) == [kind |-> kind, src |-> N(s), dst |-> N(d)]
DropOf(p, s, d, f, e) == [kind |-> "Drop", percent |-> p, src |-> N(s), dst |-> N(d), duration |-> f, period |-> e]
LatencyOf(s, d, t) == [kind |-> "BoundedLatency", src |-> N(s), dst |-> N(d), ticks |-> t]
CrashOf(a, f) == [kind |-> "CrashRestart", actor |-> a, after |-> f]
CorruptOf(lo, hi, s) == [kind |-> "Corrupt", from |-> lo, to |-> hi, segment |-> N(s)]
SkewOf(a, t) == [kind |-> "ClockSkew", actor |-> N(a), ticks |-> t]

LinkEnds == {<<"leader", "replica">>, <<"Aa", "BB">>, <<"Aa", "leader">>, <<"BB", "leader">>, <<"rlc", "Aa">>,
         <<"n-1", "m:1">>, <<"n-1", "Aa">>, <<"m:1", "Aa">>, <<"n-2113", "Aa">>, <<"n-2113", "replica">>,
         <<"Aa", "Aa">>, <<"n-1048577", "Aa">>, <<"n-x:7", "Aa">>, <<"replica", "leader">>}
Pool == {BlockOf(k, e[1], e[2]) : k \in {"Partition", "Duplicate"}, e \in LinkEnds}
        \cup {DropOf(30, "leader", "replica", 0, 0), DropOf(100, "Aa", "BB", 5, 7), DropOf(0, "n-1048577", "m:1", 0, 7),
              LatencyOf("leader", "replica", 9), LatencyOf("rlc", "disks", 0),
              CrashOf(N("Aa"), N("FsFsync")), CrashOf(N("Aa") \o N("leader"), N("x")), CrashOf(N("leader"), N("FsFsync")),
              CorruptOf(2, 5, "disks"), CorruptOf(0, 1, "Aa"),
              [kind |-> "TornWrite", flag |-> N("x")], SkewOf("Aa", 4), SkewOf("BB", -4)}
Few == {BlockOf("Partition", "Aa", "leader"), BlockOf("Duplicate", "n-1", "replica"), BlockOf("Partition", "m:1", "replica"),
        DropOf(30, "Aa", "x", 0, 0), LatencyOf("leader", "replica", 9), CrashOf(N("BB"), N("FsFsync")), SkewOf("Aa", 4)}
Tiny == {BlockOf("Partition", "Aa", "leader"), CrashOf(N("n-1"), N("x")), SkewOf("m:1", 4), CorruptOf(2, 5, "disks"),
         [kind |-> "TornWrite", flag |-> N("x")]}
Plans == [1..1 -> Pool] \cup [1..2 -> Pool] \cup [1..3 -> Few] \cup [1..4 -> Tiny] \cup {<<>>}

L(s, d) == <<"link", s, d>>
Malformed == {<<Word("scenario")>>, <<Word("drop")>>, <<Word("drop"), L("Aa", "BB")>>, <<Word("drop"), <<"percent", 101>>, L("Aa", "BB")>>,
    <<Word("drop"), <<"percent", 256>>, L("Aa", "BB")>>, <<Word("drop"), <<"percent", 5>>, L("Aa", "")>>,
    <<Word("drop"), <<"percent", 5>>, L("Aa", "BB"), Word("for"), Word("x")>>, <<Word("drop"), <<"percent", 5>>, L("long", "BB")>>,
    <<Word("corrupt"), <<"range", 5, 5>>, Word("of"), Word("x")>>, <<Word("corrupt"), <<"range", 2, 5>>, Word("of")>>,
    <<Word("torn-write")>>, <<Word("crash-restart"), Word("long"), Word("after"), Word("x")>>,
    <<Word("clock-skew"), Word("Aa"), Word("by"), <<"time", 2001, "s">>>>, <<Word("clock-skew"), Word("Aa"), Word("by"), <<"time", 1500, "s">>>>,
    <<Word("clock-skew"), Word("Aa")>>, <<Word("delay"), L("Aa", "BB"), Word("by"), <<"time", -1, "ms">>>>,
    <<Word("delay"), L("Aa", "disks")>>, <<Word("delay"), Word("Aa"), <<"time", 4, "ms">>>>, <<Word("x"), L("Aa", "BB")>>}


-----------------------------------------------------------------------------
SimFsInit ==
    /\ EffectsInit
    /\ \/ part \in {"fs", "effects"} /\ SpecInit({}, {<<>>})
       \/ part = "scenario" /\ SpecInit(Plans, Malformed)

SimFsNext ==
    /\ \/ part = "fs" /\ FsNext /\ UNCHANGED <<effectVars, specVars>>
       \/ part = "effects" /\ EffectsNext /\ UNCHANGED specVars
       \/ part = "scenario" /\ SpecNext /\ UNCHANGED <<fsVars, effectVars>>
    /\ UNCHANGED part

\* In a run of simulated tasks that has no error the journal alone determines
\* storage, and faults are journaled exactly when they take effect: StorageRetold.
JournalTellsStorage == part = "effects" => StorageRetold

\* Journal, monitor and storage agree on every run of simulated tasks: the monitor is
\* exact, and the journal retells what storage holds.
EffectsAudited == MonitorExact /\ JournalTellsStorage

SimFsSpec == SimFsInit /\ [][SimFsNext]_<<fsVars, effectVars, specVars, part>>
=============================================================================
