------------------------------ MODULE Campaigns ------------------------------
(***************************************************************************)
(* The campaigns of crates/ledger-explorer/src/search that make a given    *)
(* number of attempts: run_campaign, run_monitored_campaign,               *)
(* run_swarm_campaign, run_campaign_quad, run_bandit_campaign, the joint   *)
(* campaign and the input-axis search, with the campaign memo (memo.rs).   *)
(*                                                                         *)
(* A run is determined by its configuration; what it does is chosen when   *)
(* the configuration is first executed, and then kept.  The draws that a   *)
(* seed tree makes for an attempt are a function of the attempt, chosen at *)
(* the start.                                                              *)
(***************************************************************************)
EXTENDS Integers, Sequences, FiniteSets, SequencesExt, FiniteSetsExt

CONSTANTS
    CampaignRoots,      \* journal roots
    CampaignOutcomes,   \* of RunOutcome: "Completed", "Blocked", "MonitorHalt"
    CampaignArms,       \* variants [policy, swarm, faults], as numbers: their hash order
    CampaignAttempts,   \* attempts of a campaign
    CampaignKinds,      \* the campaigns that are run
    MaxCampaigns

VARIABLES
    world,          \* what the runs executed so far did
    draws,          \* the variant and the inputs drawn for an attempt
    campaign,       \* the campaign in progress
    shared_memo,    \* CampaignPersist.memo
    campaigns       \* how many campaigns were started

campaign_vars == <<world, draws, campaign, shared_memo, campaigns>>

Results == [root : CampaignRoots, outcome : CampaignOutcomes, violated : BOOLEAN, monitored : BOOLEAN]

\* A run that a monitor stopped is one the monitors object to.
IsResult(r, kind) == /\ r.outcome = "MonitorHalt" => kind = "monitored"
                     /\ r.monitored <=> (kind = "monitored" /\ r.outcome = "MonitorHalt")

\* The base configuration: seed <<"base">>, variant 0 and no inputs.
Config(seed, variant, inputs, decisions) ==
    [seed |-> seed, variant |-> variant, inputs |-> inputs, decisions |-> decisions]

-----------------------------------------------------------------------------
(* Helpers of the campaigns.                                               *)

\* As it would be if the seed of the attempt were left out.
memo_key_seedless(config) == [variant |-> config.variant, inputs |-> config.inputs, decisions |-> config.decisions]
\* Policy, swarm and faults; inputs; replayed decisions; seed.
memo_key(config) ==
    [variant |-> config.variant, inputs |-> config.inputs, decisions |-> config.decisions, seed |-> config.seed]

\* A run that did not complete is a finding.
effective_verdict(result) == result.outcome # "Completed" \/ result.violated
merge_monitor_verdict(result) == effective_verdict(result) \/ result.monitored

arm(pulls) ==
    LET untried == {a \in CampaignArms : pulls[a] = 0}
    IN  IF untried # {} THEN {Min(untried)} ELSE CampaignArms

-----------------------------------------------------------------------------

Fresh(kind, n) ==
    [kind |-> kind, attempts |-> n, attempt |-> 0, search_runs |-> 0, phase |-> IF kind = "joint" THEN "search" ELSE "attempt",
     configs |-> <<>>, roots |-> {}, findings |-> <<>>, memo |-> <<>>, memo_hits |-> 0,
     pulls |-> [a \in CampaignArms |-> 0], decisions |-> 0]

CampaignInit ==
    /\ world = <<>>
    /\ draws \in [0 .. Max(CampaignAttempts) - 1 -> CampaignArms]
    /\ \E kind \in CampaignKinds, n \in CampaignAttempts : campaign = Fresh(kind, n)
    /\ shared_memo = <<>>
    /\ campaigns = 1

\* Only the joint campaign keeps state, its memo, for the next one.
NextCampaign ==
    /\ campaign.kind = "joint" /\ campaign.phase = "done" /\ campaigns < MaxCampaigns
    /\ campaigns' = campaigns + 1
    /\ shared_memo' = campaign.memo
    /\ \E n \in CampaignAttempts : campaign' = [Fresh("joint", n) EXCEPT !.memo = shared_memo']
    /\ UNCHANGED <<world, draws>>

Finish ==
    /\ campaign.phase # "done" /\ campaign.attempt = campaign.attempts
    /\ campaign' = [campaign EXCEPT !.phase = "done"]
    /\ UNCHANGED <<world, draws, shared_memo, campaigns>>

Running(kind) == campaign.phase = "attempt" /\ campaign.kind = kind /\ campaign.attempt < campaign.attempts

\* Executing a configuration gives the result it gave before.
Executes(config, result) ==
    /\ IsResult(result, campaign.kind)
    /\ config \in DOMAIN world => result = world[config]
    /\ world' = [c \in DOMAIN world \cup {config} |-> IF c = config THEN result ELSE world[c]]

Finding(seed, config) == [seed |-> seed, config |-> config]

\* Record an executed attempt.
Recorded(config, result, violated, seed) ==
    [campaign EXCEPT
        !.attempt = @ + 1,
        !.configs = Append(@, config),
        !.roots = @ \cup {result.root},
        !.findings = IF violated THEN Append(@, Finding(seed, config)) ELSE @]
Memoized(c, config, result) ==
    [c EXCEPT !.memo = [k \in DOMAIN @ \cup {memo_key(config)} |-> IF k = memo_key(config) THEN result.root ELSE @[k]]]

\* A memo hit reuses the root and reports nothing.
Hit(config) ==
    [campaign EXCEPT !.attempt = @ + 1, !.configs = Append(@, config),
                     !.roots = @ \cup {campaign.memo[memo_key(config)]}]

AttemptSeed == <<"attempt", campaign.attempt>>

\* run_campaign, run_monitored_campaign and run_swarm_campaign; the swarm
\* campaign draws its variant and takes the oracle's word.
PlainAttempt ==
    \E kind \in {"plain", "monitored", "swarm"} :
        /\ Running(kind)
        /\ \E result \in Results :
             LET config == Config(AttemptSeed, IF kind = "swarm" THEN draws[campaign.attempt] ELSE 0, 0, 0)
                 violated == IF kind = "monitored" THEN merge_monitor_verdict(result)
                             ELSE IF kind = "plain" THEN effective_verdict(result) ELSE result.violated
             IN  /\ Executes(config, result)
                 /\ campaign' = Recorded(config, result, violated, AttemptSeed)
        /\ UNCHANGED <<draws, shared_memo, campaigns>>

\* run_campaign_quad: drawn variant and inputs, memo, the oracle's word.
QuadAttempt ==
    /\ Running("quad")
    /\ LET config == Config(AttemptSeed, draws[campaign.attempt], campaign.attempt + 1, 0)
       IN  IF memo_key(config) \in DOMAIN campaign.memo
           THEN campaign' = Hit(config) /\ UNCHANGED world
           ELSE \E result \in Results :
                   /\ Executes(config, result)
                   /\ campaign' = Memoized(Recorded(config, result, result.violated, AttemptSeed), config, result)
    /\ UNCHANGED <<draws, shared_memo, campaigns>>

\* run_bandit_campaign: the arm decides the variant and is paid for a finding.
BanditAttempt ==
    /\ Running("bandit")
    /\ \E a \in arm(campaign.pulls) :
         LET config == Config(AttemptSeed, a, 0, 0)
             pulled(c) == [c EXCEPT !.pulls[a] = @ + 1]
         IN  IF memo_key(config) \in DOMAIN campaign.memo
             THEN campaign' = pulled(Hit(config)) /\ UNCHANGED world
             ELSE \E result \in Results :
                     /\ Executes(config, result)
                     /\ campaign' = pulled(Memoized(Recorded(config, result, effective_verdict(result), AttemptSeed), config, result))
    /\ UNCHANGED <<draws, shared_memo, campaigns>>

\* search_input_energy runs the base seed on drawn inputs, stops at the first
\* finding, and gives it the seed the inputs were drawn from.
InputAttempt ==
    /\ Running("input")
    /\ \E result \in Results :
         LET config == Config(<<"base">>, 0, campaign.attempt + 1, 0)
             next == Recorded(config, result, effective_verdict(result), <<"input-axis", campaign.attempt>>)
         IN  /\ Executes(config, result)
             /\ campaign' = IF next.findings = <<>> THEN next ELSE [next EXCEPT !.phase = "done"]
    /\ UNCHANGED <<draws, shared_memo, campaigns>>

\* find_first_violation: only the root of the finding is counted.
JointSearch ==
    /\ campaign.kind = "joint" /\ campaign.phase = "search" /\ campaign.attempt < campaign.attempts
    /\ \E result \in Results :
         LET config == Config(AttemptSeed, 0, 0, 0)
             next == Recorded(config, result, effective_verdict(result), AttemptSeed)
         IN  /\ Executes(config, result)
             /\ campaign' = IF effective_verdict(result)
                            THEN [next EXCEPT !.phase = "attempt", !.search_runs = next.attempt, !.decisions = next.attempt]
                            ELSE [next EXCEPT !.roots = campaign.roots, !.search_runs = next.attempt]
    /\ UNCHANGED <<draws, shared_memo, campaigns>>

\* The decisions of the finding, two of them swapped, on fresh inputs and seed.
JointAttempt ==
    /\ Running("joint")
    /\ LET offset == campaign.attempt - campaign.search_runs
           config == Config(<<"joint-input", offset>>, campaign.decisions, offset + 1, campaign.decisions)
       IN  IF memo_key(config) \in DOMAIN campaign.memo
           THEN campaign' = [Hit(config) EXCEPT !.memo_hits = @ + 1] /\ UNCHANGED world
           ELSE \E result \in Results :
                   /\ Executes(config, result)
                   /\ campaign' = Memoized(Recorded(config, result, effective_verdict(result), config.seed), config, result)
    /\ UNCHANGED <<draws, shared_memo, campaigns>>

CampaignNext ==
    NextCampaign \/ Finish \/ PlainAttempt \/ QuadAttempt \/ BanditAttempt \/ InputAttempt \/ JointSearch \/ JointAttempt

CampaignSpec == CampaignInit /\ [][CampaignNext]_campaign_vars

-----------------------------------------------------------------------------
(* Properties.                                                             *)

Attempted == ToSet(campaign.configs)

\* A memo hit stands for a run that was executed with this very configuration,
\* so that every root a campaign counts is the root of one of its attempts,
\* across campaigns that share a memo (memo_key, CampaignPersist).
MemoHitsAreRuns ==
    /\ Attempted \subseteq DOMAIN world
    /\ campaign.roots \subseteq {world[c].root : c \in Attempted}

\* Within a campaign that asks for the effective verdict, every run it executed
\* that did not complete or that the oracle rejects is reported, and nothing else.
FindingsAreComplete ==
    campaign.kind \in {"plain", "monitored", "bandit"} =>
        {f.config : f \in ToSet(campaign.findings)} =
            {c \in Attempted : world[c].outcome # "Completed" \/ world[c].violated \/ world[c].monitored}

\* No arm of the bandit is pulled twice before every arm was pulled once.
BanditTriesEveryArm ==
    (\E a \in CampaignArms : campaign.pulls[a] > 1) => \A a \in CampaignArms : campaign.pulls[a] > 0

=============================================================================
