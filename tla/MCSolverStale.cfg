SPECIFICATION ExplorerSpec
CONSTANTS
 Parts = {"solver"}
 MAX_HITTING_SET_CANDIDATES = 2
 MAXSAT_BNB_MAX_NODES = 99
 MAXSAT_BNB_MAX_COST_UNITS = 999
 CutKinds = {"Send", "FsWrite", "Outcome"}
 CutActors = {1, 2}
 MaxEntries = 4
 Graphs <- MCGraphs
 Configs <- MCConfigs
 SolverCadical = FALSE
 CADICAL_CUTOFF_HARD_CLAUSES = 99
 MaxCalls = 3
 MaxStored = 0
 CertJournals <- MCCertJournals
 CertHorizons <- MCCertHorizons
 CertCaps = {1, 9}
 CertRuns = {0, 1, 4}
 CertCosts = {2, 4, 6}
 MAX_EVENT_COST = 5
 CERT_MAX_HASHES = 8
 MAX_CUT_MEMBERS = 9
 MAX_RECORDED_HORIZON = 3
 MAX_RESOLVED_DEPENDENCIES = 9
 MAX_INCLUSION_PATHS = 99
 Lineages <- MCLineages
 DecisionCounts = {0, 3}
 InputCounts = {2}
 CANDIDATE_REPLAY_BATCH = 2
 FeedbackJournals <- MCFeedbackJournals
 FeedbackCuts <- MCFeedbackCuts
 MaxAttempts = 8
 CampaignRoots = {1, 2}
 CampaignOutcomes = {"Completed", "Blocked", "MonitorHalt"}
 CampaignArms = {1, 2}
 CampaignAttempts = {3}
 CampaignKinds = {"plain", "monitored", "swarm", "quad", "bandit", "input", "joint"}
 MaxCampaigns = 2
 OracleKinds = {"Outcome", "Assert", "Send"}
 OracleActors = {1, 2}
 OracleValues = {0, 1}
 OracleKeys = {"k"}
 OracleLength = 4
 StepEntries = 2
 LinBound = 3
 MaxGap = 3
INVARIANT AnswersAreMinimalCuts
CHECK_DEADLOCK FALSE
