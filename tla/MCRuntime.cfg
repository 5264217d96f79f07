SPECIFICATION RuntimeSpec
CONSTANTS
    a = a
    b = b
    None = None
    Clients = {a, b}
    Wants <- MCWants
    MAX_CALLS <- MCCalls
    MAX_SEQ = 3
    MAX_FRAME = 1
    MAX_COUNT = 1
    MAX_ACTOR = 0
    Nothing = Nothing
    Requests <- MCRequests
    MAX_RUNS = 3
    RETRIES = 2
    MAX_ATTEMPTS = 2
    SOCKET_DIR_ATTEMPTS = 3
    MAX_INBOUND_ATTEMPTS = 4
    STEPS_NEEDED = 2
    CAPTURE = 2
    t1 = t1
    t2 = t2
    t3 = t3
    Tasks = {t1, t2, t3}
    actor_of <- MCActors
    Links <- MCLinks
    MAX_SENDS = 1
    Builds = {"tokio", "sim", "ipc"}
    MAX_RUN_CALLS = 1
    NoRun = NoRun
    Plans <- MCPlans
    MaxFailures = 3
    MaxEffects = 2
CHECK_DEADLOCK FALSE
INVARIANTS
    HistoriesAgree
    NothingLeftBehind
    NoLostWakeup
    RecoveryAgrees
PROPERTIES
    AnswersMatch
    EveryCallReturns
    EffectsInOrder
    Completes
