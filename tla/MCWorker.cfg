SPECIFICATION MCSpec
CONSTANTS
    good = good
    fine = fine
    bad = bad
    broken = broken
    Tasks = {good, fine, bad, broken}
    Lines <- MCLines
    Simulated <- MCSimulated
    Unencodable = {}
    Workloads = {"kv"}
    BuildComplete = TRUE
    NoDigest = NoDigest
    Malformed = Malformed
    MaxAttempts = 2
    LeaseTimeout = 1
    Horizon = 3
    None = None
    MaxConcurrent = 2
    Heartbeat = 1
    t1 = t1
    t2 = t2
    Ids = {t1, t2}
    Dispatches <- MCDispatches
    Capacity = 1
    MaxMessages = 4
    MaxBeats = 1
    NoTask = NoTask
CHECK_DEADLOCK FALSE
INVARIANTS
    OneSlot
    OwnedLeases
    AnsweredOnce
PROPERTIES
    ImplementsLifecycle
    Drained
    EventuallyIdle
