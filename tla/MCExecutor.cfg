CONSTANTS
    Plain = 2
    Faulty = 2
    Reordered = 2
    Async = 2
    SeedLength = 3
    Runs <- MCRuns
    Drives <- MCDrives
SPECIFICATION MCSpec
INVARIANTS ReadyExact Accounted  ReplayFaithful PoliciesKept
PROPERTY Terminates
CHECK_DEADLOCK FALSE
