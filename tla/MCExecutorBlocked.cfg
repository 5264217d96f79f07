CONSTANTS
    Plain = 2
    Faulty = 0
    Reordered = 0
    Async = 1
    SeedLength = 1
    Runs <- MCRuns
    Drives <- MCDrives
SPECIFICATION MCSpec
INVARIANT BlockedMeansNoProgress
CHECK_DEADLOCK FALSE
