CONSTANTS
    SealAt = 1
    KeepTail = 1
    FaultRelevant = {}
    Errors = {}
    MaxEntries = 1
    MaxBatch = 1
    Interval = 9
    Classes = {"Cold"}
    Calls = {}
SPECIFICATION JournalSpec
PROPERTY CrashRecovers
