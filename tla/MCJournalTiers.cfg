CONSTANTS
    SealAt = 2
    KeepTail = 1
    FaultRelevant = {3}
    Errors = {"snapshot", "seal"}
    MaxEntries = 3
    MaxBatch = 2
    Interval = 2
    Classes = {"Warm"}
    Calls = {"reject", "write_manifest", "fork", "force_seal"}
SPECIFICATION JournalSpec
INVARIANT MemoryIsStore
PROPERTIES NonDestructive  Reopens
