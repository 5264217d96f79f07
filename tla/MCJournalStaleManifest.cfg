CONSTANTS
    SealAt = 1
    KeepTail = 1
    FaultRelevant = {}
    Errors = {}
    MaxEntries = 2
    MaxBatch = 1
    Interval = 9
    Classes = {}
    Calls = {"write_manifest"}
SPECIFICATION JournalSpec
PROPERTY SealedRetrievable
