SPECIFICATION StorageSpec
CONSTANTS
    Actors = {a1, a2}
    Views = {v1, v2}
    Payloads = {p}
    MaxParents = 2
    Threshold = 2
    MaxSeq = 2
    SealAt = 1
    KeepTail = 1
    FaultRelevant = {}
    Errors = {"ensure_wal", "write_wal", "seal", "remove_wal", "retain", "promote", "commit", "remove", "snapshot"}
    MaxEntries = 3
    MaxBatch = 1
    Interval = 2
    Classes = {"Warm", "Hot"}
    Calls = {"reject"}
INVARIANTS ClocksTellCausality SealedOnDisk
PROPERTY ForksIsolated
SYMMETRY Symmetry
