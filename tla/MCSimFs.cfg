CONSTANTS
    Paths = {a, b}
    Unsaved = Unsaved
    max_file_extent = 3
    max_resident_bytes = 390
    RANGE_OVERHEAD = 64
    PATH_OVERHEAD = 128
    SCALAR = 2
    MaxWrites = 3
    MaxFaults = 1
    Tasks = {t, u}
    fault_classes_per_run = 1
    MaxEffects = 4
    MaxScalars = 2
    MaxSends = 1
    Spelling <- Spellings
    MAX_NAME_LEN = 10
    MAX_REGISTRY_ACTOR_ID = 1048576
    U64_MAX = 2000000000
    I64_MAX = 1000000000
    MAX_BLOCKS = 3
    MAX_PER_ACTOR = 2
SPECIFICATION SimFsSpec
INVARIANT ReadsExplained
INVARIANT EffectsAudited
INVARIANT PlansExact
 
SYMMETRY Symmetry
