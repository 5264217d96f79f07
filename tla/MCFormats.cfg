CONSTANTS
    Alphabet = {0, 1, 2, 24, 25, 32, 46, 64, 65, 97, 129, 130, 131, 160, 161, 162, 192, 195, 244, 246, 248, 249, 255}
    Marks = {0, 1, 2, 24, 65, 97, 129, 130, 246, 255}
    MAX_LEN = 3
    MAX_DEPTH = 3
    MAX_CANONICAL_VALUE_DEPTH = 4
    MAX_CANONICAL_VALUE_ITEMS = 8
    MAX_CANONICAL_VALUE_STRING_BYTES = 2
    DIGEST_LEN = 2
    MAX_ENTRY_BYTES = 60
    MAX_PARENTS_PER_ENTRY = 1
    MAX_VECTOR_CLOCK_ACTORS = 2
    MAX_CANONICAL_PATH_BYTES = 3
    MAX_FRAME_BYTES = 24
    MAX_PATH_BYTES = 2
    MAX_PAYLOAD_BYTES = 2
    MAX_RANDOM_COUNT <- RandomCount
    MAX_ACTOR <- ActorMax
    MAX_IDENTITY_FIELD_BYTES = 2
    MAX_IDENTITY_INPUT_DIGESTS = 2
    MAX_HEADER_BYTES = 60
    U32_MAX = 5
    U64_MAX = 9
    MAX_DNS_NAME_LEN = 3
    MAX_REORDER_WINDOW = 2
INIT Init
NEXT Next
CHECK_DEADLOCK FALSE
INVARIANTS
    
    AcceptedIsStable
