CONSTANTS
    MAX_LINE_BYTES = 6
    MAX_CHUNK_SIZE = 32
    MAX_SIZE_DIGITS = 2
    MAX_EXTENSIONS = 2
    MAX_EXTENSION_NAME = 2
    SECTION_LIMIT = 8
    FIELD_LIMIT = 2
    NAME_LIMIT = 2
    MAX_HEAD_BYTES = 6
    SCRATCH_BYTES = 7
    CHUNK_LINE_LIMIT = 7
    MAX_BODY_BYTES = 3
    Messages <- MCMessages
SPECIFICATION Spec
INVARIANTS
    TakesOneMessage
    ChargedOrCopiedAhead
