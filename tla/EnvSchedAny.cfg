CONSTANTS
    NENV = 2
    NULL = NULL
    HEAD = HEAD
    IdMod = 2
    Boot <- MCBoot
    Calls = {"fork", "alloc", "kill", "orphan", "status", "nomem"}
SPECIFICATION Spec
INVARIANTS
    FreeListSound
PROPERTIES
    ListBreaksOnlyHere
CHECK_DEADLOCK FALSE
