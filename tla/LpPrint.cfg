CONSTANTS
    Char <- MCChar
    Calls <- MCCalls
    WORD = 5
    LP_MAX_BUF = 10
    CHUNK = 13
    Fatal <- MCFatal
SPECIFICATION Spec
INVARIANTS
    PrintsItems
CHECK_DEADLOCK FALSE
