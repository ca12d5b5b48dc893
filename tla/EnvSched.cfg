CONSTANTS
    NENV = 3
    NULL = NULL
    HEAD = HEAD
    IdMod = 2
    Boot <- MCBoot
    Calls = {"fork", "kill"}
SPECIFICATION Spec
INVARIANTS
    TypeOK
    RunListExact
    SlotsConserved
    RunningOwnsTurn
    KernelSurvives
    BlockedIsWaiting
PROPERTIES
    NewAreNotReceiving
    FairScheduler
