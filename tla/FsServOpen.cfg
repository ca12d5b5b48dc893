CONSTANTS
    ca = ca
    cb = cb
    f1 = f1
    f2 = f2
    None = None
    Client <- MCClient
    File <- MCFile
    DiskSize <- MCLarge
    MaxSize = 2
    Sizes = {0, 2}
    MAXOPEN = 2
    MAXFD = 2
    IdMod = 2
    Calls <- MCRemove
    Failures = {}
SPECIFICATION Spec
INVARIANT SurvivesErrors
CHECK_DEADLOCK FALSE
