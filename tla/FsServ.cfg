CONSTANTS
    ca = ca
    cb = cb
    f1 = f1
    f2 = f2
    None = None
    Client <- MCClient
    File <- MCFile
    DiskSize <- MCSmall
    MaxSize = 1
    Sizes = {0, 1}
    MAXOPEN = 3
    MAXFD = 2
    IdMod = 1
    Calls <- MCShare
    Failures = {"dup"}
SPECIFICATION Spec
INVARIANTS
    DescriptorsSound
    RequestsReachFile
    EntriesSuffice
PROPERTY ServesCalls
