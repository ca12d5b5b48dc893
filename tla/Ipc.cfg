CONSTANTS
    NENV = 3
    IdMod = 1
    Boot = 2
    NULL = NULL
    None = None
    Value = {1}
    Page = {p}
    Peers = {1}
    Calls = {"fork","exit","yield","mem","frame"}
SPECIFICATION Spec
INVARIANTS TypeOK FramesSeparate ForkSound
PROPERTY ContextsKept
