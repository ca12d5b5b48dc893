CONSTANTS
    Page = {p1, p2, p3, p4, p5, p6, p7}
    Env = {e1, e2}
    NULL = NULL
    Va = {1, 2, 3, 4}
    NPTE = 2
    UTop = 4
    Stack = 3
    Text = {2}
    RefMod = 65536
    CapRefs = TRUE
SYMMETRY Symmetry
SPECIFICATION Spec
CHECK_DEADLOCK FALSE
INVARIANTS
    TypeOK
    RefCovers
    FreeUnreferenced
    TablesExclusive
PROPERTIES
    NothingElseLeaks
    ImplementsPageStore
