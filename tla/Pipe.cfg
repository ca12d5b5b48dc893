CONSTANTS
    Env = {a, b}
    First = a
    Page = {p1, p2, p3}
    MAXFD = 3
    None = None
SPECIFICATION Spec
SYMMETRY MCSymmetry
INVARIANTS
    DescriptorsWhole
    
CHECK_DEADLOCK FALSE
