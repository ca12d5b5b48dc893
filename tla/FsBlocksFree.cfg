CONSTANTS
    root = root
    motd = motd
    big = big
    NBlocks = 11
    NDIRECT = 1
    NINDIRECT = 2
    BY2BLK = 2
    BIT2BLK = 32
    File <- MCFile
    Root = root
    FILE2BLK = 2
    Dir = {}
    Source <- MCSource
    Motd = motd
    Sizes = {1, 3}
    Pages = {0, 4}
SPECIFICATION Spec
PROPERTY DroppedIsFree
CHECK_DEADLOCK FALSE
