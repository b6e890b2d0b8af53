SPECIFICATION FairSpec
CONSTANTS
    p1 = p1
    p2 = p2
    p3 = p3
    Proc = {p1, p2, p3}
    Inode = {i1, i2, i3, i4}
    NoPid = NoPid
    NoFile = NoFile
    Digits <- MixedWidth
    PidReuse = FALSE

CHECK_DEADLOCK FALSE
INVARIANTS TypeOK 
PROPERTY EndsUnlessStuck
