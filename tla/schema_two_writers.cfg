SPECIFICATION Spec
CONSTANTS
    TInt = 0
    TLong = 1
    TString = 3
    na = 1
    nb = 2
    nc = 3
    nd = 4
    Name = {1, 2, 3, 4}
    StartsOf <- ExactNames
    Type = {1}
    Free = Free
    Jammed = Jammed
    PidReuse = TRUE
    Overlap = TRUE
    AfterKill = FALSE
    Proc = {w1, w2}
    Base <- OneBase
    Added <- AddEither
    Given = {}
    Modes = {"TYPE_WR"}
    MaxDef = 2
    MaxRecs = 1
    MaxFields = 4
SYMMETRY Symmetry
CHECK_DEADLOCK FALSE
INVARIANT HeaderOfWriter
