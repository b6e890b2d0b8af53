SPECIFICATION Spec
CONSTANTS
    TInt = 0
    TLong = 1
    TString = 3
    na = 1
    nb = 2
    nc = 3
    nd = 4
    Name = {1, 2, 3, 4}
    StartsOf <- ExactNames
    Type = {0, 1, 3}
    Free = Free
    Jammed = Jammed
    PidReuse = FALSE
    Overlap = FALSE
    AfterKill = FALSE
    Proc = {w1, w2}
    Base <- MixedBase
    Added <- AddOne
    Given <- GiveSome
    Modes = {"TYPE_WR", "NO_TYPE_WR", "HYB_WR"}
    MaxDef = 2
    MaxRecs = 2
    MaxFields = 4
SYMMETRY Symmetry
CHECK_DEADLOCK FALSE
INVARIANTS TypeOK TornIsOwned PartialIsStored RecordsFit
PROPERTY ImplementsDefinition
