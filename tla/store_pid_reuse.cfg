SPECIFICATION Spec
CONSTANTS
    s1 = s1
    s2 = s2
    n1 = n1
    n2 = n2
    Proc = {w1, w2}
    Key = {s2, n1}
    StrKey = {s2}
    ZeroKey = ZeroKey
    EmptyKey = EmptyKey
    Buckets = {2}
    Bucket = 2
    MaxHtBucket = 2
    Hash <- ZeroBucket
    NoRec = NoRec
    Free = Free
    Jammed = Jammed
    Ops = {"add", "del"}
    NrIndexes = 2
    MaxIndexes = 1
    MaxRecs = 2
    PidReuse = TRUE
SYMMETRY Symmetry
CHECK_DEADLOCK FALSE
INVARIANTS IndexInv
