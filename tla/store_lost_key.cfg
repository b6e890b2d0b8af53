SPECIFICATION Spec
CONSTANTS
    s1 = s1
    s2 = s2
    n1 = n1
    n2 = n2
    Proc = {w1, w2}
    Key = {s1, n1, n2}
    StrKey = {s1}
    ZeroKey = ZeroKey
    EmptyKey = EmptyKey
    Buckets = {2}
    Bucket = 2
    MaxHtBucket = 2
    Hash <- OneBucket
    NoRec = NoRec
    Free = Free
    Jammed = Jammed
    Ops = {"add"}
    NrIndexes = 1
    MaxIndexes = 1
    MaxRecs = 4
    PidReuse = FALSE
SYMMETRY Symmetry
CHECK_DEADLOCK FALSE
INVARIANT KeyIsNotReused
