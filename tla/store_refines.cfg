SPECIFICATION Spec
CONSTANTS
    s1 = s1
    s2 = s2
    n1 = n1
    n2 = n2
    Proc = {w1, w2}
    Key = {s1, s2}
    StrKey = {s1, s2}
    ZeroKey = ZeroKey
    EmptyKey = EmptyKey
    Buckets = {2}
    Bucket = 2
    MaxHtBucket = 2
    Hash <- OneBucket
    NoRec = NoRec
    Free = Free
    Jammed = Jammed
    Ops = {"add", "del", "delall", "addindex"}
    NrIndexes = 1
    MaxIndexes = 2
    MaxRecs = 2
    PidReuse = FALSE
CHECK_DEADLOCK FALSE
INVARIANTS TypeOK TornIsOwned
PROPERTY ImplementsKeyStore
