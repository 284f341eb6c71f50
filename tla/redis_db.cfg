\* Two connections' worth of commands on two keys, the ActiveExpire ticker
\* sampling one entry per run (fewer than the keys present, as 20 is of a
\* large keyspace), and the clock moving through two seconds.
CONSTANTS
    k1 = k1
    k2 = k2
    v1 = v1
    v2 = v2
    m1 = m1
    f1 = f1
    Nil = Nil
    Keys <- MCKeys
    Vals <- MCVals
    Members = {m1}
    Fields = {f1}
    Scores = {1, 2}
    SetTTLs = {0, 1}
    ExpireTTLs <- MCExpireTTLs
    SampleLimit = 1
    MaxTime = 2
    MaxLen = 2
SPECIFICATION Spec
INVARIANTS
    TypeOK
    AckedWriteVisible
PROPERTIES
    LiveKeyRemovedOnlyByDel
    ExpiredEventuallyReclaimed
