CONSTANTS
    s1 = s1
    s2 = s2
    k1 = k1
    k2 = k2
    v1 = v1
    v2 = v2
    Sessions <- OneSession
    Keys <- MCKeys
    Values <- MCValues
    Tables = {kv}
    KvTable = kv
    NoValue = NoValue
    NoSession = NoSession
    NoTx = NoTx
    MaxTxns = 1
    MaxWrites = 1
    MaxCrashes = 0
    MaxTimeouts = 1
SPECIFICATION Spec
INVARIANT AbortedInvisible
