\* Acknowledged commits stay logged and LSNs keep increasing across a crash and
\* the program's restart, over two sessions, two tables and bufio spills.
CONSTANTS
    s1 = s1
    s2 = s2
    k1 = k1
    k2 = k2
    v1 = v1
    v2 = v2
    Sessions <- MCSessions
    Keys <- MCKeys
    Values <- MCValues
    Tables = {kv, t2}
    KvTable = kv
    NoValue = NoValue
    NoSession = NoSession
    NoTx = NoTx
    MaxTxns = 2
    MaxWrites = 1
    MaxCrashes = 1
    MaxTimeouts = 0
SPECIFICATION Spec
SYMMETRY Symmetry
VIEW View
INVARIANT TypeOK
INVARIANT LSNsIncrease
INVARIANT CommitsLogged
