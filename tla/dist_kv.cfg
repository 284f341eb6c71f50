\* Three nodes, three peer RPCs up to term 1, two Put or Delete calls of one
\* key from two goroutines, one context cancelled during a Put.
CONSTANTS
    n1 = n1
    n2 = n2
    n3 = n3
    c1 = c1
    c2 = c2
    NoNode = NoNode
    Empty = Empty
    Nodes <- MCNodes
    Clients <- MCClients
    k1 = k1
    v1 = v1
    Keys = {k1}
    Vals = {v1}
    MaxTerm = 1
    MaxRPCs = 3
    MaxPuts = 2
    MaxCancels = 1
    MaxLog = 1
SPECIFICATION Spec
SYMMETRY Symmetry
INVARIANT TypeOK
PROPERTY OneVotePerTerm
CHECK_DEADLOCK FALSE
