\* Two owners, one lock, ttl arguments 0 (one second) and 2, three seconds.
CONSTANTS
    o1 = o1
    o2 = o2
    l1 = l1
    NoOwner = NoOwner
    Owners <- MCOwners
    LockKeys = {l1}
    TTLs = {0, 2}
    MaxTime = 3
SPECIFICATION Spec
SYMMETRY Symmetry
INVARIANT TypeOK
INVARIANT LockExclusive
CHECK_DEADLOCK FALSE
