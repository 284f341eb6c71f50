\* One goroutine: FetchPage, NewPage, UnpinPage, FlushPage and eviction
\* through a pool of two frames over three page ids.
CONSTANTS
    t1 = t1
    t2 = t2
    Threads <- OneThread
    Capacity = 2
    MaxPages = 3
    MaxVersion = 2
    MaxObjs = 5
SPECIFICATION Spec
VIEW View
INVARIANTS
    TypeOK
    NoLostUpdate
    HeldNotEvictable
    PageTableConsistent
PROPERTY
    LRURefinement
CHECK_DEADLOCK FALSE
