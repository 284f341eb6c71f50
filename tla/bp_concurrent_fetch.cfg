\* Two FetchPage misses of one page id race between their two critical sections.
CONSTANTS
    t1 = t1
    t2 = t2
    Threads <- TwoThreads
    Capacity = 2
    MaxPages = 3
    MaxVersion = 2
    MaxObjs = 7
SPECIFICATION Spec
VIEW View
INVARIANT PageTableConsistent
CHECK_DEADLOCK FALSE
