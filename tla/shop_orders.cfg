\* Two concurrent POST /api/orders over one product seeded with three; a
\* Snowflake sequence of zero bits, so a second id within a millisecond
\* waits for the next; a clock that ticks once and steps back once; one
\* client that may go away.
CONSTANTS
    q1 = q1
    q2 = q2
    p1 = p1
    Requests <- MCRequests
    Products <- MCProducts
    Seed <- MCSeed
    ItemLists <- MCItemLists
    SeqBits = 0
    MaxTime = 1
    MaxBacks = 1
    MaxDisconnects = 1
SPECIFICATION Spec
INVARIANTS
    TypeOK
    ReservationsBacked
    NoOversell
PROPERTIES
    IdsIncrease
    RequestsReturn
CHECK_DEADLOCK FALSE
