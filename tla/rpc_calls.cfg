\* One client with two concurrent Calls, Stop and Close at any time.
CONSTANTS
    r1 = r1
    r2 = r2
    Clients <- OneClient
    CallsPerClient = 2

SPECIFICATION Spec

CHECK_DEADLOCK FALSE

INVARIANTS
    TypeOK
    ReplyMatchesRequest

PROPERTY
    InvokeReturns
