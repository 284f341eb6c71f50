\* Two concurrent requests at a time through routing, the filter chain, the
\* round-robin balancer and the shared breaker (threshold 5, as NewGateway).
CONSTANTS
    c1 = c1
    c2 = c2
    GET = GET
    OPT = OPT
    k1 = k1
    t1 = t1
    t2 = t2
    none = none
    Clients <- MCClients
    Methods <- MCMethods
    OPTIONS = OPT
    Paths <- MCPaths
    Keys = {k1}
    NoKey = none
    Targets = {t1, t2}
    Routes <- MCRoutes
    Threshold = 5
    Timeout = 1
    MaxRequests = 7
    MaxTime = 1
SPECIFICATION Spec
INVARIANT TypeOK
INVARIANT OnlyAdmittedForwarded
INVARIANT BreakerTripsOnStreak
CHECK_DEADLOCK FALSE
