SPECIFICATION Spec
CONSTANTS
    Parts = {"stream", "finite", "database", "affinity", "server"}
    Accounts = {a1, a2}
    WireSurfaces = {w1, w2}
    NoAccount = NoAccount
    max_attempts = 2
    LedgerCapacity = 256
    Callers = {d1, d2}
    MaxQueued = 1
    NoCaller = NoCaller
    Resolvers = {v1, v2, v3}
    Keys = {k1, k2}
    max_entries = 1
    NoFlight = NoFlight
    Servers = {s1, s2}
    NoServer = NoServer
    MaxBodies = 1
    MaxSignals = 1
CHECK_DEADLOCK FALSE
INVARIANTS
    RecordedAsEnded RunsInOwnTransaction ExitLeavesNothing
PROPERTIES
    RequestEnds PermitReturns ResolveReturns
