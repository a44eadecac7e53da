SPECIFICATION Spec
CONSTANTS
    Parts = {"admission", "dispatch", "route", "claims", "translation", "upstream",
             "wire", "resolver", "tools", "health", "catalog"}
    mx = mx
    my = my
    mz = mz
    px = px
    m1 = m1
    m2 = m2
    p1 = p1
    p2 = p2
    openai = openai
    anthropic = anthropic
    Principals = {u1, u2, u3}
    capacity = 2
    global_capacity = 3
    max_tracked_principals = 2
    WINDOW = 2
    STALE_AFTER = 4
    Bodies = {b1, b2}
    INITIAL_RESERVATION = 1
    BodyLimit = 2
    Ceiling = 3
    DispatchCalls = {c1, c2}
    RouteSessions = {s1}
    NoIdentity = NoIdentity
    Alias = Alias
    NoRouter = NoRouter
    NoQualifier = NoQualifier
    NoFlying = NoFlying
    MaxSwaps = 1
    Routers <- MCRouters
    Asked <- MCAsked
    Qualified <- MCQualified
    AccountCount = 2
    RouteModels = {m1, m2}
    RouteProviders = {p1, p2}
    RouteProtocols = {openai, anthropic}
    Registry <- MCRegistry
    Capability <- MCCapability
    AnyProvider = AnyProvider
    RouteRequests <- MCRouteRequests
    HardCap = TRUE
    PreferNative = TRUE
    RouteCapacity = 1
    NearTie = 2
    FAIRNESS_KEY_HARD_CAP = 2
    MAX_OBSERVATIONS = 1
    WindowLength = 1
    UsageSizes = {1}
    RecoveryInterval = 1
    MaxRouteTime = 1
    MaxHeld = 1
    MaxBlocks = 1
    MaxSelections = 3
    Requests = {r1, r2, r3}
    NoRequest = NoRequest
    CLAIM_RECORD_HARD_CAP = 2
    Delays = {1, 2}
    MaxTime = 4
    failure_threshold = 2
    recovery_timeout = 2
    success_threshold = 1
    MaxTurns = 1
    MaxControls = 1
    PoolAccounts = {1, 2}
    Generations = {1, 2}
    Providers <- MCProviders
    IncomingHeaders <- MCIncoming
    MaxChunks = 2
    max_bytes = 1
    NoPool = NoPool
    NoConnection = NoConnection
    Slots = {1}
    MaxFrames = 3
    MAX_TRANSLATED_ITEM_BYTES = 2
    MAX_TRANSLATED_STREAM_BYTES = 3
    MAX_ACTIVE_TOOL_CALLS = 1
    CandidateSurfaces = {f1}
    Fingerprints = {g1, g2}
    Negotiators = {n1, n2}
    Policies <- MCPolicies
    NoNegotiator = NoNegotiator
    NoSurface = NoSurface
    ToolUsers = {t1}
    KnownTools = {k1}
    Catalogs = {d1, d2}
    ToolSessions = {e1}
    Operations = {o1, o2}
    NoSession = NoSession
    NoCatalog = NoCatalog
    BackendPermits = 1
    HostedPermits = 1
    MAX_HOSTED_PER_USER = 2
    MAX_HOSTED_USERS = 2
    MAX_ITERATIONS = 2
    MAX_TOOL_CALLS = 2
    MaxPolicyChanges = 1
    Calls = {h1, h2}
    HealthModels = {hm}
    NoModel = NoModel
    RetryHints = {0, 3}
    BaseDelay = 1
    DelayCap = 3
    promotion_threshold = 2
    MaxClock = 1
    MaxEpoch = 2
    Services = {v1, v2}
    DefaultAccounts = {da1, da2}
    OtherAccounts = {}
    Models = {cm1, cm2}
    StaticModels <- MCStaticModels
    withdraws = TRUE
    MaxRefreshes = 2
VIEW Running
CHECK_DEADLOCK FALSE
INVARIANTS
     AliasKeepsItsRouter RotationServesAll CountersMatchClaims
     OwnCredentialIsSent  EntriesAreEvictable
    RevocationStopsCalls MirrorNeverWidens SupportHasContract
