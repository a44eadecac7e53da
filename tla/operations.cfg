SPECIFICATION Spec
CONSTANTS
    Parts = {"mutation", "connect", "update", "backup", "integration", "edit", "deployment",
             "assembly", "usage", "retention", "status"}
    Commands = {c1, c2}
    NoConfig = NoConfig
    Values = {0, 1}
    BaseUrls = {"b1"}
    Revisions = {r1, r2}
    Absent = Absent
    BACKUP_RETENTION_PER_TARGET = 2
    MaxCommands = 3
    Releases = {v1, v2}
    NoRelease = NoRelease
    Broken = Broken
    MaxUpdates = 2
    NoContents = NoContents
    Mixed = Mixed
    MaxVersion = 2
    retain_count = 1
    MaxRestores = 1
    ClientPaths = {l1}
    UserValues = {w1}
    ServerUrls = {b1}
    ManagedModels = {m1}
    NoField = NoField
    NoManifest = NoManifest
    MaxSetups = 3
    MaxEdits = 1
    Editors = {e1, e2}
    EditIds = {"x", "y"}
    Credentials = {"k1", "k3"}
    Settings <- MCSettings
    Layouts <- MCLayouts
    MaxOps = 2
    UserLines = {"u1"}
    MaxDeploys = 3
    MaxUserEdits = 1
    Documents <- MCDocuments
    NoDocument = NoDocument
    Surroundings <- MCSurroundings
    MaxFileEdits = 3
    MaxAssemblies = 3
    MetricKeys = {a1, a2}
    max_rows = 1
    max_pending_events = 2
    MaxEvents = 3
    soft_wal_frames = 2
    MaxTransactions = 4
    RequestRows = {q1, q2}
    MaxReservations = 2
    row_limit = 1
    batch_limit = 2
    StatusAccounts = {"a1", "a2"}
    StatusProviders = {"p1", "p2"}
    AccountProvider <- MCAccountProvider
    CooldownLength = 1
    BreakerThreshold = 1
    ProbeLifetime = 0
    AccountLayouts <- MCAccountLayouts
    LastSecond = 1
VIEW Running
CHECK_DEADLOCK FALSE
INVARIANTS
     ReleaseSurvives   NoOrphanedService
    RegistryMatchesRows NoCommitIsOverlooked
PROPERTIES
     OutcomeMatchesFiles 
