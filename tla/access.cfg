SPECIFICATION Spec
CONSTANTS
    Parts = {"identity", "policy", "budget"}
    Users = {u1, u2}
    NoUser = NoUser
    Sessions = {s1}
    Tokens = {t1, t2}
    Pages = {p1}
    UserCommands = {k1}
    HASH_CONCURRENCY = 1
    FAILED_TOKEN_CAPACITY = 1
    Members = {n1, n2}
    Profiles = {f1}
    NoProfile = NoProfile
    ProfilePages = {g1}
    Readers = {d1}
    POLICY_CACHE_CAPACITY = 1
    MaxRevision = 4
    BudgetRequests = {h1, h2}
    BudgetModels = {"m1"}
    AnyModel = AnyModel
    BudgetKeys <- MCBudgetKeys
    RuleLimits <- MCRuleLimits
    NoRule = NoRule
    BudgetProofs <- MCProofs
    EstimateTokens = 1
    EstimateCost = 1
    PriceUnit = 2
    DaysPerMonth = 2
    LastDay = 2
    AttemptLimit = 2
    MaxRuleChanges = 2
VIEW Running
SYMMETRY UserSymmetry
CHECK_DEADLOCK FALSE
INVARIANTS
    RefusalsArePermanent CachedPolicyIsCurrent HardCapsHold
