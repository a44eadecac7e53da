INIT CatalogInit
NEXT CatalogNext
CONSTANTS
    Services = {s1}
    DefaultAccounts = {}
    OtherAccounts = {b1}
    Models = {m1}
    StaticModels = {}
    withdraws = TRUE
    MaxRefreshes = 3
CHECK_DEADLOCK FALSE
PROPERTY FailuresKeepCatalog
