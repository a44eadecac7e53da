SPECIFICATION FairSpec
CONSTANTS
    c1 = c1
    c2 = c2
    s1 = s1
    s2 = s2
    Configs <- MCConfigs
    FirstConfig = c1
    SpecsOf <- MCSpecsOf
    Mixed = Mixed
    None = None
    Names = {1, 2, 3}
    Schedules = {s1, s2}
    Off = Off
    Leased = {2}
    Tasks = {1, 2, 3, 4, 5, 6}
    NoTask = NoTask
CHECK_DEADLOCK FALSE
PROPERTIES
    ReloadIsAtomic ReloadReturns
