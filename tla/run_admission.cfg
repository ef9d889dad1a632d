SPECIFICATION Spec
CONSTANTS
    r1 = r1
    r2 = r2
    r3 = r3
    home = home
    pool = pool
    NoRun = NoRun
    Runs <- TwoRuns
    Agents <- TwoAgents
    AgentOf <- PoolPool
    SharedHome <- NoHome
    MaxConcurrentRuns = 2
    MaxConcurrency <- LimitTwo
    StoreYields = FALSE
    MaxEngineEvents = 0
    MaxFaults = 0
    MaxCrashes = 0
    MaxCancels = 0
PROPERTIES
    RefusedOnlyWhenFull
