SPECIFICATION Spec
CONSTANTS
    r1 = r1
    r2 = r2
    r3 = r3
    home = home
    pool = pool
    NoRun = NoRun
    Runs <- ThreeRuns
    Agents <- TwoAgents
    AgentOf <- HomeHomePool
    SharedHome <- InHome
    MaxConcurrentRuns = 2
    MaxConcurrency <- LimitTwo
    StoreYields = FALSE
    MaxEngineEvents = 0
    MaxFaults = 1
    MaxCrashes = 0
    MaxCancels = 0
SYMMETRY Alike
INVARIANTS
    TypeOK
    CapacityRespected
    WorkspaceExclusive
    NothingLeaks
