SPECIFICATION FairSpec
CONSTANTS
    r1 = r1
    r2 = r2
    r3 = r3
    home = home
    pool = pool
    NoRun = NoRun
    Runs <- TwoRuns
    Agents <- TwoAgents
    AgentOf <- HomePool
    SharedHome <- OneHome
    MaxConcurrentRuns = 2
    MaxConcurrency <- LimitTwo
    StoreYields = FALSE
    MaxEngineEvents = 1
    MaxFaults = 0
    MaxCrashes = 1
    MaxCancels = 1
INVARIANTS
    OutcomeAnnounced
    CancelWins
PROPERTIES
    CleanStop
    ContractHolds
    EveryRunSettles
