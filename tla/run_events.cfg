SPECIFICATION Spec
CONSTANTS
    r1 = r1
    r2 = r2
    r3 = r3
    home = home
    pool = pool
    NoRun = NoRun
    Runs <- OneRun
    Agents <- TwoAgents
    AgentOf <- Pool
    SharedHome <- NoHome
    MaxConcurrentRuns = 2
    MaxConcurrency <- LimitTwo
    StoreYields = TRUE
    MaxEngineEvents = 2
    MaxFaults = 1
    MaxCrashes = 1
    MaxCancels = 2
INVARIANTS
    UniqueSequence
    TerminalEventLast
