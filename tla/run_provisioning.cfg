SPECIFICATION UsedSpec
CONSTANTS
    q1 = q1
    q2 = q2
    x1 = x1
    a1 = a1
    e1 = e1
    e2 = e2
    r1 = r1
    r2 = r2
    v1 = v1
    v2 = v2
    s1 = s1
    s2 = s2
    NoRevision = NoRevision
    NoVersion = NoVersion
    NoAgent = NoAgent
    Requests <- TwoRequests
    Runs <- OneRun
    AgentIds <- OneAgent
    EngineIds <- TwoEngines
    Revisions <- TwoRevs
    Versions <- TwoVersions
    Settings <- TwoSettings
    Unset = Unset
    Empty = ""
    Texts <- SomeTexts
    Trimmed <- TrimText
    UrlOf <- SomeUrls
    HostTools <- HostTool
    MaxFailures = 1
    MaxCrashes = 1
CHECK_DEADLOCK FALSE
SYMMETRY Symmetry
INVARIANTS
    ProvisioningTypeOK
    InterruptedIsMarked
    
    
    NamesExist
    RunMatches
PROPERTIES
    KeepsUsable
    HonestStatus
    EnginesPersist
