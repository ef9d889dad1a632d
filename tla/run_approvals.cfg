SPECIFICATION Spec
CONSTANTS
    r1 = r1
    q1 = q1
    q2 = q2
    q3 = q3
    q4 = q4
    shell = shell
    edit = edit
    c1 = c1
    c2 = c2
    NoRequest = NoRequest
    TrustKeys <- Tools
    Calls <- TwoCalls
    Runs <- OneRun
    Requests <- FourRequests
    RunOf <- FourRunOf
    IdOf <- FourIds
    TrustOf <- FourTrusts
    Automatic <- ByPolicy
    StoreYields = TRUE
    MaxFaults = 1
SYMMETRY AlikeCalls
CHECK_DEADLOCK FALSE
INVARIANTS
    ApprovalTypeOK
    Answerable
    AnsweredAsRecorded
    AllowedBySomebody
    DeadlineGoesOn
