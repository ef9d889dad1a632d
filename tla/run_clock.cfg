SPECIFICATION Spec
CONSTANTS
    r1 = r1
    q1 = q1
    q2 = q2
    q3 = q3
    q4 = q4
    shell = shell
    edit = edit
    c1 = c1
    c2 = c2
    NoRequest = NoRequest
    TrustKeys <- Tools
    Calls <- TwoCalls
    Runs <- OneRun
    Requests <- TwoRequests
    RunOf <- TwoRunOf
    IdOf <- TwoIds
    TrustOf <- TwoTrusts
    Automatic <- Nothing
    StoreYields = FALSE
    MaxFaults = 0
CHECK_DEADLOCK FALSE
INVARIANTS
    ClockWaits
