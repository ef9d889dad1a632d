SPECIFICATION Spec
CONSTANTS
    m1 = m1
    m2 = m2
    c1 = c1
    Messages <- OneMessage
    Commands <- OneCommand
    MaxAttempts = 2
    MaxBuffered = 1
    MaxFailures = 1
    MaxCrashes = 0
    MaxIssues = 1
    MaxWaiting = 2
CHECK_DEADLOCK FALSE
INVARIANTS
    NextAccepted
