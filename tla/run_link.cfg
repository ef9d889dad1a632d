SPECIFICATION FairSpec
CONSTANTS
    m1 = m1
    m2 = m2
    c1 = c1
    Messages <- OneMessage
    Commands <- OneCommand
    MaxAttempts = 2
    MaxBuffered = 1
    MaxFailures = 1
    MaxCrashes = 1
    MaxIssues = 2
    MaxWaiting = 2
CHECK_DEADLOCK FALSE
INVARIANTS
    LinkTypeOK
    OneRunPerCommand
    AckedIsDone
    NothingForgotten
    NumberedWithoutGap
PROPERTIES
    OutboxDrains
