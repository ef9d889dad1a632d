SPECIFICATION FairSpec
CONSTANTS
    c1 = c1
    t1 = t1
    t2 = t2
    NoTurn = NoTurn
    Convs <- OneConv
    Turns <- TwoTurns
    ConvOf <- SameConv
    Outputs <- Says
    MaxOutputs <- Budget
    MaxEdits = 1
    MaxCrashes = 1
CHECK_DEADLOCK FALSE
INVARIANTS
    ConversationTypeOK
    OneTurnAtATime
    ReplyFollowsEvents
    ReplyEndsAsItsRun
    ActivitiesEnd
    ReadersAgree
PROPERTIES
    EditsLast
    EndedStaysEnded
    TurnsEnd
