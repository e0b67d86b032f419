CONSTANTS
    m1 = m1
    m2 = m2
    m3 = m3
    w1 = w1
    w2 = w2
    NoMsg = NoMsg
    Msgs <- MCMsgs
    Workers <- MCWorkers
    Oversized <- MCOversized
    BatchLimit = 2
    OpenMayFail = FALSE
    InitMayFail = FALSE
    CommitMayFail = TRUE
    StartupRace = FALSE

SPECIFICATION Spec

INVARIANT AckedDurable


CHECK_DEADLOCK FALSE
