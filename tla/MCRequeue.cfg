CONSTANTS
    m1 = m1
    m2 = m2
    m3 = m3
    w1 = w1
    w2 = w2
    NoMsg = NoMsg
    Msgs <- MCMsgs
    Workers <- MCWorkers
    Oversized <- MCOversized
    BatchLimit = 2
    OpenMayFail = FALSE
    InitMayFail = TRUE
    CommitMayFail = FALSE
    StartupRace = FALSE

SPECIFICATION Spec

INVARIANT TypeOK
INVARIANT AckedDurable
INVARIANT ClosedQuiescent
PROPERTY NoWriteAfterClose
 
PROPERTY CloseCompletes
PROPERTY AcceptedCalledBack

CHECK_DEADLOCK FALSE
