CONSTANTS
    MsgSizes <- MCMsgSizes
    ViewSize <- MCViewSize
    LeaveSize <- MCLeaveSize
    BufLens <- MCBufLens
    MaxMsgs <- MCMaxMsgs
    Faults <- MCAllFaults
SPECIFICATION FairSpec
INVARIANT TypeOK
INVARIANT DeliveredInOrder
INVARIANT NoLostWakeup
PROPERTY ShutdownReturns
