CONSTANTS
    MsgSizes <- MCMsgSizes
    ViewSize <- MCViewSize
    LeaveSize <- MCLeaveSize
    BufLens <- MCBufLens
    MaxMsgs <- MCMaxMsgs
    Faults <- MCAllFaults
SPECIFICATION Spec
INVARIANT ThreadJoinedOnce
