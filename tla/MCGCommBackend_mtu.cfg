CONSTANTS
    MsgSizes <- MCMsgSizes
    ViewSize <- MCViewSize
    LeaveSize <- MCLeaveSize
    BufLens <- MCBufLens
    MaxMsgs <- MCMaxMsgs
    Faults <- MCCallerFaults
SPECIFICATION Spec
INVARIANT CallerAnswersTrue
