CONSTANTS
    G = G
    OtherUuid = OtherUuid
    Nil = Nil
    ViewSeqno <- MCViewSeqno
    MaxSeqno <- MCMaxSeqno
    InitSeqnos <- MCInitSeqnos
    StrProtoVers <- MCStrProtoVers
    SstReqs <- MCSstReqs
    MaxRetries <- MCMaxRetries
    Faults <- MCJoinerStateFaults
SPECIFICATION FairSpec
INVARIANT JoinerStateTrusted
