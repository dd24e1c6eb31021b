CONSTANTS
    G = G
    OtherUuid = OtherUuid
    Nil = Nil
    ViewSeqno <- MCViewSeqno
    MaxSeqno <- MCMaxSeqno
    InitSeqnos <- MCInitSeqnos
    StrProtoVers <- MCStrProtoVers
    SstReqs <- MCSstReqs
    MaxRetries <- MCMaxRetries
    Faults <- MCNoFaults
SPECIFICATION FairSpec
INVARIANT TypeOK
INVARIANT RecoverySound
INVARIANT JoinedHasGroupState
INVARIANT IstContiguous
PROPERTY SstWaitEnds
PROPERTY SeqnoLockReleased
PROPERTY DonorJoins
PROPERTY JoinerStateRefined
