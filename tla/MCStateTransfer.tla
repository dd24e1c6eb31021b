-------------------------- MODULE MCStateTransfer --------------------------
(* Model-checking instance of StateTransfer: the view is at seqno 2 and the *)
(* group may commit one more write-set, so that an IST has two write-sets  *)
(* to stream and the gcache can drift past the joiner's requested start.  *)
EXTENDS StateTransfer

MCViewSeqno == 2
MCMaxSeqno == 3
MCInitSeqnos == {-1, 0, 1}
MCStrProtoVers == {0, 1}
MCSstReqs == {"empty", "trivial", "real"}
MCMaxRetries == 1
MCNoFaults == {}
MCEarlyCallback == {"early_callback"}
MCFailedSstGroupUuid == {"failed_sst_group_uuid"}
MCBlockedSendOnClose == {"blocked_send_on_close"}
MCJoinerStateFaults == {"failed_sst_group_uuid", "blocked_send_on_close"}
=============================================================================
