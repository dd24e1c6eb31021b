--------------------------- MODULE StateTransfer ---------------------------
(***************************************************************************)
(* State transfer between one joiner and one donor, as coordinated by     *)
(* src/galera/src/replicator_str.cpp.                                     *)
(*                                                                         *)
(* Threads and collaborators modelled:                                    *)
(*  - the joiner thread running request_state_transfer() (jpc), with one  *)
(*    step per write of the recovery marker, so that every state of this  *)
(*    model is a point at which the joiner process may crash;             *)
(*  - the joiner's SST script thread calling sst_received() (script);     *)
(*  - the donor's receiver thread running process_state_req() (one step, *)
(*    it runs inside the local-order monitor);                            *)
(*  - the donor's IST sender thread (sender), which owns the gcache lock; *)
(*  - the donor's gcache (cacheLo, lockCount), trimmed concurrently;      *)
(*  - the group layer: delivery of STATE_REQ and of the donor's JOIN.     *)
(* Persisted state: the recovery marker (grastate) and the joiner's data  *)
(* image db.  A crash keeps exactly these two.                            *)
(***************************************************************************)
EXTENDS Integers, Sequences, FiniteSets

CONSTANTS
    G,               \* the group's history UUID
    OtherUuid,       \* a different history UUID
    Nil,             \* WSREP_UUID_UNDEFINED
    ViewSeqno,       \* group_seqno of the view that requires state transfer (= cc_seqno_)
    MaxSeqno,        \* bound on the donor's seqno: write-sets committed after the view
    InitSeqnos,      \* joiner's possible STATE_SEQNO() at start
    StrProtoVers,    \* possible str_proto_ver_ values
    SstReqs,         \* kinds of SST request the application may pass
    MaxRetries,      \* bound on retried gcs_.request_state_transfer() calls
    Faults           \* collaborator behaviours outside the assumed contract, see below

ASSUME /\ ViewSeqno \in Nat /\ MaxSeqno \in Nat /\ ViewSeqno <= MaxSeqno
       /\ InitSeqnos \subseteq -1..ViewSeqno
       /\ StrProtoVers \subseteq {0, 1, 2}
       /\ SstReqs \subseteq {"empty", "trivial", "real"}
       /\ MaxRetries \in Nat
       /\ Faults \subseteq {"early_callback", "failed_sst_group_uuid",
                            "blocked_send_on_close"}

(* Faults: "early_callback": the SST script reports before the joiner has  *)
(* called request_state_transfer(); "failed_sst_group_uuid": a failed SST  *)
(* is reported with the group uuid instead of an undefined one;           *)
(* "blocked_send_on_close": the local monitor refuses the slot of a        *)
(* delivered request while the application is closing the connection.    *)
FailedSstUuids == IF "failed_sst_group_uuid" \in Faults THEN {Nil, G} ELSE {Nil}

Undefined == -1          \* WSREP_SEQNO_UNDEFINED
Uuids == {G, OtherUuid, Nil}

VARIABLES
    jpc,         \* joiner thread: position in request_state_transfer()
    jstate,      \* joiner replicator state_ ("CONNECTED", "JOINING", ...)
    sstState,    \* sst_state_
    sstUuid,     \* sst_uuid_
    sstSeqno,    \* sst_seqno_
    stateUuid,   \* state_uuid_
    stateSeqno,  \* STATE_SEQNO(): apply monitor position
    req,         \* the StateRequest built by prepare_state_request()
    unsafe,      \* local 'unsafe' of request_state_transfer()
    tries,       \* local 'tries' of send_state_request()
    istPrepared, \* ist_prepared_: the IST receiver is listening
    marker,      \* persisted recovery marker [uuid, seqno, safe, corrupt]
    db,          \* joiner's data image [uuid, seqno, ok]
    script,      \* joiner's SST script / sst_received() thread
    strMsg,      \* STATE_REQ delivered to the donor, not yet processed
    donorSeq,    \* donor's last committed seqno (donor_seq)
    cacheLo,     \* lowest seqno still held by the donor's gcache
    lockCount,   \* outstanding gcache seqno locks
    lockSeqno,   \* seqno the lock was taken at
    sender,      \* IST sender thread [pc, next, last]
    istChan,     \* IST stream from sender to receiver (TCP: ordered, lossless)
    dsst,        \* donor SST whose join is deferred to the completion callback
    joinMsg      \* <<status>> of the donor's first gcs_.join(), <<>> if none yet

jvars == <<jpc, jstate, sstState, sstUuid, sstSeqno, stateUuid, stateSeqno,
           req, unsafe, tries, istPrepared>>
dvars == <<strMsg, donorSeq, cacheLo, lockCount, lockSeqno, sender, istChan,
           dsst, joinMsg>>
vars == <<jvars, marker, db, script, dvars>>

NoReq == [none |-> TRUE]
NoIst == [present |-> FALSE, uuid |-> Nil, last |-> Undefined, group |-> Undefined]
Gtid(u, s) == [uuid |-> u, seqno |-> s]

\* sst_state_ values, in declaration order (sst_state_ < SST_REQ_FAILED).
SstStates == <<"IDLE", "WAIT", "CANCELED", "REQ_FAILED", "FAILED">>
SstRank(s) == CHOOSE i \in 1..Len(SstStates) : SstStates[i] = s

\* Joiner positions at which request_state_transfer() holds sst_mutex_.
HoldsSstMutex == jpc \in {"send", "check_sst", "clear_pos", "restore_safe",
                          "ist_recv", "final"}
JoinerAlive == jpc # "aborted"
\* state_() > S_CLOSING
Live == jstate \in {"CONNECTED", "JOINING", "JOINED"}
-----------------------------------------------------------------------------
(* Pure helpers translated from the source.                                *)

\* state_transfer_required(): different history, or local seqno behind.
StateTransferRequired(u, s) == u # G \/ s < ViewSeqno

\* sst_is_trivial(): the SST request is the TRIVIAL_SST sentinel.
SstIsTrivial(kind) == kind = "trivial"

\* prepare_for_IST() throws EPERM unless the history matches and the local
\* seqno is defined.
IstPossible == stateUuid = G /\ stateSeqno >= 0

\* 'unsafe' of request_state_transfer(): a non-empty, non-trivial SST
\* request will overwrite the data, so the marker goes unsafe first.
UnsafeBeforeSstInverted(kind) == kind # "empty" /\ SstIsTrivial(kind)
UnsafeBeforeSst(kind) == kind # "empty" /\ ~SstIsTrivial(kind)

\* The first seqno an IST request asks for: last_applied + 1.
IstFirstSkip(r) == r.ist.last + 2
IstFirst(r) == r.ist.last + 1

\* process_state_req() joins at 'out' unless the join was deferred to the
\* SST completion callback, and always after an error.
JoinAtOutDeferred(joinNow, failed) == joinNow
JoinAtOut(joinNow, failed) == joinNow \/ failed

\* Errors gcs_.request_state_transfer() may return other than -ENODATA, and
\* -EDEADLK when the local monitor would block on seqno_l; retry_str()
\* picks the ones retried after sst_retry_sec_.
SendErrors == {"EAGAIN", "ENOTCONN", "ECONNABORTED", "EDEADLK"}
RetryStr(r) == r \in {"EAGAIN", "ENOTCONN"}

\* Recovery marker operations (SavedState).
MarkerSet(m, u, s) == [m EXCEPT !.uuid = u, !.seqno = s]
MarkUnsafe(m) == [m EXCEPT !.safe = FALSE]
MarkSafe(m) == [m EXCEPT !.safe = TRUE]
MarkCorrupt(m) == [m EXCEPT !.corrupt = TRUE]

\* The donor's gcache lock after the IST branch: held by the sender when it
\* was started (seqno_lock_guard.unlock_ = false), released by the guard
\* otherwise.
LockAfterIst(started) == IF started THEN 1 ELSE 0
\* Negative errno values used as join statuses.
ENODATA == 61
ECANCELED == 125
ECONNREFUSED == 111

\* gcs_.join(status): the group acts on the first JOIN of the donor only.
JoinAppend(status) == joinMsg' = Append(joinMsg, status)
Join(status) == joinMsg' = IF joinMsg = <<>> THEN <<status>> ELSE joinMsg
-----------------------------------------------------------------------------
Init ==
    /\ jpc = "idle"
    /\ jstate = "CONNECTED"
    /\ sstState = "IDLE"
    /\ sstUuid = Nil
    /\ sstSeqno = Undefined
    /\ \E u \in {G, OtherUuid}, s \in InitSeqnos, persisted \in BOOLEAN :
          /\ StateTransferRequired(u, s)
          /\ stateUuid = u
          /\ stateSeqno = s
          /\ db = [uuid |-> u, seqno |-> s, ok |-> TRUE]
          \* grastate holds the position after a clean shutdown, -1 otherwise
          /\ marker = [uuid |-> u, seqno |-> IF persisted THEN s ELSE Undefined,
                       safe |-> TRUE, corrupt |-> FALSE]
    /\ req = NoReq
    /\ unsafe = FALSE
    /\ tries = 0
    /\ istPrepared = FALSE
    /\ script = [pc |-> "listening", bypass |-> FALSE, gtid |-> Gtid(Nil, Undefined),
                 rcode |-> "OK"]
    /\ strMsg = NoReq
    /\ donorSeq = ViewSeqno
    /\ cacheLo = 0
    /\ lockCount = 0
    /\ lockSeqno = Undefined
    /\ sender = [pc |-> "idle", next |-> 0, last |-> Undefined]
    /\ istChan = <<>>
    /\ dsst = [pending |-> FALSE, seqno |-> Undefined]
    /\ joinMsg = <<>>
-----------------------------------------------------------------------------
(* Joiner thread: request_state_transfer().                               *)

\* prepare_state_request(): protocol 0 carries the SST request only; 1 and
\* 2 add an IST descriptor (uuid, last applied, group seqno) when
\* prepare_for_IST() neither throws EPERM nor fails to start the receiver
\* (listenOk).  ist_prepared_ is set exactly when the descriptor is built.
PrepareStateRequest(ver, kind, listenOk) ==
    [ver |-> ver, sst |-> kind,
     ist |-> IF ver > 0 /\ IstPossible /\ listenOk
             THEN [present |-> TRUE, uuid |-> stateUuid, last |-> stateSeqno,
                   group |-> ViewSeqno]
             ELSE NoIst]

\* request_state_transfer() up to the send: prepare the request, take
\* sst_mutex_, mark_unsafe() before a real SST, sst_state_ = SST_WAIT.
JoinerPrepare ==
    /\ jpc = "idle"
    /\ jstate = "CONNECTED"
    /\ \E ver \in StrProtoVers, kind \in SstReqs, listenOk \in BOOLEAN :
        LET r == PrepareStateRequest(ver, kind, listenOk)
        IN /\ req' = r
           /\ istPrepared' = r.ist.present
           /\ unsafe' = UnsafeBeforeSst(kind)
           /\ marker' = IF UnsafeBeforeSst(kind) THEN MarkUnsafe(marker) ELSE marker
    /\ sstState' = "WAIT"
    /\ jpc' = "send"
    /\ UNCHANGED <<jstate, sstUuid, sstSeqno, stateUuid, stateSeqno, tries,
                   db, script, dvars>>

\* send_state_request(): a retryable error (EAGAIN, ENOTCONN); sleep and retry.
JoinerSendRetry ==
    /\ jpc = "send"
    /\ tries < MaxRetries
    /\ \E err \in SendErrors : RetryStr(err)
    /\ tries' = tries + 1
    /\ UNCHANGED <<jpc, jstate, sstState, sstUuid, sstSeqno, stateUuid, stateSeqno,
                   req, unsafe, istPrepared, marker, db, script, dvars>>

\* send_state_request() succeeds: the STATE_REQ is delivered to the donor.
\* Then request_state_transfer() shifts to S_JOINING, resets the gcache
\* and either waits on sst_cond_ (real SST, releasing sst_mutex_), takes the
\* trivial SST position, or goes on without SST.  A connection being closed
\* makes the send fail.
JoinerSendOk ==
    /\ jpc = "send"
    /\ Live
    /\ tries' = tries + 1
    /\ strMsg' = req
    /\ jstate' = "JOINING"
    /\ CASE req.sst = "empty" ->
              jpc' = "clear_pos" /\ UNCHANGED <<sstUuid, sstSeqno>>
         [] SstIsTrivial(req.sst) ->
              jpc' = "check_sst" /\ sstUuid' = G /\ sstSeqno' = ViewSeqno
         [] OTHER ->
              jpc' = "wait_sst" /\ UNCHANGED <<sstUuid, sstSeqno>>
    /\ UNCHANGED <<sstState, stateUuid, stateSeqno, req, unsafe, istPrepared,
                   marker, db, script, donorSeq, cacheLo, lockCount, lockSeqno,
                   sender, istChan, dsst, joinMsg>>

\* send_state_request() gets -ENODATA: the IST range is gone from the donors'
\* caches and no SST was requested.  mark_safe() if marked unsafe; abort().
JoinerSendNoData ==
    /\ jpc = "send"
    /\ req.ist.present /\ req.sst = "empty" /\ req.ist.last + 1 < cacheLo
    /\ tries' = tries + 1
    /\ marker' = IF unsafe THEN MarkSafe(marker) ELSE marker
    /\ jpc' = "aborted"
    /\ UNCHANGED <<jstate, sstState, sstUuid, sstSeqno, stateUuid, stateSeqno,
                   req, unsafe, istPrepared, db, script, dvars>>

\* The failure branch after the send loop: SST_REQ_FAILED, st_.set(
\* state_uuid_, STATE_SEQNO()); while the connection is live mark unsafe and
\* abort(), otherwise mark safe again and return the error, closing the IST
\* receiver.
SendFailure ==
    /\ sstState' = "REQ_FAILED"
    /\ LET m == MarkerSet(marker, stateUuid, stateSeqno)
       IN IF Live
          THEN /\ marker' = MarkUnsafe(m)
               /\ jpc' = "aborted"
               /\ UNCHANGED istPrepared
          ELSE /\ marker' = IF unsafe THEN MarkSafe(m) ELSE m
               /\ jpc' = "returned_err"
               /\ istPrepared' = FALSE

\* send_state_request() gets an error that is not retried, or a retryable
\* error whose unset seqno_l (read uninitialised at line 685) makes
\* would_block() answer -EDEADLK; nothing was delivered.
JoinerSendFailed ==
    /\ jpc = "send"
    /\ \E err \in SendErrors : ~RetryStr(err)
    /\ tries' = tries + 1
    /\ SendFailure
    /\ UNCHANGED <<jstate, sstUuid, sstSeqno, stateUuid, stateSeqno, req, unsafe,
                   db, script, dvars>>

\* gcs_.request_state_transfer() delivered the STATE_REQ (seqno_l is
\* defined) but the local monitor would block on seqno_l: ret = -EDEADLK,
\* which is not retried, so the joiner takes the failure branch while the
\* donor has the request.
JoinerSendBlocked ==
    /\ jpc = "send"
    /\ Live \/ "blocked_send_on_close" \in Faults
    /\ tries' = tries + 1
    /\ strMsg' = req
    /\ SendFailure
    /\ UNCHANGED <<jstate, sstUuid, sstSeqno, stateUuid, stateSeqno, req, unsafe,
                   db, script, donorSeq, cacheLo, lockCount, lockSeqno, sender,
                   istChan, dsst, joinMsg>>

\* After the SST wait: cancelled (mark unsafe, close(), return -ECANCELED),
\* wrong history (SST_FAILED, st_.set(sst_uuid_, sst_seqno_), mark safe,
\* abort()), or install the SST position: update_state_uuid() persists it
\* and the apply/commit monitors restart at sst_seqno_.
JoinerCheckSst ==
    /\ jpc = "check_sst"
    /\ \/ /\ sstState = "CANCELED"
          /\ marker' = MarkUnsafe(marker)
          /\ jstate' = "CLOSING"
          /\ jpc' = "returned_err"
          /\ UNCHANGED <<sstState, stateUuid, stateSeqno>>
       \/ /\ sstState # "CANCELED"
          /\ sstUuid # G
          /\ sstState' = "FAILED"
          /\ LET m == MarkerSet(marker, sstUuid, sstSeqno)
             IN marker' = IF unsafe THEN MarkSafe(m) ELSE m
          /\ jpc' = "aborted"
          /\ UNCHANGED <<jstate, stateUuid, stateSeqno>>
       \/ /\ sstState # "CANCELED"
          /\ sstUuid = G
          /\ stateUuid' = sstUuid
          /\ stateSeqno' = sstSeqno
          /\ marker' = MarkerSet(marker, sstUuid, sstSeqno)
          /\ jpc' = "clear_pos"
          /\ UNCHANGED <<jstate, sstState>>
    /\ UNCHANGED <<sstUuid, sstSeqno, req, unsafe, tries, istPrepared, db,
                   script, dvars>>

\* st_.set(state_uuid_, WSREP_SEQNO_UNDEFINED): a crash during IST must not
\* recover a stale position.
JoinerClearPos ==
    /\ jpc = "clear_pos"
    /\ marker' = MarkerSet(marker, stateUuid, Undefined)
    /\ jpc' = "restore_safe"
    /\ UNCHANGED <<jstate, sstState, sstUuid, sstSeqno, stateUuid, stateSeqno,
                   req, unsafe, tries, istPrepared, db, script, dvars>>

\* mark_safe() if marked unsafe, then decide on IST: run it only when the
\* request carried one, sst_state_ < SST_REQ_FAILED, still S_JOINING and
\* STATE_SEQNO() < group_seqno; otherwise close the IST receiver.
IstNeededOffByOne(r) ==
    r.ist.present /\ SstRank(sstState) < SstRank("REQ_FAILED")
        /\ jstate = "JOINING" /\ stateSeqno + 1 < r.ist.group
IstNeeded(r) ==
    r.ist.present /\ SstRank(sstState) < SstRank("REQ_FAILED")
        /\ jstate = "JOINING" /\ stateSeqno < r.ist.group
JoinerRestoreSafe ==
    /\ jpc = "restore_safe"
    /\ marker' = IF unsafe THEN MarkSafe(marker) ELSE marker
    /\ IF IstNeeded(req)
       THEN jpc' = "ist_recv" /\ UNCHANGED istPrepared
       ELSE jpc' = "final" /\ istPrepared' = FALSE
    /\ UNCHANGED <<jstate, sstState, sstUuid, sstSeqno, stateUuid, stateSeqno,
                   req, unsafe, tries, db, script, dvars>>

\* recv_IST(): one message of the IST stream.  A write-set: clear the
\* persisted seqno before the first one, then apply it (or skip it when it
\* failed certification), advancing the apply position; an apply failure
\* marks the state corrupt and aborts.  End of stream: finished() gives the
\* last seqno, the apply monitor is drained to it.  A stream error aborts.
JoinerRecvIst ==
    /\ jpc = "ist_recv"
    /\ istChan # <<>>
    /\ istChan' = Tail(istChan)
    /\ LET m == Head(istChan)
       IN \/ /\ m.k = "ws"
             /\ LET m1 == IF marker.seqno # Undefined
                          THEN MarkerSet(marker, marker.uuid, Undefined)
                          ELSE marker
                IN \/ /\ marker' = m1
                      /\ stateSeqno' = m.s
                      /\ db' = [db EXCEPT !.seqno = m.s]
                      /\ UNCHANGED <<jpc, sstSeqno, istPrepared>>
                   \/ /\ marker' = MarkCorrupt(m1)
                      /\ db' = [db EXCEPT !.ok = FALSE]
                      /\ jpc' = "aborted"
                      /\ UNCHANGED <<stateSeqno, sstSeqno, istPrepared>>
          \/ /\ m.k = "eos"
             /\ istPrepared' = FALSE
             /\ sstSeqno' = stateSeqno
             /\ jpc' = "final"
             /\ UNCHANGED <<marker, db, stateSeqno>>
          \/ /\ m.k = "err"
             /\ jpc' = "aborted"
             /\ UNCHANGED <<marker, db, stateSeqno, sstSeqno, istPrepared>>
    /\ UNCHANGED <<jstate, sstState, sstUuid, stateUuid, req, unsafe, tries,
                   script, strMsg, donorSeq, cacheLo, lockCount, lockSeqno,
                   sender, dsst, joinMsg>>

\* End of request_state_transfer(): reset the persisted seqno to undefined,
\* the normal operating state, and return 0.
JoinerFinal ==
    /\ jpc = "final"
    /\ marker' = IF marker.seqno # Undefined
                 THEN MarkerSet(marker, marker.uuid, Undefined)
                 ELSE marker
    /\ jpc' = "returned"
    /\ UNCHANGED <<jstate, sstState, sstUuid, sstSeqno, stateUuid, stateSeqno,
                   req, unsafe, tries, istPrepared, db, script, dvars>>
\* lock.wait(sst_cond_) returns without a signal: pthread_cond_wait() may
\* wake spuriously, and the wait is not in a loop on sst_state_, so the
\* joiner goes on to the checks after it with whatever sst_uuid_ holds.
JoinerSpuriousWakeup ==
    /\ jpc = "wait_sst"
    /\ jpc' = "check_sst"
    /\ UNCHANGED <<jstate, sstState, sstUuid, sstSeqno, stateUuid, stateSeqno,
                   req, unsafe, tries, istPrepared, marker, db, script, dvars>>
-----------------------------------------------------------------------------
(* Joiner's SST script thread and sst_received().                         *)

\* The SST script finishes.  After a real SST the data image holds the
\* donor's state; a failed or cancelled SST leaves a partly copied image.
\* With no SST started the script can only fail or be cancelled, and only
\* once the joiner has asked for state unless "early_callback" is a fault.
SstScriptFinish ==
    /\ JoinerAlive
    /\ \/ /\ script.pc = "receiving"
          /\ script' = [script EXCEPT !.pc = "result", !.rcode = "OK"]
          /\ db' = IF script.bypass THEN db
                   ELSE [uuid |-> script.gtid.uuid, seqno |-> script.gtid.seqno,
                         ok |-> TRUE]
       \/ /\ script.pc \in {"listening", "receiving"}
          /\ script.pc = "listening" =>
                IF jpc = "idle" THEN "early_callback" \in Faults ELSE req.sst = "real"
          /\ \E rc \in {"ECANCELED", "EIO"}, u \in FailedSstUuids :
                script' = [script EXCEPT !.pc = "result", !.rcode = rc,
                                         !.gtid = Gtid(IF rc = "EIO" THEN u ELSE Nil,
                                                       Undefined)]
          /\ UNCHANGED db
    /\ UNCHANGED <<jvars, marker, dvars>>

\* sst_received(), before taking sst_mutex_: a cancelled SST sets
\* sst_state_ = SST_CANCELED without holding the mutex.
SstReceivedEnter ==
    /\ JoinerAlive
    /\ script.pc = "result"
    /\ sstState' = IF script.rcode = "ECANCELED" THEN "CANCELED" ELSE sstState
    /\ script' = [script EXCEPT !.pc = "locking"]
    /\ UNCHANGED <<jpc, jstate, sstUuid, sstSeqno, stateUuid, stateSeqno, req,
                   unsafe, tries, istPrepared, marker, db, dvars>>

\* sst_received() under sst_mutex_: store sst_uuid_ and sst_seqno_ (undefined
\* on error) and signal sst_cond_; the signal wakes the joiner only if it is
\* waiting.  The state check after the signal only picks the return code.
SignalSstCondWhenJoining ==
    jpc' = IF jpc = "wait_sst" /\ jstate \in {"CONNECTED", "JOINING"}
           THEN "check_sst" ELSE jpc
SignalSstCond == jpc' = IF jpc = "wait_sst" THEN "check_sst" ELSE jpc
SstReceivedLocked ==
    /\ JoinerAlive
    /\ script.pc = "locking"
    /\ ~HoldsSstMutex
    /\ sstUuid' = script.gtid.uuid
    /\ sstSeqno' = IF script.rcode # "OK" THEN Undefined ELSE script.gtid.seqno
    /\ SignalSstCond
    /\ script' = [script EXCEPT !.pc = "done"]
    /\ UNCHANGED <<jstate, sstState, stateUuid, stateSeqno, req, unsafe, tries,
                   istPrepared, marker, db, dvars>>
-----------------------------------------------------------------------------
(* Donor: process_state_req() and the IST sender.                         *)

\* The donor's SST callback (donate_sst()) was started: the joiner's script
\* starts receiving if it is still listening; a real SST starts overwriting
\* the joiner's data.  The join is deferred to the completion callback.
StartSst(bypass, gtid) ==
    /\ script' = IF script.pc = "listening"
                 THEN [script EXCEPT !.pc = "receiving", !.bypass = bypass, !.gtid = gtid]
                 ELSE script
    /\ db' = IF ~bypass /\ script.pc = "listening" THEN [db EXCEPT !.ok = FALSE] ELSE db
    /\ dsst' = [pending |-> TRUE, seqno |-> gtid.seqno]

\* The position a bypass SST reports to the joiner: the IST request's
\* history and last applied seqno.
BypassGtidGroup(r) == Gtid(r.ist.uuid, r.ist.group)
BypassGtid(r) == Gtid(r.ist.uuid, r.ist.last)

\* IST branch: seqno_lock(last_applied + 1) succeeded.  With an SST part the
\* joiner is notified through a bypass SST (join deferred); then the IST
\* sender is started for last_applied+1 .. cc_seqno_ and takes over the lock.
\* The lock guard releases the lock if the sender was not started.
DonorIst(r) ==
    LET first == IstFirst(r)
        bypass == r.sst # "empty"
    IN \E bypassOk \in BOOLEAN, runOk \in BOOLEAN :
        LET rcodeOk == ~bypass \/ bypassOk
            started == rcodeOk /\ runOk
        IN /\ lockCount' = lockCount + LockAfterIst(started)
           /\ lockSeqno' = IF started THEN first ELSE lockSeqno
           /\ sender' = IF started THEN [pc |-> "run", next |-> first, last |-> ViewSeqno]
                        ELSE sender
           /\ IF bypass /\ bypassOk
              THEN StartSst(TRUE, BypassGtid(r))
              ELSE UNCHANGED <<script, db, dsst>>
           /\ LET rcode == CASE ~rcodeOk -> -ECANCELED
                               [] ~runOk -> -ECONNREFUSED
                               [] OTHER -> 0
              IN IF JoinAtOut(~bypass, rcode < 0)
                 THEN Join(IF rcode < 0 THEN rcode ELSE donorSeq)
                 ELSE UNCHANGED joinMsg

\* full_sst: donate the donor's whole state (state_uuid_, donor_seq); a
\* callback failure or a null SST request joins with -ECANCELED.
DonorFullSst(r) ==
    /\ UNCHANGED <<lockCount, lockSeqno, sender>>
    /\ IF r.sst # "empty"
       THEN \/ StartSst(FALSE, Gtid(G, donorSeq)) /\ UNCHANGED joinMsg
            \/ Join(-ECANCELED) /\ UNCHANGED <<script, db, dsst>>
       ELSE Join(-ECANCELED) /\ UNCHANGED <<script, db, dsst>>

\* process_state_req(), run inside the local-order monitor after draining the
\* apply and commit monitors to donor_seq.
DonorProcessStateReq ==
    /\ strMsg # NoReq
    /\ strMsg' = NoReq
    /\ LET r == strMsg
           istUsable == r.ist.present /\ r.ist.uuid = G
           locked == IstFirst(r) >= cacheLo
       IN \/ /\ SstIsTrivial(r.sst)
             /\ Join(donorSeq)
             /\ UNCHANGED <<lockCount, lockSeqno, sender, script, db, dsst>>
          \/ /\ ~SstIsTrivial(r.sst) /\ istUsable /\ ~locked /\ r.sst = "empty"
             /\ Join(-ENODATA)
             /\ UNCHANGED <<lockCount, lockSeqno, sender, script, db, dsst>>
          \/ /\ ~SstIsTrivial(r.sst) /\ istUsable /\ locked
             /\ DonorIst(r)
          \/ /\ ~SstIsTrivial(r.sst) /\ (~istUsable \/ (~locked /\ r.sst # "empty"))
             /\ DonorFullSst(r)
    /\ UNCHANGED <<jvars, marker, donorSeq, cacheLo, istChan>>

\* The donor application's SST completion callback joins the group with
\* the SST position or an error.
DonorSstSent ==
    /\ dsst.pending
    /\ dsst' = [dsst EXCEPT !.pending = FALSE]
    /\ \E ok \in BOOLEAN : Join(IF ok THEN dsst.seqno ELSE -ECANCELED)
    /\ UNCHANGED <<jvars, marker, db, script, strMsg, donorSeq, cacheLo,
                   lockCount, lockSeqno, sender, istChan>>

\* The joiner's IST receiver accepts data while it is prepared.
ReceiverOpen == istPrepared /\ JoinerAlive

\* IST sender: stream the next write-set from the gcache.
IstSenderSend ==
    /\ sender.pc = "run"
    /\ sender.next <= sender.last
    /\ ReceiverOpen
    /\ sender.next >= cacheLo
    /\ istChan' = Append(istChan, [k |-> "ws", s |-> sender.next])
    /\ sender' = [sender EXCEPT !.next = @ + 1]
    /\ UNCHANGED <<jvars, marker, db, script, strMsg, donorSeq, cacheLo,
                   lockCount, lockSeqno, dsst, joinMsg>>

\* IST sender: end of range; send end-of-stream and release the seqno lock.
IstSenderEndLate ==
    /\ sender.pc = "run"
    /\ sender.next > sender.last + 1
    /\ istChan' = Append(istChan, [k |-> "eos", s |-> 0])
    /\ sender' = [sender EXCEPT !.pc = "done"]
    /\ lockCount' = lockCount - 1
    /\ UNCHANGED <<jvars, marker, db, script, strMsg, donorSeq, cacheLo,
                   lockSeqno, dsst, joinMsg>>
IstSenderEnd ==
    /\ sender.pc = "run"
    /\ sender.next > sender.last
    /\ istChan' = Append(istChan, [k |-> "eos", s |-> 0])
    /\ sender' = [sender EXCEPT !.pc = "done"]
    /\ lockCount' = lockCount - 1
    /\ UNCHANGED <<jvars, marker, db, script, strMsg, donorSeq, cacheLo,
                   lockSeqno, dsst, joinMsg>>

\* IST sender: the receiver is gone or the write-set is no longer in the
\* gcache; the sender exits with an error and releases the seqno lock.
IstSenderFail ==
    /\ sender.pc = "run"
    /\ sender.next <= sender.last
    /\ ~ReceiverOpen \/ sender.next < cacheLo
    /\ istChan' = Append(istChan, [k |-> "err", s |-> 0])
    /\ sender' = [sender EXCEPT !.pc = "failed"]
    /\ lockCount' = lockCount - 1
    /\ UNCHANGED <<jvars, marker, db, script, strMsg, donorSeq, cacheLo,
                   lockSeqno, dsst, joinMsg>>
-----------------------------------------------------------------------------
(* Group layer, gcache and application.                                   *)

\* The group commits a write-set after the view.
GroupCommit ==
    /\ donorSeq < MaxSeqno
    /\ donorSeq' = donorSeq + 1
    /\ UNCHANGED <<jvars, marker, db, script, strMsg, cacheLo, lockCount,
                   lockSeqno, sender, istChan, dsst, joinMsg>>

\* The donor's gcache evicts its oldest write-set; a seqno lock at L keeps
\* every write-set >= L.
GcacheTrim ==
    /\ cacheLo <= donorSeq
    /\ lockCount = 0 \/ cacheLo < lockSeqno
    /\ cacheLo' = cacheLo + 1
    /\ UNCHANGED <<jvars, marker, db, script, strMsg, donorSeq, lockCount,
                   lockSeqno, sender, istChan, dsst, joinMsg>>

\* After request_state_transfer() returned, the donor's successful JOIN
\* makes the joiner JOINED.
JoinerProcessJoin ==
    /\ jpc = "returned"
    /\ jstate = "JOINING"
    /\ joinMsg # <<>>
    /\ joinMsg[1] >= 0
    /\ jstate' = "JOINED"
    /\ jpc' = "joined"
    /\ UNCHANGED <<sstState, sstUuid, sstSeqno, stateUuid, stateSeqno, req, unsafe,
                   tries, istPrepared, marker, db, script, dvars>>

\* process_join() on the joiner: a negative JOIN status from its donor while
\* JOINING (-ENODATA after cache drift, a failed SST or IST launch) is
\* fatal, whatever the joiner thread is doing.
GcsAbortOnFailedJoin ==
    /\ joinMsg # <<>> /\ joinMsg[1] < 0
    /\ JoinerAlive
    /\ jstate = "JOINING"
    /\ jpc' = "aborted"
    /\ UNCHANGED <<jstate, sstState, sstUuid, sstSeqno, stateUuid, stateSeqno, req,
                   unsafe, tries, istPrepared, marker, db, script, dvars>>

\* The application closes the connection while the transfer is under way.
AppClose ==
    /\ JoinerAlive
    /\ jpc \notin {"idle", "returned", "returned_err", "joined"}
    /\ jstate \in {"CONNECTED", "JOINING"}
    /\ jstate' = "CLOSING"
    /\ UNCHANGED <<jpc, sstState, sstUuid, sstSeqno, stateUuid, stateSeqno, req,
                   unsafe, tries, istPrepared, marker, db, script, dvars>>
-----------------------------------------------------------------------------
\* The joiner thread has finished or died, or it waits: on sst_cond_, on
\* the IST stream, or on the donor's JOIN.
JoinerBlocked == jpc \in {"aborted", "returned_err", "joined", "returned",
                           "wait_sst", "ist_recv"}

\* The system may stop once the joiner thread cannot move by itself; the
\* liveness properties tell a finished run from a wait nobody ends.
Terminated == JoinerBlocked /\ UNCHANGED vars

JoinerNext ==
    \/ JoinerPrepare \/ JoinerSendRetry \/ JoinerSendOk \/ JoinerSendNoData
    \/ JoinerSendFailed \/ JoinerSendBlocked \/ JoinerCheckSst \/ JoinerClearPos \/ JoinerRestoreSafe
    \/ JoinerRecvIst \/ JoinerFinal \/ JoinerProcessJoin
ScriptNext == SstScriptFinish \/ SstReceivedEnter \/ SstReceivedLocked
DonorNext ==
    \/ DonorProcessStateReq \/ DonorSstSent
    \/ IstSenderSend \/ IstSenderEnd \/ IstSenderFail

Next ==
    \/ JoinerNext \/ ScriptNext \/ DonorNext
    \/ JoinerSpuriousWakeup
    \/ GroupCommit \/ GcacheTrim \/ GcsAbortOnFailedJoin \/ AppClose
    \/ Terminated

\* Every thread of the joiner and the donor keeps running; the SST script
\* eventually finishes (it has its own timeouts).  The group committing,
\* the gcache trimming and the application closing are never forced.
Fairness ==
    /\ WF_vars(JoinerNext)
    /\ WF_vars(ScriptNext)
    /\ WF_vars(DonorNext)
    /\ WF_vars(GcsAbortOnFailedJoin)

Spec == Init /\ [][Next]_vars
FairSpec == Spec /\ Fairness
-----------------------------------------------------------------------------
(* Properties.                                                             *)

TypeOK ==
    /\ jpc \in {"idle", "send", "wait_sst", "check_sst", "clear_pos", "restore_safe",
                "ist_recv", "final", "returned", "returned_err", "joined", "aborted"}
    /\ jstate \in {"CONNECTED", "JOINING", "JOINED", "CLOSING"}
    /\ sstState \in {SstStates[i] : i \in 1..Len(SstStates)}
    /\ {sstUuid, stateUuid, marker.uuid, db.uuid} \subseteq Uuids
    /\ {sstSeqno, stateSeqno, marker.seqno, db.seqno} \subseteq -1..MaxSeqno
    /\ marker.safe \in BOOLEAN /\ marker.corrupt \in BOOLEAN /\ db.ok \in BOOLEAN
    /\ unsafe \in BOOLEAN /\ istPrepared \in BOOLEAN
    /\ tries \in 0..MaxRetries + 1
    /\ script.pc \in {"listening", "receiving", "result", "locking", "done"}
    /\ cacheLo \in 0..MaxSeqno + 1
    /\ lockCount \in Int
    /\ sender.pc \in {"idle", "run", "done", "failed"}
    /\ Len(joinMsg) <= 1

\* Crash safety of the recovery marker.  If the joiner process dies in any
\* state, a marker that restart would trust (safe, not corrupt, defined
\* history) describes the data on disk: same history, intact data, and a
\* seqno that is either undefined (recover from the engine) or the data's.
\* A trivial SST is excluded: there the application vouches for its data.
Trusted(m) == m.safe /\ ~m.corrupt /\ m.uuid # Nil
RecoverySound ==
    (req = NoReq \/ ~SstIsTrivial(req.sst)) /\ Trusted(marker)
        => /\ db.ok
           /\ db.uuid = marker.uuid
           /\ marker.seqno \in {Undefined, db.seqno}

\* A joiner that the group declares JOINED holds the group's state: the
\* history is the group's, the data intact and at least at the view's
\* seqno, and the apply position is the data's.
JoinedHasGroupState ==
    jstate = "JOINED" /\ ~SstIsTrivial(req.sst)
        => /\ db.ok /\ db.uuid = G /\ stateUuid = G
           /\ db.seqno >= ViewSeqno
           /\ stateSeqno = db.seqno

\* The joiner's data is what everything that vouches for it says: neither
\* a marker that a restart would trust nor the group's JOINED ever stands
\* for data an SST has damaged or that belongs to another history.
JoinerStateTrusted == RecoverySound /\ JoinedHasGroupState

\* The IST write-set the joiner is about to apply is the one right after
\* its current position: the bypass SST position and the first seqno of
\* the stream agree, and nothing is lost, repeated or reordered.
IstContiguous ==
    jpc = "ist_recv" /\ istChan # <<>> /\ Head(istChan).k = "ws"
        => Head(istChan).s = stateSeqno + 1

\* A joiner blocked on sst_cond_ is eventually woken.
SstWaitEnds == (jpc = "wait_sst") ~> (jpc # "wait_sst")

\* The joiner's single wait on sst_cond_ (line 841) keeps its contract:
\* it ends, and the joiner declares the SST failed (SST_FAILED, the marker
\* set to the received position, abort()) only on a result the SST script
\* reported through sst_received().  A result reported before the
\* wait, and a return from the wait without a signal, each break one half.
SstWaitSound ==
    /\ SstWaitEnds
    /\ [][sstState' = "FAILED" => script.pc' = "done"]_<<sstState, script>>

\* A joiner receiving IST eventually leaves recv_IST.
IstRecvEnds == (jpc = "ist_recv") ~> (jpc # "ist_recv")

\* Both places where request_state_transfer() blocks its thread -- the wait
\* on sst_cond_ and recv_IST() -- keep their contract: each wait ends, and
\* an SST failure is declared only on a result sst_received() delivered.
JoinerWaitsSound == SstWaitSound /\ IstRecvEnds

\* A delivered STATE_REQ eventually gets a JOIN from the donor, whichever
\* way process_state_req() and its deferred SST completion end.
DonorJoins == (strMsg # NoReq) ~> (joinMsg # <<>>)

\* A gcache seqno lock taken by the donor is eventually released.
SeqnoLockReleased == (lockCount > 0) ~> (lockCount = 0)
-----------------------------------------------------------------------------
(* Refinement: the joiner's durable state behaves as JoinerState says.    *)
(* The abstract data is the data image, except after a trivial SST, where *)
(* the application's state is the position the replicator installed.  The *)
(* recovery position is the marker when a restart would trust it.        *)

AData ==
    IF req # NoReq /\ SstIsTrivial(req.sst)
    THEN [uuid |-> stateUuid, seqno |-> stateSeqno, ok |-> TRUE]
    ELSE db
ARecov == IF Trusted(marker) THEN Gtid(marker.uuid, marker.seqno) ELSE Gtid(Nil, Undefined)

JS == INSTANCE JoinerState WITH
        Histories <- {G, OtherUuid},
        data <- AData, recov <- ARecov, joined <- (jstate = "JOINED")

\* Every step of the joiner, its SST script, the donor and the IST stream
\* is a step of JoinerState: the data image is replaced only by a group
\* snapshot at or after the view, advanced one write-set at a time, and
\* damaged or replaced only while the marker is untrusted; the marker
\* never becomes trusted for data it does not describe; and the node is
\* JOINED only with the group's state, which it then keeps.
JoinerStateRefined == JS!Spec
=============================================================================
