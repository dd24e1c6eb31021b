---------------------------- MODULE GCommBackend ----------------------------
(***************************************************************************)
(* The gcomm backend of gcs, src/gcs/src/gcs_gcomm.cpp: RecvBuf, the      *)
(* GCommConn lifecycle and the backend entry points gcomm_open,           *)
(* gcomm_close, gcomm_destroy, gcomm_recv, gcomm_msg_size and gcomm_send. *)
(*                                                                         *)
(* Three threads share one GCommConn:                                      *)
(*   - the gcomm thread, run(): the event loop and its handle_up()         *)
(*     upcalls, which push into recv_buf_;                                 *)
(*   - the gcs receive thread, calling gcomm_recv() in a loop;             *)
(*   - the application thread, calling gcs_open(), gcs_close() and         *)
(*     gcs_destroy(), which reach gcomm_open/close/destroy;                *)
(*   - a caller thread, setting the packet size while the connection is   *)
(*     open (gcs_conf_set_pkt_size()), which reaches gcomm_msg_size(), or  *)
(*     sending an action, which reaches gcomm_send().                      *)
(* 'net' is the Protonet lock (gcomm::Critical<Protonet>), taken by the    *)
(* event loop for every upcall and by close() and gcomm_open().  A        *)
(* message is a record [kind, size]; sizes are those of the gcs message   *)
(* gcomm_recv() builds from it.                                            *)
(***************************************************************************)
EXTENDS Integers, Sequences

CONSTANTS
    MsgSizes,   \* payload sizes of data messages from group members
    ViewSize,   \* size of the component message built for a view
    LeaveSize,  \* size of the self-leave component message
    BufLens,    \* receive buffer lengths gcs may start with
    MaxMsgs,    \* bound on messages pushed into recv_buf_
    Faults      \* subset of {"transport_error", "thread_create_fail",
                \* "close_throws", "sched_restore"}

VARIABLES
    apc,        \* application thread: where it is in open/close/destroy
    gpc,        \* gcomm thread: "none" (never created), "start", "loop",
                \* "event", "crit" (in handle_up's error branch, holding
                \* net), "exited", "joined"
    rpc,        \* gcs receive thread: "off", "idle", "wait", "woken", "done"
    conn,       \* "live" or "freed" (delete conn in gcomm_destroy)
    tp,         \* tp_: "none" (0) or "open"
    error,      \* error_: "none" (0), "ENOTCONN", "transport"
    terminated, \* terminated_
    net,        \* holder of the Protonet lock across steps: "none", "gcomm"
    queue,      \* recv_buf_.queue_
    waiting,    \* recv_buf_.waiting_
    timeout,    \* the receive thread's current wait: "eternal" or "finite"
    bufLen,     \* msg->buf_len of the gcs receive buffer
    msgSize,    \* msg->size, kept by gcs between calls
    pushed,     \* every message pushed into recv_buf_, in order
    delivered,  \* every message gcomm_recv() returned and popped, in order
    badJoin,    \* a pthread join of a thread never created or already joined
    cpc,        \* caller thread: "idle"; "mtu" between reading tp_ and
                \* calling tp_->mtu() in get_mtu(); "send_crit" or
                \* "send_restore" before and after gcomm_send()'s
                \* critical section
    mtuStale,   \* get_mtu() called mtu() on a transport deleted after its
                \* tp_ == 0 check
    sendErr,    \* err of the gcomm_send() in progress: "none" (0) or an errno
    sendHanded, \* its datagram was handed to the transport (send_down() = 0)
    sendLied    \* a gcomm_send() returned an error for a datagram it had
                \* handed to the transport, or success for one it had not

callerVars == <<cpc, mtuStale, sendErr, sendHanded, sendLied>>
vars == <<apc, gpc, rpc, conn, tp, error, terminated, net, queue, waiting,
          timeout, bufLen, msgSize, pushed, delivered, badJoin, cpc, mtuStale,
          sendErr, sendHanded, sendLied>>

Kinds == {"data", "view", "leave", "error"}
\* Caller positions inside gcomm_send().
Sending == {"send_crit", "send_restore"}
Msgs == [kind : Kinds, size : MsgSizes \cup {ViewSize, LeaveSize}]
-----------------------------------------------------------------------------
(* RecvBuf                                                                 *)

\* push_back(): append under the mutex and signal the waiter, if any.
SignalNever(w) == FALSE
Signal(w) == w = TRUE
PushBack(m) ==
    /\ queue' = Append(queue, m)
    /\ pushed' = Append(pushed, m)
    /\ rpc' = IF Signal(waiting) /\ rpc = "wait" THEN "woken" ELSE rpc
-----------------------------------------------------------------------------
(* The gcomm thread                                                         *)

\* run(): after the start barrier, leave at once if connect() failed.
RunStart ==
    /\ gpc = "start"
    /\ gpc' = IF error # "none" THEN "exited" ELSE "loop"
    /\ UNCHANGED <<apc, rpc, conn, tp, error, terminated, net, queue, waiting,
                   timeout, bufLen, msgSize, pushed, delivered, badJoin>>

\* run(): the loop head reads terminated_ under mutex_.
LoopCheck ==
    /\ gpc = "loop"
    /\ gpc' = IF terminated THEN "exited" ELSE "event"
    /\ UNCHANGED <<apc, rpc, conn, tp, error, terminated, net, queue, waiting,
                   timeout, bufLen, msgSize, pushed, delivered, badJoin>>

\* net_->event_loop(Sec): one upcall under the Protonet lock.  handle_up()
\* pushes a member's message (sender index found in current_view_) or a
\* view; or the loop returns with nothing.
EventLoop ==
    /\ gpc = "event" /\ net = "none"
    /\ gpc' = "loop"
    /\ \/ /\ Len(pushed) < MaxMsgs
          /\ \E m \in {[kind |-> "data", size |-> s] : s \in MsgSizes}
                      \cup {[kind |-> "view", size |-> ViewSize]} :
                PushBack(m)
       \/ UNCHANGED <<queue, pushed, rpc>>
    /\ UNCHANGED <<apc, conn, tp, error, terminated, net, waiting, timeout,
                   bufLen, msgSize, delivered, badJoin>>

\* handle_up() with err_no set: store error_, close(true) -- terminate(),
\* pthread_join(thd_), forced transport close, tp_ = 0 -- and push the
\* error message.  'joinable' says whether that join is of a live thread
\* other than the caller; a join of the caller itself fails with EDEADLK.
HandleUpError(joinable) ==
    /\ error' = "transport"
    /\ terminated' = TRUE /\ tp' = "none"
    /\ badJoin' = (badJoin \/ ~joinable)
    /\ PushBack([kind |-> "error", size |-> LeaveSize])

\* A gcomm exception caught in run() (or an upcall with err_no set), under
\* the Protonet lock: handle_up() closes the connection from the gcomm
\* thread itself, whose tp_ is still open.
EventError ==
    /\ "transport_error" \in Faults
    /\ gpc = "event" /\ net = "none"
    /\ Len(pushed) < MaxMsgs
    /\ HandleUpError(TRUE)
    /\ net' = "gcomm" /\ gpc' = "crit"
    /\ UNCHANGED <<apc, conn, waiting, timeout, bufLen, msgSize, delivered>>

\* Leaving the catch block releases the Protonet lock; run() breaks out of
\* its loop and the thread exits.
ErrorExit ==
    /\ gpc = "crit"
    /\ net' = "none" /\ gpc' = "exited"
    /\ UNCHANGED <<apc, rpc, conn, tp, error, terminated, queue, waiting,
                   timeout, bufLen, msgSize, pushed, delivered, badJoin>>

GcommNext == RunStart \/ LoopCheck \/ EventLoop \/ EventError \/ ErrorExit
-----------------------------------------------------------------------------
(* The gcs receive thread                                                   *)

\* gcomm_recv() while recv_buf_ is empty: RecvBuf::front() sets waiting_
\* (class Waiting) and waits on cond_, forever or until a deadline.
RecvWait ==
    /\ rpc = "idle" /\ queue = <<>>
    /\ rpc' = "wait" /\ waiting' = TRUE
    /\ \E t \in {"eternal", "finite"} : timeout' = t
    /\ UNCHANGED <<apc, gpc, conn, tp, error, terminated, net, queue, bufLen,
                   msgSize, pushed, delivered, badJoin>>

\* The wait returns: signalled, or timed out (ETIMEDOUT is thrown, caught
\* in gcomm_recv() and returned; gcs calls again).  ~Waiting clears
\* waiting_ and front() checks the queue again.
RecvWake ==
    /\ \/ rpc = "woken"
       \/ rpc \in {"wait", "woken"} /\ timeout = "finite"
    /\ rpc' = "idle" /\ waiting' = FALSE
    /\ UNCHANGED <<apc, gpc, conn, tp, error, terminated, net, queue, timeout,
                   bufLen, msgSize, pushed, delivered, badJoin>>

\* The size gcomm_recv() leaves in msg->size for the head message: the
\* error branch sets it only when the message fits.
RetSizeErrno(h, fits) == IF fits THEN h.size ELSE -1
RetSizeStale(h, fits) == IF fits THEN h.size ELSE msgSize
RetSize(h, fits) == IF fits \/ h.kind # "error" THEN h.size ELSE msgSize

\* Whether gcomm_recv() pops the head: only when it was copied.
PopsOversized(fits) == TRUE
Pops(fits) == fits

\* gcomm_recv() with a message at the head: copy it into msg->buf and pop
\* it if it fits, else return GCS_MSG_ERROR with msg->size and leave it at
\* the head.  gcs grows its buffer to a returned size larger than buf_len
\* and calls again; a self-leave (error or empty view) ends the thread.
RecvHead ==
    /\ rpc = "idle" /\ queue # <<>>
    /\ LET h == Head(queue)
           fits == h.size <= bufLen
           ret == RetSize(h, fits)
       IN /\ msgSize' = ret
          /\ queue' = IF Pops(fits) THEN Tail(queue) ELSE queue
          /\ delivered' = IF fits THEN Append(delivered, h) ELSE delivered
          /\ bufLen' = IF ~fits /\ ret > bufLen THEN ret ELSE bufLen
          /\ rpc' = IF fits /\ h.kind \in {"error", "leave"} THEN "done"
                    ELSE "idle"
    /\ UNCHANGED <<apc, gpc, conn, tp, error, terminated, net, waiting, timeout,
                   pushed, badJoin>>

RecvNext == RecvWait \/ RecvWake \/ RecvHead
-----------------------------------------------------------------------------
(* The application thread                                                   *)

\* gcomm_open() -> connect() under the Protonet lock: error_ = ENOTCONN,
\* create the gcomm thread, create and connect the transport, error_ = 0;
\* the StartBarrier releases the thread however connect() ends.  It fails
\* creating the thread (no barrier), creating the transport, or
\* connecting it.  On success gcs starts its receive thread.
AppOpen ==
    /\ apc = "init"
    /\ \/ /\ gpc' = "start" /\ tp' = "open" /\ error' = "none"
          /\ apc' = "open" /\ rpc' = "idle"
       \/ /\ "thread_create_fail" \in Faults
          /\ gpc' = "none" /\ tp' = "none" /\ error' = "ENOTCONN"
          /\ apc' = "failed" /\ UNCHANGED rpc
       \/ /\ gpc' = "start" /\ error' = "ENOTCONN" /\ apc' = "failed"
          /\ tp' \in {"none", "open"}
          /\ UNCHANGED rpc
    /\ UNCHANGED <<conn, terminated, net, queue, waiting, timeout, bufLen,
                   msgSize, pushed, delivered, badJoin>>

\* close(): 'if (tp_ == 0) return', read without the Protonet lock.
\* gcs_core_close() takes the core send lock, which a sending thread holds
\* across gcomm_send(), before gcs reaches gcomm_close().
AppClose ==
    /\ apc = "open" /\ cpc \notin Sending
    /\ apc' = IF tp = "none" THEN "close_recv" ELSE "close_term"
    /\ UNCHANGED <<gpc, rpc, conn, tp, error, terminated, net, queue, waiting,
                   timeout, bufLen, msgSize, pushed, delivered, badJoin>>

\* close(): terminate() under the Protonet lock.
AppCloseTerminate ==
    /\ apc = "close_term" /\ net = "none"
    /\ terminated' = TRUE /\ apc' = "close_join"
    /\ UNCHANGED <<gpc, rpc, conn, tp, error, net, queue, waiting, timeout,
                   bufLen, msgSize, pushed, delivered, badJoin>>

\* close(): pthread_join(thd_) waits for the gcomm thread to exit.
AppCloseJoin ==
    /\ apc = "close_join" /\ gpc = "exited"
    /\ gpc' = "joined" /\ apc' = "close_tp"
    /\ UNCHANGED <<rpc, conn, tp, error, terminated, net, queue, waiting,
                   timeout, bufLen, msgSize, pushed, delivered, badJoin>>

\* close(): under the Protonet lock, close the transport unless tp_ is
\* already 0; leaving the group delivers the empty view through
\* handle_up() on this thread.
AppCloseTransport ==
    /\ apc = "close_tp" /\ net = "none"
    /\ apc' = "close_recv"
    /\ IF tp = "open"
       THEN /\ tp' = "none"
            /\ PushBack([kind |-> "leave", size |-> LeaveSize])
       ELSE UNCHANGED <<tp, queue, pushed, rpc>>
    /\ UNCHANGED <<gpc, conn, error, terminated, net, waiting, timeout, bufLen,
                   msgSize, delivered, badJoin>>

\* tp_->close() throws: gcomm_close() catches it and, under the Protonet
\* lock, calls handle_up() with the error on the application thread, whose
\* close(true) joins thd_ again -- the gcomm thread it already joined.
AppCloseThrow ==
    /\ "close_throws" \in Faults
    /\ apc = "close_tp" /\ net = "none" /\ tp = "open"
    /\ Len(pushed) < MaxMsgs
    /\ HandleUpError(gpc \notin {"joined", "none"})
    /\ apc' = "close_recv"
    /\ UNCHANGED <<gpc, conn, net, waiting, timeout, bufLen, msgSize,
                   delivered>>

\* gcs_close() joins its receive thread after the backend is closed.
AppCloseRecvJoin ==
    /\ apc = "close_recv" /\ rpc = "done"
    /\ apc' = "closed"
    /\ UNCHANGED <<gpc, rpc, conn, tp, error, terminated, net, queue, waiting,
                   timeout, bufLen, msgSize, pushed, delivered, badJoin>>

\* gcomm_destroy(): backend->conn = 0 and delete conn.  ~GCommConn deletes
\* tp_ if set, then, unless terminated_, terminates and joins the thread.
\* gcs calls it once no other call on the connection is in progress.
AppDestroy ==
    /\ apc \in {"closed", "failed"} /\ cpc = "idle"
    /\ tp' = "none"
    /\ IF terminated
       THEN apc' = "destroyed" /\ conn' = "freed" /\ UNCHANGED terminated
       ELSE apc' = "destroy_join" /\ terminated' = TRUE /\ UNCHANGED conn
    /\ UNCHANGED <<gpc, rpc, error, net, queue, waiting, timeout, bufLen,
                   msgSize, pushed, delivered, badJoin>>

\* ~GCommConn: gu_thread_join(thd_) -- of a thread that never existed when
\* gu_thread_create() failed -- then delete net_.
AppDestroyJoin ==
    /\ apc = "destroy_join" /\ gpc \in {"exited", "none"}
    /\ badJoin' = (gpc = "none")
    /\ gpc' = IF gpc = "exited" THEN "joined" ELSE gpc
    /\ apc' = "destroyed" /\ conn' = "freed"
    /\ UNCHANGED <<rpc, tp, error, terminated, net, queue, waiting, timeout,
                   bufLen, msgSize, pushed, delivered>>

AppNext == AppOpen \/ AppClose \/ AppCloseTerminate \/ AppCloseJoin
           \/ AppCloseTransport \/ AppCloseThrow \/ AppCloseRecvJoin \/ AppDestroy
           \/ AppDestroyJoin
-----------------------------------------------------------------------------
(* The caller thread                                                        *)

\* gcomm_msg_size() -> get_mtu(): 'if (tp_ == 0) gu_throw_fatal', then
\* tp_->mtu(), both without the Protonet lock that close() holds while it
\* deletes tp_.  With tp_ already 0 the call throws and changes nothing.
MsgSizeCheck ==
    /\ cpc = "idle" /\ apc = "open" /\ tp = "open"
    /\ cpc' = "mtu"
    /\ UNCHANGED <<mtuStale, sendErr, sendHanded, sendLied>>

\* tp_->mtu() on the transport seen by the check, whether or not another
\* thread has deleted it since.
MsgSizeRead ==
    /\ cpc = "mtu"
    /\ mtuStale' = (mtuStale \/ tp = "none")
    /\ cpc' = "idle"
    /\ UNCHANGED <<sendErr, sendHanded, sendLied>>

\* gcomm_send(): Ref(backend) finds the connection; with non-default
\* scheduling parameters the thread switches to the gcomm thread's.  A
\* failure there only stores its errno in err, which the critical section
\* always overwrites, so it is not a separate outcome.
SendStart ==
    /\ cpc = "idle" /\ apc = "open"
    /\ cpc' = "send_crit" /\ sendHanded' = FALSE /\ sendErr' = "none"
    /\ UNCHANGED <<mtuStale, sendLied>>

\* Under the Protonet lock: error_ set gives ECONNABORTED; otherwise
\* send_down() hands the datagram on (0) or refuses it with an errno.
SendCrit ==
    /\ cpc = "send_crit" /\ net = "none"
    /\ \/ error # "none" /\ sendErr' = "ECONNABORTED" /\ UNCHANGED sendHanded
       \/ error = "none" /\ sendErr' = "none" /\ sendHanded' = TRUE
       \/ error = "none" /\ sendErr' = "send_down" /\ UNCHANGED sendHanded
    /\ cpc' = "send_restore"
    /\ UNCHANGED <<mtuStale, sendLied>>

\* The thread restores its scheduling parameters; if that throws, err
\* becomes its errno, whatever the critical section found.  The call
\* returns len for err == 0, else -err.
SendReturn ==
    /\ cpc = "send_restore"
    /\ \E e \in {sendErr}
              \cup (IF "sched_restore" \in Faults THEN {"sched"} ELSE {}) :
          sendLied' = (sendLied \/ ((e = "none") # sendHanded))
    /\ cpc' = "idle"
    /\ UNCHANGED <<mtuStale, sendErr, sendHanded>>

CallerNext == MsgSizeCheck \/ MsgSizeRead \/ SendStart \/ SendCrit \/ SendReturn
-----------------------------------------------------------------------------
Init ==
    /\ apc = "init" /\ gpc = "none" /\ rpc = "off"
    /\ conn = "live" /\ tp = "none" /\ error = "none"
    /\ terminated = FALSE /\ net = "none"
    /\ queue = <<>> /\ waiting = FALSE /\ timeout = "eternal"
    /\ bufLen \in BufLens /\ msgSize = 0
    /\ pushed = <<>> /\ delivered = <<>> /\ badJoin = FALSE
    /\ cpc = "idle" /\ mtuStale = FALSE
    /\ sendErr = "none" /\ sendHanded = FALSE /\ sendLied = FALSE

\* Once the connection is destroyed nothing is left to run.
Terminated == apc = "destroyed" /\ UNCHANGED vars

GcommStep == GcommNext /\ UNCHANGED callerVars
RecvStep == RecvNext /\ UNCHANGED callerVars
AppStep == AppNext /\ UNCHANGED callerVars
CallerStep == CallerNext /\ UNCHANGED <<apc, gpc, rpc, conn, tp, error,
    terminated, net, queue, waiting, timeout, bufLen, msgSize, pushed,
    delivered, badJoin>>

Next == GcommStep \/ RecvStep \/ AppStep \/ CallerStep \/ Terminated

Spec == Init /\ [][Next]_vars

\* The gcomm and gcs receive threads are always scheduled; the application
\* thread, once inside gcs_close() or gcs_destroy(), runs them to the end.
\* Opening, closing and destroying at all are the application's choice.
AppShutdownStep ==
    /\ AppCloseTerminate \/ AppCloseJoin \/ AppCloseTransport \/ AppCloseThrow
       \/ AppCloseRecvJoin \/ AppDestroyJoin
    /\ UNCHANGED callerVars

FairSpec == Spec /\ WF_vars(GcommStep) /\ WF_vars(RecvStep)
                 /\ WF_vars(AppShutdownStep)

-----------------------------------------------------------------------------
TypeOK ==
    /\ apc \in {"init", "open", "failed", "close_term", "close_join",
                "close_tp", "close_recv", "closed", "destroy_join", "destroyed"}
    /\ gpc \in {"none", "start", "loop", "event", "crit", "exited", "joined"}
    /\ rpc \in {"off", "idle", "wait", "woken", "done"}
    /\ conn \in {"live", "freed"} /\ tp \in {"none", "open"}
    /\ error \in {"none", "ENOTCONN", "transport"}
    /\ terminated \in BOOLEAN /\ net \in {"none", "gcomm"}
    /\ queue \in Seq(Msgs) /\ waiting \in BOOLEAN
    /\ timeout \in {"eternal", "finite"}
    /\ bufLen \in Nat /\ msgSize \in Nat
    /\ pushed \in Seq(Msgs) /\ delivered \in Seq(Msgs) /\ badJoin \in BOOLEAN
    /\ cpc \in {"idle", "mtu"} \cup Sending /\ mtuStale \in BOOLEAN
    /\ sendErr \in {"none", "ECONNABORTED", "send_down"} /\ sendHanded \in BOOLEAN
    /\ sendLied \in BOOLEAN

\* recv_buf_ neither loses, duplicates nor reorders a message: what the
\* receive thread was handed, followed by what is still queued, is exactly
\* what handle_up() pushed -- across oversized messages left at the head,
\* timed-out waits and the self-leave on close or on a transport error.
DeliveredInOrder == delivered \o queue = pushed

\* No lost wakeup: a receive thread blocked in RecvBuf::front() with no
\* deadline never has a message queued for it.  push_back() and front()
\* agree through waiting_ under the mutex, so the producer signals every
\* wait that could otherwise last forever.
NoLostWakeup == rpc = "wait" /\ timeout = "eternal" => queue = <<>>

\* gcs_close() and gcs_destroy() return once called: close() reaches the
\* gcomm thread through terminated_ and joins it, the self-leave (or the
\* error message) it pushes reaches the receive thread however large it is
\* -- gcomm_recv() reports the size and gcs grows its buffer -- and that
\* thread ends; ~GCommConn's join finds the gcomm thread gone or leaving.
Closing == apc \in {"close_term", "close_join", "close_tp", "close_recv"}
ShutdownReturns ==
    /\ Closing ~> apc = "closed"
    /\ apc = "destroy_join" ~> apc = "destroyed"

\* The gcomm thread is joined exactly once if it was created, never if it
\* was not, and before its GCommConn is freed: close() and ~GCommConn
\* between them must join it on every path, and never join it twice or
\* join a thread id gu_thread_create() did not set.
ThreadJoinedOnce ==
    /\ ~badJoin
    /\ conn = "freed" => gpc \in {"none", "joined"}

\* A call of the backend API from another thread answers from the state it
\* claims to: get_mtu() dereferences only a live transport (no thread
\* deletes tp_ between its tp_ == 0 check and tp_->mtu()), and gcomm_send()
\* returns an error exactly when its datagram was not handed to the
\* transport, so gcs neither resends a sent action nor drops an unsent one.
CallerAnswersTrue == ~mtuStale /\ ~sendLied
=============================================================================
