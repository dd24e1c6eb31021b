# TLA+ models of Galera state transfer

This directory holds TLA+ models of the state-transfer coordinator in
`src/galera/src/replicator_str.cpp`, the TLC configurations that check them, and
`PROJECT.json`. `PROJECT.json` lists the components, runs, mutants,
source map, findings and hazards.

## The system

When a node joins a group whose history is ahead of its own, it gets the missing
state from a donor. The donor sends it as one of:

* an **SST**, a full snapshot copied by an external script;
* an **IST**, a replay of the missing write-sets from the donor's write-set cache
  (the gcache);
* an SST in **bypass** mode followed by an IST. The bypass SST only tells the
  joiner's script where the IST will start.

Five parties take part:

| Party | Code | Role |
|---|---|---|
| joiner thread | `request_state_transfer()`, `send_state_request()`, `prepare_state_request()`, `prepare_for_IST()`, `recv_IST()` | builds the request, marks the recovery marker, waits for the SST, receives the IST, installs the position |
| joiner SST script thread | `sst_received()` | stores the SST result under `sst_mutex_` and signals `sst_cond_` |
| donor receiver thread | `process_state_req()`, `donate_sst()` | decodes the request, locks the gcache, starts the SST callback and/or the IST sender, JOINs the group |
| donor IST sender | `ist_senders_.run()` (not under `src/`) | streams `last_applied+1 .. cc_seqno_`, then releases the gcache lock |
| group layer | `gcs_.request_state_transfer()`, `gcs_.join()`, `process_join()` | delivers STATE_REQ; a negative donor JOIN is fatal to a joining joiner |

The joiner persists a recovery marker (grastate: uuid, seqno, `safe`,
`corrupt`) next to its data. A crash may happen at any point. On restart, a
trusted marker (safe, not corrupt) decides whether an IST is enough.

The request travels in an envelope. v0 is the SST request bytes alone. v1 is
`"STRv1\0"`, then a u32 SST length and the SST bytes, then a u32 IST length and
an IST descriptor `uuid:last-group|peer`.

The gcomm backend (`src/gcs/src/gcs_gcomm.cpp`) connects gcs to the gcomm
transport. It has a receive buffer shared by the gcomm thread and the gcs
receive thread, and a connection lifecycle. The arbitrator `garbd`
(`src/garb`) starts, optionally turns itself into a daemon, and runs its
receive loop. An EVS unit test makes up the rest of `src/`.

## Modules

### `StateTransfer.tla`: joiner, donor, SST script, IST sender, gcache

The model has one joiner and one donor.

**State.**

* `jpc` is the joiner thread's position in `request_state_transfer()`.
* `jstate`, `sstState`, `sstUuid`/`sstSeqno`, `stateUuid`/`stateSeqno`,
  `istPrepared`, `unsafe` and `tries` are the members and locals of the same
  names.
* `marker` is the persisted recovery marker and `db` the joiner's data image.
  Together they are everything a crash keeps.
* `script` is the SST script and its `sst_received()` call.
* The donor side is:
  * `strMsg`, the delivered STATE_REQ;
  * `donorSeq`, the donor's last committed seqno;
  * `cacheLo`, `lockCount` and `lockSeqno`, the gcache window and the seqno lock;
  * `sender`, the IST sender thread;
  * `istChan`, the IST TCP stream, ordered and lossless;
  * `dsst`, an SST whose JOIN is deferred to the completion callback;
  * `joinMsg`, the donor's first JOIN.

**Joiner steps.** There is one action per step between two persisted writes, so
every reachable state is a possible crash point:

* `JoinerPrepare`: prepare, lock, `mark_unsafe`, `SST_WAIT`;
* `JoinerSendRetry`, `JoinerSendOk`, `JoinerSendNoData`, `JoinerSendFailed` and
  `JoinerSendBlocked`: the outcomes of `send_state_request()`.
  * `JoinerSendBlocked` is the request delivered, after which `would_block()`
    turns the result into `-EDEADLK`.
  * Both failures share `SendFailure`, the branch after the loop.
* `JoinerCheckSst`: cancelled, wrong history, or install;
* `JoinerClearPos`: the seqno is reset to -1;
* `JoinerRestoreSafe`: `mark_safe`, then the IST decision;
* `JoinerRecvIst`: one IST message;
* `JoinerFinal`;
* `JoinerSpuriousWakeup`: `lock.wait(sst_cond_)` returns without a signal.
  POSIX allows this, and the wait is not in a loop, so the action is part of
  every run and gets no fairness.

**SST script.** `sst_received()` is split at the mutex. `SstReceivedEnter` is
the part before the lock, which sets `SST_CANCELED` without holding it.
`SstReceivedLocked` stores the result and signals; the signal wakes the joiner
only if it is waiting.

**Donor steps.** `DonorProcessStateReq` is one atomic step, because it runs
inside the local-order monitor. `DonorOrder` models how the handler orders
itself in that monitor. It covers every branch of the handler: skip,
`-ENODATA`, the IST branch (`DonorIst`: bypass, sender start, scope guard) and
full SST (`DonorFullSst`). The remaining donor actions are `DonorSstSent`,
`IstSenderSend`, `IstSenderEnd` and `IstSenderFail`.

**Environment.** `GroupCommit` and `GcacheTrim` move the donor's seqno and cache
window. `GcsAbortOnFailedJoin` and `JoinerProcessJoin` are `process_join()`, and
`AppClose` is `close()`.

**Modelled from the spec.** Code for the marker store, the IST sender/receiver,
the gcache, `sst_sent` and `process_join` is not under `src/`. Those definitions
are modelled from `spec.md` and marked `spec_modelled` in the map.

**`Faults`.** This constant turns on collaborator behaviour outside the
contract assumed by the passing run:

* `early_callback`: the SST script reports before the joiner has called
  `request_state_transfer()`;
* `failed_sst_group_uuid`: a failed SST is reported with the group uuid;
* `blocked_send_on_close`: the local monitor refuses the slot of a delivered
  request while the application is closing.

  The passing run allows `JoinerSendBlocked` only on a live connection, so
  this interleaving is left to the `transfer_joiner_state` run.

### `JoinerState.tla`: what state transfer promises the joiner

This is the abstract specification. It has no threads, messages or marker
protocol, only three variables:

* `data`: the application's state (history, seqno, intact);
* `recov`: the position a restart would trust, or `NoPosition`;
* `joined`: the node is JOINED.

Its actions:

* `Mark`: the recovery position is rewritten, and every step must leave it
  either untrusted or describing the data.
* `Corrupt`: the data stops being intact, and the position becomes untrusted
  in the same step.
* `Install`: a group snapshot at or after the view replaces data that was not
  trusted.
* `Adopt`: a trivial SST declares the application's state to be the group's
  at the view.
* `Apply`: the next write-set is applied to intact data of the group's
  history.
* `Join`: the node joins holding the group's state.

Nothing replaces or damages the data once the node has joined.

`StateTransfer` instantiates it as `JS` with a refinement mapping:

* `data` is the data image `db`. After a trivial SST it is instead the
  position the replicator installed, because the application vouches for its
  own data.
* `recov` is the marker when `Trusted`, and `NoPosition` otherwise.
* `joined` is `jstate = "JOINED"`.

`JoinerStateRefined == JS!Spec` is a `PROPERTY` of the `transfer` run. It says
every step of the five parties is a `JoinerState` step.

### `StrCodec.tla`: the request envelope

`EncodeV1`, `DecodeV1`, `DecodeV0` and `ReadStateRequest` are operators over
byte sequences, translated line by line from the two `StateRequest_v1`
constructors, the accessors and `read_state_request()`. Small actions drive
them:

* `EncodeReqV0` and `EncodeReqV1`: the joiner encodes a request;
* `Damage`: a truncated, extended or altered buffer reaches the donor;
* `Decode`: the donor decodes what it received.

`hi` records the highest byte position the decoder reads, so out-of-bounds
reads show up as a property violation.

### `IstDescriptor.tla`: the IST descriptor text

`Format` is `operator<<` for `IST_request`. `ParseIstRequest` is `operator>>`
for it, applied to a fresh `IST_request` as `get_ist_request()` does. Each
stream extraction is its own reader over a sequence of one-character strings:

* `ReadUuid`, `ReadChar`, `ReadLong` and `ReadString` each skip white space;
* `ReadUuid` throws on a field that is present but no UUID, as galerautils'
  extractor does (a scan exception), and fails the stream on a missing one;
* the parse records the three separator characters it consumed (`seps`);
* a failed extraction fails every later one;
* fields that are never reached keep their defaults.

A whole UUID field is one symbol, because its stream operators are not under
`src/`. The actions are:

* `WriteDescriptor`: `prepare_for_IST()` writes the descriptor;
* `Damage`: one character is changed;
* `ReadDescriptor`: `get_ist_request()` reads it.

### `RequestWire.tla`: the request from joiner to donor

This module composes the two codecs. It instantiates `StrCodec` as `C`, over
its own variables, and `IstDescriptor` as `D`, whose `result` is `istr`. The
actions are:

* `JoinerPrepareV0`: `C!EncodeReqV0`.
* `JoinerPrepareV1`: `prepare_for_IST()` either writes a descriptor or throws.
  The descriptor text becomes the C string `strdup()` makes, and `IstReq` sends
  `strlen + 1` bytes, NUL included. That string and the SST request are wrapped
  by `C!EncodeV1`.
* `Damage`: `C!Damage`.
* `DonorRead`: `C!Decode`, then `D!ParseIstRequest` on the characters of the
  IST part when it is not empty, as `get_ist_request()` does.

Characters are carried as their ASCII bytes (`Ascii`, checked injective). A
UUID symbol is one byte.

### `GCommBackend.tla`: the gcomm backend of gcs

This module models `RecvBuf`, the `GCommConn` lifecycle, and the backend
entry points `gcomm_open`, `gcomm_close`, `gcomm_destroy`, `gcomm_recv`,
`gcomm_msg_size` and `gcomm_send`. Four threads share one connection:

* **gcomm thread.** `RunStart` is the start barrier and the `error_` check.
  `LoopCheck` reads `terminated_`. `EventLoop` is one `handle_up()` upcall,
  pushing a member's message or a view, or an idle return. `EventError` is a
  gcomm exception: `handle_up()` runs `close(true)` on the gcomm thread itself.
  `ErrorExit` leaves the critical section and exits.
* **gcs receive thread.** `RecvWait` is `front()` waiting with `waiting_` set,
  forever or with a deadline. `RecvWake` is the signal or timeout, after which
  `~Waiting` runs. `RecvHead` is one `gcomm_recv()` with a message at the head:
  it is copied and popped if it fits. Otherwise the call returns
  `GCS_MSG_ERROR` with `msg->size` and the message stays at the head. gcs grows
  its buffer to a larger returned size, and a self-leave ends the thread.
* **Application thread.** `AppOpen` is `connect()` with its failure points.
  `close()` is split at its locks and join: `AppClose` (the unlocked
  `tp_ == 0` test), `AppCloseTerminate`, `AppCloseJoin` and
  `AppCloseTransport`. The other actions are:
  * `AppCloseThrow`: the catch block of `gcomm_close()`;
  * `AppCloseRecvJoin`: `gcs_close()` joining its receive thread
    (`spec_modelled`);
  * `AppDestroy` and `AppDestroyJoin`: `~GCommConn`. gcs destroys the
    connection only when no other call on it is in progress.
* **Caller thread.** It sets the packet size while the connection is open
  (`gcs_conf_set_pkt_size()` in `gcs.hpp`), which reaches `gcomm_msg_size()`.
  `get_mtu()` takes no lock, so it is split in two: `MsgSizeCheck` is the
  `tp_ == 0` test, and `MsgSizeRead` is the call of `tp_->mtu()`. `mtuStale`
  records a call on a transport that was deleted in between.
  It also sends actions through `gcomm_send()`, split at its Protonet
  critical section:
  * `SendStart` is the `Ref` check and the switch to the gcomm thread's
    scheduling parameters. A failure of that switch only stores an errno
    that the critical section overwrites.
  * `SendCrit` returns `ECONNABORTED` if `error_` is set. Otherwise
    `send_down()` hands the datagram on or refuses it.
  * `SendReturn` restores the parameters. With the `sched_restore` fault,
    that throws and replaces `err`.

  `sendHanded` and `sendLied` record whether the datagram was handed on, and
  whether a returned result disagreed with that. gcs's core send lock keeps
  `gcs_close()` out while a send is in progress, so `AppClose` waits for the
  caller to leave `gcomm_send()`.

`net` is the Protonet lock when a thread holds it across steps. `pushed` and
`delivered` are history variables. `badJoin` records a join of a thread that
was never created or was already joined. `Faults` enables transport errors,
thread creation failure, a throwing transport close, and a failing restore
of scheduling parameters.

### `DonorOrder.tla`: the state request among the donor's write-sets

This module models how `process_state_req()` (with `donate_sst()`) orders
itself against the write-sets gcs delivers around it.

* The request has local seqno `strSlot`, anywhere among `Actions` actions.
* Write-sets before it have global seqnos `1..donor_seq`.
* A write-set passes through the steps `WsEnterLocal`, `WsLeaveLocal`,
  `WsApply` and `WsCommit`. The commit monitor orders commits by global seqno
  unless `co_mode_` is `BYPASS`.

The donor thread's steps follow lines 335-504:

* `DonorEnter`: `local_monitor_.enter()`.
* `DonorDrainApply` and `DonorDrainCommit`: the two drains, both up to
  `donor_seq`. The commit drain is skipped under `BYPASS`.
* `DonorProcess`: the handler's choice. A trivial SST, an IST without an SST
  part, or a failure goes to `out`. A full or bypass SST calls `donate_sst()`.
* `DonorCallback`: the application's callback and its status.
* `DonorLeave`: `local_monitor_.leave()`, then `gcs_.join()` when `join_now`
  is set or `rcode < 0`.

The monitor code is not in this repository. The monitors are modelled as spec
section 4.6 describes them: one action at a time in local order, and drains
that wait for every write-set up to their bound. Those definitions are
`spec_modelled`.

### `Garbd.tla`: arbitrator start-up

This module models `garb::main()` and `become_daemon()` in
`src/garb/garb_main.cpp`. It has three processes: `garbd` (the original),
`child` (the first fork) and `daemon` (the second fork). Each has a `pc`, an
exit `status`, and the following state:

* whether it is a session `leader`;
* whether it has a controlling terminal (`ctty`);
* what its descriptors 0-2 refer to (`fds`).

The actions, in code order:

* `Start`: `Config` exits, throws, or leads on to daemon mode or the loop.
* `Chdir`: both `chdir` calls.
* `Fork(p)`: the fork at line 30 or line 56. The child copies the
  descriptors and the terminal.
* `ParentExit(p)`: `exit(0)` in the parent of a fork.
* `Setsid`: `setsid()` in the first child.
* `CloseStd`: `close(0..2)` in the daemon.
* `OpenNull`: one `open("/dev/null")`. It takes the lowest closed descriptor
  (`LowestClosed`), as POSIX requires, not the loop's `fd`.
* `RecvLoopEnd(p)`: the receive loop ends with status 0 or 1.

Every system call in `Faults` may fail. Its exception reaches the outer
`main()`, which returns 1.

In `Init`, the launcher may have left any of descriptors 0-2 closed, as a
service manager or a shell with `<&-` does.

## Runs

| Run | Expect | Checks |
|---|---|---|
| `transfer` | pass | `TypeOK`, `RecoverySound`, `JoinedHasGroupState`, `IstContiguous`; liveness `SstWaitEnds`, `SeqnoLockReleased`, `DonorJoins`; refinement `JoinerStateRefined` |
| `transfer_joiner_waits` | violation | `JoinerWaitsSound` (`SstWaitSound` and `IstRecvEnds`): the joiner thread's two blocking waits break their contract. A spurious return from the wait on `sst_cond_` (line 841) makes the joiner declare `SST_FAILED` and abort before the script has reported. A result delivered before the joiner takes `sst_mutex_` is lost, and the joiner waits forever. A donor that cannot serve the announced IST, followed by the application closing, leaves the joiner in `recv_IST()` |
| `transfer_joiner_state` | violation | `JoinerStateTrusted` (`RecoverySound` and `JoinedHasGroupState`): in the shortest trace, the local monitor refuses a delivered request (`-EDEADLK`) while the connection closes. The joiner marks its state safe, and the donor's SST overwrites it. With only `failed_sst_group_uuid`, a failed SST carrying the group uuid is installed, and the joiner becomes JOINED on a partial image |
| `donor_order` | pass | `TypeOK`, `SnapshotIsDonorSeq`: whatever the request's place, the commit-order mode and the receive threads' progress, the write-sets applied when the SST callback runs are exactly those up to `donor_seq`, and under ordered commit the commit monitor stands at `donor_seq`. The drains give the lower bound; the request holding its local-order slot gives the upper one. The mutant `DonorEnterReleasing` leaves the slot on entry, as the spec's design notes ask, and a later write-set is then applied inside the snapshot |
| `donor_order_slot` | violation | `SnapshotOutsideLocalOrder`: the non-bypass SST callback runs while the request holds its local-order slot, which the spec's design notes forbid. The write-sets after it wait for the whole snapshot |
| `request_wire` | pass | `EnvelopeRoundTrip`, `DecodeInBounds`, `IstReadBack`: the whole request, descriptor inside the envelope |
| `ist_descriptor_malformed` | violation | `MalformedRejected`: a descriptor whose separators, as `operator>>` consumed them, are not `:`, `-`, `|` is still acted on. TLC's trace: the joiner writes `U1:0-1|h`, the `:` becomes `-`, and the donor reads uuid `U1`, last applied 0, group 1, address `h`; that uuid equals `state_uuid_`, so line 375 locks the gcache and starts the IST rather than rejecting the request. A damaged uuid is no counterexample: the uuid extractor throws, or leaves it undefined and the donor falls back to a full SST |
| `gcomm` | pass | `TypeOK`, `DeliveredInOrder`, `NoLostWakeup`; liveness `ShutdownReturns`. Every fault is enabled, and buffers are smaller than views |
| `gcomm_thread_join` | violation | `ThreadJoinedOnce`: the gcomm thread is not joined exactly once before its connection is freed. There are three causes: after the gcomm thread closes its own connection nobody joins it; `~GCommConn` joins a thread `gu_thread_create()` never created; `gcomm_close()`'s catch block joins the thread a second time |
| `gcomm_caller` | violation | `CallerAnswersTrue`: a backend call from another thread answers wrongly. In the shortest trace, `send_down()` succeeds, restoring the scheduling parameters throws, and `gcomm_send()` reports the sent datagram as failed. With `Faults = {"transport_error"}`, TLC instead shows `get_mtu()` passing its `tp_` check while the gcomm thread's error path deletes the transport, and `mtu()` being called on it |
| `garbd` | pass | `TypeOK`, `DaemonDetached`: with every system call able to fail and any launcher descriptors closed, only the grandchild reaches the receive loop in daemon mode. It is not a session leader, has no controlling terminal, and has 0-2 on `/dev/null` |
| `codec_magic_nul` | violation | `VersionByFullMagic`: a v0 request starting with `STRv1` is parsed as v1 |

What the properties of the passing runs say:

* **`RecoverySound`.** This is crash safety. Whenever the marker would be
  trusted on restart, it matches the data on disk: same history, data intact,
  and seqno either -1 or the data's. It covers every write order in
  `request_state_transfer()` and `recv_IST()`.
* **`JoinedHasGroupState`.** A JOINED joiner has the group's history and is at
  or past the view's seqno, and its apply position is its data's.
* **`IstContiguous`.** The next IST write-set is always the joiner's position
  plus one.
* **`SstWaitEnds`, `SeqnoLockReleased` and `DonorJoins`.** These say the joiner's
  SST wait ends, the lock is released, and the donor JOINs on every path.
* **`JoinerStateRefined`.** The refinement above. It also checks things no
  invariant states:
  * an SST installs a snapshot at or after the view, and only over data a
    restart would not trust;
  * IST moves the data one write-set at a time;
  * a JOINED node's data is never replaced;
  * the bypass SST position reported to the joiner is its own last applied
    seqno. The mutant `BypassGtidGroup` reports the group seqno instead and
    breaks it.

* **`EnvelopeRoundTrip` and `DecodeInBounds`.** These are `StrCodec`'s
  properties over the real IST buffers.
* **`IstReadBack`.** It holds only in this form: the donor reads the joiner's
  history and seqnos, and the address with the NUL terminator attached.
  `operator>>` into a `std::string` stops only at white space, and the IST part
  carries the NUL. The donor passes that string to the IST sender, which is not
  under `src/`, so whether the NUL matters there is left open. It is listed as
  a hazard.

* **`DeliveredInOrder`.** What gcs was handed, followed by what is queued, is
  exactly what `handle_up()` pushed. It covers oversized messages, timeouts and
  self-leaves.
* **`NoLostWakeup`.** A receive thread waiting without a deadline never has a
  message queued for it.
* **`ShutdownReturns`.** Once called, `gcs_close()` and `gcs_destroy()`
  return. This needs three things. `close()` must reach the gcomm thread
  through `terminated_` and join it without holding the Protonet lock. The
  self-leave or error message must reach the receive thread even when it does
  not fit, which needs `gcomm_recv()` to report the message's size so gcs can
  grow its buffer. `~GCommConn`'s join must find the thread gone or leaving.
  The mutant `RetSizeStale` leaves `msg->size` stale for an oversized message,
  as the error branch does. The receive thread then returns the same message
  forever, and `gcs_close()` never returns.

The `transfer_joiner_waits` run reports the spurious-wakeup half first, as a
violated action property. The other halves appear when TLC checks the
conjuncts on their own, with `SPECIFICATION FairSpec`:

* `PROPERTY SstWaitEnds` under the same `Faults` shows the early-callback
  half: a joiner that waits forever.
* `PROPERTY IstRecvEnds` with no `Faults` shows the IST hang.

`transfer_joiner_state` shows its second trace when `Faults` is
`{"failed_sst_group_uuid"}`.

The `gcomm_thread_join` run reports the shortest of its three traces. The
findings name all three causes. The gcomm thread closing its own connection
appears with `Faults` set to `{"transport_error"}`. The catch-block double join
appears with `{"close_throws"}`.

Every property of a passing run has a mutant in `PROJECT.json`: a plausible bug
in the mapped code that TLC catches. For example, the scope guard keeping the
lock when the sender failed to start, or the bypass position disagreeing with
the first IST seqno.

## Bounds

**`MCStateTransfer`:**

* The view is at seqno 2, and the group may commit one more (`MaxSeqno = 3`).
* The joiner starts at -1, 0 or 1, with the group's history or another one, and
  with or without a persisted seqno.
* Protocol versions are 0 and 1. SST requests are empty, trivial or real.
* There is one send retry.

These bounds reach every branch: IST of one or two write-sets, the cache
trimming past the request before the donor sees it, bypass SST followed by IST,
and failed IST launch. The `transfer` run, with spurious wakeups and the
refinement, has 269,520 distinct states and takes about 80 s. TLC coverage
shows every action firing.

**`MCRequestWire`:**

* SST requests are empty or `t\0`.
* There is one history.
* Seqnos are 0, 1 and 10, so the number of digits changes.
* Addresses have one or two characters.
* One damaging step is allowed, writing 0, 7 or `:`.

The run has 2,427 distinct states.

**`MCStrCodec`** (its violation runs):

* SST payloads are empty, `t\0` (like `trivial\0`), and `STRv1A` (v0 text that
  starts with the magic).
* IST payloads are empty or one byte.
* One damaging step is allowed. It can cut the buffer at any length, append a
  byte, or change any byte to 0 or 7.

This covers every decoder check with a buffer that fails it and one that
passes it.

**`MCIstDescriptor`** (its violation run):

* There are two UUIDs.
* Seqnos are 0, 1, 9 and 10, so a seqno can change its number of digits.
* Addresses have one or two characters.
* One damaging step is allowed. It writes a foreign character, a digit, a blank
  or a separator at any position.

**`MCGCommBackend`:**

* Messages of size 1 and 2, and buffers of 1 and 2, so some messages do not
  fit.
* Views of size 2.
* The self-leave and error messages have size 1 and fit every buffer. An
  empty component message is far smaller than gcs's receive buffer, and
  `gcomm_recv()`'s error branch does not set `msg->size`. With a larger error
  message, the receive thread would spin on the stale size (the hazard at line
  720). That case is unreachable with gcs's buffer.
* At most 3 pushed messages: enough for a view, data, and the leave or error.
* The `gcomm` run has 150,770 distinct states and takes about 20 seconds.

**`MCDonorOrder`:**

* Four actions: the request and three write-sets. Every place of the request
  is chosen in `Init`, so write-sets are drained before it and held up
  behind it.
* Both commit-order modes.
* 1,035 distinct states.

**`MCGarbd`:**

* Daemon mode on and off.
* Every launcher state of descriptors 0-2.
* All four system-call faults enabled.
* 456 distinct states. The run checks safety only. Every process ends by
  exiting, so `Done` is the only stuttering step.

## Fairness

* The joiner thread, the SST script and the donor threads each get weak
  fairness. They are threads that run whenever they can.
* The group layer's delivery of a fatal JOIN also gets weak fairness.
* Group commits, cache trimming and `close()` get none, because nothing in the
  code forces them. Nor does a spurious wakeup: `SstWaitEnds` relies on the
  signal.

In `GCommBackend`, the gcomm thread and the gcs receive thread each get weak
fairness. So does the application thread once it is inside `gcs_close()` or
`gcs_destroy()`: those calls run to the end unless a step is blocked. Opening,
closing, destroying and setting the packet size get no fairness, because they
are the application's choice. Weak fairness is enough for the Protonet lock on
the close path: the gcomm thread holds it across steps only once, on its error
path, and then releases it.

`Terminated` lets the system stop once the joiner thread cannot move by itself.
The liveness properties then separate a finished run from a wait nobody ends.
This is why the `transfer` run checks deadlock and still reports hangs as
liveness violations.

## Not modelled (yet)

* **Monitor internals and the joiner's monitors.** `DonorOrder` models the
  monitors only as far as spec section 4.6 describes them. The process window
  (`would_block`), `self_cancel`, and the joiner's resets and drain are left
  out. In `StateTransfer`, `process_state_req()` is still one step, and the
  joiner's `self_cancel` and `would_block` are folded into its send
  outcomes.
* **The other calls into gcomm.** `param_set` and `status_get` are not
  modelled. Each does its whole access under the Protonet lock: it checks
  `error_`, or `tp_ != 0` in `get_status()`, and forwards the call to gcomm,
  which is not in these sources. `SendCrit` abstracts what `send_down()`
  does to the transport as "handed on" or "refused". A sent datagram is not
  fed back as a delivered message.
* **gcs order of calls.** gcs calls `gcomm_destroy` only after `gcs_close()`
  has joined its receive thread. `GCommConn::Ref` counts nothing, so the model
  takes that order as given.
* **Lost wakeup as liveness.** A lost wakeup shows up as a deadlock of
  `gcs_close()`, not as a liveness violation, so `NoLostWakeup` states it as
  an invariant.
* **The rest of `garbd` and the EVS unit test.** The following are not
  modelled:
  * `Garbd` does not model working directories or `getcwd`. It also does not
    model that descriptors 1 and 2 are opened `O_RDONLY`.
  * The receive loop (`garb_recv_loop.cpp`) is not under `src/`.
  * `garb_gcs.hpp` only declares a wrapper.
  * The EVS test exercises code that is not in these sources.

  If the launcher left a descriptor 0-2 closed, a file `Config` opens (the
  log file) could land on it, and `close()` would then take it away. That
  code is not under `src/` either.
  The first parent exits 0 before the later steps of daemonization can fail.
  This is listed as a hazard.
* **Empty v1 envelopes.** The encoder and decoder accept a v1 envelope with
  both parts empty, although spec section 3 calls it malformed. This is listed
  as a hazard. Its only effect is the full-SST fallback with no request, which
  the donor answers with a negative JOIN, and `StateTransfer` models that.
* **Byte order.** The codec writes lengths with `htogl` (galera order,
  little-endian). The spec says big-endian. The models do not depend on it, and
  `htogl` is not under `src/`.

## Plan for further work

1. **IST receiver after cancellation.** The `SST_CANCELED` path at line 853
   returns with `ist_prepared_` still set. A property needs `close()`, which is
   not under `src/`.
2. **Liveness of the joiner outcome.** Once a refinement with fairness is in
   place, add to `JoinerState` a property that every joiner ends JOINED or
   stopped.
