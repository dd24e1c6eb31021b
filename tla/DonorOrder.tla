----------------------------- MODULE DonorOrder -----------------------------
(***************************************************************************)
(* The donor's ordering of a state request among the write-sets around it *)
(* (ReplicatorSMM::process_state_req(), src/galera/src/replicator_str.cpp, *)
(* with donate_sst()).  gcs delivers actions to the donor in local order, *)
(* 1..Len; one of them, strSlot, is the STATE_REQ, the others write-sets.  *)
(* Write-set s has global seqno Gseqno(s), and donor_seq, the seqno the   *)
(* donor's state is at when the request is delivered, is that of the last *)
(* write-set before it.                                                    *)
(*                                                                         *)
(* The three monitors are as spec section 4.6 gives them (their code is   *)
(* not in these sources): the local-order monitor admits one action at a  *)
(* time in local order; write-sets leave it, then apply (apply monitor,   *)
(* dependency order, taken as any order) and commit (commit monitor, in   *)
(* global order, unless commit order is bypassed).  drain(upto) waits     *)
(* until every write-set up to 'upto' has left the monitor.               *)
(***************************************************************************)
EXTENDS Integers, FiniteSets

CONSTANTS
    Actions,  \* number of actions delivered in local order
    CoModes   \* possible co_mode_: subset of {"bypass", "ordered"}

Slots == 1..Actions

VARIABLES
    strSlot,     \* local seqno (seqno_l) of the STATE_REQ
    coMode,      \* co_mode_: "bypass" or "ordered"
    localLeft,   \* local_monitor_ last_left
    ws,          \* [write-set slot -> "recv", "cert", "apply", "commit",
                 \*  "done"]
    applied,     \* global seqnos that have left the apply monitor
    commitLeft,  \* commit_monitor_ last_left
    dpc,         \* donor thread in process_state_req()
    bypass,      \* the SST callback in progress is a bypass (IST) one
    joinNow,     \* join_now || rcode < 0: process_state_req() joins at out
    joined       \* process_state_req() called gcs_.join()

vars == <<strSlot, coMode, localLeft, ws, applied, commitLeft, dpc, bypass,
          joinNow, joined>>

WsSlots == Slots \ {strSlot}
\* Global seqno of a write-set: the STATE_REQ takes none.
GseqnoNoSkip(s) == s
Gseqno(s) == IF s < strSlot THEN s ELSE s - 1
\* donor_seq: the global seqno of the last write-set before the request.
DonorSeq == strSlot - 1
-----------------------------------------------------------------------------
Init ==
    /\ strSlot \in Slots
    /\ coMode \in CoModes
    /\ localLeft = 0
    /\ ws = [s \in Slots \ {strSlot} |-> "recv"]
    /\ applied = {}
    /\ commitLeft = 0
    /\ dpc = "enter"
    /\ bypass = FALSE /\ joinNow = FALSE
    /\ joined = FALSE

(* A write-set: certification in the local-order monitor, then apply and  *)
(* commit.                                                                 *)

\* LocalOrder::condition(): an action enters when every earlier one left.
MayEnterLocal(s) == localLeft = s - 1

WsEnterLocal(s) ==
    /\ ws[s] = "recv" /\ MayEnterLocal(s)
    /\ ws' = [ws EXCEPT ![s] = "cert"]
    /\ UNCHANGED <<strSlot, coMode, localLeft, applied, commitLeft, dpc,
                   bypass,
                   joinNow, joined>>

WsLeaveLocal(s) ==
    /\ ws[s] = "cert"
    /\ localLeft' = s
    /\ ws' = [ws EXCEPT ![s] = "apply"]
    /\ UNCHANGED <<strSlot, coMode, applied, commitLeft, dpc, bypass,
                   joinNow, joined>>

WsApply(s) ==
    /\ ws[s] = "apply"
    /\ applied' = applied \cup {Gseqno(s)}
    /\ ws' = [ws EXCEPT ![s] = "commit"]
    /\ UNCHANGED <<strSlot, coMode, localLeft, commitLeft, dpc, bypass,
                   joinNow, joined>>

WsCommit(s) ==
    /\ ws[s] = "commit"
    /\ coMode = "bypass" \/ commitLeft = Gseqno(s) - 1
    /\ commitLeft' = IF coMode = "ordered" THEN Gseqno(s) ELSE commitLeft
    /\ ws' = [ws EXCEPT ![s] = "done"]
    /\ UNCHANGED <<strSlot, coMode, localLeft, applied, dpc, bypass,
                   joinNow, joined>>
-----------------------------------------------------------------------------
(* The donor thread: process_state_req().                                  *)

\* local_monitor_.enter(lo) for the request's seqno_l.
DonorEnterReleasing ==
    /\ dpc = "enter" /\ MayEnterLocal(strSlot)
    /\ dpc' = "drain_apply"
    /\ localLeft' = strSlot
    /\ UNCHANGED <<strSlot, coMode, ws, applied, commitLeft, bypass,
                   joinNow, joined>>
DonorEnter ==
    /\ dpc = "enter" /\ MayEnterLocal(strSlot)
    /\ dpc' = "drain_apply"
    /\ UNCHANGED <<strSlot, coMode, localLeft, ws, applied, commitLeft, bypass,
                   joinNow, joined>>

\* apply_monitor_.drain(donor_seq), then commit_monitor_.drain(donor_seq)
\* unless co_mode_ is BYPASS.
DrainUpto == DonorSeq
DonorDrainApply ==
    /\ dpc = "drain_apply"
    /\ 1..DrainUpto \subseteq applied
    /\ dpc' = IF coMode = "bypass" THEN "process" ELSE "drain_commit"
    /\ UNCHANGED <<strSlot, coMode, localLeft, ws, applied, commitLeft, bypass,
                   joinNow, joined>>

DonorDrainCommit ==
    /\ dpc = "drain_commit" /\ commitLeft >= DrainUpto
    /\ dpc' = "process"
    /\ UNCHANGED <<strSlot, coMode, localLeft, ws, applied, commitLeft, bypass,
                   joinNow, joined>>

\* shift_to(S_DONOR), parse the request and choose: a trivial SST, an IST
\* with no SST part, or a failure goes straight to 'out'; a full SST
\* (full_sst) or an IST with an SST part (bypass) calls donate_sst().
DonorProcess ==
    /\ dpc = "process"
    /\ \E kind \in {"out", "bypass", "full"} :
          /\ dpc' = IF kind = "out" THEN "out" ELSE "callback"
          /\ bypass' = (kind = "bypass")
          /\ joinNow' = (kind = "out")
    /\ UNCHANGED <<strSlot, coMode, localLeft, ws, applied, commitLeft, joined>>

\* donate_sst(): sst_donate_cb_ runs the application's SST and returns its
\* status; a failure makes rcode negative, and the join is no longer left
\* to the SST completion callback.
DonorCallback ==
    /\ dpc = "callback"
    /\ dpc' = "out"
    /\ \E ok \in BOOLEAN : joinNow' = ~ok
    /\ UNCHANGED <<strSlot, coMode, localLeft, ws, applied, commitLeft, bypass,
                   joined>>

\* out: local_monitor_.leave(lo), then gcs_.join() if join_now or rcode < 0.
\* Every path that did not call donate_sst() joins here.
DonorLeave ==
    /\ dpc = "out"
    /\ localLeft' = strSlot
    /\ dpc' = "left"
    /\ joined' = joinNow
    /\ UNCHANGED <<strSlot, coMode, ws, applied, commitLeft, bypass, joinNow>>
-----------------------------------------------------------------------------
\* Every action has left every monitor.
Done ==
    /\ dpc = "left" /\ \A s \in WsSlots : ws[s] = "done"
    /\ UNCHANGED vars

Next ==
    \/ \E s \in WsSlots : WsEnterLocal(s) \/ WsLeaveLocal(s) \/ WsApply(s)
                          \/ WsCommit(s)
    \/ DonorEnter \/ DonorDrainApply \/ DonorDrainCommit \/ DonorProcess
    \/ DonorCallback \/ DonorLeave
    \/ Done

Spec == Init /\ [][Next]_vars
-----------------------------------------------------------------------------
TypeOK ==
    /\ strSlot \in Slots /\ coMode \in {"bypass", "ordered"}
    /\ localLeft \in 0..Actions
    /\ ws \in [WsSlots -> {"recv", "cert", "apply", "commit", "done"}]
    /\ applied \subseteq 1..(Actions - 1) /\ commitLeft \in 0..(Actions - 1)
    /\ dpc \in {"enter", "drain_apply", "drain_commit", "process", "callback",
                "out", "left"}
    /\ bypass \in BOOLEAN /\ joinNow \in BOOLEAN /\ joined \in BOOLEAN

\* The state the SST donates is (state_uuid_, donor_seq) exactly: when the
\* application's SST callback runs, the write-sets applied are those
\* ordered before the request and no later one, and under ordered commit
\* the commit monitor stands at donor_seq.  The lower bound comes from the
\* drains; the upper bound from the request holding its local-order slot,
\* so that no later write-set is certified, applied or committed while the
\* snapshot is taken, whatever the receive threads do meanwhile.
SnapshotIsDonorSeq ==
    dpc = "callback" =>
        /\ applied = 1..DonorSeq
        /\ coMode = "ordered" => commitLeft = DonorSeq

\* Spec, design notes: the non-bypass snapshot callback "must not hold the
\* local-order monitor", so that write-sets ordered after the request are
\* certified while a long SST runs; process_state_req() leaves it only at
\* 'out', after donate_sst() has returned.
SnapshotOutsideLocalOrder ==
    dpc = "callback" /\ ~bypass => localLeft >= strSlot
=============================================================================
