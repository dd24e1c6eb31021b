----------------------------- MODULE JoinerState -----------------------------
(***************************************************************************)
(* What state transfer promises about a joiner's durable state, stated    *)
(* without threads, messages or the recovery-marker protocol.             *)
(*                                                                         *)
(* data:   the application's state, [uuid, seqno, ok]: the history it      *)
(*         belongs to, the last write-set in it, and whether it is intact. *)
(* recov:  the position a restart would recover from, or NoPosition when   *)
(*         a restart would not trust the recovery marker.                 *)
(* joined: the group has declared the node JOINED.                        *)
(*                                                                         *)
(* The data is only ever replaced by a snapshot of the group's history    *)
(* taken at or after the view (SST), advanced one write-set at a time     *)
(* along the group's history (IST), declared the group's by the           *)
(* application (trivial SST), or damaged; it is damaged or replaced only  *)
(* while a restart would not trust it; a trusted position always          *)
(* describes it; and the node joins only with the group's state.          *)
(* StateTransfer implements this specification (see its refinement        *)
(* mapping JS).                                                            *)
(***************************************************************************)
EXTENDS Integers

CONSTANTS
    G,          \* the group's history UUID
    Histories,  \* histories a node's data may belong to
    Nil,        \* undefined history
    ViewSeqno,  \* seqno of the view that requires state transfer
    MaxSeqno    \* bound on the group's seqno

VARIABLES data, recov, joined

avars == <<data, recov, joined>>

Undefined == -1
NoPosition == [uuid |-> Nil, seqno |-> Undefined]

\* Positions a restart may trust while the data is d: its history, with its
\* seqno or with the seqno left to be recovered from the data itself.
Positions(d) ==
    IF d.ok THEN {[uuid |-> d.uuid, seqno |-> s] : s \in {Undefined, d.seqno}}
    ELSE {}

\* Every step leaves the recovery position trustworthy or untrusted.
RecovOk == recov' \in {NoPosition} \cup Positions(data')

Init ==
    /\ data \in [uuid : Histories, seqno : Undefined..MaxSeqno, ok : {TRUE}]
    /\ recov \in {NoPosition} \cup Positions(data)
    /\ joined = FALSE

\* The recovery position is written; the data stays.
Mark ==
    /\ UNCHANGED <<data, joined>>
    /\ RecovOk

\* A copy or an apply goes wrong part way: the data is no longer intact.
Corrupt ==
    /\ ~joined
    /\ data' = [data EXCEPT !.ok = FALSE]
    /\ recov' = NoPosition
    /\ UNCHANGED joined

\* A snapshot of the group's history at or after the view replaces the
\* data, while a restart would not trust what is there.
Install ==
    /\ ~joined
    /\ recov = NoPosition
    /\ \E s \in ViewSeqno..MaxSeqno : data' = [uuid |-> G, seqno |-> s, ok |-> TRUE]
    /\ RecovOk
    /\ UNCHANGED joined

\* The application declares its state to be the group's at the view.
Adopt ==
    /\ ~joined
    /\ data' = [uuid |-> G, seqno |-> ViewSeqno, ok |-> TRUE]
    /\ RecovOk
    /\ UNCHANGED joined

\* The next write-set of the group's history is applied to intact data.
Apply ==
    /\ ~joined
    /\ data.ok /\ data.uuid = G /\ data.seqno < MaxSeqno
    /\ data' = [data EXCEPT !.seqno = @ + 1]
    /\ RecovOk
    /\ UNCHANGED joined

\* The node joins holding the group's state, at or after the view.
Join ==
    /\ ~joined
    /\ data.ok /\ data.uuid = G /\ data.seqno >= ViewSeqno
    /\ joined' = TRUE
    /\ UNCHANGED <<data, recov>>

Next == Mark \/ Corrupt \/ Install \/ Adopt \/ Apply \/ Join

Spec == Init /\ [][Next]_avars
=============================================================================
