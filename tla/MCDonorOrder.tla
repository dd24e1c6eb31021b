---------------------------- MODULE MCDonorOrder ----------------------------
(* Four actions: the request anywhere among three write-sets, so that     *)
(* write-sets are both drained before it and held up behind it.           *)
EXTENDS DonorOrder

MCActions == 4
MCCoModes == {"bypass", "ordered"}
=============================================================================
