---------------------------- MODULE MCRequestWire ----------------------------
(* Requests built from an empty and a NUL-terminated SST request and the   *)
(* descriptors of one history with one- and two-digit seqnos and one- and  *)
(* two-character addresses.  Damage uses a NUL, a length-sized byte and    *)
(* the descriptor's separator ':'.                                         *)
EXTENDS RequestWire

MCSstPayloads == {<<>>, <<116, 0>>}
MCUuidSyms == {"U1"}
MCUuidByte == "U1" :> 85
MCSeqnos == {0, 1, 10}
MCPeers == {<<"h">>, <<"h", "1">>}
MCDamageBytes == {0, 7, 58}
MCMaxDamage == 1
=============================================================================
