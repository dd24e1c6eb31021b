----------------------------- MODULE MCStrCodec -----------------------------
(* Envelopes built from short payloads: an empty SST request, a            *)
(* NUL-terminated one (like "trivial\0"), and one that starts with the     *)
(* magic but is plain v0 text ("STRv1A"); an empty and a one-byte IST      *)
(* descriptor.  Damage uses a NUL and a length-sized byte.                  *)
EXTENDS StrCodec

MCSstPayloads == {<<>>, <<116, 0>>, <<83, 84, 82, 118, 49, 65>>}
MCIstPayloads == {<<>>, <<85>>}
MCDamageBytes == {0, 7}
MCMaxDamage == 1
=============================================================================
