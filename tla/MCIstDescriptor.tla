--------------------------- MODULE MCIstDescriptor ---------------------------
EXTENDS IstDescriptor

\* Two history UUIDs, seqnos with one and two digits, and receive addresses
\* of one and two characters.
MCUuidSyms == {"U1", "U2"}
MCSeqnos == {0, 1, 9, 10}
MCPeers == {<<"h">>, <<"h", "1">>}
\* A foreign character, a digit, a blank and the separators.
MCDamageChars == {"x", "7", " ", ":", "-", "|"}
MCMaxDamage == 1
=============================================================================
