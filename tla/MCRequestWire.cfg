CONSTANTS
    SstPayloads <- MCSstPayloads
    UuidSyms <- MCUuidSyms
    UuidByte <- MCUuidByte
    Seqnos <- MCSeqnos
    Peers <- MCPeers
    DamageBytes <- MCDamageBytes
    MaxDamage <- MCMaxDamage
SPECIFICATION Spec
INVARIANT EnvelopeRoundTrip
INVARIANT DecodeInBounds
INVARIANT IstReadBack
