CONSTANTS
    UuidSyms <- MCUuidSyms
    Seqnos <- MCSeqnos
    Peers <- MCPeers
    DamageChars <- MCDamageChars
    MaxDamage <- MCMaxDamage
SPECIFICATION Spec
INVARIANT MalformedRejected
