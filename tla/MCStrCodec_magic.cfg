CONSTANTS
    SstPayloads <- MCSstPayloads
    IstPayloads <- MCIstPayloads
    DamageBytes <- MCDamageBytes
    MaxDamage <- MCMaxDamage
SPECIFICATION Spec
INVARIANT VersionByFullMagic
