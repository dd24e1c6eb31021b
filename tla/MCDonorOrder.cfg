CONSTANTS
    Actions <- MCActions
    CoModes <- MCCoModes
SPECIFICATION Spec
INVARIANT TypeOK
INVARIANT SnapshotIsDonorSeq
