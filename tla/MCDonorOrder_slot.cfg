CONSTANTS
    Actions <- MCActions
    CoModes <- MCCoModes
SPECIFICATION Spec
INVARIANT SnapshotOutsideLocalOrder
