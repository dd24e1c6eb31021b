CONSTANTS
    Faults <- MCAllFaults
SPECIFICATION Spec
INVARIANT TypeOK
INVARIANT DaemonDetached
