SPECIFICATION Spec
CONSTANTS
    Base = 3
    U64_BYTES = 4
    U32_BYTES = 2
    Data <- MCData
    Digests <- MCDigests
    Suites <- MCSuites
    Profiles <- MCProfiles
    Numbers = {1, 3, 4}
    None = None
INVARIANTS OneQueryPerInput
CHECK_DEADLOCK FALSE
