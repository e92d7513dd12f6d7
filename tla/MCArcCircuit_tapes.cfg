SPECIFICATION Spec
CONSTANTS
    LANE = 8
    ROUNDS = 8
    RATE_BYTES = 17
    CREDENTIAL_DOMAIN <- MCCredentialDomain
    SIGNED_CREDENTIAL_DOMAIN <- MCSignedDomain
    TAG_DOMAIN <- MCTagDomain
    SECRET_BYTES = 2
    HIDING_NONCE_BYTES = 1
    SALT_BYTES = 1
    PRESENTATION_NONCE_BITS = 8
    M = 3
    KN = 4
    MayoEval <- MCMayoEval
    Circuits <- MCCircuits
    Tapes <- MCTapes
    FlipEvery = 5
INVARIANTS AcceptsOnlyHonest HonestTapeAccepted
CHECK_DEADLOCK FALSE
