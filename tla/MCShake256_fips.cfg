SPECIFICATION ShakeSpec
CONSTANTS
    LANE = 64
    ROUNDS = 24
    RATE_BYTES = 136
    Calls <- MCCalls
    Message <- MCMessage
INVARIANTS ReturnsShake256
PROPERTY CircuitRoundAgrees
CHECK_DEADLOCK FALSE
