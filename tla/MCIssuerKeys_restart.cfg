SPECIFICATION Spec
CONSTANTS
    i1 = i1
    i2 = i2
    v1 = v1
    v2 = v2
    mayo1 = mayo1
    mayo2 = mayo2
    t1 = t1
    t2 = t2
    Processes = {i1, i2}
    Clients = {v1, v2}
    Nothing = Nothing
    Suites = {mayo1, mayo2}
    ApplicationContexts = {1, 2, 3}
    ContextLength <- MCContextLength
    MAX_APPLICATION_CONTEXT_BYTES = 2
    Trapdoors = {t1, t2}
SYMMETRY Symmetry
INVARIANTS ContextNamesKey RestartsAsItself KeysHaveIssuers
CHECK_DEADLOCK FALSE
