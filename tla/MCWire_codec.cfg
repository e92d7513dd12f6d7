SPECIFICATION WireSpec
CONSTANTS
  HASH_BYTES = 2
  SALT_BYTES = 1
  M = 1
  KN = 3
  WIRE_ID = 2
  MAX_WIRE_BYTES = 36
  MAX_APPLICATION_CONTEXT_BYTES = 2
  MAX_PRESENTATION_CONTEXTS = 2
  MayoDecodes <- MCMayoDecodes
  ProofResult <- MCProofResult
  Context <- MCContext
  Authentic <- MCAuthentic
  Values <- MCValues
  Inputs <- MCInputs
  Edits = {0, 1, 2, 3, 31, 64}
CHECK_DEADLOCK FALSE
INVARIANTS
  WireTypeOK
  Canonical
  DecodedLegal
  RoundTrip
