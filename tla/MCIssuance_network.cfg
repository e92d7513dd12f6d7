SPECIFICATION Spec
CONSTANTS
  Issuers = {i1, i2}
  CredentialContexts = {cc1, cc2}
  PresentationContexts = {}
  Bindings = {}
  Limits = {}
  U32Max = 1
  Secrets = {s1, s2}
  HidingNonces = {h1}
  Salts = {salt1, salt2}
  Sessions = {r1, r2}
  TagHash <- MCTags
SYMMETRY Symmetry
CHECK_DEADLOCK FALSE
INVARIANTS
  LineagesPaidFor
  IssuedOnlyByIssuance
  CredentialsAuthentic
  AnswerUsable
