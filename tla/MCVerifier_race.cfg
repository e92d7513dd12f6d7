SPECIFICATION Spec
CONSTANTS
  i1 = i1  i2 = i2  cc1 = cc1  cc2 = cc2  p1 = p1  p2 = p2
  b1 = b1  b2 = b2  s1 = s1  s2 = s2  h1 = h1  salt1 = salt1  salt2 = salt2
  Issuers = {i1}
  CredentialContexts = {cc1}
  PresentationContexts = {p1}
  Bindings = {b1}
  Limits = {0, 1, 2}
  U32Max = 2
  Secrets = {s1, s2}
  HidingNonces = {h1}
  Salts = {salt1, salt2}
  Issued <- MCIssuedOne
  TagHash <- MCDistinctTags
  Calls = {c1, c2, c3, c4}
SYMMETRY CallSymmetry
CHECK_DEADLOCK FALSE
INVARIANTS
  ScopedAccounting
  GrantOnce
  StoreJustified
PROPERTIES
  RefinesRateLimit
