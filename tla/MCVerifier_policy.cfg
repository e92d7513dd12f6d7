SPECIFICATION FairSpec
CONSTANTS
  i1 = i1  i2 = i2  cc1 = cc1  cc2 = cc2  p1 = p1  p2 = p2
  b1 = b1  b2 = b2  s1 = s1  s2 = s2  h1 = h1  salt1 = salt1  salt2 = salt2
  Issuers = {i1, i2}
  CredentialContexts = {cc1, cc2}
  PresentationContexts = {p1, p2}
  Bindings = {b1, b2}
  Limits = {1, 2}
  U32Max = 2
  Secrets = {s1, s2}
  HidingNonces = {h1}
  Salts = {salt1, salt2}
  Issued <- MCIssuedMany
  TagHash <- MCCollidingTags
  Calls = {c1, c2}
CHECK_DEADLOCK FALSE
INVARIANTS
  ScopedAccounting
  PolicyBound
  DuplicatesHonest
PROPERTIES
  RaceDecided
