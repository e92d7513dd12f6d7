SPECIFICATION System
CONSTANTS
  i1 = i1  cc1 = cc1  p1 = p1  b1 = b1  s1 = s1  s2 = s2  h1 = h1  salt1 = salt1
  Issuers = {i1}
  CredentialContexts = {cc1}
  PresentationContexts = {p1}
  Bindings = {b1}
  Limits = {1, 2}
  U32Max = 2
  Secrets = {s1, s2}
  HidingNonces = {h1}
  Salts = {salt1}
  Issued <- MCIssued
  TagHash <- MCDistinctTags
  Calls = {c1, c2}
  Body <- MCBody
  MAX_PRESENTATION_CONTEXTS = 1
  Uses = {u1, u2}
SYMMETRY Symmetry
CHECK_DEADLOCK FALSE
INVARIANTS
  FreshUseAdmitted
  AllowanceIsOwn
  RollbackNoGain
PROPERTIES
  RefinesVerifier
