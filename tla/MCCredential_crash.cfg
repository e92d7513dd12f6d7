SPECIFICATION HolderSpec
CONSTANTS
  i1 = i1  i2 = i2  cc1 = cc1  cc2 = cc2  p1 = p1  p2 = p2  p3 = p3
  b1 = b1  s1 = s1  h1 = h1  salt1 = salt1
  Issuers = {i1, i2}
  CredentialContexts = {cc1, cc2}
  PresentationContexts = {p1, p2, p3}
  Bindings = {b1}
  Limits = {0, 1, 2}
  U32Max = 2
  Secrets = {s1}
  HidingNonces = {h1}
  Salts = {salt1}
  Issued <- MCIssued
  TagHash <- MCTags
  Body <- MCBody
  MAX_PRESENTATION_CONTEXTS = 2
  Uses = {u1, u2, u3}
SYMMETRY Symmetry
CHECK_DEADLOCK FALSE
INVARIANTS
  HolderTypeOK
  NoRepeatedTag
  EverySnapshotRestores
  CountersAccounted
  HonestRefusals
PROPERTIES
  CountersMonotone
