SPECIFICATION DeploymentSpec
CONSTANTS
  Issuers = {i1}
  CredentialContexts = {cc1, cc2}
  PresentationContexts = {p1}
  Bindings = {b1}
  Limits = {2}
  U32Max = 2
  Secrets = {s1, s2}
  HidingNonces = {h1}
  Salts = {salt1, salt2}
  Sessions = {r1, r2}
  Calls = {v1, v2, v3}
  TagHash <- MCTags
SYMMETRY Symmetry
CHECK_DEADLOCK FALSE
INVARIANTS
  PaidUses
  FinishedIsUsable
  DuplicatesOfLineage
