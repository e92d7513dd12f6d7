----------------------------- MODULE MCCredential -----------------------------
(* Instances of Credential for TLC. *)
EXTENDS Credential, TLC

CONSTANTS i1, i2, cc1, cc2, p1, p2, p3, b1, s1, h1, salt1

MCBody == CredentialBody(i1, cc1, s1, h1, salt1)

MCIssued == {MCBody}

MCTags(message) == message

Symmetry == Permutations(Uses) \cup Permutations(PresentationContexts)
=============================================================================
