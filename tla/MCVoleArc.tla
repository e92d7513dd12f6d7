------------------------------ MODULE MCVoleArc ------------------------------
(* An instance of VoleArc for TLC. *)
EXTENDS VoleArc, TLC

CONSTANTS i1, cc1, p1, b1, s1, s2, h1, salt1

MCBody == CredentialBody(i1, cc1, s1, h1, salt1)

\* The honest holder and one more.
MCIssued == {MCBody, CredentialBody(i1, cc1, s2, h1, salt1)}

MCDistinctTags(message) == message

Symmetry == Permutations(Calls) \cup Permutations(Uses)
=============================================================================
