------------------------------ MODULE MCIssuance ------------------------------
(* An instance of Issuance for TLC. *)
EXTENDS Issuance, TLC

Symmetry == Permutations(Sessions) \cup Permutations(Salts)

\* Issuance makes no tags.
MCTags(message) == message
=============================================================================
