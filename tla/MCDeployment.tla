------------------------------ MODULE MCDeployment ------------------------------
(* An instance of Deployment for TLC. *)
EXTENDS Deployment, TLC

\* Tags that collide across buckets, and only there.
MCTags(message) == <<message[1], message[3]>>

Symmetry == Permutations(Sessions) \cup Permutations(Salts) \cup Permutations(Calls)
=============================================================================
