----------------------------- MODULE MCRangeProof -----------------------------
(* An instance of RangeProof for TLC, and what its words stand for.         *)
EXTENDS RangeProof, FiniteSetsExt

\* A word is the number that its bits add up to.
ASSUME NumberIsSum ==
    \A v \in Words : Number(v) = SumSet({v[k] * 2^k : k \in 0..Bits - 1})
=============================================================================
