------------------------------- MODULE MCShake256 -------------------------------
(***************************************************************************)
(* The real permutation, on the message pattern and the lengths of the      *)
(* crate's test and the lengths at which a block or a chunk is just full.   *)
(***************************************************************************)
EXTENDS Shake256

MCMessage(len) == [i \in 1..len |-> ((i - 1) * 7 + 3) % 256]

MCCalls == {<<0, 32>>, <<17, 64>>, <<135, 137>>, <<136, 32>>, <<137, 136>>, <<272, 0>>}
=============================================================================
