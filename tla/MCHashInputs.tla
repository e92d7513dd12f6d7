------------------------------ MODULE MCHashInputs ------------------------------
(***************************************************************************)
(* Data of up to three bytes, over bytes that are also the low and the high   *)
(* byte of the lengths.                                                     *)
(***************************************************************************)
EXTENDS HashInputs

MCData == SeqOf(0..1, 3)

MCDigests == {<<0, 1>>, <<1, 0>>}

MCSuites == {[name |-> <<1, 1>>, n |-> 6, m |-> 3, o |-> 1, k |-> 2],
             [name |-> <<1, 2>>, n |-> 6, m |-> 2, o |-> 2, k |-> 1]}

MCProfiles == {[tau |-> 1, k |-> 2], [tau |-> 2, k |-> 1]}
=============================================================================
