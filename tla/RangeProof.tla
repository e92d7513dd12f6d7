------------------------------- MODULE RangeProof -------------------------------
(***************************************************************************)
(* The range check of the presentation circuit, bit by bit: the loop with   *)
(* which an honest prover writes the carries of value + !limit + 1 into its *)
(* witness, and the loop of equations with which the circuit accepts or     *)
(* rejects the nonce and the carries a prover committed to.                 *)
(***************************************************************************)
EXTENDS Integers

CONSTANT Bits   \* PRESENTATION_NONCE_BITS

ASSUME BitsAssumption == Bits \in Nat \ {0}

VARIABLES
    value,      \* the committed nonce, by bits, lowest first
    limit,      \* the public limit
    honest,     \* whether the prover runs append_less_than_carries
    carries,    \* the committed carries
    phase,      \* "witness" loop, "circuit" loop, or the verdict
    bit,        \* loop index
    carry       \* carry of the witness loop, carry_in of the circuit loop

vars == <<value, limit, honest, carries, phase, bit, carry>>

-----------------------------------------------------------------------------
Words == [0..Bits - 1 -> 0..1]

Zero == [k \in 0..Bits - 1 |-> 0]

\* (!limit >> bit) & 1
NotLimit(k) == 1 - limit[k]

\* Mutant: the term of the complemented limit and the carry is left out.
CarryOut_two_terms(a, b, c) == IF a * b = 1 \/ a * c = 1 THEN 1 ELSE 0

\* (a & b) | (a & carry) | (b & carry)
CarryOut(a, b, c) == IF a * b = 1 \/ a * c = 1 \/ b * c = 1 THEN 1 ELSE 0

\* Mutant: the product of the nonce bit and the carry is left out.
Equation_without_product(k) ==
    (carries[k] + NotLimit(k) * value[k] + NotLimit(k) * carry) % 2

\* carries[bit] + [b] a + a carry_in + [b] carry_in over GF(2).
Equation(k) ==
    (carries[k] + NotLimit(k) * value[k] + value[k] * carry + NotLimit(k) * carry) % 2

\* let mut carry_in = one
CarryIn == 1

\* Mutant: the final carry is not asserted to be zero.
Final_unchecked == TRUE

\* assert_zero(&carry_in) after the loop
Final == carry = 0

-----------------------------------------------------------------------------
\* PresentationCircuit::build and the callers refuse a zero limit.  An honest
\* prover starts with an empty vector of carries, any other with what it likes.
Init ==
    /\ value \in Words
    /\ limit \in Words \ {Zero}
    /\ bit = 0
    /\ \/ /\ honest = TRUE
          /\ phase = "witness"
          /\ carries = [k \in {} |-> 0]
          /\ carry = 1
       \/ /\ honest = FALSE
          /\ phase = "circuit"
          /\ carries \in Words
          /\ carry = CarryIn

\* One turn of the witness loop.
PushCarry ==
    LET c == CarryOut(value[bit], NotLimit(bit), carry) IN
    /\ phase = "witness" /\ bit < Bits
    /\ carries' = [k \in 0..bit |-> IF k = bit THEN c ELSE carries[k]]
    /\ carry' = c
    /\ bit' = bit + 1
    /\ UNCHANGED <<value, limit, honest, phase>>

\* The witness is complete and the circuit is built over it.
Commit ==
    /\ phase = "witness" /\ bit = Bits
    /\ phase' = "circuit"
    /\ bit' = 0
    /\ carry' = CarryIn
    /\ UNCHANGED <<value, limit, honest, carries>>

\* One turn of the circuit loop, with the equation satisfied or not.
AssertBit ==
    /\ phase = "circuit" /\ bit < Bits
    /\ Equation(bit) = 0
    /\ carry' = carries[bit]
    /\ bit' = bit + 1
    /\ UNCHANGED <<value, limit, honest, carries, phase>>

RejectBit ==
    /\ phase = "circuit" /\ bit < Bits
    /\ Equation(bit) # 0
    /\ phase' = "rejected"
    /\ UNCHANGED <<value, limit, honest, carries, bit, carry>>

\* The assertion after the loop.
Conclude ==
    /\ phase = "circuit" /\ bit = Bits
    /\ phase' = IF Final THEN "accepted" ELSE "rejected"
    /\ UNCHANGED <<value, limit, honest, carries, bit, carry>>

Next == PushCarry \/ Commit \/ AssertBit \/ RejectBit \/ Conclude

Spec == Init /\ [][Next]_vars

-----------------------------------------------------------------------------
(* Properties.                                                             *)

\* The numbers that the highest bits of a word spell, and all of them.
Highest(word) ==
    LET High[k \in 0..Bits] == IF k = 0 THEN 0 ELSE 2 * High[k - 1] + word[Bits - k]
    IN  High

Number(word) == Highest(word)[Bits]

Less == Number(value) < Number(limit)

\* Order of binary words, from the highest bit at which they differ below k.
LessBelow(v, l, k) ==
    \E j \in 0..k - 1 :
      /\ v[j] < l[j]
      /\ \A m \in j + 1..k - 1 : v[m] = l[m]

\* Soundness of the range check: no carries whatever make the circuit accept a
\* nonce that is not below the limit.
AcceptsOnlyBelow == phase = "accepted" => Less

\* Completeness: the carries that append_less_than_carries computes with AND and
\* OR satisfy the circuit's GF(2) equations at every nonce below the limit.
HonestAccepted == phase = "rejected" /\ honest => ~Less

\* The carries are not a free choice: an accepted witness holds the carries an
\* honest prover computes, so a proof says nothing but its nonce.
CarryAfter(v, l, k) == IF LessBelow(v, l, k) THEN 0 ELSE 1

CarriesDetermined ==
    phase = "accepted" => \A k \in 0..Bits - 1 : carries[k] = CarryAfter(value, limit, k + 1)

\* Shapes of the witness and of the two loops.
TypeOK ==
    /\ value \in Words
    /\ limit \in Words \ {Zero}
    /\ honest \in BOOLEAN
    /\ phase \in {"witness", "circuit", "accepted", "rejected"}
    /\ bit \in 0..Bits
    /\ carry \in 0..1
    /\ carries \in IF phase = "witness" THEN [0..bit - 1 -> 0..1] ELSE Words

\* The inductive invariant: the carry of either loop is the comparison of the
\* bits below the index, and so is every carry written or checked so far.
CarriesUpTo(k) == \A j \in 0..k - 1 : carries[j] = CarryAfter(value, limit, j + 1)

IInv ==
    /\ TypeOK
    /\ phase = "witness" => honest
    /\ phase \in {"witness", "circuit"} =>
         carry = CarryAfter(value, limit, bit) /\ CarriesUpTo(bit)
    /\ honest /\ phase # "witness" => CarriesUpTo(Bits)
    /\ AcceptsOnlyBelow /\ HonestAccepted /\ CarriesDetermined
=============================================================================
