--------------------------------- MODULE Keccak ---------------------------------
(***************************************************************************)
(* Keccak-f[1600], written twice as the crate writes it: src/keccak.rs on   *)
(* 64-bit lanes, for honest provers and native checks, and src/circuit.rs   *)
(* bit by bit over GF(2) expressions, for the circuits.  A third, from the  *)
(* text of FIPS 202, is the reference both are checked against.             *)
(*                                                                         *)
(* A state is the set of indices of its one bits; bit z of lane l is        *)
(* LANE*l + z.  A smaller LANE gives the smaller permutations of the        *)
(* family, with the same offsets and constants reduced to the lane.         *)
(***************************************************************************)
EXTENDS Integers, Sequences, FiniteSets, SequencesExt

CONSTANTS
    LANE,         \* bits of a lane, a power of two (64)
    ROUNDS,       \* rounds of the permutation (24)
    RATE_BYTES    \* bytes of a block (136)

ASSUME LaneAssumption == LANE \in {2^l : l \in 0..6} /\ ROUNDS \in 1..24

ASSUME RateAssumption == RATE_BYTES \in 1..((25 * LANE) \div 8)

StateBits == 0..25 * LANE - 1

RHO == [l \in 0..24 |->
    <<0, 1, 62, 28, 27, 36, 44, 6, 55, 20, 3, 10, 43, 25, 39, 41, 45, 15, 21, 8,
      18, 2, 61, 56, 14>>[l + 1] % LANE]

\* The one bits of each constant.
RC == [i \in 0..23 |-> {z \in
    <<{0}, {1, 7, 15}, {1, 3, 7, 15, 63}, {15, 31, 63}, {0, 1, 3, 7, 15}, {0, 31},
      {0, 7, 15, 31, 63}, {0, 3, 15, 63}, {1, 3, 7}, {3, 7}, {0, 3, 15, 31},
      {1, 3, 31}, {0, 1, 3, 7, 15, 31}, {0, 1, 3, 7, 63}, {0, 3, 7, 15, 63},
      {0, 1, 15, 63}, {1, 15, 63}, {7, 63}, {1, 3, 15}, {1, 3, 31, 63},
      {0, 7, 15, 31, 63}, {7, 15, 63}, {0, 31}, {3, 15, 31, 63}>>[i + 1] : z < LANE}]

-----------------------------------------------------------------------------
(* src/keccak.rs, on lanes.                                                *)

Lane(state, l) == {z \in 0..LANE - 1 : LANE * l + z \in state}

OfLane(l, bits) == {LANE * l + z : z \in bits}

rotate_left(bits, n) == {(z + n) % LANE : z \in bits}

\* The state made of a lane for each x and y.
Lanes(lane(_, _)) == UNION {OfLane(x + 5 * y, lane(x, y)) : x \in 0..4, y \in 0..4}

column(input, x) ==
    {z \in 0..LANE - 1 : Cardinality({y \in 0..4 : LANE * (x + 5 * y) + z \in input}) % 2 = 1}

theta(input) ==
    LET delta(x) == SymDiff(column(input, (x + 4) % 5),
                            rotate_left(column(input, (x + 1) % 5), 1))
    IN  Lanes(LAMBDA x, y : SymDiff(Lane(input, x + 5 * y), delta(x)))

\* The lane that pi moves lane source to.
TargetLane(source) ==
    LET x == source % 5
        y == source \div 5
    IN  y + 5 * ((2 * x + 3 * y) % 5)

permuted(input) ==
    UNION {OfLane(TargetLane(l), rotate_left(Lane(input, l), RHO[l])) : l \in 0..24}

\* a ^ (!b & c) along a row
chi(input) ==
    LET At(x, y) == Lane(input, (x % 5) + 5 * y)
    IN  Lanes(LAMBDA x, y : SymDiff(At(x, y), At(x + 2, y) \ At(x + 1, y)))

round(input, round_constant) ==
    LET linear == permuted(theta(input))
    IN  SymDiff(chi(linear), round_constant)

(* Bytes are numbers, their lowest bit first in the state.                 *)

ByteBits(byte) == {k \in 0..7 : (byte \div 2^k) % 2 = 1}

\* The bits of bytes at their places in a state.
BitsOf(bytes) ==
    UNION {{8 * (i - 1) + k : k \in ByteBits(bytes[i])} : i \in DOMAIN bytes}

StateByte(s, i) ==
    LET Worth(k) == IF 8 * i + k \in s THEN 2^k ELSE 0
    IN  Worth(0) + Worth(1) + Worth(2) + Worth(3) + Worth(4) + Worth(5) + Worth(6) + Worth(7)

absorb_block(s, block) == SymDiff(s, block)

\* Mutant: the end marker is stored over the last byte, not xored into it.
pad_single_block_stored(bytes) ==
    {b \in BitsOf(bytes) \cup {8 * Len(bytes) + k : k \in ByteBits(31)} :
        b < 8 * (RATE_BYTES - 1)} \cup {8 * RATE_BYTES - 1}

\* 0x1f after the message and 0x80 at the end, xored.
pad_single_block(bytes) ==
    SymDiff(BitsOf(bytes) \cup {8 * Len(bytes) + k : k \in ByteBits(31)},
            {8 * RATE_BYTES - 1})

-----------------------------------------------------------------------------
(* src/circuit.rs, on expressions.                                         *)

keccak_linear_expr(state) ==
    LET columns == {c \in (0..4) \X (0..LANE - 1) :
                      Cardinality({y \in 0..4 : LANE * (c[1] + 5 * y) + c[2] \in state}) % 2 = 1}
    IN  {b \in StateBits :
           LET x == (b \div LANE) % 5
               z == b % LANE
               left == <<(x + 4) % 5, z>>
               right == <<(x + 1) % 5, (z + LANE - 1) % LANE>>
           IN  (b \in state) # ((left \in columns) # (right \in columns))}

\* Mutant: the offset is added where the index wants it taken away.
pi_rho_index_added(b) ==
    LET source == CHOOSE l \in 0..24 : TargetLane(l) = b \div LANE
    IN  LANE * source + (((b % LANE) + RHO[source]) % LANE)

\* Where the bit at b comes from.
pi_rho_index(b) ==
    LET source == CHOOSE l \in 0..24 : TargetLane(l) = b \div LANE
    IN  LANE * source + (((b % LANE) + LANE - RHO[source]) % LANE)

keccak_round_expr(state, round_constant) ==
    LET linear == keccak_linear_expr(state)
        moved == {b \in StateBits : pi_rho_index(b) \in linear}
        Beside(b, k) == LANE * ((((b \div LANE) + k) % 5) + 5 * (b \div (5 * LANE))) + (b % LANE)
    IN  {b \in StateBits :
           LET first == b \in moved
               second == Beside(b, 1) \in moved
               third == Beside(b, 2) \in moved
           IN  (first # (~second /\ third)) # (b \in round_constant)}

-----------------------------------------------------------------------------
(* FIPS 202: the step mappings on coordinates (x, y, z), the rho offsets   *)
(* from the walk of section 3.2.2, the round constants from the shift      *)
(* register of section 3.2.5.                                              *)

Walk[t \in Nat] ==
    IF t = 0 THEN <<1, 0>>
    ELSE LET from == Walk[t - 1] IN <<from[2], (2 * from[1] + 3 * from[2]) % 5>>

Offset(x, y) ==
    IF <<x, y>> = <<0, 0>> THEN 0
    ELSE LET t == CHOOSE n \in 0..23 : Walk[n] = <<x, y>>
         IN  (((t + 1) * (t + 2)) \div 2) % LANE

Register[t \in Nat] ==
    IF t = 0 THEN {0}
    ELSE LET shifted == {i + 1 : i \in Register[t - 1]}
         IN  IF 8 \in shifted THEN SymDiff(shifted \ {8}, {0, 4, 5, 6}) ELSE shifted

Iota(i) == {2^j - 1 : j \in {k \in 0..6 : 2^k <= LANE /\ 0 \in Register[k + 7 * i]}}

\* Coordinates of a bit, and the bit at coordinates taken modulo their ranges.
X(b) == (b \div LANE) % 5
Y(b) == b \div (5 * LANE)
Z(b) == b % LANE

Bit(s, x, y, z) == LANE * ((x % 5) + 5 * (y % 5)) + ((z + LANE) % LANE) \in s

Parities(A) ==
    {b \in StateBits : Y(b) = 0 /\ Cardinality({y \in 0..4 : Bit(A, X(b), y, Z(b))}) % 2 = 1}

Theta(A, C) ==
    {b \in StateBits : Bit(A, X(b), Y(b), Z(b))
                         # (Bit(C, X(b) + 4, 0, Z(b)) # Bit(C, X(b) + 1, 0, Z(b) - 1))}

Rho(A) == {b \in StateBits : Bit(A, X(b), Y(b), Z(b) - Offset(X(b), Y(b)))}

Pi(A) == {b \in StateBits : Bit(A, X(b) + 3 * Y(b), X(b), Z(b))}

Chi(A) ==
    {b \in StateBits : Bit(A, X(b), Y(b), Z(b))
                         # (~Bit(A, X(b) + 1, Y(b), Z(b)) /\ Bit(A, X(b) + 2, Y(b), Z(b)))}

ReferenceRound(A, i) == SymDiff(Chi(Pi(Rho(Theta(A, Parities(A))))), Iota(i))
=============================================================================
