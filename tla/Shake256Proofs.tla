---------------------------- MODULE Shake256Proofs ----------------------------
(***************************************************************************)
(* Keccak and shake256 for every lane width, number of rounds and block    *)
(* size: the round of the lanes is the round of the circuits' expressions  *)
(* and the round of FIPS 202, whose offsets and constants are those of the *)
(* crate, and the sponge returns what FIPS 202 says for messages and       *)
(* outputs of any length.                                                  *)
(***************************************************************************)
EXTENDS Shake256, SequenceTheorems, WellFoundedInduction, TLAPS

-----------------------------------------------------------------------------
(* src/keccak.rs and src/circuit.rs: the same round.                       *)

\* A lane is one of the seven widths.
LEMMA LaneValues ==
  /\ LANE \in {1, 2, 4, 8, 16, 32, 64}
  /\ LANE \in Nat \ {0}
<1>1. PICK l \in 0..6 : LANE = 2^l
  BY LaneAssumption
<1>2. l = 0 \/ l = 1 \/ l = 2 \/ l = 3 \/ l = 4 \/ l = 5 \/ l = 6
  OBVIOUS
<1>3. /\ 2^0 = 1 /\ 2^1 = 2 /\ 2^2 = 4 /\ 2^3 = 8 /\ 2^4 = 16 /\ 2^5 = 32 /\ 2^6 = 64
  OBVIOUS
<1>4. LANE = 1 \/ LANE = 2 \/ LANE = 4 \/ LANE = 8 \/ LANE = 16 \/ LANE = 32 \/ LANE = 64
  BY <1>1, <1>2, <1>3, Zenon
<1> QED
  BY <1>4

\* Lane and place are read off the number of a bit,
LEMMA BitAddress ==
  ASSUME NEW l \in 0..24, NEW z \in 0..LANE - 1
  PROVE  /\ LANE * l + z \in StateBits
         /\ (LANE * l + z) \div LANE = l
         /\ (LANE * l + z) % LANE = z
         /\ (LANE * l + z) \div (5 * LANE) = l \div 5
  BY LaneValues DEF StateBits

\* and every bit has them.
LEMMA BitSplit ==
  ASSUME NEW b \in StateBits
  PROVE  /\ b \div LANE \in 0..24
         /\ b % LANE \in 0..LANE - 1
         /\ b = LANE * (b \div LANE) + (b % LANE)
  BY LaneValues DEF StateBits

\* The bit that a rotation moves to a place.
LEMMA RotatedBit ==
  ASSUME NEW bits \in SUBSET (0..LANE - 1), NEW n \in 0..LANE, NEW z \in 0..LANE - 1
  PROVE  /\ (z + LANE - n) % LANE \in 0..LANE - 1
         /\ z \in rotate_left(bits, n) <=> (z + LANE - n) % LANE \in bits
<1>1. (z + LANE - n) % LANE \in 0..LANE - 1
  BY LaneValues
<1>2. (((z + LANE - n) % LANE) + n) % LANE = z
  BY LaneValues
<1>3. \A w \in 0..LANE - 1 : (w + n) % LANE = z => w = (z + LANE - n) % LANE
  BY LaneValues
<1> QED
  BY <1>1, <1>2, <1>3 DEF rotate_left

\* A lane put in its place has the bits of that lane.
LEMMA OneLane ==
  ASSUME NEW bits \in SUBSET (0..LANE - 1), NEW k \in 0..24, NEW l \in 0..24,
         NEW z \in 0..LANE - 1
  PROVE  LANE * l + z \in OfLane(k, bits) <=> k = l /\ z \in bits
<1>1. ASSUME NEW w \in bits, LANE * l + z = LANE * k + w
      PROVE  k = l /\ w = z
  BY <1>1, BitAddress
<1> QED
  BY <1>1 DEF OfLane

\* A bit of an exclusive or.
LEMMA XorBit ==
  ASSUME NEW A, NEW B, NEW b
  PROVE  b \in SymDiff(A, B) <=> (b \in A) # (b \in B)
  BY DEF SymDiff

\* Lanes by row and column.
LEMMA Coordinates ==
  /\ \A x, y \in 0..4 : x + 5 * y \in 0..24 /\ (x + 5 * y) % 5 = x /\ (x + 5 * y) \div 5 = y
  /\ \A l \in 0..24 : l % 5 \in 0..4 /\ l \div 5 \in 0..4 /\ l = (l % 5) + 5 * (l \div 5)
  /\ \A x \in 0..4 : \A k \in 0..4 : (x + k) % 5 \in 0..4
OBVIOUS

\* The state made of a lane for each number.
FromLanes(f) == UNION {OfLane(x + 5 * y, f[x + 5 * y]) : x \in 0..4, y \in 0..4}

\* A bit of a state made of lanes is a bit of its lane.
LEMMA StateOfLanes ==
  ASSUME NEW f \in [0..24 -> SUBSET (0..LANE - 1)], NEW l \in 0..24, NEW z \in 0..LANE - 1
  PROVE  LANE * l + z \in FromLanes(f) <=> z \in f[l]
<1>1. ASSUME NEW k \in 0..24
      PROVE  LANE * l + z \in OfLane(k, f[k]) <=> k = l /\ z \in f[k]
  <2>1. f[k] \in SUBSET (0..LANE - 1)
    OBVIOUS
  <2> QED
    BY <2>1, OneLane
<1>2. ASSUME NEW x \in 0..4, NEW y \in 0..4, LANE * l + z \in OfLane(x + 5 * y, f[x + 5 * y])
      PROVE  z \in f[l]
  BY <1>1, <1>2, Coordinates
<1>3. ASSUME z \in f[l]
      PROVE  \E x, y \in 0..4 : LANE * l + z \in OfLane(x + 5 * y, f[x + 5 * y])
  <2>1. l % 5 \in 0..4 /\ l \div 5 \in 0..4 /\ l = (l % 5) + 5 * (l \div 5)
    BY Coordinates
  <2>2. LANE * l + z \in OfLane(l, f[l])
    BY <1>1, <1>3
  <2>3. PICK x \in 0..4, y \in 0..4 : l = x + 5 * y
    BY <2>1
  <2> QED
    BY <2>2, <2>3
<1> QED
  BY <1>2, <1>3 DEF FromLanes

\* Lanes, columns and their rotations are bits of a lane.
LEMMA LaneSets ==
  ASSUME NEW S \in SUBSET StateBits
  PROVE  /\ \A l : Lane(S, l) \in SUBSET (0..LANE - 1)
         /\ \A x : column(S, x) \in SUBSET (0..LANE - 1)
         /\ \A l, n : n \in 0..LANE => rotate_left(Lane(S, l), n) \in SUBSET (0..LANE - 1)
         /\ \A x, n : n \in 0..LANE => rotate_left(column(S, x), n) \in SUBSET (0..LANE - 1)
<1>1. ASSUME NEW bits \in SUBSET (0..LANE - 1), NEW n \in 0..LANE
      PROVE  rotate_left(bits, n) \in SUBSET (0..LANE - 1)
  BY LaneValues DEF rotate_left
<1>2. /\ \A l : Lane(S, l) \in SUBSET (0..LANE - 1)
      /\ \A x : column(S, x) \in SUBSET (0..LANE - 1)
  BY DEF Lane, column
<1> QED
  BY <1>1, <1>2

\* A bit after theta of src/keccak.rs,
LEMMA ThetaBit ==
  ASSUME NEW S \in SUBSET StateBits, NEW l \in 0..24, NEW z \in 0..LANE - 1
  PROVE  LANE * l + z \in theta(S)
           <=> ((LANE * l + z \in S)
                 # ((z \in column(S, ((l % 5) + 4) % 5))
                     # ((z + LANE - 1) % LANE \in column(S, ((l % 5) + 1) % 5))))
<1> DEFINE delta(a) == SymDiff(column(S, (a + 4) % 5), rotate_left(column(S, (a + 1) % 5), 1))
           f == [k \in 0..24 |-> SymDiff(Lane(S, k), delta(k % 5))]
<1>1. theta(S) = FromLanes(f)
  <2>1. \A x, y \in 0..4 : f[x + 5 * y] = SymDiff(Lane(S, x + 5 * y), delta(x))
    BY Coordinates
  <2>2. theta(S) = UNION {OfLane(x + 5 * y, SymDiff(Lane(S, x + 5 * y), delta(x))) : x \in 0..4, y \in 0..4}
    BY DEF theta, Lanes
  <2> HIDE DEF delta, f
  <2> QED
    BY <2>1, <2>2 DEF FromLanes
<1>2. f \in [0..24 -> SUBSET (0..LANE - 1)]
  <2>1. \A a \in 0..4 : delta(a) \in SUBSET (0..LANE - 1)
    <3>1. 1 \in 0..LANE
      BY LaneValues
    <3> QED
      BY <3>1, LaneSets DEF SymDiff
  <2> HIDE DEF delta
  <2>2. \A k \in 0..24 : SymDiff(Lane(S, k), delta(k % 5)) \in SUBSET (0..LANE - 1)
    BY <2>1, LaneSets, Coordinates DEF SymDiff
  <2> QED
    BY <2>2
<1>3. LANE * l + z \in theta(S) <=> z \in f[l]
  <2> HIDE DEF f
  <2> QED
    BY <1>1, <1>2, StateOfLanes
<1>4. z \in f[l] <=> (LANE * l + z \in S) # (z \in delta(l % 5))
  BY DEF Lane, SymDiff
<1>5. z \in rotate_left(column(S, ((l % 5) + 1) % 5), 1)
        <=> (z + LANE - 1) % LANE \in column(S, ((l % 5) + 1) % 5)
  <2>1. column(S, ((l % 5) + 1) % 5) \in SUBSET (0..LANE - 1)
    BY LaneSets
  <2>2. 1 \in 0..LANE
    BY LaneValues
  <2> HIDE DEF delta, f
  <2> QED
    BY <2>1, <2>2, RotatedBit
<1>6. z \in delta(l % 5) <=> (z \in column(S, ((l % 5) + 4) % 5))
                     # ((z + LANE - 1) % LANE \in column(S, ((l % 5) + 1) % 5))
  BY <1>5, XorBit
<1> HIDE DEF delta, f
<1> QED
  BY <1>3, <1>4, <1>6

\* which makes a state.
LEMMA ThetaState ==
  ASSUME NEW S \in SUBSET StateBits
  PROVE  theta(S) \in SUBSET StateBits
<1> DEFINE delta(a) == SymDiff(column(S, (a + 4) % 5), rotate_left(column(S, (a + 1) % 5), 1))
<1>1. \A a \in 0..4 : delta(a) \in SUBSET (0..LANE - 1)
  <2>1. 1 \in 0..LANE
    BY LaneValues
  <2> QED
    BY <2>1, LaneSets DEF SymDiff
<1>2. ASSUME NEW x \in 0..4, NEW y \in 0..4
      PROVE  OfLane(x + 5 * y, SymDiff(Lane(S, x + 5 * y), delta(x))) \in SUBSET StateBits
  <2> HIDE DEF delta
  <2>1. SymDiff(Lane(S, x + 5 * y), delta(x)) \in SUBSET (0..LANE - 1)
    BY <1>1, LaneSets DEF SymDiff
  <2>2. x + 5 * y \in 0..24
    OBVIOUS
  <2> QED
    BY <2>1, <2>2, BitAddress DEF OfLane
<1> QED
  BY <1>2 DEF theta, Lanes

\* The lane that pi moves to another.
SourceLane(t) == (((t % 5) + (3 * (t \div 5))) % 5) + (5 * (t % 5))

\* Pi moves lanes to lanes,
LEMMA PiRange ==
  ASSUME NEW l \in 0..24
  PROVE  SourceLane(l) \in 0..24 /\ TargetLane(l) \in 0..24
  BY DEF TargetLane, SourceLane

\* each from one.
LEMMA PiLanes ==
  ASSUME NEW l \in 0..24, NEW t \in 0..24
  PROVE  TargetLane(l) = t <=> l = SourceLane(t)
<1>1. PICK x \in 0..4, y \in 0..4 : l = x + 5 * y
  BY Coordinates
<1>2. PICK u \in 0..4, v \in 0..4 : t = u + 5 * v
  BY Coordinates
<1>3. TargetLane(l) = y + 5 * ((2 * x + 3 * y) % 5)
  BY <1>1, Coordinates DEF TargetLane
<1>4. SourceLane(t) = ((u + (3 * v)) % 5) + (5 * u)
  BY <1>2, Coordinates DEF SourceLane
<1>5. (2 * x + 3 * y) % 5 \in 0..4 /\ (u + (3 * v)) % 5 \in 0..4
  OBVIOUS
<1>6. (2 * x + 3 * u) % 5 = v <=> x = (u + (3 * v)) % 5
  OBVIOUS
<1>7. TargetLane(l) = t <=> y = u /\ (2 * x + 3 * y) % 5 = v
  BY <1>2, <1>3, <1>5
<1>8. l = SourceLane(t) <=> y = u /\ x = (u + (3 * v)) % 5
  BY <1>1, <1>4, <1>5
<1> QED
  BY <1>6, <1>7, <1>8

\* Offsets are below the lane.
LEMMA RhoRange ==
  ASSUME NEW l \in 0..24
  PROVE  RHO[l] \in 0..LANE - 1 /\ RHO[l] \in 0..LANE
  BY LaneValues DEF RHO

\* A bit after rho and pi of src/keccak.rs,
LEMMA PermutedBit ==
  ASSUME NEW S \in SUBSET StateBits, NEW l \in 0..24, NEW z \in 0..LANE - 1
  PROVE  LANE * l + z \in permuted(S)
           <=> LANE * SourceLane(l) + ((z + LANE - RHO[SourceLane(l)]) % LANE) \in S
<1> DEFINE s == SourceLane(l)
           from == (z + LANE - RHO[s]) % LANE
<1>1. s \in 0..24 /\ RHO[s] \in 0..LANE /\ from \in 0..LANE - 1
  <2>1. s \in 0..24
    BY PiRange
  <2> HIDE DEF s
  <2> QED
    BY <2>1, RhoRange, LaneValues
<1>2. ASSUME NEW k \in 0..24
      PROVE  LANE * l + z \in OfLane(TargetLane(k), rotate_left(Lane(S, k), RHO[k]))
               <=> k = s /\ z \in rotate_left(Lane(S, s), RHO[s])
  <2>1. TargetLane(k) \in 0..24 /\ (TargetLane(k) = l <=> k = s)
    BY PiRange, PiLanes
  <2>2. rotate_left(Lane(S, k), RHO[k]) \in SUBSET (0..LANE - 1)
    BY LaneSets, RhoRange
  <2>3. LANE * l + z \in OfLane(TargetLane(k), rotate_left(Lane(S, k), RHO[k]))
          <=> TargetLane(k) = l /\ z \in rotate_left(Lane(S, k), RHO[k])
    BY <2>1, <2>2, OneLane
  <2> QED
    BY <2>1, <2>3
<1> HIDE DEF s, from
<1>3. LANE * l + z \in permuted(S) <=> z \in rotate_left(Lane(S, s), RHO[s])
  BY <1>1, <1>2 DEF permuted
<1>4. Lane(S, s) \in SUBSET (0..LANE - 1)
  BY LaneSets
<1>5. z \in rotate_left(Lane(S, s), RHO[s]) <=> from \in Lane(S, s)
  BY <1>1, <1>4, RotatedBit DEF from
<1>6. from \in Lane(S, s) <=> LANE * s + from \in S
  BY <1>1 DEF Lane
<1> QED
  BY <1>3, <1>5, <1>6 DEF from, s

\* which make a state.
LEMMA PermutedState ==
  ASSUME NEW S \in SUBSET StateBits
  PROVE  permuted(S) \in SUBSET StateBits
<1>1. ASSUME NEW k \in 0..24
      PROVE  OfLane(TargetLane(k), rotate_left(Lane(S, k), RHO[k])) \in SUBSET StateBits
  <2>1. TargetLane(k) \in 0..24
    BY PiRange, PiLanes
  <2>2. rotate_left(Lane(S, k), RHO[k]) \in SUBSET (0..LANE - 1)
    BY LaneSets, RhoRange
  <2> QED
    BY <2>1, <2>2, BitAddress DEF OfLane
<1> QED
  BY <1>1 DEF permuted

\* The lane k places on in the row of lane l.
RowLane(l, k) == (((l % 5) + k) % 5) + (5 * (l \div 5))

\* Lanes of a row are lanes.
LEMMA RowLanes ==
  ASSUME NEW l \in 0..24, NEW k \in 0..2
  PROVE  RowLane(l, k) \in 0..24 /\ RowLane(l, 0) = l
  BY DEF RowLane

\* A bit after chi of src/keccak.rs,
LEMMA ChiBit ==
  ASSUME NEW S \in SUBSET StateBits, NEW l \in 0..24, NEW z \in 0..LANE - 1
  PROVE  LANE * l + z \in chi(S)
           <=> ((LANE * l + z \in S)
                 # (LANE * RowLane(l, 2) + z \in S /\ LANE * RowLane(l, 1) + z \notin S))
<1> DEFINE at3(k) == SymDiff(Lane(S, RowLane(k, 0)),
                             Lane(S, RowLane(k, 2)) \ Lane(S, RowLane(k, 1)))
           f == [k \in 0..24 |-> at3(k)]
<1>1. chi(S) = FromLanes(f)
  <2> DEFINE At(x, y) == Lane(S, (x % 5) + 5 * y)
  <2>1. chi(S) = UNION {OfLane(x + 5 * y, SymDiff(At(x, y), At(x + 2, y) \ At(x + 1, y))) : x \in 0..4, y \in 0..4}
    BY DEF chi, Lanes
  <2>2. \A x, y \in 0..4 : f[x + 5 * y] = SymDiff(At(x, y), At(x + 2, y) \ At(x + 1, y))
    <3>1. ASSUME NEW x \in 0..4, NEW y \in 0..4
          PROVE  /\ RowLane(x + 5 * y, 0) = (x % 5) + 5 * y
                 /\ RowLane(x + 5 * y, 1) = ((x + 1) % 5) + 5 * y
                 /\ RowLane(x + 5 * y, 2) = ((x + 2) % 5) + 5 * y
      BY Coordinates DEF RowLane
    <3> QED
      BY <3>1, Coordinates
  <2>3. \A x, y \in 0..4 : OfLane(x + 5 * y, f[x + 5 * y])
          = OfLane(x + 5 * y, SymDiff(At(x, y), At(x + 2, y) \ At(x + 1, y)))
    <3> HIDE DEF At, f
    <3> QED
      BY <2>2
  <2>4. FromLanes(f) = UNION {OfLane(x + 5 * y, f[x + 5 * y]) : x \in 0..4, y \in 0..4}
    BY DEF FromLanes
  <2> DEFINE g(x, y) == OfLane(x + 5 * y, f[x + 5 * y])
             h(x, y) == OfLane(x + 5 * y, SymDiff(At(x, y), At(x + 2, y) \ At(x + 1, y)))
  <2>5. \A x, y \in 0..4 : g(x, y) = h(x, y)
    BY <2>3
  <2>6. FromLanes(f) = UNION {g(x, y) : x \in 0..4, y \in 0..4}
    <3> HIDE DEF f
    <3> QED
      BY <2>4
  <2>7. chi(S) = UNION {h(x, y) : x \in 0..4, y \in 0..4}
    BY <2>1
  <2> HIDE DEF g, h, At, f
  <2> QED
    BY <2>5, <2>6, <2>7
<1>2. \A k \in 0..24 : at3(k) \in SUBSET (0..LANE - 1)
  BY LaneSets DEF SymDiff
<1>3. f \in [0..24 -> SUBSET (0..LANE - 1)]
  <2> HIDE DEF at3
  <2> QED
    BY <1>2
<1>4. LANE * l + z \in chi(S) <=> z \in f[l]
  <2> HIDE DEF f
  <2> QED
    BY <1>1, <1>3, StateOfLanes
<1>5. \A k : z \in Lane(S, k) <=> LANE * k + z \in S
  BY DEF Lane
<1>6. z \in f[l] <=> ((z \in Lane(S, l)) # (z \in Lane(S, RowLane(l, 2)) /\ z \notin Lane(S, RowLane(l, 1))))
  BY RowLanes, XorBit
<1> HIDE DEF f, at3
<1> QED
  BY <1>4, <1>5, <1>6

\* which makes a state.
LEMMA ChiState ==
  ASSUME NEW S \in SUBSET StateBits
  PROVE  chi(S) \in SUBSET StateBits
<1> DEFINE At(x, y) == Lane(S, (x % 5) + 5 * y)
           row(x, y) == SymDiff(At(x, y), At(x + 2, y) \ At(x + 1, y))
           g(x, y) == OfLane(x + 5 * y, row(x, y))
<1>1. chi(S) = UNION {g(x, y) : x \in 0..4, y \in 0..4}
  BY DEF chi, Lanes
<1>2. \A x, y \in 0..4 : row(x, y) \in SUBSET (0..LANE - 1)
  BY LaneSets DEF SymDiff
<1>3. \A x, y \in 0..4 : g(x, y) \in SUBSET StateBits
  <2> HIDE DEF row
  <2> QED
    BY <1>2, Coordinates, BitAddress DEF OfLane
<1> HIDE DEF g
<1> QED
  BY <1>1, <1>3

\* A round constant is bits of the first lane.
LEMMA RoundConstant ==
  ASSUME NEW i \in 0..23
  PROVE  RC[i] \in SUBSET (0..LANE - 1) /\ RC[i] \in SUBSET StateBits
<1>1. RC[i] \in SUBSET (0..LANE - 1)
  <2> DEFINE bits == <<{0}, {1, 7, 15}, {1, 3, 7, 15, 63}, {15, 31, 63}, {0, 1, 3, 7, 15}, {0, 31},
      {0, 7, 15, 31, 63}, {0, 3, 15, 63}, {1, 3, 7}, {3, 7}, {0, 3, 15, 31},
      {1, 3, 31}, {0, 1, 3, 7, 15, 31}, {0, 1, 3, 7, 63}, {0, 3, 7, 15, 63},
      {0, 1, 15, 63}, {1, 15, 63}, {7, 63}, {1, 3, 15}, {1, 3, 31, 63},
      {0, 7, 15, 31, 63}, {7, 15, 63}, {0, 31}, {3, 15, 31, 63}>>
  <2>1. RC[i] = {z \in bits[i + 1] : z < LANE}
    BY DEF RC
  <2>2. bits \in [1..24 -> SUBSET (0..63)]
    OBVIOUS
  <2> HIDE DEF bits
  <2> QED
    BY <2>1, <2>2, LaneValues
<1> QED
  BY <1>1, LaneValues DEF StateBits

\* A bit of keccak_linear_expr of src/circuit.rs,
LEMMA LinearBit ==
  ASSUME NEW S \in SUBSET StateBits, NEW l \in 0..24, NEW z \in 0..LANE - 1
  PROVE  LANE * l + z \in keccak_linear_expr(S)
           <=> ((LANE * l + z \in S)
                 # ((z \in column(S, ((l % 5) + 4) % 5))
                     # ((z + LANE - 1) % LANE \in column(S, ((l % 5) + 1) % 5))))
<1> DEFINE columns == {c \in (0..4) \X (0..LANE - 1) :
                         Cardinality({y \in 0..4 : LANE * (c[1] + 5 * y) + c[2] \in S}) % 2 = 1}
<1>1. ASSUME NEW x \in 0..4, NEW w \in 0..LANE - 1
      PROVE  <<x, w>> \in columns <=> w \in column(S, x)
  BY DEF column
<1>2. (z + LANE - 1) % LANE \in 0..LANE - 1
  BY LaneValues
<1>3. ((l % 5) + 4) % 5 \in 0..4 /\ ((l % 5) + 1) % 5 \in 0..4
  OBVIOUS
<1> DEFINE b == LANE * l + z
<1>4. b \in StateBits /\ b \div LANE = l /\ b % LANE = z
  BY BitAddress
<1> HIDE DEF b
<1>5. b \in keccak_linear_expr(S)
        <=> ((b \in S) # ((<<((l % 5) + 4) % 5, z>> \in columns)
                           # (<<((l % 5) + 1) % 5, (z + LANE - 1) % LANE>> \in columns)))
  BY <1>4 DEF keccak_linear_expr
<1> HIDE DEF columns
<1>6. <<((l % 5) + 4) % 5, z>> \in columns <=> z \in column(S, ((l % 5) + 4) % 5)
  BY <1>1, <1>3
<1>7. <<((l % 5) + 1) % 5, (z + LANE - 1) % LANE>> \in columns
        <=> (z + LANE - 1) % LANE \in column(S, ((l % 5) + 1) % 5)
  BY <1>1, <1>2, <1>3
<1> QED
  BY <1>5, <1>6, <1>7 DEF b

\* Two states are equal if they agree on each lane.
AgreeOnLanes(A, B) ==
  \A l \in 0..24 : \A z \in 0..LANE - 1 : LANE * l + z \in A <=> LANE * l + z \in B

\* States that agree on their lanes are equal.
LEMMA EqualByLanes ==
  ASSUME NEW A \in SUBSET StateBits, NEW B \in SUBSET StateBits, AgreeOnLanes(A, B)
  PROVE  A = B
<1>1. ASSUME NEW b \in StateBits
      PROVE  b \in A <=> b \in B
  <2>1. PICK l \in 0..24, z \in 0..LANE - 1 : b = LANE * l + z
    BY BitSplit
  <2> QED
    BY <2>1 DEF AgreeOnLanes
<1> QED
  BY <1>1

\* which is theta.
LEMMA LinearIsTheta ==
  ASSUME NEW S \in SUBSET StateBits
  PROVE  keccak_linear_expr(S) = theta(S)
<1>1. keccak_linear_expr(S) \in SUBSET StateBits /\ theta(S) \in SUBSET StateBits
  BY ThetaState DEF keccak_linear_expr
<1>2. AgreeOnLanes(keccak_linear_expr(S), theta(S))
  BY LinearBit, ThetaBit DEF AgreeOnLanes
<1> QED
  BY <1>1, <1>2, EqualByLanes

\* Where pi_rho_index of src/circuit.rs takes a bit from.
LEMMA IndexOfBit ==
  ASSUME NEW l \in 0..24, NEW z \in 0..LANE - 1
  PROVE  pi_rho_index(LANE * l + z)
           = LANE * SourceLane(l) + ((z + LANE - RHO[SourceLane(l)]) % LANE)
<1>1. (LANE * l + z) \div LANE = l /\ (LANE * l + z) % LANE = z
  BY BitAddress
<1>2. SourceLane(l) \in 0..24 /\ TargetLane(SourceLane(l)) = l
  BY PiRange, PiLanes
<1>3. \A k \in 0..24 : TargetLane(k) = l => k = SourceLane(l)
  BY PiLanes
<1>4. (CHOOSE k \in 0..24 : TargetLane(k) = l) = SourceLane(l)
  BY <1>2, <1>3
<1> QED
  BY <1>1, <1>4 DEF pi_rho_index

Moved(L) == {b \in StateBits : pi_rho_index(b) \in L}

\* The expressions at pi_rho_index are rho and pi.
LEMMA MovedIsPermuted ==
  ASSUME NEW L \in SUBSET StateBits
  PROVE  Moved(L) = permuted(L)
<1>1. Moved(L) \in SUBSET StateBits /\ permuted(L) \in SUBSET StateBits
  BY PermutedState DEF Moved
<1>2. ASSUME NEW l \in 0..24, NEW z \in 0..LANE - 1
      PROVE  LANE * l + z \in Moved(L) <=> LANE * l + z \in permuted(L)
  BY IndexOfBit, PermutedBit, BitAddress DEF Moved
<1>3. AgreeOnLanes(Moved(L), permuted(L))
  BY <1>2 DEF AgreeOnLanes
<1> QED
  BY <1>1, <1>3, EqualByLanes

\* keccak_round_expr of the circuits is round of the native computation.
LEMMA RoundAgrees ==
  ASSUME NEW S \in SUBSET StateBits, NEW rc \in SUBSET StateBits
  PROVE  /\ round(S, rc) \in SUBSET StateBits
         /\ round(S, rc) = keccak_round_expr(S, rc)
<1> DEFINE moved == permuted(theta(S))
<1>1. moved \in SUBSET StateBits
  BY ThetaState, PermutedState
<1>2. moved = Moved(keccak_linear_expr(S))
  BY LinearIsTheta, ThetaState, MovedIsPermuted
<1>3. round(S, rc) = SymDiff(chi(moved), rc)
  BY DEF round
<1> DEFINE Beside(b, k) == LANE * ((((b \div LANE) + k) % 5) + 5 * (b \div (5 * LANE))) + (b % LANE)
<1> HIDE DEF moved
<1>4. round(S, rc) \in SUBSET StateBits
  BY <1>1, <1>3, ChiState DEF SymDiff
<1>5. keccak_round_expr(S, rc) =
        {b \in StateBits : ((b \in moved) # (~(Beside(b, 1) \in moved) /\ Beside(b, 2) \in moved))
                             # (b \in rc)}
  BY <1>2 DEF keccak_round_expr, Moved
<1>6. ASSUME NEW l \in 0..24, NEW z \in 0..LANE - 1
      PROVE  LANE * l + z \in round(S, rc) <=> LANE * l + z \in keccak_round_expr(S, rc)
  <2> DEFINE b == LANE * l + z
  <2>1. b \in StateBits /\ b \div LANE = l /\ b % LANE = z /\ b \div (5 * LANE) = l \div 5
    BY BitAddress
  <2> HIDE DEF b
  <2>2. Beside(b, 1) = LANE * RowLane(l, 1) + z /\ Beside(b, 2) = LANE * RowLane(l, 2) + z
    <3>1. (l + 1) % 5 = ((l % 5) + 1) % 5 /\ (l + 2) % 5 = ((l % 5) + 2) % 5
      OBVIOUS
    <3> QED
      BY <2>1, <3>1 DEF RowLane
  <2>3. b \in chi(moved)
          <=> ((b \in moved) # (LANE * RowLane(l, 2) + z \in moved
                                  /\ LANE * RowLane(l, 1) + z \notin moved))
    BY <1>1, ChiBit DEF b
  <2> HIDE DEF Beside
  <2>4. b \in keccak_round_expr(S, rc)
          <=> ((b \in moved) # (~(Beside(b, 1) \in moved) /\ Beside(b, 2) \in moved)) # (b \in rc)
    BY <1>5, <2>1
  <2>5. b \in round(S, rc) <=> (b \in chi(moved)) # (b \in rc)
    BY <1>3, XorBit
  <2>6. b \in round(S, rc) <=> b \in keccak_round_expr(S, rc)
    BY <2>2, <2>3, <2>4, <2>5
  <2> QED
    BY <2>6 DEF b
<1>7. keccak_round_expr(S, rc) \in SUBSET StateBits
  BY DEF keccak_round_expr
<1>8. AgreeOnLanes(round(S, rc), keccak_round_expr(S, rc))
  BY <1>6 DEF AgreeOnLanes
<1> QED
  BY <1>4, <1>7, <1>8, EqualByLanes

-----------------------------------------------------------------------------
(* Induction and iteration.                                                *)

\* The least number of a set.
LEMMA Least ==
  ASSUME NEW T, T \subseteq Nat, T # {}
  PROVE  \E m \in T : \A n \in T : m <= n
<1> DEFINE R == OpToRel(<, Nat)
<1>1. IsWellFoundedOn(R, Nat)
  BY NatLessThanWellFounded
<1> HIDE DEF R
<1>2. PICK m \in T : \A n \in T : ~(<<n, m>> \in R)
  BY <1>1, WFMin
<1>3. ASSUME NEW n \in T
      PROVE  m <= n
  <2>1. m \in Nat /\ n \in Nat
    OBVIOUS
  <2>2. n < m => <<n, m>> \in R
    BY <2>1 DEF R, OpToRel
  <2> QED
    BY <1>2, <2>1, <2>2
<1> QED
  BY <1>3

\* Induction, of a set.
LEMMA Induction ==
  ASSUME NEW S, 0 \in S, \A n \in Nat : n \in S => n + 1 \in S
  PROVE  \A n \in Nat : n \in S
<1> SUFFICES ASSUME \E n \in Nat : n \notin S
             PROVE  FALSE
  OBVIOUS
<1> DEFINE T == {n \in Nat : n \notin S}
<1>1. PICK m \in T : \A n \in T : m <= n
  <2>1. T \subseteq Nat /\ T # {}
    OBVIOUS
  <2> HIDE DEF T
  <2> QED
    BY <2>1, Least
<1>2. m \in Nat /\ m # 0 /\ m - 1 \in Nat /\ m - 1 \in S
  BY <1>1
<1> QED
  BY <1>1, <1>2

\* The first n + 1 values of an iteration.
Iterates(h, S, x, f, n) ==
  /\ h \in [0..n -> S]
  /\ h[0] = x
  /\ \A k \in 0..(n - 1) : h[k + 1] = f[<<k, h[k]>>]

\* An iteration is determined by its start,
LEMMA IteratesUnique ==
  ASSUME NEW S, NEW x, NEW f, NEW n \in Nat, NEW m \in Nat, NEW g, NEW h,
         Iterates(g, S, x, f, n), Iterates(h, S, x, f, m)
  PROVE  \A k \in Nat : k <= n /\ k <= m => g[k] = h[k]
<1> DEFINE E == {k \in Nat : k <= n /\ k <= m => g[k] = h[k]}
<1>1. 0 \in E
  BY DEF Iterates
<1>2. ASSUME NEW k \in Nat, k \in E
      PROVE  k + 1 \in E
  <2> SUFFICES ASSUME k + 1 <= n, k + 1 <= m PROVE g[k + 1] = h[k + 1]
    OBVIOUS
  <2>1. k \in 0..(n - 1) /\ k \in 0..(m - 1) /\ g[k] = h[k]
    BY <1>2
  <2>2. g[k + 1] = f[<<k, g[k]>>] /\ h[k + 1] = f[<<k, h[k]>>]
    BY <2>1 DEF Iterates
  <2> QED
    BY <2>1, <2>2
<1> HIDE DEF E
<1>3. \A k \in Nat : k \in E
  BY <1>1, <1>2, Induction
<1> QED
  BY <1>3 DEF E

\* has as many values as are asked for,
LEMMA IteratesExist ==
  ASSUME NEW S, NEW x \in S, NEW f \in [Nat \X S -> S]
  PROVE  \A n \in Nat : \E h : Iterates(h, S, x, f, n)
<1> DEFINE E == {n \in Nat : \E h : Iterates(h, S, x, f, n)}
<1>1. 0 \in E
  <2>1. Iterates([k \in 0..0 |-> x], S, x, f, 0)
    BY DEF Iterates
  <2> QED
    BY <2>1
<1>2. ASSUME NEW n \in Nat, n \in E
      PROVE  n + 1 \in E
  <2>1. PICK h : Iterates(h, S, x, f, n)
    BY <1>2
  <2> DEFINE g == [k \in 0..(n + 1) |-> IF k <= n THEN h[k] ELSE f[<<n, h[n]>>]]
  <2>2. h \in [0..n -> S] /\ h[0] = x /\ \A k \in 0..(n - 1) : h[k + 1] = f[<<k, h[k]>>]
    BY <2>1 DEF Iterates
  <2>3. g \in [0..(n + 1) -> S]
    <3>1. f[<<n, h[n]>>] \in S
      BY <2>2
    <3> QED
      BY <2>2, <3>1
  <2>4. g[0] = x
    BY <2>2
  <2>5. ASSUME NEW k \in 0..((n + 1) - 1)
        PROVE  g[k + 1] = f[<<k, g[k]>>]
    <3>1. CASE k = n
      <4>1. g[n] = h[n]
        OBVIOUS
      <4>2. g[n + 1] = f[<<n, h[n]>>]
        OBVIOUS
      <4> QED
        BY <3>1, <4>1, <4>2, Zenon
    <3>2. CASE k # n
      <4>1. k \in 0..(n - 1) /\ k + 1 \in 0..(n + 1) /\ k + 1 <= n /\ k <= n
        BY <3>2
      <4> QED
        BY <2>2, <4>1
    <3> QED
      BY <3>1, <3>2
  <2> HIDE DEF g
  <2>6. Iterates(g, S, x, f, n + 1)
    BY <2>3, <2>4, <2>5 DEF Iterates
  <2> QED
    BY <2>6
<1> HIDE DEF E
<1>3. \A n \in Nat : n \in E
  BY <1>1, <1>2, Induction
<1> QED
  BY <1>3 DEF E

\* f can be iterated from x, in S.
Starts(S, x, f) == x \in S /\ f \in [Nat \X S -> S]

\* g is the iteration of f from x, in S.
Iteration(g, S, x, f) ==
  g \in [Nat -> S] /\ g[0] = x /\ \A n \in Nat : g[n + 1] = f[<<n, g[n]>>]

\* and has a value for every number: a recursive function has its values.
LEMMA IterationExists ==
  ASSUME NEW S, NEW x, NEW f, Starts(S, x, f)
  PROVE  \E g : Iteration(g, S, x, f)
<1>0. x \in S /\ f \in [Nat \X S -> S]
  BY DEF Starts
<1> DEFINE h == [n \in Nat |-> CHOOSE h : Iterates(h, S, x, f, n)]
<1>1. \A n \in Nat : Iterates(h[n], S, x, f, n)
  BY <1>0, IteratesExist
<1> HIDE DEF h
<1> DEFINE g == [n \in Nat |-> h[n][n]]
<1>2. g \in [Nat -> S]
  <2>1. \A n \in Nat : h[n][n] \in S
    BY <1>1 DEF Iterates
  <2> QED
    BY <2>1
<1>3. g[0] = x
  BY <1>1 DEF Iterates
<1>4. ASSUME NEW n \in Nat
      PROVE  g[n + 1] = f[<<n, g[n]>>]
  <2>1. Iterates(h[n], S, x, f, n) /\ Iterates(h[n + 1], S, x, f, n + 1)
    BY <1>1
  <2>2. h[n + 1][n] = h[n][n]
    <3> DEFINE m == n + 1
               a == h[n]
               b == h[m]
    <3>1. m \in Nat /\ n <= m /\ n <= n
      OBVIOUS
    <3>2. Iterates(a, S, x, f, n) /\ Iterates(b, S, x, f, m)
      BY <2>1
    <3> HIDE DEF g, m, a, b
    <3>3. \A k \in Nat : k <= n /\ k <= m => a[k] = b[k]
      BY <3>1, <3>2, IteratesUnique
    <3>4. a[n] = b[n]
      BY <3>1, <3>3
    <3> QED
      BY <3>4 DEF m, a, b
  <2>3. n \in 0..((n + 1) - 1)
    OBVIOUS
  <2>4. h[n + 1][n + 1] = f[<<n, h[n + 1][n]>>]
    BY <2>1, <2>3 DEF Iterates
  <2> QED
    BY <2>2, <2>4
<1> HIDE DEF g
<1>5. Iteration(g, S, x, f)
  BY <1>2, <1>3, <1>4 DEF Iteration
<1> QED
  BY <1>5

-----------------------------------------------------------------------------
(* FIPS 202's offsets and constants.                                       *)

\* The walk goes from each pair to the next.
LEMMA WalkSteps ==
  /\ Walk[0] = <<1, 0>>
  /\ \A n \in Nat : Walk[n + 1] = <<Walk[n][2], (2 * Walk[n][1] + 3 * Walk[n][2]) % 5>>
<1> DEFINE Pairs == Int \X Int
           f == [p \in Nat \X Pairs |-> <<p[2][2], (2 * p[2][1] + 3 * p[2][2]) % 5>>]
<1>1. Starts(Pairs, <<1, 0>>, f)
  <2>1. \A p \in Nat \X Pairs : <<p[2][2], (2 * p[2][1] + 3 * p[2][2]) % 5>> \in Pairs
    OBVIOUS
  <2>2. f \in [Nat \X Pairs -> Pairs]
    BY <2>1
  <2>3. <<1, 0>> \in Pairs
    OBVIOUS
  <2> QED
    BY <2>2, <2>3 DEF Starts
<1>2. PICK g : Iteration(g, Pairs, <<1, 0>>, f)
  <2> HIDE DEF f, Pairs
  <2> QED
    BY <1>1, IterationExists, Zenon
<1>3. g \in [Nat -> Pairs] /\ g[0] = <<1, 0>>
  BY <1>2 DEF Iteration
<1>4. ASSUME NEW n \in Nat
      PROVE  g[n + 1] = <<g[n][2], (2 * g[n][1] + 3 * g[n][2]) % 5>>
  <2>1. g[n + 1] = f[<<n, g[n]>>] /\ <<n, g[n]>> \in Nat \X Pairs
    BY <1>2, <1>3 DEF Iteration
  <2> QED
    BY <2>1
<1> HIDE DEF f, Pairs
<1>5. g = [t \in Nat |-> IF t = 0 THEN <<1, 0>>
                         ELSE <<g[t - 1][2], (2 * g[t - 1][1] + 3 * g[t - 1][2]) % 5>>]
  <2>1. ASSUME NEW t \in Nat
        PROVE  g[t] = IF t = 0 THEN <<1, 0>>
                      ELSE <<g[t - 1][2], (2 * g[t - 1][1] + 3 * g[t - 1][2]) % 5>>
    <3>1. CASE t = 0
      BY <1>3, <3>1
    <3>2. CASE t # 0
      <4>1. t - 1 \in Nat /\ (t - 1) + 1 = t
        BY <3>2
      <4> QED
        BY <1>4, <3>2, <4>1
    <3> QED
      BY <3>1, <3>2
  <2> QED
    BY <1>3, <2>1
<1>6. Walk = [t \in Nat |-> IF t = 0 THEN <<1, 0>>
                         ELSE <<Walk[t - 1][2], (2 * Walk[t - 1][1] + 3 * Walk[t - 1][2]) % 5>>]
  BY <1>5 DEF Walk
<1>7. ASSUME NEW n \in Nat
      PROVE  Walk[n + 1] = <<Walk[n][2], (2 * Walk[n][1] + 3 * Walk[n][2]) % 5>>
  <2>1. n + 1 \in Nat /\ n + 1 # 0 /\ (n + 1) - 1 = n
    OBVIOUS
  <2> QED
    BY <1>6, <2>1
<1>8. Walk[0] = <<1, 0>>
  BY <1>6
<1> QED
  BY <1>7, <1>8

\* A step of the walk with its values.
LEMMA WalkNext ==
  ASSUME NEW n \in Nat, NEW m \in Nat, NEW x \in Int, NEW y \in Int,
         m = n + 1, Walk[n] = <<x, y>>
  PROVE  Walk[m] = <<y, (2 * x + 3 * y) % 5>>
<1>1. Walk[n][1] = x /\ Walk[n][2] = y
  OBVIOUS
<1> QED
  BY <1>1, WalkSteps

\* The pairs it goes through.
LEMMA WalkValues ==
  /\ Walk[0] = <<1, 0>>
  /\ Walk[1] = <<0, 2>>
  /\ Walk[2] = <<2, 1>>
  /\ Walk[3] = <<1, 2>>
  /\ Walk[4] = <<2, 3>>
  /\ Walk[5] = <<3, 3>>
  /\ Walk[6] = <<3, 0>>
  /\ Walk[7] = <<0, 1>>
  /\ Walk[8] = <<1, 3>>
  /\ Walk[9] = <<3, 1>>
  /\ Walk[10] = <<1, 4>>
  /\ Walk[11] = <<4, 4>>
  /\ Walk[12] = <<4, 0>>
  /\ Walk[13] = <<0, 3>>
  /\ Walk[14] = <<3, 4>>
  /\ Walk[15] = <<4, 3>>
  /\ Walk[16] = <<3, 2>>
  /\ Walk[17] = <<2, 2>>
  /\ Walk[18] = <<2, 0>>
  /\ Walk[19] = <<0, 4>>
  /\ Walk[20] = <<4, 2>>
  /\ Walk[21] = <<2, 4>>
  /\ Walk[22] = <<4, 1>>
  /\ Walk[23] = <<1, 1>>
<1>0. Walk[0] = <<1, 0>>
  BY WalkSteps
<1>1. Walk[1] = <<0, 2>>
  BY <1>0, WalkNext
<1>2. Walk[2] = <<2, 1>>
  BY <1>1, WalkNext
<1>3. Walk[3] = <<1, 2>>
  BY <1>2, WalkNext
<1>4. Walk[4] = <<2, 3>>
  BY <1>3, WalkNext
<1>5. Walk[5] = <<3, 3>>
  BY <1>4, WalkNext
<1>6. Walk[6] = <<3, 0>>
  BY <1>5, WalkNext
<1>7. Walk[7] = <<0, 1>>
  BY <1>6, WalkNext
<1>8. Walk[8] = <<1, 3>>
  BY <1>7, WalkNext
<1>9. Walk[9] = <<3, 1>>
  BY <1>8, WalkNext
<1>10. Walk[10] = <<1, 4>>
  BY <1>9, WalkNext
<1>11. Walk[11] = <<4, 4>>
  BY <1>10, WalkNext
<1>12. Walk[12] = <<4, 0>>
  BY <1>11, WalkNext
<1>13. Walk[13] = <<0, 3>>
  BY <1>12, WalkNext
<1>14. Walk[14] = <<3, 4>>
  BY <1>13, WalkNext
<1>15. Walk[15] = <<4, 3>>
  BY <1>14, WalkNext
<1>16. Walk[16] = <<3, 2>>
  BY <1>15, WalkNext
<1>17. Walk[17] = <<2, 2>>
  BY <1>16, WalkNext
<1>18. Walk[18] = <<2, 0>>
  BY <1>17, WalkNext
<1>19. Walk[19] = <<0, 4>>
  BY <1>18, WalkNext
<1>20. Walk[20] = <<4, 2>>
  BY <1>19, WalkNext
<1>21. Walk[21] = <<2, 4>>
  BY <1>20, WalkNext
<1>22. Walk[22] = <<4, 1>>
  BY <1>21, WalkNext
<1>23. Walk[23] = <<1, 1>>
  BY <1>22, WalkNext
<1> QED
  BY <1>0, <1>1, <1>2, <1>3, <1>4, <1>5, <1>6, <1>7, <1>8, <1>9, <1>10, <1>11, <1>12, <1>13, <1>14, <1>15, <1>16, <1>17, <1>18, <1>19, <1>20, <1>21, <1>22, <1>23

\* When the walk comes to lane l of the plane, numbered by x + 5y.
Visit == <<0, 18, 6, 12, 7, 23, 2, 9, 22, 1, 3, 17, 16, 20, 13, 8, 4, 5, 15, 19, 10, 21, 14, 11>>

\* The walk comes to every lane but the first, once.
LEMMA WalkVisits ==
  /\ \A n \in 0..23 : /\ Walk[n][1] \in 0..4 /\ Walk[n][2] \in 0..4
                      /\ Walk[n][1] + 5 * Walk[n][2] \in 1..24
                      /\ Visit[Walk[n][1] + 5 * Walk[n][2]] = n
  /\ \A l \in 1..24 : Visit[l] \in 0..23 /\ Walk[Visit[l]] = <<l % 5, l \div 5>>
<1>1. ASSUME NEW n \in 0..23
      PROVE  /\ Walk[n][1] \in 0..4 /\ Walk[n][2] \in 0..4
             /\ Walk[n][1] + 5 * Walk[n][2] \in 1..24
             /\ Visit[Walk[n][1] + 5 * Walk[n][2]] = n
  <2>0. CASE n = 0
    BY <2>0, WalkValues DEF Visit
  <2>1. CASE n = 1
    BY <2>1, WalkValues DEF Visit
  <2>2. CASE n = 2
    BY <2>2, WalkValues DEF Visit
  <2>3. CASE n = 3
    BY <2>3, WalkValues DEF Visit
  <2>4. CASE n = 4
    BY <2>4, WalkValues DEF Visit
  <2>5. CASE n = 5
    BY <2>5, WalkValues DEF Visit
  <2>6. CASE n = 6
    BY <2>6, WalkValues DEF Visit
  <2>7. CASE n = 7
    BY <2>7, WalkValues DEF Visit
  <2>8. CASE n = 8
    BY <2>8, WalkValues DEF Visit
  <2>9. CASE n = 9
    BY <2>9, WalkValues DEF Visit
  <2>10. CASE n = 10
    BY <2>10, WalkValues DEF Visit
  <2>11. CASE n = 11
    BY <2>11, WalkValues DEF Visit
  <2>12. CASE n = 12
    BY <2>12, WalkValues DEF Visit
  <2>13. CASE n = 13
    BY <2>13, WalkValues DEF Visit
  <2>14. CASE n = 14
    BY <2>14, WalkValues DEF Visit
  <2>15. CASE n = 15
    BY <2>15, WalkValues DEF Visit
  <2>16. CASE n = 16
    BY <2>16, WalkValues DEF Visit
  <2>17. CASE n = 17
    BY <2>17, WalkValues DEF Visit
  <2>18. CASE n = 18
    BY <2>18, WalkValues DEF Visit
  <2>19. CASE n = 19
    BY <2>19, WalkValues DEF Visit
  <2>20. CASE n = 20
    BY <2>20, WalkValues DEF Visit
  <2>21. CASE n = 21
    BY <2>21, WalkValues DEF Visit
  <2>22. CASE n = 22
    BY <2>22, WalkValues DEF Visit
  <2>23. CASE n = 23
    BY <2>23, WalkValues DEF Visit
  <2> QED
    BY <2>0, <2>1, <2>2, <2>3, <2>4, <2>5, <2>6, <2>7, <2>8, <2>9, <2>10, <2>11, <2>12, <2>13, <2>14, <2>15, <2>16, <2>17, <2>18, <2>19, <2>20, <2>21, <2>22, <2>23
<1>2. ASSUME NEW l \in 1..24
      PROVE  Visit[l] \in 0..23 /\ Walk[Visit[l]] = <<l % 5, l \div 5>>
  <2>1. CASE l = 1
    BY <2>1, WalkValues DEF Visit
  <2>2. CASE l = 2
    BY <2>2, WalkValues DEF Visit
  <2>3. CASE l = 3
    BY <2>3, WalkValues DEF Visit
  <2>4. CASE l = 4
    BY <2>4, WalkValues DEF Visit
  <2>5. CASE l = 5
    BY <2>5, WalkValues DEF Visit
  <2>6. CASE l = 6
    BY <2>6, WalkValues DEF Visit
  <2>7. CASE l = 7
    BY <2>7, WalkValues DEF Visit
  <2>8. CASE l = 8
    BY <2>8, WalkValues DEF Visit
  <2>9. CASE l = 9
    BY <2>9, WalkValues DEF Visit
  <2>10. CASE l = 10
    BY <2>10, WalkValues DEF Visit
  <2>11. CASE l = 11
    BY <2>11, WalkValues DEF Visit
  <2>12. CASE l = 12
    BY <2>12, WalkValues DEF Visit
  <2>13. CASE l = 13
    BY <2>13, WalkValues DEF Visit
  <2>14. CASE l = 14
    BY <2>14, WalkValues DEF Visit
  <2>15. CASE l = 15
    BY <2>15, WalkValues DEF Visit
  <2>16. CASE l = 16
    BY <2>16, WalkValues DEF Visit
  <2>17. CASE l = 17
    BY <2>17, WalkValues DEF Visit
  <2>18. CASE l = 18
    BY <2>18, WalkValues DEF Visit
  <2>19. CASE l = 19
    BY <2>19, WalkValues DEF Visit
  <2>20. CASE l = 20
    BY <2>20, WalkValues DEF Visit
  <2>21. CASE l = 21
    BY <2>21, WalkValues DEF Visit
  <2>22. CASE l = 22
    BY <2>22, WalkValues DEF Visit
  <2>23. CASE l = 23
    BY <2>23, WalkValues DEF Visit
  <2>24. CASE l = 24
    BY <2>24, WalkValues DEF Visit
  <2> QED
    BY <2>1, <2>2, <2>3, <2>4, <2>5, <2>6, <2>7, <2>8, <2>9, <2>10, <2>11, <2>12, <2>13, <2>14, <2>15, <2>16, <2>17, <2>18, <2>19, <2>20, <2>21, <2>22, <2>23, <2>24
<1> QED
  BY <1>1, <1>2

\* The offsets of FIPS 202 are those of the table.
LEMMA OffsetIsRho ==
  ASSUME NEW l \in 0..24
  PROVE  Offset(l % 5, l \div 5) = RHO[l]
<1>1. CASE l = 0
  BY <1>1, LaneValues DEF Offset, RHO
<1>2. CASE l # 0
  <2>0. l \in 1..24
    BY <1>2
  <2>1. l \in 1..24 /\ Visit[l] \in 0..23 /\ Walk[Visit[l]] = <<l % 5, l \div 5>>
    BY <2>0, WalkVisits
  <2>2. ASSUME NEW n \in 0..23, Walk[n] = <<l % 5, l \div 5>>
        PROVE  n = Visit[l]
    <3>1. Walk[n][1] = l % 5 /\ Walk[n][2] = l \div 5
      BY <2>2
    <3>2. Walk[n][1] + 5 * Walk[n][2] = l
      BY <2>1, <3>1
    <3> QED
      BY <3>2, WalkVisits
  <2>3. (CHOOSE n \in 0..23 : Walk[n] = <<l % 5, l \div 5>>) = Visit[l]
    BY <2>1, <2>2
  <2>4. <<l % 5, l \div 5>> # <<0, 0>>
    BY <2>1
  <2>5. Offset(l % 5, l \div 5) = (((Visit[l] + 1) * (Visit[l] + 2)) \div 2) % LANE
    BY <2>3, <2>4 DEF Offset
  <2>6. (((Visit[l] + 1) * (Visit[l] + 2)) \div 2) % LANE = RHO[l]
    <3>1. CASE l = 1
      BY <3>1, LaneValues DEF Visit, RHO
    <3>2. CASE l = 2
      BY <3>2, LaneValues DEF Visit, RHO
    <3>3. CASE l = 3
      BY <3>3, LaneValues DEF Visit, RHO
    <3>4. CASE l = 4
      BY <3>4, LaneValues DEF Visit, RHO
    <3>5. CASE l = 5
      BY <3>5, LaneValues DEF Visit, RHO
    <3>6. CASE l = 6
      BY <3>6, LaneValues DEF Visit, RHO
    <3>7. CASE l = 7
      BY <3>7, LaneValues DEF Visit, RHO
    <3>8. CASE l = 8
      BY <3>8, LaneValues DEF Visit, RHO
    <3>9. CASE l = 9
      BY <3>9, LaneValues DEF Visit, RHO
    <3>10. CASE l = 10
      BY <3>10, LaneValues DEF Visit, RHO
    <3>11. CASE l = 11
      BY <3>11, LaneValues DEF Visit, RHO
    <3>12. CASE l = 12
      BY <3>12, LaneValues DEF Visit, RHO
    <3>13. CASE l = 13
      BY <3>13, LaneValues DEF Visit, RHO
    <3>14. CASE l = 14
      BY <3>14, LaneValues DEF Visit, RHO
    <3>15. CASE l = 15
      BY <3>15, LaneValues DEF Visit, RHO
    <3>16. CASE l = 16
      BY <3>16, LaneValues DEF Visit, RHO
    <3>17. CASE l = 17
      BY <3>17, LaneValues DEF Visit, RHO
    <3>18. CASE l = 18
      BY <3>18, LaneValues DEF Visit, RHO
    <3>19. CASE l = 19
      BY <3>19, LaneValues DEF Visit, RHO
    <3>20. CASE l = 20
      BY <3>20, LaneValues DEF Visit, RHO
    <3>21. CASE l = 21
      BY <3>21, LaneValues DEF Visit, RHO
    <3>22. CASE l = 22
      BY <3>22, LaneValues DEF Visit, RHO
    <3>23. CASE l = 23
      BY <3>23, LaneValues DEF Visit, RHO
    <3>24. CASE l = 24
      BY <3>24, LaneValues DEF Visit, RHO
    <3> QED
      BY <2>1, <3>1, <3>2, <3>3, <3>4, <3>5, <3>6, <3>7, <3>8, <3>9, <3>10, <3>11, <3>12, <3>13, <3>14, <3>15, <3>16, <3>17, <3>18, <3>19, <3>20, <3>21, <3>22, <3>23, <3>24
  <2> QED
    BY <2>5, <2>6
<1> QED
  BY <1>1, <1>2

-----------------------------------------------------------------------------
(* The shift register.                                                     *)

\* One shift of the register.
Shift(R) ==
  LET shifted == {i + 1 : i \in R}
  IN  IF 8 \in shifted THEN SymDiff(shifted \ {8}, {0, 4, 5, 6}) ELSE shifted

\* A shift, bit by bit.
LEMMA ShiftBits ==
  ASSUME NEW R \in SUBSET (0..7)
  PROVE  /\ Shift(R) \in SUBSET (0..7)
         /\ 0 \in Shift(R) <=> 7 \in R
         /\ \A j \in {1, 2, 3, 7} : j \in Shift(R) <=> j - 1 \in R
         /\ \A j \in {4, 5, 6} : j \in Shift(R) <=> (j - 1 \in R) # (7 \in R)
<1> DEFINE shifted == {i + 1 : i \in R}
<1>1. \A j \in Int : j \in shifted <=> j - 1 \in R
  OBVIOUS
<1>2. shifted \in SUBSET (1..8)
  OBVIOUS
<1>3. Shift(R) = IF 8 \in shifted THEN SymDiff(shifted \ {8}, {0, 4, 5, 6}) ELSE shifted
  BY DEF Shift
<1> HIDE DEF shifted
<1>4. 8 \in shifted <=> 7 \in R
  BY <1>1
<1>5. CASE 7 \in R
  BY <1>1, <1>2, <1>3, <1>4, <1>5 DEF SymDiff
<1>6. CASE 7 \notin R
  BY <1>1, <1>2, <1>3, <1>4, <1>6
<1> QED
  BY <1>5, <1>6

\* The register shifts from each state to the next.
LEMMA RegisterSteps ==
  /\ Register[0] = {0}
  /\ \A n \in Nat : /\ Register[n] \in SUBSET (0..7)
                    /\ Register[n + 1] = Shift(Register[n])
<1> DEFINE Bits == SUBSET (0..7)
           f == [p \in Nat \X Bits |-> Shift(p[2])]
<1>1. Starts(Bits, {0}, f)
  <2>1. \A p \in Nat \X Bits : Shift(p[2]) \in Bits
    BY ShiftBits
  <2>2. {0} \in Bits
    OBVIOUS
  <2> HIDE DEF Bits
  <2> QED
    BY <2>1, <2>2 DEF Starts
<1>2. PICK g : Iteration(g, Bits, {0}, f)
  <2> HIDE DEF f, Bits
  <2> QED
    BY <1>1, IterationExists, Zenon
<1>3. g \in [Nat -> Bits] /\ g[0] = {0}
  BY <1>2 DEF Iteration
<1> HIDE DEF Bits
<1>4. ASSUME NEW n \in Nat
      PROVE  g[n + 1] = Shift(g[n])
  <2>1. g[n + 1] = f[<<n, g[n]>>] /\ <<n, g[n]>> \in Nat \X Bits
    BY <1>2, <1>3 DEF Iteration
  <2> QED
    BY <2>1
<1> HIDE DEF f
<1>5. g = [t \in Nat |-> IF t = 0 THEN {0}
                         ELSE LET shifted == {i + 1 : i \in g[t - 1]}
         IN  IF 8 \in shifted THEN SymDiff(shifted \ {8}, {0, 4, 5, 6}) ELSE shifted]
  <2>1. ASSUME NEW t \in Nat
        PROVE  g[t] = IF t = 0 THEN {0} ELSE Shift(g[t - 1])
    <3>1. CASE t = 0
      BY <1>3, <3>1
    <3>2. CASE t # 0
      <4>1. t - 1 \in Nat /\ (t - 1) + 1 = t
        BY <3>2
      <4> QED
        BY <1>4, <3>2, <4>1
    <3> QED
      BY <3>1, <3>2
  <2>2. g = [t \in Nat |-> IF t = 0 THEN {0} ELSE Shift(g[t - 1])]
    BY <1>3, <2>1
  <2> QED
    BY <2>2 DEF Shift
<1>6. Register = [t \in Nat |-> IF t = 0 THEN {0} ELSE Shift(Register[t - 1])]
  BY <1>5 DEF Register, Shift
<1>7. \A n \in Nat : Register[n + 1] = Shift(Register[n])
  <2>1. ASSUME NEW n \in Nat
        PROVE  Register[n + 1] = Shift(Register[n])
    <3>1. n + 1 \in Nat /\ n + 1 # 0 /\ (n + 1) - 1 = n
      OBVIOUS
    <3> QED
      BY <1>6, <3>1
  <2> QED
    BY <2>1
<1>8. Register[0] = {0}
  BY <1>6
<1> DEFINE E == {n \in Nat : Register[n] \in SUBSET (0..7)}
<1>9. \A n \in Nat : n \in E
  <2>1. 0 \in E
    BY <1>8
  <2>2. \A n \in Nat : n \in E => n + 1 \in E
    BY <1>7, ShiftBits
  <2> HIDE DEF E
  <2> QED
    BY <2>1, <2>2, Induction
<1> QED
  BY <1>7, <1>8, <1>9

\* Seven shifts, the number between one round constant and the next.
LEMMA SevenShifts ==
  ASSUME NEW n \in Nat
  PROVE  /\ Register[n] \in SUBSET (0..7)
         /\ 0 \in Register[n + 1] <=> 7 \in Register[n]
         /\ 0 \in Register[n + 2] <=> 6 \in Register[n]
         /\ 0 \in Register[n + 3] <=> ((5 \in Register[n]) # (7 \in Register[n]))
         /\ 0 \in Register[n + 4] <=> ((4 \in Register[n]) # ((6 \in Register[n]) # (7 \in Register[n])))
         /\ 0 \in Register[n + 5] <=> ((3 \in Register[n]) # ((5 \in Register[n]) # (6 \in Register[n])))
         /\ 0 \in Register[n + 6] <=> ((2 \in Register[n]) # ((4 \in Register[n]) # (5 \in Register[n])))
         /\ 0 \in Register[n + 7] <=> ((1 \in Register[n]) # ((3 \in Register[n]) # (4 \in Register[n])))
         /\ 1 \in Register[n + 7] <=> ((2 \in Register[n]) # ((4 \in Register[n]) # (5 \in Register[n])))
         /\ 2 \in Register[n + 7] <=> ((3 \in Register[n]) # ((5 \in Register[n]) # (6 \in Register[n])))
         /\ 3 \in Register[n + 7] <=> ((4 \in Register[n]) # ((6 \in Register[n]) # (7 \in Register[n])))
         /\ 4 \in Register[n + 7] <=> ((1 \in Register[n]) # ((3 \in Register[n]) # ((4 \in Register[n]) # ((5 \in Register[n]) # (7 \in Register[n])))))
         /\ 5 \in Register[n + 7] <=> ((1 \in Register[n]) # ((2 \in Register[n]) # ((3 \in Register[n]) # ((5 \in Register[n]) # (6 \in Register[n])))))
         /\ 6 \in Register[n + 7] <=> ((1 \in Register[n]) # ((2 \in Register[n]) # ((6 \in Register[n]) # (7 \in Register[n]))))
         /\ 7 \in Register[n + 7] <=> ((0 \in Register[n]) # ((2 \in Register[n]) # ((3 \in Register[n]) # (7 \in Register[n]))))
<1>0. Register[n] \in SUBSET (0..7)
  BY RegisterSteps
<1>1. /\ Register[n + 1] \in SUBSET (0..7)
      /\ 0 \in Register[n + 1] <=> 7 \in Register[n]
      /\ 1 \in Register[n + 1] <=> 0 \in Register[n]
      /\ 2 \in Register[n + 1] <=> 1 \in Register[n]
      /\ 3 \in Register[n + 1] <=> 2 \in Register[n]
      /\ 4 \in Register[n + 1] <=> ((3 \in Register[n]) # (7 \in Register[n]))
      /\ 5 \in Register[n + 1] <=> ((4 \in Register[n]) # (7 \in Register[n]))
      /\ 6 \in Register[n + 1] <=> ((5 \in Register[n]) # (7 \in Register[n]))
      /\ 7 \in Register[n + 1] <=> 6 \in Register[n]
  <2>1. Register[n + 1] = Shift(Register[n])
    BY RegisterSteps
  <2> QED
    BY <1>0, <2>1, ShiftBits
<1>2. /\ Register[n + 2] \in SUBSET (0..7)
      /\ 0 \in Register[n + 2] <=> 6 \in Register[n]
      /\ 1 \in Register[n + 2] <=> 7 \in Register[n]
      /\ 2 \in Register[n + 2] <=> 0 \in Register[n]
      /\ 3 \in Register[n + 2] <=> 1 \in Register[n]
      /\ 4 \in Register[n + 2] <=> ((2 \in Register[n]) # (6 \in Register[n]))
      /\ 5 \in Register[n + 2] <=> ((3 \in Register[n]) # ((6 \in Register[n]) # (7 \in Register[n])))
      /\ 6 \in Register[n + 2] <=> ((4 \in Register[n]) # ((6 \in Register[n]) # (7 \in Register[n])))
      /\ 7 \in Register[n + 2] <=> ((5 \in Register[n]) # (7 \in Register[n]))
  <2>1. Register[n + 2] = Shift(Register[n + 1])
    <3>1. n + 1 \in Nat /\ (n + 1) + 1 = n + 2
      OBVIOUS
    <3> QED
      BY <3>1, RegisterSteps
  <2> QED
    BY <1>1, <2>1, ShiftBits
<1>3. /\ Register[n + 3] \in SUBSET (0..7)
      /\ 0 \in Register[n + 3] <=> ((5 \in Register[n]) # (7 \in Register[n]))
      /\ 1 \in Register[n + 3] <=> 6 \in Register[n]
      /\ 2 \in Register[n + 3] <=> 7 \in Register[n]
      /\ 3 \in Register[n + 3] <=> 0 \in Register[n]
      /\ 4 \in Register[n + 3] <=> ((1 \in Register[n]) # ((5 \in Register[n]) # (7 \in Register[n])))
      /\ 5 \in Register[n + 3] <=> ((2 \in Register[n]) # ((5 \in Register[n]) # ((6 \in Register[n]) # (7 \in Register[n]))))
      /\ 6 \in Register[n + 3] <=> ((3 \in Register[n]) # ((5 \in Register[n]) # (6 \in Register[n])))
      /\ 7 \in Register[n + 3] <=> ((4 \in Register[n]) # ((6 \in Register[n]) # (7 \in Register[n])))
  <2>1. Register[n + 3] = Shift(Register[n + 2])
    <3>1. n + 2 \in Nat /\ (n + 2) + 1 = n + 3
      OBVIOUS
    <3> QED
      BY <3>1, RegisterSteps
  <2> QED
    BY <1>2, <2>1, ShiftBits
<1>4. /\ Register[n + 4] \in SUBSET (0..7)
      /\ 0 \in Register[n + 4] <=> ((4 \in Register[n]) # ((6 \in Register[n]) # (7 \in Register[n])))
      /\ 1 \in Register[n + 4] <=> ((5 \in Register[n]) # (7 \in Register[n]))
      /\ 2 \in Register[n + 4] <=> 6 \in Register[n]
      /\ 3 \in Register[n + 4] <=> 7 \in Register[n]
      /\ 4 \in Register[n + 4] <=> ((0 \in Register[n]) # ((4 \in Register[n]) # ((6 \in Register[n]) # (7 \in Register[n]))))
      /\ 5 \in Register[n + 4] <=> ((1 \in Register[n]) # ((4 \in Register[n]) # ((5 \in Register[n]) # (6 \in Register[n]))))
      /\ 6 \in Register[n + 4] <=> ((2 \in Register[n]) # ((4 \in Register[n]) # (5 \in Register[n])))
      /\ 7 \in Register[n + 4] <=> ((3 \in Register[n]) # ((5 \in Register[n]) # (6 \in Register[n])))
  <2>1. Register[n + 4] = Shift(Register[n + 3])
    <3>1. n + 3 \in Nat /\ (n + 3) + 1 = n + 4
      OBVIOUS
    <3> QED
      BY <3>1, RegisterSteps
  <2> QED
    BY <1>3, <2>1, ShiftBits
<1>5. /\ Register[n + 5] \in SUBSET (0..7)
      /\ 0 \in Register[n + 5] <=> ((3 \in Register[n]) # ((5 \in Register[n]) # (6 \in Register[n])))
      /\ 1 \in Register[n + 5] <=> ((4 \in Register[n]) # ((6 \in Register[n]) # (7 \in Register[n])))
      /\ 2 \in Register[n + 5] <=> ((5 \in Register[n]) # (7 \in Register[n]))
      /\ 3 \in Register[n + 5] <=> 6 \in Register[n]
      /\ 4 \in Register[n + 5] <=> ((3 \in Register[n]) # ((5 \in Register[n]) # ((6 \in Register[n]) # (7 \in Register[n]))))
      /\ 5 \in Register[n + 5] <=> ((0 \in Register[n]) # ((3 \in Register[n]) # ((4 \in Register[n]) # ((5 \in Register[n]) # (7 \in Register[n])))))
      /\ 6 \in Register[n + 5] <=> ((1 \in Register[n]) # ((3 \in Register[n]) # (4 \in Register[n])))
      /\ 7 \in Register[n + 5] <=> ((2 \in Register[n]) # ((4 \in Register[n]) # (5 \in Register[n])))
  <2>1. Register[n + 5] = Shift(Register[n + 4])
    <3>1. n + 4 \in Nat /\ (n + 4) + 1 = n + 5
      OBVIOUS
    <3> QED
      BY <3>1, RegisterSteps
  <2> QED
    BY <1>4, <2>1, ShiftBits
<1>6. /\ Register[n + 6] \in SUBSET (0..7)
      /\ 0 \in Register[n + 6] <=> ((2 \in Register[n]) # ((4 \in Register[n]) # (5 \in Register[n])))
      /\ 1 \in Register[n + 6] <=> ((3 \in Register[n]) # ((5 \in Register[n]) # (6 \in Register[n])))
      /\ 2 \in Register[n + 6] <=> ((4 \in Register[n]) # ((6 \in Register[n]) # (7 \in Register[n])))
      /\ 3 \in Register[n + 6] <=> ((5 \in Register[n]) # (7 \in Register[n]))
      /\ 4 \in Register[n + 6] <=> ((2 \in Register[n]) # ((4 \in Register[n]) # ((5 \in Register[n]) # (6 \in Register[n]))))
      /\ 5 \in Register[n + 6] <=> ((2 \in Register[n]) # ((3 \in Register[n]) # ((4 \in Register[n]) # ((6 \in Register[n]) # (7 \in Register[n])))))
      /\ 6 \in Register[n + 6] <=> ((0 \in Register[n]) # ((2 \in Register[n]) # ((3 \in Register[n]) # (7 \in Register[n]))))
      /\ 7 \in Register[n + 6] <=> ((1 \in Register[n]) # ((3 \in Register[n]) # (4 \in Register[n])))
  <2>1. Register[n + 6] = Shift(Register[n + 5])
    <3>1. n + 5 \in Nat /\ (n + 5) + 1 = n + 6
      OBVIOUS
    <3> QED
      BY <3>1, RegisterSteps
  <2> QED
    BY <1>5, <2>1, ShiftBits
<1>7. /\ Register[n + 7] \in SUBSET (0..7)
      /\ 0 \in Register[n + 7] <=> ((1 \in Register[n]) # ((3 \in Register[n]) # (4 \in Register[n])))
      /\ 1 \in Register[n + 7] <=> ((2 \in Register[n]) # ((4 \in Register[n]) # (5 \in Register[n])))
      /\ 2 \in Register[n + 7] <=> ((3 \in Register[n]) # ((5 \in Register[n]) # (6 \in Register[n])))
      /\ 3 \in Register[n + 7] <=> ((4 \in Register[n]) # ((6 \in Register[n]) # (7 \in Register[n])))
      /\ 4 \in Register[n + 7] <=> ((1 \in Register[n]) # ((3 \in Register[n]) # ((4 \in Register[n]) # ((5 \in Register[n]) # (7 \in Register[n])))))
      /\ 5 \in Register[n + 7] <=> ((1 \in Register[n]) # ((2 \in Register[n]) # ((3 \in Register[n]) # ((5 \in Register[n]) # (6 \in Register[n])))))
      /\ 6 \in Register[n + 7] <=> ((1 \in Register[n]) # ((2 \in Register[n]) # ((6 \in Register[n]) # (7 \in Register[n]))))
      /\ 7 \in Register[n + 7] <=> ((0 \in Register[n]) # ((2 \in Register[n]) # ((3 \in Register[n]) # (7 \in Register[n]))))
  <2>1. Register[n + 7] = Shift(Register[n + 6])
    <3>1. n + 6 \in Nat /\ (n + 6) + 1 = n + 7
      OBVIOUS
    <3> QED
      BY <3>1, RegisterSteps
  <2> QED
    BY <1>6, <2>1, ShiftBits
<1> QED
  BY <1>0, <1>1, <1>2, <1>3, <1>4, <1>5, <1>6, <1>7

\* The register before each constant.
Drawn(i) == Register[7 * i]

\* The bits of constant i that are ones, by their powers of two.
Ones(i) == {k \in 0..6 : 0 \in Register[k + 7 * i]}

\* Seven shifts: the bits that come out, and the register after them.
LEMMA DrawOne ==
  ASSUME NEW i \in Nat
  PROVE  /\ Drawn(i) \in SUBSET (0..7)
         /\ Ones(i) \in SUBSET (0..6)
         /\ 0 \in Ones(i) <=> 0 \in Drawn(i)
         /\ 1 \in Ones(i) <=> 7 \in Drawn(i)
         /\ 2 \in Ones(i) <=> 6 \in Drawn(i)
         /\ 3 \in Ones(i) <=> ((5 \in Drawn(i)) # (7 \in Drawn(i)))
         /\ 4 \in Ones(i) <=> ((4 \in Drawn(i)) # ((6 \in Drawn(i)) # (7 \in Drawn(i))))
         /\ 5 \in Ones(i) <=> ((3 \in Drawn(i)) # ((5 \in Drawn(i)) # (6 \in Drawn(i))))
         /\ 6 \in Ones(i) <=> ((2 \in Drawn(i)) # ((4 \in Drawn(i)) # (5 \in Drawn(i))))
         /\ 0 \in Drawn(i + 1) <=> ((1 \in Drawn(i)) # ((3 \in Drawn(i)) # (4 \in Drawn(i))))
         /\ 1 \in Drawn(i + 1) <=> ((2 \in Drawn(i)) # ((4 \in Drawn(i)) # (5 \in Drawn(i))))
         /\ 2 \in Drawn(i + 1) <=> ((3 \in Drawn(i)) # ((5 \in Drawn(i)) # (6 \in Drawn(i))))
         /\ 3 \in Drawn(i + 1) <=> ((4 \in Drawn(i)) # ((6 \in Drawn(i)) # (7 \in Drawn(i))))
         /\ 4 \in Drawn(i + 1) <=> ((1 \in Drawn(i)) # ((3 \in Drawn(i)) # ((4 \in Drawn(i)) # ((5 \in Drawn(i)) # (7 \in Drawn(i))))))
         /\ 5 \in Drawn(i + 1) <=> ((1 \in Drawn(i)) # ((2 \in Drawn(i)) # ((3 \in Drawn(i)) # ((5 \in Drawn(i)) # (6 \in Drawn(i))))))
         /\ 6 \in Drawn(i + 1) <=> ((1 \in Drawn(i)) # ((2 \in Drawn(i)) # ((6 \in Drawn(i)) # (7 \in Drawn(i)))))
         /\ 7 \in Drawn(i + 1) <=> ((0 \in Drawn(i)) # ((2 \in Drawn(i)) # ((3 \in Drawn(i)) # (7 \in Drawn(i)))))
<1> DEFINE n == 7 * i
<1>1. n \in Nat /\ n + 7 = 7 * (i + 1)
  OBVIOUS
<1>2. Drawn(i) = Register[n] /\ Drawn(i + 1) = Register[n + 7]
  BY <1>1 DEF Drawn
<1> HIDE DEF n
<1>3. \A k \in 0..6 : k \in Ones(i) <=> 0 \in Register[n + k]
  <2>1. \A k \in 0..6 : k + 7 * i = n + k
    BY DEF n
  <2> QED
    BY <2>1 DEF Ones
<1>4. n + 0 = n /\ Ones(i) \in SUBSET (0..6)
  BY <1>1 DEF Ones
<1> QED
  BY <1>1, <1>2, <1>3, <1>4, SevenShifts

\* The register of the next constant.
LEMMA DrawNext ==
  ASSUME NEW i \in Nat, NEW m \in Nat, m = i + 1
  PROVE  /\ Drawn(m) \in SUBSET (0..7)
         /\ 0 \in Drawn(m) <=> ((1 \in Drawn(i)) # ((3 \in Drawn(i)) # (4 \in Drawn(i))))
         /\ 1 \in Drawn(m) <=> ((2 \in Drawn(i)) # ((4 \in Drawn(i)) # (5 \in Drawn(i))))
         /\ 2 \in Drawn(m) <=> ((3 \in Drawn(i)) # ((5 \in Drawn(i)) # (6 \in Drawn(i))))
         /\ 3 \in Drawn(m) <=> ((4 \in Drawn(i)) # ((6 \in Drawn(i)) # (7 \in Drawn(i))))
         /\ 4 \in Drawn(m) <=> ((1 \in Drawn(i)) # ((3 \in Drawn(i)) # ((4 \in Drawn(i)) # ((5 \in Drawn(i)) # (7 \in Drawn(i))))))
         /\ 5 \in Drawn(m) <=> ((1 \in Drawn(i)) # ((2 \in Drawn(i)) # ((3 \in Drawn(i)) # ((5 \in Drawn(i)) # (6 \in Drawn(i))))))
         /\ 6 \in Drawn(m) <=> ((1 \in Drawn(i)) # ((2 \in Drawn(i)) # ((6 \in Drawn(i)) # (7 \in Drawn(i)))))
         /\ 7 \in Drawn(m) <=> ((0 \in Drawn(i)) # ((2 \in Drawn(i)) # ((3 \in Drawn(i)) # (7 \in Drawn(i)))))
  BY DrawOne

\* The register goes through these states, and the constants come out.
LEMMA Drawings ==
  /\ Drawn(0) = {0}
  /\ Ones(0) = {0}
  /\ Ones(1) = {1, 3, 4}
  /\ Ones(2) = {1, 2, 3, 4, 6}
  /\ Ones(3) = {4, 5, 6}
  /\ Ones(4) = {0, 1, 2, 3, 4}
  /\ Ones(5) = {0, 5}
  /\ Ones(6) = {0, 3, 4, 5, 6}
  /\ Ones(7) = {0, 2, 4, 6}
  /\ Ones(8) = {1, 2, 3}
  /\ Ones(9) = {2, 3}
  /\ Ones(10) = {0, 2, 4, 5}
  /\ Ones(11) = {1, 2, 5}
  /\ Ones(12) = {0, 1, 2, 3, 4, 5}
  /\ Ones(13) = {0, 1, 2, 3, 6}
  /\ Ones(14) = {0, 2, 3, 4, 6}
  /\ Ones(15) = {0, 1, 4, 6}
  /\ Ones(16) = {1, 4, 6}
  /\ Ones(17) = {3, 6}
  /\ Ones(18) = {1, 2, 4}
  /\ Ones(19) = {1, 2, 5, 6}
  /\ Ones(20) = {0, 3, 4, 5, 6}
  /\ Ones(21) = {3, 4, 6}
  /\ Ones(22) = {0, 5}
  /\ Ones(23) = {2, 4, 5, 6}
<1>0. Drawn(0) = {0} /\ Ones(0) = {0}
  <2>1. Drawn(0) = {0}
    BY RegisterSteps DEF Drawn
  <2> QED
    BY <2>1, DrawOne
<1>1. Drawn(1) = {7} /\ Ones(1) = {1, 3, 4}
  <2>1. Drawn(1) = {7}
    BY <1>0, DrawNext, DrawOne
  <2> QED
    BY <2>1, DrawOne
<1>2. Drawn(2) = {3, 4, 6, 7} /\ Ones(2) = {1, 2, 3, 4, 6}
  <2>1. Drawn(2) = {3, 4, 6, 7}
    BY <1>1, DrawNext, DrawOne
  <2> QED
    BY <2>1, DrawOne
<1>3. Drawn(3) = {1, 3, 4} /\ Ones(3) = {4, 5, 6}
  <2>1. Drawn(3) = {1, 3, 4}
    BY <1>2, DrawNext, DrawOne
  <2> QED
    BY <2>1, DrawOne
<1>4. Drawn(4) = {0, 1, 2, 3, 4, 6, 7} /\ Ones(4) = {0, 1, 2, 3, 4}
  <2>1. Drawn(4) = {0, 1, 2, 3, 4, 6, 7}
    BY <1>3, DrawNext, DrawOne
  <2> QED
    BY <2>1, DrawOne
<1>5. Drawn(5) = {0, 3} /\ Ones(5) = {0, 5}
  <2>1. Drawn(5) = {0, 3}
    BY <1>4, DrawNext, DrawOne
  <2> QED
    BY <2>1, DrawOne
<1>6. Drawn(6) = {0, 2, 4, 5} /\ Ones(6) = {0, 3, 4, 5, 6}
  <2>1. Drawn(6) = {0, 2, 4, 5}
    BY <1>5, DrawNext, DrawOne
  <2> QED
    BY <2>1, DrawOne
<1>7. Drawn(7) = {0, 1, 2, 3, 6} /\ Ones(7) = {0, 2, 4, 6}
  <2>1. Drawn(7) = {0, 1, 2, 3, 6}
    BY <1>6, DrawNext, DrawOne
  <2> QED
    BY <2>1, DrawOne
<1>8. Drawn(8) = {1, 3, 6, 7} /\ Ones(8) = {1, 2, 3}
  <2>1. Drawn(8) = {1, 3, 6, 7}
    BY <1>7, DrawNext, DrawOne
  <2> QED
    BY <2>1, DrawOne
<1>9. Drawn(9) = {4, 5, 6} /\ Ones(9) = {2, 3}
  <2>1. Drawn(9) = {4, 5, 6}
    BY <1>8, DrawNext, DrawOne
  <2> QED
    BY <2>1, DrawOne
<1>10. Drawn(10) = {0, 6} /\ Ones(10) = {0, 2, 4, 5}
  <2>1. Drawn(10) = {0, 6}
    BY <1>9, DrawNext, DrawOne
  <2> QED
    BY <2>1, DrawOne
<1>11. Drawn(11) = {2, 3, 5, 6, 7} /\ Ones(11) = {1, 2, 5}
  <2>1. Drawn(11) = {2, 3, 5, 6, 7}
    BY <1>10, DrawNext, DrawOne
  <2> QED
    BY <2>1, DrawOne
<1>12. Drawn(12) = {0, 2, 4, 6, 7} /\ Ones(12) = {0, 1, 2, 3, 4, 5}
  <2>1. Drawn(12) = {0, 2, 4, 6, 7}
    BY <1>11, DrawNext, DrawOne
  <2> QED
    BY <2>1, DrawOne
<1>13. Drawn(13) = {0, 2, 3, 6, 7} /\ Ones(13) = {0, 1, 2, 3, 6}
  <2>1. Drawn(13) = {0, 2, 3, 6, 7}
    BY <1>12, DrawNext, DrawOne
  <2> QED
    BY <2>1, DrawOne
<1>14. Drawn(14) = {0, 1, 5, 6} /\ Ones(14) = {0, 2, 3, 4, 6}
  <2>1. Drawn(14) = {0, 1, 5, 6}
    BY <1>13, DrawNext, DrawOne
  <2> QED
    BY <2>1, DrawOne
<1>15. Drawn(15) = {0, 1, 3, 5, 7} /\ Ones(15) = {0, 1, 4, 6}
  <2>1. Drawn(15) = {0, 1, 3, 5, 7}
    BY <1>14, DrawNext, DrawOne
  <2> QED
    BY <2>1, DrawOne
<1>16. Drawn(16) = {1, 3, 5, 7} /\ Ones(16) = {1, 4, 6}
  <2>1. Drawn(16) = {1, 3, 5, 7}
    BY <1>15, DrawNext, DrawOne
  <2> QED
    BY <2>1, DrawOne
<1>17. Drawn(17) = {1, 3, 5} /\ Ones(17) = {3, 6}
  <2>1. Drawn(17) = {1, 3, 5}
    BY <1>16, DrawNext, DrawOne
  <2> QED
    BY <2>1, DrawOne
<1>18. Drawn(18) = {1, 4, 5, 6, 7} /\ Ones(18) = {1, 2, 4}
  <2>1. Drawn(18) = {1, 4, 5, 6, 7}
    BY <1>17, DrawNext, DrawOne
  <2> QED
    BY <2>1, DrawOne
<1>19. Drawn(19) = {3, 5, 6, 7} /\ Ones(19) = {1, 2, 5, 6}
  <2>1. Drawn(19) = {3, 5, 6, 7}
    BY <1>18, DrawNext, DrawOne
  <2> QED
    BY <2>1, DrawOne
<1>20. Drawn(20) = {0, 1, 2, 4, 5} /\ Ones(20) = {0, 3, 4, 5, 6}
  <2>1. Drawn(20) = {0, 1, 2, 4, 5}
    BY <1>19, DrawNext, DrawOne
  <2> QED
    BY <2>1, DrawOne
<1>21. Drawn(21) = {1, 2, 3, 4, 5} /\ Ones(21) = {3, 4, 6}
  <2>1. Drawn(21) = {1, 2, 3, 4, 5}
    BY <1>20, DrawNext, DrawOne
  <2> QED
    BY <2>1, DrawOne
<1>22. Drawn(22) = {0, 1, 3} /\ Ones(22) = {0, 5}
  <2>1. Drawn(22) = {0, 1, 3}
    BY <1>21, DrawNext, DrawOne
  <2> QED
    BY <2>1, DrawOne
<1>23. Drawn(23) = {2, 6} /\ Ones(23) = {2, 4, 5, 6}
  <2>1. Drawn(23) = {2, 6}
    BY <1>22, DrawNext, DrawOne
  <2> QED
    BY <2>1, DrawOne
<1> QED
  BY <1>0, <1>1, <1>2, <1>3, <1>4, <1>5, <1>6, <1>7, <1>8, <1>9, <1>10, <1>11, <1>12, <1>13, <1>14, <1>15, <1>16, <1>17, <1>18, <1>19, <1>20, <1>21, <1>22, <1>23

\* The bits of a lane at places one below a power of two.
Place == <<0, 1, 3, 7, 15, 31, 63>>

\* The places of a constant's bits in a lane.
LEMMA Places ==
  \A k \in 0..6 : 2^k - 1 = Place[k + 1] /\ (2^k <= LANE <=> Place[k + 1] < LANE)
<1>1. /\ 2^0 = 1 /\ 2^1 = 2 /\ 2^2 = 4 /\ 2^3 = 8 /\ 2^4 = 16 /\ 2^5 = 32 /\ 2^6 = 64
  OBVIOUS
<1>2. ASSUME NEW k \in 0..6
      PROVE  2^k = Place[k + 1] + 1
  <2>0. CASE k = 0
    BY <1>1, <2>0 DEF Place
  <2>1. CASE k = 1
    BY <1>1, <2>1 DEF Place
  <2>2. CASE k = 2
    BY <1>1, <2>2 DEF Place
  <2>3. CASE k = 3
    BY <1>1, <2>3 DEF Place
  <2>4. CASE k = 4
    BY <1>1, <2>4 DEF Place
  <2>5. CASE k = 5
    BY <1>1, <2>5 DEF Place
  <2>6. CASE k = 6
    BY <1>1, <2>6 DEF Place
  <2> QED
    BY <2>0, <2>1, <2>2, <2>3, <2>4, <2>5, <2>6
<1>3. \A k \in 0..6 : Place[k + 1] \in Nat
  BY DEF Place
<1>4. ASSUME NEW k \in 0..6
      PROVE  2^k - 1 = Place[k + 1] /\ (2^k <= LANE <=> Place[k + 1] < LANE)
  <2> DEFINE p == 2^k
             w == Place[k + 1]
  <2>1. p = w + 1 /\ w \in Nat
    BY <1>2, <1>3
  <2> HIDE DEF p, w
  <2>2. p - 1 = w /\ (p <= LANE <=> w < LANE)
    BY <2>1, LaneValues
  <2> QED
    BY <2>2 DEF p, w
<1> QED
  BY <1>4

\* The bits of a constant are those that come out, at their places.
LEMMA IotaPlaces ==
  ASSUME NEW i \in Nat
  PROVE  \A z : z \in Iota(i) <=> z < LANE /\ \E k \in Ones(i) : z = Place[k + 1]
<1>1. Iota(i) = {2^j - 1 : j \in {k \in Ones(i) : 2^k <= LANE}}
  BY DEF Iota, Ones
<1>2. Ones(i) \in SUBSET (0..6)
  BY DrawOne
<1> HIDE DEF Ones
<1> QED
  BY <1>1, <1>2, Places

\* The round constants of FIPS 202 are those of the table.
LEMMA IotaIsRC ==
  ASSUME NEW i \in 0..23
  PROVE  Iota(i) = RC[i]
<1>0. CASE i = 0
  <2>1. RC[0] = {z \in {0} : z < LANE}
    BY DEF RC
  <2>2. \A z : z \in Iota(0) <=> z < LANE /\ z \in {0}
    BY IotaPlaces, Drawings DEF Place
  <2> QED
    BY <1>0, <2>1, <2>2
<1>1. CASE i = 1
  <2>1. RC[1] = {z \in {1, 7, 15} : z < LANE}
    BY DEF RC
  <2>2. \A z : z \in Iota(1) <=> z < LANE /\ z \in {1, 7, 15}
    BY IotaPlaces, Drawings DEF Place
  <2> QED
    BY <1>1, <2>1, <2>2
<1>2. CASE i = 2
  <2>1. RC[2] = {z \in {1, 3, 7, 15, 63} : z < LANE}
    BY DEF RC
  <2>2. \A z : z \in Iota(2) <=> z < LANE /\ z \in {1, 3, 7, 15, 63}
    BY IotaPlaces, Drawings DEF Place
  <2> QED
    BY <1>2, <2>1, <2>2
<1>3. CASE i = 3
  <2>1. RC[3] = {z \in {15, 31, 63} : z < LANE}
    BY DEF RC
  <2>2. \A z : z \in Iota(3) <=> z < LANE /\ z \in {15, 31, 63}
    BY IotaPlaces, Drawings DEF Place
  <2> QED
    BY <1>3, <2>1, <2>2
<1>4. CASE i = 4
  <2>1. RC[4] = {z \in {0, 1, 3, 7, 15} : z < LANE}
    BY DEF RC
  <2>2. \A z : z \in Iota(4) <=> z < LANE /\ z \in {0, 1, 3, 7, 15}
    BY IotaPlaces, Drawings DEF Place
  <2> QED
    BY <1>4, <2>1, <2>2
<1>5. CASE i = 5
  <2>1. RC[5] = {z \in {0, 31} : z < LANE}
    BY DEF RC
  <2>2. \A z : z \in Iota(5) <=> z < LANE /\ z \in {0, 31}
    BY IotaPlaces, Drawings DEF Place
  <2> QED
    BY <1>5, <2>1, <2>2
<1>6. CASE i = 6
  <2>1. RC[6] = {z \in {0, 7, 15, 31, 63} : z < LANE}
    BY DEF RC
  <2>2. \A z : z \in Iota(6) <=> z < LANE /\ z \in {0, 7, 15, 31, 63}
    BY IotaPlaces, Drawings DEF Place
  <2> QED
    BY <1>6, <2>1, <2>2
<1>7. CASE i = 7
  <2>1. RC[7] = {z \in {0, 3, 15, 63} : z < LANE}
    BY DEF RC
  <2>2. \A z : z \in Iota(7) <=> z < LANE /\ z \in {0, 3, 15, 63}
    BY IotaPlaces, Drawings DEF Place
  <2> QED
    BY <1>7, <2>1, <2>2
<1>8. CASE i = 8
  <2>1. RC[8] = {z \in {1, 3, 7} : z < LANE}
    BY DEF RC
  <2>2. \A z : z \in Iota(8) <=> z < LANE /\ z \in {1, 3, 7}
    BY IotaPlaces, Drawings DEF Place
  <2> QED
    BY <1>8, <2>1, <2>2
<1>9. CASE i = 9
  <2>1. RC[9] = {z \in {3, 7} : z < LANE}
    BY DEF RC
  <2>2. \A z : z \in Iota(9) <=> z < LANE /\ z \in {3, 7}
    BY IotaPlaces, Drawings DEF Place
  <2> QED
    BY <1>9, <2>1, <2>2
<1>10. CASE i = 10
  <2>1. RC[10] = {z \in {0, 3, 15, 31} : z < LANE}
    BY DEF RC
  <2>2. \A z : z \in Iota(10) <=> z < LANE /\ z \in {0, 3, 15, 31}
    BY IotaPlaces, Drawings DEF Place
  <2> QED
    BY <1>10, <2>1, <2>2
<1>11. CASE i = 11
  <2>1. RC[11] = {z \in {1, 3, 31} : z < LANE}
    BY DEF RC
  <2>2. \A z : z \in Iota(11) <=> z < LANE /\ z \in {1, 3, 31}
    BY IotaPlaces, Drawings DEF Place
  <2> QED
    BY <1>11, <2>1, <2>2
<1>12. CASE i = 12
  <2>1. RC[12] = {z \in {0, 1, 3, 7, 15, 31} : z < LANE}
    BY DEF RC
  <2>2. \A z : z \in Iota(12) <=> z < LANE /\ z \in {0, 1, 3, 7, 15, 31}
    BY IotaPlaces, Drawings DEF Place
  <2> QED
    BY <1>12, <2>1, <2>2
<1>13. CASE i = 13
  <2>1. RC[13] = {z \in {0, 1, 3, 7, 63} : z < LANE}
    BY DEF RC
  <2>2. \A z : z \in Iota(13) <=> z < LANE /\ z \in {0, 1, 3, 7, 63}
    BY IotaPlaces, Drawings DEF Place
  <2> QED
    BY <1>13, <2>1, <2>2
<1>14. CASE i = 14
  <2>1. RC[14] = {z \in {0, 3, 7, 15, 63} : z < LANE}
    BY DEF RC
  <2>2. \A z : z \in Iota(14) <=> z < LANE /\ z \in {0, 3, 7, 15, 63}
    BY IotaPlaces, Drawings DEF Place
  <2> QED
    BY <1>14, <2>1, <2>2
<1>15. CASE i = 15
  <2>1. RC[15] = {z \in {0, 1, 15, 63} : z < LANE}
    BY DEF RC
  <2>2. \A z : z \in Iota(15) <=> z < LANE /\ z \in {0, 1, 15, 63}
    BY IotaPlaces, Drawings DEF Place
  <2> QED
    BY <1>15, <2>1, <2>2
<1>16. CASE i = 16
  <2>1. RC[16] = {z \in {1, 15, 63} : z < LANE}
    BY DEF RC
  <2>2. \A z : z \in Iota(16) <=> z < LANE /\ z \in {1, 15, 63}
    BY IotaPlaces, Drawings DEF Place
  <2> QED
    BY <1>16, <2>1, <2>2
<1>17. CASE i = 17
  <2>1. RC[17] = {z \in {7, 63} : z < LANE}
    BY DEF RC
  <2>2. \A z : z \in Iota(17) <=> z < LANE /\ z \in {7, 63}
    BY IotaPlaces, Drawings DEF Place
  <2> QED
    BY <1>17, <2>1, <2>2
<1>18. CASE i = 18
  <2>1. RC[18] = {z \in {1, 3, 15} : z < LANE}
    BY DEF RC
  <2>2. \A z : z \in Iota(18) <=> z < LANE /\ z \in {1, 3, 15}
    BY IotaPlaces, Drawings DEF Place
  <2> QED
    BY <1>18, <2>1, <2>2
<1>19. CASE i = 19
  <2>1. RC[19] = {z \in {1, 3, 31, 63} : z < LANE}
    BY DEF RC
  <2>2. \A z : z \in Iota(19) <=> z < LANE /\ z \in {1, 3, 31, 63}
    BY IotaPlaces, Drawings DEF Place
  <2> QED
    BY <1>19, <2>1, <2>2
<1>20. CASE i = 20
  <2>1. RC[20] = {z \in {0, 7, 15, 31, 63} : z < LANE}
    BY DEF RC
  <2>2. \A z : z \in Iota(20) <=> z < LANE /\ z \in {0, 7, 15, 31, 63}
    BY IotaPlaces, Drawings DEF Place
  <2> QED
    BY <1>20, <2>1, <2>2
<1>21. CASE i = 21
  <2>1. RC[21] = {z \in {7, 15, 63} : z < LANE}
    BY DEF RC
  <2>2. \A z : z \in Iota(21) <=> z < LANE /\ z \in {7, 15, 63}
    BY IotaPlaces, Drawings DEF Place
  <2> QED
    BY <1>21, <2>1, <2>2
<1>22. CASE i = 22
  <2>1. RC[22] = {z \in {0, 31} : z < LANE}
    BY DEF RC
  <2>2. \A z : z \in Iota(22) <=> z < LANE /\ z \in {0, 31}
    BY IotaPlaces, Drawings DEF Place
  <2> QED
    BY <1>22, <2>1, <2>2
<1>23. CASE i = 23
  <2>1. RC[23] = {z \in {3, 15, 31, 63} : z < LANE}
    BY DEF RC
  <2>2. \A z : z \in Iota(23) <=> z < LANE /\ z \in {3, 15, 31, 63}
    BY IotaPlaces, Drawings DEF Place
  <2> QED
    BY <1>23, <2>1, <2>2
<1> QED
  BY <1>0, <1>1, <1>2, <1>3, <1>4, <1>5, <1>6, <1>7, <1>8, <1>9, <1>10, <1>11, <1>12, <1>13, <1>14, <1>15, <1>16, <1>17, <1>18, <1>19, <1>20, <1>21, <1>22, <1>23

-----------------------------------------------------------------------------
(* The step mappings of FIPS 202, one at a time.                           *)

\* The coordinates of a bit,
LEMMA CoordinatesOfBit ==
  ASSUME NEW l \in 0..24, NEW z \in 0..LANE - 1
  PROVE  /\ LANE * l + z \in StateBits
         /\ X(LANE * l + z) = l % 5
         /\ Y(LANE * l + z) = l \div 5
         /\ Z(LANE * l + z) = z
  BY BitAddress DEF X, Y, Z

\* and the bit at them.
LEMMA BitOfLane ==
  ASSUME NEW s, NEW x \in 0..16, NEW y \in 0..4, NEW z \in 0..LANE - 1
  PROVE  /\ (x % 5) + 5 * y \in 0..24
         /\ Bit(s, x, y, z) <=> LANE * ((x % 5) + 5 * y) + z \in s
<1>1. y % 5 = y /\ (z + LANE) % LANE = z /\ (x % 5) + 5 * y \in 0..24
  BY LaneValues
<1> QED
  BY <1>1 DEF Bit

\* A parity of the reference is the parity of a column.
LEMMA ParityBit ==
  ASSUME NEW A \in SUBSET StateBits, NEW x \in 0..8, NEW w \in -1..LANE - 1
  PROVE  Bit(Parities(A), x, 0, w) <=> (w + LANE) % LANE \in column(A, x % 5)
<1> DEFINE z == (w + LANE) % LANE
           l == x % 5
<1>1. z \in 0..LANE - 1 /\ l \in 0..4 /\ l \in 0..24 /\ l % 5 = l /\ l \div 5 = 0 /\ l + 5 * (0 % 5) = l
  BY LaneValues
<1>2. Bit(Parities(A), x, 0, w) <=> LANE * l + z \in Parities(A)
  BY <1>1 DEF Bit
<1> HIDE DEF z, l
<1>3. LANE * l + z \in Parities(A)
        <=> Cardinality({y \in 0..4 : Bit(A, l, y, z)}) % 2 = 1
  BY <1>1, CoordinatesOfBit DEF Parities
<1>4. \A y \in 0..4 : Bit(A, l, y, z) <=> LANE * (l + 5 * y) + z \in A
  <2>1. l \in 0..16
    BY <1>1
  <2> QED
    BY <1>1, <2>1, BitOfLane
<1>5. {y \in 0..4 : Bit(A, l, y, z)} = {y \in 0..4 : LANE * (l + 5 * y) + z \in A}
  BY <1>4
<1>6. z \in column(A, l) <=> Cardinality({y \in 0..4 : LANE * (l + 5 * y) + z \in A}) % 2 = 1
  BY <1>1 DEF column
<1> QED
  BY <1>2, <1>3, <1>5, <1>6 DEF z, l

\* Theta of FIPS 202 is theta of the crate,
LEMMA ThetaOfReference ==
  ASSUME NEW A \in SUBSET StateBits
  PROVE  Theta(A, Parities(A)) = theta(A)
<1> DEFINE T == Theta(A, Parities(A))
<1>1. T \in SUBSET StateBits /\ theta(A) \in SUBSET StateBits
  BY ThetaState DEF Theta
<1>2. ASSUME NEW l \in 0..24, NEW z \in 0..LANE - 1
      PROVE  LANE * l + z \in T <=> LANE * l + z \in theta(A)
  <2> DEFINE b == LANE * l + z
             x == l % 5
  <2>1. b \in StateBits /\ X(b) = x /\ Y(b) = l \div 5 /\ Z(b) = z
    BY CoordinatesOfBit
  <2>2. x \in 0..4 /\ l \div 5 \in 0..4 /\ (x % 5) + 5 * (l \div 5) = l /\ x + 4 \in 0..8 /\ x + 1 \in 0..8
    OBVIOUS
  <2>3. Bit(A, x, l \div 5, z) <=> b \in A
    <3>1. x \in 0..16
      BY <2>2
    <3> HIDE DEF x
    <3> QED
      BY <2>2, <3>1, BitOfLane
  <2>4. Bit(Parities(A), x + 4, 0, z) <=> z \in column(A, (x + 4) % 5)
    <3>1. z \in -1..LANE - 1 /\ (z + LANE) % LANE = z
      BY LaneValues
    <3> HIDE DEF x
    <3> QED
      BY <2>2, <3>1, ParityBit
  <2>5. Bit(Parities(A), x + 1, 0, z - 1) <=> (z + LANE - 1) % LANE \in column(A, (x + 1) % 5)
    <3>1. z - 1 \in -1..LANE - 1 /\ (z - 1) + LANE = z + LANE - 1
      BY LaneValues
    <3> HIDE DEF x
    <3> QED
      BY <2>2, <3>1, ParityBit
  <2> HIDE DEF b, T, x
  <2>6. b \in T <=> (Bit(A, x, l \div 5, z) # (Bit(Parities(A), x + 4, 0, z) # Bit(Parities(A), x + 1, 0, z - 1)))
    BY <2>1 DEF Theta, T
  <2>7. b \in theta(A) <=> ((b \in A) # ((z \in column(A, (x + 4) % 5))
                     # ((z + LANE - 1) % LANE \in column(A, (x + 1) % 5))))
    <3>1. LANE * l + z \in theta(A)
            <=> ((LANE * l + z \in A)
                  # ((z \in column(A, ((l % 5) + 4) % 5))
                      # ((z + LANE - 1) % LANE \in column(A, ((l % 5) + 1) % 5))))
      BY ThetaBit
    <3> QED
      BY <3>1, Zenon DEF b, x
  <2>8. b \in T <=> b \in theta(A)
    BY <2>3, <2>4, <2>5, <2>6, <2>7 DEF Bit
  <2> QED
    BY <2>8 DEF b
<1> HIDE DEF T
<1>3. AgreeOnLanes(T, theta(A))
  BY <1>2 DEF AgreeOnLanes
<1>4. T = theta(A)
  BY <1>1, <1>3, EqualByLanes
<1> QED
  BY <1>4 DEF T

\* rho and pi are its rho and pi,
LEMMA RhoPiOfReference ==
  ASSUME NEW A \in SUBSET StateBits
  PROVE  Pi(Rho(A)) = permuted(A)
<1>1. Pi(Rho(A)) \in SUBSET StateBits /\ permuted(A) \in SUBSET StateBits
  BY PermutedState DEF Pi
<1>2. ASSUME NEW l \in 0..24, NEW z \in 0..LANE - 1
      PROVE  LANE * l + z \in Pi(Rho(A)) <=> LANE * l + z \in permuted(A)
  <2> DEFINE b == LANE * l + z
             x == l % 5
             y == l \div 5
             s == SourceLane(l)
             c == LANE * s + z
             from == (z + LANE - RHO[s]) % LANE
  <2>1. b \in StateBits /\ X(b) = x /\ Y(b) = y /\ Z(b) = z
    BY CoordinatesOfBit
  <2>2. x \in 0..4 /\ y \in 0..4 /\ x + 3 * y \in 0..16 /\ s = ((x + 3 * y) % 5) + 5 * x
    BY DEF SourceLane
  <2>3. s \in 0..24
    BY PiRange
  <2>4. b \in permuted(A) <=> LANE * s + from \in A
    BY PermutedBit
  <2> HIDE DEF b, x, y, c, s
  <2>5. b \in Pi(Rho(A)) <=> Bit(Rho(A), x + 3 * y, x, z)
    BY <2>1 DEF Pi
  <2>6. Bit(Rho(A), x + 3 * y, x, z) <=> c \in Rho(A)
    BY <2>2, BitOfLane DEF c
  <2>7. c \in StateBits /\ X(c) = s % 5 /\ Y(c) = s \div 5 /\ Z(c) = z
    BY <2>3, CoordinatesOfBit DEF c
  <2>8. c \in Rho(A) <=> Bit(A, s % 5, s \div 5, z - RHO[s])
    BY <2>3, <2>7, OffsetIsRho DEF Rho
  <2>9. Bit(A, s % 5, s \div 5, z - RHO[s]) <=> LANE * s + from \in A
    <3>1. ((s % 5) % 5) + 5 * ((s \div 5) % 5) = s
      BY <2>3
    <3>2. RHO[s] \in 0..LANE - 1
      BY <2>3, RhoRange
    <3>3. (z - RHO[s]) + LANE = z + LANE - RHO[s]
      BY <3>2, LaneValues
    <3> QED
      BY <3>1, <3>3 DEF Bit
  <2>10. b \in Pi(Rho(A)) <=> b \in permuted(A)
    BY <2>4, <2>5, <2>6, <2>8, <2>9
  <2> QED
    BY <2>10 DEF b
<1>3. AgreeOnLanes(Pi(Rho(A)), permuted(A))
  BY <1>2 DEF AgreeOnLanes
<1> QED
  BY <1>1, <1>3, EqualByLanes

\* and chi is its chi.
LEMMA ChiOfReference ==
  ASSUME NEW A \in SUBSET StateBits
  PROVE  Chi(A) = chi(A)
<1>1. Chi(A) \in SUBSET StateBits /\ chi(A) \in SUBSET StateBits
  BY ChiState DEF Chi
<1>2. ASSUME NEW l \in 0..24, NEW z \in 0..LANE - 1
      PROVE  LANE * l + z \in Chi(A) <=> LANE * l + z \in chi(A)
  <2> DEFINE b == LANE * l + z
             x == l % 5
             y == l \div 5
  <2>1. b \in StateBits /\ X(b) = x /\ Y(b) = y /\ Z(b) = z
    BY CoordinatesOfBit
  <2>2. /\ x \in 0..16 /\ x + 1 \in 0..16 /\ x + 2 \in 0..16 /\ y \in 0..4
        /\ (x % 5) + 5 * y = l /\ ((x + 1) % 5) + 5 * y = RowLane(l, 1)
        /\ ((x + 2) % 5) + 5 * y = RowLane(l, 2)
    BY DEF RowLane
  <2>3. b \in chi(A) <=> ((b \in A) # (LANE * RowLane(l, 2) + z \in A
                                        /\ LANE * RowLane(l, 1) + z \notin A))
    BY ChiBit
  <2> HIDE DEF b, x, y
  <2>4. b \in Chi(A) <=> (Bit(A, x, y, z) # (~Bit(A, x + 1, y, z) /\ Bit(A, x + 2, y, z)))
    BY <2>1 DEF Chi
  <2>5. /\ Bit(A, x, y, z) <=> b \in A
        /\ Bit(A, x + 1, y, z) <=> LANE * RowLane(l, 1) + z \in A
        /\ Bit(A, x + 2, y, z) <=> LANE * RowLane(l, 2) + z \in A
    <3>1. Bit(A, x, y, z) <=> LANE * l + z \in A
      BY <2>2, BitOfLane
    <3>2. Bit(A, x + 1, y, z) <=> LANE * RowLane(l, 1) + z \in A
      BY <2>2, BitOfLane
    <3>3. Bit(A, x + 2, y, z) <=> LANE * RowLane(l, 2) + z \in A
      BY <2>2, BitOfLane
    <3> QED
      BY <3>1, <3>2, <3>3 DEF b
  <2>6. b \in Chi(A) <=> b \in chi(A)
    BY <2>3, <2>4, <2>5 DEF Bit
  <2> QED
    BY <2>6 DEF b
<1>3. AgreeOnLanes(Chi(A), chi(A))
  BY <1>2 DEF AgreeOnLanes
<1> QED
  BY <1>1, <1>3, EqualByLanes

\* A round of the crate is a round of FIPS 202.
LEMMA RoundIsReference ==
  ASSUME NEW S \in SUBSET StateBits, NEW i \in 0..23
  PROVE  ReferenceRound(S, i) = round(S, RC[i])
<1>1. theta(S) \in SUBSET StateBits /\ permuted(theta(S)) \in SUBSET StateBits
  BY ThetaState, PermutedState
<1>2. Theta(S, Parities(S)) = theta(S)
  BY ThetaOfReference
<1>3. Pi(Rho(theta(S))) = permuted(theta(S))
  BY <1>1, RhoPiOfReference
<1>4. Chi(permuted(theta(S))) = chi(permuted(theta(S)))
  BY <1>1, ChiOfReference
<1>5. Iota(i) = RC[i]
  BY IotaIsRC
<1> QED
  BY <1>2, <1>3, <1>4, <1>5 DEF ReferenceRound, round

-----------------------------------------------------------------------------
(* The reference, step by step.                                            *)

\* The choice from a single value.
LEMMA OnlyChoice == \A x : (CHOOSE y \in {x} : TRUE) = x
OBVIOUS

\* A round of the reference makes a state,
LEMMA ReferenceRoundState ==
  ASSUME NEW S \in SUBSET StateBits, NEW n \in Nat
  PROVE  ReferenceRound(S, n) \in SUBSET StateBits
<1> DEFINE A == Pi(Rho(Theta(S, Parities(S))))
<1>1. Chi(A) \in SUBSET StateBits
  BY DEF Chi
<1>2. Iota(n) \in SUBSET StateBits
  <2>1. \A z \in Iota(n) : z \in 0..LANE - 1
    <3>1. \A k \in 0..6 : Place[k + 1] \in Nat
      BY DEF Place
    <3>2. Ones(n) \in SUBSET (0..6)
      BY DEF Ones
    <3>3. ASSUME NEW z \in Iota(n)
          PROVE  z \in 0..LANE - 1
      <4>1. z < LANE /\ \E k \in Ones(n) : z = Place[k + 1]
        BY IotaPlaces
      <4> QED
        BY <3>1, <3>2, <4>1, LaneValues
    <3> QED
      BY <3>3
  <2> QED
    BY <2>1, LaneValues DEF StateBits
<1> HIDE DEF A
<1>3. SymDiff(Chi(A), Iota(n)) \in SUBSET StateBits
  BY <1>1, <1>2 DEF SymDiff
<1> QED
  BY <1>3 DEF ReferenceRound, A

\* and the next is made of it.
LEMMA RoundsSteps ==
  ASSUME NEW s \in SUBSET StateBits
  PROVE  /\ ReferenceRounds(s) \in [Nat -> SUBSET StateBits]
         /\ ReferenceRounds(s)[0] = s
         /\ \A n \in Nat : ReferenceRounds(s)[n + 1] = ReferenceRound(ReferenceRounds(s)[n], n)
<1> DEFINE States == SUBSET StateBits
           f == [p \in Nat \X States |-> ReferenceRound(p[2], p[1])]
           Body(g, i) == IF i = 0 THEN s
                         ELSE CHOOSE B \in {ReferenceRound(A, i - 1) : A \in {g[i - 1]}} : TRUE
           R == ReferenceRounds(s)
<1>1. Starts(States, s, f)
  <2>1. \A p \in Nat \X States : ReferenceRound(p[2], p[1]) \in States
    BY ReferenceRoundState
  <2> QED
    BY <2>1 DEF Starts
<1>2. PICK g : Iteration(g, States, s, f)
  <2> HIDE DEF f, States
  <2> QED
    BY <1>1, IterationExists, Zenon
<1>3. g \in [Nat -> States] /\ g[0] = s
  BY <1>2 DEF Iteration
<1>4. ASSUME NEW n \in Nat
      PROVE  g[n + 1] = ReferenceRound(g[n], n)
  <2>1. g[n + 1] = f[<<n, g[n]>>] /\ <<n, g[n]>> \in Nat \X States
    BY <1>2, <1>3 DEF Iteration
  <2> QED
    BY <2>1
<1>5. ASSUME NEW h, NEW i \in Nat
      PROVE  Body(h, i) = IF i = 0 THEN s ELSE ReferenceRound(h[i - 1], i - 1)
  <2>1. {ReferenceRound(A, i - 1) : A \in {h[i - 1]}} = {ReferenceRound(h[i - 1], i - 1)}
    OBVIOUS
  <2>2. (CHOOSE B \in {ReferenceRound(A, i - 1) : A \in {h[i - 1]}} : TRUE) = ReferenceRound(h[i - 1], i - 1)
    BY <2>1, OnlyChoice, Zenon
  <2> QED
    BY <2>2, Zenon
<1> HIDE DEF f, Body
<1>6. g = [i \in Nat |-> Body(g, i)]
  <2>1. ASSUME NEW i \in Nat
        PROVE  g[i] = Body(g, i)
    <3>1. CASE i = 0
      BY <1>3, <1>5, <3>1
    <3>2. CASE i # 0
      <4>1. i - 1 \in Nat /\ (i - 1) + 1 = i
        BY <3>2
      <4>2. g[i] = ReferenceRound(g[i - 1], i - 1)
        BY <1>4, <4>1, Zenon
      <4> QED
        BY <1>5, <3>2, <4>2
    <3> QED
      BY <3>1, <3>2
  <2> QED
    BY <1>3, <2>1
<1>7. R = [i \in Nat |-> Body(R, i)]
  <2>1. R = CHOOSE h : h = [i \in Nat |-> Body(h, i)]
    BY DEF ReferenceRounds, Body
  <2> HIDE DEF R
  <2> QED
    BY <1>6, <2>1
<1> HIDE DEF R
<1>8. R[0] = s
  BY <1>5, <1>7
<1>9. ASSUME NEW n \in Nat
      PROVE  R[n + 1] = ReferenceRound(R[n], n)
  <2> DEFINE m == n + 1
  <2>1. m \in Nat /\ m # 0 /\ m - 1 = n
    OBVIOUS
  <2> HIDE DEF m
  <2>2. R[m] = Body(R, m)
    BY <1>7, <2>1
  <2>3. Body(R, m) = ReferenceRound(R[n], n)
    BY <1>5, <2>1
  <2> QED
    BY <2>2, <2>3 DEF m
<1>10. \A n \in Nat : R[n] \in States
  <2> DEFINE E == {n \in Nat : R[n] \in States}
  <2>1. 0 \in E
    BY <1>8
  <2>2. ASSUME NEW n \in Nat, n \in E
        PROVE  n + 1 \in E
    BY <1>9, <2>2, ReferenceRoundState
  <2> HIDE DEF E
  <2>3. \A n \in Nat : n \in E
    BY <2>1, <2>2, Induction
  <2> QED
    BY <2>3 DEF E
<1>11. R \in [Nat -> States]
  BY <1>7, <1>10
<1> QED
  BY <1>8, <1>9, <1>11 DEF R

\* The permutation makes a state.
LEMMA ReferenceFState ==
  ASSUME NEW s \in SUBSET StateBits
  PROVE  ReferenceF(s) \in SUBSET StateBits
<1>1. ROUNDS \in Nat
  BY LaneAssumption
<1> QED
  BY <1>1, RoundsSteps DEF ReferenceF

\* A block is whole bytes and fits in the state.
LEMMA RateValues ==
  /\ RATE_BYTES \in Nat \ {0}
  /\ RATE = 8 * RATE_BYTES
  /\ RATE \in Nat \ {0}
  /\ 0..RATE - 1 \subseteq StateBits
<1>1. RATE_BYTES \in Nat \ {0} /\ 8 * RATE_BYTES <= 25 * LANE
  BY RateAssumption, LaneValues
<1> QED
  BY <1>1, LaneValues DEF RATE, StateBits

\* What the block with a number is xored with.
Absorb(bytes, n, s) == ReferenceF(SymDiff(s, ReferenceBlock(bytes, n)))

\* Absorbing a block makes a state.
LEMMA AbsorbState ==
  ASSUME NEW bytes, NEW n, NEW s \in SUBSET StateBits
  PROVE  /\ SymDiff(s, ReferenceBlock(bytes, n)) \in SUBSET StateBits
         /\ Absorb(bytes, n, s) \in SUBSET StateBits
<1>1. ReferenceBlock(bytes, n) \in SUBSET StateBits
  BY RateValues DEF ReferenceBlock
<1>2. SymDiff(s, ReferenceBlock(bytes, n)) \in SUBSET StateBits
  BY <1>1 DEF SymDiff
<1> QED
  BY <1>2, ReferenceFState DEF Absorb

\* The states after each block.
LEMMA AbsorbingSteps ==
  ASSUME NEW bytes
  PROVE  /\ ReferenceAbsorbing(bytes) \in [Nat -> SUBSET StateBits]
         /\ ReferenceAbsorbing(bytes)[0] = {}
         /\ \A n \in Nat : ReferenceAbsorbing(bytes)[n + 1]
                             = Absorb(bytes, n, ReferenceAbsorbing(bytes)[n])
<1> DEFINE States == SUBSET StateBits
           f == [p \in Nat \X States |-> Absorb(bytes, p[1], p[2])]
           Body(g, n) == IF n = 0 THEN {}
                         ELSE CHOOSE B \in {Absorb(bytes, n - 1, A) : A \in {g[n - 1]}} : TRUE
           R == ReferenceAbsorbing(bytes)
<1>1. Starts(States, {}, f)
  <2>1. \A p \in Nat \X States : Absorb(bytes, p[1], p[2]) \in States
    BY AbsorbState
  <2> QED
    BY <2>1 DEF Starts
<1>2. PICK g : Iteration(g, States, {}, f)
  <2> HIDE DEF f, States
  <2> QED
    BY <1>1, IterationExists, Zenon
<1>3. g \in [Nat -> States] /\ g[0] = {}
  BY <1>2 DEF Iteration
<1>4. ASSUME NEW n \in Nat
      PROVE  g[n + 1] = Absorb(bytes, n, g[n])
  <2>1. g[n + 1] = f[<<n, g[n]>>] /\ <<n, g[n]>> \in Nat \X States
    BY <1>2, <1>3 DEF Iteration
  <2> QED
    BY <2>1
<1>5. ASSUME NEW h, NEW i \in Nat
      PROVE  Body(h, i) = IF i = 0 THEN {} ELSE Absorb(bytes, i - 1, h[i - 1])
  <2>1. {Absorb(bytes, i - 1, A) : A \in {h[i - 1]}} = {Absorb(bytes, i - 1, h[i - 1])}
    OBVIOUS
  <2>2. (CHOOSE B \in {Absorb(bytes, i - 1, A) : A \in {h[i - 1]}} : TRUE) = Absorb(bytes, i - 1, h[i - 1])
    BY <2>1, OnlyChoice, Zenon
  <2> QED
    BY <2>2, Zenon
<1> HIDE DEF f
<1>7a. R = CHOOSE h : h = [n \in Nat |-> Body(h, n)]
  BY DEF ReferenceAbsorbing, Absorb
<1> HIDE DEF Body
<1>6. g = [i \in Nat |-> Body(g, i)]
  <2>1. ASSUME NEW i \in Nat
        PROVE  g[i] = Body(g, i)
    <3>1. CASE i = 0
      BY <1>3, <1>5, <3>1
    <3>2. CASE i # 0
      <4>1. i - 1 \in Nat /\ (i - 1) + 1 = i
        BY <3>2
      <4>2. g[i] = Absorb(bytes, i - 1, g[i - 1])
        BY <1>4, <4>1, Zenon
      <4> QED
        BY <1>5, <3>2, <4>2
    <3> QED
      BY <3>1, <3>2
  <2> QED
    BY <1>3, <2>1
<1> HIDE DEF R
<1>7. R = [i \in Nat |-> Body(R, i)]
  BY <1>6, <1>7a
<1>8. R[0] = {}
  BY <1>5, <1>7
<1>9. ASSUME NEW n \in Nat
      PROVE  R[n + 1] = Absorb(bytes, n, R[n])
  <2> DEFINE m == n + 1
  <2>1. m \in Nat /\ m # 0 /\ m - 1 = n
    OBVIOUS
  <2> HIDE DEF m
  <2>2. R[m] = Body(R, m)
    BY <1>7, <2>1
  <2>3. Body(R, m) = Absorb(bytes, n, R[n])
    BY <1>5, <2>1
  <2> QED
    BY <2>2, <2>3 DEF m
<1>10. \A n \in Nat : R[n] \in States
  <2> DEFINE E == {n \in Nat : R[n] \in States}
  <2>1. 0 \in E
    BY <1>8
  <2>2. ASSUME NEW n \in Nat, n \in E
        PROVE  n + 1 \in E
    BY <1>9, <2>2, AbsorbState
  <2> HIDE DEF E
  <2>3. \A n \in Nat : n \in E
    BY <2>1, <2>2, Induction
  <2> QED
    BY <2>3 DEF E
<1>11. R \in [Nat -> States]
  BY <1>7, <1>10
<1> QED
  BY <1>8, <1>9, <1>11 DEF R

\* One more state to read output from.
SqueezeMore(l, n) == Append(l, ReferenceF(l[n]))

\* A list of states grows by the permutation of its last.
LEMMA MoreStates ==
  ASSUME NEW n \in Nat, NEW l \in Seq(SUBSET StateBits), Len(l) = n + 1
  PROVE  /\ SqueezeMore(l, n + 1) \in Seq(SUBSET StateBits)
         /\ Len(SqueezeMore(l, n + 1)) = n + 2
         /\ SqueezeMore(l, n + 1)[n + 2] = ReferenceF(l[n + 1])
         /\ \A k \in 1..n + 1 : SqueezeMore(l, n + 1)[k] = l[k]
<1>1. l[n + 1] \in SUBSET StateBits
  OBVIOUS
<1>2. ReferenceF(l[n + 1]) \in SUBSET StateBits
  BY <1>1, ReferenceFState
<1> QED
  BY <1>2 DEF SqueezeMore

\* The lists of states that output is read from,
LEMMA SqueezingSteps ==
  ASSUME NEW bytes, NEW x \in SUBSET StateBits,
         x = ReferenceAbsorbing(bytes)[ReferencePadded(bytes).blocks]
  PROVE  /\ ReferenceSqueezing(bytes)[0] = <<x>>
         /\ \A n \in Nat : /\ ReferenceSqueezing(bytes)[n] \in Seq(SUBSET StateBits)
                           /\ Len(ReferenceSqueezing(bytes)[n]) = n + 1
                           /\ ReferenceSqueezing(bytes)[n + 1]
                                = SqueezeMore(ReferenceSqueezing(bytes)[n], n + 1)
<1> DEFINE Lists == Seq(SUBSET StateBits)
           f == [p \in Nat \X Lists |->
                   IF Len(p[2]) = p[1] + 1 THEN SqueezeMore(p[2], p[1] + 1) ELSE p[2]]
           Body(g, n) == IF n = 0 THEN <<x>>
                         ELSE CHOOSE t \in {SqueezeMore(l, n) : l \in {g[n - 1]}} : TRUE
           R == ReferenceSqueezing(bytes)
<1>1. Starts(Lists, <<x>>, f)
  <2>1. \A p \in Nat \X Lists :
          (IF Len(p[2]) = p[1] + 1 THEN SqueezeMore(p[2], p[1] + 1) ELSE p[2]) \in Lists
    BY MoreStates
  <2>2. <<x>> \in Lists
    OBVIOUS
  <2> QED
    BY <2>1, <2>2 DEF Starts
<1>2. PICK g : Iteration(g, Lists, <<x>>, f)
  <2> HIDE DEF f, Lists
  <2> QED
    BY <1>1, IterationExists, Zenon
<1>3. g \in [Nat -> Lists] /\ g[0] = <<x>>
  BY <1>2 DEF Iteration
<1>l. \A n \in Nat : Len(g[n]) = n + 1
  <2> DEFINE E == {n \in Nat : Len(g[n]) = n + 1}
  <2>1. 0 \in E
    <3>1. <<x>> \in Lists /\ Len(<<x>>) = 1 /\ 0 + 1 = 1
      OBVIOUS
    <3> QED
      BY <1>3, <3>1, Zenon
  <2>2. ASSUME NEW n \in Nat, n \in E
        PROVE  n + 1 \in E
    <3>1. g[n + 1] = f[<<n, g[n]>>] /\ <<n, g[n]>> \in Nat \X Lists /\ Len(g[n]) = n + 1
      BY <1>2, <1>3, <2>2 DEF Iteration
    <3>2. g[n + 1] = SqueezeMore(g[n], n + 1)
      BY <3>1
    <3>3. g[n] \in Lists
      BY <1>3
    <3> QED
      BY <3>1, <3>2, <3>3, MoreStates
  <2> HIDE DEF E
  <2>3. \A n \in Nat : n \in E
    BY <2>1, <2>2, Induction
  <2> QED
    BY <2>3 DEF E
<1>4. ASSUME NEW n \in Nat
      PROVE  g[n + 1] = SqueezeMore(g[n], n + 1)
  <2>1. g[n + 1] = f[<<n, g[n]>>] /\ <<n, g[n]>> \in Nat \X Lists
    BY <1>2, <1>3 DEF Iteration
  <2> QED
    BY <1>l, <2>1
<1>5. ASSUME NEW h, NEW i \in Nat
      PROVE  Body(h, i) = IF i = 0 THEN <<x>> ELSE SqueezeMore(h[i - 1], i)
  <2>1. {SqueezeMore(l, i) : l \in {h[i - 1]}} = {SqueezeMore(h[i - 1], i)}
    OBVIOUS
  <2>2. (CHOOSE t \in {SqueezeMore(l, i) : l \in {h[i - 1]}} : TRUE) = SqueezeMore(h[i - 1], i)
    BY <2>1, OnlyChoice, Zenon
  <2> QED
    BY <2>2, Zenon
<1> HIDE DEF f
<1>7a. R = CHOOSE h : h = [n \in Nat |-> Body(h, n)]
  BY DEF ReferenceSqueezing, SqueezeMore
<1> HIDE DEF Body
<1>6. g = [i \in Nat |-> Body(g, i)]
  <2>1. ASSUME NEW i \in Nat
        PROVE  g[i] = Body(g, i)
    <3>1. CASE i = 0
      BY <1>3, <1>5, <3>1
    <3>2. CASE i # 0
      <4>1. i - 1 \in Nat /\ (i - 1) + 1 = i
        BY <3>2
      <4>2. g[i] = SqueezeMore(g[i - 1], i)
        BY <1>4, <4>1, Zenon
      <4> QED
        BY <1>5, <3>2, <4>2
    <3> QED
      BY <3>1, <3>2
  <2> QED
    BY <1>3, <2>1
<1> HIDE DEF R
<1>7. R = [i \in Nat |-> Body(R, i)]
  BY <1>6, <1>7a
<1>8. R[0] = <<x>>
  BY <1>5, <1>7
<1>9. ASSUME NEW n \in Nat
      PROVE  R[n + 1] = SqueezeMore(R[n], n + 1)
  <2> DEFINE m == n + 1
  <2>1. m \in Nat /\ m # 0 /\ m - 1 = n
    OBVIOUS
  <2> HIDE DEF m
  <2>2. R[m] = Body(R, m)
    BY <1>7, <2>1
  <2>3. Body(R, m) = SqueezeMore(R[n], m)
    BY <1>5, <2>1
  <2> QED
    BY <2>2, <2>3 DEF m
<1>10. \A n \in Nat : R[n] \in Lists /\ Len(R[n]) = n + 1
  <2> DEFINE E == {n \in Nat : R[n] \in Lists /\ Len(R[n]) = n + 1}
  <2>1. 0 \in E
    <3>1. <<x>> \in Lists /\ Len(<<x>>) = 1 /\ 0 + 1 = 1
      OBVIOUS
    <3> QED
      BY <1>8, <3>1, Zenon
  <2>2. ASSUME NEW n \in Nat, n \in E
        PROVE  n + 1 \in E
    <3> DEFINE l == R[n]
               m == SqueezeMore(l, n + 1)
    <3>1. l \in Lists /\ Len(l) = n + 1 /\ R[n + 1] = m
      BY <1>9, <2>2
    <3> HIDE DEF l
    <3>2. m \in Lists /\ Len(m) = n + 2
      BY <3>1, MoreStates
    <3> HIDE DEF m
    <3>3. R[n + 1] \in Lists /\ Len(R[n + 1]) = (n + 1) + 1
      BY <3>1, <3>2
    <3> QED
      BY <3>3
  <2> HIDE DEF E
  <2>3. \A n \in Nat : n \in E
    BY <2>1, <2>2, Induction
  <2> QED
    BY <2>3 DEF E
<1> QED
  BY <1>8, <1>9, <1>10 DEF R

\* The state that block n of the output is read from, n from 0.
Squeezed(bytes, n) == ReferenceSqueezing(bytes)[n][n + 1]

\* and the states on them.
LEMMA SqueezedStates ==
  ASSUME NEW bytes, NEW x \in SUBSET StateBits,
         x = ReferenceAbsorbing(bytes)[ReferencePadded(bytes).blocks]
  PROVE  /\ Squeezed(bytes, 0) = x
         /\ \A n \in Nat : /\ Squeezed(bytes, n) \in SUBSET StateBits
                           /\ Squeezed(bytes, n + 1) = ReferenceF(Squeezed(bytes, n))
         /\ \A n \in Nat : \A k \in 0..n : ReferenceSqueezing(bytes)[n][k + 1] = Squeezed(bytes, k)
<1> DEFINE R == ReferenceSqueezing(bytes)
<1>1. /\ R[0] = <<x>>
      /\ \A n \in Nat : /\ R[n] \in Seq(SUBSET StateBits)
                        /\ Len(R[n]) = n + 1
                        /\ R[n + 1] = SqueezeMore(R[n], n + 1)
  BY SqueezingSteps
<1>2. \A n : Squeezed(bytes, n) = R[n][n + 1]
  BY DEF Squeezed
<1> HIDE DEF R
<1>3. ASSUME NEW n \in Nat
      PROVE  /\ Squeezed(bytes, n) \in SUBSET StateBits
             /\ Squeezed(bytes, n + 1) = ReferenceF(Squeezed(bytes, n))
             /\ \A k \in 1..n + 1 : R[n + 1][k] = R[n][k]
  <2>1. R[n] \in Seq(SUBSET StateBits) /\ Len(R[n]) = n + 1 /\ R[n + 1] = SqueezeMore(R[n], n + 1)
    BY <1>1
  <2>2. R[n + 1][n + 2] = ReferenceF(R[n][n + 1]) /\ \A k \in 1..n + 1 : R[n + 1][k] = R[n][k]
    BY <2>1, MoreStates
  <2>3. R[n][n + 1] \in SUBSET StateBits
    BY <2>1
  <2>4. Squeezed(bytes, n + 1) = R[n + 1][n + 2]
    <3>1. (n + 1) + 1 = n + 2
      OBVIOUS
    <3> QED
      BY <1>2, <3>1
  <2> QED
    BY <1>2, <2>2, <2>3, <2>4
<1>4. \A n \in Nat : \A k \in 0..n : R[n][k + 1] = Squeezed(bytes, k)
  <2> DEFINE E == {n \in Nat : \A k \in 0..n : R[n][k + 1] = Squeezed(bytes, k)}
  <2>1. 0 \in E
    BY <1>2
  <2>2. ASSUME NEW n \in Nat, n \in E
        PROVE  n + 1 \in E
    <3>1. ASSUME NEW k \in 0..n + 1
          PROVE  R[n + 1][k + 1] = Squeezed(bytes, k)
      <4>1. CASE k = n + 1
        BY <1>2, <4>1
      <4>2. CASE k # n + 1
        BY <1>3, <2>2, <4>2
      <4> QED
        BY <4>1, <4>2
    <3> QED
      BY <3>1
  <2> HIDE DEF E
  <2>3. \A n \in Nat : n \in E
    BY <2>1, <2>2, Induction
  <2> QED
    BY <2>3 DEF E
<1>5. Squeezed(bytes, 0) = x
  BY <1>1, <1>2
<1> QED
  BY <1>3, <1>4, <1>5 DEF R

-----------------------------------------------------------------------------
(* Messages and blocks.                                                    *)

\* Division and remainder of a multiple and a rest,
LEMMA DivideBy ==
  ASSUME NEW r \in Nat \ {0}, NEW q \in Nat, NEW c \in 0..r - 1
  PROVE  /\ r * q \in Nat
         /\ (r * q + c) \div r = q
         /\ (r * q + c) % r = c
OBVIOUS
\* and a number put together from them.
LEMMA Divided ==
  ASSUME NEW r \in Nat \ {0}, NEW n \in Nat
  PROVE  /\ n \div r \in Nat
         /\ n % r \in 0..r - 1
         /\ n = r * (n \div r) + (n % r)
OBVIOUS

\* A bit of bytes is a bit of its byte.
LEMMA BitOfBytes ==
  ASSUME NEW bytes \in Seq(0..255), NEW b \in Nat
  PROVE  b \in BitsOf(bytes) <=>
           /\ (b \div 8) + 1 \in 1..Len(bytes)
           /\ b % 8 \in ByteBits(bytes[(b \div 8) + 1])
<1>1. b \in BitsOf(bytes) <=>
        \E i \in 1..Len(bytes) : \E k \in ByteBits(bytes[i]) : b = 8 * (i - 1) + k
  BY DEF BitsOf
<1>2. \A v : ByteBits(v) \subseteq 0..7
  BY DEF ByteBits
<1>3. ASSUME NEW i \in 1..Len(bytes), NEW k \in ByteBits(bytes[i]), b = 8 * (i - 1) + k
      PROVE  (b \div 8) + 1 = i /\ b % 8 = k
  <2>1. k \in 0..7
    BY <1>2
  <2> QED
    BY <1>3, <2>1
<1>4. b = 8 * (((b \div 8) + 1) - 1) + (b % 8)
  OBVIOUS
<1> QED
  BY <1>1, <1>3, <1>4

\* 0x1f has the five lowest bits.
LEMMA MarkerBits == ByteBits(31) = 0..4
<1>1. /\ 2^0 = 1 /\ 2^1 = 2 /\ 2^2 = 4 /\ 2^3 = 8 /\ 2^4 = 16 /\ 2^5 = 32 /\ 2^6 = 64 /\ 2^7 = 128
  OBVIOUS
<1>2. ASSUME NEW k \in 0..7
      PROVE  (31 \div 2^k) % 2 = 1 <=> k \in 0..4
  <2>1. k = 0 \/ k = 1 \/ k = 2 \/ k = 3 \/ k = 4 \/ k = 5 \/ k = 6 \/ k = 7
    OBVIOUS
  <2>2. /\ (31 \div 1) % 2 = 1 /\ (31 \div 2) % 2 = 1 /\ (31 \div 4) % 2 = 1
        /\ (31 \div 8) % 2 = 1 /\ (31 \div 16) % 2 = 1 /\ (31 \div 32) % 2 = 0
        /\ (31 \div 64) % 2 = 0 /\ (31 \div 128) % 2 = 0
    OBVIOUS
  <2> DEFINE p(j) == 2^j
  <2>3. /\ p(0) = 1 /\ p(1) = 2 /\ p(2) = 4 /\ p(3) = 8 /\ p(4) = 16 /\ p(5) = 32 /\ p(6) = 64
        /\ p(7) = 128
    BY <1>1, Zenon
  <2> HIDE DEF p
  <2>4. (31 \div p(k)) % 2 = 1 <=> k \in 0..4
    BY <2>1, <2>2, <2>3
  <2> QED
    BY <2>4 DEF p
<1> DEFINE one(k) == (31 \div 2^k) % 2 = 1
<1>3. ByteBits(31) = {k \in 0..7 : one(k)}
  BY DEF ByteBits
<1>4. \A k \in 0..7 : one(k) <=> k \in 0..4
  BY <1>2, Zenon
<1> HIDE DEF one
<1> QED
  BY <1>3, <1>4

\* How the message falls into blocks.
LEMMA MessageBlocks ==
  ASSUME NEW bytes \in Seq(0..255)
  PROVE  LET L == Len(bytes)
             q == L \div RATE_BYTES
             t == L % RATE_BYTES
         IN  /\ q \in Nat /\ t \in 0..RATE_BYTES - 1 /\ L = RATE_BYTES * q + t
             /\ RATE * q + RATE = RATE * (q + 1)
             /\ ReferencePadded(bytes).blocks = q + 1
             /\ \A b \in Nat : b \in ReferencePadded(bytes).bits <=>
                  \/ b \in BitsOf(bytes)
                  \/ b \in (8 * L)..(8 * L + 4)
                  \/ b = RATE * q + RATE - 1
<1> DEFINE L == Len(bytes)
           q == L \div RATE_BYTES
           t == L % RATE_BYTES
           end == 8 * L + 4
           zeros == CHOOSE j \in 0..RATE - 1 : (end + j + 2) % RATE = 0
           whole == RATE * q
<1>1. L \in Nat /\ q \in Nat /\ t \in 0..RATE_BYTES - 1 /\ L = RATE_BYTES * q + t
  <2>1. L \in Nat
    OBVIOUS
  <2> HIDE DEF L, end, zeros, whole
  <2> QED
    BY <2>1, RateValues, Divided
<1>2. RATE = 8 * RATE_BYTES /\ RATE_BYTES \in Nat \ {0} /\ RATE \in Nat \ {0}
  BY RateValues
<1> HIDE DEF L, q, t, zeros
<1>3. whole \in Nat /\ 8 * L = whole + 8 * t /\ RATE * (q + 1) = whole + RATE
  BY <1>1, <1>2
<1>4. ASSUME NEW j \in 0..RATE - 1
      PROVE  (end + j + 2) % RATE = 0 <=> j = RATE - 8 * t - 6
  <2> DEFINE c == 8 * t + 6 + j
  <2>1. c \in Nat /\ end + j + 2 = whole + c /\ 0 < c /\ c < 2 * RATE
    <3>1. L \in Nat /\ whole \in Nat /\ 8 * L = whole + 8 * t /\ t \in 0..RATE_BYTES - 1
      BY <1>1, <1>3
    <3> HIDE DEF whole
    <3> QED
      BY <1>2, <3>1
  <2> HIDE DEF c
  <2>2. CASE c < RATE
    <3>1. c \in 0..RATE - 1
      BY <1>2, <2>1, <2>2
    <3>2. (RATE * q + c) % RATE = c
      BY <1>1, <1>2, <3>1, DivideBy
    <3> QED
      BY <1>1, <1>2, <2>1, <2>2, <3>2 DEF c
  <2>3. CASE c >= RATE
    <3> DEFINE d == c - RATE
               u == q + 1
    <3>1. d \in 0..RATE - 1 /\ u \in Nat /\ whole + c = RATE * u + d
      BY <1>1, <1>2, <1>3, <2>1, <2>3
    <3> HIDE DEF d, u
    <3>2. (RATE * u + d) % RATE = d
      <4>1. RATE \in Nat \ {0} /\ u \in Nat /\ d \in 0..RATE - 1
        BY <1>2, <3>1
      <4> QED
        BY <4>1, DivideBy, Zenon
    <3>3. (end + j + 2) % RATE = d
      <4> DEFINE product == RATE * u
                 sum == end + j + 2
      <4>0. whole + c = product + d /\ sum = whole + c
        BY <2>1, <3>1
      <4>1. (product + d) % RATE = d
        BY <3>2
      <4> HIDE DEF product, sum
      <4>2. sum = product + d
        BY <4>0
      <4>3. sum % RATE = d
        BY <4>1, <4>2
      <4> QED
        BY <4>3 DEF sum
    <3> QED
      BY <1>1, <1>2, <3>3 DEF c, d
  <2> QED
    BY <1>2, <2>1, <2>2, <2>3
<1>5. RATE - 8 * t - 6 \in 0..RATE - 1
  BY <1>1, <1>2
<1>6. zeros = RATE - 8 * t - 6
  <2> HIDE DEF end
  <2> QED
    BY <1>4, <1>5 DEF zeros
<1> HIDE DEF whole
<1>i. L \in Nat /\ t \in Nat
  BY <1>1
<1>7. end + zeros + 2 = whole + RATE /\ end = 8 * L + 4
  BY <1>i, <1>2, <1>3, <1>6 DEF end
<1> HIDE DEF end
<1>8. (end + zeros + 2) \div RATE = q + 1
  <2> DEFINE u == q + 1
  <2>1. u \in Nat /\ end + zeros + 2 = RATE * u + 0 /\ 0 \in 0..RATE - 1
    <3>1. u \in Nat /\ RATE * u = whole + RATE
      BY <1>1, <1>3
    <3> DEFINE w == RATE * u
    <3>2. w = whole + RATE /\ whole \in Nat
      BY <1>3, <3>1
    <3> HIDE DEF u, w
    <3>3. end + zeros + 2 = w + 0 /\ 0 \in 0..RATE - 1
      BY <1>2, <1>7, <3>2
    <3> QED
      BY <3>1, <3>3 DEF w
  <2> HIDE DEF u
  <2>2. (RATE * u + 0) \div RATE = u
    BY <1>2, <2>1, DivideBy
  <2> QED
    BY <2>1, <2>2 DEF u
<1>9. ReferencePadded(bytes) =
        [bits |-> BitsOf(bytes) \cup {end - 4, end - 3, end - 2, end - 1} \cup {end, end + zeros + 1},
         blocks |-> (end + zeros + 2) \div RATE]
  BY DEF ReferencePadded, zeros, end, L
<1>10. ASSUME NEW b \in Nat
       PROVE  b \in ReferencePadded(bytes).bits <=>
                  \/ b \in BitsOf(bytes)
                  \/ b \in (8 * L)..(8 * L + 4)
                  \/ b = RATE * q + RATE - 1
  <2>1. b \in ReferencePadded(bytes).bits <=>
          b \in BitsOf(bytes) \/ b \in {end - 4, end - 3, end - 2, end - 1} \/ b \in {end, end + zeros + 1}
    BY <1>9
  <2>2. b \in {end - 4, end - 3, end - 2, end - 1} \/ b = end <=> b \in (8 * L)..(8 * L + 4)
    BY <1>i, <1>7
  <2>3. end + zeros + 1 = RATE * q + RATE - 1
    <3>1. end + zeros + 1 = whole + RATE - 1
      BY <1>i, <1>2, <1>3, <1>6, <1>7
    <3> QED
      BY <3>1 DEF whole
  <2> QED
    BY <2>1, <2>2, <2>3
<1>11. ReferencePadded(bytes).blocks = q + 1
  BY <1>8, <1>9
<1> QED
  BY <1>1, <1>3, <1>10, <1>11 DEF L, q, t, whole

\* Bytes have eight bits each.
LEMMA BytesRange ==
  ASSUME NEW bytes \in Seq(0..255)
  PROVE  BitsOf(bytes) \subseteq 0..8 * Len(bytes) - 1
<1>1. \A b \in BitsOf(bytes) : \E i \in 1..Len(bytes) : \E k \in ByteBits(bytes[i]) : b = 8 * (i - 1) + k
  BY DEF BitsOf
<1>2. \A v : ByteBits(v) \subseteq 0..7
  BY DEF ByteBits
<1>3. ASSUME NEW b \in BitsOf(bytes)
      PROVE  b \in 0..8 * Len(bytes) - 1
  <2>1. PICK i \in 1..Len(bytes), k \in 0..7 : b = 8 * (i - 1) + k
    BY <1>1, <1>2
  <2> QED
    BY <2>1
<1> QED
  BY <1>3

\* The bits of a part of a message are bits of the message.
LEMMA PartBits ==
  ASSUME NEW bytes \in Seq(0..255), NEW p \in Nat, NEW e \in p..Len(bytes), NEW b \in Nat
  PROVE  /\ SubSeq(bytes, p + 1, e) \in Seq(0..255)
         /\ Len(SubSeq(bytes, p + 1, e)) = e - p
         /\ b < 8 * (e - p) =>
              (b \in BitsOf(SubSeq(bytes, p + 1, e)) <=> 8 * p + b \in BitsOf(bytes))
<1> DEFINE part == SubSeq(bytes, p + 1, e)
<1>1. /\ part \in Seq(0..255) /\ Len(part) = e - p
      /\ \A i \in 1..e - p : part[i] = bytes[p + i]
  <2>1. 1 <= p + 1 /\ e <= Len(bytes) /\ Len(bytes) \in Nat
    BY LenProperties
  <2>2. p + 1 \in Int /\ e \in Int /\ (IF p + 1 <= e THEN e - (p + 1) + 1 ELSE 0) = e - p
    OBVIOUS
  <2>3. \A i \in 1..e - p : i \in 1..(e - (p + 1) + 1) /\ p + 1 + i - 1 = p + i
    OBVIOUS
  <2> DEFINE m == p + 1
  <2>4. \A i \in m..e : bytes[i] \in 0..255
    <3>1. \A i \in m..e : i \in 1..Len(bytes)
      BY <2>1
    <3>2. \A i \in 1..Len(bytes) : bytes[i] \in 0..255
      BY ElementOfSeq
    <3> HIDE DEF m, part
    <3> QED
      BY <3>1, <3>2
  <2> HIDE DEF part, m
  <2>5. /\ SubSeq(bytes, m, e) \in Seq(0..255)
        /\ Len(SubSeq(bytes, m, e)) = IF m <= e THEN e - m + 1 ELSE 0
        /\ \A i \in 1..e - m + 1 : SubSeq(bytes, m, e)[i] = bytes[m + i - 1]
    <3>1. m \in Int /\ e \in Int
      BY <2>2 DEF m
    <3> HIDE DEF m
    <3> QED
      BY <2>4, <3>1, SubSeqProperties
  <2> QED
    BY <2>2, <2>3, <2>5 DEF part, m
<1> HIDE DEF part
<1>2. SUFFICES ASSUME b < 8 * (e - p)
               PROVE  b \in BitsOf(part) <=> 8 * p + b \in BitsOf(bytes)
  BY <1>1 DEF part
<1>3. (b \div 8) + 1 \in 1..e - p
  BY <1>2
<1>4. 8 * p + b \in Nat /\ ((8 * p + b) \div 8) + 1 = p + ((b \div 8) + 1) /\ (8 * p + b) % 8 = b % 8
  OBVIOUS
<1>5. b \in BitsOf(part) <=> b % 8 \in ByteBits(part[(b \div 8) + 1])
  BY <1>1, <1>3, BitOfBytes
<1> DEFINE c == 8 * p + b
<1>6. c \in Nat /\ (c \div 8) + 1 = p + ((b \div 8) + 1) /\ c % 8 = b % 8
  BY <1>4
<1> HIDE DEF c
<1>7. (c \div 8) + 1 \in 1..Len(bytes)
  BY <1>3, <1>6
<1>8. c \in BitsOf(bytes) <=> c % 8 \in ByteBits(bytes[(c \div 8) + 1])
  BY <1>6, <1>7, BitOfBytes
<1>9. part[(b \div 8) + 1] = bytes[(c \div 8) + 1]
  BY <1>1, <1>3, <1>6
<1> QED
  BY <1>5, <1>6, <1>8, <1>9 DEF c

\* A bit of a block is of the message, its suffix or its padding.
LEMMA BlockBits ==
  ASSUME NEW bytes \in Seq(0..255), NEW n \in Nat, NEW b \in 0..RATE - 1
  PROVE  b \in ReferenceBlock(bytes, n) <=>
           \/ 8 * (RATE_BYTES * n) + b \in BitsOf(bytes)
           \/ 8 * (RATE_BYTES * n) + b \in (8 * Len(bytes))..(8 * Len(bytes) + 4)
           \/ 8 * (RATE_BYTES * n) + b = RATE * (Len(bytes) \div RATE_BYTES) + RATE - 1
<1>1. RATE * n = 8 * (RATE_BYTES * n) /\ RATE_BYTES * n \in Nat
  BY RateValues
<1>2. RATE * n + b \in Nat
  BY <1>1
<1>3. b \in ReferenceBlock(bytes, n) <=> RATE * n + b \in ReferencePadded(bytes).bits
  BY DEF ReferenceBlock
<1>4. \A c \in Nat : c \in ReferencePadded(bytes).bits <=>
           \/ c \in BitsOf(bytes)
           \/ c \in (8 * Len(bytes))..(8 * Len(bytes) + 4)
           \/ c = RATE * (Len(bytes) \div RATE_BYTES) + RATE - 1
  BY MessageBlocks
<1> QED
  BY <1>1, <1>2, <1>3, <1>4

\* A whole block of the message is absorbed as it is.
LEMMA WholeBlock ==
  ASSUME NEW bytes \in Seq(0..255), NEW n \in Nat, NEW p \in Nat,
         p = RATE_BYTES * n, p + RATE_BYTES <= Len(bytes)
  PROVE  ReferenceBlock(bytes, n) = BitsOf(SubSeq(bytes, p + 1, p + RATE_BYTES))
<1> DEFINE e == p + RATE_BYTES
           part == SubSeq(bytes, p + 1, e)
           q == Len(bytes) \div RATE_BYTES
           last == RATE * q + RATE - 1
<1>1. e \in p..Len(bytes) /\ e - p = RATE_BYTES /\ RATE_BYTES \in Nat \ {0} /\ RATE = 8 * RATE_BYTES
  BY RateValues
<1>2. part \in Seq(0..255) /\ Len(part) = RATE_BYTES
  <2> HIDE DEF e
  <2>1. 0 \in Nat
    OBVIOUS
  <2>e. e \in p..Len(bytes)
    BY <1>1
  <2>2. SubSeq(bytes, p + 1, e) \in Seq(0..255) /\ Len(SubSeq(bytes, p + 1, e)) = e - p
    BY <2>1, <2>e, PartBits
  <2> QED
    BY <1>1, <2>2
<1>3. BitsOf(part) \subseteq 0..RATE - 1
  <2> HIDE DEF part
  <2> QED
    BY <1>1, <1>2, BytesRange
<1>4. n < q
  <2> DEFINE L == Len(bytes)
             t == L % RATE_BYTES
  <2>0. L \in Nat
    OBVIOUS
  <2> HIDE DEF L, part, e, last, q, t
  <2>1. q \in Nat /\ t \in 0..RATE_BYTES - 1 /\ L = RATE_BYTES * q + t
    BY <1>1, <2>0, Divided DEF q, t, L
  <2>2. RATE_BYTES * q + RATE_BYTES > RATE_BYTES * n + RATE_BYTES
    <3> DEFINE a == RATE_BYTES * q
               b == RATE_BYTES * n
    <3>1. a \in Nat /\ b \in Nat /\ p = b /\ L = a + t /\ p + RATE_BYTES <= L
      BY <1>1, <2>1 DEF L
    <3> HIDE DEF a, b
    <3>2. a + RATE_BYTES > b + RATE_BYTES
      BY <1>1, <2>1, <3>1
    <3> QED
      BY <3>2 DEF a, b
  <2>3. q > n
    BY <1>1, <2>1, <2>2
  <2> QED
    BY <2>1, <2>3
<1>5. last >= 8 * p + RATE + RATE - 1
  <2>1. q \in Nat
    <3> DEFINE L == Len(bytes)
    <3>1. L \in Nat
      OBVIOUS
    <3> HIDE DEF L
    <3> QED
      BY <1>1, <3>1, Divided DEF L
  <2> HIDE DEF q, part, e
  <2>2. RATE * q >= RATE * (n + 1)
    BY <1>1, <1>4, <2>1
  <2>3. RATE * (n + 1) = 8 * p + RATE
    BY <1>1
  <2> QED
    BY <1>1, <2>1, <2>2, <2>3
<1>6. ASSUME NEW b \in 0..RATE - 1
      PROVE  b \in ReferenceBlock(bytes, n) <=> b \in BitsOf(part)
  <2>1. b \in BitsOf(part) <=> 8 * p + b \in BitsOf(bytes)
    <3>1. b \in Nat /\ b < 8 * (e - p)
      BY <1>1
    <3> HIDE DEF e
    <3> QED
      BY <1>1, <3>1, PartBits
  <2>2. 8 * p + b < 8 * Len(bytes)
    <3>1. 8 * p + RATE <= 8 * Len(bytes)
      BY <1>1
    <3> QED
      BY <1>1, <3>1
  <2>3. 8 * p + b # last
    <3> HIDE DEF last
    <3> QED
      BY <1>1, <1>5
  <2>4. b \in ReferenceBlock(bytes, n) <=>
           \/ 8 * p + b \in BitsOf(bytes)
           \/ 8 * p + b \in (8 * Len(bytes))..(8 * Len(bytes) + 4)
           \/ 8 * p + b = last
    BY BlockBits
  <2>5. 8 * p + b \notin (8 * Len(bytes))..(8 * Len(bytes) + 4)
    BY <2>2
  <2> QED
    BY <2>1, <2>3, <2>4, <2>5
<1>7. ReferenceBlock(bytes, n) \subseteq 0..RATE - 1
  BY DEF ReferenceBlock
<1> QED
  BY <1>3, <1>6, <1>7

\* The last block is the rest of the message, padded.
LEMMA LastBlock ==
  ASSUME NEW bytes \in Seq(0..255), NEW n \in Nat, NEW p \in Nat,
         p = RATE_BYTES * n, p <= Len(bytes), Len(bytes) < p + RATE_BYTES
  PROVE  /\ n = Len(bytes) \div RATE_BYTES
         /\ ReferenceBlock(bytes, n) = pad_single_block(SubSeq(bytes, p + 1, Len(bytes)))
<1> DEFINE L == Len(bytes)
           t == L - p
           part == SubSeq(bytes, p + 1, L)
<1>1. t \in 0..RATE_BYTES - 1 /\ RATE_BYTES \in Nat \ {0} /\ RATE = 8 * RATE_BYTES /\ L \in p..L /\ L \in Nat
  BY RateValues
<1>2. L \div RATE_BYTES = n
  <2>1. L = RATE_BYTES * n + t
    BY <1>1
  <2> HIDE DEF t, L, part
  <2> QED
    BY <1>1, <2>1, DivideBy
<1>3. part \in Seq(0..255) /\ Len(part) = t
  <2>1. 0 \in Nat
    OBVIOUS
  <2> HIDE DEF L
  <2>2. SubSeq(bytes, p + 1, L) \in Seq(0..255) /\ Len(SubSeq(bytes, p + 1, L)) = L - p
    <3>1. L \in p..Len(bytes)
      BY <1>1 DEF L
    <3> QED
      BY <2>1, <3>1, PartBits
  <2> QED
    BY <2>2
<1>4. BitsOf(part) \subseteq 0..8 * t - 1
  <2> HIDE DEF part, t
  <2> QED
    BY <1>3, BytesRange
<1>5. RATE * n = 8 * p
  BY <1>1
<1>6. pad_single_block(part) =
        SymDiff(BitsOf(part) \cup {8 * t + k : k \in 0..4}, {RATE - 1})
  BY <1>3, MarkerBits DEF pad_single_block, RATE
<1>7. ASSUME NEW b \in 0..RATE - 1
      PROVE  b \in ReferenceBlock(bytes, n) <=> b \in pad_single_block(part)
  <2>1. b \in ReferenceBlock(bytes, n) <=>
           \/ 8 * p + b \in BitsOf(bytes)
           \/ 8 * p + b \in (8 * L)..(8 * L + 4)
           \/ 8 * p + b = RATE * n + RATE - 1
    BY <1>2, BlockBits
  <2>2. 8 * p + b \in (8 * L)..(8 * L + 4) <=> b \in {8 * t + k : k \in 0..4}
    <3>1. 8 * L = 8 * p + 8 * t
      BY <1>1
    <3>2. b \in {8 * t + k : k \in 0..4} <=> \E k \in 0..4 : b = 8 * t + k
      OBVIOUS
    <3> HIDE DEF t, L, part
    <3>3. (\E k \in 0..4 : b = 8 * t + k) <=> b >= 8 * t /\ b <= 8 * t + 4
      <4>1. ASSUME b >= 8 * t, b <= 8 * t + 4
            PROVE  b - 8 * t \in 0..4 /\ b = 8 * t + (b - 8 * t)
        BY <1>1, <4>1
      <4> QED
        BY <1>1, <4>1
    <3> QED
      BY <1>1, <3>1, <3>2, <3>3
  <2>3. 8 * p + b = RATE * n + RATE - 1 <=> b = RATE - 1
    BY <1>1, <1>5
  <2>4. 8 * p + b \in BitsOf(bytes) <=> b \in BitsOf(part)
    <3>1. CASE b < 8 * t
      BY <1>1, <3>1, PartBits
    <3>2. CASE b >= 8 * t
      <4>1. b \notin BitsOf(part)
        <5> HIDE DEF part, t, L
        <5> QED
          BY <1>1, <1>4, <3>2
      <4>2. 8 * p + b >= 8 * L
        BY <3>2
      <4>3. 8 * p + b \notin BitsOf(bytes)
        BY <4>2, BytesRange
      <4> QED
        BY <4>1, <4>3
    <3> QED
      BY <1>1, <3>1, <3>2
  <2>5. ~(b = RATE - 1 /\ b \in BitsOf(part)) /\ ~(b = RATE - 1 /\ b \in {8 * t + k : k \in 0..4})
    <3>1. ASSUME b \in BitsOf(part)
          PROVE  b # RATE - 1
      <4>1. b \in 0..8 * t - 1
        BY <1>4, <3>1
      <4> HIDE DEF t
      <4> QED
        BY <1>1, <4>1
    <3>2. ASSUME NEW k \in 0..4, b = 8 * t + k
          PROVE  b # RATE - 1
      <4> HIDE DEF t
      <4> QED
        BY <1>1, <3>2
    <3> QED
      BY <3>1, <3>2
  <2> DEFINE marker == {8 * t + k : k \in 0..4}
             bits == BitsOf(part)
             whole == BitsOf(bytes)
             end == (8 * L)..(8 * L + 4)
  <2>6. b \in pad_single_block(part) <=> ((b \in bits \/ b \in marker) # (b = RATE - 1))
    <3> HIDE DEF part, t, marker, bits
    <3> QED
      BY <1>6, XorBit DEF bits, marker
  <2> HIDE DEF marker, bits, whole, end
  <2>7. b \in bits \/ b \in marker \/ b = RATE - 1 <=> ((b \in bits \/ b \in marker) # (b = RATE - 1))
    BY <2>5 DEF marker, bits
  <2> QED
    BY <2>1, <2>2, <2>3, <2>4, <2>6, <2>7 DEF marker, bits
<1>8. ReferenceBlock(bytes, n) \subseteq 0..RATE - 1
  BY DEF ReferenceBlock
<1>9. pad_single_block(part) \subseteq 0..RATE - 1
  <2>1. {8 * t + k : k \in 0..4} \subseteq 0..RATE - 1
    <3> HIDE DEF t
    <3> QED
      BY <1>1
  <2>2. BitsOf(part) \subseteq 0..RATE - 1
    <3> HIDE DEF t, part
    <3> QED
      BY <1>1, <1>4
  <2>3. RATE - 1 \in 0..RATE - 1
    BY <1>1
  <2> HIDE DEF t, part
  <2> QED
    BY <1>6, <2>1, <2>2, <2>3 DEF SymDiff
<1> QED
  BY <1>2, <1>7, <1>8, <1>9

-----------------------------------------------------------------------------
(* shake256.                                                               *)

\* The permutation under way ends, or has ended, in state t.
Toward(t) ==
  \/ rounds = ROUNDS /\ state = t
  \/ \E s \in SUBSET StateBits : state = ReferenceRounds(s)[rounds] /\ t = ReferenceF(s)

\* Byte i of the output is read from its block's state.
OutputRead(i) ==
  output[i] = StateByte(Squeezed(message, (i - 1) \div RATE_BYTES), (i - 1) % RATE_BYTES)

OutputBytes == {StateByte(s, i) : s \in SUBSET StateBits, i \in 0..RATE_BYTES - 1}

ShakeTypeOK ==
  /\ message \in Seq(0..255) /\ output_len \in Nat
  /\ at \in Nat /\ state \in SUBSET StateBits /\ rounds \in 0..ROUNDS
  /\ phase \in {"absorb", "squeeze", "returned"}
  /\ output \in Seq(OutputBytes)

Absorbing ==
  /\ output = <<>>
  /\ \E n \in Nat : /\ at = RATE_BYTES * n /\ at <= Len(message)
                    /\ Toward(ReferenceAbsorbing(message)[n])

Squeezing ==
  /\ Toward(Squeezed(message, Len(output) \div RATE_BYTES))
  /\ Len(output) <= output_len
  /\ Len(output) % RATE_BYTES = 0 \/ Len(output) = output_len
  /\ \A i \in 1..Len(output) : OutputRead(i)

SpongeInv ==
  /\ ShakeTypeOK
  /\ phase = "absorb" => Absorbing
  /\ phase # "absorb" => Squeezing
  /\ phase = "returned" => Len(output) = output_len

\* There are at most as many rounds as constants.
LEMMA RoundsRange == ROUNDS \in 1..24
  BY LaneAssumption

\* When a permutation has ended, the state is what it was to end in.
LEMMA Arrived ==
  ASSUME NEW t, Toward(t), rounds = ROUNDS
  PROVE  state = t
  BY DEF Toward, ReferenceF

\* A permutation that begins will end in what the reference computes.
LEMMA Departs ==
  ASSUME NEW s \in SUBSET StateBits, state' = s, rounds' = 0
  PROVE  Toward(ReferenceF(s))'
<1>1. ReferenceRounds(s)[0] = s
  BY RoundsSteps
<1>2. state' = ReferenceRounds(s)[rounds']
  BY <1>1
<1> QED
  BY <1>2 DEF Toward

\* A round of the permutation is one of the circuit's and one of the reference's.
LEMMA OneRound ==
  ASSUME state \in SUBSET StateBits, rounds \in 0..ROUNDS, rounds < ROUNDS,
         state' = round(state, RC[rounds]), rounds' = rounds + 1
  PROVE  /\ state' \in SUBSET StateBits
         /\ state' = keccak_round_expr(state, RC[rounds])
         /\ \A t : Toward(t) => Toward(t)'
<1>1. rounds \in 0..23 /\ rounds \in Nat /\ rounds # ROUNDS
  BY RoundsRange
<1>2. RC[rounds] \in SUBSET StateBits
  BY <1>1, RoundConstant
<1>3. state' \in SUBSET StateBits /\ state' = keccak_round_expr(state, RC[rounds])
  BY <1>2, RoundAgrees
<1>4. state' = ReferenceRound(state, rounds)
  BY <1>1, RoundIsReference
<1>5. ASSUME NEW t, Toward(t)
      PROVE  Toward(t)'
  <2>1. PICK s \in SUBSET StateBits : state = ReferenceRounds(s)[rounds] /\ t = ReferenceF(s)
    BY <1>1, <1>5 DEF Toward
  <2>2. ReferenceRounds(s)[rounds + 1] = ReferenceRound(state, rounds)
    BY <1>1, <2>1, RoundsSteps
  <2>3. state' = ReferenceRounds(s)[rounds']
    BY <1>4, <2>2
  <2> QED
    BY <2>1, <2>3 DEF Toward
<1> QED
  BY <1>3, <1>5

\* The states the output of a message is read from.
LEMMA SqueezedOf ==
  ASSUME NEW bytes \in Seq(0..255)
  PROVE  /\ ReferenceAbsorbing(bytes)[ReferencePadded(bytes).blocks] \in SUBSET StateBits
         /\ Squeezed(bytes, 0) = ReferenceAbsorbing(bytes)[ReferencePadded(bytes).blocks]
         /\ \A n \in Nat : /\ Squeezed(bytes, n) \in SUBSET StateBits
                           /\ Squeezed(bytes, n + 1) = ReferenceF(Squeezed(bytes, n))
         /\ \A n \in Nat : \A k \in 0..n : ReferenceSqueezing(bytes)[n][k + 1] = Squeezed(bytes, k)
<1>1. ReferencePadded(bytes).blocks \in Nat
  <2>1. /\ Len(bytes) \div RATE_BYTES \in Nat
        /\ ReferencePadded(bytes).blocks = (Len(bytes) \div RATE_BYTES) + 1
    BY MessageBlocks
  <2> DEFINE q == Len(bytes) \div RATE_BYTES
  <2> HIDE DEF q
  <2> QED
    BY <2>1 DEF q
<1>2. ReferenceAbsorbing(bytes)[ReferencePadded(bytes).blocks] \in SUBSET StateBits
  BY <1>1, AbsorbingSteps
<1> QED
  BY <1>2, SqueezedStates

\* The invariant holds when shake256 is called,
LEMMA SpongeInit == ShakeInit => SpongeInv
<1> SUFFICES ASSUME ShakeInit PROVE SpongeInv
  OBVIOUS
<1>1. message \in Seq(0..255) /\ output_len \in Nat
  BY CallsAssumption DEF ShakeInit
<1>2. at = 0 /\ state = {} /\ rounds = ROUNDS /\ phase = "absorb" /\ output = <<>>
  BY DEF ShakeInit
<1>3. ShakeTypeOK
  <2>1. output \in Seq(OutputBytes)
    BY <1>2
  <2> QED
    BY <1>1, <1>2, <2>1, RoundsRange DEF ShakeTypeOK
<1>4. ReferenceAbsorbing(message)[0] = {}
  BY AbsorbingSteps
<1>5. at = RATE_BYTES * 0 /\ at <= Len(message)
  BY <1>1, <1>2, RateValues
<1>6. Absorbing
  BY <1>2, <1>4, <1>5 DEF Absorbing, Toward
<1> QED
  BY <1>2, <1>3, <1>6 DEF SpongeInv

\* after each round,
LEMMA RoundStep == SpongeInv /\ Round => SpongeInv'
<1> SUFFICES ASSUME SpongeInv, Round PROVE SpongeInv'
  OBVIOUS
<1>0. ShakeTypeOK
  BY DEF SpongeInv
<1>1. /\ rounds < ROUNDS /\ state' = round(state, RC[rounds]) /\ rounds' = rounds + 1
      /\ message' = message /\ output_len' = output_len /\ at' = at /\ phase' = phase /\ output' = output
  BY DEF Round
<1>2. state' \in SUBSET StateBits /\ \A t : Toward(t) => Toward(t)'
  BY <1>0, <1>1, OneRound DEF ShakeTypeOK
<1>3. ShakeTypeOK'
  BY <1>0, <1>1, <1>2, RoundsRange DEF ShakeTypeOK
<1>4. ASSUME phase = "absorb"
      PROVE  Absorbing'
  <2>1. PICK n \in Nat : /\ at = RATE_BYTES * n /\ at <= Len(message)
                         /\ Toward(ReferenceAbsorbing(message)[n])
    BY <1>4 DEF SpongeInv, Absorbing
  <2>2. PICK t : t = ReferenceAbsorbing(message)[n]
    OBVIOUS
  <2>3. Toward(t)'
    BY <1>2, <2>1, <2>2
  <2>4. t = ReferenceAbsorbing(message')[n]
    BY <1>1, <2>2
  <2>5. Toward(ReferenceAbsorbing(message)[n])'
    BY <2>3, <2>4 DEF Toward
  <2>6. output' = <<>> /\ at' = RATE_BYTES * n /\ at' <= Len(message')
    BY <1>1, <1>4, <2>1 DEF SpongeInv, Absorbing
  <2> QED
    BY <2>5, <2>6 DEF Absorbing
<1>5. ASSUME phase # "absorb"
      PROVE  Squeezing'
  <2>0. Squeezing
    BY <1>5 DEF SpongeInv
  <2>1. PICK t : t = Squeezed(message, Len(output) \div RATE_BYTES)
    OBVIOUS
  <2>2. Toward(t)
    BY <2>0, <2>1 DEF Squeezing
  <2>3. Toward(t)'
    BY <1>2, <2>2
  <2>4. t = Squeezed(message', Len(output') \div RATE_BYTES)
    BY <1>1, <2>1
  <2>5. Toward(Squeezed(message, Len(output) \div RATE_BYTES))'
    BY <2>3, <2>4 DEF Toward
  <2>6. (\A i \in 1..Len(output) : OutputRead(i))'
    BY <1>1, <2>0 DEF Squeezing, OutputRead
  <2>7. /\ Len(output') <= output_len'
        /\ Len(output') % RATE_BYTES = 0 \/ Len(output') = output_len'
    BY <1>1, <2>0 DEF Squeezing
  <2> QED
    BY <2>5, <2>6, <2>7 DEF Squeezing
<1>6. phase' = "returned" => Len(output') = output_len'
  BY <1>1 DEF SpongeInv
<1> QED
  BY <1>1, <1>3, <1>4, <1>5, <1>6 DEF SpongeInv

\* Absorbing what the reference calls the next block.
LEMMA NextBlock ==
  ASSUME ShakeTypeOK, rounds = ROUNDS, rounds' = 0, message' = message,
         NEW n \in Nat, Toward(ReferenceAbsorbing(message)[n]),
         state' = SymDiff(state, ReferenceBlock(message, n))
  PROVE  /\ state' \in SUBSET StateBits
         /\ Toward(ReferenceAbsorbing(message)[n + 1])'
<1> DEFINE R == ReferenceAbsorbing(message)
           s == SymDiff(state, ReferenceBlock(message, n))
<1>1. state = R[n]
  <2>1. PICK t : t = R[n]
    OBVIOUS
  <2> QED
    BY <2>1, Arrived
<1>2. s \in SUBSET StateBits /\ ReferenceF(s) = R[n + 1]
  <2>1. state \in SUBSET StateBits
    BY DEF ShakeTypeOK
  <2>2. R[n + 1] = Absorb(message, n, state)
    BY <1>1, AbsorbingSteps
  <2> QED
    BY <2>1, <2>2, AbsorbState DEF Absorb
<1>3. PICK u \in SUBSET StateBits : u = s
  BY <1>2
<1>4. Toward(ReferenceF(u))'
  BY <1>3, Departs
<1>5. ReferenceF(u) = ReferenceAbsorbing(message')[n + 1]
  BY <1>2, <1>3
<1>6. Toward(ReferenceAbsorbing(message)[n + 1])'
  BY <1>4, <1>5 DEF Toward
<1> QED
  BY <1>2, <1>6

\* after each whole block,
LEMMA AbsorbBlockStep == SpongeInv /\ AbsorbBlock => SpongeInv'
<1> SUFFICES ASSUME SpongeInv, AbsorbBlock PROVE SpongeInv'
  OBVIOUS
<1>0. ShakeTypeOK
  BY DEF SpongeInv
<1>1. /\ phase = "absorb" /\ rounds = ROUNDS /\ Len(message) - at >= RATE_BYTES
      /\ state' = SymDiff(state, BitsOf(SubSeq(message, at + 1, at + RATE_BYTES)))
      /\ at' = at + RATE_BYTES /\ rounds' = 0
      /\ message' = message /\ output_len' = output_len /\ phase' = phase /\ output' = output
  BY DEF AbsorbBlock, absorb_block, Permute
<1>2. PICK n \in Nat : /\ at = RATE_BYTES * n /\ at <= Len(message)
                       /\ Toward(ReferenceAbsorbing(message)[n])
  BY <1>1 DEF SpongeInv, Absorbing
<1>3. message \in Seq(0..255) /\ at \in Nat /\ Len(message) \in Nat /\ RATE_BYTES \in Nat
  BY <1>0, RateValues DEF ShakeTypeOK
<1>4. ReferenceBlock(message, n) = BitsOf(SubSeq(message, at + 1, at + RATE_BYTES))
  <2>1. at + RATE_BYTES <= Len(message)
    BY <1>1, <1>3
  <2> QED
    BY <1>2, <1>3, <2>1, WholeBlock
<1>5. state' \in SUBSET StateBits /\ Toward(ReferenceAbsorbing(message)[n + 1])'
  BY <1>0, <1>1, <1>2, <1>4, NextBlock
<1>6. at' = RATE_BYTES * (n + 1) /\ at' <= Len(message') /\ at' \in Nat
  BY <1>1, <1>2, <1>3
<1>7. Absorbing'
  <2>1. n + 1 \in Nat /\ output' = <<>>
    BY <1>1 DEF SpongeInv, Absorbing
  <2> QED
    BY <1>5, <1>6, <2>1 DEF Absorbing
<1>8. ShakeTypeOK'
  BY <1>0, <1>1, <1>5, <1>6, RoundsRange DEF ShakeTypeOK
<1> QED
  BY <1>1, <1>7, <1>8 DEF SpongeInv

\* after the padded block,
LEMMA AbsorbRemainderStep == SpongeInv /\ AbsorbRemainder => SpongeInv'
<1> SUFFICES ASSUME SpongeInv, AbsorbRemainder PROVE SpongeInv'
  OBVIOUS
<1>0. ShakeTypeOK
  BY DEF SpongeInv
<1>1. /\ phase = "absorb" /\ rounds = ROUNDS /\ Len(message) - at < RATE_BYTES
      /\ state' = SymDiff(state, pad_single_block(SubSeq(message, at + 1, Len(message))))
      /\ at' = Len(message) /\ rounds' = 0 /\ phase' = "squeeze"
      /\ message' = message /\ output_len' = output_len /\ output' = output
  BY DEF AbsorbRemainder, absorb_block, Permute
<1>2. PICK n \in Nat : /\ at = RATE_BYTES * n /\ at <= Len(message)
                       /\ Toward(ReferenceAbsorbing(message)[n])
  BY <1>1 DEF SpongeInv, Absorbing
<1>3. message \in Seq(0..255) /\ at \in Nat /\ Len(message) \in Nat /\ RATE_BYTES \in Nat
  BY <1>0, RateValues DEF ShakeTypeOK
<1>4. /\ n = Len(message) \div RATE_BYTES
      /\ ReferenceBlock(message, n) = pad_single_block(SubSeq(message, at + 1, Len(message)))
  <2>1. Len(message) < at + RATE_BYTES
    BY <1>1, <1>3
  <2> QED
    BY <1>2, <1>3, <2>1, LastBlock
<1>5. state' \in SUBSET StateBits /\ Toward(ReferenceAbsorbing(message)[n + 1])'
  BY <1>0, <1>1, <1>2, <1>4, NextBlock
<1>6. ReferencePadded(message).blocks = n + 1
  BY <1>3, <1>4, MessageBlocks
<1>7. Squeezed(message', 0) = ReferenceAbsorbing(message')[n + 1]
  BY <1>1, <1>3, <1>6, SqueezedOf
<1>8. output' = <<>> /\ Len(output') = 0 /\ 0 \div RATE_BYTES = 0 /\ 0 % RATE_BYTES = 0
  BY <1>1, RateValues DEF SpongeInv, Absorbing
<1>9. Toward(Squeezed(message, Len(output) \div RATE_BYTES))'
  <2>1. Squeezed(message', Len(output') \div RATE_BYTES) = ReferenceAbsorbing(message')[n + 1]
    BY <1>7, <1>8
  <2> QED
    BY <1>5, <2>1 DEF Toward
<1>10. Squeezing'
  <2>1. output_len' \in Nat
    BY <1>0, <1>1 DEF ShakeTypeOK
  <2>2. Len(output') <= output_len' /\ Len(output') % RATE_BYTES = 0
    BY <1>8, <2>1
  <2>3. (\A i \in 1..Len(output) : OutputRead(i))'
    BY <1>8
  <2> QED
    BY <1>9, <2>2, <2>3 DEF Squeezing
<1>11. ShakeTypeOK'
  BY <1>0, <1>1, <1>3, <1>5, RoundsRange DEF ShakeTypeOK
<1> QED
  BY <1>1, <1>10, <1>11 DEF SpongeInv

\* A chunk is a block or what is left.
LEMMA ChunkLength ==
  ASSUME NEW left \in Nat
  PROVE  ChunkLen(left) = IF RATE_BYTES <= left THEN RATE_BYTES ELSE left
<1>1. RATE_BYTES \in Nat
  BY RateValues
<1> DEFINE m == IF RATE_BYTES <= left THEN RATE_BYTES ELSE left
<1>2. m \in {RATE_BYTES, left} /\ \A y \in {RATE_BYTES, left} : m <= y
  BY <1>1
<1>3. \A x \in {RATE_BYTES, left} : (\A y \in {RATE_BYTES, left} : x <= y) => x = m
  BY <1>1
<1> HIDE DEF m
<1>4. (CHOOSE x \in {RATE_BYTES, left} : \A y \in {RATE_BYTES, left} : x <= y) = m
  BY <1>2, <1>3
<1> QED
  BY <1>4 DEF ChunkLen, Min, m

\* Where the bytes of a chunk come to lie.
LEMMA ChunkIndex ==
  ASSUME NEW j \in Nat, NEW k \in 1..RATE_BYTES
  PROVE  /\ RATE_BYTES * j \in Nat
         /\ (RATE_BYTES * j + k - 1) \div RATE_BYTES = j
         /\ (RATE_BYTES * j + k - 1) % RATE_BYTES = k - 1
<1> DEFINE c == k - 1
<1>1. c \in 0..RATE_BYTES - 1 /\ RATE_BYTES \in Nat \ {0}
  BY RateValues
<1>2. RATE_BYTES * j \in Nat /\ RATE_BYTES * j + k - 1 = RATE_BYTES * j + c
  BY <1>1
<1> HIDE DEF c
<1>3. (RATE_BYTES * j + c) \div RATE_BYTES = j /\ (RATE_BYTES * j + c) % RATE_BYTES = c
  BY <1>1, DivideBy
<1> QED
  BY <1>2, <1>3 DEF c

\* after each chunk,
LEMMA SqueezeStep == SpongeInv /\ Squeeze => SpongeInv'
<1> SUFFICES ASSUME SpongeInv, Squeeze PROVE SpongeInv'
  OBVIOUS
<1> DEFINE left == output_len - Len(output)
           len == ChunkLen(left)
           chunk == [i \in 1..len |-> StateByte(state, i - 1)]
           c == Len(output)
<1>0. ShakeTypeOK /\ phase = "squeeze" /\ Squeezing
  BY DEF SpongeInv, Squeeze
<1>1. /\ rounds = ROUNDS /\ left > 0 /\ output' = output \o chunk
      /\ IF len = RATE_BYTES THEN rounds' = 0 ELSE rounds' = rounds
      /\ message' = message /\ output_len' = output_len /\ at' = at /\ state' = state /\ phase' = phase
  BY DEF Squeeze, AfterChunk, Permute
<1>2. /\ message \in Seq(0..255) /\ output_len \in Nat /\ c \in Nat /\ c <= output_len
      /\ RATE_BYTES \in Nat \ {0} /\ output \in Seq(OutputBytes) /\ state \in SUBSET StateBits
  BY <1>0, RateValues DEF ShakeTypeOK, Squeezing
<1>3. left \in Nat /\ len = IF RATE_BYTES <= left THEN RATE_BYTES ELSE left
  <2>1. left \in Nat
    <3> HIDE DEF c, len, chunk
    <3> QED
      BY <1>2 DEF c
  <2> HIDE DEF left
  <2> QED
    BY <2>1, ChunkLength
<1>4. PICK j \in Nat : j = c \div RATE_BYTES /\ c = RATE_BYTES * j
  <2>1. c % RATE_BYTES = 0
    <3>1. c % RATE_BYTES = 0 \/ c = output_len
      BY <1>0 DEF Squeezing
    <3> HIDE DEF c
    <3> QED
      BY <1>1, <1>2, <3>1 DEF c
  <2> HIDE DEF c
  <2>2. c \div RATE_BYTES \in Nat /\ c = RATE_BYTES * (c \div RATE_BYTES) + (c % RATE_BYTES)
    BY <1>2, Divided
  <2>3. RATE_BYTES * (c \div RATE_BYTES) \in Nat
    BY <1>2, <2>2
  <2> QED
    BY <2>1, <2>2, <2>3
<1>5. state = Squeezed(message, j)
  <2>1. PICK t : t = Squeezed(message, j)
    OBVIOUS
  <2>2. Toward(t)
    BY <1>0, <1>4, <2>1 DEF Squeezing
  <2> QED
    BY <1>1, <2>1, <2>2, Arrived
<1>6. len \in 1..RATE_BYTES
  <2> HIDE DEF left, len
  <2> QED
    BY <1>1, <1>2, <1>3
<1>7. chunk \in Seq(OutputBytes) /\ Len(chunk) = len
  <2>1. \A i \in 1..len : StateByte(state, i - 1) \in OutputBytes
    <3> HIDE DEF len
    <3>1. \A i \in 1..len : i - 1 \in 0..RATE_BYTES - 1
      BY <1>2, <1>6
    <3> QED
      BY <1>2, <3>1 DEF OutputBytes
  <2> HIDE DEF len
  <2> QED
    BY <1>6, <2>1
<1> HIDE DEF left, len, chunk
<1>8. /\ output' \in Seq(OutputBytes) /\ Len(output') = c + len
      /\ \A i \in 1..c : output'[i] = output[i]
      /\ \A k \in 1..len : output'[c + k] = chunk[k]
  <2>1. /\ output \o chunk \in Seq(OutputBytes)
        /\ Len(output \o chunk) = Len(output) + Len(chunk)
        /\ \A i \in 1..Len(output) + Len(chunk) :
             (output \o chunk)[i] = IF i <= Len(output) THEN output[i] ELSE chunk[i - Len(output)]
    BY <1>2, <1>7, ConcatProperties
  <2> HIDE DEF c
  <2>2. \A i \in 1..c : i \in 1..c + len /\ i <= c
    BY <1>2, <1>6
  <2>3. \A k \in 1..len : c + k \in 1..c + len /\ ~(c + k <= c) /\ (c + k) - c = k
    BY <1>2, <1>6
  <2> QED
    BY <1>1, <1>7, <2>1, <2>2, <2>3 DEF c
<1>9. ASSUME NEW i \in 1..Len(output')
      PROVE  OutputRead(i)'
  <2>1. CASE i \in 1..c
    <3>1. OutputRead(i)
      BY <1>0, <2>1 DEF Squeezing
    <3> QED
      BY <1>1, <1>8, <2>1, <3>1 DEF OutputRead
  <2>2. CASE i \notin 1..c
    <3> DEFINE k == i - c
    <3>1. k \in 1..len /\ k \in 1..RATE_BYTES /\ i = c + k
      <4> HIDE DEF c
      <4> QED
        BY <1>2, <1>6, <1>8, <2>2 DEF c
    <3> HIDE DEF k, c
    <3>2. output'[i] = StateByte(state, k - 1)
      BY <1>8, <3>1 DEF chunk
    <3>3. i - 1 = RATE_BYTES * j + k - 1
      <4>1. i - 1 = c + k - 1
        BY <1>2, <3>1 DEF c
      <4> QED
        BY <1>4, <4>1
    <3>4. (i - 1) \div RATE_BYTES = j /\ (i - 1) % RATE_BYTES = k - 1
      BY <3>1, <3>3, ChunkIndex
    <3> QED
      BY <1>1, <1>5, <3>2, <3>4 DEF OutputRead
  <2> QED
    BY <2>1, <2>2
<1> HIDE DEF c
<1>10. CASE len = RATE_BYTES
  <2>1. Len(output') = RATE_BYTES * (j + 1) + 0 /\ j + 1 \in Nat /\ 0 \in 0..RATE_BYTES - 1
    BY <1>2, <1>4, <1>8, <1>10
  <2>2. Len(output') \div RATE_BYTES = j + 1 /\ Len(output') % RATE_BYTES = 0
    <3> DEFINE u == j + 1
    <3>1. u \in Nat /\ Len(output') = RATE_BYTES * u + 0 /\ 0 \in 0..RATE_BYTES - 1
      BY <2>1
    <3> HIDE DEF u
    <3>2. (RATE_BYTES * u + 0) \div RATE_BYTES = u /\ (RATE_BYTES * u + 0) % RATE_BYTES = 0
      BY <1>2, <3>1, DivideBy
    <3> QED
      BY <3>1, <3>2 DEF u
  <2>3. Len(output') <= output_len
    <3>1. RATE_BYTES <= left
      BY <1>1, <1>3, <1>10
    <3> QED
      BY <1>2, <1>8, <1>10, <3>1 DEF left, c
  <2>4. PICK s \in SUBSET StateBits : s = state
    BY <1>2
  <2>5. Toward(ReferenceF(s))'
    BY <1>1, <1>10, <2>4, Departs
  <2>6. ReferenceF(s) = Squeezed(message, j + 1)
    BY <1>2, <1>5, <2>4, SqueezedOf
  <2>7. Toward(Squeezed(message, Len(output) \div RATE_BYTES))'
    <3>1. ReferenceF(s) = Squeezed(message', Len(output') \div RATE_BYTES)
      BY <1>1, <2>2, <2>6
    <3> QED
      BY <2>5, <3>1 DEF Toward
  <2>8. Squeezing'
    BY <1>1, <1>9, <2>2, <2>3, <2>7 DEF Squeezing
  <2>9. ShakeTypeOK'
    BY <1>0, <1>1, <1>8, <1>10, RoundsRange DEF ShakeTypeOK
  <2> QED
    BY <1>0, <1>1, <2>8, <2>9 DEF SpongeInv
<1>11. CASE len # RATE_BYTES
  <2>1. len = left /\ len \in 1..RATE_BYTES - 1
    BY <1>2, <1>3, <1>6, <1>11
  <2>2. Len(output') = output_len
    BY <1>2, <1>8, <2>1 DEF left, c
  <2>3. Len(output') \div RATE_BYTES = j
    <3>1. Len(output') = RATE_BYTES * j + len /\ len \in 0..RATE_BYTES - 1
      BY <1>4, <1>8, <2>1
    <3> QED
      BY <1>2, <3>1, DivideBy
  <2>4. rounds' = ROUNDS /\ state' = state
    BY <1>1, <1>11
  <2>5. Toward(Squeezed(message, Len(output) \div RATE_BYTES))'
    <3>1. state' = Squeezed(message', Len(output') \div RATE_BYTES)
      BY <1>1, <1>5, <2>3
    <3> QED
      BY <2>4, <3>1 DEF Toward
  <2>6. Squeezing'
    BY <1>1, <1>2, <1>9, <2>2, <2>5 DEF Squeezing
  <2>7. ShakeTypeOK'
    BY <1>0, <1>1, <1>8, <2>4, RoundsRange DEF ShakeTypeOK
  <2> QED
    BY <1>0, <1>1, <2>6, <2>7 DEF SpongeInv
<1> QED
  BY <1>10, <1>11

\* and so after every step.
LEMMA SpongeNext == SpongeInv /\ [ShakeNext]_shake_vars => SpongeInv'
<1> SUFFICES ASSUME SpongeInv, [ShakeNext]_shake_vars PROVE SpongeInv'
  OBVIOUS
<1> DEFINE Same == /\ message' = message /\ output_len' = output_len /\ at' = at
                   /\ state' = state /\ rounds' = rounds /\ output' = output
           Returns == phase' = "returned" /\ phase = "squeeze" /\ Len(output) = output_len
<1>1. ASSUME Same, phase' = phase \/ Returns
      PROVE  SpongeInv'
  <2>1. ShakeTypeOK'
    BY <1>1 DEF SpongeInv, ShakeTypeOK
  <2>2. Absorbing' <=> Absorbing
    BY <1>1 DEF Absorbing, Toward
  <2>3. Squeezing' <=> Squeezing
    BY <1>1 DEF Squeezing, Toward, OutputRead
  <2> QED
    BY <1>1, <2>1, <2>2, <2>3 DEF SpongeInv
<1>2. CASE Return
  BY <1>1, <1>2 DEF Return
<1>3. CASE UNCHANGED shake_vars
  <2>1. Same /\ phase' = phase
    BY <1>3 DEF shake_vars
  <2> QED
    BY <1>1, <2>1
<1> QED
  BY <1>2, <1>3, AbsorbBlockStep, AbsorbRemainderStep, RoundStep, SqueezeStep DEF ShakeNext

\* The invariant of shake256.
LEMMA Sponge == ShakeSpec => []SpongeInv
  BY SpongeInit, SpongeNext, PTL DEF ShakeSpec

\* The round the circuits put into their equations is the round with which honest
\* provers compute their checkpoints, for every lane width and every message.
THEOREM Shake256CircuitRoundAgrees == ShakeSpec => CircuitRoundAgrees
<1> DEFINE A == rounds < ROUNDS => state' = keccak_round_expr(state, RC[rounds])
<1>1. SpongeInv /\ [ShakeNext]_shake_vars => [A]_shake_vars
  <2> SUFFICES ASSUME SpongeInv, ShakeNext, rounds < ROUNDS
               PROVE  state' = keccak_round_expr(state, RC[rounds])
    OBVIOUS
  <2>1. ShakeTypeOK /\ rounds # ROUNDS
    BY RoundsRange DEF SpongeInv, ShakeTypeOK
  <2>2. Round
    BY <2>1 DEF ShakeNext, AbsorbBlock, AbsorbRemainder, Squeeze, Return
  <2> QED
    BY <2>1, <2>2, OneRound DEF Round, ShakeTypeOK
<1> HIDE DEF A
<1>2. ShakeSpec => [][A]_shake_vars
  BY <1>1, Sponge, PTL DEF ShakeSpec
<1> QED
  BY <1>2 DEF CircuitRoundAgrees, A

\* shake256 is the SHAKE256 of FIPS 202 for messages and outputs of every length,
\* every block size, lane width and number of rounds.
THEOREM Shake256ReturnsShake256 == ShakeSpec => []ReturnsShake256
<1>1. SpongeInv => ReturnsShake256
  <2> SUFFICES ASSUME SpongeInv, phase = "returned"
               PROVE  output = ReferenceShake256(message, output_len)
    BY DEF ReturnsShake256
  <2>1. /\ ShakeTypeOK /\ Squeezing /\ Len(output) = output_len
    BY DEF SpongeInv
  <2>2. message \in Seq(0..255) /\ output_len \in Nat /\ RATE_BYTES \in Nat \ {0}
    BY <2>1, RateValues DEF ShakeTypeOK
  <2> DEFINE n == output_len \div RATE_BYTES
             states == ReferenceSqueezing(message)[n]
             byte(i) == StateByte(states[((i - 1) \div RATE_BYTES) + 1], (i - 1) % RATE_BYTES)
  <2>3. n \in Nat
    BY <2>2, Divided
  <2>4. ASSUME NEW i \in 1..output_len
        PROVE  (i - 1) \div RATE_BYTES \in 0..n
    <3> DEFINE d == i - 1
    <3>1. d \in Nat /\ d < output_len
      BY <2>2
    <3> HIDE DEF d
    <3>2. /\ d \div RATE_BYTES \in Nat /\ d % RATE_BYTES \in 0..RATE_BYTES - 1
          /\ d = RATE_BYTES * (d \div RATE_BYTES) + (d % RATE_BYTES)
          /\ output_len % RATE_BYTES \in 0..RATE_BYTES - 1
          /\ output_len = RATE_BYTES * n + (output_len % RATE_BYTES)
      BY <2>2, <3>1, Divided
    <3>3. d \div RATE_BYTES <= n
      <4> DEFINE a == d \div RATE_BYTES
                 u == d % RATE_BYTES
                 v == output_len % RATE_BYTES
      <4> HIDE DEF a, u, v, n
      <4>1. /\ a \in Nat /\ n \in Nat /\ u \in 0..RATE_BYTES - 1 /\ v \in 0..RATE_BYTES - 1
            /\ d = RATE_BYTES * a + u /\ output_len = RATE_BYTES * n + v
        BY <2>3, <3>2 DEF a, u, v
      <4>2. ASSUME a > n
            PROVE  FALSE
        <5>1. RATE_BYTES * a >= RATE_BYTES * (n + 1)
          BY <2>2, <4>1, <4>2
        <5>2. RATE_BYTES * (n + 1) = RATE_BYTES * n + RATE_BYTES
          BY <2>2, <4>1
        <5> DEFINE f == RATE_BYTES * a
                   g == RATE_BYTES * n
        <5>3. f \in Nat /\ g \in Nat /\ f >= g + RATE_BYTES /\ d = f + u /\ output_len = g + v
          BY <2>2, <4>1, <5>1, <5>2
        <5> HIDE DEF f, g
        <5> QED
          BY <2>2, <3>1, <4>1, <5>3
      <4> QED
        BY <4>1, <4>2 DEF a
    <3> QED
      BY <2>3, <3>2, <3>3 DEF d
  <2>5. ASSUME NEW i \in 1..output_len
        PROVE  output[i] = byte(i)
    <3>1. PICK k \in 0..n : k = (i - 1) \div RATE_BYTES
      BY <2>4
    <3>2. states[k + 1] = Squeezed(message, k)
      BY <2>2, <2>3, SqueezedOf
    <3>3. OutputRead(i)
      BY <2>1 DEF Squeezing
    <3> QED
      BY <3>1, <3>2, <3>3 DEF OutputRead
  <2>6. ReferenceShake256(message, output_len) = [i \in 1..output_len |-> byte(i)]
    BY DEF ReferenceShake256
  <2>7. output = [i \in 1..output_len |-> output[i]]
    <3>1. output \in Seq(OutputBytes)
      BY <2>1 DEF ShakeTypeOK
    <3> QED
      BY <2>1, <3>1
  <2> HIDE DEF byte
  <2> QED
    BY <2>5, <2>6, <2>7
<1> QED
  BY <1>1, Sponge, PTL

\* The sponge never leaves its state and every call keeps its shape.
THEOREM Shake256TypeOK == ShakeSpec => []ShakeTypeOK
<1>1. SpongeInv => ShakeTypeOK
  BY DEF SpongeInv
<1> QED
  BY <1>1, Sponge, PTL
=============================================================================
