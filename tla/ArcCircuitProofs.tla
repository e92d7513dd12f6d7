---------------------------- MODULE ArcCircuitProofs ----------------------------
(***************************************************************************)
(* The circuits of src/circuit.rs for every size, circuit, tape and MAYO    *)
(* map: build() accepts exactly the tapes that witness() writes for secrets *)
(* in the relation.  The way there: what numbers, bytes, elements and       *)
(* states are in bits; what the range check, a group of rounds and the      *)
(* output of a hash assert of a tape; the honest tape part by part; and the *)
(* invariant of build(), stage by stage.                                    *)
(***************************************************************************)
EXTENDS ArcCircuit, Shake256Proofs, FiniteSetTheorems

-----------------------------------------------------------------------------
(* Powers of two, and the numbers that bits spell.                         *)

\* Powers of two double,
LEMMA PowerSteps ==
  /\ Power \in [Nat -> Nat \ {0}]
  /\ Power[0] = 1
  /\ \A n \in Nat : Power[n + 1] = 2 * Power[n]
<1> DEFINE S == Nat \ {0}
           f == [p \in Nat \X S |-> 2 * p[2]]
           Body(g, i) == IF i = 0 THEN 1 ELSE 2 * g[i - 1]
<1>1. Starts(S, 1, f)
  BY DEF Starts
<1>2. PICK g : Iteration(g, S, 1, f)
  <2> HIDE DEF f, S
  <2> QED
    BY <1>1, IterationExists, Zenon
<1>3. g \in [Nat -> S] /\ g[0] = 1
  BY <1>2 DEF Iteration
<1>4. ASSUME NEW n \in Nat
      PROVE  g[n + 1] = 2 * g[n]
  <2>1. g[n + 1] = f[<<n, g[n]>>] /\ <<n, g[n]>> \in Nat \X S
    BY <1>2, <1>3 DEF Iteration
  <2> QED
    BY <2>1
<1> HIDE DEF f
<1>5. g = [i \in Nat |-> Body(g, i)]
  <2>1. ASSUME NEW i \in Nat
        PROVE  g[i] = Body(g, i)
    <3>1. CASE i = 0
      BY <1>3, <3>1
    <3>2. CASE i # 0
      <4>1. i - 1 \in Nat /\ (i - 1) + 1 = i
        BY <3>2
      <4>2. g[i] = 2 * g[i - 1]
        BY <1>4, <4>1, Zenon
      <4> QED
        BY <3>2, <4>2
    <3> QED
      BY <3>1, <3>2
  <2> HIDE DEF Body
  <2> QED
    BY <1>3, <2>1
<1>6. Power = [i \in Nat |-> Body(Power, i)]
  <2>1. Power = CHOOSE h : h = [i \in Nat |-> Body(h, i)]
    BY DEF Power
  <2> HIDE DEF Body
  <2> QED
    BY <1>5, <2>1
<1>7. Power[0] = 1
  BY <1>6
<1>8. ASSUME NEW n \in Nat
      PROVE  Power[n + 1] = 2 * Power[n]
  <2> DEFINE m == n + 1
  <2>1. m \in Nat /\ m # 0 /\ m - 1 = n
    OBVIOUS
  <2> HIDE DEF m
  <2>2. Power[m] = Body(Power, m)
    BY <1>6, <2>1
  <2> QED
    BY <2>1, <2>2 DEF m
<1>9. \A n \in Nat : Power[n] \in S
  <2> DEFINE E == {n \in Nat : Power[n] \in S}
  <2>1. 0 \in E
    BY <1>7
  <2>2. ASSUME NEW n \in Nat, n \in E
        PROVE  n + 1 \in E
    BY <1>8, <2>2
  <2> HIDE DEF E
  <2>3. \A n \in Nat : n \in E
    BY <2>1, <2>2, Induction
  <2> QED
    BY <2>3 DEF E
<1>10. Power \in [Nat -> S]
  BY <1>6, <1>9
<1> QED
  BY <1>7, <1>8, <1>10

\* the first of them are,
LEMMA PowerValues ==
  /\ Power[0] = 1 /\ Power[1] = 2 /\ Power[2] = 4 /\ Power[3] = 8 /\ Power[4] = 16
  /\ Power[5] = 32 /\ Power[6] = 64 /\ Power[7] = 128 /\ Power[8] = 256
<1>0. Power[0] = 1
  BY PowerSteps
<1>n. \A n, m \in Nat : m = n + 1 => Power[m] = 2 * Power[n]
  BY PowerSteps
<1>1. Power[1] = 2
  BY <1>0, <1>n
<1>2. Power[2] = 4
  BY <1>1, <1>n
<1>3. Power[3] = 8
  BY <1>2, <1>n
<1>4. Power[4] = 16
  BY <1>3, <1>n
<1>5. Power[5] = 32
  BY <1>4, <1>n
<1>6. Power[6] = 64
  BY <1>5, <1>n
<1>7. Power[7] = 128
  BY <1>6, <1>n
<1>8. Power[8] = 256
  BY <1>7, <1>n
<1> QED
  BY <1>0, <1>1, <1>2, <1>3, <1>4, <1>5, <1>6, <1>7, <1>8

\* and exponents add.
LEMMA PowerSum ==
  ASSUME NEW k \in Nat
  PROVE  \A j \in Nat : Power[k + j] = Power[k] * Power[j]
<1> DEFINE E == {j \in Nat : Power[k + j] = Power[k] * Power[j]}
<1>1. 0 \in E
  BY PowerSteps
<1>2. ASSUME NEW j \in Nat, j \in E
      PROVE  j + 1 \in E
  <2> DEFINE a == Power[k]
             b == Power[j]
             c == Power[k + j]
             m == k + j
  <2>1. a \in Nat /\ b \in Nat /\ c = a * b /\ m \in Nat
    BY <1>2, PowerSteps
  <2>2. Power[m + 1] = 2 * c /\ Power[j + 1] = 2 * b
    BY <2>1, PowerSteps
  <2>3. k + (j + 1) = m + 1
    OBVIOUS
  <2>4. Power[k + (j + 1)] = Power[m + 1]
    BY <2>3
  <2>5. 2 * (a * b) = a * (2 * b)
    <3> HIDE DEF a, b
    <3> QED
      BY <2>1
  <2> QED
    BY <2>1, <2>2, <2>4, <2>5
<1> HIDE DEF E
<1>3. \A j \in Nat : j \in E
  BY <1>1, <1>2, Induction
<1> QED
  BY <1>3 DEF E

\* What a bit adds to a number.
Adds(bits, k) == IF bits[k] THEN Power[k - 1] ELSE 0

\* It is a natural number.
LEMMA AddsNat ==
  ASSUME NEW bits, NEW k \in Nat \ {0}
  PROVE  Adds(bits, k) \in Nat
  BY PowerSteps DEF Adds

\* The number of the first bits grows bit by bit.
LEMMA SumsSteps ==
  ASSUME NEW bits
  PROVE  /\ Sums(bits) \in [Nat -> Nat]
         /\ Sums(bits)[0] = 0
         /\ \A n \in Nat : Sums(bits)[n + 1] = Sums(bits)[n] + Adds(bits, n + 1)
<1> DEFINE f == [p \in Nat \X Nat |-> p[2] + Adds(bits, p[1] + 1)]
           Body(g, i) == IF i = 0 THEN 0
                         ELSE g[i - 1] + (IF bits[i] THEN Power[i - 1] ELSE 0)
           R == Sums(bits)
<1>1. Starts(Nat, 0, f)
  <2>1. \A p \in Nat \X Nat : p[2] + Adds(bits, p[1] + 1) \in Nat
    BY AddsNat
  <2> QED
    BY <2>1 DEF Starts
<1>2. PICK g : Iteration(g, Nat, 0, f)
  <2> HIDE DEF f
  <2> QED
    BY <1>1, IterationExists, Zenon
<1>3. g \in [Nat -> Nat] /\ g[0] = 0
  BY <1>2 DEF Iteration
<1>4. ASSUME NEW n \in Nat
      PROVE  g[n + 1] = g[n] + Adds(bits, n + 1)
  <2>1. g[n + 1] = f[<<n, g[n]>>] /\ <<n, g[n]>> \in Nat \X Nat
    BY <1>2, <1>3 DEF Iteration
  <2> QED
    BY <2>1
<1>5. ASSUME NEW h, NEW i \in Nat
      PROVE  Body(h, i) = IF i = 0 THEN 0 ELSE h[i - 1] + Adds(bits, i)
  BY DEF Adds
<1> HIDE DEF f, Body
<1>6. g = [i \in Nat |-> Body(g, i)]
  <2>1. ASSUME NEW i \in Nat
        PROVE  g[i] = Body(g, i)
    <3>1. CASE i = 0
      BY <1>3, <1>5, <3>1
    <3>2. CASE i # 0
      <4>1. i - 1 \in Nat /\ (i - 1) + 1 = i
        BY <3>2
      <4>2. g[i] = g[i - 1] + Adds(bits, i)
        BY <1>4, <4>1, Zenon
      <4> QED
        BY <1>5, <3>2, <4>2
    <3> QED
      BY <3>1, <3>2
  <2> QED
    BY <1>3, <2>1
<1>7. R = [i \in Nat |-> Body(R, i)]
  <2>1. R = CHOOSE h : h = [i \in Nat |-> Body(h, i)]
    BY DEF Sums, Body
  <2> HIDE DEF R
  <2> QED
    BY <1>6, <2>1
<1> HIDE DEF R
<1>8. R[0] = 0
  BY <1>5, <1>7
<1>9. ASSUME NEW n \in Nat
      PROVE  R[n + 1] = R[n] + Adds(bits, n + 1)
  <2> DEFINE m == n + 1
  <2>1. m \in Nat /\ m # 0 /\ m - 1 = n
    OBVIOUS
  <2> HIDE DEF m
  <2>2. R[m] = Body(R, m)
    BY <1>7, <2>1
  <2>3. Body(R, m) = R[n] + Adds(bits, m)
    BY <1>5, <2>1
  <2> QED
    BY <2>2, <2>3 DEF m
<1>10. \A n \in Nat : R[n] \in Nat
  <2> DEFINE E == {n \in Nat : R[n] \in Nat}
  <2>1. 0 \in E
    BY <1>8
  <2>2. ASSUME NEW n \in Nat, n \in E
        PROVE  n + 1 \in E
    BY <1>9, <2>2, AddsNat
  <2> HIDE DEF E
  <2>3. \A n \in Nat : n \in E
    BY <2>1, <2>2, Induction
  <2> QED
    BY <2>3 DEF E
<1>11. R \in [Nat -> Nat]
  BY <1>7, <1>10
<1> QED
  BY <1>8, <1>9, <1>11 DEF R

\* Bit k of a number.
NumberBit(n, k) == (n \div Power[k]) % 2 = 1

\* Quotient and remainder are the only ones.
LEMMA Division ==
  ASSUME NEW n \in Nat, NEW r \in Nat \ {0}, NEW q \in Nat, NEW c \in 0..r - 1, n = r * q + c
  PROVE  n \div r = q /\ n % r = c
  BY DivideBy

\* The first k + 1 bits of a number are its first k and the next.
LEMMA HighBit ==
  ASSUME NEW n \in Nat, NEW k \in Nat
  PROVE  n % Power[k + 1]
           = (n % Power[k]) + (IF NumberBit(n, k) THEN Power[k] ELSE 0)
<1> DEFINE P == Power[k]
           D == Power[k + 1]
<1>1. P \in Nat \ {0} /\ D \in Nat \ {0} /\ D = 2 * P
  BY PowerSteps
<1> DEFINE q == n \div P
           r == n % P
           h == q \div 2
<1> HIDE DEF P, D
<1>2. n = P * q + r /\ q \in Nat /\ r \in 0..P - 1
  BY <1>1
<1>b. NumberBit(n, k) <=> q % 2 = 1
  BY DEF NumberBit, P
<1>r. r = n % Power[k] /\ P = Power[k] /\ D = Power[k + 1]
  BY DEF P, D
<1> HIDE DEF q, r
<1>3. h \in Nat /\ (q = 2 * h \/ q = 2 * h + 1)
  BY <1>2
<1>4. CASE q = 2 * h
  <2>1. q % 2 = 0
    BY <1>3, <1>4, <1>2
  <2> HIDE DEF h
  <2>2. P * q = D * h
    BY <1>1, <1>3, <1>4
  <2>r. r \in 0..D - 1
    BY <1>1, <1>2
  <2>3. n = D * h + r
    BY <1>2, <2>2
  <2>4. n % D = r
    BY <1>1, <1>3, <2>r, <2>3, Division
  <2> QED
    BY <1>b, <1>r, <2>1, <2>4
<1>5. CASE q = 2 * h + 1
  <2>1. q % 2 = 1
    BY <1>3, <1>5, <1>2
  <2> HIDE DEF h
  <2>2. P * q = D * h + P
    BY <1>1, <1>3, <1>5
  <2>r. r + P \in 0..D - 1
    BY <1>1, <1>2
  <2>h. D * h \in Nat
    BY <1>1, <1>3
  <2>3. n = D * h + (r + P)
    <3> DEFINE a == P * q
               b == D * h
    <3>1. a = b + P /\ n = a + r /\ b \in Nat
      BY <1>2, <2>2, <2>h
    <3> HIDE DEF a, b
    <3>2. n = b + (r + P)
      BY <1>1, <1>2, <3>1
    <3> QED
      BY <3>2 DEF b
  <2>4. n % D = r + P
    BY <1>1, <1>3, <2>r, <2>3, Division
  <2> QED
    BY <1>b, <1>r, <2>1, <2>4
<1> QED
  BY <1>3, <1>4, <1>5

\* The first w bits are those of a number.
Spell(bits, n, w) == \A k \in 0..w - 1 : bits[k + 1] <=> NumberBit(n, k)

\* Bits that a number has spell it.
LEMMA SumsOfNumber ==
  ASSUME NEW bits, NEW n \in Nat, NEW w \in Nat, Spell(bits, n, w)
  PROVE  \A k \in Nat : k <= w => Sums(bits)[k] = n % Power[k]
<1> DEFINE E == {k \in Nat : k <= w => Sums(bits)[k] = n % Power[k]}
<1>1. 0 \in E
  <2>1. n % 1 = 0
    OBVIOUS
  <2> QED
    BY <2>1, SumsSteps, PowerSteps
<1>2. ASSUME NEW k \in Nat, k \in E
      PROVE  k + 1 \in E
  <2> SUFFICES ASSUME k + 1 <= w
               PROVE  Sums(bits)[k + 1] = n % Power[k + 1]
    OBVIOUS
  <2>1. Sums(bits)[k] = n % Power[k]
    BY <1>2
  <2>2. bits[k + 1] <=> NumberBit(n, k)
    BY DEF Spell
  <2>3. Sums(bits)[k + 1] = Sums(bits)[k] + Adds(bits, k + 1)
    BY SumsSteps
  <2>4. Adds(bits, k + 1) = IF NumberBit(n, k) THEN Power[k] ELSE 0
    BY <2>2 DEF Adds
  <2>5. n % Power[k + 1] = (n % Power[k]) + (IF NumberBit(n, k) THEN Power[k] ELSE 0)
    BY HighBit
  <2> QED
    BY <2>1, <2>3, <2>4, <2>5
<1> HIDE DEF E
<1>3. \A k \in Nat : k \in E
  BY <1>1, <1>2, Induction
<1> QED
  BY <1>3 DEF E

\* A string that spells a number of its width has that number,
LEMMA NumberOfSpelled ==
  ASSUME NEW bits \in Seq(BOOLEAN), NEW n \in Nat, n < Power[Len(bits)],
         Spell(bits, n, Len(bits))
  PROVE  Number(bits) = n
<1> DEFINE w == Len(bits)
           P == Power[w]
<1>1. w \in Nat /\ P \in Nat \ {0}
  BY PowerSteps
<1>2. Sums(bits)[w] = n % P
  BY <1>1, SumsOfNumber
<1>3. n < P
  OBVIOUS
<1>4. n % P = n
  <2> HIDE DEF P
  <2> QED
    BY <1>1, <1>3
<1> QED
  BY <1>2, <1>4 DEF Number

\* A higher power leaves the bits of a number alone,
LEMMA LowerBit ==
  ASSUME NEW n \in Nat, NEW k \in Nat, NEW j \in Nat, j < k
  PROVE  NumberBit(n + Power[k], j) <=> NumberBit(n, j)
<1> DEFINE i == k - j - 1
           P == Power[j]
           H == Power[i]
           q == n \div P
           r == n % P
           K == Power[k]
<1>1. i \in Nat /\ k = j + (i + 1)
  OBVIOUS
<1>2. P \in Nat \ {0} /\ H \in Nat \ {0} /\ Power[i + 1] = 2 * H
  BY <1>1, PowerSteps
<1>3. K = P * (2 * H)
  <2>1. \A m \in Nat : Power[j + m] = Power[j] * Power[m]
    BY PowerSum
  <2>2. Power[j + (i + 1)] = Power[j] * Power[i + 1]
    BY <1>1, <2>1
  <2> QED
    BY <1>1, <1>2, <2>2
<1>4. P = Power[j] /\ K = Power[k] /\ q = n \div Power[j]
  OBVIOUS
<1> HIDE DEF P, H, i, K
<1>5. n = P * q + r /\ q \in Nat /\ r \in 0..P - 1
  BY <1>2
<1> HIDE DEF q, r
<1> DEFINE m == q + 2 * H
<1>6. m \in Nat /\ n + K \in Nat
  BY <1>2, <1>3, <1>5
<1>7. n + K = P * m + r
  BY <1>2, <1>3, <1>5
<1>8. m % 2 = q % 2
  BY <1>2, <1>5
<1> HIDE DEF m
<1>9. (n + K) \div P = m
  <2> DEFINE N == n + K
  <2>1. N \in Nat /\ N = P * m + r
    BY <1>6, <1>7
  <2> HIDE DEF N
  <2>2. N \div P = m
    BY <1>2, <1>5, <1>6, <2>1, Division
  <2> QED
    BY <2>2 DEF N
<1> QED
  BY <1>4, <1>8, <1>9 DEF NumberBit

\* and is a bit of its own.
LEMMA OwnBit ==
  ASSUME NEW k \in Nat, NEW n \in Nat, n < Power[k]
  PROVE  /\ NumberBit(n + Power[k], k)
         /\ ~NumberBit(n, k)
<1> DEFINE P == Power[k]
           N == n + P
<1>1. P \in Nat \ {0} /\ n \in 0..P - 1
  BY PowerSteps
<1>2. P = Power[k] /\ N = n + Power[k]
  OBVIOUS
<1> HIDE DEF P
<1>3. N \in Nat /\ N = P * 1 + n /\ n = P * 0 + n
  BY <1>1
<1> HIDE DEF N
<1>4. N \div P = 1 /\ n \div P = 0
  BY <1>1, <1>3, Division
<1> QED
  BY <1>2, <1>4 DEF NumberBit

\* The number that bits spell has them.
LEMMA BitsOfSums ==
  ASSUME NEW bits
  PROVE  \A k \in Nat : Sums(bits)[k] < Power[k] /\ Spell(bits, Sums(bits)[k], k)
<1> DEFINE E == {k \in Nat : Sums(bits)[k] < Power[k] /\ Spell(bits, Sums(bits)[k], k)}
<1>1. 0 \in E
  BY SumsSteps, PowerSteps DEF Spell
<1>2. ASSUME NEW k \in Nat, k \in E
      PROVE  k + 1 \in E
  <2> DEFINE n == Sums(bits)[k]
             P == Power[k]
             m == Sums(bits)[k + 1]
  <2>1. n \in Nat /\ P \in Nat \ {0} /\ n < P /\ Spell(bits, n, k)
    BY <1>2, SumsSteps, PowerSteps
  <2>2. Power[k + 1] = 2 * P /\ m = n + Adds(bits, k + 1)
    BY PowerSteps, SumsSteps
  <2>3. Adds(bits, k + 1) = IF bits[k + 1] THEN P ELSE 0
    BY DEF Adds
  <2>4. CASE bits[k + 1]
    <3>1. m = n + P
      BY <2>2, <2>3, <2>4
    <3>2. m < Power[k + 1]
      BY <2>1, <2>2, <3>1
    <3>3. NumberBit(m, k)
      BY <2>1, <3>1, OwnBit
    <3>4. ASSUME NEW j \in 0..k - 1
          PROVE  bits[j + 1] <=> NumberBit(m, j)
      <4>1. bits[j + 1] <=> NumberBit(n, j)
        BY <2>1 DEF Spell
      <4>2. NumberBit(n + P, j) <=> NumberBit(n, j)
        BY <2>1, LowerBit
      <4> QED
        BY <3>1, <4>1, <4>2
    <3> HIDE DEF m
    <3>5. Spell(bits, m, k + 1)
      BY <2>4, <3>3, <3>4 DEF Spell
    <3> QED
      BY <3>2, <3>5 DEF m
  <2>5. CASE ~bits[k + 1]
    <3>1. m = n
      BY <2>1, <2>2, <2>3, <2>5
    <3>2. m < Power[k + 1]
      BY <2>1, <2>2, <3>1
    <3>3. ~NumberBit(m, k)
      BY <2>1, <3>1, OwnBit
    <3>4. ASSUME NEW j \in 0..k - 1
          PROVE  bits[j + 1] <=> NumberBit(m, j)
      BY <2>1, <3>1 DEF Spell
    <3> HIDE DEF m
    <3>5. Spell(bits, m, k + 1)
      BY <2>5, <3>3, <3>4 DEF Spell
    <3> QED
      BY <3>2, <3>5 DEF m
  <2> QED
    BY <2>4, <2>5
<1> HIDE DEF E
<1>3. \A k \in Nat : k \in E
  BY <1>1, <1>2, Induction
<1> QED
  BY <1>3 DEF E

\* and every string spells its number.
LEMMA NumberSpells ==
  ASSUME NEW bits \in Seq(BOOLEAN)
  PROVE  /\ Number(bits) \in Nat
         /\ Number(bits) < Power[Len(bits)]
         /\ Spell(bits, Number(bits), Len(bits))
  BY BitsOfSums, SumsSteps DEF Number

\* Numbers with the same bits are equal.
LEMMA SameSpelling ==
  ASSUME NEW w \in Nat, NEW n \in Nat, NEW m \in Nat, n < Power[w], m < Power[w],
         NEW bits, Spell(bits, n, w), Spell(bits, m, w)
  PROVE  n = m
<1> DEFINE P == Power[w]
<1>1. P \in Nat \ {0} /\ n < P /\ m < P
  BY PowerSteps
<1>2. Sums(bits)[w] = n % P /\ Sums(bits)[w] = m % P
  BY SumsOfNumber
<1> HIDE DEF P
<1>3. n % P = n /\ m % P = m
  BY <1>1
<1> QED
  BY <1>2, <1>3

-----------------------------------------------------------------------------
(* Strings of bits: BitString of bytes, elements and nonces.               *)

\* Where bit k of element i is, in a string of elements of width w.
At(w, i, k) == (w * (i - 1)) + k + 1

\* The element and the bit of a place are found back from it,
LEMMA BitOfPlace ==
  ASSUME NEW w \in Nat \ {0}, NEW i \in Nat \ {0}, NEW k \in 0..w - 1
  PROVE  /\ At(w, i, k) \in Nat
         /\ ((At(w, i, k) - 1) \div w) + 1 = i
         /\ (At(w, i, k) - 1) % w = k
<1> DEFINE j == i - 1
           p == w * j
<1>1. j \in Nat /\ p \in Nat /\ i = j + 1 /\ At(w, i, k) - 1 = p + k /\ At(w, i, k) \in Nat
  BY DEF At
<1>2. (w * j + k) \div w = j /\ (w * j + k) % w = k
  <2> HIDE DEF j
  <2> QED
    BY <1>1, DivideBy
<1> QED
  BY <1>1, <1>2 DEF p

\* The place of a bit of an element is in the string,
LEMMA PlaceOfBit ==
  ASSUME NEW w \in Nat \ {0}, NEW n \in Nat, NEW i \in 1..n, NEW k \in 0..w - 1
  PROVE  At(w, i, k) \in 1..w * n
<1> DEFINE j == i - 1
           p == w * j
<1>1. j \in Nat /\ p \in Nat /\ i = j + 1 /\ At(w, i, k) - 1 = p + k
  BY DEF At
<1>3. p + w <= w * n
  <2> DEFINE m == n - i
             q == w * m
  <2>1. m \in Nat /\ q \in Nat /\ n = j + m + 1
    OBVIOUS
  <2>2. w * n = p + q + w
    <3> HIDE DEF j, m
    <3> QED
      BY <1>1, <2>1
  <2> HIDE DEF p, q
  <2> QED
    BY <1>1, <2>1, <2>2
<1>4. At(w, i, k) = p + k + 1
  BY DEF At
<1> HIDE DEF p
<1>5. At(w, i, k) \in 1..w * n
  <2> DEFINE N == w * n
  <2>1. N \in Nat /\ p + w <= N
    BY <1>3
  <2> HIDE DEF N
  <2>2. p + k + 1 \in 1..N
    BY <1>1, <2>1
  <2> QED
    BY <1>4, <2>2 DEF N
<1> QED
  BY <1>5

\* and every place in the string is that of one bit of one element.
LEMMA BitAtPlace ==
  ASSUME NEW w \in Nat \ {0}, NEW n \in Nat, NEW b \in 1..w * n
  PROVE  /\ ((b - 1) \div w) + 1 \in 1..n
         /\ (b - 1) % w \in 0..w - 1
         /\ b = At(w, ((b - 1) \div w) + 1, (b - 1) % w)
<1> DEFINE c == b - 1
           q == c \div w
           r == c % w
<1>0. w * n \in Nat
  OBVIOUS
<1>1. c \in Nat /\ c < w * n
  BY <1>0
<1> HIDE DEF c
<1>2. q \in Nat /\ r \in 0..w - 1 /\ c = w * q + r
  BY <1>1, Divided
<1> HIDE DEF q, r
<1>3. q < n
  <2> SUFFICES ASSUME q >= n
               PROVE  FALSE
    BY <1>2
  <2> DEFINE d == q - n
             p == w * n
             e == w * d
  <2>1. d \in Nat /\ p \in Nat /\ e \in Nat /\ q = n + d
    BY <1>2
  <2> HIDE DEF d
  <2>2. w * q = p + e
    BY <2>1
  <2> HIDE DEF p, e
  <2>3. c = p + e + r /\ c < p
    BY <1>1, <1>2, <2>2 DEF p
  <2> QED
    BY <1>2, <2>1, <2>3
<1>4. At(w, q + 1, r) = w * q + r + 1
  <2>1. (q + 1) - 1 = q
    BY <1>2
  <2> QED
    BY <2>1, Zenon DEF At
<1>5. b = c + 1
  BY DEF c
<1>6. b = At(w, q + 1, r) /\ q + 1 \in 1..n
  <2> DEFINE p == w * q
  <2>1. p \in Nat /\ c = p + r /\ At(w, q + 1, r) = p + r + 1
    BY <1>2, <1>4
  <2> HIDE DEF p
  <2> QED
    BY <1>2, <1>3, <1>5, <2>1
<1> QED
  BY <1>2, <1>6 DEF q, r, c

\* Strings that agree at every place are equal.
LEMMA SameBits ==
  ASSUME NEW w \in Nat \ {0}, NEW n \in Nat, NEW x \in Seq(BOOLEAN), NEW y \in Seq(BOOLEAN),
         Len(x) = w * n, Len(y) = w * n,
         \A i \in 1..n : \A k \in 0..w - 1 : x[At(w, i, k)] = y[At(w, i, k)]
  PROVE  x = y
<1> DEFINE N == w * n
<1>1. N \in Nat /\ Len(x) = N /\ Len(y) = N
  OBVIOUS
<1>2. ASSUME NEW b \in 1..N
      PROVE  x[b] = y[b]
  <2>1. PICK i \in 1..n, k \in 0..w - 1 : b = At(w, i, k)
    <3>1. b \in 1..w * n
      OBVIOUS
    <3> HIDE DEF N
    <3>2. /\ ((b - 1) \div w) + 1 \in 1..n
          /\ (b - 1) % w \in 0..w - 1
          /\ b = At(w, ((b - 1) \div w) + 1, (b - 1) % w)
      BY <3>1, BitAtPlace, Zenon
    <3> QED
      BY <3>2, Zenon
  <2> QED
    BY <2>1
<1> HIDE DEF N
<1> QED
  BY <1>1, <1>2

\* The numbers of w bits.
Words(w) == 0..Power[w] - 1

\* Words are the numbers below a power of two.
LEMMA WordsNat ==
  ASSUME NEW w \in Nat
  PROVE  /\ Words(w) \subseteq Nat
         /\ \A n \in Nat : n < Power[w] => n \in Words(w)
         /\ \A n \in Words(w) : n < Power[w]
<1> DEFINE P == Power[w]
<1>1. P \in Nat
  BY PowerSteps
<1>2. Words(w) = 0..P - 1
  BY DEF Words
<1> HIDE DEF P
<1>3. Words(w) \subseteq Nat /\ (\A n \in Nat : n < P => n \in Words(w)) /\ \A n \in Words(w) : n < P
  BY <1>1, <1>2
<1> QED
  BY <1>3 DEF P

\* A bit string has the bits of its elements.
LEMMA BitStringBits ==
  ASSUME NEW w \in Nat \ {0}, NEW values \in Seq(Nat)
  PROVE  /\ BitString(values, w) \in Seq(BOOLEAN)
         /\ Len(BitString(values, w)) = w * Len(values)
         /\ \A i \in 1..Len(values) : \A k \in 0..w - 1 :
              BitString(values, w)[At(w, i, k)] <=> NumberBit(values[i], k)
<1> DEFINE L == Len(values)
           N == w * L
           F == BitString(values, w)
<1>1. L \in Nat /\ N \in Nat
  OBVIOUS
<1>2. F = [b \in 1..N |-> NumberBit(values[((b - 1) \div w) + 1], (b - 1) % w)]
  BY DEF BitString, NumberBit
<1>3. ASSUME NEW n, NEW k
      PROVE  NumberBit(n, k) \in BOOLEAN
  BY DEF NumberBit
<1>4. F \in [1..N -> BOOLEAN]
  <2> HIDE DEF N, F
  <2> QED
    BY <1>2, <1>3
<1>5. ASSUME NEW i \in 1..L, NEW k \in 0..w - 1
      PROVE  F[At(w, i, k)] <=> NumberBit(values[i], k)
  <2>1. /\ At(w, i, k) \in 1..N
        /\ ((At(w, i, k) - 1) \div w) + 1 = i
        /\ (At(w, i, k) - 1) % w = k
    <3>1. At(w, i, k) \in 1..w * L
      BY <1>1, PlaceOfBit
    <3>2. ((At(w, i, k) - 1) \div w) + 1 = i /\ (At(w, i, k) - 1) % w = k
      <4>1. i \in Nat \ {0}
        BY <1>1
      <4> QED
        BY <4>1, BitOfPlace, Zenon
    <3> QED
      BY <3>1, <3>2
  <2> HIDE DEF N, F, L
  <2>2. F[At(w, i, k)] = NumberBit(values[((At(w, i, k) - 1) \div w) + 1], (At(w, i, k) - 1) % w)
    BY <1>2, <2>1, Zenon
  <2> QED
    BY <2>1, <2>2, Zenon
<1> HIDE DEF F, N
<1>6. F \in Seq(BOOLEAN) /\ Len(F) = N
  BY <1>1, <1>4
<1> QED
  BY <1>5, <1>6 DEF F, N

\* Bits that elements have are their bit string.
LEMMA BitStringOf ==
  ASSUME NEW w \in Nat \ {0}, NEW values \in Seq(Nat), NEW bits \in Seq(BOOLEAN),
         Len(bits) = w * Len(values),
         \A i \in 1..Len(values) : \A k \in 0..w - 1 :
           bits[At(w, i, k)] <=> NumberBit(values[i], k)
  PROVE  bits = BitString(values, w)
<1> DEFINE F == BitString(values, w)
           L == Len(values)
<1>1. /\ F \in Seq(BOOLEAN) /\ Len(F) = w * L /\ L \in Nat
      /\ \A i \in 1..L : \A k \in 0..w - 1 : F[At(w, i, k)] <=> NumberBit(values[i], k)
  BY BitStringBits
<1>2. ASSUME NEW i \in 1..L, NEW k \in 0..w - 1
      PROVE  bits[At(w, i, k)] = F[At(w, i, k)]
  <2>1. At(w, i, k) \in 1..w * L
    BY <1>1, PlaceOfBit
  <2> HIDE DEF F
  <2>2. bits[At(w, i, k)] \in BOOLEAN /\ F[At(w, i, k)] \in BOOLEAN
    BY <1>1, <2>1
  <2> QED
    BY <1>1, <2>2
<1> HIDE DEF F, L
<1>3. bits = F
  BY <1>1, <1>2, SameBits DEF L
<1> QED
  BY <1>3 DEF F

\* A factor cancels.
LEMMA Cancel ==
  ASSUME NEW w \in Nat \ {0}, NEW a \in Nat, NEW b \in Nat, w * a = w * b
  PROVE  a = b
<1>1. (w * a + 0) \div w = a /\ (w * b + 0) \div w = b
  BY DivideBy
<1> QED
  BY <1>1

\* Elements are determined by their bit string,
LEMMA BitStringInjective ==
  ASSUME NEW w \in Nat \ {0}, NEW v \in Seq(Words(w)), NEW u \in Seq(Words(w)),
         BitString(v, w) = BitString(u, w)
  PROVE  v = u
<1>1. v \in Seq(Nat) /\ u \in Seq(Nat)
  BY WordsNat
<1>2. Len(v) = Len(u)
  <2>1. w * Len(v) = w * Len(u)
    BY <1>1, BitStringBits, Zenon
  <2> QED
    BY <2>1, Cancel
<1>3. ASSUME NEW i \in 1..Len(v)
      PROVE  v[i] = u[i]
  <2> DEFINE x == [k \in 1..w |-> NumberBit(v[i], k - 1)]
  <2>1. v[i] \in Words(w) /\ u[i] \in Words(w)
    BY <1>2
  <2>2. v[i] \in Nat /\ u[i] \in Nat /\ v[i] < Power[w] /\ u[i] < Power[w]
    BY <2>1, WordsNat
  <2>3. \A k \in 0..w - 1 : NumberBit(v[i], k) <=> NumberBit(u[i], k)
    <3>1. ASSUME NEW k \in 0..w - 1
          PROVE  NumberBit(v[i], k) <=> NumberBit(u[i], k)
      <4>1. BitString(v, w)[At(w, i, k)] <=> NumberBit(v[i], k)
        BY <1>1, BitStringBits
      <4>2. BitString(u, w)[At(w, i, k)] <=> NumberBit(u[i], k)
        BY <1>1, <1>2, BitStringBits
      <4> QED
        BY <4>1, <4>2
    <3> QED
      BY <3>1
  <2>4. Spell(x, v[i], w) /\ Spell(x, u[i], w)
    <3>1. ASSUME NEW k \in 0..w - 1
          PROVE  x[k + 1] <=> NumberBit(v[i], k)
      <4>1. k + 1 \in 1..w /\ (k + 1) - 1 = k
        OBVIOUS
      <4> QED
        BY <4>1
    <3> HIDE DEF x
    <3> QED
      BY <2>3, <3>1 DEF Spell
  <2> HIDE DEF x
  <2> QED
    BY <2>2, <2>4, SameSpelling
<1>4. v \in [1..Len(v) -> Nat] /\ u \in [1..Len(u) -> Nat]
  BY <1>1
<1> QED
  BY <1>2, <1>3, <1>4

\* Elements after m others have their bits after those of the others.
LEMMA AtSum ==
  ASSUME NEW w \in Nat \ {0}, NEW m \in Nat, NEW i \in Nat \ {0}, NEW k \in 0..w - 1
  PROVE  At(w, m + i, k) = (w * m) + At(w, i, k)
<1> DEFINE j == i - 1
<1>1. j \in Nat /\ (m + i) - 1 = m + j /\ i - 1 = j
  OBVIOUS
<1> HIDE DEF j
<1>2. w * (m + j) = (w * m) + (w * j)
  BY <1>1
<1> DEFINE a == w * m
           c == w * j
           d == w * (m + j)
<1>3. At(w, m + i, k) = d + k + 1 /\ At(w, i, k) = c + k + 1
  BY <1>1 DEF At
<1>4. a \in Nat /\ c \in Nat /\ d = a + c
  BY <1>1, <1>2
<1> HIDE DEF a, c, d
<1>5. At(w, m + i, k) = a + At(w, i, k)
  BY <1>3, <1>4
<1> QED
  BY <1>5 DEF a

\* Two strings of bits, one after the other.
LEMMA Joined ==
  ASSUME NEW S, NEW x \in Seq(S), NEW y \in Seq(S)
  PROVE  /\ x \o y \in Seq(S)
         /\ Len(x \o y) = Len(x) + Len(y)
         /\ \A b \in 1..Len(x) : (x \o y)[b] = x[b]
         /\ \A b \in 1..Len(y) : (x \o y)[Len(x) + b] = y[b]
<1>1. /\ x \o y \in Seq(S) /\ Len(x \o y) = Len(x) + Len(y)
      /\ \A i \in 1..Len(x) + Len(y) : (x \o y)[i] = IF i <= Len(x) THEN x[i] ELSE y[i - Len(x)]
  BY ConcatProperties
<1>2. Len(x) \in Nat /\ Len(y) \in Nat
  OBVIOUS
<1>3. ASSUME NEW b \in 1..Len(x)
      PROVE  (x \o y)[b] = x[b]
  BY <1>1, <1>2
<1>4. ASSUME NEW b \in 1..Len(y)
      PROVE  (x \o y)[Len(x) + b] = y[b]
  <2> DEFINE i == Len(x) + b
  <2>1. i \in 1..Len(x) + Len(y) /\ ~(i <= Len(x)) /\ i - Len(x) = b
    BY <1>2
  <2> HIDE DEF i
  <2>2. (x \o y)[i] = y[b]
    BY <1>1, <2>1
  <2> QED
    BY <2>2 DEF i
<1> QED
  BY <1>1, <1>3, <1>4

\* The bit string of a concatenation is that of its parts.
LEMMA BitStringConcat ==
  ASSUME NEW w \in Nat \ {0}, NEW v \in Seq(Nat), NEW u \in Seq(Nat)
  PROVE  BitString(v, w) \o BitString(u, w) = BitString(v \o u, w)
<1> DEFINE x == BitString(v, w)
           y == BitString(u, w)
           z == v \o u
           m == Len(v)
           n == Len(u)
<1>1. /\ x \in Seq(BOOLEAN) /\ Len(x) = w * m /\ m \in Nat
      /\ \A i \in 1..m : \A k \in 0..w - 1 : x[At(w, i, k)] <=> NumberBit(v[i], k)
  BY BitStringBits
<1>2. /\ y \in Seq(BOOLEAN) /\ Len(y) = w * n /\ n \in Nat
      /\ \A i \in 1..n : \A k \in 0..w - 1 : y[At(w, i, k)] <=> NumberBit(u[i], k)
  BY BitStringBits
<1>3. /\ z \in Seq(Nat) /\ Len(z) = m + n
      /\ \A b \in 1..m : z[b] = v[b]
      /\ \A b \in 1..n : z[m + b] = u[b]
  BY Joined
<1> HIDE DEF x, y, z, m, n
<1>4. /\ x \o y \in Seq(BOOLEAN)
      /\ Len(x \o y) = Len(x) + Len(y)
      /\ \A b \in 1..Len(x) : (x \o y)[b] = x[b]
      /\ \A b \in 1..Len(y) : (x \o y)[Len(x) + b] = y[b]
  <2>1. x \in Seq(BOOLEAN) /\ y \in Seq(BOOLEAN)
    BY <1>1, <1>2
  <2> QED
    BY <2>1, Joined
<1>5. w * m + w * n = w * (m + n)
  BY <1>1, <1>2
<1>6. Len(x \o y) = w * Len(z)
  BY <1>1, <1>2, <1>3, <1>4, <1>5
<1>7. ASSUME NEW i \in 1..Len(z), NEW k \in 0..w - 1
      PROVE  (x \o y)[At(w, i, k)] <=> NumberBit(z[i], k)
  <2>1. CASE i <= m
    <3>1. i \in 1..m
      BY <1>1, <1>3, <2>1
    <3>2. At(w, i, k) \in 1..w * m
      BY <1>1, <3>1, PlaceOfBit
    <3>3. (x \o y)[At(w, i, k)] = x[At(w, i, k)]
      BY <1>1, <1>4, <3>2
    <3>4. z[i] = v[i] /\ (x[At(w, i, k)] <=> NumberBit(v[i], k))
      BY <1>1, <1>3, <3>1
    <3> QED
      BY <3>3, <3>4
  <2>2. CASE ~(i <= m)
    <3> DEFINE j == i - m
    <3>1. j \in 1..n /\ i = m + j /\ j \in Nat \ {0}
      BY <1>1, <1>2, <1>3, <2>2
    <3> HIDE DEF j
    <3>2. At(w, i, k) = w * m + At(w, j, k)
      BY <1>1, <3>1, AtSum
    <3>3. At(w, j, k) \in 1..w * n
      BY <1>2, <3>1, PlaceOfBit
    <3>4. (x \o y)[At(w, i, k)] = y[At(w, j, k)]
      BY <1>1, <1>2, <1>4, <3>2, <3>3
    <3>5. z[i] = u[j] /\ (y[At(w, j, k)] <=> NumberBit(u[j], k))
      BY <1>2, <1>3, <3>1
    <3> QED
      BY <3>4, <3>5
  <2> QED
    BY <2>1, <2>2
<1>8. x \o y = BitString(z, w)
  BY <1>3, <1>4, <1>6, <1>7, BitStringOf
<1> QED
  BY <1>8 DEF x, y, z

\* A stretch of a string.
LEMMA Stretch ==
  ASSUME NEW S, NEW t \in Seq(S), NEW a \in Nat, NEW n \in Nat, a + n <= Len(t)
  PROVE  /\ SubSeq(t, a + 1, a + n) \in Seq(S)
         /\ Len(SubSeq(t, a + 1, a + n)) = n
         /\ \A b \in 1..n : SubSeq(t, a + 1, a + n)[b] = t[a + b]
<1>1. \A i \in a + 1..a + n : t[i] \in S
  BY ElementOfSeq
<1>2. /\ SubSeq(t, a + 1, a + n) \in Seq(S)
      /\ Len(SubSeq(t, a + 1, a + n)) = IF a + 1 <= a + n THEN (a + n) - (a + 1) + 1 ELSE 0
      /\ \A i \in 1..(a + n) - (a + 1) + 1 : SubSeq(t, a + 1, a + n)[i] = t[(a + 1) + i - 1]
  <2> DEFINE p == a + 1
             q == a + n
  <2>1. p \in Int /\ q \in Int
    OBVIOUS
  <2> HIDE DEF p, q
  <2>2. \A i \in p..q : t[i] \in S
    BY <1>1 DEF p, q
  <2>3. /\ SubSeq(t, p, q) \in Seq(S)
        /\ Len(SubSeq(t, p, q)) = IF p <= q THEN q - p + 1 ELSE 0
        /\ \A i \in 1..q - p + 1 : SubSeq(t, p, q)[i] = t[p + i - 1]
    BY <2>1, <2>2, SubSeqProperties, SMTT(30)
  <2> QED
    BY <2>3 DEF p, q
<1>3. (IF a + 1 <= a + n THEN (a + n) - (a + 1) + 1 ELSE 0) = n /\ (a + n) - (a + 1) + 1 = n
  OBVIOUS
<1>4. ASSUME NEW b \in 1..n
      PROVE  SubSeq(t, a + 1, a + n)[b] = t[a + b]
  <2>1. (a + 1) + b - 1 = a + b
    OBVIOUS
  <2> QED
    BY <1>2, <1>3, <2>1
<1> QED
  BY <1>2, <1>3, <1>4

\* A stretch of the tape is the bits of its value.
LEMMA ValueBits ==
  ASSUME tape \in Seq(BOOLEAN), NEW a \in Nat, NEW w \in Nat, a + w <= Len(tape)
  PROVE  /\ Value(a, w) \in Words(w)
         /\ Value(a, w) \in Nat
         /\ \A k \in 0..w - 1 : tape[a + (k + 1)] <=> NumberBit(Value(a, w), k)
<1> DEFINE bits == SubSeq(tape, a + 1, a + w)
<1>1. bits \in Seq(BOOLEAN) /\ Len(bits) = w /\ \A b \in 1..w : bits[b] = tape[a + b]
  BY Stretch
<1>v. Value(a, w) = Number(bits)
  BY DEF Value
<1> HIDE DEF bits
<1>2. Number(bits) \in Nat /\ Number(bits) < Power[w] /\ Spell(bits, Number(bits), w)
  BY <1>1, NumberSpells
<1>3. ASSUME NEW k \in 0..w - 1
      PROVE  tape[a + (k + 1)] <=> NumberBit(Number(bits), k)
  <2>1. k + 1 \in 1..w
    OBVIOUS
  <2>2. bits[k + 1] <=> NumberBit(Number(bits), k)
    BY <1>2 DEF Spell
  <2> QED
    BY <1>1, <2>1, <2>2
<1> QED
  BY <1>v, <1>2, <1>3, WordsNat

\* Values read off the tape have its bits.
LEMMA ValuesBits ==
  ASSUME tape \in Seq(BOOLEAN), NEW a \in Nat, NEW w \in Nat \ {0}, NEW n \in Nat,
         a + w * n <= Len(tape)
  PROVE  /\ Values(a, w, n) \in Seq(Words(w))
         /\ Len(Values(a, w, n)) = n
         /\ BitString(Values(a, w, n), w) = SubSeq(tape, a + 1, a + w * n)
<1> DEFINE N == w * n
           V == Values(a, w, n)
           bits == SubSeq(tape, a + 1, a + N)
<1>1. N \in Nat /\ a + N <= Len(tape)
  OBVIOUS
<1>2. bits \in Seq(BOOLEAN) /\ Len(bits) = N /\ \A b \in 1..N : bits[b] = tape[a + b]
  <2> HIDE DEF N
  <2> QED
    BY <1>1, Stretch
<1>3. ASSUME NEW i \in 1..n
      PROVE  /\ V[i] \in Words(w) /\ V[i] \in Nat
             /\ \A k \in 0..w - 1 : bits[At(w, i, k)] <=> NumberBit(V[i], k)
  <2> DEFINE p == w * (i - 1)
             c == a + p
  <2>1. V[i] = Value(c, w)
    BY DEF Values
  <2>2. p \in Nat /\ p + w <= N
    <3> DEFINE j == i - 1
               m == n - i
               q == w * m
    <3>1. j \in Nat /\ m \in Nat /\ q \in Nat /\ n = j + m + 1
      OBVIOUS
    <3> HIDE DEF j, m
    <3>2. w * n = (w * j) + (w * m) + w /\ w * j \in Nat /\ w * m \in Nat
      BY <3>1
    <3>3. p = w * j
      BY DEF j
    <3> DEFINE e == w * j
               f == w * m
    <3>4. N = e + f + w /\ e \in Nat /\ f \in Nat /\ p = e
      BY <3>2, <3>3
    <3> HIDE DEF e, f, N, p
    <3> QED
      BY <3>4
  <2>a. \A k \in 0..w - 1 : At(w, i, k) = p + (k + 1)
    BY <2>2 DEF At
  <2> HIDE DEF p, V
  <2>3. c \in Nat /\ c + w <= Len(tape)
    <3> HIDE DEF N
    <3> QED
      BY <1>1, <2>2
  <2>4. /\ Value(c, w) \in Words(w) /\ Value(c, w) \in Nat
        /\ \A k \in 0..w - 1 : tape[c + (k + 1)] <=> NumberBit(Value(c, w), k)
    <3> HIDE DEF c
    <3> QED
      BY <2>3, ValueBits
  <2>5. ASSUME NEW k \in 0..w - 1
        PROVE  bits[At(w, i, k)] <=> NumberBit(Value(c, w), k)
    <3> HIDE DEF N, bits
    <3> DEFINE b == p + (k + 1)
    <3>1. b \in 1..N /\ a + b = c + (k + 1) /\ b = At(w, i, k)
      BY <1>1, <2>a, <2>2
    <3>2. bits[b] = tape[a + b]
      BY <1>2, <3>1
    <3> HIDE DEF b, c
    <3>3. tape[c + (k + 1)] <=> NumberBit(Value(c, w), k)
      BY <2>4
    <3> QED
      BY <3>1, <3>2, <3>3
  <2> HIDE DEF c
  <2> QED
    BY <2>1, <2>4, <2>5
<1>4. V \in Seq(Words(w)) /\ V \in Seq(Nat) /\ Len(V) = n
  <2>1. V = [i \in 1..n |-> Value(a + (w * (i - 1)), w)]
    BY DEF Values
  <2>2. \A i \in 1..n : Value(a + (w * (i - 1)), w) \in Words(w)
    BY <1>3, <2>1
  <2>3. Words(w) \subseteq Nat
    BY WordsNat
  <2> HIDE DEF V
  <2>4. V \in [1..n -> Words(w)]
    BY <2>1, <2>2
  <2> QED
    BY <2>3, <2>4
<1> HIDE DEF V, bits
<1>5. bits = BitString(V, w)
  <2>1. Len(bits) = w * Len(V)
    BY <1>2, <1>4
  <2> QED
    BY <1>2, <1>3, <1>4, <2>1, BitStringOf
<1> QED
  BY <1>4, <1>5 DEF V, bits

\* A single value is a string of one.
LEMMA OneValue ==
  ASSUME tape \in Seq(BOOLEAN), NEW a \in Nat, NEW w \in Nat \ {0}, a + w <= Len(tape)
  PROVE  /\ Value(a, w) \in Words(w)
         /\ BitString(<<Value(a, w)>>, w) = SubSeq(tape, a + 1, a + w)
<1>1. Values(a, w, 1) = <<Value(a, w)>>
  <2>1. a + (w * (1 - 1)) = a
    OBVIOUS
  <2>2. Values(a, w, 1) = [i \in 1..1 |-> Value(a + (w * (i - 1)), w)]
    BY DEF Values
  <2>3. Values(a, w, 1) = <<Value(a + (w * (1 - 1)), w)>>
    BY <2>2
  <2> QED
    BY <2>1, <2>3
<1>2. w * 1 = w
  OBVIOUS
<1>3. BitString(Values(a, w, 1), w) = SubSeq(tape, a + 1, a + w * 1)
  BY <1>2, ValuesBits
<1>4. Value(a, w) \in Words(w)
  BY ValueBits
<1> QED
  BY <1>1, <1>2, <1>3, <1>4

\* Four bits lift to the element that they spell.
LEMMA LiftedBits ==
  ASSUME NEW v \in Seq(Words(4))
  PROVE  lift_nibbles(BitString(v, 4)) = v
<1> DEFINE x == BitString(v, 4)
           n == Len(v)
<1>0. v \in Seq(Nat) /\ 4 \in Nat \ {0} /\ n \in Nat
  BY WordsNat
<1>1. /\ x \in Seq(BOOLEAN) /\ Len(x) = 4 * n
      /\ \A i \in 1..n : \A k \in 0..4 - 1 : x[At(4, i, k)] <=> NumberBit(v[i], k)
  BY <1>0, BitStringBits
<1> HIDE DEF x
<1>2. ASSUME NEW i \in 1..n
      PROVE  Number(SubSeq(x, 4 * i - 3, 4 * i)) = v[i]
  <2> DEFINE a == 4 * (i - 1)
             part == SubSeq(x, a + 1, a + 4)
  <2>1. a \in Nat /\ a + 4 <= Len(x) /\ a + 1 = 4 * i - 3 /\ a + 4 = 4 * i
    BY <1>0, <1>1
  <2>2. \A k \in 0..3 : At(4, i, k) = a + (k + 1)
    BY DEF At
  <2>p. part = SubSeq(x, 4 * i - 3, 4 * i)
    BY <2>1
  <2> HIDE DEF a
  <2>3. part \in Seq(BOOLEAN) /\ Len(part) = 4 /\ \A b \in 1..4 : part[b] = x[a + b]
    BY <1>1, <2>1, Stretch
  <2> HIDE DEF part
  <2>4. v[i] \in Nat /\ v[i] < Power[4]
    <3>1. v[i] \in Words(4)
      BY ElementOfSeq
    <3> QED
      BY <3>1, WordsNat
  <2>5. Spell(part, v[i], 4)
    <3>1. ASSUME NEW k \in 0..4 - 1
          PROVE  part[k + 1] <=> NumberBit(v[i], k)
      <4>1. x[At(4, i, k)] <=> NumberBit(v[i], k)
        BY <1>1
      <4> QED
        BY <2>2, <2>3, <4>1
    <3> QED
      BY <3>1 DEF Spell
  <2>6. Number(part) = v[i]
    BY <2>3, <2>4, <2>5, NumberOfSpelled
  <2> QED
    BY <2>6, <2>p
<1>3. Len(x) \div 4 = n
  BY <1>0, <1>1
<1>4. lift_nibbles(x) = [i \in 1..n |-> Number(SubSeq(x, 4 * i - 3, 4 * i))]
  BY <1>3 DEF lift_nibbles, lift_gf16
<1>5. lift_nibbles(x) = [i \in 1..n |-> v[i]]
  BY <1>2, <1>4
<1>6. v = [i \in 1..n |-> v[i]]
  OBVIOUS
<1> QED
  BY <1>5, <1>6 DEF x

-----------------------------------------------------------------------------
(* Bytes of a state, elements of a byte, bytes of a nonce.                 *)

\* The bytes and the elements are the words of their widths.
LEMMA ByteWords == Words(8) = 0..255 /\ Words(4) = 0..15
<1>1. Power[8] - 1 = 255 /\ Power[4] - 1 = 15
  BY PowerValues
<1> QED
  BY <1>1 DEF Words

\* The bits of a byte are those of the number.
LEMMA BitsOfByte ==
  ASSUME NEW n \in Nat, NEW k \in 0..7
  PROVE  k \in ByteBits(n) <=> NumberBit(n, k)
<1>1. 2^0 = 1 /\ 2^1 = 2 /\ 2^2 = 4 /\ 2^3 = 8 /\ 2^4 = 16 /\ 2^5 = 32 /\ 2^6 = 64 /\ 2^7 = 128
  OBVIOUS
<1>2. 2^k = Power[k]
  <2>1. k = 0 \/ k = 1 \/ k = 2 \/ k = 3 \/ k = 4 \/ k = 5 \/ k = 6 \/ k = 7
    OBVIOUS
  <2> QED
    <3>0. CASE k = 0
      BY <1>1, <3>0, PowerValues, Zenon
    <3>1. CASE k = 1
      BY <1>1, <3>1, PowerValues, Zenon
    <3>2. CASE k = 2
      BY <1>1, <3>2, PowerValues, Zenon
    <3>3. CASE k = 3
      BY <1>1, <3>3, PowerValues, Zenon
    <3>4. CASE k = 4
      BY <1>1, <3>4, PowerValues, Zenon
    <3>5. CASE k = 5
      BY <1>1, <3>5, PowerValues, Zenon
    <3>6. CASE k = 6
      BY <1>1, <3>6, PowerValues, Zenon
    <3>7. CASE k = 7
      BY <1>1, <3>7, PowerValues, Zenon
    <3> QED
      BY <2>1, <3>0, <3>1, <3>2, <3>3, <3>4, <3>5, <3>6, <3>7, Zenon
<1> QED
  BY <1>2, Zenon DEF ByteBits, NumberBit

\* A byte of a state has the bits at its place.
LEMMA StateByteBits ==
  ASSUME NEW s, NEW i \in Nat
  PROVE  /\ StateByte(s, i) \in Words(8)
         /\ \A k \in 0..7 : NumberBit(StateByte(s, i), k) <=> (8 * i) + k \in s
<1> DEFINE in(k) == (8 * i) + k \in s
           x == [k \in 1..8 |-> in(k - 1)]
<1>1. x \in Seq(BOOLEAN) /\ Len(x) = 8
  <2>1. \A k \in 1..8 : in(k - 1) \in BOOLEAN
    OBVIOUS
  <2> HIDE DEF in
  <2> QED
    BY <2>1
<1>2. /\ x[1] = in(0) /\ x[2] = in(1) /\ x[3] = in(2) /\ x[4] = in(3)
      /\ x[5] = in(4) /\ x[6] = in(5) /\ x[7] = in(6) /\ x[8] = in(7)
  <2> HIDE DEF in
  <2> QED
    OBVIOUS
<1>3. StateByte(s, i)
        = (IF in(0) THEN 1 ELSE 0) + (IF in(1) THEN 2 ELSE 0) + (IF in(2) THEN 4 ELSE 0)
            + (IF in(3) THEN 8 ELSE 0) + (IF in(4) THEN 16 ELSE 0) + (IF in(5) THEN 32 ELSE 0)
            + (IF in(6) THEN 64 ELSE 0) + (IF in(7) THEN 128 ELSE 0)
  <2>1. 2^0 = 1 /\ 2^1 = 2 /\ 2^2 = 4 /\ 2^3 = 8 /\ 2^4 = 16 /\ 2^5 = 32 /\ 2^6 = 64 /\ 2^7 = 128
    OBVIOUS
  <2>2. StateByte(s, i)
        = (IF in(0) THEN 2^0 ELSE 0) + (IF in(1) THEN 2^1 ELSE 0) + (IF in(2) THEN 2^2 ELSE 0)
            + (IF in(3) THEN 2^3 ELSE 0) + (IF in(4) THEN 2^4 ELSE 0) + (IF in(5) THEN 2^5 ELSE 0)
            + (IF in(6) THEN 2^6 ELSE 0) + (IF in(7) THEN 2^7 ELSE 0)
    BY Zenon DEF StateByte
  <2> HIDE DEF in
  <2> QED
    BY <2>1, <2>2
<1> HIDE DEF in, x
<1>4. \A n, m \in Nat : m = n + 1 => Sums(x)[m] = Sums(x)[n] + Adds(x, m)
  BY SumsSteps
<1>5. /\ Adds(x, 1) = (IF in(0) THEN 1 ELSE 0) /\ Adds(x, 2) = (IF in(1) THEN 2 ELSE 0)
      /\ Adds(x, 3) = (IF in(2) THEN 4 ELSE 0) /\ Adds(x, 4) = (IF in(3) THEN 8 ELSE 0)
      /\ Adds(x, 5) = (IF in(4) THEN 16 ELSE 0) /\ Adds(x, 6) = (IF in(5) THEN 32 ELSE 0)
      /\ Adds(x, 7) = (IF in(6) THEN 64 ELSE 0) /\ Adds(x, 8) = (IF in(7) THEN 128 ELSE 0)
  <2>1. /\ Power[1 - 1] = 1 /\ Power[2 - 1] = 2 /\ Power[3 - 1] = 4 /\ Power[4 - 1] = 8
        /\ Power[5 - 1] = 16 /\ Power[6 - 1] = 32 /\ Power[7 - 1] = 64 /\ Power[8 - 1] = 128
    BY PowerValues
  <2> QED
    BY <1>2, <2>1 DEF Adds
<1>6. Sums(x)[0] = 0
  BY SumsSteps
<1>7. Sums(x)[1] = Sums(x)[0] + Adds(x, 1) /\ Sums(x)[2] = Sums(x)[1] + Adds(x, 2)
  BY <1>4
<1>8. Sums(x)[3] = Sums(x)[2] + Adds(x, 3) /\ Sums(x)[4] = Sums(x)[3] + Adds(x, 4)
  BY <1>4
<1>9. Sums(x)[5] = Sums(x)[4] + Adds(x, 5) /\ Sums(x)[6] = Sums(x)[5] + Adds(x, 6)
  BY <1>4
<1>10. Sums(x)[7] = Sums(x)[6] + Adds(x, 7) /\ Sums(x)[8] = Sums(x)[7] + Adds(x, 8)
  BY <1>4
<1>11. Number(x) = StateByte(s, i)
  <2> DEFINE a1 == Adds(x, 1)
             a2 == Adds(x, 2)
             a3 == Adds(x, 3)
             a4 == Adds(x, 4)
             a5 == Adds(x, 5)
             a6 == Adds(x, 6)
             a7 == Adds(x, 7)
             a8 == Adds(x, 8)
  <2>1. /\ a1 \in Nat /\ a2 \in Nat /\ a3 \in Nat /\ a4 \in Nat
        /\ a5 \in Nat /\ a6 \in Nat /\ a7 \in Nat /\ a8 \in Nat
    BY <1>5
  <2>0. /\ (IF in(0) THEN 1 ELSE 0) = a1 /\ (IF in(1) THEN 2 ELSE 0) = a2
        /\ (IF in(2) THEN 4 ELSE 0) = a3 /\ (IF in(3) THEN 8 ELSE 0) = a4
        /\ (IF in(4) THEN 16 ELSE 0) = a5 /\ (IF in(5) THEN 32 ELSE 0) = a6
        /\ (IF in(6) THEN 64 ELSE 0) = a7 /\ (IF in(7) THEN 128 ELSE 0) = a8
    BY <1>5
  <2> HIDE DEF a1, a2, a3, a4, a5, a6, a7, a8
  <2>2. StateByte(s, i) = a1 + a2 + a3 + a4 + a5 + a6 + a7 + a8
    BY <1>3, <2>0
  <2>3. Sums(x)[2] = a1 + a2
    BY <1>6, <1>7, <2>1 DEF a1, a2
  <2>4. Sums(x)[4] = a1 + a2 + a3 + a4
    BY <1>8, <2>1, <2>3 DEF a3, a4
  <2>5. Sums(x)[6] = a1 + a2 + a3 + a4 + a5 + a6
    BY <1>9, <2>1, <2>4 DEF a5, a6
  <2>6. Sums(x)[8] = a1 + a2 + a3 + a4 + a5 + a6 + a7 + a8
    BY <1>10, <2>1, <2>5 DEF a7, a8
  <2> QED
    BY <1>1, <2>2, <2>6 DEF Number
<1>12. Number(x) \in Nat /\ Number(x) < Power[8] /\ Spell(x, Number(x), 8)
  BY <1>1, NumberSpells
<1>13. ASSUME NEW k \in 0..7
       PROVE  NumberBit(StateByte(s, i), k) <=> (8 * i) + k \in s
  <2>1. x[k + 1] <=> NumberBit(StateByte(s, i), k)
    BY <1>11, <1>12 DEF Spell
  <2>2. x[k + 1] = in(k)
    <3>1. k + 1 \in 1..8 /\ (k + 1) - 1 = k
      OBVIOUS
    <3> QED
      BY <3>1 DEF x
  <2> QED
    BY <2>1, <2>2 DEF in
<1>14. StateByte(s, i) \in Words(8)
  BY <1>11, <1>12, WordsNat
<1> QED
  BY <1>13, <1>14

\* Bits of the state, as the circuit has them.
LEMMA StateBitsSeq ==
  ASSUME NEW s
  PROVE  /\ state_bits(s) \in Seq(BOOLEAN)
         /\ Len(state_bits(s)) = 25 * LANE
         /\ \A b \in 1..25 * LANE : state_bits(s)[b] <=> b - 1 \in s
<1> DEFINE N == 25 * LANE
<1>1. N \in Nat
  BY LaneValues
<1>2. state_bits(s) = [b \in 1..N |-> b - 1 \in s]
  BY DEF state_bits
<1>3. \A b : (b - 1 \in s) \in BOOLEAN
  OBVIOUS
<1> HIDE DEF N
<1> QED
  <2>1. state_bits(s) \in [1..N -> BOOLEAN]
    BY <1>2, <1>3
  <2>2. state_bits(s) \in Seq(BOOLEAN) /\ Len(state_bits(s)) = N
    BY <1>1, <2>1
  <2>3. \A b \in 1..N : state_bits(s)[b] <=> b - 1 \in s
    BY <1>2
  <2> QED
    BY <2>2, <2>3 DEF N

\* The first bytes of a state are its first bits.
LEMMA StateBytes ==
  ASSUME NEW s, NEW n \in Nat, n <= RATE_BYTES
  PROVE  LET out == [i \in 1..n |-> StateByte(s, i - 1)]
         IN  /\ out \in Seq(Words(8)) /\ Len(out) = n
             /\ BitString(out, 8) = SubSeq(state_bits(s), 1, 8 * n)
<1> DEFINE out == [i \in 1..n |-> StateByte(s, i - 1)]
           B == SubSeq(state_bits(s), 0 + 1, 0 + 8 * n)
<1>1. out \in Seq(Words(8)) /\ Len(out) = n /\ out \in Seq(Nat)
  <2>1. \A i \in 1..n : StateByte(s, i - 1) \in Words(8)
    <3>1. \A i \in 1..n : i - 1 \in Nat
      OBVIOUS
    <3> QED
      BY <3>1, StateByteBits
  <2>2. Words(8) \subseteq Nat
    BY WordsNat
  <2>3. out \in [1..n -> Words(8)]
    BY <2>1
  <2> HIDE DEF out
  <2> QED
    BY <2>2, <2>3
<1>2. 8 * n <= 25 * LANE
  BY RateAssumption, LaneValues
<1>3. B \in Seq(BOOLEAN) /\ Len(B) = 8 * n /\ \A b \in 1..8 * n : B[b] = state_bits(s)[b]
  <2> DEFINE N == 8 * n
             t == state_bits(s)
  <2>1. t \in Seq(BOOLEAN) /\ N \in Nat /\ 0 + N <= Len(t)
    BY <1>2, StateBitsSeq
  <2> HIDE DEF t, N
  <2>2. /\ SubSeq(t, 0 + 1, 0 + N) \in Seq(BOOLEAN) /\ Len(SubSeq(t, 0 + 1, 0 + N)) = N
        /\ \A b \in 1..N : SubSeq(t, 0 + 1, 0 + N)[b] = t[0 + b]
    BY <2>1, Stretch
  <2>3. \A b \in 1..N : 0 + b = b
    OBVIOUS
  <2> QED
    BY <2>2, <2>3 DEF t, N
<1>b. B = SubSeq(state_bits(s), 1, 8 * n)
  OBVIOUS
<1>4. ASSUME NEW i \in 1..n, NEW k \in 0..8 - 1
      PROVE  B[At(8, i, k)] <=> NumberBit(out[i], k)
  <2>1. out[i] = StateByte(s, i - 1) /\ i - 1 \in Nat
    OBVIOUS
  <2>2. At(8, i, k) \in 1..8 * n /\ At(8, i, k) \in 1..25 * LANE
        /\ At(8, i, k) - 1 = 8 * (i - 1) + k
    BY <1>2, LaneValues DEF At
  <2> HIDE DEF B, out
  <2>3. B[At(8, i, k)] = state_bits(s)[At(8, i, k)]
    BY <1>3, <2>2
  <2>4. state_bits(s)[At(8, i, k)] <=> 8 * (i - 1) + k \in s
    BY <2>2, StateBitsSeq
  <2>5. NumberBit(StateByte(s, i - 1), k) <=> 8 * (i - 1) + k \in s
    BY <2>1, StateByteBits
  <2> QED
    BY <2>1, <2>3, <2>4, <2>5
<1> HIDE DEF B, out
<1>5. B = BitString(out, 8)
  <2>1. Len(B) = 8 * Len(out) /\ 8 \in Nat \ {0}
    BY <1>1, <1>3
  <2> QED
    BY <1>1, <1>3, <1>4, <2>1, BitStringOf
<1> QED
  BY <1>1, <1>5, <1>b DEF out

\* The bits of a quotient are the higher bits,
LEMMA ShiftedBit ==
  ASSUME NEW n \in Nat, NEW a \in Nat, NEW k \in Nat
  PROVE  NumberBit(n \div Power[a], k) <=> NumberBit(n, a + k)
<1> DEFINE P == Power[a]
           K == Power[k]
           D == Power[a + k]
           m == n \div P
           c == n % P
           q == m \div K
           d == m % K
           e == (P * d) + c
<1>1. P \in Nat \ {0} /\ K \in Nat \ {0} /\ D \in Nat \ {0} /\ D = P * K
  <2>1. a + k \in Nat
    OBVIOUS
  <2>2. Power[a + k] = Power[a] * Power[k]
    BY PowerSum
  <2>3. Power[a] \in Nat \ {0} /\ Power[k] \in Nat \ {0} /\ Power[a + k] \in Nat \ {0}
    BY <2>1, PowerSteps
  <2> QED
    BY <2>2, <2>3
<1>g. (NumberBit(n \div Power[a], k) <=> q % 2 = 1) /\ (NumberBit(n, a + k) <=> (n \div D) % 2 = 1)
  BY DEF NumberBit
<1> HIDE DEF P, K, D
<1>2. n = P * m + c /\ m \in Nat /\ c \in 0..P - 1
  BY <1>1
<1> HIDE DEF m, c
<1>3. m = K * q + d /\ q \in Nat /\ d \in 0..K - 1
  BY <1>1, <1>2
<1> HIDE DEF q, d
<1>4. P * m = D * q + P * d
  BY <1>1, <1>2, <1>3
<1>5. P * d + P <= D /\ P * d \in Nat
  <2> DEFINE f == K - 1 - d
  <2>1. f \in Nat /\ K = d + f + 1
    BY <1>1, <1>3
  <2> HIDE DEF f
  <2>2. D = (P * d) + (P * f) + P /\ P * d \in Nat /\ P * f \in Nat
    BY <1>1, <1>3, <2>1
  <2> DEFINE g == P * d
             h == P * f
  <2>3. D = g + h + P /\ g \in Nat /\ h \in Nat
    BY <2>2
  <2> HIDE DEF g, h
  <2>4. g + P <= D
    BY <1>1, <2>3
  <2> QED
    BY <2>2, <2>4 DEF g
<1>6. e \in 0..D - 1
  <2> DEFINE g == P * d
  <2>1. g + P <= D /\ g \in Nat /\ e = g + c
    BY <1>5
  <2> HIDE DEF g, e
  <2> QED
    BY <1>1, <1>2, <2>1
<1>7. n = D * q + e
  <2> DEFINE g == P * d
             h == D * q
             i == P * m
  <2>1. n = i + c /\ i = h + g /\ e = g + c /\ h \in Nat /\ g \in Nat
    BY <1>1, <1>2, <1>3, <1>4, <1>5
  <2> HIDE DEF g, h, i, e
  <2>2. n = h + e
    BY <1>2, <2>1
  <2> QED
    BY <2>2 DEF h
<1> HIDE DEF e
<1>8. n \div D = q
  BY <1>1, <1>3, <1>6, <1>7, Division
<1> QED
  BY <1>8, <1>g

\* and those of a remainder the lower ones.
LEMMA LowBits ==
  ASSUME NEW n \in Nat, NEW w \in Nat
  PROVE  /\ n % Power[w] \in Words(w)
         /\ \A k \in 0..w - 1 : NumberBit(n % Power[w], k) <=> NumberBit(n, k)
<1> DEFINE x == [k \in 1..w |-> NumberBit(n, k - 1)]
<1>1. ASSUME NEW k \in 0..w - 1
      PROVE  x[k + 1] <=> NumberBit(n, k)
  <2>1. k + 1 \in 1..w /\ (k + 1) - 1 = k
    OBVIOUS
  <2> QED
    BY <2>1
<1> HIDE DEF x
<1>2. Spell(x, n, w)
  BY <1>1 DEF Spell
<1>3. Sums(x)[w] = n % Power[w]
  BY <1>2, SumsOfNumber
<1>4. Spell(x, n % Power[w], w) /\ n % Power[w] < Power[w] /\ n % Power[w] \in Nat
  BY <1>3, BitsOfSums, SumsSteps
<1>5. ASSUME NEW k \in 0..w - 1
      PROVE  NumberBit(n % Power[w], k) <=> NumberBit(n, k)
  <2>1. x[k + 1] <=> NumberBit(n % Power[w], k)
    BY <1>4 DEF Spell
  <2> QED
    BY <1>1, <2>1
<1> QED
  BY <1>4, <1>5, WordsNat

\* The two halves of a byte,
LEMMA HalvesOfByte ==
  ASSUME NEW n \in Nat
  PROVE  /\ n % 16 \in Words(4) /\ (n \div 16) % 16 \in Words(4)
         /\ \A k \in 0..3 : NumberBit(n % 16, k) <=> NumberBit(n, k)
         /\ \A k \in 0..3 : NumberBit((n \div 16) % 16, k) <=> NumberBit(n, 4 + k)
<1>1. Power[4] = 16
  BY PowerValues
<1>2. n \div 16 \in Nat
  OBVIOUS
<1>3. n % 16 \in Words(4) /\ \A k \in 0..4 - 1 : NumberBit(n % 16, k) <=> NumberBit(n, k)
  BY <1>1, LowBits
<1>4. /\ (n \div 16) % 16 \in Words(4)
      /\ \A k \in 0..4 - 1 : NumberBit((n \div 16) % 16, k) <=> NumberBit(n \div 16, k)
  BY <1>1, <1>2, LowBits
<1>5. ASSUME NEW k \in 0..3
      PROVE  NumberBit(n \div 16, k) <=> NumberBit(n, 4 + k)
  <2>1. k \in Nat /\ 4 \in Nat
    OBVIOUS
  <2> QED
    BY <1>1, <2>1, ShiftedBit
<1> QED
  BY <1>3, <1>4, <1>5

\* and the byte that two halves make.
LEMMA ByteOfHalves ==
  ASSUME NEW lo \in Words(4), NEW hi \in Words(4)
  PROVE  /\ lo + 16 * hi \in Words(8)
         /\ \A k \in 0..3 : NumberBit(lo + 16 * hi, k) <=> NumberBit(lo, k)
         /\ \A k \in 0..3 : NumberBit(lo + 16 * hi, 4 + k) <=> NumberBit(hi, k)
<1> DEFINE n == lo + 16 * hi
<1>1. n \in Nat /\ n % 16 = lo /\ (n \div 16) % 16 = hi /\ n \in 0..255
  BY ByteWords
<1>2. n \in Words(8)
  BY <1>1, ByteWords
<1> HIDE DEF n
<1>3. /\ \A k \in 0..3 : NumberBit(n % 16, k) <=> NumberBit(n, k)
      /\ \A k \in 0..3 : NumberBit((n \div 16) % 16, k) <=> NumberBit(n, 4 + k)
  BY <1>1, HalvesOfByte
<1> QED
  BY <1>1, <1>2, <1>3 DEF n

\* The start of a string.
LEMMA Prefix ==
  ASSUME NEW S, NEW t \in Seq(S), NEW n \in Nat, n <= Len(t)
  PROVE  /\ SubSeq(t, 1, n) \in Seq(S)
         /\ Len(SubSeq(t, 1, n)) = n
         /\ \A b \in 1..n : SubSeq(t, 1, n)[b] = t[b]
<1>1. 0 \in Nat /\ 0 + n <= Len(t) /\ 0 + 1 = 1 /\ 0 + n = n /\ \A b \in 1..n : 0 + b = b
  OBVIOUS
<1>2. /\ SubSeq(t, 0 + 1, 0 + n) \in Seq(S)
      /\ Len(SubSeq(t, 0 + 1, 0 + n)) = n
      /\ \A b \in 1..n : SubSeq(t, 0 + 1, 0 + n)[b] = t[0 + b]
  BY <1>1, Stretch
<1> QED
  BY <1>1, <1>2

\* The elements of an output are its first bits.
LEMMA NibblesBits ==
  ASSUME NEW out \in Seq(Words(8)), Len(out) = (M + 1) \div 2, M \in Nat
  PROVE  /\ Nibbles(out) \in Seq(Words(4))
         /\ Len(Nibbles(out)) = M
         /\ BitString(Nibbles(out), 4) = SubSeq(BitString(out, 8), 1, 4 * M)
<1> DEFINE x == BitString(out, 8)
           L == Len(out)
           V == Nibbles(out)
           B == SubSeq(x, 1, 4 * M)
<1>1. out \in Seq(Nat) /\ L \in Nat /\ 8 \in Nat \ {0}
  BY WordsNat
<1>2. /\ x \in Seq(BOOLEAN) /\ Len(x) = 8 * L
      /\ \A i \in 1..L : \A k \in 0..8 - 1 : x[At(8, i, k)] <=> NumberBit(out[i], k)
  BY <1>1, BitStringBits
<1>l. 4 * M \in Nat /\ 4 * M <= 8 * L /\ L = (M + 1) \div 2
  OBVIOUS
<1> HIDE DEF x, L
<1>3. B \in Seq(BOOLEAN) /\ Len(B) = 4 * M /\ \A b \in 1..4 * M : B[b] = x[b]
  BY <1>2, <1>l, Prefix
<1>4. ASSUME NEW i \in 1..M
      PROVE  /\ V[i] \in Words(4)
             /\ \A k \in 0..3 : B[At(4, i, k)] <=> NumberBit(V[i], k)
  <2> DEFINE j == (i + 1) \div 2
             h == (i - 1) % 2
  <2>1. j \in 1..L /\ ((h = 0 /\ i = 2 * j - 1) \/ (h = 1 /\ i = 2 * j))
    <3>1. i \in Nat /\ M \in Nat /\ 1 <= i /\ i <= M
      OBVIOUS
    <3>2. (h = 0 /\ i = 2 * j - 1) \/ (h = 1 /\ i = 2 * j)
      BY <3>1
    <3>3. j \in 1..L
      BY <1>l, <3>1
    <3> QED
      BY <3>2, <3>3
  <2>2. V[i] = (out[j] \div 16^h) % 16
    BY DEF Nibbles
  <2>p. 16^0 = 1 /\ 16^1 = 16
    OBVIOUS
  <2>a. \A k \in 0..3 : At(4, i, k) \in 1..4 * M
    BY DEF At
  <2> HIDE DEF j, h, V, B
  <2>3. out[j] \in Nat
    BY <1>1, <2>1, ElementOfSeq DEF L
  <2>4. CASE h = 0 /\ i = 2 * j - 1
    <3>1. V[i] = out[j] % 16
      BY <2>2, <2>3, <2>4, <2>p
    <3>2. ASSUME NEW k \in 0..3
          PROVE  At(4, i, k) = At(8, j, k) /\ k \in 0..8 - 1
      BY <2>1, <2>4 DEF At
    <3>3. ASSUME NEW k \in 0..3
          PROVE  B[At(4, i, k)] <=> NumberBit(out[j], k)
      <4>1. x[At(8, j, k)] <=> NumberBit(out[j], k)
        BY <1>2, <2>1, <3>2
      <4>2. B[At(4, i, k)] = x[At(4, i, k)]
        BY <1>3, <2>a
      <4> QED
        BY <3>2, <4>1, <4>2
    <3>4. /\ out[j] % 16 \in Words(4)
          /\ \A k \in 0..3 : NumberBit(out[j] % 16, k) <=> NumberBit(out[j], k)
      BY <2>3, HalvesOfByte
    <3> QED
      BY <3>1, <3>3, <3>4
  <2>5. CASE h = 1 /\ i = 2 * j
    <3>1. V[i] = (out[j] \div 16) % 16
      BY <2>2, <2>5, <2>p
    <3>2. ASSUME NEW k \in 0..3
          PROVE  At(4, i, k) = At(8, j, 4 + k) /\ 4 + k \in 0..8 - 1
      BY <2>1, <2>5 DEF At
    <3>3. ASSUME NEW k \in 0..3
          PROVE  B[At(4, i, k)] <=> NumberBit(out[j], 4 + k)
      <4>1. x[At(8, j, 4 + k)] <=> NumberBit(out[j], 4 + k)
        BY <1>2, <2>1, <3>2
      <4>2. B[At(4, i, k)] = x[At(4, i, k)]
        BY <1>3, <2>a
      <4> QED
        BY <3>2, <4>1, <4>2
    <3>4. /\ (out[j] \div 16) % 16 \in Words(4)
          /\ \A k \in 0..3 : NumberBit((out[j] \div 16) % 16, k) <=> NumberBit(out[j], 4 + k)
      BY <2>3, HalvesOfByte
    <3> QED
      BY <3>1, <3>3, <3>4
  <2> QED
    BY <2>1, <2>4, <2>5
<1>5. V \in Seq(Words(4)) /\ V \in Seq(Nat) /\ Len(V) = M
  <2>1. V = [i \in 1..M |-> V[i]]
    BY DEF Nibbles
  <2>2. Words(4) \subseteq Nat
    BY WordsNat
  <2> HIDE DEF V
  <2>3. V \in [1..M -> Words(4)]
    BY <1>4, <2>1
  <2> QED
    BY <2>2, <2>3
<1> HIDE DEF V, B
<1>6. B = BitString(V, 4)
  <2>1. Len(B) = 4 * Len(V) /\ 4 \in Nat \ {0} /\ 0..4 - 1 = 0..3
    BY <1>3, <1>5
  <2>2. \A i \in 1..Len(V) : \A k \in 0..4 - 1 : B[At(4, i, k)] <=> NumberBit(V[i], k)
    BY <1>4, <1>5, <2>1
  <2> QED
    BY <1>3, <1>5, <2>1, <2>2, BitStringOf
<1> QED
  BY <1>5, <1>6 DEF V, B, x

\* The zeros after n elements that fill their last byte.
Fills(zeros, n) ==
  /\ Len(zeros) = 8 * ((n + 1) \div 2) - 4 * n
  /\ \A b \in 1..Len(zeros) : ~zeros[b]

\* Two elements to a byte, and zeros to fill the last.
LEMMA PackedBits ==
  ASSUME NEW v \in Seq(Words(4)), NEW zeros \in Seq(BOOLEAN), Fills(zeros, Len(v))
  PROVE  /\ pack_gf16(v) \in Seq(Words(8))
         /\ Len(pack_gf16(v)) = (Len(v) + 1) \div 2
         /\ BitString(v, 4) \o zeros = BitString(pack_gf16(v), 8)
<1> DEFINE n == Len(v)
           L == (n + 1) \div 2
           x == BitString(v, 4)
           B == x \o zeros
           P == pack_gf16(v)
<1>v. v \in Seq(Nat) /\ n \in Nat
  BY WordsNat
<1>n. L \in Nat /\ (n = 2 * L \/ n = 2 * L - 1)
  <2> HIDE DEF n
  <2> QED
    BY <1>v
<1>0. v \in Seq(Nat) /\ n \in Nat /\ L \in Nat /\ 4 \in Nat \ {0} /\ 8 \in Nat \ {0}
  BY <1>n, <1>v
<1>1. /\ x \in Seq(BOOLEAN) /\ Len(x) = 4 * n
      /\ \A i \in 1..n : \A k \in 0..4 - 1 : x[At(4, i, k)] <=> NumberBit(v[i], k)
  BY <1>0, BitStringBits
<1>2. /\ B \in Seq(BOOLEAN) /\ Len(B) = Len(x) + Len(zeros)
      /\ \A b \in 1..Len(x) : B[b] = x[b]
      /\ \A b \in 1..Len(zeros) : B[Len(x) + b] = zeros[b]
  <2> HIDE DEF x
  <2>1. x \in Seq(BOOLEAN)
    BY <1>1
  <2> QED
    BY <2>1, Joined
<1>3. Len(zeros) = 8 * L - 4 * n /\ Len(B) = 8 * L
  <2>1. Len(zeros) = 8 * L - 4 * n
    BY DEF Fills
  <2> HIDE DEF L, n, x, B
  <2> QED
    BY <1>0, <1>1, <1>2, <2>1
<1>e. ASSUME NEW i \in 1..n
      PROVE  v[i] \in Words(4)
  BY ElementOfSeq
<1>p. /\ Len(P) = L
      /\ \A i \in 1..L : P[i] = v[2 * i - 1] + (IF 2 * i <= n THEN 16 * v[2 * i] ELSE 0)
      /\ \A i \in 1..L : P[i] \in Words(8)
      /\ P = [i \in 1..L |-> P[i]]
  <2>1. P = [i \in 1..L |-> v[2 * i - 1] + (IF 2 * i <= n THEN 16 * v[2 * i] ELSE 0)]
    BY DEF pack_gf16
  <2> HIDE DEF P, L, n
  <2>2. \A i \in 1..L : P[i] = v[2 * i - 1] + (IF 2 * i <= n THEN 16 * v[2 * i] ELSE 0)
    BY <2>1
  <2>3. ASSUME NEW i \in 1..L
        PROVE  P[i] \in Words(8)
    <3>1. 2 * i - 1 \in 1..n
      BY <1>0, <1>n
    <3>2. v[2 * i - 1] \in Words(4)
      BY <1>e, <3>1
    <3>3. CASE 2 * i <= n
      <4>1. 2 * i \in 1..n
        BY <1>0, <3>3
      <4>2. v[2 * i] \in Words(4)
        BY <1>e, <4>1
      <4>3. P[i] = v[2 * i - 1] + 16 * v[2 * i]
        BY <2>2, <3>3
      <4> QED
        BY <3>2, <4>2, <4>3, ByteOfHalves
    <3>4. CASE ~(2 * i <= n)
      <4>1. 0 \in Words(4) /\ v[2 * i - 1] + 16 * 0 = v[2 * i - 1] + 0
        BY ByteWords
      <4>2. P[i] = v[2 * i - 1] + 16 * 0
        BY <2>2, <3>4
      <4> QED
        BY <3>2, <4>1, <4>2, ByteOfHalves
    <3> QED
      BY <3>3, <3>4
  <2>4. Len(P) = L
    BY <1>0, <2>1
  <2> QED
    BY <2>1, <2>2, <2>3, <2>4
<1> HIDE DEF P
<1>5. P \in Seq(Words(8)) /\ P \in Seq(Nat)
  <2>1. Words(8) \subseteq Nat
    BY WordsNat
  <2> HIDE DEF L
  <2>2. P \in [1..L -> Words(8)] /\ L \in Nat
    BY <1>0, <1>p
  <2> QED
    BY <2>1, <2>2
<1> HIDE DEF x, B, L, n
<1>6. ASSUME NEW i \in 1..L, NEW k \in 0..8 - 1
      PROVE  B[At(8, i, k)] <=> NumberBit(P[i], k)
  <2> DEFINE a == 2 * i - 1
             b == 2 * i
             lo == v[a]
             hi == IF b <= n THEN v[b] ELSE 0
  <2>1. a \in 1..n /\ (b <= n => b \in 1..n)
    BY <1>0, <1>n
  <2>2. lo \in Words(4) /\ hi \in Words(4)
    <3>1. 0 \in Words(4)
      BY ByteWords
    <3> QED
      BY <1>e, <2>1, <3>1
  <2>3. P[i] = lo + 16 * hi
    <3>1. P[i] = v[a] + (IF b <= n THEN 16 * v[b] ELSE 0)
      BY <1>p
    <3>2. 16 * 0 = 0
      OBVIOUS
    <3> QED
      BY <3>1, <3>2
  <2>i. (b <= n => hi = v[b]) /\ (~(b <= n) => hi = 0) /\ lo = v[a]
    OBVIOUS
  <2> HIDE DEF lo, hi
  <2>4. CASE k \in 0..3
    <3>1. At(8, i, k) = At(4, a, k) /\ At(4, a, k) \in 1..4 * n /\ k \in 0..4 - 1
      BY <1>0, <2>1, <2>4 DEF At
    <3>2. B[At(8, i, k)] = x[At(4, a, k)]
      BY <1>1, <1>2, <3>1
    <3>3. x[At(4, a, k)] <=> NumberBit(lo, k)
      BY <1>1, <2>1, <2>i, <3>1
    <3>4. NumberBit(P[i], k) <=> NumberBit(lo, k)
      BY <2>2, <2>3, <2>4, ByteOfHalves
    <3> QED
      BY <3>2, <3>3, <3>4
  <2>5. CASE k \in 4..7
    <3> DEFINE l == k - 4
    <3>1. l \in 0..3 /\ k = 4 + l /\ l \in 0..4 - 1
      BY <2>5
    <3> HIDE DEF l
    <3>2. NumberBit(P[i], k) <=> NumberBit(hi, l)
      BY <2>2, <2>3, <3>1, ByteOfHalves
    <3>3. CASE b <= n
      <4>1. At(8, i, k) = At(4, b, l) /\ At(4, b, l) \in 1..4 * n
        BY <1>0, <2>1, <3>1, <3>3 DEF At
      <4>2. B[At(8, i, k)] = x[At(4, b, l)]
        BY <1>1, <1>2, <4>1
      <4>3. x[At(4, b, l)] <=> NumberBit(hi, l)
        BY <1>1, <2>1, <2>i, <3>1, <3>3
      <4> QED
        BY <3>2, <4>2, <4>3
    <3>4. CASE ~(b <= n)
      <4>1. At(8, i, k) = 4 * n + (l + 1) /\ l + 1 \in 1..Len(zeros)
        BY <1>0, <1>n, <1>3, <3>1, <3>4 DEF At
      <4>2. B[At(8, i, k)] = zeros[l + 1]
        BY <1>1, <1>2, <4>1
      <4>3. ~NumberBit(0, l)
        <5> DEFINE D == Power[l]
        <5>1. l \in Nat
          BY <3>1
        <5>2. D \in Nat \ {0}
          BY <5>1, PowerSteps
        <5> HIDE DEF D
        <5>3. 0 \div D = 0
          BY <5>2
        <5> QED
          BY <5>3 DEF NumberBit, D
      <4> QED
        BY <2>i, <3>2, <3>4, <4>1, <4>2, <4>3 DEF Fills
    <3> QED
      BY <3>3, <3>4
  <2> QED
    BY <2>4, <2>5
<1>7. B = BitString(P, 8)
  <2>1. Len(B) = 8 * Len(P)
    BY <1>3, <1>p
  <2> QED
    BY <1>0, <1>2, <1>5, <1>6, <1>p, <2>1, BitStringOf
<1> QED
  BY <1>5, <1>7, <1>p DEF P, B, L, n, x

\* A string of bytes and elements, filled to whole bytes, is that of the bytes
\* and of the elements packed.
LEMMA WholeBytes ==
  ASSUME NEW d \in Seq(Words(8)), NEW v \in Seq(Words(4))
  PROVE  ToWholeBytes(BitString(d, 8) \o BitString(v, 4)) = BitString(d \o pack_gf16(v), 8)
<1> DEFINE x == BitString(d, 8)
           y == BitString(v, 4)
           m == Len(d)
           n == Len(v)
           fill == (8 - (Len(x \o y) % 8)) % 8
           zeros == [b \in 1..fill |-> FALSE]
           P == pack_gf16(v)
<1>0. d \in Seq(Nat) /\ v \in Seq(Nat) /\ 8 \in Nat \ {0} /\ 4 \in Nat \ {0}
      /\ m \in Nat /\ n \in Nat
  BY WordsNat
<1>1. x \in Seq(BOOLEAN) /\ Len(x) = 8 * m /\ y \in Seq(BOOLEAN) /\ Len(y) = 4 * n
  BY <1>0, BitStringBits
<1> HIDE DEF x, y, m, n
<1>2. Len(x \o y) = 8 * m + 4 * n
  BY <1>1, Joined
<1>3. fill = 8 * ((n + 1) \div 2) - 4 * n /\ fill \in Nat
  <2> DEFINE L == (n + 1) \div 2
             h == Len(x \o y)
  <2>1. fill = (8 - (h % 8)) % 8 /\ h = 8 * m + 4 * n
    BY <1>2
  <2>2. L \in Nat /\ (n = 2 * L \/ n = 2 * L - 1)
    BY <1>0
  <2> HIDE DEF L, h, fill
  <2>3. fill = 8 * L - 4 * n /\ fill \in Nat
    <3>1. CASE n = 2 * L
      <4> DEFINE c == m + L
      <4>1. c \in Nat /\ h = 8 * c
        BY <1>0, <2>1, <2>2, <3>1
      <4> HIDE DEF c
      <4>2. h % 8 = 0
        BY <4>1
      <4>3. fill = 0
        BY <2>1, <4>2
      <4> QED
        BY <2>2, <3>1, <4>3
    <3>2. CASE n = 2 * L - 1
      <4> DEFINE c == (m + L) - 1
      <4>1. c \in Nat /\ h = 8 * c + 4
        BY <1>0, <2>1, <2>2, <3>2
      <4> HIDE DEF c
      <4>2. h % 8 = 4
        BY <4>1
      <4>3. fill = 4
        BY <2>1, <4>2
      <4> QED
        BY <2>2, <3>2, <4>3
    <3> QED
      BY <2>2, <3>1, <3>2
  <2> QED
    BY <2>3 DEF L
<1>t. ToWholeBytes(x \o y) = (x \o y) \o zeros
  BY DEF ToWholeBytes
<1> HIDE DEF fill
<1>4. zeros \in Seq(BOOLEAN) /\ Len(zeros) = fill /\ \A b \in 1..Len(zeros) : ~zeros[b]
  <2>1. fill \in Nat
    BY <1>3
  <2>2. zeros \in [1..fill -> BOOLEAN] /\ \A b \in 1..fill : zeros[b] = FALSE
    OBVIOUS
  <2> HIDE DEF zeros
  <2> QED
    BY <2>1, <2>2
<1> HIDE DEF zeros, P
<1>5. P \in Seq(Words(8)) /\ y \o zeros = BitString(P, 8)
  <2>1. Fills(zeros, n)
    BY <1>3, <1>4 DEF Fills
  <2>2. Fills(zeros, Len(v)) /\ zeros \in Seq(BOOLEAN)
    BY <1>4, <2>1 DEF n
  <2>3. v \in Seq(Words(4))
    OBVIOUS
  <2>4. pack_gf16(v) \in Seq(Words(8)) /\ BitString(v, 4) \o zeros = BitString(pack_gf16(v), 8)
    BY <2>2, <2>3, PackedBits
  <2> QED
    BY <2>4 DEF y, P
<1>6. (x \o y) \o zeros = x \o (y \o zeros)
  <2>1. x \in Seq(BOOLEAN) /\ y \in Seq(BOOLEAN) /\ zeros \in Seq(BOOLEAN)
    BY <1>1, <1>4
  <2> QED
    BY <2>1, ConcatAssociative, SMTT(30)
<1>7. x \o BitString(P, 8) = BitString(d \o P, 8)
  <2>1. P \in Seq(Nat)
    BY <1>5, WordsNat
  <2> QED
    BY <1>0, <2>1, BitStringConcat DEF x
<1>8. (x \o y) \o zeros = x \o BitString(P, 8)
  BY <1>5, <1>6, Zenon
<1> QED
  BY <1>t, <1>7, <1>8, Zenon DEF x, y, P

\* A nonce in bytes has the bits of the nonce.
LEMMA NonceBytes ==
  ASSUME NEW n \in Words(PRESENTATION_NONCE_BITS)
  PROVE  /\ to_le_bytes(n) \in Seq(Words(8))
         /\ Len(to_le_bytes(n)) = NONCE_BYTES
         /\ u32_bits(n) = BitString(to_le_bytes(n), 8)
<1> DEFINE w == PRESENTATION_NONCE_BITS
           N == NONCE_BYTES
           V == to_le_bytes(n)
           one == <<n>>
           x == BitString(one, w)
<1>0. w \in Nat \ {0} /\ N \in Nat /\ w = 8 * N /\ 8 \in Nat \ {0}
  BY SizesAssumption DEF NONCE_BYTES
<1>n. n \in Nat /\ one \in Seq(Nat) /\ Len(one) = 1 /\ one[1] = n
  BY <1>0, WordsNat
<1>x. x = u32_bits(n)
  BY DEF u32_bits
<1>v. V = [i \in 1..N |-> (n \div Power[8 * (i - 1)]) % 256]
  BY DEF to_le_bytes
<1> HIDE DEF w, N, one, V
<1>1. /\ x \in Seq(BOOLEAN) /\ Len(x) = w * Len(one)
      /\ \A i \in 1..Len(one) : \A k \in 0..w - 1 : x[At(w, i, k)] <=> NumberBit(one[i], k)
  BY <1>0, <1>n, BitStringBits
<1> HIDE DEF x
<1>2. Len(x) = w /\ \A b \in 1..w : x[b] <=> NumberBit(n, b - 1)
  <2>1. w * 1 = w
    BY <1>0
  <2>2. ASSUME NEW b \in 1..w
        PROVE  x[b] <=> NumberBit(n, b - 1)
    <3> DEFINE k == b - 1
    <3>1. k \in 0..w - 1 /\ 1 \in 1..1
      BY <1>0
    <3>3. w * (1 - 1) = 0
      BY <1>0
    <3>4. At(w, 1, k) = b
      BY <3>3 DEF At
    <3> HIDE DEF k
    <3>5. x[At(w, 1, k)] <=> NumberBit(n, k)
      BY <1>1, <1>n, <3>1
    <3> QED
      BY <3>4, <3>5 DEF k
  <2> QED
    BY <1>1, <1>n, <2>1, <2>2
<1>3. ASSUME NEW i \in 1..N
      PROVE  /\ V[i] \in Words(8)
             /\ \A k \in 0..8 - 1 : x[At(8, i, k)] <=> NumberBit(V[i], k)
  <2> DEFINE a == 8 * (i - 1)
             q == n \div Power[a]
  <2>1. a \in Nat /\ a + 8 <= w /\ \A k \in 0..8 - 1 : At(8, i, k) = a + k + 1
    BY <1>0 DEF At
  <2>2. V[i] = q % 256 /\ q \in Nat
    <3>1. Power[a] \in Nat \ {0}
      BY <2>1, PowerSteps
    <3> HIDE DEF a
    <3>2. q \in Nat
      BY <1>n, <3>1, Divided, Zenon
    <3> QED
      BY <1>v, <3>2 DEF a
  <2>s. \A k \in Nat : NumberBit(q, k) <=> NumberBit(n, a + k)
    <3> HIDE DEF a
    <3> QED
      BY <1>n, <2>1, ShiftedBit
  <2> HIDE DEF a, q
  <2>3. Power[8] = 256
    BY PowerValues
  <2>4. q % 256 \in Words(8) /\ \A k \in 0..8 - 1 : NumberBit(q % 256, k) <=> NumberBit(q, k)
    BY <2>2, <2>3, LowBits
  <2>5. ASSUME NEW k \in 0..8 - 1
        PROVE  x[At(8, i, k)] <=> NumberBit(V[i], k)
    <3>1. a + k + 1 \in 1..w /\ (a + k + 1) - 1 = a + k
      BY <1>0, <2>1
    <3>2. x[a + k + 1] <=> NumberBit(n, a + k)
      BY <1>2, <3>1
    <3> QED
      BY <2>1, <2>2, <2>4, <2>s, <3>2
  <2> QED
    BY <2>2, <2>4, <2>5
<1>4. V \in Seq(Words(8)) /\ Len(V) = N /\ V \in Seq(Nat)
  <2>1. Words(8) \subseteq Nat
    BY WordsNat
  <2>2. V \in [1..N -> Words(8)]
    BY <1>3, <1>v
  <2> QED
    BY <1>0, <2>1, <2>2
<1>5. x = BitString(V, 8)
  <2>1. Len(x) = 8 * Len(V)
    BY <1>0, <1>2, <1>4
  <2> QED
    BY <1>0, <1>1, <1>3, <1>4, <2>1, BitStringOf
<1> QED
  BY <1>4, <1>5, <1>x DEF N, V

\* A message that fits is padded to the same block by wires and by bytes.
LEMMA PaddedBits ==
  ASSUME NEW m \in Seq(Words(8)), Len(m) < RATE_BYTES
  PROVE  /\ pad_single_block(m) \in SUBSET StateBits
         /\ initial_sponge_state(BitString(m, 8)) = pad_single_block(m)
<1> DEFINE x == BitString(m, 8)
           L == Len(m)
           in == {b \in 0..Len(x) - 1 : x[b + 1]}
           mark == {8 * L + k : k \in ByteBits(31)}
           end == 8 * RATE_BYTES - 1
<1>0. m \in Seq(Nat) /\ m \in Seq(0..255) /\ L \in Nat /\ 8 \in Nat \ {0}
  BY WordsNat, ByteWords
<1>1. /\ x \in Seq(BOOLEAN) /\ Len(x) = 8 * L
      /\ \A i \in 1..L : \A k \in 0..8 - 1 : x[At(8, i, k)] <=> NumberBit(m[i], k)
  BY <1>0, BitStringBits
<1>r. RATE_BYTES \in Nat /\ 0..8 * RATE_BYTES - 1 \subseteq StateBits
  BY RateValues DEF RATE
<1>2. in = BitsOf(m)
  <2>1. ASSUME NEW b \in Nat
        PROVE  b \in in <=> b \in BitsOf(m)
    <3> DEFINE i == (b \div 8) + 1
               k == b % 8
    <3>1. i \in Nat \ {0} /\ k \in 0..7 /\ k \in 0..8 - 1 /\ b + 1 = At(8, i, k)
      BY DEF At
    <3>2. b \in BitsOf(m) <=> i \in 1..L /\ k \in ByteBits(m[i])
      BY <1>0, BitOfBytes
    <3>3. b \in 0..8 * L - 1 <=> i \in 1..L
      BY <1>0
    <3> HIDE DEF x, i, k, L
    <3>4. CASE i \in 1..L
      <4>1. m[i] \in Nat
        BY <1>0, <3>4, ElementOfSeq DEF L
      <4>2. k \in ByteBits(m[i]) <=> NumberBit(m[i], k)
        BY <3>1, <4>1, BitsOfByte
      <4>3. x[b + 1] <=> NumberBit(m[i], k)
        BY <1>1, <3>1, <3>4
      <4> QED
        BY <1>1, <3>2, <3>3, <3>4, <4>2, <4>3
    <3>5. CASE i \notin 1..L
      BY <1>1, <3>2, <3>3, <3>5
    <3> QED
      BY <3>4, <3>5
  <2>2. \A b : b \in in => b \in Nat
    BY <1>0, <1>1
  <2>3. \A b : b \in BitsOf(m) => b \in Nat
    <3>1. \A i \in DOMAIN m : \A k \in ByteBits(m[i]) : 8 * (i - 1) + k \in Nat
      <4>1. DOMAIN m = 1..L
        BY <1>0
      <4> QED
        BY <4>1 DEF ByteBits
    <3> QED
      BY <3>1 DEF BitsOf
  <2> HIDE DEF in
  <2> QED
    BY <2>1, <2>2, <2>3
<1>3. \A b \in in \cup mark : b \in Nat /\ b < end
  <2>1. \A b \in in : b \in Nat /\ b < end
    BY <1>0, <1>1, <1>r
  <2>2. \A b \in mark : b \in Nat /\ b < end
    BY <1>0, <1>r, MarkerBits
  <2> QED
    BY <2>1, <2>2
<1>4. pad_single_block(m) = SymDiff(in \cup mark, {end})
  BY <1>2 DEF pad_single_block
<1>5. initial_sponge_state(x) = in \cup mark \cup {end}
  <2>1. initial_sponge_state(x) = in \cup {Len(x) + k : k \in ByteBits(31)} \cup {end}
    BY DEF initial_sponge_state
  <2> QED
    BY <1>1, <2>1
<1> HIDE DEF in, mark
<1>6. end \notin in \cup mark
  <2>1. end \in Int
    BY <1>r
  <2> HIDE DEF end
  <2> QED
    BY <1>3, <2>1
<1>7. SymDiff(in \cup mark, {end}) = in \cup mark \cup {end}
  <2> HIDE DEF end
  <2> QED
    BY <1>6 DEF SymDiff
<1>8. in \cup mark \cup {end} \in SUBSET StateBits
  <2>1. \A b \in in \cup mark \cup {end} : b \in 0..8 * RATE_BYTES - 1
    BY <1>3, <1>0, <1>r
  <2> QED
    BY <1>r, <2>1
<1> QED
  BY <1>4, <1>5, <1>7, <1>8 DEF x

-----------------------------------------------------------------------------
(* Rounds: states of the native hash and expressions of a group.           *)

\* The states of a hash follow one another by a round.
LEMMA RoundStatesSteps ==
  ASSUME NEW bytes, pad_single_block(bytes) \in SUBSET StateBits
  PROVE  /\ RoundStates(bytes)[0] = pad_single_block(bytes)
         /\ \A n \in 0..ROUNDS : RoundStates(bytes)[n] \in SUBSET StateBits
         /\ \A n \in 0..ROUNDS - 1 : RoundStates(bytes)[n + 1] = round(RoundStates(bytes)[n], RC[n])
<1> DEFINE x == pad_single_block(bytes)
           States == SUBSET StateBits
           f == [p \in Nat \X States |-> IF p[1] < ROUNDS THEN round(p[2], RC[p[1]]) ELSE p[2]]
           Body(g, i) == IF i = 0 THEN x
                         ELSE CHOOSE t \in {round(s, RC[i - 1]) : s \in {g[i - 1]}} : TRUE
           R == RoundStates(bytes)
<1>r. ROUNDS \in Nat /\ \A n \in Nat : n < ROUNDS => n \in 0..23
  BY LaneAssumption
<1>s. ASSUME NEW n \in Nat, n < ROUNDS, NEW s \in States
      PROVE  round(s, RC[n]) \in States
  <2>1. RC[n] \in States
    BY <1>r, <1>s, RoundConstant
  <2> QED
    BY <2>1, RoundAgrees
<1>x. x \in States
  OBVIOUS
<1> HIDE DEF x
<1>1. Starts(States, x, f)
  <2>1. \A p \in Nat \X States :
          (IF p[1] < ROUNDS THEN round(p[2], RC[p[1]]) ELSE p[2]) \in States
    BY <1>s
  <2> QED
    BY <1>x, <2>1 DEF Starts
<1>2. PICK g : Iteration(g, States, x, f)
  <2> HIDE DEF f, States
  <2> QED
    BY <1>1, IterationExists, Zenon
<1>3. g \in [Nat -> States] /\ g[0] = x
  BY <1>2 DEF Iteration
<1>4. ASSUME NEW n \in Nat, n < ROUNDS
      PROVE  g[n + 1] = round(g[n], RC[n])
  <2>1. g[n + 1] = f[<<n, g[n]>>] /\ <<n, g[n]>> \in Nat \X States
    BY <1>2, <1>3 DEF Iteration
  <2> QED
    BY <1>4, <2>1
<1>5. ASSUME NEW h, NEW i \in Nat
      PROVE  Body(h, i) = IF i = 0 THEN x ELSE round(h[i - 1], RC[i - 1])
  <2>1. {round(s, RC[i - 1]) : s \in {h[i - 1]}} = {round(h[i - 1], RC[i - 1])}
    OBVIOUS
  <2>2. (CHOOSE t \in {round(s, RC[i - 1]) : s \in {h[i - 1]}} : TRUE) = round(h[i - 1], RC[i - 1])
    BY <2>1, OnlyChoice, Zenon
  <2> QED
    BY <2>2, Zenon
<1>7a. R = CHOOSE h : h = [n \in 0..ROUNDS |-> Body(h, n)]
  BY DEF RoundStates, x
<1> HIDE DEF f, Body, R
<1> DEFINE h == [n \in 0..ROUNDS |-> g[n]]
<1>h. \A n \in 0..ROUNDS : h[n] = g[n]
  OBVIOUS
<1>6. h = [n \in 0..ROUNDS |-> Body(h, n)]
  <2>1. ASSUME NEW i \in 0..ROUNDS
        PROVE  g[i] = Body(h, i)
    <3>0. i \in Nat
      BY <1>r
    <3>1. CASE i = 0
      BY <1>3, <1>5, <3>0, <3>1
    <3>2. CASE i # 0
      <4>1. i - 1 \in Nat /\ (i - 1) + 1 = i /\ i - 1 < ROUNDS /\ i - 1 \in 0..ROUNDS
        BY <1>r, <3>2
      <4>2. g[i] = round(g[i - 1], RC[i - 1])
        BY <1>4, <4>1, Zenon
      <4>3. h[i - 1] = g[i - 1]
        BY <1>h, <4>1
      <4> HIDE DEF h
      <4> QED
        BY <1>5, <3>0, <3>2, <4>2, <4>3
    <3> QED
      BY <3>1, <3>2
  <2> QED
    BY <2>1
<1> HIDE DEF h
<1>7. R = [n \in 0..ROUNDS |-> Body(R, n)]
  BY <1>6, <1>7a
<1>8. R[0] = x
  BY <1>5, <1>7, <1>r
<1>9. ASSUME NEW n \in 0..ROUNDS - 1
      PROVE  R[n + 1] = round(R[n], RC[n])
  <2> DEFINE m == n + 1
  <2>1. m \in Nat /\ m \in 0..ROUNDS /\ m # 0 /\ m - 1 = n
    BY <1>r
  <2> HIDE DEF m
  <2>2. R[m] = Body(R, m)
    BY <1>7, <2>1
  <2>3. Body(R, m) = round(R[n], RC[n])
    BY <1>5, <2>1
  <2> QED
    BY <2>2, <2>3 DEF m
<1>10. \A n \in 0..ROUNDS : R[n] \in States
  <2> DEFINE E == {n \in Nat : n <= ROUNDS => R[n] \in States}
  <2>1. 0 \in E
    BY <1>8, <1>x
  <2>2. ASSUME NEW n \in Nat, n \in E
        PROVE  n + 1 \in E
    <3>1. CASE n + 1 <= ROUNDS
      <4>1. n \in 0..ROUNDS - 1 /\ n < ROUNDS /\ n <= ROUNDS
        BY <1>r, <3>1
      <4>2. R[n + 1] = round(R[n], RC[n]) /\ R[n] \in States
        BY <1>9, <2>2, <4>1
      <4>3. R[n + 1] \in States
        BY <1>s, <4>1, <4>2
      <4> QED
        BY <4>3
    <3>2. CASE ~(n + 1 <= ROUNDS)
      BY <3>2
    <3> QED
      BY <3>1, <3>2
  <2> HIDE DEF E
  <2>3. \A n \in Nat : n \in E
    BY <2>1, <2>2, Induction
  <2> QED
    BY <1>r, <2>3 DEF E
<1> QED
  BY <1>8, <1>9, <1>10 DEF R, x

\* The expressions of a group of rounds do too.
LEMMA ExpressionRoundsSteps ==
  ASSUME NEW s \in SUBSET StateBits, NEW first \in Nat
  PROVE  /\ ExpressionRounds(s, first)[0] = s
         /\ \A n \in Nat : ExpressionRounds(s, first)[n + 1]
                             = keccak_round_expr(ExpressionRounds(s, first)[n], RC[first + n])
<1> DEFINE States == SUBSET StateBits
           f == [p \in Nat \X States |-> keccak_round_expr(p[2], RC[first + p[1]])]
           Body(g, i) == IF i = 0 THEN s
                         ELSE CHOOSE t \in {keccak_round_expr(A, RC[first + i - 1]) :
                                            A \in {g[i - 1]}} : TRUE
           R == ExpressionRounds(s, first)
<1>1. Starts(States, s, f)
  <2>1. \A A, rc : keccak_round_expr(A, rc) \in States
    BY DEF keccak_round_expr
  <2>2. \A p \in Nat \X States : keccak_round_expr(p[2], RC[first + p[1]]) \in States
    BY <2>1, Zenon
  <2> QED
    BY <2>2 DEF Starts
<1>2. PICK g : Iteration(g, States, s, f)
  <2> HIDE DEF f, States
  <2> QED
    BY <1>1, IterationExists, Zenon
<1>3. g \in [Nat -> States] /\ g[0] = s
  BY <1>2 DEF Iteration
<1>4. ASSUME NEW n \in Nat
      PROVE  g[n + 1] = keccak_round_expr(g[n], RC[first + n])
  <2>1. g[n + 1] = f[<<n, g[n]>>] /\ <<n, g[n]>> \in Nat \X States
    BY <1>2, <1>3 DEF Iteration
  <2> QED
    BY <2>1
<1>5. ASSUME NEW h, NEW i \in Nat
      PROVE  Body(h, i) = IF i = 0 THEN s ELSE keccak_round_expr(h[i - 1], RC[first + i - 1])
  <2>1. {keccak_round_expr(A, RC[first + i - 1]) : A \in {h[i - 1]}}
          = {keccak_round_expr(h[i - 1], RC[first + i - 1])}
    OBVIOUS
  <2>2. (CHOOSE t \in {keccak_round_expr(A, RC[first + i - 1]) : A \in {h[i - 1]}} : TRUE)
          = keccak_round_expr(h[i - 1], RC[first + i - 1])
    BY <2>1, OnlyChoice, Zenon
  <2> QED
    BY <2>2, Zenon
<1>7a. R = CHOOSE h : h = [n \in Nat |-> Body(h, n)]
  BY DEF ExpressionRounds
<1> HIDE DEF f, Body, R
<1>6. g = [i \in Nat |-> Body(g, i)]
  <2>1. ASSUME NEW i \in Nat
        PROVE  g[i] = Body(g, i)
    <3>1. CASE i = 0
      BY <1>3, <1>5, <3>1
    <3>2. CASE i # 0
      <4>1. i - 1 \in Nat /\ (i - 1) + 1 = i /\ first + (i - 1) = first + i - 1
        BY <3>2
      <4>2. g[(i - 1) + 1] = keccak_round_expr(g[i - 1], RC[first + (i - 1)])
        BY <1>4, <4>1, Zenon
      <4>3. g[i] = keccak_round_expr(g[i - 1], RC[first + i - 1])
        BY <4>1, <4>2, Zenon
      <4> QED
        BY <1>5, <3>2, <4>3
    <3> QED
      BY <3>1, <3>2
  <2> QED
    BY <1>3, <2>1
<1>7. R = [i \in Nat |-> Body(R, i)]
  BY <1>6, <1>7a
<1>8. R[0] = s
  BY <1>5, <1>7
<1>9. ASSUME NEW n \in Nat
      PROVE  R[n + 1] = keccak_round_expr(R[n], RC[first + n])
  <2> DEFINE m == n + 1
  <2>1. m \in Nat /\ m # 0 /\ m - 1 = n /\ first + m - 1 = first + n
    OBVIOUS
  <2> HIDE DEF m
  <2>2. R[m] = Body(R, m)
    BY <1>7, <2>1
  <2>3. Body(R, m) = keccak_round_expr(R[m - 1], RC[first + m - 1])
    BY <1>5, <2>1
  <2>4. R[m] = keccak_round_expr(R[n], RC[first + n])
    BY <2>1, <2>2, <2>3, Zenon
  <2> QED
    BY <2>4 DEF m
<1> QED
  BY <1>8, <1>9 DEF R

\* Four rounds on expressions are four rounds of the hash.
LEMMA GroupOfRounds ==
  ASSUME NEW bytes, pad_single_block(bytes) \in SUBSET StateBits,
         NEW g \in Nat, 4 * g + 4 <= ROUNDS
  PROVE  /\ ExpressionRounds(RoundStates(bytes)[4 * g], 4 * g)[4] = RoundStates(bytes)[4 * g + 4]
         /\ RoundStates(bytes)[4 * g + 4] \in SUBSET StateBits
<1> DEFINE R == RoundStates(bytes)
           a == 4 * g
           Wires == ExpressionRounds(R[a], a)
<1>0. ROUNDS \in Nat /\ ROUNDS <= 24
  BY LaneAssumption
<1>1. a \in Nat /\ a + 4 <= ROUNDS
  OBVIOUS
<1>2. /\ \A n \in 0..ROUNDS : R[n] \in SUBSET StateBits
      /\ \A n \in 0..ROUNDS - 1 : R[n + 1] = round(R[n], RC[n])
  BY RoundStatesSteps
<1> HIDE DEF a, R
<1>3. R[a] \in SUBSET StateBits
  BY <1>0, <1>1, <1>2
<1>4. /\ Wires[0] = R[a]
      /\ \A n, m \in Nat : m = n + 1 => Wires[m] = keccak_round_expr(Wires[n], RC[a + n])
  BY <1>1, <1>3, ExpressionRoundsSteps
<1> HIDE DEF Wires
<1>5. ASSUME NEW n \in 0..3, NEW m \in Nat, m = n + 1, Wires[n] = R[a + n]
      PROVE  Wires[m] = R[a + m]
  <2> DEFINE i == a + n
  <2>1. i \in 0..ROUNDS /\ i \in 0..ROUNDS - 1 /\ i \in 0..23 /\ i + 1 = a + m
    BY <1>0, <1>1, <1>5
  <2>2. Wires[m] = keccak_round_expr(Wires[n], RC[i])
    BY <1>4, <1>5
  <2>i. Wires[n] = R[i]
    BY <1>5
  <2> HIDE DEF i
  <2>3. R[i] \in SUBSET StateBits /\ RC[i] \in SUBSET StateBits
    BY <1>2, <2>1, RoundConstant
  <2>4. R[i + 1] = round(R[i], RC[i])
    BY <1>2, <2>1
  <2>5. round(R[i], RC[i]) = keccak_round_expr(R[i], RC[i])
    BY <2>3, RoundAgrees
  <2> QED
    BY <2>1, <2>2, <2>4, <2>5, <2>i
<1>6. Wires[0] = R[a + 0]
  <2>1. a + 0 = a
    BY <1>1
  <2> QED
    BY <1>4, <2>1
<1>7. Wires[1] = R[a + 1]
  BY <1>5, <1>6
<1>8. Wires[2] = R[a + 2]
  BY <1>5, <1>7
<1>9. Wires[3] = R[a + 3]
  BY <1>5, <1>8
<1>10. Wires[4] = R[a + 4]
  BY <1>5, <1>9
<1>11. R[a + 4] \in SUBSET StateBits
  BY <1>0, <1>1, <1>2
<1> QED
  BY <1>10, <1>11 DEF Wires, R, a

-----------------------------------------------------------------------------
(* The range check: carries of value + !limit + 1.                         *)

\* Two of three.
Majority(a, b, c) == (a /\ b) \/ (a /\ c) \/ (b /\ c)

\* A carry is the majority of two bits and the carry before.
LEMMA CarriesSteps ==
  ASSUME NEW value \in Nat, NEW limit \in Nat
  PROVE  /\ Carries(value, limit) \in [Nat -> BOOLEAN]
         /\ Carries(value, limit)[0] = TRUE
         /\ \A n \in Nat : Carries(value, limit)[n + 1]
                             <=> Majority(NumberBit(value, n), ~NumberBit(limit, n),
                                          Carries(value, limit)[n])
<1> DEFINE a(k) == (value \div Power[k - 1]) % 2
           b(k) == 1 - ((limit \div Power[k - 1]) % 2)
           Sum(k, c) == a(k) + b(k) + (IF c THEN 1 ELSE 0)
           f == [p \in Nat \X BOOLEAN |-> Sum(p[1] + 1, p[2]) >= 2]
           Body(g, k) == IF k = 0 THEN TRUE ELSE a(k) + b(k) + (IF g[k - 1] THEN 1 ELSE 0) >= 2
           R == Carries(value, limit)
<1>m. ASSUME NEW n \in Nat, NEW c \in BOOLEAN
      PROVE  Sum(n + 1, c) >= 2 <=> Majority(NumberBit(value, n), ~NumberBit(limit, n), c)
  <2> DEFINE P == Power[n]
             v == (value \div P) % 2
             l == (limit \div P) % 2
  <2>1. P \in Nat \ {0}
    BY PowerSteps
  <2>2. v \in 0..1 /\ l \in 0..1
    <3> HIDE DEF P
    <3> QED
      BY <2>1
  <2>3. (NumberBit(value, n) <=> v = 1) /\ (NumberBit(limit, n) <=> l = 1)
    BY DEF NumberBit
  <2>4. Sum(n + 1, c) = v + (1 - l) + (IF c THEN 1 ELSE 0)
    <3>1. (n + 1) - 1 = n
      OBVIOUS
    <3> QED
      BY <3>1
  <2> HIDE DEF v, l, Sum
  <2> QED
    BY <2>2, <2>3, <2>4 DEF Majority
<1>1. Starts(BOOLEAN, TRUE, f)
  <2>1. \A p \in Nat \X BOOLEAN : (Sum(p[1] + 1, p[2]) >= 2) \in BOOLEAN
    OBVIOUS
  <2> HIDE DEF Sum
  <2> QED
    BY <2>1 DEF Starts
<1>2. PICK g : Iteration(g, BOOLEAN, TRUE, f)
  <2> HIDE DEF f
  <2> QED
    BY <1>1, IterationExists, Zenon
<1>3. g \in [Nat -> BOOLEAN] /\ g[0] = TRUE
  BY <1>2 DEF Iteration
<1>4. ASSUME NEW n \in Nat
      PROVE  g[n + 1] = (Sum(n + 1, g[n]) >= 2)
  <2>1. g[n + 1] = f[<<n, g[n]>>] /\ <<n, g[n]>> \in Nat \X BOOLEAN
    BY <1>2, <1>3 DEF Iteration
  <2> HIDE DEF Sum
  <2> QED
    BY <2>1
<1>5. ASSUME NEW h, NEW k \in Nat
      PROVE  Body(h, k) = IF k = 0 THEN TRUE ELSE Sum(k, h[k - 1]) >= 2
  OBVIOUS
<1>7a. R = CHOOSE h : h = [k \in Nat |-> Body(h, k)]
  BY DEF Carries
<1> HIDE DEF f, Body, R, Sum
<1>6. g = [k \in Nat |-> Body(g, k)]
  <2>1. ASSUME NEW k \in Nat
        PROVE  g[k] = Body(g, k)
    <3>1. CASE k = 0
      BY <1>3, <1>5, <3>1
    <3>2. CASE k # 0
      <4>1. k - 1 \in Nat /\ (k - 1) + 1 = k
        BY <3>2
      <4>2. g[k] = (Sum(k, g[k - 1]) >= 2)
        BY <1>4, <4>1, Zenon
      <4> QED
        BY <1>5, <3>2, <4>2
    <3> QED
      BY <3>1, <3>2
  <2> QED
    BY <1>3, <2>1
<1>7. R = [k \in Nat |-> Body(R, k)]
  BY <1>6, <1>7a
<1>8. R[0] = TRUE
  BY <1>5, <1>7
<1>9. ASSUME NEW n \in Nat
      PROVE  R[n + 1] = (Sum(n + 1, R[n]) >= 2)
  <2> DEFINE m == n + 1
  <2>1. m \in Nat /\ m # 0 /\ m - 1 = n
    OBVIOUS
  <2> HIDE DEF m
  <2>2. R[m] = Body(R, m)
    BY <1>7, <2>1
  <2>3. Body(R, m) = (Sum(m, R[n]) >= 2)
    BY <1>5, <2>1
  <2> QED
    BY <2>2, <2>3 DEF m
<1>10. \A n \in Nat : R[n] \in BOOLEAN
  <2> DEFINE E == {n \in Nat : R[n] \in BOOLEAN}
  <2>1. 0 \in E
    BY <1>8
  <2>2. ASSUME NEW n \in Nat, n \in E
        PROVE  n + 1 \in E
    <3>1. R[n + 1] = (Sum(n + 1, R[n]) >= 2)
      BY <1>9
    <3>2. R[n + 1] \in BOOLEAN
      BY <3>1
    <3> QED
      BY <3>2
  <2> HIDE DEF E
  <2>3. \A n \in Nat : n \in E
    BY <2>1, <2>2, Induction
  <2> QED
    BY <2>3 DEF E
<1>11. R \in [Nat -> BOOLEAN]
  BY <1>7, <1>10
<1>12. ASSUME NEW n \in Nat
       PROVE  R[n + 1] <=> Majority(NumberBit(value, n), ~NumberBit(limit, n), R[n])
  <2>1. R[n] \in BOOLEAN
    BY <1>10
  <2>2. Sum(n + 1, R[n]) >= 2 <=> Majority(NumberBit(value, n), ~NumberBit(limit, n), R[n])
    BY <1>m, <2>1
  <2>3. R[n + 1] = (Sum(n + 1, R[n]) >= 2)
    BY <1>9
  <2> QED
    BY <2>2, <2>3
<1> QED
  BY <1>8, <1>11, <1>12 DEF R

\* The carries compare the bits so far.
LEMMA CarryCompares ==
  ASSUME NEW value \in Nat, NEW limit \in Nat
  PROVE  \A k \in Nat : Carries(value, limit)[k] <=> value % Power[k] >= limit % Power[k]
<1> DEFINE C == Carries(value, limit)
           E == {k \in Nat : C[k] <=> value % Power[k] >= limit % Power[k]}
<1>0. /\ C \in [Nat -> BOOLEAN] /\ C[0] = TRUE
      /\ \A n \in Nat : C[n + 1] <=> Majority(NumberBit(value, n), ~NumberBit(limit, n), C[n])
  BY CarriesSteps
<1> HIDE DEF C
<1>1. 0 \in E
  <2>1. Power[0] = 1 /\ value % 1 = 0 /\ limit % 1 = 0
    BY PowerSteps
  <2> QED
    BY <1>0, <2>1
<1>2. ASSUME NEW k \in Nat, k \in E
      PROVE  k + 1 \in E
  <2> DEFINE P == Power[k]
             v == value % P
             l == limit % P
             x == NumberBit(value, k)
             y == NumberBit(limit, k)
  <2>1. P \in Nat \ {0}
    BY PowerSteps
  <2>2. v \in 0..P - 1 /\ l \in 0..P - 1
    <3> HIDE DEF P
    <3> QED
      BY <2>1
  <2>3. /\ value % Power[k + 1] = v + (IF x THEN P ELSE 0)
        /\ limit % Power[k + 1] = l + (IF y THEN P ELSE 0)
    BY HighBit
  <2>4. C[k] <=> v >= l
    BY <1>2
  <2>5. C[k + 1] <=> Majority(x, ~y, C[k])
    BY <1>0
  <2> HIDE DEF P, v, l, x, y
  <2>6. Majority(x, ~y, C[k]) <=> v + (IF x THEN P ELSE 0) >= l + (IF y THEN P ELSE 0)
    BY <2>1, <2>2, <2>4 DEF Majority
  <2>7. C[k + 1] <=> value % Power[k + 1] >= limit % Power[k + 1]
    BY <2>3, <2>5, <2>6
  <2> QED
    BY <2>7
<1> HIDE DEF E
<1>3. \A k \in Nat : k \in E
  BY <1>1, <1>2, Induction
<1> QED
  BY <1>3 DEF E, C

\* The bits of a single word.
LEMMA BitsOfWord ==
  ASSUME NEW w \in Nat \ {0}, NEW n \in Nat
  PROVE  /\ BitString(<<n>>, w) \in Seq(BOOLEAN)
         /\ Len(BitString(<<n>>, w)) = w
         /\ \A b \in 1..w : BitString(<<n>>, w)[b] <=> NumberBit(n, b - 1)
<1> DEFINE one == <<n>>
           x == BitString(one, w)
<1>0. one \in Seq(Nat) /\ Len(one) = 1 /\ one[1] = n
  OBVIOUS
<1> HIDE DEF one
<1>1. /\ x \in Seq(BOOLEAN) /\ Len(x) = w * Len(one)
      /\ \A i \in 1..Len(one) : \A k \in 0..w - 1 : x[At(w, i, k)] <=> NumberBit(one[i], k)
  BY <1>0, BitStringBits
<1> HIDE DEF x
<1>2. w * 1 = w
  OBVIOUS
<1>3. ASSUME NEW b \in 1..w
      PROVE  x[b] <=> NumberBit(n, b - 1)
  <2> DEFINE k == b - 1
  <2>1. k \in 0..w - 1 /\ 1 \in 1..1
    OBVIOUS
  <2>2. w * (1 - 1) = 0
    OBVIOUS
  <2>3. At(w, 1, k) = b
    BY <2>2 DEF At
  <2> HIDE DEF k
  <2>4. x[At(w, 1, k)] <=> NumberBit(n, k)
    BY <1>0, <1>1, <2>1
  <2> QED
    BY <2>3, <2>4 DEF k
<1> QED
  BY <1>0, <1>1, <1>2, <1>3 DEF x, one

\* The carries that an honest prover writes.
LEMMA HonestCarries ==
  ASSUME NEW value \in Nat, NEW limit \in Nat
  PROVE  /\ less_than_carries(value, limit) \in Seq(BOOLEAN)
         /\ Len(less_than_carries(value, limit)) = PRESENTATION_NONCE_BITS
         /\ \A k \in 1..PRESENTATION_NONCE_BITS :
              less_than_carries(value, limit)[k] = Carries(value, limit)[k]
<1> DEFINE w == PRESENTATION_NONCE_BITS
           C == Carries(value, limit)
           x == less_than_carries(value, limit)
<1>0. w \in Nat
  BY SizesAssumption
<1>1. C \in [Nat -> BOOLEAN]
  BY CarriesSteps
<1>2. x = [k \in 1..w |-> C[k]]
  BY DEF less_than_carries
<1> HIDE DEF w, C, x
<1>3. x \in [1..w -> BOOLEAN] /\ \A k \in 1..w : x[k] = C[k]
  BY <1>0, <1>1, <1>2
<1> QED
  BY <1>0, <1>3 DEF w, C, x

\* The range assertions hold of the carries of an honest prover whose nonce is
\* below the limit, and of nothing else.
LEMMA RangeIsHonest ==
  ASSUME NEW value \in Words(PRESENTATION_NONCE_BITS),
         circuit.presentation_limit \in Words(PRESENTATION_NONCE_BITS),
         wires.presentation_nonce = u32_bits(value),
         wires.carries \in Seq(BOOLEAN), Len(wires.carries) = PRESENTATION_NONCE_BITS
  PROVE  RangeHolds <=> /\ wires.carries = less_than_carries(value, circuit.presentation_limit)
                        /\ value < circuit.presentation_limit
<1> DEFINE w == PRESENTATION_NONCE_BITS
           limit == circuit.presentation_limit
           c == wires.carries
           x == wires.presentation_nonce
           C == Carries(value, limit)
           In(k) == IF k = 1 THEN TRUE ELSE c[k - 1]
           Equation(k) == c[k] = (((~NumberBit(limit, k - 1) /\ x[k]) # (x[k] /\ In(k)))
                                     # (~NumberBit(limit, k - 1) /\ In(k)))
           P == Power[w]
           H == less_than_carries(value, limit)
<1>0. w \in Nat \ {0} /\ value \in Nat /\ limit \in Nat /\ P \in Nat \ {0} /\ value < P /\ limit < P
  BY SizesAssumption, WordsNat, PowerSteps
<1>1. \A b \in 1..w : x[b] <=> NumberBit(value, b - 1)
  <2>1. x = BitString(<<value>>, w)
    BY DEF u32_bits
  <2> HIDE DEF w, x
  <2> QED
    BY <1>0, <2>1, BitsOfWord
<1>b. \A b \in 1..w : x[b] \in BOOLEAN
  <2>1. x = BitString(<<value>>, w)
    BY DEF u32_bits
  <2>2. x \in Seq(BOOLEAN) /\ Len(x) = w
    <3> HIDE DEF w, x
    <3> QED
      BY <1>0, <2>1, BitsOfWord
  <2> HIDE DEF w, x
  <2> QED
    BY <2>2
<1>2. /\ C \in [Nat -> BOOLEAN] /\ C[0] = TRUE
      /\ \A n \in Nat : C[n + 1] <=> Majority(NumberBit(value, n), ~NumberBit(limit, n), C[n])
  <2> HIDE DEF limit
  <2> QED
    BY <1>0, CarriesSteps
<1>3. C[w] <=> value >= limit
  <2> HIDE DEF w, limit
  <2>1. C[w] <=> value % P >= limit % P
    BY <1>0, CarryCompares
  <2> HIDE DEF P, C
  <2>2. value % P = value /\ limit % P = limit
    BY <1>0
  <2> QED
    BY <2>1, <2>2
<1>4. H \in Seq(BOOLEAN) /\ Len(H) = w /\ \A k \in 1..w : H[k] = C[k]
  <2> HIDE DEF limit
  <2> QED
    BY <1>0, HonestCarries
<1>5. c \in Seq(BOOLEAN) /\ Len(c) = w
  OBVIOUS
<1>n. \A k \in 1..w : ~NumberBit(limit, k - 1) <=> (limit \div Power[k - 1]) % 2 = 0
  <2>1. ASSUME NEW k \in 1..w
        PROVE  ~NumberBit(limit, k - 1) <=> (limit \div Power[k - 1]) % 2 = 0
    <3> DEFINE D == Power[k - 1]
               e == (limit \div D) % 2
    <3>1. k - 1 \in Nat
      BY <1>0
    <3>2. D \in Nat \ {0}
      BY <3>1, PowerSteps
    <3> HIDE DEF D, limit
    <3>3. e \in 0..1
      BY <1>0, <3>2
    <3>4. NumberBit(limit, k - 1) <=> e = 1
      BY DEF NumberBit, D
    <3> HIDE DEF e
    <3>5. ~NumberBit(limit, k - 1) <=> e = 0
      BY <3>3, <3>4
    <3> QED
      BY <3>5 DEF e, D
  <2> QED
    BY <2>1
<1>6. RangeHolds <=> (\A k \in 1..w : Equation(k)) /\ ~c[w]
  <2>1. RangeHolds
          <=> /\ \A k \in 1..w :
                   c[k] = ((((limit \div Power[k - 1]) % 2 = 0 /\ x[k]) # (x[k] /\ In(k)))
                            # ((limit \div Power[k - 1]) % 2 = 0 /\ In(k)))
              /\ ~c[w]
    BY Zenon DEF RangeHolds
  <2>2. ASSUME NEW k \in 1..w
        PROVE  ((((limit \div Power[k - 1]) % 2 = 0 /\ x[k]) # (x[k] /\ In(k)))
                            # ((limit \div Power[k - 1]) % 2 = 0 /\ In(k)))
               = (((~NumberBit(limit, k - 1) /\ x[k]) # (x[k] /\ In(k)))
                                     # (~NumberBit(limit, k - 1) /\ In(k)))
    <3>1. (~NumberBit(limit, k - 1)) = ((limit \div Power[k - 1]) % 2 = 0)
      BY <1>n
    <3> QED
      BY <3>1, Zenon
  <2> QED
    BY <2>1, <2>2, Zenon
<1>e. ASSUME NEW n \in 0..w - 1, NEW k \in 1..w, k = n + 1,
             IF n = 0 THEN TRUE ELSE c[n] = C[n]
      PROVE  Equation(k) <=> c[k] = C[k]
  <2> DEFINE a == NumberBit(value, n)
             b == ~NumberBit(limit, n)
             d == C[n]
  <2>1. k - 1 = n /\ n \in Nat
    BY <1>0, <1>e
  <2>2. In(k) = d
    <3>1. CASE n = 0
      <4>1. k = 1
        BY <1>e, <3>1
      <4>2. In(k) = TRUE
        BY <4>1
      <4>3. d = TRUE
        BY <1>2, <3>1
      <4> QED
        BY <4>2, <4>3, Zenon
    <3>2. CASE n # 0
      <4>1. k # 1
        BY <1>e, <3>2
      <4> QED
        BY <1>e, <2>1, <3>2, <4>1
    <3> QED
      BY <3>1, <3>2
  <2>3. x[k] = a
    <3>1. x[k] \in BOOLEAN
      BY <1>b
    <3> QED
      BY <1>1, <2>1, <3>1 DEF NumberBit
  <2>4. C[k] <=> Majority(a, b, d)
    BY <1>2, <1>e, <2>1
  <2>5. Equation(k) <=> c[k] = (((b /\ a) # (a /\ d)) # (b /\ d))
    <3>1. Equation(k) <=> c[k] = (((~NumberBit(limit, k - 1) /\ x[k]) # (x[k] /\ In(k)))
                                     # (~NumberBit(limit, k - 1) /\ In(k)))
      OBVIOUS
    <3> HIDE DEF In, Equation, x
    <3> QED
      BY <2>1, <2>2, <2>3, <3>1, Zenon
  <2>6. c[k] \in BOOLEAN /\ C[k] \in BOOLEAN /\ d \in BOOLEAN /\ a \in BOOLEAN /\ b \in BOOLEAN
    <3>1. k \in Nat
      BY <1>0
    <3> QED
      BY <1>2, <1>5, <2>1, <3>1 DEF NumberBit
  <2> HIDE DEF Equation, c, C, a, b, d
  <2> QED
    BY <2>4, <2>5, <2>6 DEF Majority
<1> HIDE DEF Equation, In, C, H, c, x, limit, w, P
<1>7. (\A k \in 1..w : Equation(k)) <=> c = H
  <2>1. ASSUME \A k \in 1..w : Equation(k)
        PROVE  c = H
    <3> DEFINE E == {n \in Nat : n # 0 /\ n <= w => c[n] = C[n]}
    <3>1. 0 \in E
      OBVIOUS
    <3>2. ASSUME NEW n \in Nat, n \in E
          PROVE  n + 1 \in E
      <4> DEFINE k == n + 1
      <4>1. CASE k <= w
        <5>1. n \in 0..w - 1 /\ k \in 1..w /\ k = n + 1
          BY <1>0, <4>1
        <5>2. IF n = 0 THEN TRUE ELSE c[n] = C[n]
          <6>1. n <= w
            BY <1>0, <5>1
          <6> QED
            BY <3>2, <6>1
        <5>3. c[k] = C[k]
          BY <1>e, <2>1, <5>1, <5>2
        <5> QED
          BY <5>1, <5>3
      <4>2. CASE ~(k <= w)
        BY <4>2
      <4> QED
        BY <4>1, <4>2
    <3> HIDE DEF E
    <3>3. \A n \in Nat : n \in E
      BY <3>1, <3>2, Induction
    <3>4. ASSUME NEW k \in 1..w
          PROVE  c[k] = H[k]
      <4>1. k \in Nat /\ k # 0 /\ k <= w
        BY <1>0
      <4>2. c[k] = C[k]
        BY <3>3, <4>1 DEF E
      <4> QED
        BY <1>4, <4>2
    <3> QED
      BY <1>4, <1>5, <3>4
  <2>2. ASSUME c = H, NEW k \in 1..w
        PROVE  Equation(k)
    <3> DEFINE n == k - 1
    <3>1. n \in 0..w - 1 /\ k = n + 1
      BY <1>0
    <3>2. IF n = 0 THEN TRUE ELSE c[n] = C[n]
      <4>1. n # 0 => n \in 1..w
        BY <1>0, <3>1
      <4> HIDE DEF n
      <4> QED
        BY <1>4, <2>2, <4>1
    <3>3. c[k] = C[k]
      BY <1>4, <2>2
    <3> HIDE DEF n
    <3> QED
      BY <1>e, <3>1, <3>2, <3>3
  <2> QED
    BY <2>1, <2>2
<1>8. c = H => (~c[w] <=> value < limit)
  <2>1. w \in 1..w
    BY <1>0
  <2>2. ~C[w] <=> value < limit
    BY <1>0, <1>3
  <2> QED
    BY <1>4, <2>1, <2>2
<1> QED
  BY <1>6, <1>7, <1>8, Zenon DEF c, H, limit

-----------------------------------------------------------------------------
(* The checkpoints of a hash on a tape, and its output.                    *)

\* The checkpoints of a hash are written one after the other.
LEMMA CheckpointsSteps ==
  ASSUME NEW bytes
  PROVE  /\ Checkpoints(bytes)[0] = <<>>
         /\ \A n \in Nat : Checkpoints(bytes)[n] \in Seq(BOOLEAN)
         /\ \A n \in Nat : Checkpoints(bytes)[n + 1]
              = Checkpoints(bytes)[n] \o state_bits(RoundStates(bytes)[4 * (n + 1)])
<1> DEFINE Strings == Seq(BOOLEAN)
           states == RoundStates(bytes)
           Longer(n, x) == x \o state_bits(states[4 * n])
           f == [p \in Nat \X Strings |-> Longer(p[1] + 1, p[2])]
           Body(g, i) == IF i = 0 THEN <<>> ELSE Longer(i, g[i - 1])
           R == Checkpoints(bytes)
<1>s. ASSUME NEW n, NEW x \in Strings
      PROVE  Longer(n, x) \in Strings
  <2> DEFINE y == state_bits(states[4 * n])
  <2>1. y \in Seq(BOOLEAN)
    BY StateBitsSeq
  <2> HIDE DEF y
  <2>2. x \o y \in Strings
    BY <2>1, Joined
  <2> QED
    BY <2>2 DEF y
<1>7a. R = CHOOSE h : h = [n \in Nat |-> Body(h, n)]
  BY DEF Checkpoints
<1> HIDE DEF Longer, states, R
<1>1. Starts(Strings, <<>>, f)
  <2>1. \A p \in Nat \X Strings : Longer(p[1] + 1, p[2]) \in Strings
    BY <1>s
  <2>2. <<>> \in Strings
    OBVIOUS
  <2> QED
    BY <2>1, <2>2 DEF Starts
<1>2. PICK g : Iteration(g, Strings, <<>>, f)
  <2> HIDE DEF f, Strings
  <2> QED
    BY <1>1, IterationExists, Zenon
<1>3. g \in [Nat -> Strings] /\ g[0] = <<>>
  BY <1>2 DEF Iteration
<1>4. ASSUME NEW n \in Nat
      PROVE  g[n + 1] = Longer(n + 1, g[n])
  <2>1. g[n + 1] = f[<<n, g[n]>>] /\ <<n, g[n]>> \in Nat \X Strings
    BY <1>2, <1>3 DEF Iteration
  <2> QED
    BY <2>1
<1>5. ASSUME NEW h, NEW i \in Nat
      PROVE  Body(h, i) = IF i = 0 THEN <<>> ELSE Longer(i, h[i - 1])
  BY Zenon
<1> HIDE DEF f, Body
<1>6. g = [i \in Nat |-> Body(g, i)]
  <2>1. ASSUME NEW i \in Nat
        PROVE  g[i] = Body(g, i)
    <3>1. CASE i = 0
      BY <1>3, <1>5, <3>1
    <3>2. CASE i # 0
      <4>1. i - 1 \in Nat /\ (i - 1) + 1 = i
        BY <3>2
      <4>2. g[i] = Longer(i, g[i - 1])
        BY <1>4, <4>1, Zenon
      <4> QED
        BY <1>5, <3>2, <4>2
    <3> QED
      BY <3>1, <3>2
  <2> QED
    BY <1>3, <2>1
<1>7. R = [i \in Nat |-> Body(R, i)]
  BY <1>6, <1>7a
<1>8. R[0] = <<>>
  BY <1>5, <1>7
<1>9. ASSUME NEW n \in Nat
      PROVE  R[n + 1] = Longer(n + 1, R[n])
  <2> DEFINE m == n + 1
  <2>1. m \in Nat /\ m # 0 /\ m - 1 = n
    OBVIOUS
  <2> HIDE DEF m
  <2>2. R[m] = Body(R, m)
    BY <1>7, <2>1
  <2>3. Body(R, m) = Longer(m, R[n])
    BY <1>5, <2>1
  <2> QED
    BY <2>2, <2>3 DEF m
<1>10. \A n \in Nat : R[n] \in Strings
  <2> DEFINE E == {n \in Nat : R[n] \in Strings}
  <2>0. <<>> \in Strings
    OBVIOUS
  <2>1. 0 \in E
    BY <1>8, <2>0
  <2>2. ASSUME NEW n \in Nat, n \in E
        PROVE  n + 1 \in E
    BY <1>9, <1>s, <2>2
  <2> HIDE DEF E
  <2>3. \A n \in Nat : n \in E
    BY <2>1, <2>2, Induction
  <2> QED
    BY <2>3 DEF E
<1> QED
  BY <1>8, <1>9, <1>10 DEF R, Longer, states

\* x stands in t after the first bits.
Holds(t, first, x) == \A b \in 1..Len(x) : t[first + b] = x[b]

\* A concatenation stands where its parts do, one after the other.
LEMMA HoldsJoined ==
  ASSUME NEW t, NEW first \in Nat, NEW x \in Seq(BOOLEAN), NEW y \in Seq(BOOLEAN)
  PROVE  Holds(t, first, x \o y) <=> Holds(t, first, x) /\ Holds(t, first + Len(x), y)
<1> DEFINE m == Len(x)
           n == Len(y)
           z == x \o y
<1>1. /\ Len(z) = m + n /\ m \in Nat /\ n \in Nat
      /\ \A b \in 1..m : z[b] = x[b]
      /\ \A b \in 1..n : z[m + b] = y[b]
  BY Joined
<1>h. /\ Holds(t, first, x) <=> \A b \in 1..m : t[first + b] = x[b]
      /\ Holds(t, first + m, y) <=> \A b \in 1..n : t[(first + m) + b] = y[b]
      /\ Holds(t, first, z) <=> \A b \in 1..Len(z) : t[first + b] = z[b]
  BY DEF Holds
<1> HIDE DEF m, n, z
<1>2. ASSUME Holds(t, first, z), NEW b \in 1..m
      PROVE  t[first + b] = x[b]
  <2>1. b \in 1..Len(z)
    BY <1>1
  <2> QED
    BY <1>1, <1>2, <1>h, <2>1
<1>3. ASSUME Holds(t, first, z), NEW b \in 1..n
      PROVE  t[(first + m) + b] = y[b]
  <2>1. m + b \in 1..Len(z) /\ first + (m + b) = (first + m) + b
    BY <1>1
  <2>2. t[first + (m + b)] = z[m + b]
    BY <1>3, <1>h, <2>1
  <2> QED
    BY <1>1, <2>1, <2>2
<1>4. ASSUME Holds(t, first, x), Holds(t, first + m, y), NEW b \in 1..Len(z)
      PROVE  t[first + b] = z[b]
  <2>1. CASE b \in 1..m
    BY <1>1, <1>4, <1>h, <2>1
  <2>2. CASE b \notin 1..m
    <3> DEFINE c == b - m
    <3>1. c \in 1..n /\ m + c = b /\ (first + m) + c = first + b
      BY <1>1, <2>2
    <3> HIDE DEF c
    <3>2. t[(first + m) + c] = y[c] /\ z[m + c] = y[c]
      BY <1>1, <1>4, <1>h, <3>1
    <3> QED
      BY <3>1, <3>2
  <2> QED
    BY <2>1, <2>2
<1> QED
  BY <1>2, <1>3, <1>4, <1>h DEF m, z

\* A string of the same length that stands at the start is the whole.
LEMMA HoldsWhole ==
  ASSUME NEW t \in Seq(BOOLEAN), NEW x \in Seq(BOOLEAN), Len(t) = Len(x)
  PROVE  t = x <=> Holds(t, 0, x)
<1>1. ASSUME Holds(t, 0, x)
      PROVE  t = x
  <2>1. ASSUME NEW b \in 1..Len(x)
        PROVE  t[b] = x[b]
    <3>1. 0 + b = b
      OBVIOUS
    <3> QED
      BY <1>1, <3>1 DEF Holds
  <2> QED
    BY <2>1
<1>2. ASSUME t = x
      PROVE  Holds(t, 0, x)
  <2>1. \A b \in 1..Len(x) : 0 + b = b
    OBVIOUS
  <2> QED
    BY <1>2, <2>1 DEF Holds
<1> QED
  BY <1>1, <1>2

\* A string stands where it is what is read there.
LEMMA HoldsRead ==
  ASSUME NEW t \in Seq(BOOLEAN), NEW first \in Nat, NEW n \in Nat, first + n <= Len(t),
         NEW x \in Seq(BOOLEAN), Len(x) = n
  PROVE  Holds(t, first, x) <=> SubSeq(t, first + 1, first + n) = x
<1> DEFINE y == SubSeq(t, first + 1, first + n)
<1>1. y \in Seq(BOOLEAN) /\ Len(y) = n /\ \A b \in 1..n : y[b] = t[first + b]
  BY Stretch, SMTT(30)
<1>2. Holds(t, first, x) <=> \A b \in 1..n : t[first + b] = x[b]
  BY DEF Holds
<1> HIDE DEF y
<1>3. ASSUME \A b \in 1..n : t[first + b] = x[b]
      PROVE  y = x
  <2>1. \A b \in 1..n : y[b] = x[b]
    BY <1>1, <1>3
  <2> QED
    BY <1>1, <2>1
<1>4. ASSUME y = x
      PROVE  \A b \in 1..n : t[first + b] = x[b]
  BY <1>1, <1>4
<1> QED
  BY <1>2, <1>3, <1>4 DEF y

\* Groups of rounds of a hash, and bits of a state.
Groups == ROUNDS \div 4
StateLen == 25 * LANE

\* A hash takes a whole number of groups and of checkpoints.
LEMMA GroupValues ==
  /\ Groups \in Nat /\ ROUNDS = 4 * Groups /\ StateLen \in Nat \ {0}
  /\ KECCAK_CHECKPOINT_BITS = Groups * StateLen
  /\ KECCAK_CHECKPOINT_BITS \in Nat
<1>1. ROUNDS \in Nat /\ ROUNDS % 4 = 0
  BY LaneAssumption, SizesAssumption
<1>2. LANE \in Nat \ {0}
  BY LaneValues
<1>3. Groups \in Nat /\ ROUNDS = 4 * Groups /\ StateLen \in Nat \ {0}
  BY <1>1, <1>2 DEF Groups, StateLen
<1>4. KECCAK_CHECKPOINT_BITS = Groups * StateLen
  BY DEF KECCAK_CHECKPOINT_BITS, Groups, StateLen
<1> QED
  BY <1>3, <1>4

\* The checkpoints of a hash stand after the first bits.
HashHolds(t, first, bytes) ==
  \A g \in 0..Groups - 1 :
    Holds(t, first + StateLen * g, state_bits(RoundStates(bytes)[4 * g + 4]))

\* keccak_checkpoints stands where every checkpoint of it does.
LEMMA HashHoldsCheckpoints ==
  ASSUME NEW t, NEW first \in Nat, NEW bytes
  PROVE  /\ keccak_checkpoints(bytes) \in Seq(BOOLEAN)
         /\ Len(keccak_checkpoints(bytes)) = KECCAK_CHECKPOINT_BITS
         /\ Holds(t, first, keccak_checkpoints(bytes)) <=> HashHolds(t, first, bytes)
<1> DEFINE W == Checkpoints(bytes)
           N == StateLen
           Bits(n) == state_bits(RoundStates(bytes)[4 * n])
           Each(n) == \A g \in 0..n - 1 : Holds(t, first + N * g, Bits(g + 1))
           E == {n \in Nat : Len(W[n]) = n * N /\ (Holds(t, first, W[n]) <=> Each(n))}
<1>0. N \in Nat \ {0} /\ Groups \in Nat
  BY GroupValues
<1>1. /\ W[0] = <<>> /\ \A n \in Nat : W[n] \in Seq(BOOLEAN)
      /\ \A n \in Nat : W[n + 1] = W[n] \o Bits(n + 1)
  BY CheckpointsSteps
<1>2. ASSUME NEW n
      PROVE  Bits(n) \in Seq(BOOLEAN) /\ Len(Bits(n)) = N
  BY StateBitsSeq DEF StateLen
<1> HIDE DEF W, N, Bits
<1>3. 0 \in E
  <2>1. 0 * N = 0 /\ Len(<<>>) = 0
    BY <1>0
  <2>2. Holds(t, first, <<>>)
    BY DEF Holds
  <2>3. Each(0)
    OBVIOUS
  <2> HIDE DEF Each
  <2> QED
    BY <1>1, <2>1, <2>2, <2>3
<1>4. ASSUME NEW n \in Nat, n \in E
      PROVE  n + 1 \in E
  <2> DEFINE x == W[n]
             y == Bits(n + 1)
  <2>1. x \in Seq(BOOLEAN) /\ y \in Seq(BOOLEAN) /\ Len(x) = n * N /\ Len(y) = N
        /\ W[n + 1] = x \o y
    BY <1>1, <1>2, <1>4
  <2>e. Holds(t, first, x) <=> Each(n)
    BY <1>4
  <2> HIDE DEF x, y
  <2>2. Len(x \o y) = Len(x) + Len(y)
    BY <2>1, Joined
  <2>3. (n + 1) * N = n * N + N /\ n * N = N * n
    BY <1>0
  <2>4. Holds(t, first, x \o y) <=> Holds(t, first, x) /\ Holds(t, first + Len(x), y)
    BY <2>1, HoldsJoined
  <2>5. Each(n + 1) <=> Each(n) /\ Holds(t, first + N * n, y)
    <3> DEFINE Spot(g) == Holds(t, first + N * g, Bits(g + 1))
    <3>1. 0..(n + 1) - 1 = (0..n - 1) \cup {n}
      OBVIOUS
    <3>2. Each(n + 1) <=> \A g \in (0..n - 1) \cup {n} : Spot(g)
      BY <3>1
    <3>3. Each(n) <=> \A g \in 0..n - 1 : Spot(g)
      OBVIOUS
    <3>4. Spot(n) <=> Holds(t, first + N * n, y)
      BY DEF y
    <3> HIDE DEF Spot, Each
    <3> QED
      BY <3>2, <3>3, <3>4
  <2> HIDE DEF Each
  <2>6. Len(W[n + 1]) = (n + 1) * N
    BY <2>1, <2>2, <2>3
  <2>7. first + Len(x) = first + N * n
    BY <2>1, <2>3
  <2>8. Holds(t, first, W[n + 1]) <=> Each(n + 1)
    BY <2>1, <2>4, <2>5, <2>7, <2>e, Zenon
  <2> QED
    BY <2>6, <2>8
<1> HIDE DEF E, Each
<1>5. \A n \in Nat : n \in E
  BY <1>3, <1>4, Induction
<1>6. keccak_checkpoints(bytes) = W[Groups]
  BY DEF keccak_checkpoints, Groups, W
<1>7. Len(W[Groups]) = KECCAK_CHECKPOINT_BITS /\ (Holds(t, first, W[Groups]) <=> Each(Groups))
  <2>1. Groups \in E
    BY <1>0, <1>5
  <2>2. KECCAK_CHECKPOINT_BITS = Groups * N
    BY GroupValues DEF N
  <2> QED
    BY <2>1, <2>2 DEF E
<1>8. Each(Groups) <=> HashHolds(t, first, bytes)
  <2>1. ASSUME NEW g \in 0..Groups - 1
        PROVE  Bits(g + 1) = state_bits(RoundStates(bytes)[4 * g + 4])
    <3>1. 4 * (g + 1) = 4 * g + 4
      BY <1>0
    <3> QED
      BY <3>1 DEF Bits
  <2>2. HashHolds(t, first, bytes)
          <=> \A g \in 0..Groups - 1 :
                Holds(t, first + N * g, state_bits(RoundStates(bytes)[4 * g + 4]))
    BY DEF HashHolds, N
  <2> QED
    BY <2>1, <2>2, Zenon DEF Each
<1>9. W[Groups] \in Seq(BOOLEAN)
  BY <1>0, <1>1
<1> QED
  BY <1>6, <1>7, <1>8, <1>9, Zenon

\* A message of bytes that fits, padded, in one block.
Fits(bytes) == bytes \in Seq(Words(8)) /\ Len(bytes) < RATE_BYTES

\* What its hash returns: the first bits of the last state.
LEMMA HashOutput ==
  ASSUME NEW bytes, Fits(bytes), NEW n \in Nat, n <= RATE_BYTES
  PROVE  /\ shake256(bytes, n) \in Seq(Words(8)) /\ Len(shake256(bytes, n)) = n
         /\ bytes_bits(shake256(bytes, n)) = SubSeq(state_bits(RoundStates(bytes)[ROUNDS]), 1, 8 * n)
<1> DEFINE s == RoundStates(bytes)[ROUNDS]
           out == [i \in 1..n |-> StateByte(s, i - 1)]
<1>1. shake256(bytes, n) = out
  BY DEF shake256
<1> HIDE DEF s
<1>2. /\ out \in Seq(Words(8)) /\ Len(out) = n
      /\ BitString(out, 8) = SubSeq(state_bits(s), 1, 8 * n)
  BY StateBytes
<1> QED
  BY <1>1, <1>2 DEF bytes_bits, s

\* The elements of a target are the first bits of its hash.
LEMMA TargetOutput ==
  ASSUME NEW bytes, Fits(bytes)
  PROVE  LET target == Nibbles(shake256(bytes, (M + 1) \div 2))
             bits == SubSeq(state_bits(RoundStates(bytes)[ROUNDS]), 1, 4 * M)
         IN  /\ target \in Seq(Words(4)) /\ Len(target) = M
             /\ gf16_bits(target) = bits
             /\ bits \in Seq(BOOLEAN) /\ Len(bits) = 4 * M
             /\ (M + 1) \div 2 \in Nat /\ 4 * M <= StateLen
<1> DEFINE n == (M + 1) \div 2
           out == shake256(bytes, n)
           t == state_bits(RoundStates(bytes)[ROUNDS])
           x == SubSeq(t, 1, 8 * n)
           y == SubSeq(t, 1, 4 * M)
           target == Nibbles(out)
<1>0. M \in Nat
  BY SizesAssumption
<1>1. n \in Nat /\ n <= RATE_BYTES /\ 4 * M <= 8 * n
  <2>1. Len(SIGNED_CREDENTIAL_DOMAIN) \in Nat /\ SALT_BYTES \in Nat /\ n \in Nat
    BY <1>0, SizesAssumption
  <2>2. Len(SIGNED_CREDENTIAL_DOMAIN) + n + SALT_BYTES < RATE_BYTES
    BY SizesAssumption
  <2>3. RATE_BYTES \in Nat
    BY RateValues
  <2>4. 4 * M <= 8 * n
    BY <1>0
  <2> HIDE DEF n
  <2> QED
    BY <2>1, <2>2, <2>3, <2>4
<1>2. 8 * n <= StateLen
  BY <1>1, RateAssumption, LaneValues DEF StateLen
<1>t. t \in Seq(BOOLEAN) /\ Len(t) = StateLen
  BY StateBitsSeq DEF StateLen
<1>n. n = (M + 1) \div 2
  OBVIOUS
<1> HIDE DEF n
<1>3. out \in Seq(Words(8)) /\ Len(out) = n /\ bytes_bits(out) = x
  BY <1>1, HashOutput
<1> HIDE DEF out
<1>4. /\ target \in Seq(Words(4)) /\ Len(target) = M
      /\ BitString(target, 4) = SubSeq(BitString(out, 8), 1, 4 * M)
  BY <1>0, <1>3, <1>n, NibblesBits
<1> HIDE DEF t, target
<1>5. x \in Seq(BOOLEAN) /\ Len(x) = 8 * n /\ \A b \in 1..8 * n : x[b] = t[b]
  <2> DEFINE N == 8 * n
  <2>1. N \in Nat /\ N <= Len(t)
    BY <1>1, <1>2, <1>t
  <2> HIDE DEF N
  <2>2. SubSeq(t, 1, N) \in Seq(BOOLEAN) /\ Len(SubSeq(t, 1, N)) = N
        /\ \A b \in 1..N : SubSeq(t, 1, N)[b] = t[b]
    BY <1>t, <2>1, Prefix
  <2> QED
    BY <2>2 DEF N
<1>6. y \in Seq(BOOLEAN) /\ Len(y) = 4 * M /\ \A b \in 1..4 * M : y[b] = t[b]
  <2> DEFINE N == 4 * M
  <2>1. N \in Nat /\ N <= Len(t)
    BY <1>0, <1>1, <1>2, <1>t, GroupValues
  <2> HIDE DEF N
  <2>2. SubSeq(t, 1, N) \in Seq(BOOLEAN) /\ Len(SubSeq(t, 1, N)) = N
        /\ \A b \in 1..N : SubSeq(t, 1, N)[b] = t[b]
    BY <1>t, <2>1, Prefix
  <2> QED
    BY <2>2 DEF N
<1> HIDE DEF x, y
<1>7. SubSeq(x, 1, 4 * M) = y
  <2> DEFINE N == 4 * M
             z == SubSeq(x, 1, N)
  <2>1. N \in Nat /\ N <= Len(x) /\ N <= 8 * n
    BY <1>0, <1>1, <1>5
  <2>y. Len(y) = N /\ \A b \in 1..N : y[b] = t[b]
    BY <1>6
  <2> HIDE DEF N
  <2>2. z \in Seq(BOOLEAN) /\ Len(z) = N /\ \A b \in 1..N : z[b] = x[b]
    BY <1>5, <2>1, Prefix
  <2> HIDE DEF z
  <2>3. ASSUME NEW b \in 1..N
        PROVE  z[b] = y[b]
    <3>1. b \in 1..8 * n
      BY <1>1, <2>1
    <3> QED
      BY <1>5, <2>2, <2>y, <3>1
  <2>4. z = y
    BY <1>6, <2>2, <2>3, <2>y
  <2> QED
    BY <2>4 DEF z, N
<1>8. gf16_bits(target) = y
  BY <1>3, <1>4, <1>7 DEF gf16_bits, bytes_bits
<1>9. 4 * M <= StateLen
  BY <1>0, <1>1, <1>2, GroupValues
<1> QED
  BY <1>1, <1>4, <1>6, <1>8, <1>9 DEF y, t, target, out, n

-----------------------------------------------------------------------------
(* The fields of a tape, and the messages of its secrets.                  *)

\* The circuit is one of those built, and the tape one of its own.
TapeOfCircuit == circuit \in Circuits /\ tape \in Tapes(circuit)

\* Where the fields of a tape begin.
SecretAt == IF circuit.kind = "issue" THEN 0 ELSE 4 * KN
HidingNonceAt == SecretAt + 8 * SECRET_BYTES
SaltAt == HidingNonceAt + 8 * HIDING_NONCE_BYTES
PresentationNonceAt == SaltAt + 8 * SALT_BYTES
CarriesAt == PresentationNonceAt + PRESENTATION_NONCE_BITS
HashesAt == IF circuit.kind = "issue" THEN SaltAt ELSE CarriesAt + PRESENTATION_NONCE_BITS

\* The sizes of the fields.
LEMMA SizeValues ==
  /\ SECRET_BYTES \in Nat /\ HIDING_NONCE_BYTES \in Nat /\ SALT_BYTES \in Nat
  /\ M \in Nat /\ KN \in Nat /\ PRESENTATION_NONCE_BITS \in Nat \ {0}
  /\ 8 \in Nat \ {0} /\ 4 \in Nat \ {0}
  BY SizesAssumption

\* Places on a tape are natural numbers, and the hashes end it.
LEMMA PlacesOnTape ==
  ASSUME TapeOfCircuit
  PROVE  /\ tape \in Seq(BOOLEAN)
         /\ circuit.kind \in {"issue", "presentation"}
         /\ SecretAt \in Nat /\ HidingNonceAt \in Nat /\ SaltAt \in Nat
         /\ PresentationNonceAt \in Nat /\ CarriesAt \in Nat /\ HashesAt \in Nat
         /\ Len(tape) = HashesAt + (IF circuit.kind = "issue" THEN KECCAK_CHECKPOINT_BITS
                                    ELSE 3 * KECCAK_CHECKPOINT_BITS)
<1>1. tape \in Seq(BOOLEAN) /\ Len(tape) = WitnessLength(circuit)
  BY TapesAssumption DEF TapeOfCircuit
<1>2. circuit.kind \in {"issue", "presentation"}
  BY CircuitsAssumption DEF TapeOfCircuit
<1>3. /\ SecretAt \in Nat /\ HidingNonceAt \in Nat /\ SaltAt \in Nat
      /\ PresentationNonceAt \in Nat /\ CarriesAt \in Nat /\ HashesAt \in Nat
  BY SizeValues DEF SecretAt, HidingNonceAt, SaltAt, PresentationNonceAt, CarriesAt, HashesAt
<1>4. WitnessLength(circuit)
        = HashesAt + (IF circuit.kind = "issue" THEN KECCAK_CHECKPOINT_BITS
                       ELSE 3 * KECCAK_CHECKPOINT_BITS)
  <2> DEFINE H == KECCAK_CHECKPOINT_BITS
  <2>1. H \in Nat
    BY GroupValues
  <2>2. WitnessLength(circuit)
          = IF circuit.kind = "issue" THEN 8 * (SECRET_BYTES + HIDING_NONCE_BYTES) + H
            ELSE 4 * KN + 8 * (SECRET_BYTES + HIDING_NONCE_BYTES + SALT_BYTES)
                   + 2 * PRESENTATION_NONCE_BITS + 3 * H
    BY DEF WitnessLength
  <2> HIDE DEF H
  <2>3. WitnessLength(circuit) = HashesAt + (IF circuit.kind = "issue" THEN H ELSE 3 * H)
    BY <1>2, <2>1, <2>2, SizeValues
       DEF SecretAt, HidingNonceAt, SaltAt, PresentationNonceAt, CarriesAt, HashesAt
  <2> QED
    BY <2>3 DEF H
<1> QED
  BY <1>1, <1>2, <1>3, <1>4

\* The secrets that a tape holds, as an honest prover would have them.
LEMMA SecretsRead ==
  ASSUME TapeOfCircuit
  PROVE  LET S == CommittedSecrets
         IN  /\ S.secret \in Seq(Words(8)) /\ Len(S.secret) = SECRET_BYTES
             /\ bytes_bits(S.secret) = SubSeq(tape, SecretAt + 1, SecretAt + 8 * SECRET_BYTES)
             /\ S.hiding_nonce \in Seq(Words(8)) /\ Len(S.hiding_nonce) = HIDING_NONCE_BYTES
             /\ bytes_bits(S.hiding_nonce)
                  = SubSeq(tape, HidingNonceAt + 1, HidingNonceAt + 8 * HIDING_NONCE_BYTES)
             /\ circuit.kind = "presentation" =>
                  /\ S.signature \in Seq(Words(4)) /\ Len(S.signature) = KN
                  /\ gf16_bits(S.signature) = SubSeq(tape, 0 + 1, 0 + 4 * KN)
                  /\ S.salt \in Seq(Words(8)) /\ Len(S.salt) = SALT_BYTES
                  /\ bytes_bits(S.salt) = SubSeq(tape, SaltAt + 1, SaltAt + 8 * SALT_BYTES)
                  /\ S.presentation_nonce \in Words(PRESENTATION_NONCE_BITS)
                  /\ u32_bits(S.presentation_nonce)
                       = SubSeq(tape, PresentationNonceAt + 1,
                                PresentationNonceAt + PRESENTATION_NONCE_BITS)
<1> DEFINE S == CommittedSecrets
           L == Len(tape)
<1>0. /\ tape \in Seq(BOOLEAN)
      /\ circuit.kind \in {"issue", "presentation"}
      /\ SecretAt \in Nat /\ HidingNonceAt \in Nat /\ SaltAt \in Nat
      /\ PresentationNonceAt \in Nat /\ CarriesAt \in Nat /\ HashesAt \in Nat
      /\ L >= HashesAt
  <2> DEFINE H == KECCAK_CHECKPOINT_BITS
  <2>1. H \in Nat
    BY GroupValues
  <2>2. L = HashesAt + (IF circuit.kind = "issue" THEN H ELSE 3 * H) /\ HashesAt \in Nat
    BY PlacesOnTape
  <2> HIDE DEF H, L
  <2>3. L >= HashesAt
    BY <2>1, <2>2
  <2> QED
    BY <2>3, PlacesOnTape
<1>1. /\ SecretAt + 8 * SECRET_BYTES <= L
      /\ HidingNonceAt + 8 * HIDING_NONCE_BYTES <= L
  <2> HIDE DEF L
  <2>1. L \in Int
    BY <1>0 DEF L
  <2> QED
    BY <1>0, <2>1, SizeValues
       DEF SecretAt, HidingNonceAt, SaltAt, PresentationNonceAt, CarriesAt, HashesAt
<1>2. circuit.kind = "presentation" =>
        /\ 0 + 4 * KN <= L
        /\ SaltAt + 8 * SALT_BYTES <= L
        /\ PresentationNonceAt + PRESENTATION_NONCE_BITS <= L
  <2> HIDE DEF L
  <2>1. L \in Int
    BY <1>0 DEF L
  <2> QED
    BY <1>0, <2>1, SizeValues
       DEF SecretAt, HidingNonceAt, SaltAt, PresentationNonceAt, CarriesAt, HashesAt
<1> HIDE DEF L
<1>3. /\ S.signature = Values(0, 4, KN)
      /\ S.secret = Values(SecretAt, 8, SECRET_BYTES)
      /\ S.hiding_nonce = Values(HidingNonceAt, 8, HIDING_NONCE_BYTES)
      /\ S.salt = Values(SaltAt, 8, SALT_BYTES)
      /\ S.presentation_nonce = Value(PresentationNonceAt, PRESENTATION_NONCE_BITS)
  BY DEF CommittedSecrets, SecretAt, HidingNonceAt, SaltAt, PresentationNonceAt
<1> HIDE DEF S
<1>4. ASSUME NEW a \in Nat, NEW w \in Nat \ {0}, NEW n \in Nat, a + w * n <= L
      PROVE  /\ Values(a, w, n) \in Seq(Words(w)) /\ Len(Values(a, w, n)) = n
             /\ BitString(Values(a, w, n), w) = SubSeq(tape, a + 1, a + w * n)
  BY <1>0, <1>4, ValuesBits DEF L
<1>5. /\ S.secret \in Seq(Words(8)) /\ Len(S.secret) = SECRET_BYTES
      /\ bytes_bits(S.secret) = SubSeq(tape, SecretAt + 1, SecretAt + 8 * SECRET_BYTES)
  <2> DEFINE V == Values(SecretAt, 8, SECRET_BYTES)
  <2>1. /\ SecretAt \in Nat /\ 8 \in Nat \ {0} /\ SECRET_BYTES \in Nat
        /\ SecretAt + 8 * SECRET_BYTES <= L
    BY <1>0, <1>1, SizeValues
  <2>2. /\ V \in Seq(Words(8)) /\ Len(V) = SECRET_BYTES
        /\ BitString(V, 8) = SubSeq(tape, SecretAt + 1, SecretAt + 8 * SECRET_BYTES)
    BY <1>4, <2>1
  <2>3. S.secret = V
    BY <1>3
  <2> HIDE DEF V
  <2> QED
    BY <2>2, <2>3, Zenon DEF bytes_bits
<1>6. /\ S.hiding_nonce \in Seq(Words(8)) /\ Len(S.hiding_nonce) = HIDING_NONCE_BYTES
      /\ bytes_bits(S.hiding_nonce)
           = SubSeq(tape, HidingNonceAt + 1, HidingNonceAt + 8 * HIDING_NONCE_BYTES)
  <2> DEFINE V == Values(HidingNonceAt, 8, HIDING_NONCE_BYTES)
  <2>1. /\ HidingNonceAt \in Nat /\ 8 \in Nat \ {0} /\ HIDING_NONCE_BYTES \in Nat
        /\ HidingNonceAt + 8 * HIDING_NONCE_BYTES <= L
    BY <1>0, <1>1, SizeValues
  <2>2. /\ V \in Seq(Words(8)) /\ Len(V) = HIDING_NONCE_BYTES
        /\ BitString(V, 8) = SubSeq(tape, HidingNonceAt + 1, HidingNonceAt + 8 * HIDING_NONCE_BYTES)
    BY <1>4, <2>1
  <2>3. S.hiding_nonce = V
    BY <1>3
  <2> HIDE DEF V
  <2> QED
    BY <2>2, <2>3, Zenon DEF bytes_bits
<1>7. ASSUME circuit.kind = "presentation"
      PROVE  /\ S.signature \in Seq(Words(4)) /\ Len(S.signature) = KN
             /\ gf16_bits(S.signature) = SubSeq(tape, 0 + 1, 0 + 4 * KN)
             /\ S.salt \in Seq(Words(8)) /\ Len(S.salt) = SALT_BYTES
             /\ bytes_bits(S.salt) = SubSeq(tape, SaltAt + 1, SaltAt + 8 * SALT_BYTES)
             /\ S.presentation_nonce \in Words(PRESENTATION_NONCE_BITS)
             /\ u32_bits(S.presentation_nonce)
                  = SubSeq(tape, PresentationNonceAt + 1,
                           PresentationNonceAt + PRESENTATION_NONCE_BITS)
  <2>0. 0 \in Nat /\ 0 + 4 * KN <= L /\ SaltAt + 8 * SALT_BYTES <= L
        /\ PresentationNonceAt + PRESENTATION_NONCE_BITS <= L
    BY <1>2, <1>7
  <2>1. /\ S.signature \in Seq(Words(4)) /\ Len(S.signature) = KN
        /\ gf16_bits(S.signature) = SubSeq(tape, 0 + 1, 0 + 4 * KN)
    <3> DEFINE V == Values(0, 4, KN)
    <3>1. 0 \in Nat /\ 4 \in Nat \ {0} /\ KN \in Nat /\ 0 + 4 * KN <= L
      BY <2>0, SizeValues
    <3>2. /\ V \in Seq(Words(4)) /\ Len(V) = KN
          /\ BitString(V, 4) = SubSeq(tape, 0 + 1, 0 + 4 * KN)
      BY <1>4, <3>1
    <3>3. S.signature = V
      BY <1>3
    <3> HIDE DEF V
    <3> QED
      BY <3>2, <3>3, Zenon DEF gf16_bits
  <2>2. /\ S.salt \in Seq(Words(8)) /\ Len(S.salt) = SALT_BYTES
        /\ bytes_bits(S.salt) = SubSeq(tape, SaltAt + 1, SaltAt + 8 * SALT_BYTES)
    <3> DEFINE V == Values(SaltAt, 8, SALT_BYTES)
    <3>1. SaltAt \in Nat /\ 8 \in Nat \ {0} /\ SALT_BYTES \in Nat /\ SaltAt + 8 * SALT_BYTES <= L
      BY <1>0, <2>0, SizeValues
    <3>2. /\ V \in Seq(Words(8)) /\ Len(V) = SALT_BYTES
          /\ BitString(V, 8) = SubSeq(tape, SaltAt + 1, SaltAt + 8 * SALT_BYTES)
      BY <1>4, <3>1
    <3>3. S.salt = V
      BY <1>3
    <3> HIDE DEF V
    <3> QED
      BY <3>2, <3>3, Zenon DEF bytes_bits
  <2>3. /\ S.presentation_nonce \in Words(PRESENTATION_NONCE_BITS)
        /\ u32_bits(S.presentation_nonce)
             = SubSeq(tape, PresentationNonceAt + 1,
                      PresentationNonceAt + PRESENTATION_NONCE_BITS)
    BY <1>0, <1>3, <2>0, SizeValues, OneValue, Zenon DEF u32_bits, L
  <2> QED
    BY <2>1, <2>2, <2>3
<1> QED
  BY <1>5, <1>6, <1>7 DEF S

\* What the prover of a tape hashes.
CredentialMessage ==
  credential_message(circuit.credential_scope, CommittedSecrets.secret,
                     CommittedSecrets.hiding_nonce)

\* The target committed to,
Target ==
  credential_target(circuit.credential_scope, CommittedSecrets.secret,
                    CommittedSecrets.hiding_nonce)

\* the message of the authenticator,
SignedMessage == signed_credential_message(Target, CommittedSecrets.salt)

\* its target
SignedTarget == signed_credential_target(Target, CommittedSecrets.salt)

\* and the message of the tag.
TagMessage ==
  tag_message(CommittedSecrets.secret, circuit.presentation_scope,
              CommittedSecrets.presentation_nonce)

\* Bytes after bytes.
LEMMA JoinedBytes ==
  ASSUME NEW x \in Seq(Words(8)), NEW y \in Seq(Words(8))
  PROVE  /\ x \o y \in Seq(Words(8))
         /\ Len(x \o y) = Len(x) + Len(y)
         /\ bytes_bits(x) \o bytes_bits(y) = bytes_bits(x \o y)
<1>1. x \in Seq(Nat) /\ y \in Seq(Nat) /\ 8 \in Nat \ {0}
  BY WordsNat
<1>2. bytes_bits(x) \o bytes_bits(y) = bytes_bits(x \o y)
  BY <1>1, BitStringConcat DEF bytes_bits
<1> QED
  BY <1>2, Joined

\* Each message fits in a block and is, in bits, that of the wires.
LEMMA CredentialMessageBits ==
  ASSUME TapeOfCircuit
  PROVE  /\ Fits(CredentialMessage)
         /\ bytes_bits(CredentialMessage)
              = bytes_bits(CREDENTIAL_DOMAIN) \o bytes_bits(circuit.credential_scope)
                  \o bytes_bits(CommittedSecrets.secret)
                  \o bytes_bits(CommittedSecrets.hiding_nonce)
<1> DEFINE d == CREDENTIAL_DOMAIN
           scope == circuit.credential_scope
           secret == CommittedSecrets.secret
           nonce == CommittedSecrets.hiding_nonce
           m == ((d \o scope) \o secret) \o nonce
<1>1. /\ d \in Seq(Words(8)) /\ scope \in Seq(Words(8))
      /\ Len(d) + Len(scope) + SECRET_BYTES + HIDING_NONCE_BYTES < RATE_BYTES
  BY CircuitsAssumption, SizesAssumption, ByteWords DEF TapeOfCircuit
<1>2. /\ secret \in Seq(Words(8)) /\ Len(secret) = SECRET_BYTES
      /\ nonce \in Seq(Words(8)) /\ Len(nonce) = HIDING_NONCE_BYTES
  BY SecretsRead
<1>3. CredentialMessage = m
  BY DEF CredentialMessage, credential_message
<1> HIDE DEF d, scope, secret, nonce
<1>4. /\ d \o scope \in Seq(Words(8)) /\ Len(d \o scope) = Len(d) + Len(scope)
      /\ bytes_bits(d) \o bytes_bits(scope) = bytes_bits(d \o scope)
  BY <1>1, JoinedBytes
<1> DEFINE a == d \o scope
<1> HIDE DEF a
<1>5. /\ a \o secret \in Seq(Words(8)) /\ Len(a \o secret) = Len(a) + Len(secret)
      /\ bytes_bits(a) \o bytes_bits(secret) = bytes_bits(a \o secret)
  BY <1>2, <1>4, JoinedBytes DEF a
<1> DEFINE b == a \o secret
<1> HIDE DEF b
<1>6. /\ b \o nonce \in Seq(Words(8)) /\ Len(b \o nonce) = Len(b) + Len(nonce)
      /\ bytes_bits(b) \o bytes_bits(nonce) = bytes_bits(b \o nonce)
  BY <1>2, <1>5, JoinedBytes DEF b
<1>7. m = b \o nonce
  BY DEF a, b
<1>8. Len(m) = Len(d) + Len(scope) + SECRET_BYTES + HIDING_NONCE_BYTES
  BY <1>1, <1>2, <1>4, <1>5, <1>6, <1>7 DEF a, b
<1> HIDE DEF m
<1>9. Fits(m)
  BY <1>1, <1>6, <1>7, <1>8 DEF Fits
<1>10. bytes_bits(m)
         = ((bytes_bits(d) \o bytes_bits(scope)) \o bytes_bits(secret)) \o bytes_bits(nonce)
  BY <1>4, <1>5, <1>6, <1>7, Zenon DEF a, b
<1> QED
  BY <1>3, <1>9, <1>10 DEF d, scope, secret, nonce

-----------------------------------------------------------------------------
(* The honest tape, part by part.                                          *)

\* A target is, in bits, the beginning of the last state of its hash.
LEMMA TargetBits ==
  ASSUME TapeOfCircuit
  PROVE  /\ Target \in Seq(Words(4)) /\ Len(Target) = M
         /\ gf16_bits(Target)
              = SubSeq(state_bits(RoundStates(CredentialMessage)[ROUNDS]), 1, 4 * M)
<1>1. Fits(CredentialMessage)
  BY CredentialMessageBits
<1>2. Target = Nibbles(shake256(CredentialMessage, (M + 1) \div 2))
  BY DEF Target, CredentialMessage, credential_target
<1> QED
  BY <1>1, <1>2, TargetOutput

\* The message of the authenticator: whole bytes after the padded commitment.
LEMMA SignedMessageBits ==
  ASSUME TapeOfCircuit, circuit.kind = "presentation"
  PROVE  /\ Fits(SignedMessage)
         /\ bytes_bits(SignedMessage)
              = ToWholeBytes(bytes_bits(SIGNED_CREDENTIAL_DOMAIN) \o gf16_bits(Target))
                  \o bytes_bits(CommittedSecrets.salt)
<1> DEFINE d == SIGNED_CREDENTIAL_DOMAIN
           salt == CommittedSecrets.salt
           v == Target
           p == pack_gf16(v)
           a == d \o p
           fill == [b \in 1..8 * ((M + 1) \div 2) - 4 * M |-> FALSE]
<1>1. d \in Seq(Words(8)) /\ Len(d) + ((M + 1) \div 2) + SALT_BYTES < RATE_BYTES
  BY SizesAssumption, ByteWords
<1>2. salt \in Seq(Words(8)) /\ Len(salt) = SALT_BYTES
  BY SecretsRead
<1>3. v \in Seq(Words(4)) /\ Len(v) = M
  BY TargetBits
<1>4. SignedMessage = a \o salt
  BY DEF SignedMessage, signed_credential_message
<1>f. fill \in Seq(BOOLEAN) /\ Fills(fill, M)
  <2> DEFINE n == 8 * ((M + 1) \div 2) - 4 * M
  <2>1. n \in Nat
    BY SizeValues
  <2>2. fill = [b \in 1..n |-> FALSE]
    OBVIOUS
  <2>n. n = 8 * ((M + 1) \div 2) - 4 * M
    OBVIOUS
  <2> HIDE DEF n, fill
  <2>3. fill \in [1..n -> BOOLEAN] /\ \A b \in 1..n : fill[b] = FALSE
    BY <2>2
  <2>4. fill \in Seq(BOOLEAN) /\ Len(fill) = n
    BY <2>1, <2>3
  <2> QED
    BY <2>3, <2>4, <2>n DEF Fills
<1> HIDE DEF d, salt, v, fill
<1>5. p \in Seq(Words(8)) /\ Len(p) = (M + 1) \div 2
  <2>1. Fills(fill, Len(v))
    BY <1>3, <1>f
  <2> QED
    BY <1>3, <1>f, <2>1, PackedBits
<1>6. ToWholeBytes(bytes_bits(d) \o gf16_bits(v)) = bytes_bits(a)
  BY <1>1, <1>3, WholeBytes DEF bytes_bits, gf16_bits
<1> HIDE DEF p
<1>7. a \in Seq(Words(8)) /\ Len(a) = Len(d) + Len(p)
  BY <1>1, <1>5, JoinedBytes
<1> HIDE DEF a
<1>8. /\ a \o salt \in Seq(Words(8)) /\ Len(a \o salt) = Len(a) + Len(salt)
      /\ bytes_bits(a) \o bytes_bits(salt) = bytes_bits(a \o salt)
  BY <1>2, <1>7, JoinedBytes
<1>9. Len(a \o salt) < RATE_BYTES
  <2>1. Len(a \o salt) = Len(d) + ((M + 1) \div 2) + SALT_BYTES
    BY <1>2, <1>5, <1>7, <1>8
  <2> QED
    BY <1>1, <2>1
<1>10. Fits(SignedMessage)
  BY <1>4, <1>8, <1>9 DEF Fits
<1>11. bytes_bits(SignedMessage)
         = ToWholeBytes(bytes_bits(d) \o gf16_bits(v)) \o bytes_bits(salt)
  BY <1>4, <1>6, <1>8, Zenon
<1> QED
  BY <1>10, <1>11 DEF d, v, salt

\* The signed target is, in bits, the beginning of the last state of its hash.
LEMMA SignedTargetBits ==
  ASSUME TapeOfCircuit, circuit.kind = "presentation"
  PROVE  /\ SignedTarget \in Seq(Words(4)) /\ Len(SignedTarget) = M
         /\ gf16_bits(SignedTarget)
              = SubSeq(state_bits(RoundStates(SignedMessage)[ROUNDS]), 1, 4 * M)
<1>1. Fits(SignedMessage)
  BY SignedMessageBits
<1>2. SignedTarget = Nibbles(shake256(SignedMessage, (M + 1) \div 2))
  BY DEF SignedTarget, SignedMessage, signed_credential_target
<1> QED
  BY <1>1, <1>2, TargetOutput

\* The message of the tag: the bits of the nonce are those of its bytes.
LEMMA TagMessageBits ==
  ASSUME TapeOfCircuit, circuit.kind = "presentation"
  PROVE  /\ Fits(TagMessage)
         /\ bytes_bits(TagMessage)
              = bytes_bits(TAG_DOMAIN) \o bytes_bits(CommittedSecrets.secret)
                  \o bytes_bits(circuit.presentation_scope)
                  \o u32_bits(CommittedSecrets.presentation_nonce)
<1> DEFINE d == TAG_DOMAIN
           scope == circuit.presentation_scope
           secret == CommittedSecrets.secret
           n == CommittedSecrets.presentation_nonce
           nonce == to_le_bytes(n)
           a == d \o secret
           b == a \o scope
           m == ((d \o secret) \o scope) \o nonce
<1>1. /\ d \in Seq(Words(8)) /\ scope \in Seq(Words(8))
      /\ Len(d) + SECRET_BYTES + Len(scope) + NONCE_BYTES < RATE_BYTES
  BY CircuitsAssumption, SizesAssumption, ByteWords DEF TapeOfCircuit
<1>2. /\ secret \in Seq(Words(8)) /\ Len(secret) = SECRET_BYTES
      /\ n \in Words(PRESENTATION_NONCE_BITS)
  BY SecretsRead
<1>3. nonce \in Seq(Words(8)) /\ Len(nonce) = NONCE_BYTES /\ u32_bits(n) = bytes_bits(nonce)
  BY <1>2, NonceBytes DEF bytes_bits
<1>4. TagMessage = m
  BY DEF TagMessage, tag_message
<1>7. m = b \o nonce
  OBVIOUS
<1> HIDE DEF d, scope, secret, n, nonce, m
<1>5. a \in Seq(Words(8)) /\ Len(a) = Len(d) + Len(secret)
      /\ bytes_bits(d) \o bytes_bits(secret) = bytes_bits(a)
  BY <1>1, <1>2, JoinedBytes
<1> HIDE DEF a
<1>6. b \in Seq(Words(8)) /\ Len(b) = Len(a) + Len(scope)
      /\ bytes_bits(a) \o bytes_bits(scope) = bytes_bits(b)
  BY <1>1, <1>5, JoinedBytes
<1> HIDE DEF b
<1>8. /\ b \o nonce \in Seq(Words(8)) /\ Len(b \o nonce) = Len(b) + Len(nonce)
      /\ bytes_bits(b) \o bytes_bits(nonce) = bytes_bits(b \o nonce)
  BY <1>3, <1>6, JoinedBytes
<1>9. Fits(m)
  BY <1>1, <1>2, <1>3, <1>5, <1>6, <1>7, <1>8 DEF Fits
<1>10. bytes_bits(m)
         = ((bytes_bits(d) \o bytes_bits(secret)) \o bytes_bits(scope)) \o u32_bits(n)
  BY <1>3, <1>5, <1>6, <1>7, <1>8, Zenon
<1> QED
  BY <1>4, <1>9, <1>10 DEF d, scope, secret, n

\* A hash of a message that fits starts from the same state in both forms.
LEMMA HashStarts ==
  ASSUME NEW bytes, Fits(bytes)
  PROVE  /\ pad_single_block(bytes) \in SUBSET StateBits
         /\ initial_sponge_state(bytes_bits(bytes)) = RoundStates(bytes)[4 * 0]
<1>1. /\ pad_single_block(bytes) \in SUBSET StateBits
      /\ initial_sponge_state(bytes_bits(bytes)) = pad_single_block(bytes)
  BY PaddedBits DEF Fits, bytes_bits
<1>2. RoundStates(bytes)[0] = pad_single_block(bytes)
  BY <1>1, RoundStatesSteps
<1>3. 4 * 0 = 0
  OBVIOUS
<1> QED
  BY <1>1, <1>2, <1>3

\* x is the n bits of the tape t after its first bits.
ReadAs(t, first, n, x) ==
  /\ t \in Seq(BOOLEAN) /\ first \in Nat /\ n \in Nat /\ first + n <= Len(t)
  /\ SubSeq(t, first + 1, first + n) = x

\* What is read off a tape stands where it was read.
LEMMA ReadHolds ==
  ASSUME NEW t, NEW first, NEW n, NEW x, ReadAs(t, first, n, x)
  PROVE  x \in Seq(BOOLEAN) /\ Len(x) = n /\ Holds(t, first, x)
<1>1. x \in Seq(BOOLEAN) /\ Len(x) = n /\ \A b \in 1..n : x[b] = t[first + b]
  BY Stretch DEF ReadAs
<1> QED
  BY <1>1 DEF Holds

\* The n bits of x, then the m bits of y.
Adjoins(x, n, y, m) ==
  /\ x \in Seq(BOOLEAN) /\ n \in Nat /\ Len(x) = n
  /\ y \in Seq(BOOLEAN) /\ m \in Nat /\ Len(y) = m

\* A part after the parts before it.
LEMMA HoldsNext ==
  ASSUME NEW t, NEW x, NEW n, NEW y, NEW m, Adjoins(x, n, y, m)
  PROVE  /\ x \o y \in Seq(BOOLEAN) /\ Len(x \o y) = n + m
         /\ Holds(t, 0, x \o y) <=> Holds(t, 0, x) /\ Holds(t, n, y)
<1>1. x \o y \in Seq(BOOLEAN) /\ Len(x \o y) = n + m
  BY Joined DEF Adjoins
<1>2. Holds(t, 0, x \o y) <=> Holds(t, 0, x) /\ Holds(t, 0 + Len(x), y)
  BY HoldsJoined DEF Adjoins
<1>3. 0 + Len(x) = n
  BY DEF Adjoins
<1> QED
  BY <1>1, <1>2, <1>3

\* The honest tape of an issuance: the inputs are what they are read as, so only
\* its checkpoints can be wrong.
LEMMA IssueTape ==
  ASSUME TapeOfCircuit, circuit.kind = "issue"
  PROVE  tape = witness(circuit, CommittedSecrets) <=> HashHolds(tape, HashesAt, CredentialMessage)
<1> DEFINE x == bytes_bits(CommittedSecrets.secret)
           y == bytes_bits(CommittedSecrets.hiding_nonce)
           z == keccak_checkpoints(CredentialMessage)
           xy == x \o y
           w == xy \o z
           m == 8 * SECRET_BYTES
           n == 8 * HIDING_NONCE_BYTES
           H == KECCAK_CHECKPOINT_BITS
<1>0. /\ tape \in Seq(BOOLEAN) /\ SecretAt = 0 /\ HidingNonceAt \in Nat /\ SaltAt \in Nat
      /\ HashesAt = SaltAt /\ Len(tape) = SaltAt + H /\ H \in Nat
  BY PlacesOnTape, GroupValues DEF SecretAt, HashesAt
<1>a. HidingNonceAt = 0 + m /\ SaltAt = HidingNonceAt + n /\ m \in Nat /\ n \in Nat
  BY SizeValues DEF HidingNonceAt, SaltAt, SecretAt
<1>1. w = witness(circuit, CommittedSecrets)
  BY DEF witness, IssueWitness, CredentialMessage
<1>3. /\ SubSeq(tape, 0 + 1, 0 + m) = x
      /\ SubSeq(tape, HidingNonceAt + 1, HidingNonceAt + n) = y
  BY <1>0, SecretsRead
<1>4. /\ z \in Seq(BOOLEAN) /\ Len(z) = H
      /\ Holds(tape, SaltAt, z) <=> HashHolds(tape, SaltAt, CredentialMessage)
  BY <1>0, HashHoldsCheckpoints
<1> HIDE DEF x, y, z, m, n, H, xy, w
<1>b. 0 \in Nat /\ 0 + m <= Len(tape) /\ HidingNonceAt + n <= Len(tape)
  BY <1>0, <1>a
<1>5. x \in Seq(BOOLEAN) /\ Len(x) = m /\ Holds(tape, 0, x)
  <2>1. ReadAs(tape, 0, m, x)
    BY <1>0, <1>a, <1>b, <1>3 DEF ReadAs
  <2> QED
    BY <2>1, ReadHolds, Zenon
<1>6. y \in Seq(BOOLEAN) /\ Len(y) = n /\ Holds(tape, HidingNonceAt, y)
  <2>1. ReadAs(tape, HidingNonceAt, n, y)
    BY <1>0, <1>a, <1>b, <1>3 DEF ReadAs
  <2> QED
    BY <2>1, ReadHolds, Zenon
<1>c. m = HidingNonceAt
  BY <1>a
<1>7. /\ xy \in Seq(BOOLEAN) /\ Len(xy) = SaltAt
      /\ Holds(tape, 0, xy)
  <2>1. Adjoins(x, m, y, n)
    BY <1>a, <1>5, <1>6 DEF Adjoins
  <2>2. /\ xy \in Seq(BOOLEAN) /\ Len(xy) = m + n
        /\ Holds(tape, 0, xy) <=> Holds(tape, 0, x) /\ Holds(tape, m, y)
    BY <2>1, HoldsNext, Zenon DEF xy
  <2> QED
    BY <1>0, <1>a, <1>c, <1>5, <1>6, <2>2
<1>8. /\ w \in Seq(BOOLEAN) /\ Len(w) = SaltAt + H
      /\ Holds(tape, 0, w) <=> Holds(tape, 0, xy) /\ Holds(tape, SaltAt, z)
  <2>1. Adjoins(xy, SaltAt, z, H)
    BY <1>0, <1>4, <1>7 DEF Adjoins
  <2>2. /\ w \in Seq(BOOLEAN) /\ Len(w) = SaltAt + H
        /\ Holds(tape, 0, w) <=> Holds(tape, 0, xy) /\ Holds(tape, SaltAt, z)
    BY <2>1, HoldsNext, Zenon DEF w
  <2> QED
    BY <1>0, <2>2
<1>9. tape = w <=> Holds(tape, 0, w)
  BY <1>0, <1>8, HoldsWhole
<1> QED
  BY <1>0, <1>1, <1>4, <1>7, <1>8, <1>9, Zenon

\* Of a presentation, also its carries.
LEMMA PresentationTape ==
  ASSUME TapeOfCircuit, circuit.kind = "presentation"
  PROVE  tape = witness(circuit, CommittedSecrets)
           <=> /\ Holds(tape, CarriesAt,
                        less_than_carries(CommittedSecrets.presentation_nonce,
                                          circuit.presentation_limit))
               /\ HashHolds(tape, HashesAt, CredentialMessage)
               /\ HashHolds(tape, HashesAt + KECCAK_CHECKPOINT_BITS, SignedMessage)
               /\ HashHolds(tape, HashesAt + 2 * KECCAK_CHECKPOINT_BITS, TagMessage)
<1> DEFINE S == CommittedSecrets
           p1 == gf16_bits(S.signature)
           y2 == bytes_bits(S.secret)
           y3 == bytes_bits(S.hiding_nonce)
           y4 == bytes_bits(S.salt)
           y5 == u32_bits(S.presentation_nonce)
           y6 == less_than_carries(S.presentation_nonce, circuit.presentation_limit)
           y7 == keccak_checkpoints(CredentialMessage)
           y8 == keccak_checkpoints(SignedMessage)
           y9 == keccak_checkpoints(TagMessage)
           p2 == p1 \o y2
           p3 == p2 \o y3
           p4 == p3 \o y4
           p5 == p4 \o y5
           p6 == p5 \o y6
           p7 == p6 \o y7
           p8 == p7 \o y8
           p9 == p8 \o y9
           n1 == 4 * KN
           n2 == 8 * SECRET_BYTES
           n3 == 8 * HIDING_NONCE_BYTES
           n4 == 8 * SALT_BYTES
           N == PRESENTATION_NONCE_BITS
           H == KECCAK_CHECKPOINT_BITS
           H2 == HashesAt + H
           H3 == HashesAt + 2 * H
<1>0. /\ tape \in Seq(BOOLEAN) /\ SecretAt \in Nat /\ HidingNonceAt \in Nat /\ SaltAt \in Nat
      /\ PresentationNonceAt \in Nat /\ CarriesAt \in Nat /\ HashesAt \in Nat
      /\ Len(tape) = HashesAt + 3 * H /\ H \in Nat
  BY PlacesOnTape, GroupValues
<1>a. /\ n1 = SecretAt /\ SecretAt + n2 = HidingNonceAt /\ HidingNonceAt + n3 = SaltAt
      /\ SaltAt + n4 = PresentationNonceAt /\ PresentationNonceAt + N = CarriesAt
      /\ CarriesAt + N = HashesAt
      /\ n1 \in Nat /\ n2 \in Nat /\ n3 \in Nat /\ n4 \in Nat /\ N \in Nat
  BY SizeValues DEF SecretAt, HidingNonceAt, SaltAt, PresentationNonceAt, CarriesAt, HashesAt
<1>1. p9 = witness(circuit, CommittedSecrets)
  BY DEF witness, PresentationWitness, CredentialMessage, SignedMessage, Target, TagMessage
<1>3. /\ SubSeq(tape, 0 + 1, 0 + n1) = p1
      /\ SubSeq(tape, SecretAt + 1, SecretAt + n2) = y2
      /\ SubSeq(tape, HidingNonceAt + 1, HidingNonceAt + n3) = y3
      /\ SubSeq(tape, SaltAt + 1, SaltAt + n4) = y4
      /\ SubSeq(tape, PresentationNonceAt + 1, PresentationNonceAt + N) = y5
  BY SecretsRead
<1>h. H2 \in Nat /\ H3 \in Nat /\ H2 + H = H3 /\ HashesAt + H = H2
  <2> HIDE DEF H
  <2> QED
    BY <1>0
<1>7. /\ y7 \in Seq(BOOLEAN) /\ Len(y7) = H
      /\ Holds(tape, HashesAt, y7) <=> HashHolds(tape, HashesAt, CredentialMessage)
  BY <1>0, HashHoldsCheckpoints
<1>8. /\ y8 \in Seq(BOOLEAN) /\ Len(y8) = H
      /\ Holds(tape, H2, y8) <=> HashHolds(tape, H2, SignedMessage)
  <2> HIDE DEF H2
  <2> QED
    BY <1>h, HashHoldsCheckpoints
<1>9. /\ y9 \in Seq(BOOLEAN) /\ Len(y9) = H
      /\ Holds(tape, H3, y9) <=> HashHolds(tape, H3, TagMessage)
  <2> HIDE DEF H3
  <2> QED
    BY <1>h, HashHoldsCheckpoints
<1>6. y6 \in Seq(BOOLEAN) /\ Len(y6) = N
  <2>1. S.presentation_nonce \in Nat /\ circuit.presentation_limit \in Nat
    <3>1. S.presentation_nonce \in Words(N) /\ N \in Nat
      BY <1>a, SecretsRead
    <3>2. circuit.presentation_limit \in Words(N)
      BY CircuitsAssumption DEF TapeOfCircuit, Words
    <3> HIDE DEF N, S
    <3> QED
      BY <3>1, <3>2, WordsNat
  <2> QED
    BY <2>1, HonestCarries
<1> HIDE DEF p1, y2, y3, y4, y5, y6, y7, y8, y9, p2, p3, p4, p5, p6, p7, p8, p9, n1, n2, n3, n4,
             N, H, H2, H3
<1>b. /\ 0 \in Nat /\ 0 + n1 <= Len(tape) /\ SecretAt + n2 <= Len(tape)
      /\ HidingNonceAt + n3 <= Len(tape) /\ SaltAt + n4 <= Len(tape)
      /\ PresentationNonceAt + N <= Len(tape)
  BY <1>0, <1>a
<1>11. p1 \in Seq(BOOLEAN) /\ Len(p1) = SecretAt /\ Holds(tape, 0, p1)
  <2> DEFINE start == 0
  <2>0. ReadAs(tape, start, n1, p1)
    BY <1>0, <1>a, <1>b, <1>3 DEF ReadAs
  <2> HIDE DEF start
  <2>p. p1 \in Seq(BOOLEAN) /\ Len(p1) = n1 /\ Holds(tape, start, p1)
    BY <2>0, ReadHolds, Zenon
  <2>1. p1 \in Seq(BOOLEAN) /\ Len(p1) = n1 /\ Holds(tape, 0, p1)
    BY <2>p DEF start
  <2> QED
    BY <1>a, <2>1, Zenon
<1>12. p2 \in Seq(BOOLEAN) /\ Len(p2) = HidingNonceAt /\ Holds(tape, 0, p2)
  <2>0. ReadAs(tape, SecretAt, n2, y2)
    BY <1>0, <1>a, <1>b, <1>3 DEF ReadAs
  <2>1. y2 \in Seq(BOOLEAN) /\ Len(y2) = n2 /\ Holds(tape, SecretAt, y2)
    BY <2>0, ReadHolds, Zenon
  <2>2. Adjoins(p1, SecretAt, y2, n2)
    BY <1>0, <1>a, <1>11, <2>1 DEF Adjoins
  <2>3. /\ p2 \in Seq(BOOLEAN) /\ Len(p2) = SecretAt + n2
        /\ Holds(tape, 0, p2) <=> Holds(tape, 0, p1) /\ Holds(tape, SecretAt, y2)
    BY <2>2, HoldsNext, Zenon DEF p2
  <2> QED
    BY <1>a, <1>11, <2>1, <2>3
<1>13. p3 \in Seq(BOOLEAN) /\ Len(p3) = SaltAt /\ Holds(tape, 0, p3)
  <2>0. ReadAs(tape, HidingNonceAt, n3, y3)
    BY <1>0, <1>a, <1>b, <1>3 DEF ReadAs
  <2>1. y3 \in Seq(BOOLEAN) /\ Len(y3) = n3 /\ Holds(tape, HidingNonceAt, y3)
    BY <2>0, ReadHolds, Zenon
  <2>2. Adjoins(p2, HidingNonceAt, y3, n3)
    BY <1>0, <1>a, <1>12, <2>1 DEF Adjoins
  <2>3. /\ p3 \in Seq(BOOLEAN) /\ Len(p3) = HidingNonceAt + n3
        /\ Holds(tape, 0, p3) <=> Holds(tape, 0, p2) /\ Holds(tape, HidingNonceAt, y3)
    BY <2>2, HoldsNext, Zenon DEF p3
  <2> QED
    BY <1>a, <1>12, <2>1, <2>3
<1>14. p4 \in Seq(BOOLEAN) /\ Len(p4) = PresentationNonceAt /\ Holds(tape, 0, p4)
  <2>0. ReadAs(tape, SaltAt, n4, y4)
    BY <1>0, <1>a, <1>b, <1>3 DEF ReadAs
  <2>1. y4 \in Seq(BOOLEAN) /\ Len(y4) = n4 /\ Holds(tape, SaltAt, y4)
    BY <2>0, ReadHolds, Zenon
  <2>2. Adjoins(p3, SaltAt, y4, n4)
    BY <1>0, <1>a, <1>13, <2>1 DEF Adjoins
  <2>3. /\ p4 \in Seq(BOOLEAN) /\ Len(p4) = SaltAt + n4
        /\ Holds(tape, 0, p4) <=> Holds(tape, 0, p3) /\ Holds(tape, SaltAt, y4)
    BY <2>2, HoldsNext, Zenon DEF p4
  <2> QED
    BY <1>a, <1>13, <2>1, <2>3
<1>15. p5 \in Seq(BOOLEAN) /\ Len(p5) = CarriesAt /\ Holds(tape, 0, p5)
  <2>0. ReadAs(tape, PresentationNonceAt, N, y5)
    BY <1>0, <1>a, <1>b, <1>3 DEF ReadAs
  <2>1. y5 \in Seq(BOOLEAN) /\ Len(y5) = N /\ Holds(tape, PresentationNonceAt, y5)
    BY <2>0, ReadHolds, Zenon
  <2>2. Adjoins(p4, PresentationNonceAt, y5, N)
    BY <1>0, <1>a, <1>14, <2>1 DEF Adjoins
  <2>3. /\ p5 \in Seq(BOOLEAN) /\ Len(p5) = PresentationNonceAt + N
        /\ Holds(tape, 0, p5) <=> Holds(tape, 0, p4) /\ Holds(tape, PresentationNonceAt, y5)
    BY <2>2, HoldsNext, Zenon DEF p5
  <2> QED
    BY <1>a, <1>14, <2>1, <2>3
<1>16. /\ p6 \in Seq(BOOLEAN) /\ Len(p6) = HashesAt
       /\ Holds(tape, 0, p6) <=> Holds(tape, CarriesAt, y6)
  <2>1. Adjoins(p5, CarriesAt, y6, N)
    BY <1>0, <1>a, <1>6, <1>15 DEF Adjoins
  <2>2. /\ p6 \in Seq(BOOLEAN) /\ Len(p6) = CarriesAt + N
        /\ Holds(tape, 0, p6) <=> Holds(tape, 0, p5) /\ Holds(tape, CarriesAt, y6)
    BY <2>1, HoldsNext, Zenon DEF p6
  <2> QED
    BY <1>a, <1>15, <2>2
<1>17. /\ p7 \in Seq(BOOLEAN) /\ Len(p7) = H2
       /\ Holds(tape, 0, p7) <=> Holds(tape, 0, p6) /\ Holds(tape, HashesAt, y7)
  <2>1. Adjoins(p6, HashesAt, y7, H)
    BY <1>0, <1>7, <1>16 DEF Adjoins
  <2>2. /\ p7 \in Seq(BOOLEAN) /\ Len(p7) = HashesAt + H
        /\ Holds(tape, 0, p7) <=> Holds(tape, 0, p6) /\ Holds(tape, HashesAt, y7)
    BY <2>1, HoldsNext, Zenon DEF p7
  <2> QED
    BY <1>h, <2>2
<1>18. /\ p8 \in Seq(BOOLEAN) /\ Len(p8) = H3
       /\ Holds(tape, 0, p8) <=> Holds(tape, 0, p7) /\ Holds(tape, H2, y8)
  <2>1. Adjoins(p7, H2, y8, H)
    BY <1>0, <1>h, <1>8, <1>17 DEF Adjoins
  <2>2. /\ p8 \in Seq(BOOLEAN) /\ Len(p8) = H2 + H
        /\ Holds(tape, 0, p8) <=> Holds(tape, 0, p7) /\ Holds(tape, H2, y8)
    BY <2>1, HoldsNext, Zenon DEF p8
  <2> QED
    BY <1>h, <2>2
<1>19. /\ p9 \in Seq(BOOLEAN) /\ Len(p9) = H3 + H
       /\ Holds(tape, 0, p9) <=> Holds(tape, 0, p8) /\ Holds(tape, H3, y9)
  <2>1. Adjoins(p8, H3, y9, H)
    BY <1>0, <1>h, <1>9, <1>18 DEF Adjoins
  <2>2. /\ p9 \in Seq(BOOLEAN) /\ Len(p9) = H3 + H
        /\ Holds(tape, 0, p9) <=> Holds(tape, 0, p8) /\ Holds(tape, H3, y9)
    BY <2>1, HoldsNext, Zenon DEF p9
  <2> QED
    BY <1>h, <2>2
<1>20. tape = p9 <=> Holds(tape, 0, p9)
  <2>1. Len(tape) = Len(p9)
    BY <1>0, <1>h, <1>19 DEF H3
  <2> QED
    BY <1>0, <1>19, <2>1, HoldsWhole
<1>21. tape = p9 <=> /\ Holds(tape, CarriesAt, y6)
                     /\ HashHolds(tape, HashesAt, CredentialMessage)
                     /\ HashHolds(tape, H2, SignedMessage)
                     /\ HashHolds(tape, H3, TagMessage)
  BY <1>7, <1>8, <1>9, <1>16, <1>17, <1>18, <1>19, <1>20, Zenon
<1> QED
  BY <1>1, <1>21, Zenon DEF y6, S, H2, H3, H

-----------------------------------------------------------------------------
(* Honesty, assertion by assertion.                                        *)

\* Where the second and the third hash of a presentation begin.
SignedAt == HashesAt + KECCAK_CHECKPOINT_BITS
TagAt == HashesAt + 2 * KECCAK_CHECKPOINT_BITS

\* The range check of a presentation, on its tape.
InRange ==
  /\ Holds(tape, CarriesAt, less_than_carries(CommittedSecrets.presentation_nonce,
                                              circuit.presentation_limit))
  /\ CommittedSecrets.presentation_nonce < circuit.presentation_limit

\* The equation of the MAYO map.
Authenticated == MayoEval(CommittedSecrets.signature) = SignedTarget

\* The tag of the public instance is that of the secrets.
Tagged == circuit.tag = shake256(TagMessage, Len(circuit.tag))

\* An honest tape is one that passes the checks, of an issuance
LEMMA IssueHonest ==
  ASSUME TapeOfCircuit, circuit.kind = "issue"
  PROVE  Honest <=> circuit.target = Target /\ HashHolds(tape, HashesAt, CredentialMessage)
<1>1. Relation(circuit, CommittedSecrets) <=> circuit.target = Target
  BY DEF Relation, Target
<1> QED
  BY <1>1, IssueTape, Zenon DEF Honest

\* and of a presentation.
LEMMA PresentationHonest ==
  ASSUME TapeOfCircuit, circuit.kind = "presentation"
  PROVE  Honest <=> /\ InRange /\ Authenticated /\ Tagged
                    /\ HashHolds(tape, HashesAt, CredentialMessage)
                    /\ HashHolds(tape, SignedAt, SignedMessage)
                    /\ HashHolds(tape, TagAt, TagMessage)
<1>1. Relation(circuit, CommittedSecrets)
        <=> /\ CommittedSecrets.presentation_nonce < circuit.presentation_limit
            /\ Authenticated /\ Tagged
  BY DEF Relation, Target, Authenticated, SignedTarget, Tagged, TagMessage, derive_tag
<1>2. tape = witness(circuit, CommittedSecrets)
        <=> /\ Holds(tape, CarriesAt, less_than_carries(CommittedSecrets.presentation_nonce,
                                                        circuit.presentation_limit))
            /\ HashHolds(tape, HashesAt, CredentialMessage)
            /\ HashHolds(tape, SignedAt, SignedMessage)
            /\ HashHolds(tape, TagAt, TagMessage)
  BY PresentationTape, Zenon DEF SignedAt, TagAt
<1> QED
  BY <1>1, <1>2, Zenon DEF Honest, InRange

\* What is asserted of a hash is asserted of the first bits of its last state.
LEMMA OutputReads ==
  ASSUME NEW n \in Nat, n <= StateLen, NEW x \in Seq(BOOLEAN), Len(x) = n
  PROVE  OutputIs(x) <=> x = SubSeq(state_bits(sponge), 1, n)
<1> DEFINE t == state_bits(sponge)
           y == SubSeq(t, 1, n)
<1>1. t \in Seq(BOOLEAN) /\ Len(t) = StateLen /\ \A b \in 1..StateLen : t[b] <=> b - 1 \in sponge
  BY StateBitsSeq DEF StateLen
<1>2. y \in Seq(BOOLEAN) /\ Len(y) = n /\ \A b \in 1..n : y[b] = t[b]
  BY <1>1, Prefix
<1>3. OutputIs(x) <=> \A b \in 1..n : (b - 1 \in sponge) = x[b]
  BY DEF OutputIs
<1>n. StateLen \in Nat
  BY GroupValues
<1> HIDE DEF t, y
<1>4. ASSUME NEW b \in 1..n
      PROVE  (b - 1 \in sponge) = x[b] <=> x[b] = y[b]
  <2>1. b \in 1..StateLen
    BY <1>n
  <2>2. t[b] \in BOOLEAN /\ x[b] \in BOOLEAN
    BY <1>1, <2>1
  <2> QED
    BY <1>1, <1>2, <2>1, <2>2
<1>5. OutputIs(x) <=> \A b \in 1..n : x[b] = y[b]
  BY <1>3, <1>4
<1>6. x = y <=> \A b \in 1..n : x[b] = y[b]
  BY <1>2
<1> QED
  BY <1>5, <1>6 DEF y, t

\* The assertion that ends an issuance.
LEMMA TargetIsHonest ==
  ASSUME TapeOfCircuit, circuit.kind = "issue", Len(circuit.target) = M,
         sponge = RoundStates(CredentialMessage)[ROUNDS]
  PROVE  OutputIs(gf16_bits(circuit.target)) <=> circuit.target = Target
<1> DEFINE v == circuit.target
           x == gf16_bits(v)
<1>1. v \in Seq(Words(4)) /\ 4 \in Nat \ {0}
  BY CircuitsAssumption, ByteWords DEF TapeOfCircuit
<1>2. Target \in Seq(Words(4)) /\ gf16_bits(Target) = SubSeq(state_bits(sponge), 1, 4 * M)
  BY TargetBits
<1>3. v \in Seq(Nat)
  BY <1>1, WordsNat
<1>4. x \in Seq(BOOLEAN) /\ Len(x) = 4 * M
  BY <1>1, <1>3, BitStringBits DEF gf16_bits
<1>5. 4 * M \in Nat /\ 4 * M <= StateLen
  BY CredentialMessageBits, TargetOutput, SizeValues
<1>6. OutputIs(x) <=> x = gf16_bits(Target)
  <2> DEFINE n == 4 * M
  <2>1. n \in Nat /\ n <= StateLen /\ x \in Seq(BOOLEAN) /\ Len(x) = n
    BY <1>4, <1>5
  <2>2. gf16_bits(Target) = SubSeq(state_bits(sponge), 1, n)
    BY <1>2
  <2> HIDE DEF n, x
  <2> QED
    BY <2>1, <2>2, OutputReads
<1>7. x = gf16_bits(Target) => v = Target
  <2> SUFFICES ASSUME BitString(v, 4) = BitString(Target, 4) PROVE v = Target
    BY DEF gf16_bits
  <2> HIDE DEF v
  <2> QED
    BY <1>1, <1>2, BitStringInjective
<1> QED
  BY <1>6, <1>7, Zenon

\* The assertion that ends a presentation.
LEMMA TagIsHonest ==
  ASSUME TapeOfCircuit, circuit.kind = "presentation", sponge = RoundStates(TagMessage)[ROUNDS]
  PROVE  OutputIs(bytes_bits(circuit.tag)) <=> Tagged
<1> DEFINE v == circuit.tag
           k == Len(v)
           out == shake256(TagMessage, k)
           x == bytes_bits(v)
<1>1. v \in Seq(Words(8)) /\ k <= RATE_BYTES /\ k \in Nat /\ 8 \in Nat \ {0}
  BY CircuitsAssumption, ByteWords DEF TapeOfCircuit
<1>2. v \in Seq(Nat)
  BY <1>1, WordsNat
<1>3. x \in Seq(BOOLEAN) /\ Len(x) = 8 * k
  BY <1>1, <1>2, BitStringBits DEF bytes_bits
<1>4. Fits(TagMessage)
  BY TagMessageBits
<1> DEFINE n == 8 * k
<1> HIDE DEF v, k
<1>5. /\ out \in Seq(Words(8)) /\ bytes_bits(out) = SubSeq(state_bits(sponge), 1, n)
  BY <1>1, <1>4, HashOutput
<1>6. n \in Nat /\ n <= StateLen
  BY <1>1, RateAssumption, LaneValues DEF StateLen
<1>7. OutputIs(x) <=> x = bytes_bits(out)
  <2>1. n \in Nat /\ n <= StateLen /\ x \in Seq(BOOLEAN) /\ Len(x) = n
    BY <1>3, <1>6
  <2> HIDE DEF n, x, out
  <2> QED
    BY <1>5, <2>1, OutputReads
<1>8. x = bytes_bits(out) <=> v = out
  <2> HIDE DEF out
  <2>1. ASSUME BitString(v, 8) = BitString(out, 8) PROVE v = out
    BY <1>1, <1>5, <2>1, BitStringInjective
  <2> QED
    BY <2>1 DEF bytes_bits
<1>9. Tagged <=> v = out
  BY DEF Tagged, v, k
<1> QED
  BY <1>7, <1>8, <1>9, Zenon DEF v

\* The equation of the signature, on wires.
LEMMA MayoIsHonest ==
  ASSUME TapeOfCircuit, circuit.kind = "presentation", sponge = RoundStates(SignedMessage)[ROUNDS],
         wires.signature = gf16_bits(CommittedSecrets.signature)
  PROVE  MayoEval(lift_nibbles(wires.signature)) = lift_nibbles(HiddenOutput) <=> Authenticated
<1>1. lift_nibbles(gf16_bits(CommittedSecrets.signature)) = CommittedSecrets.signature
  BY SecretsRead, LiftedBits, Zenon DEF gf16_bits
<1>2. HiddenOutput = gf16_bits(SignedTarget)
  BY SignedTargetBits, Zenon DEF HiddenOutput
<1>3. lift_nibbles(gf16_bits(SignedTarget)) = SignedTarget
  BY SignedTargetBits, LiftedBits, Zenon DEF gf16_bits
<1> QED
  BY <1>1, <1>2, <1>3, Zenon DEF Authenticated

\* A hash under way: its wires hold the state after the groups checked, which
\* stand on the tape.
Progress(first, bytes) ==
  /\ groups \in 0..Groups
  /\ used = first + StateLen * groups
  /\ sponge = RoundStates(bytes)[4 * groups]
  /\ \A g \in 0..groups - 1 :
       Holds(tape, first + StateLen * g, state_bits(RoundStates(bytes)[4 * g + 4]))

\* Room for a hash on the tape.
Room(first) == first \in Nat /\ first + KECCAK_CHECKPOINT_BITS <= Len(tape) /\ tape \in Seq(BOOLEAN)

\* The checkpoint next on the tape, and the assertion of its group.
NextCheckpoint == {b \in StateBits : Alloc(25 * LANE)[b + 1]}

GroupHolds == Committed(ExpressionRounds(sponge, 4 * groups)[4], NextCheckpoint)

\* The next group of a hash holds iff its checkpoint on the tape is the honest one.
LEMMA GroupIsHonest ==
  ASSUME NEW first, NEW bytes, Fits(bytes), Room(first), Progress(first, bytes), groups < Groups
  PROVE  /\ GroupHolds <=> Holds(tape, used, state_bits(RoundStates(bytes)[4 * groups + 4]))
         /\ GroupHolds => NextCheckpoint = RoundStates(bytes)[4 * groups + 4]
<1> DEFINE N == StateLen
           t == RoundStates(bytes)[4 * groups + 4]
           x == Alloc(25 * LANE)
           y == state_bits(t)
<1>1. groups \in Nat /\ 4 * groups + 4 <= ROUNDS /\ used \in Nat /\ used + N <= Len(tape)
  <2> DEFINE p == N * groups
             q == N * (Groups - (groups + 1))
  <2>1. groups \in Nat /\ 4 * groups + 4 <= ROUNDS /\ Groups - (groups + 1) \in Nat
    BY GroupValues DEF Progress
  <2>2. p \in Nat /\ q \in Nat
    BY <2>1, GroupValues
  <2>3. Groups * N = p + N + q
    BY <2>1, GroupValues
  <2>4. used = first + p /\ first \in Nat /\ first + Groups * N <= Len(tape) /\ Len(tape) \in Nat
    BY GroupValues DEF Progress, Room
  <2>5. N \in Nat
    BY GroupValues
  <2> HIDE DEF p, q, N
  <2>6. used \in Nat /\ used + N <= Len(tape)
    BY <2>2, <2>3, <2>4, <2>5
  <2> QED
    BY <2>1, <2>6
<1>2. pad_single_block(bytes) \in SUBSET StateBits
  BY HashStarts
<1>3. ExpressionRounds(sponge, 4 * groups)[4] = t /\ t \in SUBSET StateBits
  BY <1>1, <1>2, GroupOfRounds DEF Progress
<1>4. x = SubSeq(tape, used + 1, used + N)
  BY DEF Alloc, StateLen
<1>5. tape \in Seq(BOOLEAN) /\ N \in Nat
  BY GroupValues DEF Room
<1>6. /\ y \in Seq(BOOLEAN) /\ Len(y) = N /\ \A b \in 1..N : y[b] <=> b - 1 \in t
  BY StateBitsSeq DEF StateLen
<1>7. NextCheckpoint = {b \in StateBits : x[b + 1]} /\ StateBits = 0..N - 1
  BY DEF NextCheckpoint, StateBits, StateLen
<1>8. GroupHolds <=> t = NextCheckpoint
  BY <1>3 DEF GroupHolds, Committed
<1> HIDE DEF x, y, t, N
<1>9. x \in Seq(BOOLEAN) /\ Len(x) = N
  <2>1. tape \in Seq(BOOLEAN) /\ used \in Nat /\ N \in Nat /\ used + N <= Len(tape)
    BY <1>1, <1>5
  <2> QED
    BY <1>4, <2>1, Stretch
<1>10. t = NextCheckpoint <=> x = y
  <2>1. ASSUME t = NextCheckpoint, NEW b \in 1..N
        PROVE  x[b] = y[b]
    <3>1. b - 1 \in 0..N - 1 /\ (b - 1) + 1 = b
      BY <1>5
    <3>2. y[b] <=> x[b]
      BY <1>6, <1>7, <2>1, <3>1
    <3>3. x[b] \in BOOLEAN /\ y[b] \in BOOLEAN
      BY <1>6, <1>9
    <3> QED
      BY <3>2, <3>3
  <2>2. ASSUME x = y, NEW b \in StateBits
        PROVE  x[b + 1] <=> b \in t
    <3>1. b + 1 \in 1..N /\ (b + 1) - 1 = b
      BY <1>5, <1>7
    <3> QED
      BY <1>6, <2>2, <3>1
  <2>3. ASSUME x = y PROVE t = NextCheckpoint
    <3>1. \A b \in StateBits : x[b + 1] <=> b \in t
      BY <2>2, <2>3
    <3> QED
      BY <1>3, <1>7, <3>1
  <2>4. ASSUME t = NextCheckpoint PROVE x = y
    <3>1. \A b \in 1..N : x[b] = y[b]
      BY <2>1, <2>4
    <3> QED
      BY <1>6, <1>9, <3>1
  <2> QED
    BY <2>3, <2>4
<1>11. Holds(tape, used, y) <=> x = y
  <2>1. /\ tape \in Seq(BOOLEAN) /\ used \in Nat /\ N \in Nat /\ used + N <= Len(tape)
        /\ y \in Seq(BOOLEAN) /\ Len(y) = N
    BY <1>1, <1>5, <1>6
  <2>2. Holds(tape, used, y) <=> SubSeq(tape, used + 1, used + N) = y
    BY <2>1, HoldsRead
  <2> QED
    BY <1>4, <2>2
<1> QED
  BY <1>8, <1>10, <1>11, Zenon DEF y, t

\* A checkpoint that is not the honest one is on no honest tape.
LEMMA GroupRefused ==
  ASSUME NEW first, NEW bytes, Progress(first, bytes), groups < Groups,
         ~Holds(tape, used, state_bits(RoundStates(bytes)[4 * groups + 4]))
  PROVE  ~HashHolds(tape, first, bytes)
<1>1. groups \in 0..Groups - 1
  BY GroupValues DEF Progress
<1>2. used = first + StateLen * groups
  BY DEF Progress
<1> QED
  BY <1>1, <1>2, Zenon DEF HashHolds

\* At its end a hash stands on the tape, with its last state on the wires.
LEMMA HashEnds ==
  ASSUME NEW first, NEW bytes, first \in Nat, Progress(first, bytes), groups = ROUNDS \div 4
  PROVE  /\ HashHolds(tape, first, bytes)
         /\ used = first + KECCAK_CHECKPOINT_BITS
         /\ sponge = RoundStates(bytes)[ROUNDS]
<1>1. groups = Groups
  BY DEF Groups
<1>2. HashHolds(tape, first, bytes)
  BY <1>1 DEF HashHolds, Progress
<1>3. used = first + KECCAK_CHECKPOINT_BITS
  BY <1>1, GroupValues DEF Progress
<1>4. sponge = RoundStates(bytes)[ROUNDS]
  BY <1>1, GroupValues DEF Progress
<1> QED
  BY <1>2, <1>3, <1>4

-----------------------------------------------------------------------------
(* The invariant of build().                                               *)

\* Where each input begins, and the last one ends.
InputAt ==
  IF circuit.kind = "issue" THEN <<0, HidingNonceAt, HashesAt>>
  ELSE <<0, SecretAt, HidingNonceAt, SaltAt, PresentationNonceAt, CarriesAt, HashesAt>>

\* The first n inputs are allocated.
Allocated(n) ==
  /\ IsFiniteSet(DOMAIN wires) /\ Cardinality(DOMAIN wires) = n
  /\ DOMAIN wires = {Inputs[i][1] : i \in 1..n}
  /\ used = InputAt[n + 1]
  /\ \A i \in 1..n : wires[Inputs[i][1]] = SubSeq(tape, InputAt[i] + 1, InputAt[i] + Inputs[i][2])

\* The wires of the inputs are the secrets, in bits.
InputWires ==
  /\ {"secret", "hiding_nonce"} \subseteq DOMAIN wires
  /\ wires.secret = bytes_bits(CommittedSecrets.secret)
  /\ wires.hiding_nonce = bytes_bits(CommittedSecrets.hiding_nonce)
  /\ circuit.kind = "presentation" =>
       /\ {"signature", "salt", "presentation_nonce", "carries"} \subseteq DOMAIN wires
       /\ wires.signature = gf16_bits(CommittedSecrets.signature)
       /\ wires.salt = bytes_bits(CommittedSecrets.salt)
       /\ wires.presentation_nonce = u32_bits(CommittedSecrets.presentation_nonce)
       /\ wires.carries = SubSeq(tape, CarriesAt + 1, CarriesAt + PRESENTATION_NONCE_BITS)

\* Stages once the inputs are allocated, those of a presentation alone, and those
\* of each hash.
AfterSigned == {"tag message", "tag"}
AfterCredential == {"signed message", "signed"} \cup AfterSigned
AfterRange == {"credential message", "credential"} \cup AfterCredential
AfterInputs == {"range"} \cup AfterRange
Ends == {"rejected", "invalid", "accepted"}

\* How build() ended.
Ended ==
  /\ stage \in {"rejected", "invalid"} => ~Honest
  /\ stage = "accepted" => Honest /\ used = Len(tape)

\* Parameters and inputs, and what they leave on the wires.
Starting ==
  /\ stage = "parameters" => Allocated(0)
  /\ stage = "inputs" => \E n \in 0..Len(Inputs) - 1 : Allocated(n)
  /\ stage \in {"inputs"} \cup AfterInputs => ValidParameters
  /\ stage \in AfterInputs => InputWires
  /\ stage \in {"range", "credential message"} => used = HashesAt

\* What has been asserted by each stage.
Checked ==
  /\ stage \in {"range"} \cup AfterCredential => circuit.kind = "presentation"
  /\ stage \in AfterRange /\ circuit.kind = "presentation" => InRange
  /\ stage \in AfterCredential =>
       /\ HashHolds(tape, HashesAt, CredentialMessage)
       /\ "commitment" \in DOMAIN wires /\ wires.commitment = gf16_bits(Target)
  /\ stage \in AfterSigned => HashHolds(tape, SignedAt, SignedMessage) /\ Authenticated

\* The hash of each stage.
Underway ==
  /\ stage = "credential" => Progress(HashesAt, CredentialMessage)
  /\ stage = "signed message" => used = SignedAt
  /\ stage = "signed" => Progress(SignedAt, SignedMessage)
  /\ stage = "tag message" => used = TagAt
  /\ stage = "tag" => Progress(TagAt, TagMessage)

\* The invariant of build().
Inv ==
  /\ TapeOfCircuit
  /\ stage \in {"parameters", "inputs"} \cup AfterInputs \cup Ends
  /\ Ended /\ Starting /\ Checked /\ Underway

\* build() changes neither the circuit nor the tape, nor what is read off them.
LEMMA SecretsStand ==
  ASSUME circuit' = circuit, tape' = tape
  PROVE  /\ SecretAt' = SecretAt /\ HidingNonceAt' = HidingNonceAt /\ SaltAt' = SaltAt
         /\ PresentationNonceAt' = PresentationNonceAt /\ CarriesAt' = CarriesAt
         /\ HashesAt' = HashesAt /\ SignedAt' = SignedAt /\ TagAt' = TagAt
         /\ Inputs' = Inputs /\ InputAt' = InputAt
         /\ CommittedSecrets' = CommittedSecrets
<1>1. SecretAt' = SecretAt /\ HidingNonceAt' = HidingNonceAt /\ SaltAt' = SaltAt
      /\ PresentationNonceAt' = PresentationNonceAt /\ CarriesAt' = CarriesAt
      /\ HashesAt' = HashesAt
  BY DEF SecretAt, HidingNonceAt, SaltAt, PresentationNonceAt, CarriesAt, HashesAt
<1>2. SignedAt' = SignedAt /\ TagAt' = TagAt
  BY <1>1 DEF SignedAt, TagAt
<1>3. Inputs' = Inputs
  BY Zenon DEF Inputs, HidingNonceBits
<1>4. InputAt' = InputAt
  BY <1>1, Zenon DEF InputAt
<1>5. CommittedSecrets' = CommittedSecrets
  BY Zenon DEF CommittedSecrets, Values, Value
<1> QED
  BY <1>1, <1>2, <1>3, <1>4, <1>5

\* Nor do the messages and the targets change,
LEMMA MessagesStand ==
  ASSUME circuit' = circuit, tape' = tape
  PROVE  /\ CredentialMessage' = CredentialMessage /\ Target' = Target
         /\ SignedMessage' = SignedMessage /\ SignedTarget' = SignedTarget
         /\ TagMessage' = TagMessage
<1>1. CommittedSecrets' = CommittedSecrets
  BY SecretsStand
<1>2. CredentialMessage' = CredentialMessage /\ Target' = Target
  BY <1>1, Zenon DEF CredentialMessage, Target
<1>3. SignedMessage' = SignedMessage /\ SignedTarget' = SignedTarget
  BY <1>1, <1>2, Zenon DEF SignedMessage, SignedTarget
<1>4. TagMessage' = TagMessage
  BY <1>1, Zenon DEF TagMessage
<1> QED
  BY <1>2, <1>3, <1>4

\* nor what has been asserted of them.
LEMMA FactsStand ==
  ASSUME circuit' = circuit, tape' = tape
  PROVE  /\ TapeOfCircuit' <=> TapeOfCircuit
         /\ Honest' <=> Honest
         /\ ValidParameters' <=> ValidParameters
         /\ InRange' <=> InRange
         /\ Authenticated' <=> Authenticated
         /\ HashHolds(tape, HashesAt, CredentialMessage)'
              <=> HashHolds(tape, HashesAt, CredentialMessage)
         /\ HashHolds(tape, SignedAt, SignedMessage)' <=> HashHolds(tape, SignedAt, SignedMessage)
<1>1. TapeOfCircuit' <=> TapeOfCircuit
  BY Zenon DEF TapeOfCircuit
<1>2. Honest' <=> Honest
  BY SecretsStand, Zenon DEF Honest
<1>3. ValidParameters' <=> ValidParameters
  BY Zenon DEF ValidParameters
<1>4. InRange' <=> InRange
  BY SecretsStand, Zenon DEF InRange
<1>5. Authenticated' <=> Authenticated
  BY SecretsStand, MessagesStand, Zenon DEF Authenticated
<1>6. HashHolds(tape, HashesAt, CredentialMessage)'
        <=> HashHolds(tape, HashesAt, CredentialMessage)
  BY SecretsStand, MessagesStand, Zenon
<1>7. HashHolds(tape, SignedAt, SignedMessage)' <=> HashHolds(tape, SignedAt, SignedMessage)
  BY SecretsStand, MessagesStand, Zenon
<1> QED
  BY <1>1, <1>2, <1>3, <1>4, <1>5, <1>6, <1>7, Zenon

\* The inputs of a presentation, in order.
LEMMA SixInputs ==
  ASSUME NEW a, NEW b, NEW c, NEW d, NEW e, NEW f
  PROVE  (<<a>> \o <<b, c>>) \o <<d, e, f>> = <<a, b, c, d, e, f>>
<1> DEFINE S == {a, b, c, d, e, f}
           x == <<a>>
           y == <<b, c>>
           z == <<d, e, f>>
           all == <<a, b, c, d, e, f>>
           xy == x \o y
           xyz == xy \o z
<1>1. /\ x \in Seq(S) /\ Len(x) = 1 /\ x[1] = a
      /\ y \in Seq(S) /\ Len(y) = 2 /\ y[1] = b /\ y[2] = c
      /\ z \in Seq(S) /\ Len(z) = 3 /\ z[1] = d /\ z[2] = e /\ z[3] = f
      /\ all \in Seq(S) /\ Len(all) = 6 /\ all[1] = a /\ all[2] = b /\ all[3] = c
      /\ all[4] = d /\ all[5] = e /\ all[6] = f
  OBVIOUS
<1> HIDE DEF S, x, y, z, all
<1>2. /\ xy \in Seq(S) /\ Len(xy) = 3 /\ xy[1] = a /\ xy[1 + 1] = b /\ xy[1 + 2] = c
  <2>1. /\ xy \in Seq(S) /\ Len(xy) = Len(x) + Len(y)
        /\ \A i \in 1..Len(x) : xy[i] = x[i]
        /\ \A i \in 1..Len(y) : xy[Len(x) + i] = y[i]
    <3>1. x \in Seq(S) /\ y \in Seq(S)
      BY <1>1
    <3> QED
      BY <3>1, Joined
  <2> HIDE DEF xy
  <2> QED
    BY <1>1, <2>1
<1> HIDE DEF xy
<1>3. /\ xyz \in Seq(S) /\ Len(xyz) = 6 /\ xyz[1] = a /\ xyz[2] = b /\ xyz[3] = c
      /\ xyz[3 + 1] = d /\ xyz[3 + 2] = e /\ xyz[3 + 3] = f
  <2>1. /\ xyz \in Seq(S) /\ Len(xyz) = Len(xy) + Len(z)
        /\ \A i \in 1..Len(xy) : xyz[i] = xy[i]
        /\ \A i \in 1..Len(z) : xyz[Len(xy) + i] = z[i]
    <3>1. xy \in Seq(S) /\ z \in Seq(S)
      BY <1>1, <1>2
    <3> QED
      BY <3>1, Joined
  <2> HIDE DEF xyz
  <2> QED
    BY <1>1, <1>2, <2>1
<1> HIDE DEF xyz
<1>4. \A i \in 1..6 : xyz[i] = all[i]
  BY <1>1, <1>3
<1>5. xyz = all
  BY <1>1, <1>3, <1>4
<1> QED
  BY <1>5 DEF xyz, xy, x, y, z, all

\* The inputs follow each other on the tape, under different names.
LEMMA InputsLaid ==
  ASSUME TapeOfCircuit
  PROVE  /\ Len(Inputs) = IF circuit.kind = "issue" THEN 2 ELSE 6
         /\ InputAt[1] = 0 /\ InputAt[Len(Inputs) + 1] = HashesAt
         /\ \A i \in 1..Len(Inputs) : InputAt[i + 1] = InputAt[i] + Inputs[i][2]
         /\ \A i \in 1..Len(Inputs) : \A j \in 1..Len(Inputs) :
              Inputs[i][1] = Inputs[j][1] => i = j
<1> DEFINE secret == 8 * SECRET_BYTES
           hiding == 8 * HIDING_NONCE_BYTES
           salt == 8 * SALT_BYTES
           signature == 4 * KN
           N == PRESENTATION_NONCE_BITS
<1>0. circuit.kind \in {"issue", "presentation"}
  BY PlacesOnTape
<1>1. /\ secret \in Nat /\ hiding \in Nat /\ salt \in Nat /\ signature \in Nat /\ N \in Nat
  BY SizeValues
<1>2. /\ SecretAt = IF circuit.kind = "issue" THEN 0 ELSE signature
      /\ HidingNonceAt = SecretAt + secret /\ SaltAt = HidingNonceAt + hiding
      /\ PresentationNonceAt = SaltAt + salt /\ CarriesAt = PresentationNonceAt + N
      /\ HashesAt = IF circuit.kind = "issue" THEN SaltAt ELSE CarriesAt + N
  BY DEF SecretAt, HidingNonceAt, SaltAt, PresentationNonceAt, CarriesAt, HashesAt
<1>3. Inputs = IF circuit.kind = "issue"
               THEN <<<<"secret", secret>>, <<"hiding_nonce", hiding>>>>
               ELSE <<<<"signature", signature>>>>
                      \o <<<<"secret", secret>>, <<"hiding_nonce", hiding>>>>
                      \o <<<<"salt", salt>>, <<"presentation_nonce", N>>, <<"carries", N>>>>
  BY DEF Inputs, HidingNonceBits
<1> HIDE DEF secret, hiding, salt, signature, N
<1>4. CASE circuit.kind = "issue"
  <2>1. Inputs = <<<<"secret", secret>>, <<"hiding_nonce", hiding>>>>
    BY <1>3, <1>4
  <2>2. InputAt = <<0, HidingNonceAt, HashesAt>>
    BY <1>4 DEF InputAt
  <2>3. HidingNonceAt = 0 + secret /\ HashesAt = HidingNonceAt + hiding
    BY <1>1, <1>2, <1>4
  <2>4. Len(Inputs) = 2 /\ InputAt[1] = 0 /\ InputAt[2 + 1] = HashesAt
    BY <2>1, <2>2
  <2>5. \A i \in 1..2 : InputAt[i + 1] = InputAt[i] + Inputs[i][2]
    <3>1. InputAt[1 + 1] = InputAt[1] + Inputs[1][2] /\ InputAt[2 + 1] = InputAt[2] + Inputs[2][2]
      BY <2>1, <2>2, <2>3
    <3> QED
      BY <3>1
  <2>6. \A i \in 1..2 : \A j \in 1..2 : Inputs[i][1] = Inputs[j][1] => i = j
    <3>1. Inputs[1][1] = "secret" /\ Inputs[2][1] = "hiding_nonce"
      BY <2>1
    <3> QED
      BY <3>1
  <2> QED
    BY <1>4, <2>4, <2>5, <2>6
<1>5. CASE circuit.kind = "presentation"
  <2>1. Inputs = <<<<"signature", signature>>, <<"secret", secret>>, <<"hiding_nonce", hiding>>,
                   <<"salt", salt>>, <<"presentation_nonce", N>>, <<"carries", N>>>>
    <3>1. circuit.kind # "issue"
      BY <1>5
    <3>2. Inputs = (<<<<"signature", signature>>>>
                      \o <<<<"secret", secret>>, <<"hiding_nonce", hiding>>>>)
                      \o <<<<"salt", salt>>, <<"presentation_nonce", N>>, <<"carries", N>>>>
      BY <1>3, <3>1, Zenon
    <3> DEFINE a == <<"signature", signature>>
               b == <<"secret", secret>>
               c == <<"hiding_nonce", hiding>>
               d == <<"salt", salt>>
               e == <<"presentation_nonce", N>>
               f == <<"carries", N>>
    <3>3. Inputs = (<<a>> \o <<b, c>>) \o <<d, e, f>>
      BY <3>2
    <3> HIDE DEF a, b, c, d, e, f
    <3>4. (<<a>> \o <<b, c>>) \o <<d, e, f>> = <<a, b, c, d, e, f>>
      BY SixInputs
    <3>5. Inputs = <<a, b, c, d, e, f>>
      BY <3>3, <3>4, Zenon
    <3> QED
      BY <3>5 DEF a, b, c, d, e, f
  <2>2. InputAt = <<0, SecretAt, HidingNonceAt, SaltAt, PresentationNonceAt, CarriesAt, HashesAt>>
    BY <1>5 DEF InputAt
  <2>3. /\ SecretAt = 0 + signature
        /\ HidingNonceAt = SecretAt + secret /\ SaltAt = HidingNonceAt + hiding
        /\ PresentationNonceAt = SaltAt + salt /\ CarriesAt = PresentationNonceAt + N
        /\ HashesAt = CarriesAt + N
    BY <1>1, <1>2, <1>5
  <2>4. Len(Inputs) = 6 /\ InputAt[1] = 0 /\ InputAt[6 + 1] = HashesAt
    BY <2>1, <2>2
  <2>5. \A i \in 1..6 : InputAt[i + 1] = InputAt[i] + Inputs[i][2]
    <3>1. /\ InputAt[1 + 1] = InputAt[1] + Inputs[1][2]
          /\ InputAt[2 + 1] = InputAt[2] + Inputs[2][2]
          /\ InputAt[3 + 1] = InputAt[3] + Inputs[3][2]
          /\ InputAt[4 + 1] = InputAt[4] + Inputs[4][2]
          /\ InputAt[5 + 1] = InputAt[5] + Inputs[5][2]
          /\ InputAt[6 + 1] = InputAt[6] + Inputs[6][2]
      BY <2>1, <2>2, <2>3
    <3>2. \A i \in 1..6 : i = 1 \/ i = 2 \/ i = 3 \/ i = 4 \/ i = 5 \/ i = 6
      OBVIOUS
    <3> QED
      BY <3>1, <3>2, Zenon
  <2>6. \A i \in 1..6 : \A j \in 1..6 : Inputs[i][1] = Inputs[j][1] => i = j
    <3>1. /\ Inputs[1][1] = "signature" /\ Inputs[2][1] = "secret"
          /\ Inputs[3][1] = "hiding_nonce" /\ Inputs[4][1] = "salt"
          /\ Inputs[5][1] = "presentation_nonce" /\ Inputs[6][1] = "carries"
      BY <2>1
    <3>2. \A i \in 1..6 : i = 1 \/ i = 2 \/ i = 3 \/ i = 4 \/ i = 5 \/ i = 6
      OBVIOUS
    <3> QED
      BY <3>1, <3>2
  <2> QED
    BY <1>5, <2>4, <2>5, <2>6
<1> QED
  BY <1>0, <1>4, <1>5

\* Once all are allocated, their wires are the secrets.
LEMMA AllAllocated ==
  ASSUME TapeOfCircuit, Allocated(Len(Inputs))
  PROVE  InputWires /\ used = HashesAt
<1> DEFINE secret == 8 * SECRET_BYTES
           hiding == 8 * HIDING_NONCE_BYTES
           salt == 8 * SALT_BYTES
           signature == 4 * KN
           N == PRESENTATION_NONCE_BITS
<1>0. circuit.kind \in {"issue", "presentation"} /\ used = HashesAt
  BY PlacesOnTape, InputsLaid DEF Allocated
<1>1. Inputs = IF circuit.kind = "issue"
               THEN <<<<"secret", secret>>, <<"hiding_nonce", hiding>>>>
               ELSE <<<<"signature", signature>>>>
                      \o <<<<"secret", secret>>, <<"hiding_nonce", hiding>>>>
                      \o <<<<"salt", salt>>, <<"presentation_nonce", N>>, <<"carries", N>>>>
  BY DEF Inputs, HidingNonceBits
<1>2. /\ bytes_bits(CommittedSecrets.secret) = SubSeq(tape, SecretAt + 1, SecretAt + secret)
      /\ bytes_bits(CommittedSecrets.hiding_nonce)
           = SubSeq(tape, HidingNonceAt + 1, HidingNonceAt + hiding)
  BY SecretsRead
<1>3. circuit.kind = "presentation" =>
        /\ gf16_bits(CommittedSecrets.signature) = SubSeq(tape, 0 + 1, 0 + signature)
        /\ bytes_bits(CommittedSecrets.salt) = SubSeq(tape, SaltAt + 1, SaltAt + salt)
        /\ u32_bits(CommittedSecrets.presentation_nonce)
             = SubSeq(tape, PresentationNonceAt + 1, PresentationNonceAt + N)
  BY SecretsRead
<1>4. /\ DOMAIN wires = {Inputs[i][1] : i \in 1..Len(Inputs)}
      /\ \A i \in 1..Len(Inputs) :
           wires[Inputs[i][1]] = SubSeq(tape, InputAt[i] + 1, InputAt[i] + Inputs[i][2])
  BY DEF Allocated
<1>n. PRESENTATION_NONCE_BITS = N
  OBVIOUS
<1> HIDE DEF secret, hiding, salt, signature, N
<1>5. CASE circuit.kind = "issue"
  <2>1. Inputs = <<<<"secret", secret>>, <<"hiding_nonce", hiding>>>>
    BY <1>1, <1>5
  <2>2. InputAt = <<0, HidingNonceAt, HashesAt>> /\ SecretAt = 0
    BY <1>5 DEF InputAt, SecretAt
  <2>3. /\ Len(Inputs) = 2 /\ InputAt[1] = SecretAt /\ InputAt[2] = HidingNonceAt
        /\ Inputs[1] = <<"secret", secret>> /\ Inputs[2] = <<"hiding_nonce", hiding>>
    BY <2>1, <2>2
  <2>4. 1 \in 1..Len(Inputs) /\ 2 \in 1..Len(Inputs)
    BY <2>3
  <2>5. /\ wires["secret"] = SubSeq(tape, SecretAt + 1, SecretAt + secret)
        /\ wires["hiding_nonce"] = SubSeq(tape, HidingNonceAt + 1, HidingNonceAt + hiding)
        /\ "secret" \in DOMAIN wires /\ "hiding_nonce" \in DOMAIN wires
    <3>1. /\ wires[Inputs[1][1]] = SubSeq(tape, InputAt[1] + 1, InputAt[1] + Inputs[1][2])
          /\ wires[Inputs[2][1]] = SubSeq(tape, InputAt[2] + 1, InputAt[2] + Inputs[2][2])
          /\ Inputs[1][1] \in DOMAIN wires /\ Inputs[2][1] \in DOMAIN wires
      BY <1>4, <2>4
    <3>2. /\ Inputs[1][1] = "secret" /\ Inputs[1][2] = secret
          /\ Inputs[2][1] = "hiding_nonce" /\ Inputs[2][2] = hiding
      BY <2>3
    <3> QED
      BY <2>3, <3>1, <3>2, Zenon
  <2> QED
    BY <1>0, <1>2, <1>5, <2>5 DEF InputWires
<1>6. CASE circuit.kind = "presentation"
  <2>1. Inputs = <<<<"signature", signature>>, <<"secret", secret>>, <<"hiding_nonce", hiding>>,
                   <<"salt", salt>>, <<"presentation_nonce", N>>, <<"carries", N>>>>
    <3>1. circuit.kind # "issue"
      BY <1>6
    <3>2. Inputs = (<<<<"signature", signature>>>>
                      \o <<<<"secret", secret>>, <<"hiding_nonce", hiding>>>>)
                      \o <<<<"salt", salt>>, <<"presentation_nonce", N>>, <<"carries", N>>>>
      BY <1>1, <3>1, Zenon
    <3> DEFINE a == <<"signature", signature>>
               b == <<"secret", secret>>
               c == <<"hiding_nonce", hiding>>
               d == <<"salt", salt>>
               e == <<"presentation_nonce", N>>
               f == <<"carries", N>>
    <3>3. Inputs = (<<a>> \o <<b, c>>) \o <<d, e, f>>
      BY <3>2
    <3> HIDE DEF a, b, c, d, e, f
    <3>4. (<<a>> \o <<b, c>>) \o <<d, e, f>> = <<a, b, c, d, e, f>>
      BY SixInputs
    <3>5. Inputs = <<a, b, c, d, e, f>>
      BY <3>3, <3>4, Zenon
    <3> QED
      BY <3>5 DEF a, b, c, d, e, f
  <2>2. InputAt = <<0, SecretAt, HidingNonceAt, SaltAt, PresentationNonceAt, CarriesAt, HashesAt>>
    BY <1>6 DEF InputAt
  <2>3. /\ Len(Inputs) = 6
        /\ InputAt[1] = 0 /\ InputAt[2] = SecretAt /\ InputAt[3] = HidingNonceAt
        /\ InputAt[4] = SaltAt /\ InputAt[5] = PresentationNonceAt /\ InputAt[6] = CarriesAt
    BY <2>1, <2>2
  <2>4. /\ 1 \in 1..Len(Inputs) /\ 2 \in 1..Len(Inputs) /\ 3 \in 1..Len(Inputs)
        /\ 4 \in 1..Len(Inputs) /\ 5 \in 1..Len(Inputs) /\ 6 \in 1..Len(Inputs)
    BY <2>3
  <2>5. /\ Inputs[1][1] = "signature" /\ Inputs[1][2] = signature
        /\ Inputs[2][1] = "secret" /\ Inputs[2][2] = secret
        /\ Inputs[3][1] = "hiding_nonce" /\ Inputs[3][2] = hiding
        /\ Inputs[4][1] = "salt" /\ Inputs[4][2] = salt
        /\ Inputs[5][1] = "presentation_nonce" /\ Inputs[5][2] = N
        /\ Inputs[6][1] = "carries" /\ Inputs[6][2] = N
    BY <2>1
  <2>6. \A i \in 1..Len(Inputs) : Inputs[i][1] \in DOMAIN wires
    BY <1>4
  <2>7. /\ "signature" \in DOMAIN wires /\ "secret" \in DOMAIN wires
        /\ "hiding_nonce" \in DOMAIN wires /\ "salt" \in DOMAIN wires
        /\ "presentation_nonce" \in DOMAIN wires /\ "carries" \in DOMAIN wires
    BY <2>4, <2>5, <2>6
  <2>8. /\ wires["signature"] = SubSeq(tape, 0 + 1, 0 + signature)
        /\ wires["secret"] = SubSeq(tape, SecretAt + 1, SecretAt + secret)
        /\ wires["hiding_nonce"] = SubSeq(tape, HidingNonceAt + 1, HidingNonceAt + hiding)
    BY <1>4, <2>3, <2>4, <2>5, Zenon
  <2>9. /\ wires["salt"] = SubSeq(tape, SaltAt + 1, SaltAt + salt)
        /\ wires["presentation_nonce"]
             = SubSeq(tape, PresentationNonceAt + 1, PresentationNonceAt + N)
        /\ wires["carries"] = SubSeq(tape, CarriesAt + 1, CarriesAt + N)
    BY <1>4, <2>3, <2>4, <2>5, Zenon
  <2>10. /\ {"secret", "hiding_nonce"} \subseteq DOMAIN wires
         /\ {"signature", "salt", "presentation_nonce", "carries"} \subseteq DOMAIN wires
    BY <2>7
  <2> QED
    BY <1>0, <1>2, <1>3, <1>6, <1>n, <2>8, <2>9, <2>10, Zenon DEF InputWires
<1> QED
  BY <1>0, <1>5, <1>6

-----------------------------------------------------------------------------
(* Its steps.                                                              *)

\* Progress, of any state of the wires.
Reached(t, u, s, n, first, bytes) ==
  /\ n \in 0..Groups
  /\ u = first + StateLen * n
  /\ s = RoundStates(bytes)[4 * n]
  /\ \A g \in 0..n - 1 :
       Holds(t, first + StateLen * g, state_bits(RoundStates(bytes)[4 * g + 4]))

\* Progress is that of the wires of a state, before and after a step.
LEMMA ProgressReached ==
  /\ \A first, bytes : Progress(first, bytes)
                         <=> Reached(tape, used, sponge, groups, first, bytes)
  /\ Progress(HashesAt, CredentialMessage)'
       <=> Reached(tape', used', sponge', groups', HashesAt', CredentialMessage')
  /\ Progress(SignedAt, SignedMessage)'
       <=> Reached(tape', used', sponge', groups', SignedAt', SignedMessage')
  /\ Progress(TagAt, TagMessage)'
       <=> Reached(tape', used', sponge', groups', TagAt', TagMessage')
  BY Zenon DEF Progress, Reached

\* Room for each hash.
LEMMA RoomForHashes ==
  ASSUME TapeOfCircuit
  PROVE  /\ Room(HashesAt)
         /\ circuit.kind = "issue" => Len(tape) = HashesAt + KECCAK_CHECKPOINT_BITS
         /\ circuit.kind = "presentation" =>
              /\ Room(SignedAt) /\ Room(TagAt)
              /\ SignedAt = HashesAt + KECCAK_CHECKPOINT_BITS
               /\ TagAt = SignedAt + KECCAK_CHECKPOINT_BITS
              /\ Len(tape) = TagAt + KECCAK_CHECKPOINT_BITS
<1> DEFINE H == KECCAK_CHECKPOINT_BITS
<1>1. H \in Nat
  BY GroupValues
<1>2. /\ tape \in Seq(BOOLEAN) /\ circuit.kind \in {"issue", "presentation"} /\ HashesAt \in Nat
      /\ Len(tape) = HashesAt + (IF circuit.kind = "issue" THEN H ELSE 3 * H)
  BY PlacesOnTape
<1>3. SignedAt = HashesAt + H /\ TagAt = HashesAt + 2 * H
  BY DEF SignedAt, TagAt
<1>4. \A first : Room(first) <=> /\ first \in Nat /\ first + H <= Len(tape)
                                 /\ tape \in Seq(BOOLEAN)
  BY DEF Room
<1>5. H = KECCAK_CHECKPOINT_BITS
  OBVIOUS
<1> HIDE DEF H
<1>6. Room(HashesAt)
  BY <1>1, <1>2, <1>4
<1>7. circuit.kind = "issue" => Len(tape) = HashesAt + H
  BY <1>2
<1>8. ASSUME circuit.kind = "presentation"
      PROVE  /\ Room(SignedAt) /\ Room(TagAt) /\ TagAt = SignedAt + H
             /\ Len(tape) = TagAt + H
  <2>1. Len(tape) = HashesAt + 3 * H
    BY <1>2, <1>8
  <2>2. /\ SignedAt \in Nat /\ TagAt \in Nat /\ TagAt = SignedAt + H
        /\ Len(tape) = TagAt + H /\ SignedAt + H <= Len(tape) /\ TagAt + H <= Len(tape)
    BY <1>1, <1>2, <1>3, <2>1
  <2> QED
    BY <1>2, <1>4, <2>2
<1> QED
  BY <1>3, <1>5, <1>6, <1>7, <1>8

\* The hash of a message begins with its padded block on the wires.
LEMMA HashStarted ==
  ASSUME NEW first \in Nat, NEW bytes, Fits(bytes), NEW t
  PROVE  Reached(t, first, initial_sponge_state(bytes_bits(bytes)), 0, first, bytes)
<1>1. initial_sponge_state(bytes_bits(bytes)) = RoundStates(bytes)[4 * 0]
  BY HashStarts
<1>2. 0 \in 0..Groups /\ first = first + StateLen * 0
  BY GroupValues
<1>3. 0..0 - 1 = {}
  OBVIOUS
<1> QED
  BY <1>1, <1>2, <1>3 DEF Reached

\* A group of a hash goes on with the honest states, or refuses a tape that does not
\* hold the hash.
LEMMA GroupStep ==
  ASSUME NEW first, NEW bytes, Fits(bytes), Room(first), Progress(first, bytes), CheckGroup
  PROVE  \/ /\ Reached(tape, used', sponge', groups', first, bytes)
            /\ stage' = stage /\ wires' = wires
         \/ Reject /\ ~HashHolds(tape, first, bytes)
<1> DEFINE R == RoundStates(bytes)
           N == StateLen
           h == groups + 1
<1>1. groups < Groups /\ groups \in 0..Groups /\ Groups \in Nat /\ N \in Nat /\ first \in Nat
  BY GroupValues DEF CheckGroup, Groups, Progress, Room
<1>2. IF GroupHolds
      THEN /\ sponge' = NextCheckpoint /\ groups' = groups + 1 /\ used' = used + StateLen
           /\ stage' = stage /\ wires' = wires
      ELSE Reject
  BY DEF CheckGroup, GroupHolds, NextCheckpoint, StateLen, Goto
<1>3. /\ GroupHolds <=> Holds(tape, used, state_bits(R[4 * groups + 4]))
      /\ GroupHolds => NextCheckpoint = R[4 * groups + 4]
  BY <1>1, GroupIsHonest
<1>4. CASE ~GroupHolds
  BY <1>1, <1>2, <1>3, <1>4, GroupRefused
<1>5. CASE GroupHolds
  <2>1. /\ used = first + N * groups
        /\ \A g \in 0..groups - 1 : Holds(tape, first + N * g, state_bits(R[4 * g + 4]))
    BY DEF Progress
  <2>2. /\ sponge' = R[4 * groups + 4] /\ groups' = h /\ used' = used + N
        /\ stage' = stage /\ wires' = wires
        /\ Holds(tape, first + N * groups, state_bits(R[4 * groups + 4]))
    BY <1>2, <1>3, <1>5, <2>1
  <2> DEFINE F(g) == Holds(tape, first + N * g, state_bits(R[4 * g + 4]))
  <2>3. F(groups) /\ \A g \in 0..groups - 1 : F(g)
    BY <2>1, <2>2
  <2> HIDE DEF F
  <2>4. \A g \in 0..h - 1 : F(g)
    BY <1>1, <2>3
  <2>5. 4 * groups + 4 = 4 * h /\ h \in 0..Groups
    BY <1>1
  <2>6. used' = first + N * h
    <3> DEFINE p == N * groups
    <3>1. p \in Nat /\ N * h = p + N
      BY <1>1
    <3>2. used' = (first + p) + N
      BY <2>1, <2>2
    <3> HIDE DEF p, N
    <3> QED
      BY <1>1, <3>1, <3>2
  <2>7. sponge' = R[4 * h]
    BY <2>2, <2>5
  <2> HIDE DEF h
  <2>8. Reached(tape, used', sponge', h, first, bytes)
    BY <2>4, <2>5, <2>6, <2>7 DEF Reached, F
  <2> QED
    BY <2>2, <2>8
<1> QED
  BY <1>4, <1>5

\* One more input.
LEMMA AllocatedStep ==
  ASSUME TapeOfCircuit, NEW n \in Nat, n < Len(Inputs), Allocated(n), AllocInputs
  PROVE  Allocated(n + 1)'
<1> DEFINE h == n + 1
           input == Inputs[h]
<1>1. /\ IsFiniteSet(DOMAIN wires) /\ Cardinality(DOMAIN wires) = n
      /\ DOMAIN wires = {Inputs[i][1] : i \in 1..n}
      /\ used = InputAt[h]
      /\ \A i \in 1..n :
           wires[Inputs[i][1]] = SubSeq(tape, InputAt[i] + 1, InputAt[i] + Inputs[i][2])
  BY DEF Allocated
<1>2. /\ wires' = [name \in DOMAIN wires \cup {input[1]} |->
                     IF name = input[1] THEN Alloc(input[2]) ELSE wires[name]]
      /\ used' = used + input[2]
      /\ circuit' = circuit /\ tape' = tape
  BY <1>1 DEF AllocInputs, Goto
<1>3. Inputs' = Inputs /\ InputAt' = InputAt
  BY <1>2, SecretsStand
<1>4. /\ InputAt[h + 1] = InputAt[h] + input[2]
      /\ \A i \in 1..n : Inputs[i][1] # input[1]
  <2>1. Len(Inputs) \in Nat
    BY InputsLaid
  <2>2. h \in 1..Len(Inputs) /\ \A i \in 1..n : i \in 1..Len(Inputs) /\ i # h
    BY <2>1
  <2> QED
    BY <2>2, InputsLaid
<1>h. h \in Nat /\ \A i \in 1..h : i \in 1..n \/ i = h
  OBVIOUS
<1>i. h \in 1..h /\ \A i \in 1..n : i \in 1..h
  OBVIOUS
<1>c. Cardinality(DOMAIN wires) + 1 = h
  BY <1>1
<1> HIDE DEF h, input
<1>5. DOMAIN wires' = DOMAIN wires \cup {input[1]} /\ input[1] \notin DOMAIN wires
  BY <1>1, <1>2, <1>4
<1>6. IsFiniteSet(DOMAIN wires') /\ Cardinality(DOMAIN wires') = h
  <2> DEFINE S == DOMAIN wires
             x == input[1]
  <2>1. IsFiniteSet(S) /\ x \notin S /\ Cardinality(S) + 1 = h
    BY <1>1, <1>5, <1>c
  <2>2. DOMAIN wires' = S \cup {x}
    BY <1>5
  <2> HIDE DEF S, x
  <2>3. IsFiniteSet(S \cup {x}) /\ Cardinality(S \cup {x}) = h
    BY <2>1, FS_AddElement
  <2> QED
    BY <2>2, <2>3
<1>7. DOMAIN wires' = {Inputs[i][1] : i \in 1..h}
  <2> DEFINE name(i) == Inputs[i][1]
  <2>1. /\ DOMAIN wires = {name(i) : i \in 1..n} /\ input[1] = name(h)
        /\ DOMAIN wires' = DOMAIN wires \cup {input[1]}
    BY <1>1, <1>5 DEF input
  <2> HIDE DEF name
  <2>2. {name(i) : i \in 1..h} = {name(i) : i \in 1..n} \cup {name(h)}
    BY <1>h, <1>i
  <2>3. DOMAIN wires' = {name(i) : i \in 1..h}
    BY <2>1, <2>2, Zenon
  <2> QED
    BY <2>3 DEF name
<1>8. used' = InputAt[h + 1]
  BY <1>1, <1>2, <1>4
<1>9. ASSUME NEW i \in 1..h
      PROVE  wires'[Inputs[i][1]] = SubSeq(tape, InputAt[i] + 1, InputAt[i] + Inputs[i][2])
  <2>1. CASE i \in 1..n
    <3>1. Inputs[i][1] \in DOMAIN wires /\ Inputs[i][1] # input[1]
      BY <1>1, <1>4, <2>1
    <3>2. wires'[Inputs[i][1]] = wires[Inputs[i][1]]
      BY <1>2, <3>1
    <3> QED
      BY <1>1, <2>1, <3>2
  <2>2. CASE i = h
    <3>1. wires'[input[1]] = Alloc(input[2])
      BY <1>2
    <3>2. Alloc(input[2]) = SubSeq(tape, InputAt[h] + 1, InputAt[h] + input[2])
      BY <1>1 DEF Alloc
    <3> QED
      BY <2>2, <3>1, <3>2 DEF input
  <2> QED
    BY <1>h, <2>1, <2>2
<1>10. Allocated(h)'
  <2>1. \A i \in 1..h : wires'[Inputs'[i][1]]
             = SubSeq(tape', InputAt'[i] + 1, InputAt'[i] + Inputs'[i][2])
    BY <1>2, <1>3, <1>9, Zenon
  <2>2. DOMAIN wires' = {Inputs'[i][1] : i \in 1..h}
    BY <1>3, <1>7, Zenon
  <2>3. used' = InputAt'[h + 1]
    BY <1>3, <1>8, Zenon
  <2>4. Allocated(h)' <=> /\ IsFiniteSet(DOMAIN wires') /\ Cardinality(DOMAIN wires') = h
                          /\ DOMAIN wires' = {Inputs'[i][1] : i \in 1..h}
                          /\ used' = InputAt'[h + 1]
                          /\ \A i \in 1..h : wires'[Inputs'[i][1]]
                               = SubSeq(tape', InputAt'[i] + 1, InputAt'[i] + Inputs'[i][2])
    BY Zenon DEF Allocated
  <2> QED
    BY <1>6, <2>1, <2>2, <2>3, <2>4, Zenon
<1> QED
  BY <1>10 DEF h

\* Parameters that build() refuses are of no honest proof.
LEMMA InvalidRefused ==
  ASSUME TapeOfCircuit, ~ValidParameters
  PROVE  ~Honest
<1>1. CASE circuit.kind = "issue"
  <2>1. Len(circuit.target) # M
    BY <1>1 DEF ValidParameters
  <2>2. Len(Target) = M
    BY TargetBits
  <2> QED
    BY <1>1, <2>1, <2>2, IssueHonest
<1>2. CASE circuit.kind = "presentation"
  <2>1. circuit.presentation_limit = 0
    BY <1>2, SizesAssumption DEF ValidParameters
  <2>2. CommittedSecrets.presentation_nonce \in Nat
    BY <1>2, SecretsRead, SizeValues, WordsNat
  <2>3. ~InRange
    BY <2>1, <2>2 DEF InRange
  <2> QED
    BY <1>2, <2>3, PresentationHonest
<1> QED
  BY <1>1, <1>2, PlacesOnTape

\* A step that ends build() keeps the invariant if it ends it rightly,
LEMMA InvEnds ==
  ASSUME Inv, circuit' = circuit, tape' = tape, stage' \in Ends,
         stage' \in {"rejected", "invalid"} => ~Honest,
         stage' = "accepted" => Honest /\ used' = Len(tape)
  PROVE  Inv'
<1>1. TapeOfCircuit' /\ (Honest' <=> Honest)
  BY FactsStand DEF Inv
<1>2. Ended'
  BY <1>1 DEF Ended
<1>3. /\ stage' \notin {"parameters", "inputs"} \cup AfterInputs
      /\ stage' \notin AfterInputs /\ stage' \notin AfterRange /\ stage' \notin AfterCredential
      /\ stage' \notin AfterSigned
  BY DEF AfterInputs, AfterRange, AfterCredential, AfterSigned, Ends
<1>4. Starting' /\ Checked' /\ Underway'
  BY <1>3 DEF Starting, Checked, Underway, AfterInputs, AfterRange, AfterCredential, AfterSigned
<1> QED
  BY <1>1, <1>2, <1>4 DEF Inv, AfterInputs, AfterRange, AfterCredential, AfterSigned, Ends

\* as a refusal of a tape that is not honest does.
LEMMA InvRejects ==
  ASSUME Inv, Reject, ~Honest
  PROVE  Inv'
<1>1. circuit' = circuit /\ tape' = tape /\ stage' = "rejected"
  BY DEF Reject, Goto
<1> QED
  BY <1>1, InvEnds DEF Ends

\* The check of the parameters keeps the invariant,
LEMMA InvCheckParameters ==
  ASSUME Inv, CheckParameters
  PROVE  Inv'
<1>1. /\ circuit' = circuit /\ tape' = tape /\ used' = used /\ wires' = wires
      /\ stage = "parameters"
      /\ stage' = IF ValidParameters THEN "inputs" ELSE "invalid"
  BY DEF CheckParameters, Goto
<1>2. TapeOfCircuit /\ Allocated(0)
  BY <1>1 DEF Inv, Starting
<1>3. CASE ~ValidParameters
  BY <1>1, <1>2, <1>3, InvalidRefused, InvEnds DEF Ends
<1>4. CASE ValidParameters
  <2>1. stage' = "inputs"
    BY <1>1, <1>4
  <2>2. TapeOfCircuit' /\ ValidParameters'
    BY <1>1, <1>2, <1>4, FactsStand
  <2>3. Inputs' = Inputs /\ InputAt' = InputAt
    BY <1>1, SecretsStand
  <2>4. Allocated(0)'
    BY <1>1, <1>2, <2>3 DEF Allocated
  <2>5. 0 \in 0..Len(Inputs') - 1
    <3>1. Len(Inputs) \in {2, 6}
      BY <1>2, InputsLaid
    <3> QED
      BY <2>3, <3>1
  <2>6. \E n \in 0..Len(Inputs') - 1 : Allocated(n)'
    BY <2>4, <2>5
  <2>7. Starting'
    BY <2>1, <2>2, <2>6 DEF Starting, AfterInputs, AfterRange, AfterCredential, AfterSigned
  <2>8. Ended' /\ Checked' /\ Underway'
    BY <2>1 DEF Ended, Checked, Underway, AfterRange, AfterCredential, AfterSigned
  <2> QED
    BY <2>1, <2>2, <2>7, <2>8 DEF Inv
<1> QED
  BY <1>3, <1>4

\* so does the allocation of an input.
LEMMA InvAllocInputs ==
  ASSUME Inv, AllocInputs
  PROVE  Inv'
<1> DEFINE L == Len(Inputs)
<1>1. circuit' = circuit /\ tape' = tape /\ stage = "inputs"
  BY DEF AllocInputs, Goto
<1>2. TapeOfCircuit /\ ValidParameters
  BY <1>1 DEF Inv, Starting
<1>3. PICK n \in 0..L - 1 : Allocated(n)
  BY <1>1 DEF Inv, Starting
<1>4. L \in {2, 6} /\ (circuit.kind = "issue" \/ circuit.kind = "presentation")
  BY <1>2, InputsLaid, PlacesOnTape
<1>5. n \in Nat /\ n < L /\ (n + 1 < L \/ n + 1 = L)
  BY <1>3, <1>4
<1>6. Allocated(n + 1)'
  BY <1>2, <1>3, <1>5, AllocatedStep
<1>7. /\ TapeOfCircuit' /\ ValidParameters' /\ Inputs' = Inputs
  BY <1>1, <1>2, FactsStand, SecretsStand
<1>8. stage' = CASE n + 1 # L -> "inputs"
                 [] n + 1 = L /\ circuit.kind = "issue" -> "credential message"
                 [] OTHER -> "range"
  <2>1. Cardinality(DOMAIN wires) = n
    BY <1>3 DEF Allocated
  <2> QED
    BY <2>1, Zenon DEF AllocInputs, Goto
<1>9. CASE n + 1 < L
  <2>1. stage' = "inputs"
    <3> DEFINE done == n + 1 = L
    <3>1. ~done
      BY <1>4, <1>5, <1>9
    <3>2. stage' = CASE ~done -> "inputs"
                     [] done /\ circuit.kind = "issue" -> "credential message"
                     [] OTHER -> "range"
      BY <1>8
    <3> HIDE DEF done
    <3> QED
      BY <3>1, <3>2
  <2>2. n + 1 \in 0..Len(Inputs') - 1
    BY <1>4, <1>5, <1>7, <1>9
  <2>3. \E m \in 0..Len(Inputs') - 1 : Allocated(m)'
    BY <1>6, <2>2
  <2>4. Starting'
    BY <1>7, <2>1, <2>3 DEF Starting, AfterInputs, AfterRange, AfterCredential, AfterSigned
  <2>5. Ended' /\ Checked' /\ Underway'
    BY <2>1 DEF Ended, Checked, Underway, AfterRange, AfterCredential, AfterSigned
  <2> QED
    BY <1>7, <2>1, <2>4, <2>5 DEF Inv
<1>10. CASE n + 1 = L
  <2>1. stage' = IF circuit.kind = "issue" THEN "credential message" ELSE "range"
    BY <1>4, <1>8, <1>10
  <2>2. (InputWires /\ used = HashesAt)'
    <3>1. Allocated(Len(Inputs))'
      BY <1>6, <1>7, <1>10
    <3>2. TapeOfCircuit' /\ Allocated(Len(Inputs))' => (InputWires /\ used = HashesAt)'
      BY AllAllocated, PTL
    <3> QED
      BY <1>7, <3>1, <3>2
  <2>3. Starting'
    BY <1>7, <2>1, <2>2 DEF Starting, AfterInputs, AfterRange, AfterCredential, AfterSigned
  <2>4. Ended' /\ Checked' /\ Underway'
    BY <1>1, <1>4, <2>1 DEF Ended, Checked, Underway, AfterRange, AfterCredential, AfterSigned
  <2> QED
    BY <1>7, <2>1, <2>3, <2>4
       DEF Inv, AfterInputs, AfterRange, AfterCredential, AfterSigned
<1> QED
  BY <1>5, <1>9, <1>10

\* What the wires hold from stage to stage when they do not change.
LEMMA WiresStand ==
  ASSUME circuit' = circuit, tape' = tape, wires' = wires, InputWires
  PROVE  InputWires'
<1>1. CommittedSecrets' = CommittedSecrets /\ CarriesAt' = CarriesAt
  BY SecretsStand
<1> QED
  BY <1>1, Zenon DEF InputWires

\* The range check refuses exactly the tapes whose nonce or carries are wrong.
LEMMA InvAssertRange ==
  ASSUME Inv, AssertRange
  PROVE  Inv'
<1> DEFINE S == CommittedSecrets
           limit == circuit.presentation_limit
           N == PRESENTATION_NONCE_BITS
<1>1. stage = "range" /\ circuit' = circuit /\ tape' = tape
  BY DEF AssertRange, Reject, Goto
<1>2. /\ TapeOfCircuit /\ ValidParameters /\ InputWires /\ used = HashesAt
      /\ circuit.kind = "presentation"
  BY <1>1 DEF Inv, Starting, Checked, AfterInputs
<1>3. /\ S.presentation_nonce \in Words(N) /\ S.presentation_nonce \in Nat
  BY <1>2, SecretsRead, SizeValues, WordsNat
<1>4. limit \in Words(N) /\ limit \in Nat
  <2>1. limit \in Words(N)
    BY <1>2, CircuitsAssumption DEF TapeOfCircuit, Words
  <2> HIDE DEF limit, N
  <2> QED
    BY <2>1, SizeValues, WordsNat DEF N
<1>5. /\ wires.carries = SubSeq(tape, CarriesAt + 1, CarriesAt + N)
      /\ wires.presentation_nonce = u32_bits(S.presentation_nonce)
  BY <1>2 DEF InputWires
<1>6. /\ tape \in Seq(BOOLEAN) /\ CarriesAt \in Nat /\ N \in Nat /\ CarriesAt + N <= Len(tape)
  <2> DEFINE H == KECCAK_CHECKPOINT_BITS
  <2>1. H \in Nat
    BY GroupValues
  <2>2. /\ tape \in Seq(BOOLEAN) /\ CarriesAt \in Nat /\ Len(tape) = HashesAt + 3 * H
        /\ HashesAt = CarriesAt + N /\ N \in Nat
    BY <1>2, PlacesOnTape, SizeValues DEF HashesAt
  <2> HIDE DEF H, N
  <2> QED
    BY <2>1, <2>2
<1>7. wires.carries \in Seq(BOOLEAN) /\ Len(wires.carries) = N
  <2> HIDE DEF N
  <2> QED
    BY <1>5, <1>6, Stretch
<1>8. RangeHolds <=> /\ wires.carries = less_than_carries(S.presentation_nonce, limit)
                     /\ S.presentation_nonce < limit
  <2>1. /\ S.presentation_nonce \in Words(PRESENTATION_NONCE_BITS)
        /\ circuit.presentation_limit \in Words(PRESENTATION_NONCE_BITS)
        /\ wires.presentation_nonce = u32_bits(S.presentation_nonce)
        /\ wires.carries \in Seq(BOOLEAN) /\ Len(wires.carries) = PRESENTATION_NONCE_BITS
    BY <1>3, <1>4, <1>5, <1>7
  <2> QED
    BY <2>1, RangeIsHonest
<1>9. wires.carries = less_than_carries(S.presentation_nonce, limit)
        <=> Holds(tape, CarriesAt, less_than_carries(S.presentation_nonce, limit))
  <2> DEFINE x == less_than_carries(S.presentation_nonce, limit)
  <2>1. x \in Seq(BOOLEAN) /\ Len(x) = N
    BY <1>3, <1>4, HonestCarries
  <2> HIDE DEF x, N
  <2>2. Holds(tape, CarriesAt, x) <=> SubSeq(tape, CarriesAt + 1, CarriesAt + N) = x
    BY <1>6, <2>1, HoldsRead
  <2> QED
    BY <1>5, <2>2 DEF x
<1>10. RangeHolds <=> InRange
  BY <1>8, <1>9, Zenon DEF InRange
<1>11. CASE ~RangeHolds
  <2>1. Reject
    BY <1>11 DEF AssertRange
  <2>2. ~Honest
    BY <1>2, <1>10, <1>11, PresentationHonest
  <2> QED
    BY <2>1, <2>2, InvRejects
<1>12. CASE RangeHolds
  <2>1. stage' = "credential message" /\ used' = used /\ wires' = wires
    BY <1>12 DEF AssertRange, Goto
  <2>2. TapeOfCircuit' /\ ValidParameters' /\ InRange' /\ HashesAt' = HashesAt
    BY <1>1, <1>2, <1>10, <1>12, FactsStand, SecretsStand
  <2>3. InputWires'
    BY <1>1, <1>2, <2>1, WiresStand
  <2>4. Starting'
    BY <1>2, <2>1, <2>2, <2>3
       DEF Starting, AfterInputs, AfterRange, AfterCredential, AfterSigned
  <2>5. Ended' /\ Checked' /\ Underway'
    BY <2>1, <2>2 DEF Ended, Checked, Underway, AfterRange, AfterCredential, AfterSigned
  <2> QED
    BY <2>1, <2>2, <2>4, <2>5 DEF Inv, AfterInputs, AfterRange, AfterCredential, AfterSigned
<1> QED
  BY <1>11, <1>12

\* What stands from one hash stage to the next.
LEMMA AfterRangeStands ==
  ASSUME Inv, stage \in AfterRange, stage' \in AfterRange, stage' # "credential message",
         circuit' = circuit, tape' = tape, InputWires'
  PROVE  /\ TapeOfCircuit' /\ Ended' /\ Starting'
         /\ stage' \in {"parameters", "inputs"} \cup AfterInputs \cup Ends
         /\ (circuit.kind = "presentation" => InRange)'
<1>1. /\ TapeOfCircuit /\ ValidParameters /\ (circuit.kind = "presentation" => InRange)
  BY DEF Inv, Starting, Checked, AfterInputs
<1>2. TapeOfCircuit' /\ ValidParameters' /\ (circuit.kind = "presentation" => InRange)'
  BY <1>1, FactsStand
<1>3. /\ stage' \notin {"rejected", "invalid"} /\ stage' # "accepted"
      /\ stage' # "parameters" /\ stage' # "inputs" /\ stage' # "range"
      /\ stage' \in {"parameters", "inputs"} \cup AfterInputs \cup Ends
  BY DEF AfterInputs, AfterRange, AfterCredential, AfterSigned
<1>4. Ended'
  BY <1>3 DEF Ended
<1>5. Starting'
  BY <1>2, <1>3 DEF Starting
<1> QED
  BY <1>2, <1>3, <1>4, <1>5

\* The wires of the credential message are its padded block.
LEMMA InvHashCredential ==
  ASSUME Inv, HashCredential
  PROVE  Inv'
<1>1. /\ stage = "credential message" /\ circuit' = circuit /\ tape' = tape
      /\ sponge' = initial_sponge_state(credential_wires) /\ groups' = 0
      /\ used' = used /\ wires' = wires /\ stage' = "credential"
  BY DEF HashCredential, StartHash, Goto
<1>2. stage \in AfterRange /\ stage' \in AfterRange
  BY <1>1 DEF AfterRange
<1>3. TapeOfCircuit /\ InputWires /\ used = HashesAt
  BY <1>1 DEF Inv, Starting, AfterInputs, AfterRange
<1>4. InputWires'
  BY <1>1, <1>3, WiresStand
<1>5. credential_wires = bytes_bits(CredentialMessage)
  BY <1>3, CredentialMessageBits, Zenon DEF credential_wires, InputWires
<1>6. /\ HashesAt' = HashesAt /\ CredentialMessage' = CredentialMessage
  BY <1>1, SecretsStand, MessagesStand
<1>7. Reached(tape, HashesAt, initial_sponge_state(bytes_bits(CredentialMessage)), 0,
              HashesAt, CredentialMessage)
  BY <1>3, CredentialMessageBits, PlacesOnTape, HashStarted
<1>8. Progress(HashesAt, CredentialMessage)'
  BY <1>1, <1>3, <1>5, <1>6, <1>7, ProgressReached, Zenon
<1>9. Underway'
  BY <1>1, <1>8 DEF Underway
<1>10. /\ TapeOfCircuit' /\ Ended' /\ Starting'
       /\ stage' \in {"parameters", "inputs"} \cup AfterInputs \cup Ends
       /\ (circuit.kind = "presentation" => InRange)'
  <2>1. stage' # "credential message"
    BY <1>1
  <2> QED
    BY <1>1, <1>2, <1>4, <2>1, AfterRangeStands
<1>11. Checked'
  BY <1>1, <1>10 DEF Checked, AfterCredential, AfterSigned
<1> QED
  BY <1>9, <1>10, <1>11, Zenon DEF Inv

\* What is known once the credential's hash has been checked.
LEMMA AfterCredentialStands ==
  ASSUME Inv, stage \in AfterCredential, stage' \in AfterCredential,
         circuit' = circuit, tape' = tape, wires' = wires,
         stage' \in AfterSigned => HashHolds(tape, SignedAt, SignedMessage) /\ Authenticated
  PROVE  /\ TapeOfCircuit' /\ Ended' /\ Starting' /\ Checked'
         /\ stage' \in {"parameters", "inputs"} \cup AfterInputs \cup Ends
<1>1. /\ stage \in AfterRange /\ stage' \in AfterRange /\ stage \in AfterInputs
      /\ stage' # "credential message" /\ stage' # "range"
  BY DEF AfterInputs, AfterRange, AfterCredential, AfterSigned
<1>2. InputWires'
  BY <1>1, WiresStand DEF Inv, Starting
<1>3. /\ TapeOfCircuit' /\ Ended' /\ Starting'
      /\ stage' \in {"parameters", "inputs"} \cup AfterInputs \cup Ends
      /\ (circuit.kind = "presentation" => InRange)'
  BY <1>1, <1>2, AfterRangeStands
<1>4. /\ circuit.kind = "presentation"
      /\ HashHolds(tape, HashesAt, CredentialMessage)
      /\ "commitment" \in DOMAIN wires /\ wires.commitment = gf16_bits(Target)
  BY DEF Inv, Checked
<1>5. HashHolds(tape, HashesAt, CredentialMessage)'
  BY <1>4, FactsStand
<1>6. stage' \in AfterSigned => (HashHolds(tape, SignedAt, SignedMessage) /\ Authenticated)'
  BY FactsStand
<1>7. ("commitment" \in DOMAIN wires /\ wires.commitment = gf16_bits(Target))'
  BY <1>4, MessagesStand
<1>8. Checked'
  BY <1>3, <1>4, <1>5, <1>6, <1>7, Zenon DEF Checked
<1> QED
  BY <1>3, <1>8

\* The wires of the signed message are its padded block,
LEMMA InvHashSigned ==
  ASSUME Inv, HashSigned
  PROVE  Inv'
<1>1. /\ stage = "signed message" /\ circuit' = circuit /\ tape' = tape
      /\ sponge' = initial_sponge_state(signed_credential_wires(wires.commitment)) /\ groups' = 0
      /\ used' = used /\ wires' = wires /\ stage' = "signed"
  BY DEF HashSigned, StartHash, Goto
<1>2. /\ stage \in AfterCredential /\ stage' \in AfterCredential /\ stage' \notin AfterSigned
      /\ stage \in AfterInputs
  BY <1>1 DEF AfterInputs, AfterRange, AfterCredential, AfterSigned
<1>3. TapeOfCircuit /\ InputWires /\ used = SignedAt
  BY <1>1, <1>2 DEF Inv, Starting, Underway
<1>4. circuit.kind = "presentation" /\ wires.commitment = gf16_bits(Target)
  BY <1>2 DEF Inv, Checked
<1>5. signed_credential_wires(wires.commitment) = bytes_bits(SignedMessage)
  BY <1>3, <1>4, SignedMessageBits, Zenon DEF signed_credential_wires, InputWires
<1>6. SignedAt' = SignedAt /\ SignedMessage' = SignedMessage
  BY <1>1, SecretsStand, MessagesStand
<1>7. Reached(tape, SignedAt, initial_sponge_state(bytes_bits(SignedMessage)), 0,
              SignedAt, SignedMessage)
  <2>1. SignedAt \in Nat /\ Fits(SignedMessage)
    BY <1>3, <1>4, SignedMessageBits, RoomForHashes DEF Room
  <2> QED
    BY <2>1, HashStarted
<1>8. Progress(SignedAt, SignedMessage)'
  BY <1>1, <1>3, <1>5, <1>6, <1>7, ProgressReached, Zenon
<1>9. Underway'
  BY <1>1, <1>8 DEF Underway
<1>10. /\ TapeOfCircuit' /\ Ended' /\ Starting' /\ Checked'
       /\ stage' \in {"parameters", "inputs"} \cup AfterInputs \cup Ends
  BY <1>1, <1>2, AfterCredentialStands
<1> QED
  BY <1>9, <1>10, Zenon DEF Inv

\* and so are those of the tag message.
LEMMA InvHashTag ==
  ASSUME Inv, HashTag
  PROVE  Inv'
<1>1. /\ stage = "tag message" /\ circuit' = circuit /\ tape' = tape
      /\ sponge' = initial_sponge_state(tag_wires) /\ groups' = 0
      /\ used' = used /\ wires' = wires /\ stage' = "tag"
  BY DEF HashTag, StartHash, Goto
<1>2. /\ stage \in AfterCredential /\ stage' \in AfterCredential
      /\ stage \in AfterInputs /\ stage \in AfterSigned
  BY <1>1 DEF AfterInputs, AfterRange, AfterCredential, AfterSigned
<1>3. TapeOfCircuit /\ InputWires /\ used = TagAt
  BY <1>1, <1>2 DEF Inv, Starting, Underway
<1>4. /\ circuit.kind = "presentation"
      /\ HashHolds(tape, SignedAt, SignedMessage) /\ Authenticated
  BY <1>2 DEF Inv, Checked
<1>5. tag_wires = bytes_bits(TagMessage)
  BY <1>3, <1>4, TagMessageBits, Zenon DEF tag_wires, InputWires
<1>6. TagAt' = TagAt /\ TagMessage' = TagMessage
  BY <1>1, SecretsStand, MessagesStand
<1>7. Reached(tape, TagAt, initial_sponge_state(bytes_bits(TagMessage)), 0, TagAt, TagMessage)
  <2>1. TagAt \in Nat /\ Fits(TagMessage)
    BY <1>3, <1>4, TagMessageBits, RoomForHashes DEF Room
  <2> QED
    BY <2>1, HashStarted
<1>8. Progress(TagAt, TagMessage)'
  BY <1>1, <1>3, <1>5, <1>6, <1>7, ProgressReached, Zenon
<1>9. Underway'
  BY <1>1, <1>8 DEF Underway
<1>10. /\ TapeOfCircuit' /\ Ended' /\ Starting' /\ Checked'
       /\ stage' \in {"parameters", "inputs"} \cup AfterInputs \cup Ends
  BY <1>1, <1>2, <1>4, AfterCredentialStands
<1> QED
  BY <1>9, <1>10, Zenon DEF Inv

\* A group of rounds refuses exactly the checkpoints that are not the honest ones.
LEMMA InvCheckGroup ==
  ASSUME Inv, CheckGroup
  PROVE  Inv'
<1>1. /\ stage \in {"credential", "signed", "tag"} /\ circuit' = circuit /\ tape' = tape
  BY DEF CheckGroup, Hashing, Reject, Goto
<1>2. TapeOfCircuit
  BY DEF Inv
<1>3. CASE stage = "credential"
  <2>1. /\ Fits(CredentialMessage) /\ Room(HashesAt) /\ Progress(HashesAt, CredentialMessage)
        /\ InputWires
    BY <1>2, <1>3, CredentialMessageBits, RoomForHashes
       DEF Inv, Underway, Starting, AfterInputs, AfterRange
  <2>2. \/ /\ Reached(tape, used', sponge', groups', HashesAt, CredentialMessage)
           /\ stage' = stage /\ wires' = wires
        \/ Reject /\ ~HashHolds(tape, HashesAt, CredentialMessage)
    BY <2>1, GroupStep
  <2>3. CASE Reject /\ ~HashHolds(tape, HashesAt, CredentialMessage)
    <3>1. ~Honest
      BY <1>2, <2>3, PlacesOnTape, IssueHonest, PresentationHonest
    <3> QED
      BY <2>3, <3>1, InvRejects
  <2>4. CASE /\ Reached(tape, used', sponge', groups', HashesAt, CredentialMessage)
             /\ stage' = stage /\ wires' = wires
    <3>1. HashesAt' = HashesAt /\ CredentialMessage' = CredentialMessage
      BY <1>1, SecretsStand, MessagesStand
    <3>2. Progress(HashesAt, CredentialMessage)'
      BY <1>1, <2>4, <3>1, ProgressReached, Zenon
    <3>3. Underway'
      BY <1>3, <2>4, <3>2 DEF Underway
    <3>4. InputWires'
      BY <1>1, <2>1, <2>4, WiresStand
    <3>5. stage \in AfterRange /\ stage' \in AfterRange /\ stage' # "credential message"
      BY <1>3, <2>4 DEF AfterRange
    <3>6. /\ TapeOfCircuit' /\ Ended' /\ Starting'
          /\ stage' \in {"parameters", "inputs"} \cup AfterInputs \cup Ends
          /\ (circuit.kind = "presentation" => InRange)'
      BY <1>1, <3>4, <3>5, AfterRangeStands
    <3>7. Checked'
      BY <1>3, <2>4, <3>6 DEF Checked, AfterCredential, AfterSigned
    <3> QED
      BY <3>3, <3>6, <3>7, Zenon DEF Inv
  <2> QED
    BY <2>2, <2>3, <2>4
<1>4. CASE stage = "signed"
  <2>0. stage \in AfterCredential /\ stage \notin AfterSigned
    BY <1>4 DEF AfterCredential, AfterSigned
  <2>1. circuit.kind = "presentation" /\ Progress(SignedAt, SignedMessage)
    BY <1>4, <2>0 DEF Inv, Underway, Checked
  <2>2. Fits(SignedMessage) /\ Room(SignedAt)
    BY <1>2, <2>1, SignedMessageBits, RoomForHashes
  <2>3. \/ /\ Reached(tape, used', sponge', groups', SignedAt, SignedMessage)
           /\ stage' = stage /\ wires' = wires
        \/ Reject /\ ~HashHolds(tape, SignedAt, SignedMessage)
    BY <2>1, <2>2, GroupStep
  <2>4. CASE Reject /\ ~HashHolds(tape, SignedAt, SignedMessage)
    <3>1. ~Honest
      BY <1>2, <2>1, <2>4, PresentationHonest
    <3> QED
      BY <2>4, <3>1, InvRejects
  <2>5. CASE /\ Reached(tape, used', sponge', groups', SignedAt, SignedMessage)
             /\ stage' = stage /\ wires' = wires
    <3>1. SignedAt' = SignedAt /\ SignedMessage' = SignedMessage
      BY <1>1, SecretsStand, MessagesStand
    <3>2. Progress(SignedAt, SignedMessage)'
      BY <1>1, <2>5, <3>1, ProgressReached, Zenon
    <3>3. Underway'
      BY <1>4, <2>5, <3>2 DEF Underway
    <3>4. /\ TapeOfCircuit' /\ Ended' /\ Starting' /\ Checked'
          /\ stage' \in {"parameters", "inputs"} \cup AfterInputs \cup Ends
      BY <1>1, <2>0, <2>5, AfterCredentialStands
    <3> QED
      BY <3>3, <3>4, Zenon DEF Inv
  <2> QED
    BY <2>3, <2>4, <2>5
<1>5. CASE stage = "tag"
  <2>0. stage \in AfterCredential /\ stage \in AfterSigned
    BY <1>5 DEF AfterCredential, AfterSigned
  <2>1. /\ circuit.kind = "presentation" /\ Progress(TagAt, TagMessage)
        /\ HashHolds(tape, SignedAt, SignedMessage) /\ Authenticated
    BY <1>5, <2>0 DEF Inv, Underway, Checked
  <2>2. Fits(TagMessage) /\ Room(TagAt)
    BY <1>2, <2>1, TagMessageBits, RoomForHashes
  <2>3. \/ /\ Reached(tape, used', sponge', groups', TagAt, TagMessage)
           /\ stage' = stage /\ wires' = wires
        \/ Reject /\ ~HashHolds(tape, TagAt, TagMessage)
    BY <2>1, <2>2, GroupStep
  <2>4. CASE Reject /\ ~HashHolds(tape, TagAt, TagMessage)
    <3>1. ~Honest
      BY <1>2, <2>1, <2>4, PresentationHonest
    <3> QED
      BY <2>4, <3>1, InvRejects
  <2>5. CASE /\ Reached(tape, used', sponge', groups', TagAt, TagMessage)
             /\ stage' = stage /\ wires' = wires
    <3>1. TagAt' = TagAt /\ TagMessage' = TagMessage
      BY <1>1, SecretsStand, MessagesStand
    <3>2. Progress(TagAt, TagMessage)'
      BY <1>1, <2>5, <3>1, ProgressReached, Zenon
    <3>3. Underway'
      BY <1>5, <2>5, <3>2 DEF Underway
    <3>4. /\ TapeOfCircuit' /\ Ended' /\ Starting' /\ Checked'
          /\ stage' \in {"parameters", "inputs"} \cup AfterInputs \cup Ends
      BY <1>1, <2>0, <2>1, <2>5, AfterCredentialStands
    <3> QED
      BY <3>3, <3>4, Zenon DEF Inv
  <2> QED
    BY <2>3, <2>4, <2>5
<1> QED
  BY <1>1, <1>3, <1>4, <1>5

\* The end of an issuance refuses exactly the tapes of another target.
LEMMA InvAssertTarget ==
  ASSUME Inv, AssertTarget
  PROVE  Inv'
<1>1. /\ stage = "credential" /\ groups = ROUNDS \div 4 /\ circuit.kind = "issue"
      /\ IF OutputIs(gf16_bits(circuit.target))
         THEN Goto("accepted") /\ UNCHANGED <<used, wires, sponge, groups>> ELSE Reject
  BY DEF AssertTarget, Hashed, AcceptIf
<1>2. TapeOfCircuit /\ ValidParameters /\ Progress(HashesAt, CredentialMessage)
  BY <1>1 DEF Inv, Starting, Underway, AfterInputs, AfterRange
<1>3. /\ HashHolds(tape, HashesAt, CredentialMessage) /\ used = HashesAt + KECCAK_CHECKPOINT_BITS
      /\ sponge = RoundStates(CredentialMessage)[ROUNDS]
  <2>1. HashesAt \in Nat
    BY <1>2, PlacesOnTape
  <2> QED
    BY <1>1, <1>2, <2>1, HashEnds
<1>4. OutputIs(gf16_bits(circuit.target)) <=> Honest
  <2>1. Len(circuit.target) = M
    BY <1>1, <1>2 DEF ValidParameters
  <2>2. OutputIs(gf16_bits(circuit.target)) <=> circuit.target = Target
    BY <1>1, <1>2, <1>3, <2>1, TargetIsHonest, Zenon
  <2>3. Honest <=> circuit.target = Target /\ HashHolds(tape, HashesAt, CredentialMessage)
    BY <1>1, <1>2, IssueHonest, Zenon
  <2> QED
    BY <1>3, <2>2, <2>3, Zenon
<1>5. CASE Honest
  <2>1. /\ circuit' = circuit /\ tape' = tape /\ stage' = "accepted" /\ used' = used
    BY <1>1, <1>4, <1>5, Zenon DEF Goto
  <2>2. used' = Len(tape)
    BY <1>1, <1>2, <1>3, <2>1, RoomForHashes
  <2> QED
    BY <1>5, <2>1, <2>2, InvEnds DEF Ends
<1>6. CASE ~Honest
  BY <1>1, <1>4, <1>6, InvRejects
<1> QED
  BY <1>5, <1>6

\* The output kept of the first hash is the target committed to.
LEMMA InvKeepCommitment ==
  ASSUME Inv, KeepCommitment
  PROVE  Inv'
<1>1. /\ stage = "credential" /\ groups = ROUNDS \div 4 /\ circuit.kind = "presentation"
      /\ wires' = [name \in DOMAIN wires \cup {"commitment"} |->
                     IF name = "commitment" THEN HiddenOutput ELSE wires[name]]
      /\ stage' = "signed message" /\ circuit' = circuit /\ tape' = tape /\ used' = used
  BY DEF KeepCommitment, Hashed, Goto
<1>2. TapeOfCircuit /\ InputWires /\ Progress(HashesAt, CredentialMessage)
  BY <1>1 DEF Inv, Starting, Underway, AfterInputs, AfterRange
<1>3. /\ HashHolds(tape, HashesAt, CredentialMessage) /\ used = HashesAt + KECCAK_CHECKPOINT_BITS
      /\ sponge = RoundStates(CredentialMessage)[ROUNDS]
  <2>1. HashesAt \in Nat
    BY <1>2, PlacesOnTape
  <2> QED
    BY <1>1, <1>2, <2>1, HashEnds
<1>4. HiddenOutput = gf16_bits(Target)
  BY <1>2, <1>3, TargetBits, Zenon DEF HiddenOutput
<1>5. "commitment" \in DOMAIN wires' /\ wires'["commitment"] = gf16_bits(Target)
  BY <1>1, <1>4
<1>6. \A name \in DOMAIN wires : name # "commitment" =>
        name \in DOMAIN wires' /\ wires'[name] = wires[name]
  BY <1>1
<1>7. InputWires'
  <2>1. /\ "secret" \in DOMAIN wires /\ "hiding_nonce" \in DOMAIN wires
        /\ "signature" \in DOMAIN wires /\ "salt" \in DOMAIN wires
        /\ "presentation_nonce" \in DOMAIN wires /\ "carries" \in DOMAIN wires
    BY <1>1, <1>2 DEF InputWires
  <2>2. /\ "secret" \in DOMAIN wires' /\ "hiding_nonce" \in DOMAIN wires'
        /\ "signature" \in DOMAIN wires' /\ "salt" \in DOMAIN wires'
        /\ "presentation_nonce" \in DOMAIN wires' /\ "carries" \in DOMAIN wires'
    BY <1>6, <2>1
  <2>3. /\ wires'.secret = wires.secret /\ wires'.hiding_nonce = wires.hiding_nonce
        /\ wires'.signature = wires.signature /\ wires'.salt = wires.salt
        /\ wires'.presentation_nonce = wires.presentation_nonce
        /\ wires'.carries = wires.carries
    BY <1>6, <2>1
  <2>4. CommittedSecrets' = CommittedSecrets /\ CarriesAt' = CarriesAt
    BY <1>1, SecretsStand
  <2> QED
    BY <1>1, <1>2, <2>2, <2>3, <2>4 DEF InputWires
<1>8. /\ stage \in AfterRange /\ stage' \in AfterRange /\ stage' # "credential message"
      /\ stage' \notin AfterSigned
  BY <1>1 DEF AfterRange, AfterCredential, AfterSigned
<1>9. /\ TapeOfCircuit' /\ Ended' /\ Starting'
      /\ stage' \in {"parameters", "inputs"} \cup AfterInputs \cup Ends
      /\ (circuit.kind = "presentation" => InRange)'
  BY <1>1, <1>7, <1>8, AfterRangeStands
<1>10. /\ HashHolds(tape, HashesAt, CredentialMessage)' /\ SignedAt' = SignedAt
       /\ Target' = Target
  BY <1>1, <1>3, FactsStand, SecretsStand, MessagesStand
<1>11. Checked'
  BY <1>1, <1>5, <1>8, <1>9, <1>10 DEF Checked
<1>12. Underway'
  BY <1>1, <1>3, <1>10 DEF Underway, SignedAt
<1> QED
  BY <1>9, <1>11, <1>12, Zenon DEF Inv

\* The MAYO equation refuses exactly the signatures of another target.
LEMMA InvAssertMayo ==
  ASSUME Inv, AssertMayo
  PROVE  Inv'
<1>1. /\ stage = "signed" /\ groups = ROUNDS \div 4
      /\ IF MayoEval(lift_nibbles(wires.signature)) = lift_nibbles(HiddenOutput)
         THEN Goto("tag message") /\ UNCHANGED <<used, wires, sponge, groups>> ELSE Reject
  BY DEF AssertMayo, Hashed
<1>2. stage \in AfterCredential /\ stage \in AfterInputs
  BY <1>1 DEF AfterCredential, AfterInputs, AfterRange
<1>3. /\ TapeOfCircuit /\ InputWires /\ circuit.kind = "presentation"
      /\ Progress(SignedAt, SignedMessage)
  BY <1>1, <1>2 DEF Inv, Starting, Checked, Underway
<1>4. /\ HashHolds(tape, SignedAt, SignedMessage) /\ used = SignedAt + KECCAK_CHECKPOINT_BITS
      /\ sponge = RoundStates(SignedMessage)[ROUNDS]
  <2>1. SignedAt \in Nat
    BY <1>3, RoomForHashes DEF Room
  <2> QED
    BY <1>1, <1>3, <2>1, HashEnds
<1>5. MayoEval(lift_nibbles(wires.signature)) = lift_nibbles(HiddenOutput) <=> Authenticated
  <2>1. wires.signature = gf16_bits(CommittedSecrets.signature)
    BY <1>3 DEF InputWires
  <2> QED
    BY <1>3, <1>4, <2>1, MayoIsHonest, Zenon
<1>6. CASE ~Authenticated
  <2>1. Reject
    BY <1>1, <1>5, <1>6, Zenon
  <2>2. ~Honest
    BY <1>3, <1>6, PresentationHonest
  <2> QED
    BY <2>1, <2>2, InvRejects
<1>7. CASE Authenticated
  <2>1. /\ stage' = "tag message" /\ circuit' = circuit /\ tape' = tape
        /\ used' = used /\ wires' = wires
    BY <1>1, <1>5, <1>7, Zenon DEF Goto
  <2>2. used' = TagAt' /\ TagAt' = TagAt
    BY <1>3, <1>4, <2>1, RoomForHashes, SecretsStand
  <2>3. Underway'
    BY <2>1, <2>2 DEF Underway
  <2>4. stage' \in AfterCredential
    BY <2>1 DEF AfterCredential, AfterSigned
  <2>5. /\ TapeOfCircuit' /\ Ended' /\ Starting' /\ Checked'
        /\ stage' \in {"parameters", "inputs"} \cup AfterInputs \cup Ends
    BY <1>2, <1>4, <1>7, <2>1, <2>4, AfterCredentialStands
  <2> QED
    BY <2>3, <2>5, Zenon DEF Inv
<1> QED
  BY <1>6, <1>7

\* The end of a presentation refuses exactly the tapes of another tag.
LEMMA InvAssertTag ==
  ASSUME Inv, AssertTag
  PROVE  Inv'
<1>1. /\ stage = "tag" /\ groups = ROUNDS \div 4
      /\ IF OutputIs(bytes_bits(circuit.tag))
         THEN Goto("accepted") /\ UNCHANGED <<used, wires, sponge, groups>> ELSE Reject
  BY DEF AssertTag, Hashed, AcceptIf
<1>2. stage \in AfterCredential /\ stage \in AfterRange /\ stage \in AfterSigned
  BY <1>1 DEF AfterCredential, AfterRange, AfterSigned
<1>3. /\ TapeOfCircuit /\ circuit.kind = "presentation" /\ InRange
      /\ HashHolds(tape, HashesAt, CredentialMessage)
      /\ HashHolds(tape, SignedAt, SignedMessage) /\ Authenticated
      /\ Progress(TagAt, TagMessage)
  BY <1>1, <1>2 DEF Inv, Checked, Underway
<1>4. /\ HashHolds(tape, TagAt, TagMessage) /\ used = TagAt + KECCAK_CHECKPOINT_BITS
      /\ sponge = RoundStates(TagMessage)[ROUNDS]
  <2>1. TagAt \in Nat
    BY <1>3, RoomForHashes DEF Room
  <2> QED
    BY <1>1, <1>3, <2>1, HashEnds
<1>5. OutputIs(bytes_bits(circuit.tag)) <=> Honest
  <2>1. OutputIs(bytes_bits(circuit.tag)) <=> Tagged
    BY <1>3, <1>4, TagIsHonest, Zenon
  <2> QED
    BY <1>3, <1>4, <2>1, PresentationHonest, Zenon
<1>6. CASE Honest
  <2>1. /\ circuit' = circuit /\ tape' = tape /\ stage' = "accepted" /\ used' = used
    BY <1>1, <1>5, <1>6, Zenon DEF Goto
  <2>2. used' = Len(tape)
    BY <1>3, <1>4, <2>1, RoomForHashes
  <2> QED
    BY <1>6, <2>1, <2>2, InvEnds DEF Ends
<1>7. CASE ~Honest
  BY <1>1, <1>5, <1>7, InvRejects
<1> QED
  BY <1>6, <1>7

\* A stuttering step keeps the invariant.
LEMMA InvStutters ==
  ASSUME Inv, UNCHANGED vars
  PROVE  Inv'
<1>1. /\ circuit' = circuit /\ tape' = tape /\ used' = used /\ wires' = wires
      /\ sponge' = sponge /\ groups' = groups /\ stage' = stage
  BY DEF vars
<1>2. /\ TapeOfCircuit' <=> TapeOfCircuit
      /\ Honest' <=> Honest
      /\ ValidParameters' <=> ValidParameters
      /\ InRange' <=> InRange
      /\ Authenticated' <=> Authenticated
      /\ HashHolds(tape, HashesAt, CredentialMessage)'
           <=> HashHolds(tape, HashesAt, CredentialMessage)
      /\ HashHolds(tape, SignedAt, SignedMessage)' <=> HashHolds(tape, SignedAt, SignedMessage)
  BY <1>1, FactsStand
<1>3. /\ SignedAt' = SignedAt /\ TagAt' = TagAt /\ HashesAt' = HashesAt
      /\ Inputs' = Inputs /\ InputAt' = InputAt
      /\ CredentialMessage' = CredentialMessage /\ Target' = Target
      /\ SignedMessage' = SignedMessage /\ TagMessage' = TagMessage
  BY <1>1, SecretsStand, MessagesStand
<1>4. Ended'
  BY <1>1, <1>2 DEF Inv, Ended
<1>5. Starting'
  <2>1. InputWires => InputWires'
    BY <1>1, WiresStand
  <2>2. Allocated(0) => Allocated(0)'
    BY <1>1, <1>3, Zenon DEF Allocated
  <2>3. (\E n \in 0..Len(Inputs) - 1 : Allocated(n))
          => (\E n \in 0..Len(Inputs) - 1 : Allocated(n))'
    <3>1. ASSUME NEW n \in 0..Len(Inputs) - 1, Allocated(n) PROVE Allocated(n)'
      BY <1>1, <1>3, <3>1, Zenon DEF Allocated
    <3> QED
      BY <1>3, <3>1
  <2> QED
    BY <1>1, <1>2, <1>3, <2>1, <2>2, <2>3 DEF Inv, Starting
<1>6. Checked'
  BY <1>1, <1>2, <1>3 DEF Inv, Checked
<1>7. Underway'
  <2>1. /\ Progress(HashesAt, CredentialMessage) => Progress(HashesAt, CredentialMessage)'
        /\ Progress(SignedAt, SignedMessage) => Progress(SignedAt, SignedMessage)'
        /\ Progress(TagAt, TagMessage) => Progress(TagAt, TagMessage)'
    BY <1>1, <1>3, ProgressReached, Zenon
  <2> QED
    BY <1>1, <1>3, <2>1 DEF Inv, Underway
<1> QED
  BY <1>1, <1>2, <1>4, <1>5, <1>6, <1>7 DEF Inv

\* The invariant holds before the first step of build(),
LEMMA InvInit ==
  ASSUME Init
  PROVE  Inv
<1>1. /\ TapeOfCircuit /\ used = 0 /\ wires = [name \in {} |-> <<>>] /\ stage = "parameters"
  BY DEF Init, TapeOfCircuit
<1>2. Allocated(0)
  <2>1. DOMAIN wires = {}
    BY <1>1
  <2>2. IsFiniteSet(DOMAIN wires) /\ Cardinality(DOMAIN wires) = 0
    BY <2>1, FS_EmptySet
  <2>3. InputAt[0 + 1] = 0
    BY <1>1, InputsLaid
  <2>4. 1..0 = {}
    OBVIOUS
  <2>5. DOMAIN wires = {Inputs[i][1] : i \in 1..0}
    BY <2>1, <2>4
  <2> QED
    BY <1>1, <2>2, <2>3, <2>4, <2>5 DEF Allocated
<1>3. Ended /\ Starting /\ Checked /\ Underway
  BY <1>1, <1>2 DEF Ended, Starting, Checked, Underway, AfterInputs, AfterRange, AfterCredential,
                    AfterSigned
<1> QED
  BY <1>1, <1>3 DEF Inv

\* and every step keeps it.
LEMMA InvNext ==
  ASSUME Inv, [Next]_vars
  PROVE  Inv'
<1>1. CASE CheckParameters
  BY <1>1, InvCheckParameters
<1>2. CASE AllocInputs
  BY <1>2, InvAllocInputs
<1>3. CASE AssertRange
  BY <1>3, InvAssertRange
<1>4. CASE HashCredential
  BY <1>4, InvHashCredential
<1>5. CASE HashSigned
  BY <1>5, InvHashSigned
<1>6. CASE HashTag
  BY <1>6, InvHashTag
<1>7. CASE CheckGroup
  BY <1>7, InvCheckGroup
<1>8. CASE AssertTarget
  BY <1>8, InvAssertTarget
<1>9. CASE KeepCommitment
  BY <1>9, InvKeepCommitment
<1>10. CASE AssertMayo
  BY <1>10, InvAssertMayo
<1>11. CASE AssertTag
  BY <1>11, InvAssertTag
<1>12. CASE UNCHANGED vars
  BY <1>12, InvStutters
<1> QED
  BY <1>1, <1>2, <1>3, <1>4, <1>5, <1>6, <1>7, <1>8, <1>9, <1>10, <1>11, <1>12, Zenon DEF Next

\* build() keeps the invariant, which gives the type of each wire stage by stage:
\* what is allocated is what was committed, every passed assertion is a fact of the
\* honest tape, and every refusal is of a tape that is not honest.
THEOREM ArcCircuitInv == Spec => []Inv
<1>1. Init => Inv
  BY InvInit
<1>2. Inv /\ [Next]_vars => Inv'
  BY InvNext
<1> QED
  BY <1>1, <1>2, PTL DEF Spec

\* Soundness: a tape on which no assertion of build() fails is the tape that
\* witness() writes for secrets in the relation, and all of it was allocated.
THEOREM ArcCircuitAcceptsOnlyHonest == Spec => []AcceptsOnlyHonest
<1>1. Inv => AcceptsOnlyHonest
  BY DEF Inv, Ended, AcceptsOnlyHonest
<1> QED
  BY <1>1, ArcCircuitInv, PTL

\* Completeness: build() refuses no tape that witness() wrote for secrets in the
\* relation.
THEOREM ArcCircuitHonestTapeAccepted == Spec => []HonestTapeAccepted
<1>1. Inv => HonestTapeAccepted
  BY DEF Inv, Ended, HonestTapeAccepted
<1> QED
  BY <1>1, ArcCircuitInv, PTL
=============================================================================
