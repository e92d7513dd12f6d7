--------------------------- MODULE RangeProofProofs ---------------------------
(* The range check is sound and complete at every word width.               *)
EXTENDS RangeProof, WellFoundedInduction, TLAPS

-----------------------------------------------------------------------------
\* Least numbers and induction, of a set of numbers.
LEMMA Least ==
    ASSUME NEW T, T \subseteq Nat, T # {}
    PROVE  \E m \in T : \A n \in T : m <= n
<1> DEFINE R == OpToRel(<, Nat)
<1>1. IsWellFoundedOn(R, Nat)
  BY NatLessThanWellFounded
<1> HIDE DEF R
<1>2. PICK m \in T : \A n \in T : ~(<<n, m>> \in R)
  BY <1>1, WFMin
<1>3. ASSUME NEW n \in T PROVE m <= n
  <2>1. m \in Nat /\ n \in Nat
    OBVIOUS
  <2>2. n < m => <<n, m>> \in R
    BY <2>1 DEF R, OpToRel
  <2> QED
    BY <1>2, <2>1, <2>2
<1> QED
  BY <1>3

LEMMA Induction ==
    ASSUME NEW S, 0 \in S, \A n \in Nat : n \in S => n + 1 \in S
    PROVE  \A n \in Nat : n \in S
<1> DEFINE T == Nat \ S
<1>1. ASSUME T # {} PROVE FALSE
  <2>1. PICK m \in T : \A n \in T : m <= n
    <3>1. T \subseteq Nat
      OBVIOUS
    <3> HIDE DEF T
    <3> QED
      BY <1>1, <3>1, Least
  <2>2. m \in Nat /\ m # 0 /\ m - 1 \in Nat /\ m - 1 \in S
    BY <2>1
  <2> QED
    BY <2>1, <2>2
<1> QED
  BY <1>1

\* h is what the highest bits of word spell, one to n of them.
Reads(h, word, n) ==
    /\ h \in [0..n -> Nat]
    /\ h[0] = 0
    /\ \A k \in 0..n - 1 : h[k + 1] = 2 * h[k] + word[Bits - (k + 1)]

\* The recursion of Highest has its values.
LEMMA HighestReads ==
    ASSUME NEW word \in Words
    PROVE  Reads(Highest(word), word, Bits)
<1> USE BitsAssumption
<1>w. ASSUME NEW n \in 0..Bits - 1 PROVE word[Bits - (n + 1)] \in 0..1
  BY <1>w DEF Words
<1> DEFINE S == {n \in Nat : n <= Bits => \E h : Reads(h, word, n)}
<1>1. 0 \in S
  <2>1. Reads([k \in 0..0 |-> 0], word, 0)
    BY DEF Reads
  <2> QED
    BY <2>1
<1>2. ASSUME NEW n \in Nat, n \in S PROVE n + 1 \in S
  <2>1. CASE n + 1 <= Bits
    <3>1. PICK h : Reads(h, word, n)
      BY <1>2, <2>1
    <3> DEFINE next == 2 * h[n] + word[Bits - (n + 1)]
               g == [k \in 0..n + 1 |-> IF k <= n THEN h[k] ELSE next]
    <3>2. next \in Nat
      <4>1. h[n] \in Nat
        BY <3>1 DEF Reads
      <4>2. word[Bits - (n + 1)] \in 0..1
        BY <1>w, <2>1
      <4> HIDE DEF Words
      <4> QED
        BY <4>1, <4>2
    <3> HIDE DEF next
    <3>3. g \in [0..n + 1 -> Nat] /\ g[0] = 0
      BY <3>1, <3>2 DEF Reads
    <3>4. ASSUME NEW k \in 0..n
          PROVE  g[k + 1] = 2 * g[k] + word[Bits - (k + 1)]
      <4>1. CASE k = n
        <5>1. g[k + 1] = next /\ g[k] = h[n]
          BY <4>1
        <5> QED
          BY <4>1, <5>1 DEF next
      <4>2. CASE k # n
        <5>1. k \in 0..n - 1 /\ g[k + 1] = h[k + 1] /\ g[k] = h[k]
          BY <4>2
        <5> QED
          BY <3>1, <5>1 DEF Reads
      <4> QED
        BY <4>1, <4>2
    <3> HIDE DEF g
    <3>5. Reads(g, word, n + 1)
      <4>1. (n + 1) - 1 = n
        OBVIOUS
      <4> QED
        BY <3>3, <3>4, <4>1 DEF Reads
    <3> QED
      BY <3>5
  <2> QED
    BY <2>1
<1> HIDE DEF S
<1>3. Bits \in S
  BY <1>1, <1>2, Induction
<1>4. PICK h : Reads(h, word, Bits)
  BY <1>3 DEF S
<1> DEFINE Body(f) == [k \in 0..Bits |-> IF k = 0 THEN 0 ELSE 2 * f[k - 1] + word[Bits - k]]
           H == Highest(word)
<1>5. h = Body(h)
  <2>1. ASSUME NEW k \in 0..Bits
        PROVE  h[k] = IF k = 0 THEN 0 ELSE 2 * h[k - 1] + word[Bits - k]
    <3>1. CASE k # 0
      <4> DEFINE j == k - 1
      <4>1. j \in 0..Bits - 1 /\ j + 1 = k
        BY <3>1
      <4> HIDE DEF j
      <4>2. h[j + 1] = 2 * h[j] + word[Bits - (j + 1)]
        BY <1>4, <4>1 DEF Reads
      <4> QED
        BY <3>1, <4>1, <4>2 DEF j
    <3> QED
      BY <1>4, <3>1 DEF Reads
  <2> QED
    BY <1>4, <2>1 DEF Reads
<1>6. H = CHOOSE f : f = Body(f)
  BY DEF Highest
<1>7. H = Body(H)
  <2> HIDE DEF Body, H
  <2> QED
    BY <1>5, <1>6
<1> HIDE DEF H
<1>8. H[0] = 0
  BY <1>7
<1>9. ASSUME NEW k \in 0..Bits - 1
      PROVE  H[k + 1] = 2 * H[k] + word[Bits - (k + 1)]
  <2> DEFINE m == k + 1
  <2>1. m \in 0..Bits /\ m # 0 /\ m - 1 = k
    OBVIOUS
  <2> HIDE DEF m
  <2>2. H[m] = 2 * H[m - 1] + word[Bits - m]
    BY <1>7, <2>1
  <2> QED
    BY <2>1, <2>2 DEF m
<1> DEFINE E == {n \in Nat : n <= Bits => H[n] \in Nat}
<1>10. 0 \in E
  BY <1>8
<1>11. ASSUME NEW n \in Nat, n \in E PROVE n + 1 \in E
  <2>1. CASE n + 1 <= Bits
    <3>1. n \in 0..Bits - 1 /\ H[n] \in Nat
      BY <1>11, <2>1
    <3>2. H[n + 1] = 2 * H[n] + word[Bits - (n + 1)] /\ word[Bits - (n + 1)] \in 0..1
      BY <1>9, <1>w, <3>1
    <3>3. H[n + 1] \in Nat
      BY <3>1, <3>2
    <3> QED
      BY <3>3
  <2> QED
    BY <2>1
<1> HIDE DEF E
<1>12. \A n \in Nat : n \in E
  BY <1>10, <1>11, Induction
<1>13. H \in [0..Bits -> Nat]
  <2>1. \A n \in 0..Bits : H[n] \in Nat
    BY <1>12 DEF E
  <2> QED
    BY <1>7, <2>1
<1> QED
  BY <1>8, <1>9, <1>13 DEF Reads, H

\* Two words are compared as the numbers they spell.
LEMMA OrderIsNumeric ==
    ASSUME NEW v \in Words, NEW l \in Words
    PROVE  LessBelow(v, l, Bits) <=> Number(v) < Number(l)
<1> USE BitsAssumption
<1> DEFINE V == Highest(v)
           L == Highest(l)
           Top(n) == Bits - n
           Same(n) == \A m \in Top(n)..Bits - 1 : v[m] = l[m]
           Below(n) == \E j \in Top(n)..Bits - 1 :
                         v[j] < l[j] /\ \A m \in j + 1..Bits - 1 : v[m] = l[m]
           E == {n \in Nat : n <= Bits => /\ V[n] < L[n] <=> Below(n)
                                          /\ V[n] = L[n] <=> Same(n)}
<1>1. Reads(V, v, Bits) /\ Reads(L, l, Bits)
  BY HighestReads
<1> HIDE DEF V, L
<1>2. 0 \in E
  <2>1. V[0] = 0 /\ L[0] = 0
    BY <1>1 DEF Reads
  <2>2. Top(0)..Bits - 1 = {}
    OBVIOUS
  <2> QED
    BY <2>1, <2>2
<1>3. ASSUME NEW n \in Nat, n \in E PROVE n + 1 \in E
  <2> SUFFICES ASSUME n + 1 <= Bits
               PROVE  /\ V[n + 1] < L[n + 1] <=> Below(n + 1)
                      /\ V[n + 1] = L[n + 1] <=> Same(n + 1)
    OBVIOUS
  <2> DEFINE t == Top(n + 1)
  <2>1. t \in 0..Bits - 1 /\ Top(n) = t + 1
    OBVIOUS
  <2>2. Top(n + 1)..Bits - 1 = {t} \cup (t + 1..Bits - 1)
    BY <2>1
  <2>3. /\ V[n + 1] = 2 * V[n] + v[t] /\ L[n + 1] = 2 * L[n] + l[t]
        /\ V[n] \in Nat /\ L[n] \in Nat
    <3>1. n \in 0..Bits - 1 /\ n \in 0..Bits
      OBVIOUS
    <3> QED
      BY <1>1, <3>1 DEF Reads
  <2>4. v[t] \in 0..1 /\ l[t] \in 0..1
    BY <2>1 DEF Words
  <2>5. (V[n] < L[n] <=> Below(n)) /\ (V[n] = L[n] <=> Same(n))
    BY <1>3
  <2>6. Same(n + 1) <=> v[t] = l[t] /\ Same(n)
    BY <2>1, <2>2
  <2>7. Below(n + 1) <=> Below(n) \/ (v[t] < l[t] /\ Same(n))
    BY <2>1, <2>2
  <2> HIDE DEF t, Top, Same, Below
  <2>8. V[n + 1] < L[n + 1] <=> V[n] < L[n] \/ (v[t] < l[t] /\ V[n] = L[n])
    BY <2>3, <2>4
  <2>9. V[n + 1] = L[n + 1] <=> v[t] = l[t] /\ V[n] = L[n]
    BY <2>3, <2>4
  <2> QED
    BY <2>5, <2>6, <2>7, <2>8, <2>9
<1> HIDE DEF E
<1>4. Bits \in E
  BY <1>2, <1>3, Induction
<1>5. V[Bits] < L[Bits] <=> Below(Bits)
  BY <1>4 DEF E
<1>6. Below(Bits) <=> LessBelow(v, l, Bits)
  BY DEF LessBelow
<1> QED
  BY <1>5, <1>6 DEF V, L, Number

-----------------------------------------------------------------------------
\* One more bit decides the comparison if the bits differ, and leaves it as it
\* was if they are equal.
LEMMA LessStep ==
    ASSUME value \in Words, limit \in Words, NEW k \in 0..Bits - 1
    PROVE  LessBelow(value, limit, k + 1) <=>
             \/ value[k] < limit[k]
             \/ (value[k] = limit[k] /\ LessBelow(value, limit, k))
<1> USE BitsAssumption
<1>1. ASSUME LessBelow(value, limit, k + 1)
      PROVE  value[k] < limit[k] \/ (value[k] = limit[k] /\ LessBelow(value, limit, k))
  <2>1. PICK j \in 0..k : /\ value[j] < limit[j]
                          /\ \A m \in j + 1..k : value[m] = limit[m]
    BY <1>1 DEF LessBelow
  <2>2. CASE j = k
    BY <2>1, <2>2
  <2>3. CASE j # k
    <3>1. j \in 0..k - 1 /\ k \in j + 1..k
      BY <2>3
    <3>2. \A m \in j + 1..k - 1 : value[m] = limit[m]
      BY <2>1, <3>1
    <3> QED
      BY <2>1, <3>1, <3>2 DEF LessBelow
  <2> QED
    BY <2>2, <2>3
<1>2. ASSUME value[k] < limit[k]
      PROVE  LessBelow(value, limit, k + 1)
  <2>1. k \in 0..(k + 1) - 1 /\ \A m \in k + 1..(k + 1) - 1 : value[m] = limit[m]
    OBVIOUS
  <2> QED
    BY <1>2, <2>1 DEF LessBelow
<1>3. ASSUME value[k] = limit[k], LessBelow(value, limit, k)
      PROVE  LessBelow(value, limit, k + 1)
  <2>1. PICK j \in 0..k - 1 : /\ value[j] < limit[j]
                              /\ \A m \in j + 1..k - 1 : value[m] = limit[m]
    BY <1>3 DEF LessBelow
  <2>2. j \in 0..(k + 1) - 1 /\ \A m \in j + 1..(k + 1) - 1 : value[m] = limit[m]
    BY <1>3, <2>1
  <2> QED
    BY <2>1, <2>2 DEF LessBelow
<1> QED
  BY <1>1, <1>2, <1>3

\* The carry out of each bit, as the OR of products.
LEMMA CarryStep ==
    ASSUME value \in Words, limit \in Words, NEW k \in 0..Bits - 1
    PROVE  /\ CarryAfter(value, limit, k) \in 0..1
           /\ CarryOut(value[k], NotLimit(k), CarryAfter(value, limit, k)) = CarryAfter(value, limit, k + 1)
<1>1. value[k] \in 0..1 /\ limit[k] \in 0..1
  BY DEF Words
<1>2. CarryAfter(value, limit, k) \in 0..1
  BY DEF CarryAfter
<1>3. CASE value[k] = limit[k]
  <2>1. LessBelow(value, limit, k + 1) <=> LessBelow(value, limit, k)
    BY <1>1, <1>3, LessStep
  <2>2. CarryAfter(value, limit, k + 1) = CarryAfter(value, limit, k)
    BY <2>1 DEF CarryAfter
  <2>3. CarryOut(value[k], NotLimit(k), CarryAfter(value, limit, k)) = CarryAfter(value, limit, k)
    BY <1>1, <1>2, <1>3 DEF CarryOut, NotLimit
  <2> QED
    BY <1>2, <2>2, <2>3
<1>4. CASE value[k] = 0 /\ limit[k] = 1
  <2>1. CarryAfter(value, limit, k + 1) = 0
    BY <1>4, LessStep DEF CarryAfter
  <2> QED
    BY <1>2, <1>4, <2>1 DEF CarryOut, NotLimit
<1>5. CASE value[k] = 1 /\ limit[k] = 0
  <2>1. CarryAfter(value, limit, k + 1) = 1
    BY <1>5, LessStep DEF CarryAfter
  <2> QED
    BY <1>2, <1>5, <2>1 DEF CarryOut, NotLimit
<1> QED
  BY <1>1, <1>3, <1>4, <1>5

\* The circuit's equation over GF(2) has that carry as its one solution.
LEMMA EquationSolved ==
    ASSUME value \in Words, limit \in Words, NEW k \in 0..Bits - 1,
           carries[k] \in 0..1, carry \in 0..1
    PROVE  Equation(k) = 0 <=> carries[k] = CarryOut(value[k], NotLimit(k), carry)
<1>1. value[k] \in 0..1 /\ NotLimit(k) \in 0..1
  BY DEF Words, NotLimit
<1> DEFINE a == value[k]
           b == NotLimit(k)
           c == carries[k]
<1>2. Equation(k) = (c + b * a + a * carry + b * carry) % 2
  BY DEF Equation
<1>3. a \in 0..1 /\ b \in 0..1 /\ c \in 0..1 /\ carry \in 0..1
  BY <1>1
<1> HIDE DEF a, b, c
<1>4. (c + b * a + a * carry + b * carry) % 2 = 0 <=> c = CarryOut(a, b, carry)
  <2>1. CASE a = 0 /\ b = 0
    BY <1>3, <2>1 DEF CarryOut
  <2>2. CASE a = 0 /\ b = 1
    BY <1>3, <2>2 DEF CarryOut
  <2>3. CASE a = 1 /\ b = 0
    BY <1>3, <2>3 DEF CarryOut
  <2>4. CASE a = 1 /\ b = 1
    BY <1>3, <2>4 DEF CarryOut
  <2> QED
    BY <1>3, <2>1, <2>2, <2>3, <2>4
<1> QED
  BY <1>2, <1>4 DEF a, b, c

-----------------------------------------------------------------------------
LEMMA NothingBelowZero == CarryAfter(value, limit, 0) = 1 /\ CarriesUpTo(0)
  BY DEF CarryAfter, LessBelow, CarriesUpTo

LEMMA InitInvariant == Init => IInv
<1> SUFFICES ASSUME Init PROVE IInv
  OBVIOUS
<1> USE BitsAssumption
<1>1. TypeOK
  <2>1. CASE honest
    <3>1. carries = [k \in {} |-> 0] /\ phase = "witness" /\ bit = 0 /\ carry = 1
      BY <2>1 DEF Init
    <3>2. 0..bit - 1 = {}
      BY <3>1
    <3>3. carries \in [0..bit - 1 -> 0..1]
      BY <3>1, <3>2
    <3> QED
      BY <2>1, <3>1, <3>3 DEF Init, TypeOK
  <2>2. CASE ~honest
    <3>1. honest = FALSE /\ phase = "circuit" /\ carries \in Words /\ carry = 1 /\ bit = 0
      BY <2>2 DEF Init, CarryIn
    <3>2. value \in Words /\ limit \in Words \ {Zero}
      BY DEF Init
    <3>3. bit \in 0..Bits /\ carry \in 0..1
      BY <3>1
    <3> QED
      BY <3>1, <3>2, <3>3 DEF TypeOK
  <2> QED
    BY <2>1, <2>2
<1>2. carry = CarryAfter(value, limit, bit) /\ CarriesUpTo(bit)
  <2>1. carry = 1 /\ bit = 0
    BY DEF Init, CarryIn
  <2> QED
    BY <2>1, NothingBelowZero
<1>3. (phase = "witness" /\ honest) \/ (phase = "circuit" /\ ~honest)
  BY DEF Init
<1> QED
  BY <1>1, <1>2, <1>3 DEF IInv, AcceptsOnlyBelow, HonestAccepted, CarriesDetermined

LEMMA StepInvariant == IInv /\ [Next]_vars => IInv'
<1> SUFFICES ASSUME IInv, [Next]_vars PROVE IInv'
  OBVIOUS
<1> USE BitsAssumption
<1>t. TypeOK
  BY DEF IInv
<1>w. value \in Words /\ limit \in Words /\ bit \in 0..Bits
  BY <1>t DEF TypeOK
<1>1. CASE PushCarry
  <2> DEFINE c == CarryOut(value[bit], NotLimit(bit), carry)
  <2>1. /\ phase = "witness" /\ phase' = "witness" /\ bit < Bits /\ bit' = bit + 1
        /\ value' = value /\ limit' = limit /\ honest' = honest
        /\ carry' = c
        /\ carries' = [k \in 0..bit |-> IF k = bit THEN c ELSE carries[k]]
    BY <1>1 DEF PushCarry
  <2>2. bit \in 0..Bits - 1 /\ carry = CarryAfter(value, limit, bit) /\ CarriesUpTo(bit) /\ honest
    BY <1>w, <2>1 DEF IInv
  <2>3. c = CarryAfter(value, limit, bit + 1) /\ c \in 0..1
    BY <1>w, <2>2, CarryStep DEF CarryOut
  <2> HIDE DEF c
  <2>4. carries \in [0..bit - 1 -> 0..1]
    BY <1>t, <2>1 DEF TypeOK
  <2>5. carries' \in [0..bit -> 0..1]
    BY <1>w, <2>1, <2>3, <2>4
  <2>6. TypeOK'
    <3>1. bit' \in 0..Bits /\ bit' - 1 = bit
      BY <1>w, <2>1
    <3> QED
      BY <1>t, <2>1, <2>3, <2>5, <3>1 DEF TypeOK
  <2>7. carry' = CarryAfter(value', limit', bit')
    BY <2>1, <2>3
  <2>8. CarriesUpTo(bit)'
    <3>1. \A j \in 0..bit : carries'[j] = CarryAfter(value, limit, j + 1)
      BY <1>w, <2>1, <2>2, <2>3 DEF CarriesUpTo
    <3>2. bit' - 1 = bit
      BY <1>w, <2>1
    <3> QED
      BY <2>1, <3>1, <3>2 DEF CarriesUpTo
  <2> QED
    BY <2>1, <2>2, <2>6, <2>7, <2>8
    DEF IInv, AcceptsOnlyBelow, HonestAccepted, CarriesDetermined
<1>2. CASE Commit
  <2>1. /\ phase = "witness" /\ phase' = "circuit" /\ bit = Bits /\ bit' = 0 /\ carry' = 1
        /\ value' = value /\ limit' = limit /\ honest' = honest /\ carries' = carries
    BY <1>2 DEF Commit, CarryIn
  <2>2. honest /\ CarriesUpTo(Bits)
    BY <2>1 DEF IInv
  <2>3. CarriesUpTo(Bits)'
    BY <2>1, <2>2 DEF CarriesUpTo
  <2>4. TypeOK'
    BY <1>t, <2>1 DEF TypeOK, Words
  <2>5. carry' = CarryAfter(value', limit', bit') /\ CarriesUpTo(bit)'
    <3>1. CarryAfter(value', limit', 0) = 1
      BY <2>1, NothingBelowZero
    <3> QED
      BY <2>1, <3>1 DEF CarriesUpTo
  <2> QED
    BY <2>1, <2>3, <2>4, <2>5 DEF IInv, AcceptsOnlyBelow, HonestAccepted, CarriesDetermined
<1>3. CASE AssertBit
  <2>1. /\ phase = "circuit" /\ phase' = "circuit" /\ bit < Bits /\ bit' = bit + 1
        /\ Equation(bit) = 0 /\ carry' = carries[bit]
        /\ value' = value /\ limit' = limit /\ honest' = honest /\ carries' = carries
    BY <1>3 DEF AssertBit
  <2>2. bit \in 0..Bits - 1 /\ carry = CarryAfter(value, limit, bit) /\ CarriesUpTo(bit)
    BY <1>w, <2>1 DEF IInv
  <2>3. carries \in Words /\ carries[bit] \in 0..1 /\ carry \in 0..1
    BY <1>t, <2>1, <2>2 DEF TypeOK, Words
  <2>4. carries[bit] = CarryAfter(value, limit, bit + 1)
    BY <1>w, <2>1, <2>2, <2>3, EquationSolved, CarryStep
  <2>5. TypeOK'
    BY <1>t, <2>1, <2>2, <2>3 DEF TypeOK
  <2>6. carry' = CarryAfter(value', limit', bit')
    BY <2>1, <2>4
  <2>7. CarriesUpTo(bit)'
    <3>1. \A j \in 0..bit : carries[j] = CarryAfter(value, limit, j + 1)
      BY <1>w, <2>2, <2>4 DEF CarriesUpTo
    <3>2. bit' - 1 = bit
      BY <1>w, <2>1
    <3> QED
      BY <2>1, <3>1, <3>2 DEF CarriesUpTo
  <2>8. honest => CarriesUpTo(Bits)'
    BY <2>1 DEF IInv, CarriesUpTo
  <2> QED
    BY <2>1, <2>5, <2>6, <2>7, <2>8
    DEF IInv, AcceptsOnlyBelow, HonestAccepted, CarriesDetermined
<1>4. CASE RejectBit
  <2>1. /\ phase = "circuit" /\ phase' = "rejected" /\ bit < Bits /\ Equation(bit) # 0
        /\ UNCHANGED <<value, limit, honest, carries, bit, carry>>
    BY <1>4 DEF RejectBit
  <2>2. bit \in 0..Bits - 1 /\ carry = CarryAfter(value, limit, bit)
    BY <1>w, <2>1 DEF IInv
  <2>3. carries[bit] \in 0..1 /\ carry \in 0..1
    BY <1>t, <2>1, <2>2 DEF TypeOK, Words
  <2>4. ~honest
    <3>1. ASSUME honest PROVE FALSE
      <4>1. carries[bit] = CarryAfter(value, limit, bit + 1)
        BY <2>1, <2>2, <3>1 DEF IInv, CarriesUpTo
      <4> QED
        BY <1>w, <2>1, <2>2, <2>3, <4>1, EquationSolved, CarryStep
    <3> QED
      BY <3>1
  <2>5. TypeOK'
    BY <1>t, <2>1 DEF TypeOK
  <2> QED
    BY <2>1, <2>4, <2>5 DEF IInv, AcceptsOnlyBelow, HonestAccepted, CarriesDetermined
<1>5. CASE Conclude
  <2>1. /\ phase = "circuit" /\ bit = Bits
        /\ phase' = IF carry = 0 THEN "accepted" ELSE "rejected"
        /\ UNCHANGED <<value, limit, honest, carries, bit, carry>>
    BY <1>5 DEF Conclude, Final
  <2>2. carry = CarryAfter(value, limit, Bits) /\ CarriesUpTo(Bits)
    BY <2>1 DEF IInv
  <2>3. CarriesUpTo(Bits)' /\ CarryAfter(value', limit', Bits) = CarryAfter(value, limit, Bits) /\ (Less' <=> Less)
    BY <2>1, <2>2 DEF CarriesUpTo, Less
  <2>4. TypeOK'
    BY <1>t, <2>1 DEF TypeOK
  <2>l. Less <=> LessBelow(value, limit, Bits)
    BY <1>w, OrderIsNumeric DEF Less
  <2>5. phase' = "accepted" => Less
    BY <2>1, <2>2, <2>l DEF CarryAfter
  <2>6. phase' = "rejected" => ~Less
    BY <2>1, <2>2, <2>l DEF CarryAfter
  <2>7. phase' \in {"accepted", "rejected"}
    BY <2>1
  <2> QED
    BY <2>3, <2>4, <2>5, <2>6, <2>7
    DEF IInv, AcceptsOnlyBelow, HonestAccepted, CarriesDetermined, CarriesUpTo
<1>6. CASE UNCHANGED vars
  <2>1. UNCHANGED <<value, limit, honest, carries, phase, bit, carry>>
    BY <1>6 DEF vars
  <2> QED
    BY <2>1 DEF IInv, TypeOK, CarriesUpTo, Less,
       AcceptsOnlyBelow, HonestAccepted, CarriesDetermined
<1> QED
  BY <1>1, <1>2, <1>3, <1>4, <1>5, <1>6 DEF Next

LEMMA Invariant == Spec => []IInv
  BY InitInvariant, StepInvariant, PTL DEF Spec

-----------------------------------------------------------------------------
\* Witness and circuit loops keep their shapes.
THEOREM RangeTypeOK == Spec => []TypeOK
<1>1. IInv => TypeOK
  BY DEF IInv
<1> QED
  BY <1>1, Invariant, PTL

\* assert_u32_less_than accepts no nonce at or above the limit, whatever carries
\* the prover commits to.
THEOREM RangeSound == Spec => []AcceptsOnlyBelow
<1>1. IInv => AcceptsOnlyBelow
  BY DEF IInv
<1> QED
  BY <1>1, Invariant, PTL

\* append_less_than_carries satisfies assert_u32_less_than below the limit.
THEOREM RangeComplete == Spec => []HonestAccepted
<1>1. IInv => HonestAccepted
  BY DEF IInv
<1> QED
  BY <1>1, Invariant, PTL

\* The committed carries of an accepted witness are a function of nonce and limit.
THEOREM RangeCarriesDetermined == Spec => []CarriesDetermined
<1>1. IInv => CarriesDetermined
  BY DEF IInv
<1> QED
  BY <1>1, Invariant, PTL
=============================================================================
