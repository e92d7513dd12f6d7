------------------------ MODULE ScopedRateLimitProofs ------------------------
(***************************************************************************)
(* The abstract rate limit keeps its promise for every set of requests,    *)
(* buckets and holders and every largest limit.                            *)
(***************************************************************************)
EXTENDS ScopedRateLimit, FiniteSetTheorems, TLAPS

\* What redeeming a unit leaves in the ledger.
LEMMA RedeemEffect ==
  ASSUME ledger \in [Requests -> SUBSET Units], NEW r \in Requests, NEW u,
         ledger' = [ledger EXCEPT ![r] = {u}]
  PROVE  /\ ledger'[r] = {u}
         /\ \A q \in Requests : q # r => ledger'[q] = ledger[q]
OBVIOUS

\* The inductive invariant holds initially and every redemption keeps it.
LEMMA IInvInductive ==
  ASSUME Parameters
  PROVE  /\ Init => IInv
         /\ IInv /\ [Next]_ledger => IInv'
<1>1. Init => IInv
  BY DEF Init, IInv, OneUnitEach, InRange, NeverTwice, Redeemed
<1>2. ASSUME IInv, [Next]_ledger PROVE IInv'
  <2>1. CASE UNCHANGED ledger
    BY <1>2, <2>1 DEF IInv, OneUnitEach, InRange, NeverTwice, Redeemed
  <2>2. CASE Next
    <3>1. PICK r \in Requests, s \in Buckets, limit \in 1..MaxLimit, nonce \in 0..MaxLimit :
            \E lineage \in Holders[s] :
              Redeem(r, [scope |-> s, lineage |-> lineage, nonce |-> nonce, limit |-> limit])
      BY <2>2 DEF Next
    <3>2. PICK lineage \in Holders[s] :
            Redeem(r, [scope |-> s, lineage |-> lineage, nonce |-> nonce, limit |-> limit])
      BY <3>1
    <3> DEFINE u == [scope |-> s, lineage |-> lineage, nonce |-> nonce, limit |-> limit]
    <3>3. u \in Units
      <4>1. nonce \in Nat
        BY DEF Parameters
      <4>2. u \in [scope : {s}, lineage : Holders[s], nonce : Nat, limit : 1..MaxLimit]
        BY <4>1
      <4> QED
        BY <4>2 DEF Units
    <3>4. /\ ledger[r] = {}
          /\ u.nonce < u.limit
          /\ \A v \in Redeemed : ~SameUnit(u, v)
          /\ ledger' = [ledger EXCEPT ![r] = {u}]
      BY <3>2 DEF Redeem
    <3> HIDE DEF u
    <3>5. /\ ledger'[r] = {u}
          /\ \A q \in Requests : q # r => ledger'[q] = ledger[q]
      BY <1>2, <3>4 DEF IInv, OneUnitEach
    <3>6. OneUnitEach'
      BY <1>2, <3>3, <3>4, <3>5 DEF IInv, OneUnitEach
    <3>7. InRange'
      BY <1>2, <3>4, <3>5 DEF IInv, InRange, Redeemed
    <3>8. NeverTwice'
      <4>1. \A q \in Requests : \A v \in ledger[q] : v \in Redeemed
        BY DEF Redeemed
      <4>2. \A q \in Requests : \A v \in ledger[q] : ~SameUnit(u, v) /\ ~SameUnit(v, u)
        BY <3>4, <4>1 DEF SameUnit
      <4> QED
        BY <1>2, <3>5, <4>2 DEF IInv, NeverTwice
    <3> QED
      BY <3>6, <3>7, <3>8 DEF IInv
  <2> QED
    BY <1>2, <2>1, <2>2
<1> QED
  BY <1>1, <1>2

\* Distinct units below a limit are counted by lineages and nonces.
LEMMA IInvImpliesAccounting ==
  ASSUME Parameters, IInv
  PROVE  Accounting
<1> SUFFICES ASSUME NEW s \in Buckets, NEW L \in 0..MaxLimit
             PROVE  Cardinality(AuthorisedUpTo(s, L)) <= Cardinality(Holders[s]) * L
  BY DEF Accounting
<1> DEFINE A == AuthorisedUpTo(s, L)
           unit(r) == CHOOSE u \in ledger[r] : u.scope = s /\ u.limit <= L
           f == [r \in A |-> <<unit(r).lineage, unit(r).nonce>>]
<1>1. L \in Nat /\ IsFiniteSet(Holders[s])
  BY DEF Parameters
<1>2. \A r \in A : /\ r \in Requests
                   /\ unit(r) \in ledger[r]
                   /\ unit(r).scope = s
                   /\ unit(r).limit <= L
  BY DEF AuthorisedUpTo
<1>3. \A r \in A : unit(r) \in Units /\ unit(r).nonce < unit(r).limit
  BY <1>2 DEF IInv, OneUnitEach, InRange, Redeemed
<1>4. \A r \in A : unit(r).lineage \in Holders[s] /\ unit(r).nonce \in 0..(L - 1)
  <2> SUFFICES ASSUME NEW r \in A
               PROVE  unit(r).lineage \in Holders[s] /\ unit(r).nonce \in 0..(L - 1)
    OBVIOUS
  <2> HIDE DEF unit, A
  <2>1. PICK b \in Buckets :
          unit(r) \in [scope : {b}, lineage : Holders[b], nonce : Nat, limit : 1..MaxLimit]
    BY <1>3 DEF Units
  <2>2. b = s
    BY <1>2, <2>1
  <2>3. unit(r).nonce \in Nat /\ unit(r).limit \in 1..MaxLimit /\ unit(r).lineage \in Holders[s]
    BY <2>1, <2>2
  <2> QED
    BY <1>1, <1>2, <1>3, <2>3 DEF Parameters
<1>5. f \in [A -> Holders[s] \X (0..(L - 1))]
  BY <1>4
<1>6. \A c, d \in A : f[c] = f[d] => c = d
  <2> SUFFICES ASSUME NEW c \in A, NEW d \in A, f[c] = f[d]
               PROVE  c = d
    OBVIOUS
  <2>1. unit(c).lineage = unit(d).lineage /\ unit(c).nonce = unit(d).nonce
    OBVIOUS
  <2> HIDE DEF unit, A, f
  <2>2. SameUnit(unit(c), unit(d))
    BY <1>2, <2>1 DEF SameUnit
  <2> QED
    BY <1>2, <2>2 DEF IInv, NeverTwice
<1> HIDE DEF f, A
<1>7. /\ IsFiniteSet(Holders[s] \X (0..(L - 1)))
      /\ Cardinality(Holders[s] \X (0..(L - 1))) = Cardinality(Holders[s]) * L
  <2>1. IsFiniteSet(0..(L - 1)) /\ Cardinality(0..(L - 1)) = L
    BY FS_Interval
  <2> QED
    BY <1>1, <2>1, FS_Product
<1>8. Cardinality(A) <= Cardinality(Holders[s] \X (0..(L - 1)))
  <2>1. f \in Injection(A, Holders[s] \X (0..(L - 1)))
    BY <1>5, <1>6 DEF Injection, IsInjective
  <2> QED
    BY <1>7, <2>1, FS_Injection
<1>9. Cardinality(A) <= Cardinality(Holders[s]) * L
  BY <1>7, <1>8
<1> QED
  BY <1>9 DEF A

\* The abstract rate limit authorises at most the limit per lineage and scope:
\* what the contracts of Verifier and TagStore are for.
THEOREM RateLimitAccounting ==
  ASSUME Parameters
  PROVE  Spec => []Accounting
<1>1. Init => IInv
  BY IInvInductive
<1>2. IInv /\ [Next]_ledger => IInv'
  BY IInvInductive
<1>3. IInv => Accounting
  BY IInvImpliesAccounting
<1> QED
  BY <1>1, <1>2, <1>3, PTL DEF Spec
=============================================================================
