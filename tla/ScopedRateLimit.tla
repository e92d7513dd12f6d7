--------------------------- MODULE ScopedRateLimit ---------------------------
(***************************************************************************)
(* What a VOLE-ARC deployment promises a relying party: a request is       *)
(* authorised by redeeming a unit (lineage, nonce) of one scope, where the *)
(* lineage holds a credential for that scope and the nonce is below the    *)
(* limit the request was made under, and no unit is redeemed twice.  The   *)
(* limit is an argument of each request: applications may raise or lower   *)
(* it for a bucket that is already in use.                                 *)
(***************************************************************************)
EXTENDS Integers, FiniteSets

CONSTANTS
    Requests,     \* verification attempts
    Buckets,      \* scopes
    Holders,      \* Holders[s]: lineages that may redeem in scope s
    MaxLimit      \* largest limit a request may state

\* What an instance must supply.
Parameters ==
    /\ MaxLimit \in Nat
    /\ \A s \in Buckets : IsFiniteSet(Holders[s])

VARIABLE ledger   \* ledger[r]: the units request r was authorised by, {} or one

Units == UNION {[scope : {s}, lineage : Holders[s],
                 nonce : Nat, limit : 1..MaxLimit] : s \in Buckets}

Redeemed == UNION {ledger[r] : r \in Requests}

SameUnit(u, v) ==
    u.scope = v.scope /\ u.lineage = v.lineage /\ u.nonce = v.nonce

Init == ledger = [r \in Requests |-> {}]

Redeem(r, u) ==
    /\ ledger[r] = {}
    /\ u.nonce < u.limit
    /\ \A v \in Redeemed : ~SameUnit(u, v)
    /\ ledger' = [ledger EXCEPT ![r] = {u}]

Next ==
    \E r \in Requests, s \in Buckets, limit \in 1..MaxLimit, nonce \in 0..MaxLimit :
      \E lineage \in Holders[s] :
        Redeem(r, [scope |-> s, lineage |-> lineage, nonce |-> nonce, limit |-> limit])

Spec == Init /\ [][Next]_ledger

-----------------------------------------------------------------------------
\* The requests authorised in a scope while its stated limit was at most L.
AuthorisedUpTo(s, L) ==
    {r \in Requests : \E u \in ledger[r] : u.scope = s /\ u.limit <= L}

\* Accounting, at every threshold: however limits were raised and lowered,
\* the requests authorised in a scope under limits of at most L number at
\* most L for each lineage that holds a credential for the scope.
Accounting ==
    \A s \in Buckets, L \in 0..MaxLimit :
      Cardinality(AuthorisedUpTo(s, L)) <= Cardinality(Holders[s]) * L

\* The inductive invariant behind it: requests are authorised by one unit
\* each, in range, and by distinct units.
OneUnitEach ==
    /\ ledger \in [Requests -> SUBSET Units]
    /\ \A r \in Requests : \A u, v \in ledger[r] : u = v

InRange == \A u \in Redeemed : u.nonce < u.limit

NeverTwice ==
    \A q, r \in Requests : q # r =>
      \A u \in ledger[q], v \in ledger[r] : ~SameUnit(u, v)

IInv == OneUnitEach /\ InRange /\ NeverTwice
=============================================================================
