------------------------------- MODULE Verifier -------------------------------
(***************************************************************************)
(* The relying party.  Each call is one Verifier::verify by some replica   *)
(* holding an issuer's public key: proof verification, then one            *)
(* linearizable insertion of (scope, tag) in the store all replicas share, *)
(* and, by the caller, the protected action.  Calls interleave between     *)
(* those steps, may crash in any of them, and the insertion may fail       *)
(* before or after the tag became durable.                                 *)
(*                                                                         *)
(* The environment is every prover holding issued authenticators: it may   *)
(* present any satisfiable proof to any replica under any challenge, any   *)
(* number of times, with the tag field replaced.                           *)
(***************************************************************************)
EXTENDS IssuedCredentials

CONSTANT Calls

VARIABLES
    store,   \* the durable TagStore: a set of <<scope, tag>>
    call     \* call[c]: how far call c got

vars == <<store, call>>

-----------------------------------------------------------------------------
(* What the environment can present.                                       *)

\* One opening of an issued authenticator at one nonce.
Witnesses == {PresentationSecrets(body, nonce) : body \in Issued, nonce \in 0..U32Max}

HonestTag(issuer, challenge, witness) ==
    derive_tag(witness.secret, ScopeOf(issuer, challenge), witness.presentation_nonce)

Proofs ==
    {prove(presentation_statement(i, ch, HonestTag(i, ch, w)),
           PresentationCircuit(i, ch, HonestTag(i, ch, w)), w,
           [issuer |-> i, challenge |-> ch]) :
       i \in Issuers, ch \in Challenges, w \in Witnesses}

\* Every proof, with its own tag or another proof's in the envelope.
Presentations ==
    {[tag |-> t, proof |-> p] : t \in {p.circuit.tag : p \in Proofs}, p \in Proofs}

Deliveries == Issuers \X Challenges \X Presentations

\* The deliveries the verifier accepts and the ones it refuses.
Valid == {d \in Deliveries : verify_proof_only(d[1], d[2], d[3])}

Invalid == Deliveries \ Valid

-----------------------------------------------------------------------------
(* Stages of a call: idle, refused by verify_proof_only, or at a step with *)
(* what verify_proof_only returned.                                        *)

Idle == [at |-> "idle"]

Refused == [at |-> "InvalidProof"]

\* VerifiedPresentation: the exact storage key.  The other fields are history:
\* the challenge verified under, the opening the proof shows to exist, and the
\* request it was made for.
Verified(issuer, challenge, presentation) ==
    [at |-> "verified", scope |-> ScopeOf(issuer, challenge), tag |-> presentation.tag,
     issuer |-> issuer, challenge |-> challenge, witness |-> presentation.proof.witness,
     made_for |-> presentation.proof.request]

Steps == {"verified", "consumed", "acted", "TagAlreadyUsed", "StorageFailure", "lost"}

Tags == {derive_tag(s, scope, n) : s \in Secrets, scope \in Scopes, n \in 0..U32Max}

Requests == [issuer : Issuers, challenge : Challenges]

Stages ==
    [at : Steps, scope : Scopes, tag : Tags, issuer : Issuers,
     challenge : Challenges, witness : Witnesses, made_for : Requests]

\* Mutant: the scope is left out of the key.
Key_without_scope(v) == <<"any", v.tag>>

\* The durable key of a call that got past verify_proof_only.
Key(v) == <<v.scope, v.tag>>

Move(c, step) == call' = [call EXCEPT ![c].at = step]

\* Mutant: the result of the insertion is ignored.
FirstCopy_ignored(key) == TRUE

\* TagStore::insert_if_absent returns true exactly for the first copy.
FirstCopy(key) == key \notin store

-----------------------------------------------------------------------------
Init ==
    /\ store = {}
    /\ call = [c \in Calls |-> Idle]

\* Verifier::verify up to the return of verify_proof_only.
Accept(c) ==
    /\ call[c] = Idle
    /\ \E d \in Valid : call' = [call EXCEPT ![c] = Verified(d[1], d[2], d[3])]
    /\ UNCHANGED store

\* Mutant: the tag is consumed before the proof is checked.
Reject_after_insert(c) ==
    /\ call[c] = Idle
    /\ \E d \in Invalid : store' = store \cup {<<ScopeOf(d[1], d[2]), d[3].tag>>}
    /\ call' = [call EXCEPT ![c] = Refused]

Reject(c) ==
    /\ call[c] = Idle
    /\ Invalid # {}
    /\ call' = [call EXCEPT ![c] = Refused]
    /\ UNCHANGED store

\* Mutant: the first durable copy is reported as a duplicate.
Consume_as_duplicate(c) ==
    /\ call[c].at = "verified"
    /\ FirstCopy(Key(call[c]))
    /\ store' = store \cup {Key(call[c])}
    /\ Move(c, "TagAlreadyUsed")

\* insert_if_absent made the tag durable and returned true: verify returns Ok.
Consume(c) ==
    /\ call[c].at = "verified"
    /\ FirstCopy(Key(call[c]))
    /\ store' = store \cup {Key(call[c])}
    /\ Move(c, "consumed")

\* insert_if_absent returned false.
Duplicate(c) ==
    /\ call[c].at = "verified"
    /\ ~FirstCopy(Key(call[c]))
    /\ Move(c, "TagAlreadyUsed")
    /\ UNCHANGED store

\* insert_if_absent returned an error; the tag may be durable all the same.
StoreFails(c) ==
    /\ call[c].at = "verified"
    /\ store' \in {store, store \cup {Key(call[c])}}
    /\ Move(c, "StorageFailure")

\* Mutant: the protected action does not wait for the store.
Act_on_proof_only(c) ==
    /\ call[c].at \in {"verified", "consumed"}
    /\ Move(c, "acted")
    /\ UNCHANGED store

\* The application performs the protected action after verify returned Ok.
Act(c) ==
    /\ call[c].at = "consumed"
    /\ Move(c, "acted")
    /\ UNCHANGED store

\* The replica stops: the call is lost, the store survives.
Crash(c) ==
    /\ call[c].at \in {"verified", "consumed"}
    /\ Move(c, "lost")
    /\ UNCHANGED store

Next ==
    \E c \in Calls :
      \/ Accept(c) \/ Reject(c)
      \/ Consume(c) \/ Duplicate(c) \/ StoreFails(c)
      \/ Act(c) \/ Crash(c)

\* verify is straight-line code: unless it crashes, a call that verified a
\* proof goes on to the store, and its caller to the protected action.
Fairness == \A c \in Calls : WF_vars(Consume(c) \/ Duplicate(c)) /\ WF_vars(Act(c))

Spec == Init /\ [][Next]_vars

FairSpec == Spec /\ Fairness

-----------------------------------------------------------------------------
(* Properties.                                                             *)

\* Shapes of the store and of every call's stage.
TypeOK ==
    /\ store \subseteq Scopes \X Tags
    /\ call \in [Calls -> {Idle, Refused} \cup Stages]

\* The calls whose caller got Ok from verify, and has or has not acted yet.
Granted == {c \in Calls : call[c].at \in {"consumed", "acted"}}

GrantedUpTo(scope, L) ==
    {c \in Granted : call[c].scope = scope /\ call[c].challenge.limit <= L}

\* Scoped accounting (the paper's theorem), at every threshold L: the calls
\* that Verifier::verify let through in one scope under challenges with a limit
\* of at most L number at most L for each lineage issued for that issuer and
\* credential context, whatever other limits the bucket was used with, however
\* calls interleave, crash or meet a failing store, and even if tags collide.
ScopedAccounting ==
    \A i \in Issuers, c \in CredentialContexts, p \in PresentationContexts,
       L \in 0..U32Max :
      Cardinality(GrantedUpTo(presentation_scope(i, c, p), L))
        <= Cardinality(Lineages(i, c)) * L

\* One stored tag authorises one call: two calls that verify let through never
\* share a storage key, although the check of the proof and the insertion are
\* separate steps of concurrent calls.
GrantOnce ==
    \A c, d \in Granted : c # d => Key(call[c]) # Key(call[d])

\* A granted call was shown a proof made for exactly its own issuer, limit,
\* contexts and binding, by a holder of an authenticator issued under that
\* issuer and credential context: proofs do not transfer between requests,
\* policies, buckets or issuers.
PolicyBound ==
    \A c \in Granted :
      /\ call[c].made_for = [issuer |-> call[c].issuer, challenge |-> call[c].challenge]
      /\ call[c].witness.secret \in Lineages(call[c].issuer,
                                             call[c].challenge.credential_context)

\* Only a verified presentation consumes storage: every durable key, those left
\* by crashed calls and failed insertions included, is the tag of an issued
\* lineage at a nonce some limit admits, so the store is bounded by policy.
StoreJustified ==
    \A key \in store :
      \E i \in Issuers, ch \in Challenges :
        /\ key[1] = ScopeOf(i, ch)
        /\ \E s \in Lineages(i, ch.credential_context), n \in 0..(ch.limit - 1) :
             key[2] = derive_tag(s, key[1], n)

\* TagAlreadyUsed is never spurious: whenever a call was refused as a duplicate,
\* another call of the same scope with the same tag was let through, or failed or
\* crashed on the way to its caller.  Buckets never exhaust each other, even if
\* their tags collide.
DuplicatesHonest ==
    \A c \in Calls : call[c].at = "TagAlreadyUsed" =>
      \E d \in Calls :
        /\ call[d].at \in {"consumed", "acted", "StorageFailure", "lost"}
        /\ call[d].scope = call[c].scope
        /\ call[d].tag = call[c].tag

\* A call whose caller acted, or that failed or crashed on the way there.
Ended(c) == call[c].at \in {"acted", "StorageFailure", "lost"}

\* Every call that verified a proof is answered: its caller acts, or the store
\* failed it, or it crashed, or it lost the race for its key, and then a call with
\* that very key acts, or failed or crashed on the way.  No call is left waiting,
\* and no race ends without a winner while nothing fails.
RaceDecided ==
    \A c \in Calls :
      call[c].at = "verified" ~>
        \/ Ended(c)
        \/ /\ call[c].at = "TagAlreadyUsed"
           /\ \E d \in Calls \ {c} : Ended(d) /\ Key(call[d]) = Key(call[c])

\* The inductive invariant.  A call past proof verification carries a key its
\* witness derives, a call let through owns its key, and the store holds only
\* keys some call put there.
PastProof == {c \in Calls : call[c].at \in Steps}

Sound(v) ==
    /\ v.scope = ScopeOf(v.issuer, v.challenge)
    /\ v.made_for = [issuer |-> v.issuer, challenge |-> v.challenge]
    /\ v.witness.secret \in Lineages(v.issuer, v.challenge.credential_context)
    /\ v.witness.presentation_nonce \in 0..(v.challenge.limit - 1)
    /\ v.tag = derive_tag(v.witness.secret, v.scope, v.witness.presentation_nonce)

CallsSound == \A c \in PastProof : Sound(call[c])

GrantedStored == \A c \in Granted : Key(call[c]) \in store

StoreOwned ==
    /\ \A key \in store : \E c \in Calls :
         /\ call[c].at \in {"consumed", "acted", "StorageFailure", "lost"}
         /\ Key(call[c]) = key
    /\ \A c \in Calls : call[c].at = "TagAlreadyUsed" => Key(call[c]) \in store

IInv ==
    TypeOK /\ CallsSound /\ GrantedStored /\ GrantOnce /\ StoreJustified /\ StoreOwned

-----------------------------------------------------------------------------
(* The verifier implements the abstract rate limit: a request is authorised *)
(* when its caller acts, by the unit its proof's witness names.             *)

Unit(v) ==
    [scope |-> v.scope, lineage |-> v.witness.secret,
     nonce |-> v.witness.presentation_nonce, limit |-> v.challenge.limit]

Holders == [scope \in Scopes |-> Lineages(scope[2], scope[3])]

ledger == [c \in Calls |-> IF call[c].at = "acted" THEN {Unit(call[c])} ELSE {}]

RateLimit == INSTANCE ScopedRateLimit
    WITH Requests <- Calls, Buckets <- Scopes, MaxLimit <- U32Max

\* Every behaviour of the verifier, its store and its callers is a behaviour of
\* the abstract rate limit.
RefinesRateLimit == RateLimit!Spec
=============================================================================
