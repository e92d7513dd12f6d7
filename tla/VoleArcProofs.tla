---------------------------- MODULE VoleArcProofs ----------------------------
(***************************************************************************)
(* Verifier, holder and the system they compose.                           *)
(*                                                                         *)
(* Verifier: safety for every set of calls, issuers, contexts, limits,     *)
(* bindings, issued credentials and every tag hash, colliding or not.      *)
(* First what one accepted delivery shows, then the inductive invariant    *)
(* IInv, then the theorems that follow from it.                            *)
(*                                                                         *)
(* Holder: safety for every set of contexts, limits and uses and every     *)
(* bound on contexts: the counter a restart finds always covers what was   *)
(* sent.  First the two codecs and the counter update, then one lemma for  *)
(* each action and the inductive invariant HolderIInv, then the theorems.  *)
(*                                                                         *)
(* The composed system, for every set of calls, uses and credentials: it   *)
(* implements both, so it inherits what is proved of them, and SystemIInv  *)
(* ties each call to the use it was shown.                                 *)
(***************************************************************************)
EXTENDS VoleArc, FiniteSetTheorems, TLAPS

-----------------------------------------------------------------------------
(* The verifier: facts about the pure definitions.                         *)

\* A challenge states a nonzero 32-bit limit.
LEMMA ChallengeFacts ==
  ASSUME NEW ch \in Challenges
  PROVE  /\ ch.credential_context \in CredentialContexts
         /\ ch.presentation_context \in PresentationContexts
         /\ ch.limit \in 1..U32Max
         /\ ch.limit # 0
<1>1. /\ ch.credential_context \in CredentialContexts
      /\ ch.presentation_context \in PresentationContexts
      /\ ch.limit \in Limits
      /\ ch.limit # 0
  BY DEF Challenges
<1>2. U32Max \in Nat
  BY U32MaxAssumption
<1>3. ch.limit \in 0..U32Max
  BY <1>1, LimitsAssumption
<1> QED
  BY <1>1, <1>2, <1>3

\* The scope of a challenge is a scope, and names its issuer and context.
LEMMA ScopeFacts ==
  ASSUME NEW i \in Issuers, NEW ch \in Challenges
  PROVE  /\ ScopeOf(i, ch) \in Scopes
         /\ ScopeOf(i, ch)[2] = i
         /\ ScopeOf(i, ch)[3] = ch.credential_context
BY ChallengeFacts DEF ScopeOf, Scopes, presentation_scope

\* An issued body opens exactly the target of its own issuer and context.
LEMMA IssuedFacts ==
  ASSUME NEW body \in Issued
  PROVE  /\ body.issuer_context \in Issuers
         /\ body.secret \in Secrets
         /\ body.signature = spre(body.issuer_context,
              SignedTarget(credential_scope(body.issuer_context,
                                            body.credential_context), body))
<1>1. PICK i \in Issuers, c \in CredentialContexts,
           s \in Secrets, h \in HidingNonces, salt \in Salts :
             body = CredentialBody(i, c, s, h, salt)
  BY IssuedAssumption
<1> QED
  BY <1>1 DEF CredentialBody, SignedTarget

\* There are finitely many lineages in a scope.
LEMMA LineagesFinite ==
  ASSUME NEW i, NEW c
  PROVE  IsFiniteSet(Lineages(i, c))
<1> DEFINE S == {b \in Issued : b.issuer_context = i /\ b.credential_context = c}
           f == [b \in S |-> b.secret]
<1>1. IsFiniteSet(S)
  BY IssuedAssumption, FS_Subset
<1>2. Lineages(i, c) = {b.secret : b \in S}
  BY DEF Lineages
<1>3. f \in Surjection(S, Lineages(i, c))
  BY <1>2 DEF Surjection
<1> HIDE DEF S, f
<1> QED
  BY <1>1, <1>3, FS_Surjection

\* The proof relation does what the rate limit needs: an authenticator opens
\* the target of one issuer, one context and one secret only.
LEMMA OpeningBelongsToLineage ==
  ASSUME NEW body \in Issued, NEW nonce, NEW i, NEW c,
         MayoOpens(i, PresentationSecrets(body, nonce).signature,
                   SignedTarget(credential_scope(i, c),
                                PresentationSecrets(body, nonce)))
  PROVE  body.secret \in Lineages(i, c)
<1>1. spre(body.issuer_context,
           SignedTarget(credential_scope(body.issuer_context,
                                         body.credential_context), body))
        = spre(i, SignedTarget(credential_scope(i, c), PresentationSecrets(body, nonce)))
  BY IssuedFacts DEF MayoOpens, PresentationSecrets
<1>2. /\ body.issuer_context = i
      /\ SignedTarget(credential_scope(body.issuer_context, body.credential_context), body)
           = SignedTarget(credential_scope(i, c), PresentationSecrets(body, nonce))
  BY <1>1 DEF spre
<1>3. credential_scope(body.issuer_context, body.credential_context) = credential_scope(i, c)
  BY <1>2 DEF SignedTarget, signed_credential_target, credential_target
<1>4. body.credential_context = c
  BY <1>3 DEF credential_scope
<1> QED
  BY <1>2, <1>4 DEF Lineages

\* What verify_proof_only establishes: the stage it returns is well formed and
\* sound.
LEMMA ValidDelivery ==
  ASSUME NEW d \in Valid
  PROVE  /\ Verified(d[1], d[2], d[3]) \in Stages
         /\ Sound(Verified(d[1], d[2], d[3]))
<1> DEFINE i == d[1]
           ch == d[2]
           pr == d[3]
           proof == pr.proof
           v == Verified(i, ch, pr)
<1>1. /\ i \in Issuers /\ ch \in Challenges /\ pr \in Presentations
      /\ verify_proof_only(i, ch, pr)
  BY DEF Valid, Deliveries
<1>2. /\ proof.statement = presentation_statement(i, ch, pr.tag)
      /\ proof.circuit = PresentationCircuit(i, ch, pr.tag)
      /\ CircuitSatisfied(proof.circuit, proof.witness)
  BY <1>1 DEF verify_proof_only, vole_verify
<1>3. PICK i0 \in Issuers, ch0 \in Challenges, w \in Witnesses :
        /\ proof.witness = w
        /\ proof.request = [issuer |-> i0, challenge |-> ch0]
        /\ proof.statement = presentation_statement(i0, ch0, HonestTag(i0, ch0, w))
  <2>1. proof \in Proofs
    BY <1>1 DEF Presentations
  <2> QED
    BY <2>1 DEF Proofs, prove
<1>12. proof.request = [issuer |-> i, challenge |-> ch]
  BY <1>2, <1>3 DEF presentation_statement
<1>4. PICK body \in Issued, nonce \in 0..U32Max : w = PresentationSecrets(body, nonce)
  BY DEF Witnesses
<1>5. w.secret = body.secret /\ w.presentation_nonce = nonce
  BY <1>4 DEF PresentationSecrets
<1> HIDE DEF i, ch, pr
<1>6. /\ nonce < ch.limit
      /\ MayoOpens(i, w.signature, SignedTarget(credential_scope(i, ch.credential_context), w))
      /\ pr.tag = derive_tag(w.secret, ScopeOf(i, ch), nonce)
  BY <1>2, <1>3, <1>5 DEF CircuitSatisfied, PresentationCircuit, assert_u32_less_than
<1>7. w.secret \in Lineages(i, ch.credential_context)
  BY <1>4, <1>5, <1>6, OpeningBelongsToLineage
<1>8. nonce \in 0..(ch.limit - 1)
  BY <1>1, <1>6, ChallengeFacts, U32MaxAssumption
<1>9. pr.tag \in Tags
  <2>1. ScopeOf(i, ch) \in Scopes /\ w.secret \in Secrets
    BY <1>1, <1>5, IssuedFacts, ScopeFacts
  <2> QED
    BY <1>6, <2>1 DEF Tags
<1>10. v \in Stages
  BY <1>1, <1>3, <1>9, <1>12, ScopeFacts DEF Verified, Stages, Steps, Requests
<1>11. Sound(v)
  BY <1>3, <1>5, <1>6, <1>7, <1>8, <1>12 DEF Verified, Sound
<1> QED
  BY <1>10, <1>11 DEF i, ch, pr

-----------------------------------------------------------------------------
(* One step.                                                               *)

\* A call past proof verification has a whole stage and a storable key.
LEMMA StageOf ==
  ASSUME TypeOK, NEW c \in Calls, call[c].at \in Steps
  PROVE  /\ call[c] \in Stages
         /\ Key(call[c]) \in Scopes \X Tags
<1>1. call[c] \in {Idle, Refused} \cup Stages
  BY DEF TypeOK
<1>2. call[c] # Idle /\ call[c] # Refused
  BY DEF Idle, Refused, Steps
<1>3. call[c] \in Stages
  BY <1>1, <1>2
<1> QED
  BY <1>3 DEF Stages, Key

\* Moving a call changes its step and nothing else of any call.
LEMMA MoveEffect ==
  ASSUME TypeOK, NEW c \in Calls, call[c].at \in Steps,
         NEW step \in Steps, Move(c, step)
  PROVE  /\ call' \in [Calls -> {Idle, Refused} \cup Stages]
         /\ call'[c].at = step
         /\ Key(call'[c]) = Key(call[c])
         /\ Sound(call[c]) => Sound(call'[c])
         /\ \A d \in Calls : d # c => call'[d] = call[d]
<1>1. call[c] \in Stages
  BY StageOf
<1>2. call'[c] = [call[c] EXCEPT !.at = step] /\ \A d \in Calls : d # c => call'[d] = call[d]
  BY DEF Move, TypeOK
<1>3. /\ call'[c] \in Stages
      /\ call'[c].at = step
      /\ call'[c].scope = call[c].scope
      /\ call'[c].tag = call[c].tag
      /\ call'[c].issuer = call[c].issuer
      /\ call'[c].challenge = call[c].challenge
      /\ call'[c].witness = call[c].witness
      /\ call'[c].made_for = call[c].made_for
  BY <1>1, <1>2 DEF Stages
<1>4. call' \in [Calls -> {Idle, Refused} \cup Stages]
  BY <1>2, <1>3 DEF TypeOK, Move
<1> QED
  BY <1>2, <1>3, <1>4 DEF Key, Sound

\* The type invariant is inductive.
LEMMA TypeOKStep ==
  ASSUME TypeOK, [Next]_vars
  PROVE  TypeOK'
<1>1. CASE UNCHANGED vars
  BY <1>1 DEF TypeOK, vars
<1>2. ASSUME NEW c \in Calls, Accept(c) PROVE TypeOK'
  BY <1>2, ValidDelivery DEF Accept, TypeOK
<1>3. ASSUME NEW c \in Calls, Reject(c) PROVE TypeOK'
  BY <1>3 DEF Reject, TypeOK
<1>4. ASSUME NEW c \in Calls, Consume(c) \/ StoreFails(c) PROVE TypeOK'
  <2>1. call[c].at = "verified" /\ call[c].at \in Steps
    BY <1>4 DEF Consume, StoreFails, Steps
  <2>2. Key(call[c]) \in Scopes \X Tags
    BY <2>1, StageOf
  <2>3. store' \subseteq Scopes \X Tags
    BY <1>4, <2>2 DEF Consume, StoreFails, TypeOK
  <2>4. Move(c, "consumed") \/ Move(c, "StorageFailure")
    BY <1>4 DEF Consume, StoreFails
  <2>5. call' \in [Calls -> {Idle, Refused} \cup Stages]
    BY <2>1, <2>4, MoveEffect DEF Steps
  <2> QED
    BY <2>3, <2>5 DEF TypeOK
<1>5. ASSUME NEW c \in Calls, Duplicate(c) \/ Act(c) \/ Crash(c) PROVE TypeOK'
  <2>1. call[c].at \in Steps
    BY <1>5 DEF Duplicate, Act, Crash, Steps
  <2>2. /\ Move(c, "TagAlreadyUsed") \/ Move(c, "acted") \/ Move(c, "lost")
        /\ store' = store
    BY <1>5 DEF Duplicate, Act, Crash
  <2>3. call' \in [Calls -> {Idle, Refused} \cup Stages]
    BY <2>1, <2>2, MoveEffect DEF Steps
  <2> QED
    BY <2>2, <2>3 DEF TypeOK
<1> QED
  BY <1>1, <1>2, <1>3, <1>4, <1>5 DEF Next

\* The invariant holds before any call was made.
LEMMA IInvInit == Init => IInv
BY DEF Init, IInv, TypeOK, CallsSound, PastProof, Steps, Idle, GrantedStored,
       Granted, GrantOnce, StoreJustified, StoreOwned

\* Verifying a proof, or refusing it, touches neither the store nor a call that
\* holds a key.
LEMMA ProofStep ==
  ASSUME IInv, NEW c \in Calls, Accept(c) \/ Reject(c)
  PROVE  CallsSound' /\ GrantedStored' /\ GrantOnce' /\ StoreJustified' /\ StoreOwned'
<1>1. /\ store' = store
      /\ call[c] = Idle
      /\ \A d \in Calls : d # c => call'[d] = call[d]
  BY DEF Accept, Reject, IInv, TypeOK
<1>2. \/ call'[c] = Refused
      \/ call'[c].at = "verified" /\ Sound(call'[c])
  <2>1. CASE Accept(c)
    <3>1. PICK d \in Valid : call' = [call EXCEPT ![c] = Verified(d[1], d[2], d[3])]
      BY <2>1 DEF Accept
    <3>2. call'[c] = Verified(d[1], d[2], d[3])
      BY <3>1 DEF IInv, TypeOK
    <3> QED
      BY <3>2, ValidDelivery DEF Verified
  <2>2. CASE Reject(c)
    BY <2>2 DEF Reject, IInv, TypeOK
  <2> QED
    BY <2>1, <2>2
<1>3. /\ call[c].at = "idle"
      /\ call'[c].at \in {"verified", "InvalidProof"}
      /\ call'[c].at \in Steps => Sound(call'[c])
  BY <1>1, <1>2 DEF Idle, Refused, Steps
<1>4. CallsSound'
  BY <1>1, <1>3 DEF IInv, CallsSound, PastProof
<1>5. GrantedStored' /\ GrantOnce'
  BY <1>1, <1>3 DEF IInv, GrantedStored, GrantOnce, Granted
<1>6. StoreJustified'
  BY <1>1 DEF IInv, StoreJustified
<1>7. StoreOwned'
  BY <1>1, <1>3 DEF IInv, StoreOwned
<1> QED
  BY <1>4, <1>5, <1>6, <1>7

\* The store and what follows it: at most the key of the moving call becomes
\* durable, a call is let through only over an absent key it makes durable, and
\* a call that made its key durable is let through, failed or lost.
LEMMA StoreStep ==
  ASSUME IInv, NEW c \in Calls, NEW step \in Steps, Move(c, step),
         call[c].at \in {"verified", "consumed"},
         step # "verified",
         store' \in {store, store \cup {Key(call[c])}},
         step = "consumed" => /\ Key(call[c]) \notin store
                              /\ Key(call[c]) \in store',
         step = "acted" => call[c].at = "consumed",
         step = "TagAlreadyUsed" => /\ call[c].at = "verified"
                                    /\ Key(call[c]) \in store
                                    /\ store' = store
  PROVE  CallsSound' /\ GrantedStored' /\ GrantOnce' /\ StoreJustified' /\ StoreOwned'
<1>1. TypeOK /\ call[c].at \in Steps
  BY DEF IInv, Steps
<1>2. /\ call'[c].at = step
      /\ Key(call'[c]) = Key(call[c])
      /\ Sound(call[c]) => Sound(call'[c])
      /\ \A d \in Calls : d # c => call'[d] = call[d]
  BY <1>1, MoveEffect
<1>3. Sound(call[c])
  BY <1>1 DEF IInv, CallsSound, PastProof
<1>4. CallsSound'
  BY <1>2, <1>3 DEF IInv, CallsSound, PastProof
<1>5. \A d \in Calls : Key(call'[d]) = Key(call[d])
  BY <1>2
<1>6. \A d \in Granted' : d \in Granted \/ (d = c /\ step = "consumed")
  BY <1>2 DEF Granted
<1>7. GrantedStored'
  <2> SUFFICES ASSUME NEW d \in Granted' PROVE Key(call'[d]) \in store'
    BY DEF GrantedStored
  <2>1. d \in Calls
    BY DEF Granted
  <2>2. store \subseteq store'
    OBVIOUS
  <2> QED
    BY <1>5, <1>6, <2>1, <2>2 DEF IInv, GrantedStored
<1>8. GrantOnce'
  <2> SUFFICES ASSUME NEW d \in Granted', NEW e \in Granted', d # e
               PROVE  Key(call'[d]) # Key(call'[e])
    BY DEF GrantOnce
  <2>1. d \in Calls /\ e \in Calls
    BY DEF Granted
  <2>2. CASE d \in Granted /\ e \in Granted
    BY <1>5, <2>1, <2>2 DEF IInv, GrantOnce
  <2>3. CASE d \notin Granted
    BY <1>5, <1>6, <2>1, <2>3 DEF IInv, GrantedStored
  <2>4. CASE e \notin Granted
    BY <1>5, <1>6, <2>1, <2>4 DEF IInv, GrantedStored
  <2> QED
    BY <2>2, <2>3, <2>4
<1>9. StoreJustified'
  <2>1. call[c].issuer \in Issuers /\ call[c].challenge \in Challenges
    BY <1>1, StageOf DEF Stages
  <2>2. /\ Key(call[c])[1] = ScopeOf(call[c].issuer, call[c].challenge)
        /\ call[c].witness.secret
             \in Lineages(call[c].issuer, call[c].challenge.credential_context)
        /\ call[c].witness.presentation_nonce \in 0..(call[c].challenge.limit - 1)
        /\ Key(call[c])[2] = derive_tag(call[c].witness.secret, Key(call[c])[1],
                                        call[c].witness.presentation_nonce)
    BY <1>3 DEF Sound, Key
  <2>3. \A key \in store' : key \in store \/ key = Key(call[c])
    OBVIOUS
  <2> QED
    BY <2>1, <2>2, <2>3 DEF IInv, StoreJustified
<1>10. StoreOwned'
  <2>1. \A key \in store' : \E d \in Calls :
          /\ call'[d].at \in {"consumed", "acted", "StorageFailure", "lost"}
          /\ Key(call'[d]) = key
    <3> SUFFICES ASSUME NEW key \in store'
                 PROVE  \E d \in Calls :
                          /\ call'[d].at \in {"consumed", "acted", "StorageFailure", "lost"}
                          /\ Key(call'[d]) = key
      OBVIOUS
    <3>1. CASE key \in store
      <4>1. PICK d \in Calls :
              /\ call[d].at \in {"consumed", "acted", "StorageFailure", "lost"}
              /\ Key(call[d]) = key
        BY <3>1 DEF IInv, StoreOwned
      <4>2. CASE d # c
        BY <1>2, <4>1, <4>2
      <4>3. CASE d = c
        <5>1. step \in {"consumed", "acted", "StorageFailure", "lost"}
          BY <4>1, <4>3 DEF Steps
        <5> QED
          BY <1>2, <4>1, <4>3, <5>1
      <4> QED
        BY <4>2, <4>3
    <3>2. CASE key \notin store
      <4>1. key = Key(call[c]) /\ step # "TagAlreadyUsed"
        BY <3>2
      <4>2. step \in {"consumed", "acted", "StorageFailure", "lost"}
        BY <4>1 DEF Steps
      <4> QED
        BY <1>2, <4>1, <4>2
    <3> QED
      BY <3>1, <3>2
  <2>2. \A d \in Calls : call'[d].at = "TagAlreadyUsed" => Key(call'[d]) \in store'
    <3> SUFFICES ASSUME NEW d \in Calls, call'[d].at = "TagAlreadyUsed"
                 PROVE  Key(call'[d]) \in store'
      OBVIOUS
    <3>1. CASE d = c
      BY <1>2, <3>1
    <3>2. CASE d # c
      BY <1>2, <3>2 DEF IInv, StoreOwned
    <3> QED
      BY <3>1, <3>2
  <2> QED
    BY <2>1, <2>2 DEF StoreOwned
<1> QED
  BY <1>4, <1>7, <1>8, <1>9, <1>10

\* IInv is inductive.
LEMMA IInvStep ==
  ASSUME IInv, [Next]_vars
  PROVE  IInv'
<1> DEFINE Rest == CallsSound' /\ GrantedStored' /\ GrantOnce' /\ StoreJustified' /\ StoreOwned'
<1>1. TypeOK'
  BY TypeOKStep DEF IInv
<1>2. CASE UNCHANGED vars
  BY <1>1, <1>2 DEF IInv, vars, CallsSound, PastProof, GrantedStored, Granted, GrantOnce,
                    StoreJustified, StoreOwned
<1>3. ASSUME NEW c \in Calls, Accept(c) \/ Reject(c) PROVE Rest
  BY <1>3, ProofStep
<1>4. ASSUME NEW c \in Calls, Consume(c) PROVE Rest
  BY <1>4, StoreStep DEF Consume, FirstCopy, Steps
<1>5. ASSUME NEW c \in Calls, Duplicate(c) PROVE Rest
  BY <1>5, StoreStep DEF Duplicate, FirstCopy, Steps
<1>6. ASSUME NEW c \in Calls, StoreFails(c) PROVE Rest
  BY <1>6, StoreStep DEF StoreFails, Steps
<1>7. ASSUME NEW c \in Calls, Act(c) PROVE Rest
  BY <1>7, StoreStep DEF Act, Steps
<1>8. ASSUME NEW c \in Calls, Crash(c) PROVE Rest
  BY <1>8, StoreStep DEF Crash, Steps
<1>9. CASE Next
  <2>1. Rest
    BY <1>9, <1>3, <1>4, <1>5, <1>6, <1>7, <1>8 DEF Next
  <2> QED
    BY <1>1, <2>1 DEF IInv
<1> QED
  BY <1>2, <1>9

-----------------------------------------------------------------------------
(* Theorems.                                                               *)

\* A granted call has a well-formed, sound stage.
LEMMA GrantedSound ==
  ASSUME IInv, NEW c \in Granted
  PROVE  c \in Calls /\ call[c] \in Stages /\ Sound(call[c])
BY StageOf DEF IInv, CallsSound, PastProof, Granted, Steps

\* IInv bounds the calls let through: distinct keys of one scope come from
\* distinct pairs of a lineage and a nonce below the limit.
LEMMA IInvImpliesAccounting ==
  ASSUME IInv
  PROVE  ScopedAccounting
<1> SUFFICES ASSUME NEW i \in Issuers, NEW cc \in CredentialContexts,
                    NEW p \in PresentationContexts, NEW L \in 0..U32Max
             PROVE  Cardinality(GrantedUpTo(presentation_scope(i, cc, p), L))
                      <= Cardinality(Lineages(i, cc)) * L
  BY DEF ScopedAccounting
<1> DEFINE scope == presentation_scope(i, cc, p)
           G == GrantedUpTo(scope, L)
           Q == Lineages(i, cc)
           pair(c) == <<call[c].witness.secret, call[c].witness.presentation_nonce>>
           f == [c \in G |-> pair(c)]
<1>1. L \in Nat /\ IsFiniteSet(Q)
  BY LineagesFinite
<1>2. \A c \in G : /\ c \in Granted
                   /\ call[c].scope = scope
                   /\ call[c].challenge.limit <= L
  BY DEF GrantedUpTo
<1>3. \A c \in G : /\ call[c].witness.secret \in Q
                   /\ call[c].witness.presentation_nonce \in 0..(L - 1)
                   /\ call[c].tag = derive_tag(pair(c)[1], scope, pair(c)[2])
  <2> SUFFICES ASSUME NEW c \in G
               PROVE  /\ call[c].witness.secret \in Q
                      /\ call[c].witness.presentation_nonce \in 0..(L - 1)
                      /\ call[c].tag = derive_tag(pair(c)[1], scope, pair(c)[2])
    OBVIOUS
  <2>1. call[c] \in Stages /\ Sound(call[c])
    BY <1>2, GrantedSound
  <2>2. call[c].issuer \in Issuers /\ call[c].challenge \in Challenges
    BY <2>1 DEF Stages
  <2>3. scope = ScopeOf(call[c].issuer, call[c].challenge)
    BY <1>2, <2>1 DEF Sound
  <2>4. scope[2] = i /\ scope[3] = cc
    BY DEF presentation_scope
  <2>5. call[c].issuer = i /\ call[c].challenge.credential_context = cc
    BY <2>2, <2>3, <2>4, ScopeFacts
  <2>6. call[c].witness.secret \in Q
    BY <2>1, <2>5 DEF Sound
  <2>7. call[c].witness.presentation_nonce \in 0..(L - 1)
    <3>1. call[c].challenge.limit \in 1..U32Max /\ call[c].challenge.limit <= L
      BY <1>2, <2>2, ChallengeFacts
    <3>2. call[c].witness.presentation_nonce \in 0..(call[c].challenge.limit - 1)
      BY <2>1 DEF Sound
    <3>3. U32Max \in Nat
      BY U32MaxAssumption
    <3> QED
      BY <1>1, <3>1, <3>2, <3>3
  <2>8. call[c].tag = derive_tag(pair(c)[1], scope, pair(c)[2])
    BY <1>2, <2>1 DEF Sound
  <2> QED
    BY <2>6, <2>7, <2>8
<1>4. f \in [G -> Q \X (0..(L - 1))]
  BY <1>3
<1>5. \A c, d \in G : f[c] = f[d] => c = d
  <2> SUFFICES ASSUME NEW c \in G, NEW d \in G, f[c] = f[d] PROVE c = d
    OBVIOUS
  <2>1. pair(c) = pair(d)
    OBVIOUS
  <2>2. call[c].tag = call[d].tag
    <3> HIDE DEF pair, G
    <3> QED
      BY <1>3, <2>1
  <2>3. Key(call[c]) = Key(call[d])
    BY <1>2, <2>2 DEF Key
  <2> QED
    BY <1>2, <2>3 DEF IInv, GrantOnce
<1> HIDE DEF f, G, Q
<1>6. /\ IsFiniteSet(Q \X (0..(L - 1)))
      /\ Cardinality(Q \X (0..(L - 1))) = Cardinality(Q) * L
  <2>1. IsFiniteSet(0..(L - 1)) /\ Cardinality(0..(L - 1)) = L
    BY FS_Interval
  <2> QED
    BY <1>1, <2>1, FS_Product
<1>7. Cardinality(G) <= Cardinality(Q \X (0..(L - 1)))
  <2>1. f \in Injection(G, Q \X (0..(L - 1)))
    BY <1>4, <1>5 DEF Injection, IsInjective
  <2> QED
    BY <1>6, <2>1, FS_Injection
<1> QED
  BY <1>6, <1>7 DEF G, Q

\* A sound granted call was shown a proof for exactly its request.
LEMMA IInvImpliesPolicyBound == IInv => PolicyBound
BY GrantedSound DEF PolicyBound, Sound

\* The inductive invariant holds in every reachable state.
LEMMA SpecIInv == Spec => []IInv
<1>1. Init => IInv
  BY IInvInit
<1>2. IInv /\ [Next]_vars => IInv'
  BY IInvStep
<1> QED
  BY <1>1, <1>2, PTL DEF Spec

\* The store and every call keep their shape: stages of verify, whole storage
\* keys, challenges that PresentationChallenge::new would build.
THEOREM VerifierTypeOK == Spec => []TypeOK
<1>1. IInv => TypeOK
  BY DEF IInv
<1> QED
  BY <1>1, SpecIInv, PTL

\* Scoped accounting for Verifier::verify over a linearizable durable store, for
\* any number of calls and credentials and any tag hash.
THEOREM VerifierScopedAccounting == Spec => []ScopedAccounting
<1>1. IInv => ScopedAccounting
  BY IInvImpliesAccounting
<1> QED
  BY <1>1, SpecIInv, PTL

\* insert_if_absent lets one call through for each storage key.
THEOREM VerifierGrantOnce == Spec => []GrantOnce
<1>1. IInv => GrantOnce
  BY DEF IInv
<1> QED
  BY <1>1, SpecIInv, PTL

\* verify_proof_only ties what it accepts to the challenge in full, and to a
\* credential of that issuer and context.
THEOREM VerifierPolicyBound == Spec => []PolicyBound
<1>1. IInv => PolicyBound
  BY IInvImpliesPolicyBound
<1> QED
  BY <1>1, SpecIInv, PTL

\* Only verified presentations consume storage: verify_proof_only runs before
\* insert_if_absent.
THEOREM VerifierStoreJustified == Spec => []StoreJustified
<1>1. IInv => StoreJustified
  BY DEF IInv
<1> QED
  BY <1>1, SpecIInv, PTL

\* A duplicate shares its scope and its tag with the owner of the stored key.
LEMMA IInvImpliesDuplicatesHonest ==
  ASSUME IInv
  PROVE  DuplicatesHonest
<1> SUFFICES ASSUME NEW c \in Calls, call[c].at = "TagAlreadyUsed"
             PROVE  \E d \in Calls :
                      /\ call[d].at \in {"consumed", "acted", "StorageFailure", "lost"}
                      /\ call[d].scope = call[c].scope
                      /\ call[d].tag = call[c].tag
  BY DEF DuplicatesHonest
<1>1. Key(call[c]) \in store
  BY DEF IInv, StoreOwned
<1>2. PICK d \in Calls : /\ call[d].at \in {"consumed", "acted", "StorageFailure", "lost"}
                        /\ Key(call[d]) = Key(call[c])
  BY <1>1 DEF IInv, StoreOwned
<1> QED
  BY <1>2 DEF Key

\* TagAlreadyUsed is answered only over a tag some call of that scope consumed.
THEOREM VerifierDuplicatesHonest == Spec => []DuplicatesHonest
<1>1. IInv => DuplicatesHonest
  BY IInvImpliesDuplicatesHonest
<1> QED
  BY <1>1, SpecIInv, PTL

\* Initially nothing is authorised in the abstract rate limit either.
LEMMA RefinementInit == Init => RateLimit!Init
BY DEF Init, RateLimit!Init, ledger, Idle

\* Acting redeems the unit of the call's witness; other steps stutter.
LEMMA RefinementStep ==
  ASSUME IInv, [Next]_vars
  PROVE  [RateLimit!Next]_ledger
<1>1. CASE UNCHANGED vars
  BY <1>1 DEF vars, ledger
<1>2. ASSUME NEW c \in Calls, Accept(c) \/ Reject(c) PROVE UNCHANGED ledger
  <2>1. call[c] = Idle /\ \A d \in Calls : d # c => call'[d] = call[d]
    BY <1>2 DEF Accept, Reject, IInv, TypeOK
  <2>2. call'[c].at # "acted"
    <3>1. CASE Reject(c)
      BY <3>1 DEF Reject, Refused, IInv, TypeOK
    <3>2. CASE Accept(c)
      BY <3>2 DEF Accept, Verified, IInv, TypeOK
    <3> QED
      BY <1>2, <3>1, <3>2
  <2> QED
    BY <2>1, <2>2 DEF ledger, Idle
<1>3. ASSUME NEW c \in Calls,
             Consume(c) \/ Duplicate(c) \/ StoreFails(c) \/ Crash(c)
      PROVE  UNCHANGED ledger
  <2>1. /\ call[c].at \in {"verified", "consumed"}
        /\ \/ Move(c, "consumed") \/ Move(c, "TagAlreadyUsed")
           \/ Move(c, "StorageFailure") \/ Move(c, "lost")
    BY <1>3 DEF Consume, Duplicate, StoreFails, Crash
  <2>2. /\ call'[c].at # "acted"
        /\ \A d \in Calls : d # c => call'[d] = call[d]
    BY <2>1, MoveEffect DEF IInv, Steps
  <2> QED
    BY <2>1, <2>2 DEF ledger
<1>4. ASSUME NEW c \in Calls, Act(c) PROVE RateLimit!Next
  <2> DEFINE s == call[c].scope
             u == Unit(call[c])
  <2>1. /\ c \in Granted
        /\ call[c].at = "consumed"
        /\ call[c].at \in Steps
        /\ Move(c, "acted")
    BY <1>4 DEF Act, Granted, Steps
  <2>2. call[c] \in Stages /\ Sound(call[c])
    BY <2>1, GrantedSound
  <2>3. call[c].issuer \in Issuers /\ call[c].challenge \in Challenges
    BY <2>2 DEF Stages
  <2>4. /\ s \in Scopes
        /\ call[c].witness.secret \in Holders[s]
    BY <2>2, <2>3, ScopeFacts DEF Sound, Holders
  <2>5. /\ call[c].challenge.limit \in 1..U32Max
        /\ call[c].witness.presentation_nonce \in 0..U32Max
        /\ call[c].witness.presentation_nonce < call[c].challenge.limit
    BY <2>2, <2>3, ChallengeFacts, U32MaxAssumption DEF Sound
  <2>6. /\ call'[c].at = "acted"
        /\ Unit(call'[c]) = u
        /\ \A d \in Calls : d # c => call'[d] = call[d]
    <3>1. call' = [call EXCEPT ![c].at = "acted"]
      BY <2>1 DEF Move
    <3>2. call'[c] = [call[c] EXCEPT !.at = "acted"]
      BY <3>1 DEF IInv, TypeOK
    <3> QED
      BY <2>2, <3>1, <3>2 DEF Unit, Stages, IInv, TypeOK
  <2>7. ledger[c] = {}
    BY <2>1 DEF ledger
  <2>8. ledger' = [ledger EXCEPT ![c] = {u}]
    BY <2>6 DEF ledger
  <2>9. \A v \in RateLimit!Redeemed : ~RateLimit!SameUnit(u, v)
    <3> SUFFICES ASSUME NEW d \in Calls, NEW v \in ledger[d], RateLimit!SameUnit(u, v)
                 PROVE  FALSE
      BY DEF RateLimit!Redeemed
    <3>1. call[d].at = "acted" /\ v = Unit(call[d])
      BY DEF ledger
    <3>2. d \in Granted /\ d # c
      BY <2>1, <3>1 DEF Granted
    <3>3. Sound(call[d])
      BY <3>2, GrantedSound
    <3>4. /\ call[c].scope = call[d].scope
          /\ call[c].witness.secret = call[d].witness.secret
          /\ call[c].witness.presentation_nonce = call[d].witness.presentation_nonce
      BY <3>1 DEF RateLimit!SameUnit, Unit
    <3>5. Key(call[c]) = Key(call[d])
      BY <2>2, <3>3, <3>4 DEF Sound, Key
    <3> QED
      BY <2>1, <3>2, <3>5 DEF IInv, GrantOnce
  <2>10. u = [scope |-> s, lineage |-> call[c].witness.secret,
              nonce |-> call[c].witness.presentation_nonce,
              limit |-> call[c].challenge.limit]
    BY DEF Unit
  <2> HIDE DEF s, u
  <2>11. RateLimit!Redeem(c, u)
    BY <2>5, <2>7, <2>8, <2>9, <2>10 DEF RateLimit!Redeem
  <2> QED
    BY <2>4, <2>5, <2>10, <2>11 DEF RateLimit!Next
<1> QED
  BY <1>1, <1>2, <1>3, <1>4 DEF Next

\* Every behaviour of the verifier, with crashes, store failures and races, is
\* one of the abstract rate limit.
THEOREM VerifierRefinesRateLimit == Spec => RefinesRateLimit
<1>1. Init => RateLimit!Init
  BY RefinementInit
<1>2. IInv /\ [Next]_vars => [RateLimit!Next]_ledger
  BY RefinementStep
<1> QED
  BY <1>1, <1>2, SpecIInv, PTL DEF Spec, RefinesRateLimit, RateLimit!Spec

-----------------------------------------------------------------------------
(* The holder: the codecs.                                                 *)

\* The parts of a credential.
LEMMA CredentialShape ==
  ASSUME NEW c \in Credentials
  PROVE  /\ c.body = Body
         /\ DOMAIN c.next_nonces \subseteq PresentationContexts
         /\ c.next_nonces \in [DOMAIN c.next_nonces -> 1..U32Max]
         /\ c.next_nonces \in [DOMAIN c.next_nonces -> 0..U32Max]
         /\ c = [body |-> Body, next_nonces |-> c.next_nonces]
         /\ c # NoCredential
<1>1. /\ c = [body |-> c.body, next_nonces |-> c.next_nonces]
      /\ c.body = Body
      /\ c.next_nonces \in CounterMaps
  BY DEF Credentials
<1>2. PICK C \in SUBSET PresentationContexts : c.next_nonces \in [C -> 1..U32Max]
  BY <1>1 DEF CounterMaps
<1>3. c # NoCredential
  <2>1. DOMAIN c = {"body", "next_nonces"}
    BY <1>1
  <2>2. DOMAIN NoCredential = {"absent"}
    BY DEF NoCredential
  <2> QED
    BY <2>1, <2>2
<1> QED
  BY <1>1, <1>2, <1>3

\* Any body-and-counters pair is a credential.
LEMMA CredentialFrom ==
  ASSUME NEW C \in SUBSET PresentationContexts, NEW f \in [C -> 1..U32Max]
  PROVE  [body |-> Body, next_nonces |-> f] \in Credentials
BY DEF Credentials, CounterMaps

\* from_bytes inverts to_bytes.
LEMMA RoundTrip ==
  ASSUME NEW c \in Credentials
  PROVE  /\ from_bytes(to_bytes(c)) = c
         /\ to_bytes(c) \in Snapshots
         /\ to_bytes(c).body = Body
<1> DEFINE D == DOMAIN c.next_nonces
           nn == c.next_nonces
           R == {<<x, nn[x]>> : x \in D}
           g == [x \in {r[1] : r \in R} |-> CHOOSE n \in 0..U32Max : <<x, n>> \in R]
<1>1. /\ c = [body |-> Body, next_nonces |-> nn]
      /\ nn \in [D -> 0..U32Max]
  BY CredentialShape
<1>2. to_bytes(c) = [body |-> Body, records |-> R]
  <2>1. c.body = Body
    BY CredentialShape
  <2> QED
    BY <2>1 DEF to_bytes
<1>3. {r[1] : r \in R} = D
  <2>1. \A x \in D : <<x, nn[x]>> \in R /\ <<x, nn[x]>>[1] = x
    OBVIOUS
  <2>2. \A r \in R : r[1] \in D
    OBVIOUS
  <2> HIDE DEF R
  <2> QED
    BY <2>1, <2>2
<1>4. \A x \in D : \A n : <<x, n>> \in R <=> n = nn[x]
  OBVIOUS
<1>5. \A x \in D : (CHOOSE n \in 0..U32Max : <<x, n>> \in R) = nn[x]
  <2> SUFFICES ASSUME NEW x \in D
               PROVE  (CHOOSE n \in 0..U32Max : <<x, n>> \in R) = nn[x]
    OBVIOUS
  <2>1. nn[x] \in 0..U32Max /\ <<x, nn[x]>> \in R
    BY <1>1
  <2> HIDE DEF R
  <2>2. \A n \in 0..U32Max : <<x, n>> \in R => n = nn[x]
    BY <1>4
  <2> QED
    BY <2>1, <2>2
<1>6. g = nn
  <2> HIDE DEF R
  <2>1. DOMAIN g = D /\ \A x \in D : g[x] = nn[x]
    BY <1>3, <1>5
  <2> QED
    BY <1>1, <1>3, <2>1
<1>7. from_bytes(to_bytes(c)) = [body |-> Body, next_nonces |-> g]
  <2> HIDE DEF R
  <2> QED
    BY <1>2 DEF from_bytes
<1> QED
  BY <1>1, <1>2, <1>6, <1>7 DEF Snapshots

\* from_bytes accepts what to_bytes makes of a well-formed credential.
LEMMA WellFormedDecodes ==
  ASSUME NEW c, WellFormed(c)
  PROVE  Decodes(Body.issuer_context, to_bytes(c))
<1> DEFINE D == DOMAIN c.next_nonces
           R == to_bytes(c).records
           f == [x \in D |-> <<x, c.next_nonces[x]>>]
<1>1. R = {<<x, c.next_nonces[x]>> : x \in D} /\ to_bytes(c).body = Body
  BY RoundTrip DEF to_bytes, WellFormed
<1>2. f \in Surjection(D, R)
  BY <1>1 DEF Surjection
<1>3. Cardinality(R) <= MAX_PRESENTATION_CONTEXTS
  <2>1. /\ IsFiniteSet(D)
        /\ Cardinality(D) <= MAX_PRESENTATION_CONTEXTS
    BY DEF WellFormed, context_count
  <2> HIDE DEF f, R, D
  <2>2. IsFiniteSet(R) /\ Cardinality(R) <= Cardinality(D)
    BY <1>2, <2>1, FS_Surjection
  <2>3. Cardinality(R) \in Nat /\ Cardinality(D) \in Nat
    BY <2>1, <2>2, FS_CardinalityType
  <2> QED
    BY <2>1, <2>2, <2>3, MaxContextsAssumption
<1>4. Canonical(R)
  <2>1. \A r, s \in R : r[1] = s[1] => r = s
    BY <1>1
  <2>2. \A r \in R : r[2] # 0
    <3>1. c.next_nonces \in [D -> 1..U32Max]
      BY CredentialShape DEF WellFormed
    <3> QED
      BY <1>1, <3>1
  <2> QED
    BY <1>3, <2>1, <2>2 DEF Canonical
<1>5. verify_credential(Body.issuer_context, Body)
  <2>1. PICK i \in Issuers, cc \in CredentialContexts,
             s \in Secrets, h \in HidingNonces, salt \in Salts :
               Body = CredentialBody(i, cc, s, h, salt)
    BY IssuedAssumption, BodyAssumption
  <2> QED
    BY <2>1 DEF CredentialBody, verify_credential, MayoOpens, SignedTarget
<1> QED
  BY <1>1, <1>4, <1>5 DEF Decodes

-----------------------------------------------------------------------------
(* One successful present.                                                 *)

\* What the checks of present leave true of the request.
LEMMA PresentChecks ==
  ASSUME NEW c \in Credentials, NEW public, NEW challenge \in Challenges,
         PresentResult(c, public, challenge) = "Ok"
  PROVE  LET context == challenge.presentation_context IN
         /\ context \in PresentationContexts
         /\ public = Body.issuer_context
         /\ challenge.credential_context = Body.credential_context
         /\ \/ context \in DOMAIN c.next_nonces
            \/ ~(context_count(c) >= MAX_PRESENTATION_CONTEXTS)
         /\ next_nonce(c, context) \in 0..U32Max
         /\ next_nonce(c, context) + 1 \in 1..U32Max
<1> DEFINE context == challenge.presentation_context
<1>1. challenge.limit \in Limits /\ challenge.limit # 0 /\ context \in PresentationContexts
  BY DEF Challenges
<1>2. challenge.limit \in 1..U32Max
  <2>1. U32Max \in Nat
    BY U32MaxAssumption
  <2>2. challenge.limit \in 0..U32Max
    BY <1>1, LimitsAssumption
  <2> QED
    BY <1>1, <2>1, <2>2
<1>3. /\ c.body.issuer_context = public
      /\ c.body.credential_context = challenge.credential_context
      /\ \/ context \in DOMAIN c.next_nonces
         \/ ~(context_count(c) >= MAX_PRESENTATION_CONTEXTS)
      /\ ~(next_nonce(c, context) >= challenge.limit)
  BY DEF PresentResult, NewContext, AtContextBound, LimitReached
<1>4. next_nonce(c, context) \in 0..U32Max
  <2>1. c.next_nonces \in [DOMAIN c.next_nonces -> 0..U32Max]
    BY CredentialShape
  <2>2. 0 \in 0..U32Max
    BY U32MaxAssumption
  <2> QED
    BY <2>1, <2>2 DEF next_nonce
<1>5. next_nonce(c, context) + 1 \in 1..U32Max
  <2>1. U32Max \in Nat
    BY U32MaxAssumption
  <2> HIDE DEF context
  <2> QED
    BY <1>2, <1>3, <1>4, <2>1
<1> QED
  BY <1>1, <1>3, <1>4, <1>5, CredentialShape

\* The counter does not wrap, and no other counter moves.
LEMMA AdvancedEffect ==
  ASSUME NEW c, WellFormed(c), NEW context \in PresentationContexts,
         NEW nonce \in 0..U32Max, nonce + 1 \in 1..U32Max,
         \/ context \in DOMAIN c.next_nonces
         \/ ~(context_count(c) >= MAX_PRESENTATION_CONTEXTS)
  PROVE  LET a == Advanced(c, context, nonce) IN
         /\ WellFormed(a)
         /\ DOMAIN a.next_nonces = DOMAIN c.next_nonces \cup {context}
         /\ a.next_nonces[context] = nonce + 1
         /\ \A x \in DOMAIN c.next_nonces : x # context => a.next_nonces[x] = c.next_nonces[x]
<1> DEFINE a == Advanced(c, context, nonce)
           D == DOMAIN c.next_nonces
           f == [x \in D \cup {context} |->
                   IF x = context THEN u32(nonce + 1) ELSE c.next_nonces[x]]
<1>1. /\ c \in Credentials
      /\ D \subseteq PresentationContexts
      /\ c.next_nonces \in [D -> 1..U32Max]
      /\ c = [body |-> Body, next_nonces |-> c.next_nonces]
      /\ IsFiniteSet(D)
      /\ Cardinality(D) <= MAX_PRESENTATION_CONTEXTS
  BY CredentialShape DEF WellFormed, context_count
<1>2. u32(nonce + 1) = nonce + 1
  <2>1. U32Max \in Nat
    BY U32MaxAssumption
  <2> QED
    BY <2>1 DEF u32
<1>3. a = [body |-> Body, next_nonces |-> f]
  BY <1>1 DEF Advanced
<1>4. f \in [D \cup {context} -> 1..U32Max]
  BY <1>1, <1>2
<1>5. a \in Credentials
  BY <1>1, <1>3, <1>4, CredentialFrom
<1>6. /\ DOMAIN a.next_nonces = D \cup {context}
      /\ a.next_nonces[context] = nonce + 1
      /\ \A x \in D : x # context => a.next_nonces[x] = c.next_nonces[x]
  BY <1>2, <1>3
<1>7. /\ IsFiniteSet(D \cup {context})
      /\ Cardinality(D \cup {context}) <= MAX_PRESENTATION_CONTEXTS
  <2>1. /\ IsFiniteSet(D \cup {context})
        /\ Cardinality(D \cup {context}) =
             IF context \in D THEN Cardinality(D) ELSE Cardinality(D) + 1
    BY <1>1, FS_AddElement
  <2>2. context \in D \/ ~(Cardinality(D) >= MAX_PRESENTATION_CONTEXTS)
    BY DEF context_count
  <2>3. Cardinality(D) \in Nat
    BY <1>1, FS_CardinalityType
  <2> HIDE DEF D
  <2> QED
    BY <1>1, <2>1, <2>2, <2>3, MaxContextsAssumption
<1>8. WellFormed(a)
  <2> HIDE DEF a, D, f
  <2> QED
    BY <1>5, <1>6, <1>7 DEF WellFormed, context_count
<1> QED
  BY <1>6, <1>8

\* next_nonce is a 32-bit counter, and after present it is one higher in the
\* context used and unchanged elsewhere.
LEMMA NextNonceType ==
  ASSUME NEW c \in Credentials, NEW x
  PROVE  next_nonce(c, x) \in 0..U32Max /\ next_nonce(c, x) \in Nat
<1>1. U32Max \in Nat
  BY U32MaxAssumption
<1>2. c.next_nonces \in [DOMAIN c.next_nonces -> 0..U32Max]
  BY CredentialShape
<1> QED
  BY <1>1, <1>2 DEF next_nonce

LEMMA AdvancedNext ==
  ASSUME NEW c, WellFormed(c), NEW context \in PresentationContexts,
         NEW nonce \in 0..U32Max, nonce + 1 \in 1..U32Max,
         \/ context \in DOMAIN c.next_nonces
         \/ ~(context_count(c) >= MAX_PRESENTATION_CONTEXTS)
  PROVE  LET a == Advanced(c, context, nonce) IN
         /\ next_nonce(a, context) = nonce + 1
         /\ \A x : x # context => next_nonce(a, x) = next_nonce(c, x)
BY AdvancedEffect DEF next_nonce

-----------------------------------------------------------------------------
(* The inductive invariant, action by action.                              *)

\* The credential in memory is held, and a held credential is well formed.
LEMMA LiveFacts ==
  ASSUME HolderIInv, live # NoCredential
  PROVE  live \in Held /\ live \in Credentials /\ WellFormed(live)
<1>1. live \in Held
  BY DEF Held
<1>2. WellFormed(live)
  BY <1>1 DEF HolderIInv
<1> QED
  BY <1>1, <1>2 DEF WellFormed

\* The disk holds a snapshot in the archive.
LEMMA DiskFacts ==
  ASSUME HolderIInv
  PROVE  from_bytes(disk) \in Held /\ WellFormed(from_bytes(disk))
<1>1. disk \in archive
  BY DEF HolderIInv, HolderTypeOK
<1>2. from_bytes(disk) \in Held
  BY <1>1 DEF Held
<1> QED
  BY <1>2 DEF HolderIInv

\* Uses are never forgotten, so nonces stay accounted for.
LEMMA MadeInGrows ==
  ASSUME NEW x,
         \A u \in Uses : use[u].at # "unused" =>
           /\ use'[u].at # "unused"
           /\ use'[u].challenge = use[u].challenge
           /\ use'[u].nonce = use[u].nonce
  PROVE  MadeIn(x) \subseteq MadeIn(x)'
BY DEF MadeIn

\* A use that moves keeps its challenge, nonce and tag.
LEMMA ShiftEffect ==
  ASSUME use \in [Uses -> UseRecords \cup {Unused}],
         NEW from \in {"made", "saved"}, NEW to \in {"saved", "sent", "lost"}, Shift(from, to)
  PROVE  /\ use' \in [Uses -> UseRecords \cup {Unused}]
         /\ \A u \in Uses : use[u].at # from => use'[u] = use[u]
         /\ \A u \in Uses : use[u].at = from => /\ use'[u].at = to
                                                /\ use'[u].challenge = use[u].challenge
                                                /\ use'[u].nonce = use[u].nonce
                                                /\ use'[u].tag = use[u].tag
<1>1. \A u \in Uses : use[u].at = from => use[u] \in UseRecords
  BY DEF Unused
<1>2. \A u \in Uses : use'[u] = IF use[u].at = from THEN [use[u] EXCEPT !.at = to] ELSE use[u]
  BY DEF Shift
<1>3. \A u \in Uses : use[u].at = from =>
        /\ use'[u] \in UseRecords
        /\ use'[u].at = to
        /\ use'[u].challenge = use[u].challenge
        /\ use'[u].nonce = use[u].nonce
        /\ use'[u].tag = use[u].tag
  BY <1>1, <1>2 DEF UseRecords
<1>4. use' \in [Uses -> UseRecords \cup {Unused}]
  BY <1>2, <1>3 DEF Shift
<1> QED
  BY <1>2, <1>3, <1>4

\* Steps that leave memory and snapshots as they were, or drop the memory, or
\* fill it from the disk, hold no new credential.
LEMMA HeldShrinks ==
  ASSUME HolderIInv, archive' = archive,
         live' = live \/ live' = NoCredential \/ live' = from_bytes(disk),
         \A u \in Uses : use[u].at # "unused" =>
           /\ use'[u].at # "unused"
           /\ use'[u].challenge = use[u].challenge
           /\ use'[u].nonce = use[u].nonce
  PROVE  /\ \A c \in Held' : c \in Held
         /\ \A c \in Held' : WellFormed(c)
         /\ CountersAccounted'
         /\ live' \in Credentials \cup {NoCredential}
<1>1. from_bytes(disk) \in Held /\ WellFormed(from_bytes(disk))
  BY DiskFacts
<1>2. \A c \in Held' : c \in Held
  BY <1>1 DEF Held
<1>3. \A x : MadeIn(x) \subseteq MadeIn(x)'
  BY MadeInGrows
<1>4. CountersAccounted'
  BY <1>2, <1>3 DEF HolderIInv, CountersAccounted
<1>5. live' \in Credentials \cup {NoCredential}
  BY <1>1 DEF HolderIInv, HolderTypeOK, WellFormed
<1> QED
  BY <1>2, <1>4, <1>5 DEF HolderIInv

\* A fresh credential is well formed and holds the invariant.
LEMMA HolderIInvInit == HolderInit => HolderIInv
<1> SUFFICES ASSUME HolderInit PROVE HolderIInv
  OBVIOUS
<1>1. /\ Fresh \in Credentials
      /\ DOMAIN Fresh.next_nonces = {}
  BY CredentialFrom DEF Fresh
<1>2. WellFormed(Fresh)
  <2>1. IsFiniteSet({}) /\ Cardinality({}) = 0
    BY FS_EmptySet
  <2> QED
    BY <1>1, <2>1, MaxContextsAssumption DEF WellFormed, context_count
<1>3. from_bytes(disk) = Fresh /\ to_bytes(Fresh) \in Snapshots
  BY <1>1, RoundTrip DEF HolderInit
<1>4. Held = {Fresh}
  BY <1>3, <1>1, CredentialShape DEF HolderInit, Held
<1>5. HolderTypeOK
  BY <1>1, <1>3 DEF HolderInit, HolderTypeOK
<1>6. CountersAccounted
  BY <1>1, <1>4 DEF CountersAccounted
<1>7. UsesSound
  BY DEF HolderInit, UsesSound, Unused
<1>8. InOrder
  <2>1. \A u \in Uses : use[u].at = "unused"
    BY DEF HolderInit, Unused
  <2>2. NoRegress(Fresh, Fresh)
    <3>1. \A x : next_nonce(Fresh, x) \in Nat
      BY <1>1, NextNonceType
    <3> QED
      BY <3>1 DEF NoRegress
  <2>3. live # NoCredential
    BY <1>1, CredentialShape DEF HolderInit
  <2> QED
    BY <1>3, <2>1, <2>2, <2>3 DEF InOrder, Covers, NoNonceTwice, HolderInit
<1> QED
  BY <1>2, <1>4, <1>5, <1>6, <1>7, <1>8 DEF HolderIInv

\* A successful present.
LEMMA PresentStep ==
  ASSUME HolderIInv, NEW u \in Uses, NEW public \in Issuers, NEW challenge \in Challenges,
         Present(u, public, challenge)
  PROVE  HolderIInv'
<1> DEFINE context == challenge.presentation_context
           nonce == next_nonce(live, context)
           tag == derive_tag(live.body.secret, ScopeOf(public, challenge), nonce)
<1>1. /\ live # NoCredential
      /\ use[u] = Unused
      /\ PresentResult(live, public, challenge) = "Ok"
      /\ live' = Advanced(live, context, nonce)
      /\ use' = [use EXCEPT ![u] = Used(challenge, nonce, tag)]
      /\ disk' = disk /\ archive' = archive /\ rolled_back' = rolled_back
  BY DEF Present
<1>2. live \in Held /\ live \in Credentials /\ WellFormed(live)
  BY <1>1, LiveFacts
<1>3. /\ context \in PresentationContexts
      /\ public = Body.issuer_context
      /\ challenge.credential_context = Body.credential_context
      /\ \/ context \in DOMAIN live.next_nonces
         \/ ~(context_count(live) >= MAX_PRESENTATION_CONTEXTS)
      /\ nonce \in 0..U32Max
      /\ nonce + 1 \in 1..U32Max
      /\ nonce \in Nat
  BY <1>1, <1>2, PresentChecks, NextNonceType
<1>4. tag = derive_tag(Body.secret, ScopeOf(Body.issuer_context, challenge), nonce)
  BY <1>2, <1>3, CredentialShape
<1>5. tag \in OwnTags
  <2>1. ScopeOf(public, challenge) \in Scopes
    BY <1>3 DEF ScopeOf, Scopes, Challenges
  <2> QED
    BY <1>3, <1>4, <2>1 DEF OwnTags
<1> HIDE DEF context, nonce, tag
<1>6. /\ WellFormed(live')
      /\ DOMAIN live'.next_nonces = DOMAIN live.next_nonces \cup {context}
      /\ live'.next_nonces[context] = nonce + 1
      /\ \A x \in DOMAIN live.next_nonces :
           x # context => live'.next_nonces[x] = live.next_nonces[x]
  BY <1>1, <1>2, <1>3, AdvancedEffect
<1>7. /\ next_nonce(live', context) = nonce + 1
      /\ \A x : x # context => next_nonce(live', x) = next_nonce(live, x)
  BY <1>1, <1>2, <1>3, AdvancedNext
<1>8. /\ use'[u] = Used(challenge, nonce, tag)
      /\ \A v \in Uses : v # u => use'[v] = use[v]
  BY <1>1 DEF HolderIInv, HolderTypeOK
<1>9. /\ use[u].at = "unused"
      /\ use'[u].at = "made" /\ use'[u].nonce = nonce
      /\ use'[u].challenge = challenge /\ use'[u].tag = tag
      /\ use'[u] \in UseRecords
  BY <1>1, <1>3, <1>5, <1>8 DEF Used, Unused, UseRecords
<1>10. HolderTypeOK'
  <2>1. live' \in Credentials
    BY <1>6 DEF WellFormed
  <2>2. use' \in [Uses -> UseRecords \cup {Unused}]
    BY <1>1, <1>8, <1>9 DEF HolderIInv, HolderTypeOK
  <2> QED
    BY <1>1, <2>1, <2>2 DEF HolderIInv, HolderTypeOK
<1>11. \A c \in Held' : c \in Held \/ c = live'
  BY <1>1 DEF Held
<1>12. \A c \in Held' : WellFormed(c)
  BY <1>6, <1>11 DEF HolderIInv
<1>13. \A x : MadeIn(x) \subseteq MadeIn(x)'
  BY <1>8, <1>9, MadeInGrows
<1>14. nonce \in MadeIn(context)'
  BY <1>9 DEF MadeIn, context
<1>15. CountersAccounted'
  <2> SUFFICES ASSUME NEW c \in Held', NEW x \in DOMAIN c.next_nonces
               PROVE  0..(c.next_nonces[x] - 1) \subseteq MadeIn(x)'
    BY DEF CountersAccounted
  <2>1. CASE c \in Held
    BY <1>13, <2>1 DEF HolderIInv, CountersAccounted
  <2>2. CASE c = live' /\ x # context
    BY <1>2, <1>6, <1>13, <2>2 DEF HolderIInv, CountersAccounted
  <2>3. CASE c = live' /\ x = context
    <3>1. c.next_nonces[x] - 1 = nonce
      BY <1>3, <1>6, <2>3
    <3>2. 0..(nonce - 1) \subseteq MadeIn(context)
      <4>1. CASE context \in DOMAIN live.next_nonces
        BY <1>2, <4>1 DEF HolderIInv, CountersAccounted, nonce, next_nonce
      <4>2. CASE context \notin DOMAIN live.next_nonces
        <5>1. nonce = 0
          BY <4>2 DEF nonce, next_nonce
        <5> QED
          BY <5>1
      <4> QED
        BY <4>1, <4>2
    <3>3. 0..nonce \subseteq 0..(nonce - 1) \cup {nonce}
      BY <1>3
    <3> QED
      BY <1>13, <1>14, <2>3, <3>1, <3>2, <3>3
  <2> QED
    BY <1>11, <2>1, <2>2, <2>3
<1>16. UsesSound'
  BY <1>3, <1>4, <1>8, <1>9 DEF HolderIInv, UsesSound
<1>17. ASSUME ~rolled_back' PROVE InOrder'
  <2>1. InOrder
    BY <1>1, <1>17 DEF HolderIInv
  <2>2. from_bytes(disk) \in Credentials
    BY DiskFacts DEF WellFormed
  <2>3. \A x : /\ next_nonce(live, x) \in Nat
               /\ next_nonce(live', x) \in Nat
               /\ next_nonce(from_bytes(disk), x) \in Nat
               /\ next_nonce(live, x) <= next_nonce(live', x)
    <3>1. live' \in Credentials
      BY <1>6 DEF WellFormed
    <3>2. \A x : /\ next_nonce(live, x) \in Nat
                 /\ next_nonce(live', x) \in Nat
                 /\ next_nonce(from_bytes(disk), x) \in Nat
      BY <1>2, <2>2, <3>1, NextNonceType
    <3>3. next_nonce(live, context) <= next_nonce(live', context)
      BY <1>3, <1>7 DEF nonce
    <3>4. \A x : x # context => next_nonce(live, x) <= next_nonce(live', x)
      BY <1>7, <3>2
    <3> QED
      BY <3>2, <3>3, <3>4
  <2>4. \A v \in Uses : v # u /\ use[v].at # "unused" => use[v].nonce \in Nat
    BY U32MaxAssumption DEF HolderIInv, HolderTypeOK, UseRecords, Unused
  <2>5. Covers(from_bytes(disk), {"saved", "sent"})'
    BY <1>1, <1>8, <1>9, <2>1 DEF InOrder, Covers
  <2>6. Covers(live, {"made", "saved", "sent"})'
    <3> SUFFICES ASSUME NEW v \in Uses, use'[v].at \in {"made", "saved", "sent"}
                 PROVE  use'[v].nonce < next_nonce(live', use'[v].challenge.presentation_context)
      BY DEF Covers
    <3>1. CASE v = u
      BY <1>3, <1>7, <1>9, <3>1 DEF context
    <3>2. CASE v # u
      <4>1. /\ use'[v] = use[v]
            /\ use[v].nonce < next_nonce(live, use[v].challenge.presentation_context)
        BY <1>1, <1>8, <2>1, <3>2 DEF InOrder, Covers
      <4> QED
        BY <2>3, <2>4, <3>2, <4>1
    <3> QED
      BY <3>1, <3>2
  <2>7. NoRegress(from_bytes(disk), live)'
    BY <1>1, <2>1, <2>3 DEF InOrder, NoRegress
  <2>8. NoNonceTwice'
    <3>1. \A v \in Uses :
            /\ v # u
            /\ use[v].at \in {"made", "saved", "sent"}
            /\ use[v].challenge.presentation_context = context
            => use[v].nonce # nonce
      BY <1>1, <1>3, <2>1, <2>4 DEF InOrder, Covers, nonce
    <3> QED
      BY <1>8, <1>9, <2>1, <3>1 DEF InOrder, NoNonceTwice, context
  <2>9. live' # NoCredential
    BY <1>6, CredentialShape DEF WellFormed
  <2> QED
    BY <2>5, <2>6, <2>7, <2>8, <2>9 DEF InOrder
<1> QED
  BY <1>10, <1>12, <1>15, <1>16, <1>17 DEF HolderIInv

\* Sealing the credential: the disk catches up with the memory.
LEMMA SaveStep ==
  ASSUME HolderIInv, Save
  PROVE  HolderIInv'
<1>1. /\ live # NoCredential /\ live' = live
      /\ disk' = to_bytes(live)
      /\ archive' = archive \cup {to_bytes(live)}
      /\ rolled_back' = rolled_back
      /\ Shift("made", "saved")
  BY DEF Save
<1>2. live \in Held /\ live \in Credentials /\ WellFormed(live)
  BY <1>1, LiveFacts
<1>3. from_bytes(to_bytes(live)) = live /\ to_bytes(live) \in Snapshots
  BY <1>2, RoundTrip
<1>4. /\ use' \in [Uses -> UseRecords \cup {Unused}]
      /\ \A u \in Uses : use[u].at # "made" => use'[u] = use[u]
      /\ \A u \in Uses : use[u].at = "made" => /\ use'[u].at = "saved"
                                               /\ use'[u].challenge = use[u].challenge
                                               /\ use'[u].nonce = use[u].nonce
                                               /\ use'[u].tag = use[u].tag
  BY <1>1, ShiftEffect DEF HolderIInv, HolderTypeOK
<1>5. \A c \in Held' : c \in Held
  BY <1>1, <1>2, <1>3 DEF Held
<1>6. \A x : MadeIn(x) \subseteq MadeIn(x)'
  BY <1>4, MadeInGrows
<1>7. HolderTypeOK'
  BY <1>1, <1>3, <1>4 DEF HolderIInv, HolderTypeOK
<1>8. CountersAccounted'
  BY <1>5, <1>6 DEF HolderIInv, CountersAccounted
<1>9. UsesSound'
  BY <1>4 DEF HolderIInv, UsesSound
<1>10. ASSUME ~rolled_back' PROVE InOrder'
  <2>1. InOrder
    BY <1>1, <1>10 DEF HolderIInv
  <2>2. \A u \in Uses : use'[u].at \in {"made", "saved", "sent"} =>
          /\ use[u].at \in {"made", "saved", "sent"}
          /\ use'[u].challenge = use[u].challenge
          /\ use'[u].nonce = use[u].nonce
    BY <1>4
  <2>3. Covers(live, {"made", "saved", "sent"})'
    BY <1>1, <2>1, <2>2 DEF InOrder, Covers
  <2>4. Covers(from_bytes(disk), {"saved", "sent"})'
    BY <1>1, <1>3, <2>3 DEF Covers
  <2>5. NoRegress(from_bytes(disk), live)'
    <3>1. \A x : next_nonce(live, x) \in Nat
      BY <1>2, NextNonceType
    <3> QED
      BY <1>1, <1>3, <3>1 DEF NoRegress
  <2>6. NoNonceTwice'
    BY <2>1, <2>2 DEF InOrder, NoNonceTwice
  <2> QED
    BY <1>1, <2>3, <2>4, <2>5, <2>6 DEF InOrder
<1> QED
  BY <1>5, <1>7, <1>8, <1>9, <1>10 DEF HolderIInv

\* Sending what a save covers.
LEMMA TransmitStep ==
  ASSUME HolderIInv, NEW t \in Uses, Transmit(t)
  PROVE  HolderIInv'
<1>1. /\ use[t].at = "saved"
      /\ use' = [use EXCEPT ![t].at = "sent"]
      /\ live' = live /\ disk' = disk /\ archive' = archive /\ rolled_back' = rolled_back
  BY DEF Transmit
<1>2. use[t] \in UseRecords
  BY <1>1 DEF HolderIInv, HolderTypeOK, Unused
<1>3. /\ use'[t] = [use[t] EXCEPT !.at = "sent"]
      /\ \A u \in Uses : u # t => use'[u] = use[u]
  BY <1>1 DEF HolderIInv, HolderTypeOK
<1>4. /\ use'[t] \in UseRecords
      /\ use'[t].at = "sent"
      /\ use'[t].challenge = use[t].challenge
      /\ use'[t].nonce = use[t].nonce
      /\ use'[t].tag = use[t].tag
  BY <1>2, <1>3 DEF UseRecords
<1>5. use' \in [Uses -> UseRecords \cup {Unused}]
  BY <1>1, <1>3, <1>4 DEF HolderIInv, HolderTypeOK
<1>6. \A u \in Uses : /\ use'[u].challenge = use[u].challenge
                      /\ use'[u].nonce = use[u].nonce
                      /\ use'[u].tag = use[u].tag
                      /\ use[u].at # "unused" => use'[u].at # "unused"
                      /\ use'[u].at # "unused" => use[u].at # "unused"
                      /\ use'[u].at = "made" => use[u].at = "made"
                      /\ use'[u].at \in {"saved", "sent"} => use[u].at \in {"saved", "sent"}
  <2> SUFFICES ASSUME NEW u \in Uses
               PROVE  /\ use'[u].challenge = use[u].challenge
                      /\ use'[u].nonce = use[u].nonce
                      /\ use'[u].tag = use[u].tag
                      /\ use[u].at # "unused" => use'[u].at # "unused"
                      /\ use'[u].at # "unused" => use[u].at # "unused"
                      /\ use'[u].at = "made" => use[u].at = "made"
                      /\ use'[u].at \in {"saved", "sent"} => use[u].at \in {"saved", "sent"}
    OBVIOUS
  <2>1. CASE u = t
    BY <1>1, <1>4, <2>1
  <2>2. CASE u # t
    BY <1>3, <2>2
  <2> QED
    BY <2>1, <2>2
<1>7. /\ \A c \in Held' : WellFormed(c)
      /\ CountersAccounted'
      /\ live' \in Credentials \cup {NoCredential}
  BY <1>1, <1>6, HeldShrinks
<1>8. HolderTypeOK'
  BY <1>1, <1>5, <1>7 DEF HolderIInv, HolderTypeOK
<1>9. UsesSound'
  BY <1>6 DEF HolderIInv, UsesSound
<1>10. ASSUME ~rolled_back' PROVE InOrder'
  <2>1. InOrder
    BY <1>1, <1>10 DEF HolderIInv
  <2>2. Covers(from_bytes(disk), {"saved", "sent"})'
    BY <1>1, <1>6, <2>1 DEF InOrder, Covers
  <2>3. live # NoCredential => /\ Covers(live, {"made", "saved", "sent"})'
                              /\ NoRegress(from_bytes(disk), live)'
    BY <1>1, <1>6, <2>1 DEF InOrder, Covers, NoRegress
  <2>4. live = NoCredential => \A u \in Uses : use'[u].at # "made"
    BY <1>6, <2>1 DEF InOrder
  <2>5. NoNonceTwice'
    BY <1>6, <2>1 DEF InOrder, NoNonceTwice
  <2> QED
    BY <1>1, <2>2, <2>3, <2>4, <2>5 DEF InOrder
<1> QED
  BY <1>7, <1>8, <1>9, <1>10 DEF HolderIInv

\* Losing the memory, and the presentations no save covers.
LEMMA CrashStep ==
  ASSUME HolderIInv, CrashHolder
  PROVE  HolderIInv'
<1>1. /\ live' = NoCredential
      /\ disk' = disk /\ archive' = archive /\ rolled_back' = rolled_back
      /\ Shift("made", "lost")
  BY DEF CrashHolder
<1>2. /\ use' \in [Uses -> UseRecords \cup {Unused}]
      /\ \A u \in Uses : use[u].at # "made" => use'[u] = use[u]
      /\ \A u \in Uses : use[u].at = "made" => /\ use'[u].at = "lost"
                                               /\ use'[u].challenge = use[u].challenge
                                               /\ use'[u].nonce = use[u].nonce
                                               /\ use'[u].tag = use[u].tag
  BY <1>1, ShiftEffect DEF HolderIInv, HolderTypeOK
<1>3. /\ \A c \in Held' : WellFormed(c)
      /\ CountersAccounted'
      /\ live' \in Credentials \cup {NoCredential}
  BY <1>1, <1>2, HeldShrinks
<1>4. HolderTypeOK'
  BY <1>1, <1>2, <1>3 DEF HolderIInv, HolderTypeOK
<1>5. UsesSound'
  BY <1>2 DEF HolderIInv, UsesSound
<1>6. ASSUME ~rolled_back' PROVE InOrder'
  <2>1. InOrder
    BY <1>1, <1>6 DEF HolderIInv
  <2>2. \A u \in Uses : use'[u].at \in {"made", "saved", "sent"} =>
          use[u].at # "made" /\ use'[u] = use[u]
    BY <1>2
  <2>3. Covers(from_bytes(disk), {"saved", "sent"})'
    BY <1>1, <2>1, <2>2 DEF InOrder, Covers
  <2>4. NoNonceTwice'
    BY <2>1, <2>2 DEF InOrder, NoNonceTwice
  <2>5. \A u \in Uses : use'[u].at # "made"
    BY <2>2
  <2> QED
    BY <1>1, <2>3, <2>4, <2>5 DEF InOrder
<1> QED
  BY <1>3, <1>4, <1>5, <1>6 DEF HolderIInv

\* Restarting from the disk: what it holds covers all that left.
LEMMA RestartStep ==
  ASSUME HolderIInv, NEW public \in Issuers, Restart(public)
  PROVE  HolderIInv'
<1>1. /\ live = NoCredential /\ live' = from_bytes(disk)
      /\ disk' = disk /\ archive' = archive /\ use' = use /\ rolled_back' = rolled_back
  BY DEF Restart
<1>2. /\ \A c \in Held' : WellFormed(c)
      /\ CountersAccounted'
      /\ live' \in Credentials \cup {NoCredential}
  BY <1>1, HeldShrinks
<1>3. HolderTypeOK'
  BY <1>1, <1>2 DEF HolderIInv, HolderTypeOK
<1>4. UsesSound'
  BY <1>1 DEF HolderIInv, UsesSound
<1>5. ASSUME ~rolled_back' PROVE InOrder'
  <2>1. InOrder
    BY <1>1, <1>5 DEF HolderIInv
  <2>2. from_bytes(disk) \in Credentials /\ live' # NoCredential
    BY <1>1, DiskFacts, CredentialShape DEF WellFormed
  <2>3. Covers(live, {"made", "saved", "sent"})'
    BY <1>1, <2>1 DEF InOrder, Covers
  <2>4. NoRegress(from_bytes(disk), live)'
    <3>1. \A x : next_nonce(from_bytes(disk), x) \in Nat
      BY <2>2, NextNonceType
    <3> QED
      BY <1>1, <3>1 DEF NoRegress
  <2>5. Covers(from_bytes(disk), {"saved", "sent"})' /\ NoNonceTwice'
    BY <1>1, <2>1 DEF InOrder, Covers, NoNonceTwice
  <2> QED
    BY <2>2, <2>3, <2>4, <2>5 DEF InOrder
<1> QED
  BY <1>2, <1>3, <1>4, <1>5 DEF HolderIInv

\* A rollback keeps everything but the order of disk and memory.
LEMMA RollbackStep ==
  ASSUME HolderIInv, Rollback
  PROVE  HolderIInv'
<1>1. /\ live = NoCredential
      /\ disk' \in archive
      /\ rolled_back' = (rolled_back \/ disk' # disk)
      /\ live' = live /\ archive' = archive /\ use' = use
  BY DEF Rollback
<1>2. /\ \A c \in Held' : WellFormed(c)
      /\ CountersAccounted'
      /\ live' \in Credentials \cup {NoCredential}
  BY <1>1, HeldShrinks
<1>3. HolderTypeOK'
  <2>1. rolled_back' \in BOOLEAN
    BY <1>1
  <2> QED
    BY <1>1, <1>2, <2>1 DEF HolderIInv, HolderTypeOK
<1>4. UsesSound'
  BY <1>1 DEF HolderIInv, UsesSound
<1>5. ASSUME ~rolled_back' PROVE InOrder'
  <2>1. ~rolled_back /\ disk' = disk
    BY <1>1, <1>5
  <2>2. InOrder
    BY <2>1 DEF HolderIInv
  <2> QED
    BY <1>1, <2>1, <2>2 DEF InOrder, Covers, NoRegress, NoNonceTwice
<1> QED
  BY <1>2, <1>3, <1>4, <1>5 DEF HolderIInv

\* HolderIInv is inductive.
LEMMA HolderIInvStep ==
  ASSUME HolderIInv, [HolderNext]_holder_vars
  PROVE  HolderIInv'
<1>1. CASE UNCHANGED holder_vars
  BY <1>1 DEF holder_vars, HolderIInv, HolderTypeOK, Held, CountersAccounted, MadeIn, UsesSound, InOrder,
              Covers, NoRegress, NoNonceTwice
<1>2. ASSUME NEW public \in Issuers, NEW challenge \in Challenges,
             Refuse(public, challenge) \/ ProofFails(public, challenge)
      PROVE  UNCHANGED holder_vars
  BY <1>2 DEF Refuse, ProofFails
<1>3. CASE HolderNext
  BY <1>1, <1>2, <1>3, PresentStep, SaveStep, TransmitStep, CrashStep, RestartStep, RollbackStep
  DEF HolderNext
<1> QED
  BY <1>1, <1>3

\* The inductive invariant holds in every reachable state.
LEMMA HolderSpecIInv == HolderSpec => []HolderIInv
<1>1. HolderInit => HolderIInv
  BY HolderIInvInit
<1>2. HolderIInv /\ [HolderNext]_holder_vars => HolderIInv'
  BY HolderIInvStep
<1> QED
  BY <1>1, <1>2, PTL DEF HolderSpec

-----------------------------------------------------------------------------
(* Theorems.                                                               *)

\* The credential, its snapshots and its presentations keep their shape.
THEOREM CredentialTypeOK == HolderSpec => []HolderTypeOK
<1>1. HolderIInv => HolderTypeOK
  BY DEF HolderIInv
<1> QED
  BY <1>1, HolderSpecIInv, PTL

\* Persist-then-send is enough: two sent presentations share a tag only after
\* a storage rollback (Credential::present, to_bytes and from_bytes).
LEMMA IInvImpliesNoRepeatedTag ==
  ASSUME HolderIInv
  PROVE  NoRepeatedTag
<1> SUFFICES ASSUME TagsDistinct, ~rolled_back, NEW u \in Sent, NEW v \in Sent,
                    use[u].tag = use[v].tag
             PROVE  u = v
  BY DEF NoRepeatedTag
<1>1. /\ u \in Uses /\ v \in Uses
      /\ use[u].at = "sent" /\ use[v].at = "sent"
  BY DEF Sent
<1>2. /\ use[u] \in UseRecords /\ use[v] \in UseRecords
  BY <1>1 DEF HolderIInv, HolderTypeOK, Unused
<1>3. /\ use[u].challenge \in Challenges /\ use[u].nonce \in 0..U32Max
      /\ use[v].challenge \in Challenges /\ use[v].nonce \in 0..U32Max
  BY <1>2 DEF UseRecords
<1>4. PICK i \in Issuers, cc \in CredentialContexts,
           s \in Secrets, h \in HidingNonces, salt \in Salts :
             Body = CredentialBody(i, cc, s, h, salt)
  BY IssuedAssumption, BodyAssumption
<1>5. Body.secret \in Secrets /\ Body.issuer_context \in Issuers
  BY <1>4 DEF CredentialBody
<1> DEFINE scope(w) == ScopeOf(Body.issuer_context, use[w].challenge)
           message(w) == tag_message(Body.secret, scope(w), use[w].nonce)
<1>6. scope(u) \in Scopes /\ scope(v) \in Scopes
  BY <1>3, <1>5 DEF ScopeOf, Scopes, Challenges
<1>7. message(u) \in TagMessages /\ message(v) \in TagMessages
  <2> HIDE DEF scope
  <2> QED
    BY <1>3, <1>5, <1>6 DEF TagMessages
<1>8. TagHash(message(u)) = TagHash(message(v))
  BY <1>1 DEF HolderIInv, UsesSound, derive_tag
<1>9. message(u) = message(v)
  <2> HIDE DEF message
  <2> QED
    BY <1>7, <1>8 DEF TagsDistinct
<1>10. /\ scope(u) = scope(v)
       /\ use[u].nonce = use[v].nonce
  BY <1>9 DEF tag_message
<1>11. use[u].challenge.presentation_context = use[v].challenge.presentation_context
  BY <1>10 DEF ScopeOf, presentation_scope
<1> QED
  BY <1>1, <1>10, <1>11 DEF HolderIInv, InOrder, NoNonceTwice

\* A holder whose storage does not roll back is never linked by a repeated tag.
THEOREM CredentialNoRepeatedTag == HolderSpec => []NoRepeatedTag
<1>1. HolderIInv => NoRepeatedTag
  BY IInvImpliesNoRepeatedTag
<1> QED
  BY <1>1, HolderSpecIInv, PTL

\* from_bytes takes back every encoding to_bytes can produce.
THEOREM CredentialSnapshotsRestore == HolderSpec => []EverySnapshotRestores
<1>1. ASSUME HolderIInv PROVE EverySnapshotRestores
  <2> SUFFICES ASSUME NEW bytes \in archive \cup {to_bytes(c) : c \in {live} \ {NoCredential}}
               PROVE  /\ Decodes(Body.issuer_context, bytes)
                      /\ to_bytes(from_bytes(bytes)) = bytes
    BY DEF EverySnapshotRestores
  <2>1. PICK c \in Credentials : bytes = to_bytes(c) /\ WellFormed(c)
    <3>1. CASE bytes \in archive
      <4>1. PICK c \in Credentials : bytes = to_bytes(c)
        BY <1>1, <3>1 DEF HolderIInv, HolderTypeOK, Snapshots
      <4>2. c \in Held
        BY <3>1, <4>1, RoundTrip DEF Held
      <4> QED
        BY <1>1, <4>1, <4>2 DEF HolderIInv
    <3>2. CASE bytes \notin archive
      BY <1>1, <3>2, LiveFacts
    <3> QED
      BY <3>1, <3>2
  <2> QED
    BY <2>1, RoundTrip, WellFormedDecodes
<1> QED
  BY <1>1, HolderSpecIInv, PTL

\* Every nonce a counter has passed was spent on a presentation.
THEOREM CredentialCountersAccounted == HolderSpec => []CountersAccounted
<1>1. HolderIInv => CountersAccounted
  BY DEF HolderIInv
<1> QED
  BY <1>1, HolderSpecIInv, PTL

\* present refuses for the limit or the bound only when it is used up.
LEMMA IInvImpliesHonestRefusals ==
  ASSUME HolderIInv
  PROVE  HonestRefusals
<1> SUFFICES ASSUME live # NoCredential, NEW public \in Issuers, NEW challenge \in Challenges
             PROVE
      LET context == challenge.presentation_context
          result == PresentResult(live, public, challenge)
      IN
      /\ result = "RateLimitReached" => 0..(challenge.limit - 1) \subseteq MadeIn(context)
      /\ result = "TooManyPresentationContexts" =>
           \E others \in SUBSET (PresentationContexts \ {context}) :
             /\ Cardinality(others) >= MAX_PRESENTATION_CONTEXTS
             /\ \A c \in others : MadeIn(c) # {}
  BY DEF HonestRefusals
<1> DEFINE context == challenge.presentation_context
           result == PresentResult(live, public, challenge)
           D == DOMAIN live.next_nonces
<1>1. live \in Held /\ live \in Credentials /\ WellFormed(live)
  BY LiveFacts
<1>2. challenge.limit \in 1..U32Max /\ U32Max \in Nat
  <2>1. challenge.limit \in Limits /\ challenge.limit # 0
    BY DEF Challenges
  <2>2. challenge.limit \in 0..U32Max
    BY <2>1, LimitsAssumption
  <2>3. U32Max \in Nat
    BY U32MaxAssumption
  <2> QED
    BY <2>1, <2>2, <2>3
<1>3. \A x \in D : 0..(live.next_nonces[x] - 1) \subseteq MadeIn(x)
  BY <1>1 DEF HolderIInv, CountersAccounted
<1>4. ASSUME result = "RateLimitReached"
      PROVE  0..(challenge.limit - 1) \subseteq MadeIn(context)
  <2>1. next_nonce(live, context) >= challenge.limit
    BY <1>4 DEF PresentResult, LimitReached
  <2>2. next_nonce(live, context) \in Nat
    BY <1>1, NextNonceType
  <2>3. context \in D /\ next_nonce(live, context) = live.next_nonces[context]
    BY <1>2, <2>1 DEF next_nonce
  <2> HIDE DEF context, D
  <2>4. 0..(challenge.limit - 1) \subseteq 0..(next_nonce(live, context) - 1)
    BY <1>2, <2>1, <2>2
  <2> QED
    BY <1>3, <2>3, <2>4
<1>5. ASSUME result = "TooManyPresentationContexts"
      PROVE  \E others \in SUBSET (PresentationContexts \ {context}) :
               /\ Cardinality(others) >= MAX_PRESENTATION_CONTEXTS
               /\ \A c \in others : MadeIn(c) # {}
  <2>1. context \notin D /\ Cardinality(D) >= MAX_PRESENTATION_CONTEXTS
    BY <1>5 DEF PresentResult, NewContext, AtContextBound, context_count
  <2>2. D \in SUBSET (PresentationContexts \ {context})
    BY <1>1, <2>1, CredentialShape
  <2>3. \A c \in D : 0 \in MadeIn(c)
    <3> SUFFICES ASSUME NEW c \in D PROVE 0 \in MadeIn(c)
      OBVIOUS
    <3>1. live.next_nonces[c] \in 0..U32Max /\ live.next_nonces[c] # 0
      BY <1>1, CredentialShape DEF WellFormed
    <3>2. 0 \in 0..(live.next_nonces[c] - 1)
      BY <1>2, <3>1
    <3> QED
      BY <1>3, <3>2
  <2> QED
    BY <2>1, <2>2, <2>3
<1> QED
  BY <1>4, <1>5

\* No refusal takes a use away from the holder.
THEOREM CredentialHonestRefusals == HolderSpec => []HonestRefusals
<1>1. HolderIInv => HonestRefusals
  BY IInvImpliesHonestRefusals
<1> QED
  BY <1>1, HolderSpecIInv, PTL

\* Counters never regress, in memory or on disk, until the storage rolls back.
THEOREM CredentialCountersMonotone == HolderSpec => CountersMonotone
<1> DEFINE Monotone == /\ live # NoCredential /\ live' # NoCredential => NoRegress(live, live')
                       /\ ~rolled_back' => NoRegress(from_bytes(disk), from_bytes(disk'))
<1>1. ASSUME HolderIInv, [HolderNext]_holder_vars PROVE [Monotone]_holder_vars
  <2>1. \A c \in Credentials : NoRegress(c, c)
    <3>1. \A c \in Credentials : \A x : next_nonce(c, x) \in Nat
      BY NextNonceType
    <3> QED
      BY <3>1 DEF NoRegress
  <2>2. NoRegress(from_bytes(disk), from_bytes(disk))
    BY <1>1, <2>1, DiskFacts DEF WellFormed
  <2>3. live # NoCredential => NoRegress(live, live)
    BY <1>1, <2>1, LiveFacts
  <2>4. ASSUME NEW u \in Uses, NEW public \in Issuers, NEW challenge \in Challenges,
               Present(u, public, challenge)
        PROVE  Monotone
    <3> DEFINE context == challenge.presentation_context
               nonce == next_nonce(live, context)
    <3>1. /\ live # NoCredential
          /\ PresentResult(live, public, challenge) = "Ok"
          /\ live' = Advanced(live, context, nonce)
          /\ disk' = disk
      BY <2>4 DEF Present
    <3>2. live \in Credentials /\ WellFormed(live)
      BY <1>1, <3>1, LiveFacts
    <3>3. /\ next_nonce(live', context) = nonce + 1
          /\ \A x : x # context => next_nonce(live', x) = next_nonce(live, x)
      BY <3>1, <3>2, PresentChecks, AdvancedNext
    <3>4. \A x : next_nonce(live, x) \in Nat
      BY <3>2, NextNonceType
    <3>5. NoRegress(live, live')
      <4> HIDE DEF context
      <4>1. next_nonce(live, context) <= next_nonce(live', context)
        BY <3>3, <3>4
      <4>2. \A x : x # context => next_nonce(live, x) <= next_nonce(live', x)
        BY <3>3, <3>4
      <4> QED
        BY <4>1, <4>2 DEF NoRegress
    <3> QED
      BY <2>2, <3>1, <3>5
  <2>5. ASSUME Save PROVE Monotone
    <3>1. live # NoCredential /\ live' = live /\ disk' = to_bytes(live) /\ rolled_back' = rolled_back
      BY <2>5 DEF Save
    <3>2. from_bytes(disk') = live
      BY <1>1, <3>1, LiveFacts, RoundTrip
    <3>3. ~rolled_back => NoRegress(from_bytes(disk), live)
      BY <1>1, <3>1 DEF HolderIInv, InOrder
    <3> QED
      BY <2>3, <3>1, <3>2, <3>3
  <2>6. ASSUME \/ \E u \in Uses : Transmit(u)
               \/ CrashHolder
               \/ Rollback
               \/ \E public \in Issuers : Restart(public)
        PROVE  Monotone
    <3>1. ~rolled_back' => disk' = disk
      BY <2>6 DEF Transmit, CrashHolder, Rollback, Restart
    <3>2. live # NoCredential /\ live' # NoCredential => live' = live
      BY <2>6 DEF Transmit, CrashHolder, Rollback, Restart
    <3> QED
      BY <2>2, <2>3, <3>1, <3>2
  <2>7. ASSUME NEW public \in Issuers, NEW challenge \in Challenges,
               Refuse(public, challenge) \/ ProofFails(public, challenge)
        PROVE  UNCHANGED holder_vars
    BY <2>7 DEF Refuse, ProofFails
  <2> QED
    BY <1>1, <2>4, <2>5, <2>6, <2>7 DEF HolderNext
<1> QED
  BY <1>1, HolderSpecIInv, PTL DEF HolderSpec, CountersMonotone

-----------------------------------------------------------------------------
(* The composed system: what is delivered.                                 *)

\* The holder's authenticator opens the target of its own issuer and context.
LEMMA BodyFacts ==
  /\ Body \in Issued
  /\ Body.issuer_context \in Issuers
  /\ Body.secret \in Secrets
BY BodyAssumption, IssuedFacts

\* A transmitted use is a presentation the environment of Verifier has too.
LEMMA UseIsDelivery ==
  ASSUME HolderIInv, NEW u \in Uses, use[u].at = "sent"
  PROVE  PresentationOf(u) \in Presentations
<1> DEFINE i == Body.issuer_context
           ch == use[u].challenge
           w == PresentationSecrets(Body, use[u].nonce)
           p == PresentationOf(u).proof
<1>1. use[u] \in UseRecords
  BY DEF HolderIInv, HolderTypeOK, Unused
<1>2. ch \in Challenges /\ w \in Witnesses /\ i \in Issuers
  BY <1>1, BodyFacts DEF UseRecords, Witnesses
<1>3. use[u].tag = HonestTag(i, ch, w)
  BY DEF HolderIInv, UsesSound, HonestTag, PresentationSecrets
<1>4. p \in Proofs
  BY <1>2, <1>3 DEF Proofs, PresentationOf
<1>5. p.circuit.tag = use[u].tag
  BY DEF PresentationOf, prove, PresentationCircuit
<1>6. PresentationOf(u) = [tag |-> use[u].tag, proof |-> p]
  BY DEF PresentationOf
<1> HIDE DEF p
<1> QED
  BY <1>4, <1>5, <1>6 DEF Presentations

\* What a valid delivery opens, and for an issued credential of the holder's
\* issuer, context and secret that it is the holder's.
LEMMA ValidOpens ==
  ASSUME NEW i, NEW ch, NEW pr, verify_proof_only(i, ch, pr)
  PROVE  Opens(Verified(i, ch, pr))
BY DEF verify_proof_only, vole_verify, CircuitSatisfied, PresentationCircuit, Verified, Opens

LEMMA OpensOwn ==
  ASSUME NEW v, v.witness \in Witnesses, Opens(v),
         v.witness.secret = Body.secret, v.issuer = Body.issuer_context,
         v.challenge.credential_context = Body.credential_context
  PROVE  v.witness.signature = Body.signature
<1>1. PICK body \in Issued, nonce \in 0..U32Max : v.witness = PresentationSecrets(body, nonce)
  BY DEF Witnesses
<1>2. body.signature = v.witness.signature /\ body.secret = Body.secret
  BY <1>1 DEF PresentationSecrets
<1>3. spre(body.issuer_context,
           SignedTarget(credential_scope(body.issuer_context,
                                         body.credential_context), body))
        = spre(v.issuer, SignedTarget(credential_scope(v.issuer,
                                        v.challenge.credential_context), v.witness))
  BY <1>2, IssuedFacts DEF Opens, MayoOpens
<1>4. /\ body.issuer_context = v.issuer
      /\ SignedTarget(credential_scope(body.issuer_context, body.credential_context), body)
           = SignedTarget(credential_scope(v.issuer, v.challenge.credential_context), v.witness)
  BY <1>3 DEF spre
<1>5. credential_scope(body.issuer_context, body.credential_context)
        = credential_scope(v.issuer, v.challenge.credential_context)
  BY <1>4 DEF SignedTarget, signed_credential_target, credential_target
<1>6. body.credential_context = Body.credential_context
  BY <1>5 DEF credential_scope
<1>7. body = Body
  BY <1>2, <1>4, <1>6, SoleAssumption
<1> QED
  BY <1>2, <1>7

-----------------------------------------------------------------------------
(* Every step is a step of the verifier and a step of the holder.          *)

\* A delivery is accepted or rejected, by the verifier's own actions.
LEMMA DeliverIsVerifier ==
  ASSUME HolderIInv, NEW c \in Calls, NEW u \in Uses,
         NEW issuer \in Issuers, NEW challenge \in Challenges,
         DeliverUse(c, u, issuer, challenge)
  PROVE  Accept(c) \/ Reject(c)
<1> DEFINE d == <<issuer, challenge, PresentationOf(u)>>
<1>1. PresentationOf(u) \in Presentations
  BY UseIsDelivery DEF DeliverUse
<1>2. d \in Deliveries /\ d[1] = issuer /\ d[2] = challenge /\ d[3] = PresentationOf(u)
  BY <1>1 DEF Deliveries
<1>3. CASE verify_proof_only(issuer, challenge, PresentationOf(u))
  <2>1. d \in Valid
    BY <1>2, <1>3 DEF Valid
  <2>2. call' = [call EXCEPT ![c] = Verified(d[1], d[2], d[3])]
    BY <1>2, <1>3 DEF DeliverUse
  <2> QED
    BY <2>1, <2>2 DEF DeliverUse, Accept
<1>4. CASE ~verify_proof_only(issuer, challenge, PresentationOf(u))
  <2>1. d \in Invalid
    BY <1>2, <1>4 DEF Invalid, Valid
  <2> QED
    BY <1>4, <2>1 DEF DeliverUse, Reject
<1> QED
  BY <1>3, <1>4

\* The two projections of a step.
LEMMA StepProjects ==
  ASSUME HolderIInv, [SystemNext]_system_vars
  PROVE  [Next]_vars /\ [HolderNext]_holder_vars
<1>1. CASE UNCHANGED system_vars
  BY <1>1 DEF system_vars
<1>2. ASSUME NEW c \in Calls, NEW u \in Uses, NEW issuer \in Issuers,
             NEW challenge \in Challenges, DeliverUse(c, u, issuer, challenge)
      PROVE  Next /\ UNCHANGED holder_vars
  <2>1. Accept(c) \/ Reject(c)
    BY <1>2, DeliverIsVerifier
  <2> QED
    BY <1>2, <2>1 DEF Next, DeliverUse
<1>3. ASSUME NEW c \in Calls, DeliverOther(c) PROVE Next /\ UNCHANGED holder_vars
  <2>1. Accept(c) \/ Reject(c)
    BY <1>3 DEF DeliverOther, OthersValid, Accept
  <2> QED
    BY <1>3, <2>1 DEF Next, DeliverOther
<1>4. ASSUME NEW c \in Calls, Continue(c) PROVE Next /\ UNCHANGED holder_vars
  BY <1>4 DEF Continue, Next
<1>5. ASSUME HolderNext, UNCHANGED <<store, call, shown>> PROVE UNCHANGED vars
  BY <1>5 DEF vars
<1>6. CASE SystemNext
  BY <1>2, <1>3, <1>4, <1>5, <1>6 DEF SystemNext
<1> QED
  BY <1>1, <1>6

-----------------------------------------------------------------------------
(* Attribution.                                                            *)

\* A use that was sent stays as it is.
LEMMA SentStays ==
  ASSUME HolderIInv, [HolderNext]_holder_vars, NEW u \in Uses, use[u].at = "sent"
  PROVE  use'[u] = use[u]
<1>1. CASE UNCHANGED holder_vars
  BY <1>1 DEF holder_vars
<1>2. CASE HolderNext
  <2>1. ASSUME NEW v \in Uses, NEW public \in Issuers, NEW challenge \in Challenges,
               Present(v, public, challenge)
        PROVE  use'[u] = use[u]
    <3>1. v # u
      BY <2>1 DEF Present, Unused
    <3> QED
      BY <2>1, <3>1 DEF Present, HolderIInv, HolderTypeOK
  <2>2. ASSUME NEW v \in Uses, Transmit(v) PROVE use'[u] = use[u]
    <3>1. v # u
      BY <2>2 DEF Transmit
    <3> QED
      BY <2>2, <3>1 DEF Transmit, HolderIInv, HolderTypeOK
  <2>3. ASSUME Save \/ CrashHolder PROVE use'[u] = use[u]
    BY <2>3 DEF Save, CrashHolder, Shift
  <2>4. ASSUME \/ Rollback
               \/ \E public \in Issuers : Restart(public)
               \/ \E public \in Issuers, challenge \in Challenges :
                    Refuse(public, challenge) \/ ProofFails(public, challenge)
        PROVE  use'[u] = use[u]
    BY <2>4 DEF Rollback, Restart, Refuse, ProofFails, holder_vars
  <2> QED
    BY <1>2, <2>1, <2>2, <2>3, <2>4 DEF HolderNext
<1> QED
  BY <1>1, <1>2

\* A call that is not touched keeps its attribution.
LEMMA AttributionStays ==
  ASSUME SystemIInv, [HolderNext]_holder_vars, NEW c \in Calls,
         call'[c] = call[c], shown'[c] = shown[c]
  PROVE  Attributed(c)'
<1>1. Attributed(c)
  BY DEF SystemIInv
<1>2. shown[c] \in Uses /\ use[shown[c]].at = "sent" => use'[shown[c]] = use[shown[c]]
  BY SentStays DEF SystemIInv
<1> QED
  BY <1>1, <1>2 DEF Attributed, Follows

\* A call that moves on past its proof keeps its attribution.
LEMMA MoveAttributed ==
  ASSUME SystemIInv, NEW c \in Calls, call[c].at \in Steps,
         NEW step \in Steps, Move(c, step), UNCHANGED <<holder_vars, shown>>
  PROVE  \A d \in Calls : Attributed(d)'
<1>1. call[c] \in Stages
  BY StageOf DEF SystemIInv, IInv
<1>2. /\ call'[c] = [call[c] EXCEPT !.at = step]
      /\ \A d \in Calls : d # c => call'[d] = call[d]
  BY DEF Move, SystemIInv, IInv, TypeOK
<1>3. /\ call'[c].at = step
      /\ call'[c].tag = call[c].tag
      /\ call'[c].issuer = call[c].issuer
      /\ call'[c].challenge = call[c].challenge
      /\ call'[c].witness = call[c].witness
      /\ call'[c].made_for = call[c].made_for
  BY <1>1, <1>2 DEF Stages
<1>4. call'[c] # Idle
  BY <1>3 DEF Idle, Steps
<1>5. use' = use /\ shown' = shown
  BY DEF holder_vars
<1>6. Attributed(c)
  BY DEF SystemIInv
<1>7. Attributed(c)'
  BY <1>3, <1>4, <1>5, <1>6 DEF Attributed, Opens, Follows
<1>8. ASSUME NEW d \in Calls, d # c PROVE Attributed(d)'
  BY <1>2, <1>5, <1>8, AttributionStays
<1> QED
  BY <1>7, <1>8

\* A delivered use is what the call carries.
LEMMA DeliverAttributed ==
  ASSUME SystemIInv, NEW c \in Calls, NEW u \in Uses,
         NEW issuer \in Issuers, NEW challenge \in Challenges,
         DeliverUse(c, u, issuer, challenge)
  PROVE  /\ shown' \in [Calls -> Uses \cup {NoUse}]
         /\ \A d \in Calls : Attributed(d)'
<1> DEFINE pr == PresentationOf(u)
           v == Verified(issuer, challenge, pr)
<1>1. /\ use[u].at = "sent"
      /\ use' = use
      /\ call'[c] = IF verify_proof_only(issuer, challenge, pr) THEN v ELSE Refused
      /\ shown'[c] = u
      /\ shown' \in [Calls -> Uses \cup {NoUse}]
      /\ \A d \in Calls : d # c => call'[d] = call[d] /\ shown'[d] = shown[d]
  BY DEF DeliverUse, SystemIInv, IInv, TypeOK, holder_vars
<1>2. Follows(v, u)
  BY <1>1 DEF Follows, Verified, PresentationOf, prove
<1>3. Attributed(c)'
  <2>1. CASE verify_proof_only(issuer, challenge, pr)
    <3>1. Opens(v)
      BY <2>1, ValidOpens
    <3>2. call'[c] = v /\ v # Idle
      BY <1>1, <2>1 DEF Verified, Idle
    <3> HIDE DEF v
    <3>3. Follows(call[c], shown[c])'
      BY <1>1, <1>2, <3>2 DEF Follows
    <3>4. Opens(call[c])'
      BY <3>1, <3>2 DEF Opens
    <3> QED
      BY <1>1, <3>2, <3>3, <3>4 DEF Attributed, Follows
  <2>2. CASE ~verify_proof_only(issuer, challenge, pr)
    BY <1>1, <2>2 DEF Attributed, Refused, Idle, Steps
  <2> QED
    BY <2>1, <2>2
<1>4. ASSUME NEW d \in Calls, d # c PROVE Attributed(d)'
  BY <1>1, <1>4, AttributionStays DEF DeliverUse
<1> QED
  BY <1>1, <1>3, <1>4

\* What others deliver opens nothing of the holder's.
LEMMA OtherAttributed ==
  ASSUME SystemIInv, NEW c \in Calls, DeliverOther(c)
  PROVE  \A d \in Calls : Attributed(d)'
<1>1. /\ call[c] = Idle
      /\ shown' = shown
      /\ UNCHANGED holder_vars
      /\ \A d \in Calls : d # c => call'[d] = call[d]
  BY DEF DeliverOther, Reject, SystemIInv, IInv, TypeOK
<1>2. shown[c] = NoUse /\ shown[c] \notin Uses
  BY <1>1, NoUseAssumption DEF SystemIInv, Attributed
<1>3. Attributed(c)'
  <2>1. ASSUME NEW d \in OthersValid,
               call' = [call EXCEPT ![c] = Verified(d[1], d[2], d[3])]
        PROVE  Attributed(c)'
    <3>1. verify_proof_only(d[1], d[2], d[3]) /\ d[3].proof.witness.signature # Body.signature
      BY DEF OthersValid, Valid
    <3>2. call'[c] = Verified(d[1], d[2], d[3])
      BY <2>1 DEF SystemIInv, IInv, TypeOK
    <3>3. /\ Opens(call'[c])
          /\ call'[c] # Idle
          /\ call'[c].witness.signature # Body.signature
      <4>1. Opens(Verified(d[1], d[2], d[3]))
        BY <3>1, ValidOpens
      <4> QED
        BY <3>1, <3>2, <4>1 DEF Verified, Idle
    <3>4. Opens(call[c])'
      BY <3>3 DEF Opens
    <3> QED
      BY <1>1, <1>2, <3>3, <3>4 DEF Attributed
  <2>2. ASSUME Reject(c) PROVE Attributed(c)'
    <3>1. call'[c] = Refused
      BY <2>2 DEF Reject, SystemIInv, IInv, TypeOK
    <3> QED
      BY <3>1 DEF Attributed, Refused, Idle, Steps
  <2> QED
    BY <2>1, <2>2 DEF DeliverOther
<1>4. ASSUME NEW d \in Calls, d # c PROVE Attributed(d)'
  BY <1>1, <1>4, AttributionStays
<1> QED
  BY <1>3, <1>4

\* SystemIInv is inductive.
LEMMA SystemIInvInit == SystemInit => SystemIInv
<1> SUFFICES ASSUME SystemInit PROVE SystemIInv
  OBVIOUS
<1>1. IInv /\ HolderIInv
  BY IInvInit, HolderIInvInit DEF SystemInit
<1>2. \A c \in Calls : Attributed(c)
  BY DEF SystemInit, Init, Attributed, Idle, Steps
<1> QED
  BY <1>1, <1>2 DEF SystemIInv, SystemInit

LEMMA SystemIInvStep ==
  ASSUME SystemIInv, [SystemNext]_system_vars
  PROVE  SystemIInv'
<1> DEFINE Told == shown' \in [Calls -> Uses \cup {NoUse}] /\ \A c \in Calls : Attributed(c)'
<1>1. IInv /\ HolderIInv
  BY DEF SystemIInv
<1>2. [Next]_vars /\ [HolderNext]_holder_vars
  BY <1>1, StepProjects
<1>3. IInv' /\ HolderIInv'
  BY <1>1, <1>2, IInvStep, HolderIInvStep
<1>4. ASSUME call' = call, shown' = shown PROVE Told
  BY <1>2, <1>4, AttributionStays DEF SystemIInv
<1>5. ASSUME NEW c \in Calls, Continue(c) PROVE Told
  <2>1. call[c].at \in Steps /\ UNCHANGED <<holder_vars, shown>>
    BY <1>5 DEF Continue, Consume, Duplicate, StoreFails, Act, Crash, Steps
  <2>2. PICK step \in Steps : Move(c, step)
    BY <1>5 DEF Continue, Consume, Duplicate, StoreFails, Act, Crash, Steps
  <2> QED
    BY <2>1, <2>2, MoveAttributed DEF SystemIInv
<1>6. ASSUME NEW c \in Calls, DeliverOther(c) PROVE Told
  BY <1>6, OtherAttributed DEF DeliverOther, SystemIInv
<1>7. ASSUME NEW c \in Calls, NEW u \in Uses, NEW issuer \in Issuers,
             NEW challenge \in Challenges, DeliverUse(c, u, issuer, challenge)
      PROVE  Told
  BY <1>7, DeliverAttributed
<1>8. Told
  <2>1. CASE UNCHANGED system_vars
    BY <1>4, <2>1 DEF system_vars, vars
  <2>2. CASE SystemNext
    BY <1>4, <1>5, <1>6, <1>7, <2>2 DEF SystemNext
  <2> QED
    BY <2>1, <2>2
<1> QED
  BY <1>3, <1>8 DEF SystemIInv

LEMMA SystemAlways == System => []SystemIInv
<1>1. SystemInit => SystemIInv
  BY SystemIInvInit
<1>2. SystemIInv /\ [SystemNext]_system_vars => SystemIInv'
  BY SystemIInvStep
<1> QED
  BY <1>1, <1>2, PTL DEF System

-----------------------------------------------------------------------------
(* Theorems.                                                               *)

\* The honest holder's calls are calls of the verifier: DeliverUse is Accept or
\* Reject, and everything else leaves the relying party alone or is its own.
THEOREM SystemRefinesVerifier == System => RefinesVerifier
<1>1. SystemInit => Init
  BY DEF SystemInit
<1>2. SystemIInv /\ [SystemNext]_system_vars => [Next]_vars
  BY StepProjects DEF SystemIInv
<1> QED
  BY <1>1, <1>2, SystemAlways, PTL DEF System, Spec, RefinesVerifier

\* Through the verifier, the whole system implements the abstract rate limit.
THEOREM SystemRefinesRateLimit == System => RefinesRateLimit
BY SystemRefinesVerifier, VerifierRefinesRateLimit, PTL DEF RefinesVerifier

\* In front of a relying party the holder is still the holder of Credential, so
\* all that is proved of it, NoRepeatedTag and CountersMonotone included, holds.
THEOREM SystemRefinesHolder == System => HolderSpec
<1>1. SystemInit => HolderInit
  BY DEF SystemInit
<1>2. SystemIInv /\ [SystemNext]_system_vars => [HolderNext]_holder_vars
  BY StepProjects DEF SystemIInv
<1> QED
  BY <1>1, <1>2, SystemAlways, PTL DEF System, HolderSpec

\* A granted call has been shown either a use it follows or another's opening.
LEMMA GrantedAttributed ==
  ASSUME SystemIInv, NEW c \in Calls, call[c].at \in Steps
  PROVE  /\ call[c] \in Stages
         /\ Sound(call[c])
         /\ Opens(call[c])
         /\ shown[c] \in Uses => Follows(call[c], shown[c])
         /\ shown[c] \notin Uses => call[c].witness.signature # Body.signature
BY StageOf DEF SystemIInv, IInv, CallsSound, PastProof, Attributed

\* Where a call that follows a use was verified: under the use's own challenge.
LEMMA FollowsRequest ==
  ASSUME NEW v, NEW u, Sound(v), Follows(v, u)
  PROVE  /\ v.issuer = Body.issuer_context
         /\ v.challenge = use[u].challenge
         /\ v.scope = ScopeOf(Body.issuer_context, use[u].challenge)
         /\ v.witness.secret = Body.secret
         /\ v.witness.presentation_nonce = use[u].nonce
         /\ v.tag = derive_tag(Body.secret, v.scope, use[u].nonce)
<1>1. /\ v.made_for = [issuer |-> v.issuer, challenge |-> v.challenge]
      /\ v.made_for = [issuer |-> Body.issuer_context, challenge |-> use[u].challenge]
  BY DEF Sound, Follows
<1>2. v.issuer = Body.issuer_context /\ v.challenge = use[u].challenge
  BY <1>1
<1>3. v.witness.secret = Body.secret /\ v.witness.presentation_nonce = use[u].nonce
  BY DEF Follows, PresentationSecrets
<1> QED
  BY <1>2, <1>3 DEF Sound

\* verify lets nobody but the holder spend the holder's allowance.
THEOREM SystemAllowanceIsOwn == System => []AllowanceIsOwn
<1>1. ASSUME SystemIInv PROVE AllowanceIsOwn
  <2> SUFFICES ASSUME NEW c \in GrantedToHolder
               PROVE  /\ shown[c] \in Uses
                      /\ use[shown[c]].at = "sent"
                      /\ use[shown[c]].challenge = call[c].challenge
    BY DEF AllowanceIsOwn
  <2>1. /\ c \in Calls /\ call[c].at \in Steps
        /\ call[c].witness.secret = Body.secret
        /\ call[c].issuer = Body.issuer_context
        /\ call[c].challenge.credential_context = Body.credential_context
    BY DEF GrantedToHolder, Granted, Steps
  <2>2. /\ call[c] \in Stages
        /\ Sound(call[c])
        /\ Opens(call[c])
        /\ shown[c] \in Uses => Follows(call[c], shown[c])
        /\ shown[c] \notin Uses => call[c].witness.signature # Body.signature
    BY <1>1, <2>1, GrantedAttributed
  <2>3. call[c].witness.signature = Body.signature
    BY <2>1, <2>2, OpensOwn DEF Stages
  <2> QED
    BY <2>2, <2>3, FollowsRequest DEF Follows
<1> QED
  BY <1>1, SystemAlways, PTL

\* verify after a storage rollback: the second presentation of a nonce in its
\* bucket finds the key of the first.
THEOREM SystemRollbackNoGain == System => []RollbackNoGain
<1>1. ASSUME SystemIInv PROVE RollbackNoGain
  <2> SUFFICES ASSUME NEW c \in Granted, NEW d \in Granted, c # d,
                      shown[c] \in Uses, shown[d] \in Uses,
                      use[shown[c]].nonce = use[shown[d]].nonce,
                      use[shown[c]].challenge.presentation_context
                        = use[shown[d]].challenge.presentation_context
               PROVE  FALSE
    BY DEF RollbackNoGain
  <2>1. /\ c \in Calls /\ call[c].at \in Steps
        /\ d \in Calls /\ call[d].at \in Steps
    BY DEF Granted, Steps
  <2>2. /\ Sound(call[c]) /\ Follows(call[c], shown[c])
        /\ Sound(call[d]) /\ Follows(call[d], shown[d])
    BY <1>1, <2>1, GrantedAttributed
  <2>3. \A u \in Uses : use[u].at = "sent" =>
          use[u].challenge.credential_context = Body.credential_context
    BY <1>1 DEF SystemIInv, HolderIInv, UsesSound
  <2>4. call[c].scope = call[d].scope
    <3>1. /\ call[c].scope = ScopeOf(Body.issuer_context, use[shown[c]].challenge)
          /\ call[d].scope = ScopeOf(Body.issuer_context, use[shown[d]].challenge)
      BY <2>2, FollowsRequest
    <3>2. use[shown[c]].challenge.credential_context = use[shown[d]].challenge.credential_context
      BY <2>2, <2>3 DEF Follows
    <3> QED
      BY <3>1, <3>2 DEF ScopeOf
  <2>5. call[c].tag = call[d].tag
    BY <2>2, <2>4, FollowsRequest
  <2>6. Key(call[c]) = Key(call[d])
    BY <2>4, <2>5 DEF Key
  <2> QED
    BY <1>1, <2>6 DEF SystemIInv, IInv, GrantOnce
<1> QED
  BY <1>1, SystemAlways, PTL

\* Equal tags name equal messages when the tag hash has no collisions.
LEMMA SameTagSameMessage ==
  ASSUME IInv, TagsDistinct, NEW c \in Calls, NEW d \in Calls,
         call[c].at \in Steps, call[d].at \in Steps, call[c].tag = call[d].tag
  PROVE  call[c].witness.secret = call[d].witness.secret
<1> DEFINE message(e) == tag_message(call[e].witness.secret, call[e].scope,
                                     call[e].witness.presentation_nonce)
<1>1. ASSUME NEW e \in Calls, call[e].at \in Steps
      PROVE  message(e) \in TagMessages /\ call[e].tag = TagHash(message(e))
  <2>1. call[e] \in Stages /\ Sound(call[e])
    BY <1>1, StageOf DEF IInv, CallsSound, PastProof
  <2>2. call[e].scope \in Scopes /\ call[e].witness \in Witnesses
    BY <2>1 DEF Stages
  <2>3. PICK body \in Issued, nonce \in 0..U32Max :
          call[e].witness = PresentationSecrets(body, nonce)
    BY <2>2 DEF Witnesses
  <2>4. call[e].witness.secret \in Secrets /\ call[e].witness.presentation_nonce \in 0..U32Max
    BY <2>3, IssuedFacts DEF PresentationSecrets
  <2> QED
    BY <2>1, <2>2, <2>4 DEF TagMessages, Sound, derive_tag
<1> HIDE DEF message
<1>2. message(c) = message(d)
  BY <1>1 DEF TagsDistinct
<1> QED
  BY <1>2 DEF message, tag_message

\* An honest holder whose storage does not roll back is refused as a duplicate
\* only for a use that reached the store before.
THEOREM SystemFreshUseAdmitted == System => []FreshUseAdmitted
<1>1. ASSUME SystemIInv PROVE FreshUseAdmitted
  <2> SUFFICES ASSUME TagsDistinct, ~rolled_back, NEW c \in Calls,
                      call[c].at = "TagAlreadyUsed", shown[c] \in Uses
               PROVE  \E d \in Calls : shown[d] = shown[c] /\ call[d].at \in Reached
    BY DEF FreshUseAdmitted
  <2>1. DuplicatesHonest
    BY <1>1, IInvImpliesDuplicatesHonest DEF SystemIInv
  <2>2. PICK d \in Calls : /\ call[d].at \in Reached
                           /\ call[d].scope = call[c].scope
                           /\ call[d].tag = call[c].tag
    BY <2>1 DEF DuplicatesHonest, Reached
  <2>3. call[c].at \in Steps /\ call[d].at \in Steps
    BY <2>2 DEF Steps, Reached
  <2>4. /\ call[d] \in Stages
        /\ Sound(call[c]) /\ Follows(call[c], shown[c])
        /\ Sound(call[d]) /\ Opens(call[d])
        /\ shown[d] \in Uses => Follows(call[d], shown[d])
        /\ shown[d] \notin Uses => call[d].witness.signature # Body.signature
    BY <1>1, <2>3, GrantedAttributed
  <2>5. shown[d] \in Uses
    <3>1. call[c].witness.secret = Body.secret
      BY <2>4, FollowsRequest
    <3>2. call[d].witness.secret = Body.secret
      BY <1>1, <2>2, <2>3, <3>1, SameTagSameMessage DEF SystemIInv
    <3>3. /\ call[d].issuer = Body.issuer_context
          /\ call[d].challenge.credential_context = Body.credential_context
      <4>1. /\ call[c].issuer \in Issuers /\ call[c].challenge \in Challenges
            /\ call[d].issuer \in Issuers /\ call[d].challenge \in Challenges
        BY <1>1, <2>3, <2>4, GrantedAttributed DEF Stages
      <4>2. ScopeOf(call[d].issuer, call[d].challenge)
              = ScopeOf(call[c].issuer, call[c].challenge)
        BY <2>2, <2>4 DEF Sound
      <4>3. /\ call[c].issuer = Body.issuer_context
            /\ call[c].challenge = use[shown[c]].challenge
        BY <2>4, FollowsRequest
      <4>4. call[c].challenge.credential_context = Body.credential_context
        BY <1>1, <2>4, <4>3 DEF SystemIInv, HolderIInv, UsesSound, Follows
      <4> QED
        BY <4>1, <4>2, <4>3, <4>4, ScopeFacts
    <3>4. call[d].witness \in Witnesses
      BY <2>4 DEF Stages
    <3> QED
      BY <2>4, <3>2, <3>3, <3>4, OpensOwn
  <2>6. shown[d] \in Sent /\ shown[c] \in Sent /\ use[shown[d]].tag = use[shown[c]].tag
    BY <2>2, <2>4, <2>5 DEF Follows, Sent
  <2>7. NoRepeatedTag
    BY <1>1, IInvImpliesNoRepeatedTag DEF SystemIInv
  <2> QED
    BY <2>2, <2>6, <2>7 DEF NoRepeatedTag
<1> QED
  BY <1>1, SystemAlways, PTL
=============================================================================
