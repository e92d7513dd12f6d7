----------------------------- MODULE IssuanceProofs -----------------------------
(* Issuance mints no lineage the issuer did not accept, and strands no saved   *)
(* session, for any number of sessions, issuers, contexts and hidden values;   *)
(* with a verifier behind it (Deployment), what issuance charges is what       *)
(* verification grants.                                                        *)
EXTENDS Deployment, FiniteSetTheorems, TLAPS

-----------------------------------------------------------------------------
(* Ideal digests and preimages have one input.                             *)

\* A preimage opens one commitment, under one key and one salt.
LEMMA SignatureOpens ==
    ASSUME NEW k1, NEW m1, NEW t1, NEW k2, NEW m2, NEW t2,
           spre(k1, signed_credential_target(m1, t1))
             = spre(k2, signed_credential_target(m2, t2))
    PROVE  k1 = k2 /\ m1 = m2 /\ t1 = t2
<1>1. \A k, t : spre(k, t).key = k /\ spre(k, t).target = t
  BY DEF spre
<1>2. k1 = k2
  BY <1>1
<1>3. signed_credential_target(m1, t1) = signed_credential_target(m2, t2)
  BY <1>1
<1>4. m1 = m2 /\ t1 = t2
  BY <1>3 DEF signed_credential_target
<1> QED
  BY <1>2, <1>4

\* A commitment has one opening, under one issuer and one context.
LEMMA CommitmentOpens ==
    ASSUME NEW i1, NEW c1, NEW s1, NEW h1, NEW i2, NEW c2, NEW s2, NEW h2,
           credential_target(credential_scope(i1, c1), s1, h1)
             = credential_target(credential_scope(i2, c2), s2, h2)
    PROVE  i1 = i2 /\ c1 = c2 /\ s1 = s2 /\ h1 = h2
<1>1. credential_scope(i1, c1) = credential_scope(i2, c2) /\ s1 = s2 /\ h1 = h2
  BY DEF credential_target
<1>2. i1 = i2 /\ c1 = c2
  BY <1>1 DEF credential_scope
<1> QED
  BY <1>1, <1>2

\* A pending state is determined by its encoding, and never taken for None.
LEMMA PendingFacts ==
    ASSUME NEW p \in PendingIssues
    PROVE  /\ p # None
           /\ p.issuer_context \in Issuers /\ p.credential_context \in CredentialContexts
           /\ p.secret \in Secrets /\ p.hiding_nonce \in HidingNonces
           /\ p.commitment = credential_target(
                 credential_scope(p.issuer_context, p.credential_context),
                 p.secret, p.hiding_nonce)
           /\ p.commitment \in Commitments
           /\ pending_from_bytes(pending_to_bytes(p)) = p
           /\ pending_to_bytes(p) # None
<1>1. PICK i \in Issuers, c \in CredentialContexts, s \in Secrets, h \in HidingNonces :
        p = PendingIssue(i, c, s, h)
  BY DEF PendingIssues
<1>2. /\ p.issuer_context = i /\ p.credential_context = c
      /\ p.secret = s /\ p.hiding_nonce = h
      /\ p.commitment = credential_target(credential_scope(i, c), s, h)
  BY <1>1 DEF PendingIssue
<1>3. p.commitment \in Commitments
  BY <1>2 DEF Commitments
<1>4. pending_from_bytes(pending_to_bytes(p)) = p
  BY <1>1, <1>2 DEF pending_from_bytes, pending_to_bytes
<1>5. p # None /\ pending_to_bytes(p) # None
  BY <1>1 DEF PendingIssue, None, pending_to_bytes
<1> QED
  BY <1>2, <1>3, <1>4, <1>5

\* A request is the one its session's opening makes.
LEMMA RequestFacts ==
    ASSUME NEW q \in IssueRequests
    PROVE  /\ q # None
           /\ q.commitment \in Commitments
           /\ q.proof.secret \in Secrets /\ q.proof.hiding_nonce \in HidingNonces
<1>1. PICK p \in PendingIssues :
        q = [commitment |-> p.commitment,
             proof |-> IssueProof(issue_statement(p.issuer_context, p.credential_context,
                                                  p.commitment),
                                  IssueCircuit(credential_scope(p.issuer_context,
                                                                p.credential_context),
                                               p.commitment),
                                  p.secret, p.hiding_nonce)]
  BY DEF IssueRequests
<1>2. q.commitment = p.commitment /\ q.proof.secret = p.secret
      /\ q.proof.hiding_nonce = p.hiding_nonce
  BY <1>1 DEF IssueProof
<1>3. q # None
  BY <1>1 DEF None
<1> QED
  BY <1>2, <1>3, PendingFacts

\* What finish returns after its checks is the body that was issued.
LEMMA FinishedBody ==
    ASSUME NEW p \in PendingIssues, NEW r, r.salt \in Salts,
           r.signature = spre(p.issuer_context,
                              signed_credential_target(p.commitment, r.salt))
    PROVE  /\ Finished(p, r) \in Bodies
           /\ verify_credential(Finished(p, r).issuer_context, Finished(p, r))
           /\ Finished(p, r).issuer_context = p.issuer_context
           /\ Finished(p, r).credential_context = p.credential_context
           /\ Finished(p, r).secret = p.secret
           /\ Finished(p, r).salt = r.salt
<1>1. Finished(p, r) = CredentialBody(p.issuer_context, p.credential_context, p.secret,
                                      p.hiding_nonce, r.salt)
  BY PendingFacts DEF Finished, CredentialBody
<1>2. Finished(p, r) \in Bodies
  BY <1>1, PendingFacts DEF Bodies
<1>3. /\ Finished(p, r).issuer_context = p.issuer_context
      /\ Finished(p, r).credential_context = p.credential_context
      /\ Finished(p, r).signature = r.signature
      /\ Finished(p, r).secret = p.secret
      /\ Finished(p, r).hiding_nonce = p.hiding_nonce
      /\ Finished(p, r).salt = r.salt
  BY DEF Finished
<1>4. verify_credential(Finished(p, r).issuer_context, Finished(p, r))
  BY <1>3, PendingFacts DEF verify_credential, MayoOpens, SignedTarget
<1> QED
  BY <1>2, <1>3, <1>4

\* The log entry behind a response that opens a pending commitment is for the
\* session's own issuer, context, commitment and salt.
LEMMA ResponseSource ==
    ASSUME TypeOK, LogSound, NEW p \in PendingIssues, NEW r \in Responses,
           NEW request, NEW public,
           FinishResult(p, public, request, r) = "Ok"
    PROVE  /\ public = p.issuer_context
           /\ request.commitment = p.commitment
           /\ r.salt \in Salts
           /\ r.signature = spre(p.issuer_context,
                                 signed_credential_target(p.commitment, r.salt))
           /\ \E call \in log : /\ call.issuer = p.issuer_context
                                /\ call.credential_context = p.credential_context
                                /\ call.commitment = p.commitment
                                /\ call.salt = r.salt
<1>1. /\ public = p.issuer_context /\ request.commitment = p.commitment
      /\ MayoOpens(public, r.signature, signed_credential_target(p.commitment, r.salt))
  BY DEF FinishResult
<1>2. r.signature = spre(p.issuer_context, signed_credential_target(p.commitment, r.salt))
  BY <1>1 DEF MayoOpens
<1>3. PICK k \in log, l \in log :
        r = [signature |-> IssueResponse(k).signature, salt |-> l.salt]
  BY DEF Responses
<1>4. r.signature = spre(k.issuer, signed_credential_target(k.commitment, k.salt))
      /\ r.salt = l.salt
  BY <1>3 DEF IssueResponse
<1>5. k.issuer = p.issuer_context /\ k.commitment = p.commitment /\ k.salt = r.salt
  <2>1. spre(k.issuer, signed_credential_target(k.commitment, k.salt))
          = spre(p.issuer_context, signed_credential_target(p.commitment, r.salt))
    BY <1>2, <1>4
  <2> QED
    BY <2>1, SignatureOpens
<1>6. PICK s \in Secrets, h \in HidingNonces :
        k.commitment = credential_target(credential_scope(k.issuer, k.credential_context), s, h)
  BY DEF LogSound
<1>7. k.credential_context = p.credential_context
  <2>1. credential_target(credential_scope(k.issuer, k.credential_context), s, h)
          = credential_target(credential_scope(p.issuer_context, p.credential_context),
                              p.secret, p.hiding_nonce)
    BY <1>5, <1>6, PendingFacts
  <2> QED
    BY <2>1, CommitmentOpens
<1>8. r.salt \in Salts
  BY <1>4 DEF TypeOK
<1> QED
  BY <1>1, <1>2, <1>5, <1>7, <1>8

-----------------------------------------------------------------------------
LEMMA InitInvariant == Init => IInv
<1> SUFFICES ASSUME Init PROVE IInv
  OBVIOUS
<1>1. TypeOK
  BY DEF Init, TypeOK
<1>2. IsFiniteSet(log)
  BY FS_EmptySet DEF Init
<1> QED
  BY <1>1, <1>2 DEF Init, IInv, LogSound, CredentialsAuthentic

\* What a step leaves alone stays authentic as the log and the requests grow.
LEMMA AuthenticKept ==
    ASSUME CredentialsAuthentic, credentials' = credentials, log \subseteq log',
           \A s \in Sessions : credentials[s] # {} => asked'[s] = asked[s]
    PROVE  CredentialsAuthentic'
<1> SUFFICES ASSUME NEW s \in Sessions, NEW b \in credentials[s]
             PROVE  /\ verify_credential(b.issuer_context, b)
                    /\ asked'[s].proof.secret = b.secret
                    /\ \E call \in log' :
                         /\ call.issuer = b.issuer_context
                         /\ call.credential_context = b.credential_context
                         /\ call.commitment = asked'[s].commitment
                         /\ call.salt = b.salt
  BY DEF CredentialsAuthentic
<1> QED
  BY DEF CredentialsAuthentic

LEMMA PrepareStep ==
    ASSUME IInv, NEW s \in Sessions, NEW i \in Issuers, NEW c \in CredentialContexts,
           NEW secret \in Secrets, NEW h \in HidingNonces, Prepare(s, i, c, secret, h)
    PROVE  IInv'
<1> DEFINE p == PendingIssue(i, c, secret, h)
           q == [commitment |-> p.commitment,
                 proof |-> IssueProof(issue_statement(i, c, p.commitment),
                                      IssueCircuit(credential_scope(i, c), p.commitment),
                                      secret, h)]
<1>1. /\ asked[s] = None
      /\ pending' = [pending EXCEPT ![s] = p]
      /\ asked' = [asked EXCEPT ![s] = q]
      /\ saved' = saved /\ log' = log /\ credentials' = credentials
  BY DEF Prepare
<1>2. p \in PendingIssues
  BY DEF PendingIssues
<1>3. p.issuer_context = i /\ p.credential_context = c /\ p.secret = secret
      /\ p.hiding_nonce = h
  BY DEF PendingIssue
<1>4. q \in IssueRequests /\ q # None /\ p.commitment = q.commitment
      /\ p.secret = q.proof.secret
  <2>1. q \in IssueRequests
    BY <1>2, <1>3 DEF IssueRequests
  <2>2. q.proof.secret = secret
    BY DEF IssueProof
  <2> QED
    BY <1>3, <2>1, <2>2, RequestFacts
<1> HIDE DEF p, q
<1>5. TypeOK'
  BY <1>1, <1>2, <1>4 DEF IInv, TypeOK
<1>6. pending \in [Sessions -> PendingIssues \cup {None}]
      /\ asked \in [Sessions -> IssueRequests \cup {None}]
  BY DEF IInv, TypeOK
<1>7. \A t \in Sessions : credentials'[t] # {} => asked'[t] # None
  BY <1>1, <1>4, <1>6 DEF IInv
<1>8. \A t \in Sessions : pending'[t] # None => OpeningOf(pending'[t], asked'[t])
  <2>1. OpeningOf(p, q)
    BY <1>4 DEF OpeningOf
  <2> QED
    BY <1>1, <1>6, <2>1 DEF IInv
<1>9. \A t \in Sessions :
        saved'[t] # None => OpeningOf(pending_from_bytes(saved'[t]), asked'[t])
  BY <1>1, <1>6 DEF IInv, OpeningOf
<1>10. LogSound'
  BY <1>1 DEF IInv, LogSound
<1>11. CredentialsAuthentic'
  <2>1. \A t \in Sessions : credentials[t] # {} => asked'[t] = asked[t]
    BY <1>1, <1>6 DEF IInv
  <2> QED
    BY <1>1, <2>1, AuthenticKept DEF IInv
<1> QED
  BY <1>5, <1>7, <1>8, <1>9, <1>10, <1>11 DEF IInv

LEMMA SaveStep ==
    ASSUME IInv, NEW s \in Sessions, SavePending(s)
    PROVE  IInv'
<1>1. /\ pending[s] # None
      /\ saved' = [saved EXCEPT ![s] = pending_to_bytes(pending[s])]
      /\ pending' = pending /\ asked' = asked /\ log' = log /\ credentials' = credentials
  BY DEF SavePending
<1>2. pending[s] \in PendingIssues
  BY <1>1 DEF IInv, TypeOK
<1>3. TypeOK'
  BY <1>1, <1>2 DEF IInv, TypeOK
<1>4. \A t \in Sessions :
        saved'[t] # None => OpeningOf(pending_from_bytes(saved'[t]), asked'[t])
  <2>1. OpeningOf(pending_from_bytes(pending_to_bytes(pending[s])), asked[s])
    BY <1>1, <1>2, PendingFacts DEF IInv
  <2>2. DOMAIN saved = Sessions
    BY DEF IInv, TypeOK
  <2> QED
    BY <1>1, <2>1, <2>2 DEF IInv
<1>5. CredentialsAuthentic'
  BY <1>1, AuthenticKept DEF IInv
<1> QED
  BY <1>1, <1>3, <1>4, <1>5 DEF IInv, LogSound

LEMMA IssueStep ==
    ASSUME IInv, NEW i \in Issuers, NEW c \in CredentialContexts,
           NEW request \in Requests, NEW salt \in Salts, Issue(i, c, request, salt)
    PROVE  IInv'
<1> DEFINE new == [issuer |-> i, credential_context |-> c,
                   commitment |-> request.commitment, salt |-> salt]
<1>1. /\ Accepts(i, c, request)
      /\ log' = log \cup {new}
      /\ pending' = pending /\ saved' = saved /\ asked' = asked
      /\ credentials' = credentials
  BY DEF Issue
<1>2. PICK q \in Made, r \in Made :
        request = [commitment |-> q.commitment, proof |-> r.proof]
  BY DEF Requests
<1>3. q \in IssueRequests /\ r \in IssueRequests
  BY DEF Made, IInv, TypeOK
<1>4. request.commitment = q.commitment /\ request.proof = r.proof
  BY <1>2
<1>5. request.commitment
        = credential_target(credential_scope(i, c), r.proof.secret, r.proof.hiding_nonce)
  BY <1>1, <1>4 DEF Accepts, issue_verify, IssueCircuit
<1>6. new.issuer = i /\ new.credential_context = c /\ new.commitment = request.commitment
  OBVIOUS
<1>7. new \in [issuer : Issuers, credential_context : CredentialContexts,
               commitment : Commitments, salt : Salts]
  BY <1>3, <1>4, RequestFacts
<1> HIDE DEF new
<1>8. TypeOK'
  BY <1>1, <1>7 DEF IInv, TypeOK
<1>9. LogSound'
  <2>1. IsFiniteSet(log')
    BY <1>1, FS_AddElement DEF IInv, LogSound
  <2>2. \E s \in Secrets, h \in HidingNonces :
          new.commitment
            = credential_target(credential_scope(new.issuer, new.credential_context), s, h)
    BY <1>3, <1>5, <1>6, RequestFacts
  <2> QED
    BY <1>1, <2>1, <2>2 DEF IInv, LogSound
<1>10. CredentialsAuthentic'
  BY <1>1, AuthenticKept DEF IInv
<1> QED
  BY <1>1, <1>8, <1>9, <1>10 DEF IInv

\* Steps that only take a pending state out of memory or put a saved one there.
LEMMA PendingStep ==
    ASSUME IInv, NEW s \in Sessions, NEW p \in PendingIssues \cup {None},
           p # None => OpeningOf(p, asked[s]),
           pending' = [pending EXCEPT ![s] = p],
           saved' = saved, asked' = asked, log' = log, credentials' = credentials
    PROVE  IInv'
<1>1. TypeOK'
  BY DEF IInv, TypeOK
<1>2. \A t \in Sessions : pending'[t] # None => OpeningOf(pending'[t], asked'[t])
  <2>1. DOMAIN pending = Sessions
    BY DEF IInv, TypeOK
  <2> QED
    BY <2>1 DEF IInv
<1>3. CredentialsAuthentic'
  BY AuthenticKept DEF IInv
<1> QED
  BY <1>1, <1>2, <1>3 DEF IInv, LogSound

LEMMA RestoreStep ==
    ASSUME IInv, NEW s \in Sessions, NEW public \in Issuers, Restore(s, public)
    PROVE  IInv'
<1>1. /\ saved[s] # None
      /\ pending' = [pending EXCEPT ![s] = pending_from_bytes(saved[s])]
      /\ saved' = saved /\ asked' = asked /\ log' = log /\ credentials' = credentials
  BY DEF Restore
<1>2. PICK p \in PendingIssues : saved[s] = pending_to_bytes(p)
  BY <1>1 DEF IInv, TypeOK
<1>3. pending_from_bytes(saved[s]) \in PendingIssues
  BY <1>2, PendingFacts
<1>4. OpeningOf(pending_from_bytes(saved[s]), asked[s])
  BY <1>1 DEF IInv
<1> QED
  BY <1>1, <1>3, <1>4, PendingStep

LEMMA FinishStep ==
    ASSUME IInv, NEW s \in Sessions, NEW public \in Issuers, NEW request \in Requests,
           NEW response \in Responses, Finish(s, public, request, response)
    PROVE  IInv'
<1>1. /\ pending[s] # None
      /\ pending' = [pending EXCEPT ![s] = None]
      /\ saved' = saved /\ asked' = asked /\ log' = log
  BY DEF Finish
<1>2. CASE FinishResult(pending[s], public, request, response) # "Ok"
  <2>1. credentials' = credentials
    BY <1>2 DEF Finish
  <2> QED
    BY <1>1, <2>1, PendingStep
<1>3. CASE FinishResult(pending[s], public, request, response) = "Ok"
  <2> DEFINE p == pending[s]
             b == Finished(p, response)
  <2>1. credentials' = [credentials EXCEPT ![s] = credentials[s] \cup {b}]
    BY <1>3 DEF Finish
  <2>2. p \in PendingIssues
    BY <1>1 DEF IInv, TypeOK
  <2>3. TypeOK /\ LogSound /\ OpeningOf(p, asked[s])
    BY <1>1 DEF IInv
  <2> HIDE DEF p, b
  <2>4. /\ response.salt \in Salts
        /\ response.signature = spre(p.issuer_context,
                                     signed_credential_target(p.commitment, response.salt))
        /\ \E call \in log : /\ call.issuer = p.issuer_context
                             /\ call.credential_context = p.credential_context
                             /\ call.commitment = p.commitment
                             /\ call.salt = response.salt
    BY <1>3, <2>2, <2>3, ResponseSource DEF p
  <2>5. /\ b \in Bodies
        /\ verify_credential(b.issuer_context, b)
        /\ b.issuer_context = p.issuer_context
        /\ b.credential_context = p.credential_context
        /\ b.secret = p.secret
        /\ b.salt = response.salt
    BY <2>2, <2>4, FinishedBody DEF b
  <2>6. TypeOK'
    BY <1>1, <2>1, <2>3, <2>5 DEF TypeOK
  <2>7. credentials \in [Sessions -> SUBSET Bodies]
        /\ pending \in [Sessions -> PendingIssues \cup {None}]
    BY <2>3 DEF TypeOK
  <2>8. CredentialsAuthentic'
    <3>1. /\ asked[s].proof.secret = b.secret
          /\ \E call \in log : /\ call.issuer = b.issuer_context
                               /\ call.credential_context = b.credential_context
                               /\ call.commitment = asked[s].commitment
                               /\ call.salt = b.salt
      BY <2>3, <2>4, <2>5 DEF OpeningOf
    <3>2. \A t \in Sessions : \A x \in credentials'[t] :
            x \in credentials[t] \/ (t = s /\ x = b)
      BY <2>1, <2>7
    <3>3. CredentialsAuthentic
      BY DEF IInv
    <3> QED
      BY <1>1, <2>5, <3>1, <3>2, <3>3 DEF CredentialsAuthentic
  <2>9. \A t \in Sessions : credentials'[t] # {} => asked'[t] # None
    BY <1>1, <2>1, <2>3, <2>7 DEF IInv, OpeningOf
  <2>10. \A t \in Sessions : pending'[t] # None => OpeningOf(pending'[t], asked'[t])
    BY <1>1, <2>7 DEF IInv
  <2>11. LogSound'
    BY <1>1, <2>3 DEF LogSound
  <2> QED
    BY <1>1, <2>6, <2>8, <2>9, <2>10, <2>11 DEF IInv
<1> QED
  BY <1>2, <1>3

LEMMA StepInvariant == IInv /\ [Next]_vars => IInv'
<1> SUFFICES ASSUME IInv, [Next]_vars PROVE IInv'
  OBVIOUS
<1>1. ASSUME NEW s \in Sessions, NEW i \in Issuers, NEW c \in CredentialContexts,
             NEW secret \in Secrets, NEW h \in HidingNonces, Prepare(s, i, c, secret, h)
      PROVE  IInv'
  BY <1>1, PrepareStep
<1>2. ASSUME NEW s \in Sessions, NEW i \in Issuers, NEW request \in Requests,
             NEW response \in Responses, Finish(s, i, request, response)
      PROVE  IInv'
  BY <1>2, FinishStep
<1>3. ASSUME NEW s \in Sessions, NEW i \in Issuers, Restore(s, i)
      PROVE  IInv'
  BY <1>3, RestoreStep
<1>4. ASSUME NEW s \in Sessions, SavePending(s)
      PROVE  IInv'
  BY <1>4, SaveStep
<1>5. ASSUME NEW s \in Sessions, CrashClient(s)
      PROVE  IInv'
  BY <1>5, PendingStep DEF CrashClient
<1>6. ASSUME NEW i \in Issuers, NEW c \in CredentialContexts, NEW request \in Requests,
             NEW salt \in Salts, Issue(i, c, request, salt)
      PROVE  IInv'
  BY <1>6, IssueStep
<1>7. CASE Deny \/ UNCHANGED vars
  <2>1. UNCHANGED <<pending, saved, asked, log, credentials>>
    BY <1>7 DEF Deny, vars
  <2>2. CredentialsAuthentic'
    BY <2>1, AuthenticKept DEF IInv
  <2> QED
    BY <2>1, <2>2 DEF IInv, TypeOK, LogSound
<1> QED
  BY <1>1, <1>2, <1>3, <1>4, <1>5, <1>6, <1>7 DEF Next

LEMMA Invariant == Spec => []IInv
  BY InitInvariant, StepInvariant, PTL DEF Spec

-----------------------------------------------------------------------------
(* Authenticators and their log entries.                                   *)

\* An authenticator that verifies opens a commitment accepted for its context,
\* under the salt drawn then.
LEMMA AuthenticatorSource ==
    ASSUME TypeOK, LogSound, NEW i \in Issuers, NEW c \in CredentialContexts,
           NEW b \in Authenticators(i, c)
    PROVE  /\ b = CredentialBody(i, c, b.secret, b.hiding_nonce, b.salt)
           /\ b.secret \in Secrets /\ b.hiding_nonce \in HidingNonces /\ b.salt \in Salts
           /\ \E call \in log :
                /\ call.issuer = i /\ call.credential_context = c
                /\ call.commitment = credential_target(credential_scope(i, c),
                                                       b.secret, b.hiding_nonce)
                /\ call.salt = b.salt
<1>1. /\ b \in [issuer_context : {i}, credential_context : {c},
                signature : {IssueResponse(call).signature : call \in log},
                secret : Secrets, hiding_nonce : HidingNonces, salt : Salts]
      /\ verify_credential(i, b)
  BY DEF Authenticators
<1>2. /\ b.issuer_context = i /\ b.credential_context = c
      /\ b.secret \in Secrets /\ b.hiding_nonce \in HidingNonces /\ b.salt \in Salts
      /\ b = [issuer_context |-> b.issuer_context,
              credential_context |-> b.credential_context, signature |-> b.signature,
              secret |-> b.secret, hiding_nonce |-> b.hiding_nonce, salt |-> b.salt]
  BY <1>1
<1>3. PICK call \in log : b.signature = IssueResponse(call).signature
  BY <1>1
<1>4. b.signature = spre(call.issuer, signed_credential_target(call.commitment, call.salt))
  BY <1>3 DEF IssueResponse
<1> DEFINE commitment == credential_target(credential_scope(i, c), b.secret, b.hiding_nonce)
<1>5. b.signature = spre(i, signed_credential_target(commitment, b.salt))
  BY <1>1, <1>2 DEF verify_credential, MayoOpens, SignedTarget
<1>6. b = CredentialBody(i, c, b.secret, b.hiding_nonce, b.salt)
  BY <1>2, <1>5 DEF CredentialBody
<1> HIDE DEF commitment
<1>7. call.issuer = i /\ call.commitment = commitment /\ call.salt = b.salt
  <2>1. spre(call.issuer, signed_credential_target(call.commitment, call.salt))
          = spre(i, signed_credential_target(commitment, b.salt))
    BY <1>4, <1>5
  <2> QED
    BY <2>1, SignatureOpens
<1>8. call.credential_context = c
  <2>1. PICK s \in Secrets, h \in HidingNonces :
          call.commitment
            = credential_target(credential_scope(call.issuer, call.credential_context), s, h)
    BY DEF LogSound
  <2>2. credential_target(credential_scope(call.issuer, call.credential_context), s, h)
          = credential_target(credential_scope(i, c), b.secret, b.hiding_nonce)
    BY <1>7, <2>1 DEF commitment
  <2> QED
    BY <2>2, CommitmentOpens
<1> QED
  BY <1>2, <1>6, <1>7, <1>8 DEF commitment

-----------------------------------------------------------------------------
\* Shapes of pending states, requests, the log and credentials.
THEOREM IssuanceTypeOK == Spec => []TypeOK
<1>1. IInv => TypeOK
  BY DEF IInv
<1> QED
  BY <1>1, Invariant, PTL

\* Behind every authenticator that verifies is a call of issue that accepted, for
\* its issuer and its context, the commitment it opens, and drew its salt.  That
\* the call was for this context and no other rests on what issue checks: the log
\* only holds commitments opened under the context they were accepted for.
THEOREM IssuancePopulation == Spec => []IssuedOnlyByIssuance
<1>1. IInv => IssuedOnlyByIssuance
  <2> SUFFICES ASSUME IInv, NEW i \in Issuers, NEW c \in CredentialContexts,
                      NEW b \in Authenticators(i, c)
               PROVE  \E call \in log :
                        /\ call.issuer = i
                        /\ call.credential_context = c
                        /\ call.commitment = credential_target(credential_scope(i, c),
                                                               b.secret, b.hiding_nonce)
                        /\ call.salt = b.salt
    BY DEF IssuedOnlyByIssuance
  <2> QED
    BY AuthenticatorSource DEF IInv
<1> QED
  BY <1>1, Invariant, PTL

\* The lineages under an issuer and a context are at most the commitments issue
\* accepted there, however requests are repeated, recombined and re-salted.
THEOREM IssuanceLineagesPaidFor == Spec => []LineagesPaidFor
<1>1. IInv => LineagesPaidFor
  <2> SUFFICES ASSUME IInv, NEW i \in Issuers, NEW c \in CredentialContexts
               PROVE  Cardinality({b.secret : b \in Authenticators(i, c)})
                        <= Cardinality({call.commitment : call \in {k \in log :
                             k.issuer = i /\ k.credential_context = c}})
    BY DEF LineagesPaidFor
  <2> DEFINE L == {b.secret : b \in Authenticators(i, c)}
             K == {k \in log : k.issuer = i /\ k.credential_context = c}
             M == {call.commitment : call \in K}
             secret == [m \in M |-> CHOOSE s : \E h \in HidingNonces :
                          m = credential_target(credential_scope(i, c), s, h)]
  <2>1. IsFiniteSet(K)
    <3>1. IsFiniteSet(log)
      BY DEF IInv, LogSound
    <3> QED
      BY <3>1, FS_Subset
  <2>2. IsFiniteSet(M)
    <3>1. [k \in K |-> k.commitment] \in Surjection(K, M)
      BY DEF Surjection
    <3> QED
      BY <2>1, <3>1, FS_Surjection
  <2>3. \A l \in L : \E m \in M : secret[m] = l
    <3> SUFFICES ASSUME NEW b \in Authenticators(i, c)
                 PROVE  \E m \in M : secret[m] = b.secret
      OBVIOUS
    <3>1. PICK call \in log :
            /\ call.issuer = i /\ call.credential_context = c
            /\ call.commitment
                 = credential_target(credential_scope(i, c), b.secret, b.hiding_nonce)
      BY AuthenticatorSource DEF IInv
    <3>2. b.hiding_nonce \in HidingNonces
      BY AuthenticatorSource DEF IInv
    <3>3. call.commitment \in M
      BY <3>1
    <3>4. \A s : (\E h \in HidingNonces :
                    call.commitment = credential_target(credential_scope(i, c), s, h))
                   <=> s = b.secret
      BY <3>1, <3>2, CommitmentOpens
    <3>5. (CHOOSE s : \E h \in HidingNonces :
             call.commitment = credential_target(credential_scope(i, c), s, h)) = b.secret
      BY <3>4
    <3>6. secret[call.commitment] = b.secret
      BY <3>3, <3>5
    <3> QED
      BY <3>3, <3>6
  <2> HIDE DEF secret, M, K
  <2>4. L \subseteq {secret[m] : m \in M}
    BY <2>3
  <2>5. IsFiniteSet({secret[m] : m \in M})
        /\ Cardinality({secret[m] : m \in M}) <= Cardinality(M)
    <3>1. [m \in M |-> secret[m]] \in Surjection(M, {secret[m] : m \in M})
      BY DEF Surjection
    <3> QED
      BY <2>2, <3>1, FS_Surjection
  <2>6. Cardinality(L) <= Cardinality({secret[m] : m \in M})
    BY <2>4, <2>5, FS_Subset
  <2>7. /\ Cardinality(L) \in Nat /\ Cardinality(M) \in Nat
        /\ Cardinality({secret[m] : m \in M}) \in Nat
    BY <2>2, <2>4, <2>5, FS_CardinalityType, FS_Subset
  <2> QED
    BY <2>5, <2>6, <2>7 DEF M, K
<1> QED
  BY <1>1, Invariant, PTL

\* finish returns credentials of the session's own secret, issuer and context.
THEOREM IssuanceAuthentic == Spec => []CredentialsAuthentic
<1>1. IInv => CredentialsAuthentic
  BY DEF IInv
<1> QED
  BY <1>1, Invariant, PTL

\* Saved pending state finishes with any response to its session's request.
THEOREM IssuanceAnswerUsable == Spec => []AnswerUsable
<1>1. IInv => AnswerUsable
  <2> SUFFICES ASSUME IInv, NEW s \in Sessions, saved[s] # None, NEW call \in log,
                      call.commitment = asked[s].commitment
               PROVE  FinishResult(pending_from_bytes(saved[s]), saved[s].issuer_context,
                                   asked[s], IssueResponse(call)) = "Ok"
    BY DEF AnswerUsable
  <2>1. PICK p \in PendingIssues : saved[s] = pending_to_bytes(p)
    BY DEF IInv, TypeOK
  <2>2. pending_from_bytes(saved[s]) = p /\ saved[s].issuer_context = p.issuer_context
    BY <2>1, PendingFacts DEF pending_to_bytes
  <2>3. p.commitment = asked[s].commitment
    BY <2>2 DEF IInv, OpeningOf
  <2>4. call.issuer = p.issuer_context
    <3>1. PICK x \in Secrets, h \in HidingNonces :
            call.commitment
              = credential_target(credential_scope(call.issuer, call.credential_context), x, h)
      BY DEF IInv, LogSound
    <3>2. credential_target(credential_scope(call.issuer, call.credential_context), x, h)
            = credential_target(credential_scope(p.issuer_context, p.credential_context),
                                p.secret, p.hiding_nonce)
      BY <2>3, <3>1, PendingFacts
    <3> QED
      BY <3>2, CommitmentOpens
  <2>5. /\ IssueResponse(call).signature
             = spre(p.issuer_context, signed_credential_target(p.commitment, call.salt))
        /\ IssueResponse(call).salt = call.salt
    BY <2>3, <2>4 DEF IssueResponse
  <2> QED
    BY <2>2, <2>3, <2>5 DEF FinishResult, MayoOpens
<1> QED
  BY <1>1, Invariant, PTL

-----------------------------------------------------------------------------
(* The deployment: issuance with a verifier behind it.                     *)

\* A proof that verifies was made from an opening of a commitment in the log, at
\* a nonce below the limit, and the key is the one of that opening.
LEMMA AcceptedPresentation ==
    ASSUME TypeOK, LogSound, NEW body \in AllAuthenticators, NEW i \in Issuers,
           NEW ch \in Challenges, NEW nonce \in 0..U32Max, NEW result,
           verify_proof_only(i, ch, PresentationOf(i, ch, body, nonce))
    PROVE  LET shown == PresentationOf(i, ch, body, nonce)
               r == [result |-> result, issuer |-> i, challenge |-> ch,
                     witness |-> shown.proof.witness]
           IN  /\ Sound(r)
               /\ Key(i, ch, shown) =
                    <<ScopeOf(i, ch), derive_tag(r.witness.secret, ScopeOf(i, ch),
                                                 r.witness.presentation_nonce)>>
<1> DEFINE tag == derive_tag(body.secret, ScopeOf(i, ch), nonce)
           w == PresentationSecrets(body, nonce)
           circuit == PresentationCircuit(i, ch, tag)
           shown == PresentationOf(i, ch, body, nonce)
           r == [result |-> result, issuer |-> i, challenge |-> ch, witness |-> w]
           scope == credential_scope(i, ch.credential_context)
<1>1. shown.tag = tag /\ shown.proof.witness = w /\ shown.proof.circuit = circuit
  BY DEF PresentationOf, prove
<1>2. CircuitSatisfied(circuit, w)
  BY <1>1 DEF verify_proof_only, vole_verify
<1>3. /\ w.signature = body.signature /\ w.secret = body.secret
      /\ w.hiding_nonce = body.hiding_nonce /\ w.salt = body.salt
      /\ w.presentation_nonce = nonce
  BY DEF PresentationSecrets
<1>4. /\ circuit.mayo_system = i /\ circuit.credential_scope = scope
      /\ circuit.presentation_limit = ch.limit
  BY DEF PresentationCircuit
<1>5. PICK j \in Issuers, c \in CredentialContexts : body \in Authenticators(j, c)
  BY DEF AllAuthenticators
<1>6. /\ body = CredentialBody(j, c, body.secret, body.hiding_nonce, body.salt)
      /\ body.secret \in Secrets /\ body.hiding_nonce \in HidingNonces
      /\ \E k \in log :
           /\ k.issuer = j /\ k.credential_context = c
           /\ k.commitment = credential_target(credential_scope(j, c),
                                               body.secret, body.hiding_nonce)
  BY <1>5, AuthenticatorSource
<1> DEFINE mine == credential_target(credential_scope(j, c), body.secret, body.hiding_nonce)
           shownto == credential_target(scope, body.secret, body.hiding_nonce)
<1>7. j = i /\ c = ch.credential_context
  <2>1. body.signature = spre(j, signed_credential_target(mine, body.salt))
    BY <1>6 DEF CredentialBody
  <2>2. body.signature = spre(i, signed_credential_target(shownto, body.salt))
    BY <1>2, <1>3, <1>4 DEF CircuitSatisfied, MayoOpens, SignedTarget
  <2> HIDE DEF mine, shownto
  <2>3. j = i /\ mine = shownto
    <3>1. spre(j, signed_credential_target(mine, body.salt))
            = spre(i, signed_credential_target(shownto, body.salt))
      BY <2>1, <2>2
    <3> QED
      BY <3>1, SignatureOpens
  <2> QED
    BY <2>3, CommitmentOpens DEF mine, shownto
<1>8. nonce \in 0..ch.limit - 1
  <2>1. nonce < ch.limit
    BY <1>2, <1>3, <1>4 DEF CircuitSatisfied, assert_u32_less_than
  <2>2. ch.limit \in 0..U32Max
    BY LimitsAssumption DEF Challenges
  <2>3. U32Max \in Nat
    BY U32MaxAssumption
  <2> QED
    BY <2>1, <2>2, <2>3
<1>9. r.issuer = i /\ r.challenge = ch /\ r.witness = w
  OBVIOUS
<1> HIDE DEF r, w, circuit, shown, tag
<1>10. Backed(r)
  BY <1>3, <1>6, <1>7, <1>9 DEF Backed
<1>11. Sound(r)
  BY <1>3, <1>6, <1>8, <1>9, <1>10 DEF Sound
<1>12. Key(i, ch, shown) = <<ScopeOf(i, ch), derive_tag(r.witness.secret, ScopeOf(i, ch),
                                                       r.witness.presentation_nonce)>>
  BY <1>1, <1>3, <1>9 DEF Key, tag
<1> QED
  BY <1>1, <1>11, <1>12 DEF r, shown

LEMMA DeploymentInitInvariant == DeploymentInit => DeploymentIInv
<1> SUFFICES ASSUME DeploymentInit PROVE DeploymentIInv
  OBVIOUS
<1>1. IInv
  BY InitInvariant DEF DeploymentInit
<1>2. store = {} /\ verdict = [v \in Calls |-> Uncalled]
  BY DEF DeploymentInit
<1>3. \A v \in Calls : verdict[v].result = "none"
  BY <1>2 DEF Uncalled
<1>4. verdict = [v \in Calls |-> verdict[v]]
  BY <1>2
<1> QED
  BY <1>1, <1>2, <1>3, <1>4 DEF DeploymentIInv, Answered

\* The log only grows, so openings stay backed.
LEMMA StaysSound ==
    ASSUME log \subseteq log', NEW r, Sound(r)
    PROVE  Sound(r)'
BY DEF Sound, Backed

LEMMA LogGrows == ASSUME [Next]_vars PROVE log \subseteq log'
BY DEF Next, vars, Prepare, Finish, Restore, SavePending, CrashClient, Issue, Deny

\* Issuance goes on: nothing at the verifier moves.
LEMMA IssuanceGoesOn ==
    ASSUME DeploymentIInv, [Next]_vars, UNCHANGED <<store, verdict>>
    PROVE  DeploymentIInv'
<1>1. IInv'
  BY StepInvariant DEF DeploymentIInv
<1>2. log \subseteq log'
  BY LogGrows
<1>3. \A v \in Calls : Answered(v)' <=> Answered(v)
  BY DEF Answered
<1>4. \A v \in Calls : KeyOf(v)' = KeyOf(v)
  BY DEF KeyOf
<1>5. \A v \in Calls : Answered(v)' => Sound(verdict[v])'
  <2> SUFFICES ASSUME NEW v \in Calls, Answered(v)' PROVE Sound(verdict[v])'
    OBVIOUS
  <2>1. Sound(verdict[v])
    BY <1>3 DEF DeploymentIInv
  <2>2. Backed(verdict[v])'
    BY <1>2, <2>1 DEF Sound, Backed
  <2> QED
    BY <2>1, <2>2 DEF Sound
<1> QED
  BY <1>1, <1>3, <1>4, <1>5 DEF DeploymentIInv

\* A call of verify answers itself alone, and only a grant enters the store.
LEMMA VerifyStep ==
    ASSUME DeploymentIInv, NEW v \in Calls, NEW body \in AllAuthenticators,
           NEW i \in Issuers, NEW ch \in Challenges, NEW nonce \in 0..U32Max,
           Verify(v, i, ch, PresentationOf(i, ch, body, nonce))
    PROVE  DeploymentIInv'
<1> DEFINE shown == PresentationOf(i, ch, body, nonce)
           key == Key(i, ch, shown)
           answer(result) == [result |-> result, issuer |-> i, challenge |-> ch,
                              witness |-> shown.proof.witness]
<1>1. verdict[v] = Uncalled /\ UNCHANGED vars
  BY DEF Verify
<1>2. IInv'
  BY <1>1, StepInvariant DEF DeploymentIInv
<1>3. TypeOK /\ LogSound /\ log' = log
  BY <1>1 DEF DeploymentIInv, IInv, vars
<1>4. verdict[v].result = "none"
  BY <1>1 DEF Uncalled
<1>5. PICK x : verdict' = [verdict EXCEPT ![v] = x]
  BY DEF Verify, Returns
<1>6. /\ verdict' = [u \in Calls |-> verdict'[u]]
      /\ verdict'[v] = x
      /\ \A u \in Calls \ {v} : verdict'[u] = verdict[u]
  BY <1>5 DEF DeploymentIInv
<1>7. \A u \in Calls \ {v} : /\ Answered(u)' <=> Answered(u)
                             /\ KeyOf(u)' = KeyOf(u)
                             /\ Sound(verdict[u])' <=> Sound(verdict[u])
  BY <1>3, <1>6 DEF Answered, KeyOf, Sound, Backed
<1>8. CASE x.result \notin {"Ok", "TagAlreadyUsed"} /\ store' = store
  <2>1. ~Answered(v)' /\ verdict'[v].result # "Ok"
    BY <1>6, <1>8 DEF Answered
  <2> QED
    BY <1>2, <1>4, <1>6, <1>7, <1>8, <2>1 DEF DeploymentIInv
<1>9. ASSUME NEW result \in {"Ok", "TagAlreadyUsed"}, x = answer(result),
             verify_proof_only(i, ch, shown)
      PROVE  Sound(verdict[v])' /\ KeyOf(v)' = key /\ verdict'[v].result = result
  <2>1. verdict'[v] = answer(result)
    BY <1>6, <1>9
  <2>2. /\ Sound(answer(result))
        /\ key = <<ScopeOf(i, ch), derive_tag(answer(result).witness.secret, ScopeOf(i, ch),
                                              answer(result).witness.presentation_nonce)>>
    BY <1>3, <1>9, AcceptedPresentation
  <2>3. /\ answer(result).result = result /\ answer(result).issuer = i
        /\ answer(result).challenge = ch
    OBVIOUS
  <2> HIDE DEF answer, key, shown
  <2>4. Sound(verdict[v])'
    BY <1>3, <2>1, <2>2 DEF Sound, Backed
  <2>5. KeyOf(v)' = key
    BY <2>1, <2>2, <2>3 DEF KeyOf
  <2> QED
    BY <2>1, <2>3, <2>4, <2>5
<1>10. CASE /\ verify_proof_only(i, ch, shown) /\ key \in store
            /\ x = answer("TagAlreadyUsed") /\ store' = store
  <2>1. Sound(verdict[v])' /\ KeyOf(v)' = key /\ verdict'[v].result = "TagAlreadyUsed"
    BY <1>9, <1>10
  <2> HIDE DEF answer, key, shown
  <2> QED
    BY <1>2, <1>4, <1>6, <1>7, <1>10, <2>1 DEF DeploymentIInv
<1>11. CASE /\ verify_proof_only(i, ch, shown) /\ key \notin store
            /\ x = answer("Ok") /\ store' = store \cup {key}
  <2>1. Sound(verdict[v])' /\ KeyOf(v)' = key /\ verdict'[v].result = "Ok"
    BY <1>9, <1>11
  <2> HIDE DEF answer, key, shown
  <2>2. \A u \in Calls \ {v} : Answered(u) => KeyOf(u)' # key
    BY <1>7, <1>11 DEF DeploymentIInv
  <2>3. \A u \in Calls \ {v} : verdict'[u].result = "Ok" => KeyOf(u)' # key
    BY <1>6, <2>2 DEF Answered
  <2>4. \A u, w \in Calls :
          verdict'[u].result = "Ok" /\ verdict'[w].result = "Ok" /\ KeyOf(u)' = KeyOf(w)' => u = w
    BY <1>6, <1>7, <2>1, <2>3 DEF DeploymentIInv
  <2>5. \A u \in Calls : Answered(u)' => Sound(verdict[u])' /\ KeyOf(u)' \in store'
    BY <1>7, <1>11, <2>1 DEF DeploymentIInv
  <2>6. \A k \in store' : \E u \in Calls : verdict'[u].result = "Ok" /\ KeyOf(u)' = k
    BY <1>4, <1>6, <1>7, <1>11, <2>1 DEF DeploymentIInv
  <2> QED
    BY <1>2, <1>6, <2>4, <2>5, <2>6 DEF DeploymentIInv
<1>12. \/ x.result \notin {"Ok", "TagAlreadyUsed"} /\ store' = store
       \/ /\ verify_proof_only(i, ch, shown) /\ key \in store
          /\ x = answer("TagAlreadyUsed") /\ store' = store
       \/ /\ verify_proof_only(i, ch, shown) /\ key \notin store
          /\ x = answer("Ok") /\ store' = store \cup {key}
  <2>1. ASSUME NEW y, verdict' = [verdict EXCEPT ![v] = y]
        PROVE  x = y
    BY <1>6, <2>1 DEF DeploymentIInv
  <2> QED
    BY <2>1 DEF Verify, Returns, Refused
<1> QED
  BY <1>8, <1>10, <1>11, <1>12

LEMMA DeploymentInvariant == DeploymentSpec => []DeploymentIInv
<1>1. DeploymentIInv /\ [DeploymentNext]_deployment_vars => DeploymentIInv'
  <2> SUFFICES ASSUME DeploymentIInv, [DeploymentNext]_deployment_vars
               PROVE  DeploymentIInv'
    OBVIOUS
  <2>1. CASE [Next]_vars /\ UNCHANGED <<store, verdict>>
    BY <2>1, IssuanceGoesOn
  <2>2. ASSUME NEW v \in Calls, NEW body \in AllAuthenticators, NEW i \in Issuers,
               NEW ch \in Challenges, NEW nonce \in 0..U32Max,
               Verify(v, i, ch, PresentationOf(i, ch, body, nonce))
        PROVE  DeploymentIInv'
    BY <2>2, VerifyStep
  <2> QED
    BY <2>1, <2>2 DEF DeploymentNext, deployment_vars
<1> QED
  BY <1>1, DeploymentInitInvariant, PTL DEF DeploymentSpec

\* A bucket is granted at most L times for each commitment accepted for its
\* context: a granted call shows an opening of one of them, and no two granted
\* calls share the opened commitment and the nonce.
THEOREM DeploymentPaidUses == DeploymentSpec => []PaidUses
<1>1. DeploymentIInv => PaidUses
  <2> SUFFICES ASSUME DeploymentIInv, NEW i \in Issuers, NEW c \in CredentialContexts,
                      NEW p \in PresentationContexts, NEW L \in 0..U32Max
               PROVE  Cardinality(GrantedUnder(i, c, p, L))
                        <= Cardinality({k.commitment : k \in {k \in log :
                             k.issuer = i /\ k.credential_context = c}}) * L
    BY DEF PaidUses
  <2> DEFINE S == GrantedUnder(i, c, p, L)
             K == {k \in log : k.issuer = i /\ k.credential_context = c}
             M == {k.commitment : k \in K}
             Opens(m, s) == \E h \in HidingNonces :
                              m = credential_target(credential_scope(i, c), s, h)
             opened(v) == CHOOSE m \in M : Opens(m, verdict[v].witness.secret)
             f == [v \in S |-> <<opened(v), verdict[v].witness.presentation_nonce>>]
  <2>1. L \in Nat
    BY U32MaxAssumption
  <2>2. IsFiniteSet(M)
    <3>1. IsFiniteSet(K)
      BY FS_Subset DEF DeploymentIInv, IInv, LogSound
    <3>2. [k \in K |-> k.commitment] \in Surjection(K, M)
      BY DEF Surjection
    <3> QED
      BY <3>1, <3>2, FS_Surjection
  <2>3. ASSUME NEW v \in S
        PROVE  /\ v \in Calls /\ verdict[v].result = "Ok"
               /\ ScopeOf(verdict[v].issuer, verdict[v].challenge) = presentation_scope(i, c, p)
               /\ verdict[v].witness.presentation_nonce \in 0..(L - 1)
               /\ opened(v) \in M /\ Opens(opened(v), verdict[v].witness.secret)
    <3>1. /\ v \in Calls /\ verdict[v].result = "Ok" /\ verdict[v].issuer = i
          /\ verdict[v].challenge.credential_context = c
          /\ verdict[v].challenge.presentation_context = p
          /\ verdict[v].challenge.limit <= L
      BY DEF GrantedUnder
    <3>2. Sound(verdict[v])
      BY <3>1 DEF DeploymentIInv, Answered
    <3>3. verdict[v].challenge.limit \in 0..U32Max
      BY <3>2, LimitsAssumption DEF Sound, Challenges
    <3>4. verdict[v].witness.presentation_nonce \in 0..(L - 1)
      BY <2>1, <3>1, <3>2, <3>3, U32MaxAssumption DEF Sound
    <3>5. \E m \in M : Opens(m, verdict[v].witness.secret)
      BY <3>1, <3>2 DEF Sound, Backed
    <3> HIDE DEF M, Opens
    <3>6. opened(v) \in M /\ Opens(opened(v), verdict[v].witness.secret)
      BY <3>5
    <3> QED
      BY <3>1, <3>4, <3>6 DEF ScopeOf
  <2>4. f \in [S -> M \X (0..(L - 1))]
    <3> HIDE DEF S, M, opened
    <3> QED
      BY <2>3
  <2>5. ASSUME NEW v \in S, NEW w \in S, f[v] = f[w]
        PROVE  v = w
    <3>1. opened(v) = opened(w)
          /\ verdict[v].witness.presentation_nonce = verdict[w].witness.presentation_nonce
      <4> HIDE DEF S, opened
      <4> QED
        BY <2>5
    <3>2. Opens(opened(v), verdict[v].witness.secret)
          /\ Opens(opened(v), verdict[w].witness.secret)
      <4> HIDE DEF S, opened, Opens
      <4> QED
        BY <2>3, <3>1
    <3>3. verdict[v].witness.secret = verdict[w].witness.secret
      <4> HIDE DEF opened
      <4>1. PICK g, h \in HidingNonces :
              credential_target(credential_scope(i, c), verdict[v].witness.secret, g)
                = credential_target(credential_scope(i, c), verdict[w].witness.secret, h)
        BY <3>2
      <4> QED
        BY <4>1, CommitmentOpens
    <3>4. KeyOf(v) = KeyOf(w)
      BY <2>3, <3>1, <3>3 DEF KeyOf
    <3> QED
      BY <2>3, <3>4 DEF DeploymentIInv
  <2> HIDE DEF f, S, M
  <2>6. /\ IsFiniteSet(M \X (0..(L - 1)))
        /\ Cardinality(M \X (0..(L - 1))) = Cardinality(M) * L
    <3>1. IsFiniteSet(0..(L - 1)) /\ Cardinality(0..(L - 1)) = L
      BY <2>1, FS_Interval
    <3> QED
      BY <2>2, <3>1, FS_Product
  <2>7. Cardinality(S) <= Cardinality(M \X (0..(L - 1)))
    <3>1. f \in Injection(S, M \X (0..(L - 1)))
      BY <2>4, <2>5 DEF Injection, IsInjective
    <3> QED
      BY <2>6, <3>1, FS_Injection
  <2> QED
    BY <2>6, <2>7 DEF S, M, K
<1> QED
  BY <1>1, DeploymentInvariant, PTL

\* What finish returned verifies at every nonce below the limit.
THEOREM DeploymentFinishedIsUsable == DeploymentSpec => []FinishedIsUsable
<1>1. DeploymentIInv => FinishedIsUsable
  <2> SUFFICES ASSUME DeploymentIInv, NEW s \in Sessions, NEW b \in credentials[s],
                      NEW ch \in Challenges, ch.credential_context = b.credential_context,
                      NEW nonce \in 0..ch.limit - 1
               PROVE  verify_proof_only(b.issuer_context, ch,
                                        PresentationOf(b.issuer_context, ch, b, nonce))
    BY DEF FinishedIsUsable
  <2> DEFINE i == b.issuer_context
             tag == derive_tag(b.secret, ScopeOf(i, ch), nonce)
             w == PresentationSecrets(b, nonce)
             circuit == PresentationCircuit(i, ch, tag)
  <2>1. verify_credential(i, b)
    BY DEF DeploymentIInv, IInv, CredentialsAuthentic
  <2>2. ch.limit # 0 /\ ch.limit \in Nat /\ nonce < ch.limit
    <3>1. ch.limit \in 0..U32Max /\ ch.limit # 0
      BY LimitsAssumption DEF Challenges
    <3> QED
      BY <3>1, U32MaxAssumption
  <2>3. /\ w.signature = b.signature /\ w.secret = b.secret
        /\ w.hiding_nonce = b.hiding_nonce /\ w.salt = b.salt
        /\ w.presentation_nonce = nonce
    BY DEF PresentationSecrets
  <2>4. /\ circuit.mayo_system = i
        /\ circuit.credential_scope = credential_scope(i, ch.credential_context)
        /\ circuit.presentation_scope = ScopeOf(i, ch)
        /\ circuit.presentation_limit = ch.limit /\ circuit.tag = tag
    BY DEF PresentationCircuit
  <2>5. MayoOpens(circuit.mayo_system, w.signature, SignedTarget(circuit.credential_scope, w))
    BY <2>1, <2>3, <2>4 DEF verify_credential, SignedTarget
  <2> HIDE DEF w, circuit
  <2>6. CircuitSatisfied(circuit, w)
    BY <2>2, <2>3, <2>4, <2>5 DEF CircuitSatisfied, assert_u32_less_than
  <2>7. /\ PresentationOf(i, ch, b, nonce).tag = tag
        /\ PresentationOf(i, ch, b, nonce).proof
             = prove(presentation_statement(i, ch, tag), circuit, w,
                     [issuer |-> i, challenge |-> ch])
    BY DEF PresentationOf, circuit, w
  <2> QED
    BY <2>2, <2>6, <2>7 DEF verify_proof_only, vole_verify, prove, circuit
<1> QED
  BY <1>1, DeploymentInvariant, PTL

\* A duplicate is one of its own lineage: the key it met is owned by a granted
\* call, and in one scope equal tags show equal secrets and nonces.
THEOREM DeploymentDuplicatesOfLineage == DeploymentSpec => []DuplicatesOfLineage
<1>1. DeploymentIInv => DuplicatesOfLineage
  <2> SUFFICES ASSUME DeploymentIInv, TagsDistinctInScope, NEW v \in Calls,
                      verdict[v].result = "TagAlreadyUsed"
               PROVE  \E w \in Calls :
                        /\ verdict[w].result = "Ok"
                        /\ ScopeOf(verdict[w].issuer, verdict[w].challenge)
                             = ScopeOf(verdict[v].issuer, verdict[v].challenge)
                        /\ verdict[w].witness.secret = verdict[v].witness.secret
                        /\ verdict[w].witness.presentation_nonce
                             = verdict[v].witness.presentation_nonce
    BY DEF DuplicatesOfLineage
  <2>1. Answered(v) /\ KeyOf(v) \in store
    BY DEF DeploymentIInv, Answered
  <2>2. PICK w \in Calls : verdict[w].result = "Ok" /\ KeyOf(w) = KeyOf(v)
    BY <2>1 DEF DeploymentIInv
  <2>3. Sound(verdict[v]) /\ Sound(verdict[w])
    BY <2>1, <2>2 DEF DeploymentIInv, Answered
  <2> DEFINE scope == ScopeOf(verdict[v].issuer, verdict[v].challenge)
             nonce(u) == verdict[u].witness.presentation_nonce
             secret(u) == verdict[u].witness.secret
  <2>4. /\ ScopeOf(verdict[w].issuer, verdict[w].challenge) = scope
        /\ derive_tag(secret(w), scope, nonce(w)) = derive_tag(secret(v), scope, nonce(v))
    BY <2>2 DEF KeyOf
  <2>5. ASSUME NEW u \in Calls, Sound(verdict[u])
        PROVE  secret(u) \in Secrets /\ nonce(u) \in 0..U32Max
    <3>1. verdict[u].challenge.limit \in 0..U32Max
      BY <2>5, LimitsAssumption DEF Sound, Challenges
    <3> QED
      BY <2>5, <3>1, U32MaxAssumption DEF Sound
  <2>6. scope \in Scopes
    <3>1. verdict[v].issuer \in Issuers /\ verdict[v].challenge \in Challenges
      BY <2>3 DEF Sound
    <3>2. /\ verdict[v].challenge.credential_context \in CredentialContexts
          /\ verdict[v].challenge.presentation_context \in PresentationContexts
      BY <3>1 DEF Challenges
    <3> QED
      BY <3>1, <3>2 DEF ScopeOf, Scopes
  <2> HIDE DEF scope, secret, nonce
  <2>7. secret(w) = secret(v) /\ nonce(w) = nonce(v)
    BY <2>3, <2>4, <2>5, <2>6 DEF TagsDistinctInScope
  <2> QED
    BY <2>2, <2>4, <2>7 DEF scope, secret, nonce
<1> QED
  BY <1>1, DeploymentInvariant, PTL
=============================================================================
