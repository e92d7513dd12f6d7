------------------------------- MODULE Issuance -------------------------------
(***************************************************************************)
(* Blind issuance.  A client session prepares a request for a hidden        *)
(* secret, may save its pending state, and finishes with a response.  The   *)
(* issuer verifies a request for the credential context its own policy      *)
(* selects and authenticates the commitment under a fresh salt; it keeps no *)
(* state.  Between them requests and responses are lost, delayed,           *)
(* repeated, delivered to the wrong party and recombined, and clients crash *)
(* and restore what they saved, any number of times.                        *)
(***************************************************************************)
EXTENDS ArcStatements

CONSTANT Sessions   \* client calls of prepare_issue, one name each

VARIABLES
    pending,       \* pending[s]: the PendingIssue in memory, or None
    saved,         \* saved[s]: its encoding in the client's storage, or None
    asked,         \* asked[s]: the IssueRequest of the session, or None
    log,           \* history: the issuer's successful calls of issue
    credentials    \* credentials[s]: what finish ever returned to the session

vars == <<pending, saved, asked, log, credentials>>

None == [absent |-> TRUE]

-----------------------------------------------------------------------------
(* The issuance relation.                                                  *)

issue_statement(issuer, credential_context, commitment) ==
    [issuer |-> issuer, credential_context |-> credential_context,
     commitment |-> commitment]

IssueCircuit(scope, target) == [credential_scope |-> scope, target |-> target]

IssueProof(statement, circuit, secret, hiding_nonce) ==
    [statement |-> statement, circuit |-> circuit,
     secret |-> secret, hiding_nonce |-> hiding_nonce]

issue_verify(statement, circuit, proof) ==
    /\ proof.statement = statement
    /\ proof.circuit = circuit
    /\ circuit.target =
         credential_target(circuit.credential_scope, proof.secret, proof.hiding_nonce)

-----------------------------------------------------------------------------
(* Issuer::issue.                                                          *)

\* Mutant: the context is taken from the request, not from the issuer's policy.
Accepts_requested_context(issuer, credential_context, request) ==
    \E c \in CredentialContexts :
      issue_verify(issue_statement(issuer, c, request.commitment),
                   IssueCircuit(credential_scope(issuer, c), request.commitment),
                   request.proof)

Accepts(issuer, credential_context, request) ==
    issue_verify(issue_statement(issuer, credential_context, request.commitment),
                 IssueCircuit(credential_scope(issuer, credential_context),
                              request.commitment),
                 request.proof)

\* The response of a call recorded in the log.
IssueResponse(call) ==
    [signature |-> spre(call.issuer,
                        signed_credential_target(call.commitment, call.salt)),
     salt |-> call.salt]

\* What the network can deliver: everything sent, whole or recombined.
Made == {asked[s] : s \in {r \in Sessions : asked[r] # None}}

Requests == {[commitment |-> q.commitment, proof |-> r.proof] : q \in Made, r \in Made}

Responses ==
    {[signature |-> IssueResponse(k).signature, salt |-> l.salt] : k \in log, l \in log}

-----------------------------------------------------------------------------
(* The client's pending state.                                             *)

PendingIssue(issuer, credential_context, secret, hiding_nonce) ==
    [issuer_context |-> issuer, credential_context |-> credential_context,
     secret |-> secret, hiding_nonce |-> hiding_nonce,
     commitment |-> credential_target(credential_scope(issuer, credential_context),
                                      secret, hiding_nonce)]

\* The commitment is left out of the encoding.
pending_to_bytes(p) ==
    [issuer_context |-> p.issuer_context, credential_context |-> p.credential_context,
     secret |-> p.secret, hiding_nonce |-> p.hiding_nonce]

\* Mutant: the two hidden values are read back in the wrong order.
pending_from_bytes_swapped(b) ==
    PendingIssue(b.issuer_context, b.credential_context, b.hiding_nonce, b.secret)

\* Decoding recomputes it.
pending_from_bytes(b) ==
    PendingIssue(b.issuer_context, b.credential_context, b.secret, b.hiding_nonce)

\* Mutant: the response is not authenticated.
FinishResult_unauthenticated(p, public, request, response) ==
    IF p.issuer_context # public THEN "WrongIssuer"
    ELSE IF request.commitment # p.commitment THEN "InvalidRequest"
    ELSE "Ok"

FinishResult(p, public, request, response) ==
    IF p.issuer_context # public THEN "WrongIssuer"
    ELSE IF request.commitment # p.commitment THEN "InvalidRequest"
    ELSE IF ~MayoOpens(public, response.signature,
                       signed_credential_target(p.commitment, response.salt))
         THEN "InvalidSignature"
    ELSE "Ok"

\* The credential finish returns, without its empty counters.
Finished(p, response) ==
    [issuer_context |-> p.issuer_context, credential_context |-> p.credential_context,
     signature |-> response.signature, secret |-> p.secret,
     hiding_nonce |-> p.hiding_nonce, salt |-> response.salt]

-----------------------------------------------------------------------------
Init ==
    /\ pending = [s \in Sessions |-> None]
    /\ saved = [s \in Sessions |-> None]
    /\ asked = [s \in Sessions |-> None]
    /\ log = {}
    /\ credentials = [s \in Sessions |-> {}]

\* PublicKey::prepare_issue.  Whoever runs the session, the hidden values are of
\* its choice: nothing here relies on them being fresh.
Prepare(s, issuer, credential_context, secret, hiding_nonce) ==
    LET p == PendingIssue(issuer, credential_context, secret, hiding_nonce) IN
    /\ asked[s] = None
    /\ pending' = [pending EXCEPT ![s] = p]
    /\ asked' = [asked EXCEPT ![s] =
         [commitment |-> p.commitment,
          proof |-> IssueProof(issue_statement(issuer, credential_context, p.commitment),
                               IssueCircuit(credential_scope(issuer, credential_context),
                                            p.commitment),
                               secret, hiding_nonce)]]
    /\ UNCHANGED <<saved, log, credentials>>

\* The application seals PendingIssue::to_bytes.
SavePending(s) ==
    /\ pending[s] # None
    /\ saved' = [saved EXCEPT ![s] = pending_to_bytes(pending[s])]
    /\ UNCHANGED <<pending, asked, log, credentials>>

\* Issuer::issue for the context of the issuer's policy.
Issue(issuer, credential_context, request, salt) ==
    /\ Accepts(issuer, credential_context, request)
    /\ \A call \in log : call.salt # salt
    /\ log' = log \cup {[issuer |-> issuer, credential_context |-> credential_context,
                         commitment |-> request.commitment, salt |-> salt]}
    /\ UNCHANGED <<pending, saved, asked, credentials>>

\* The proof does not verify, or preimage sampling fails: nothing has moved.
Deny ==
    /\ Requests # {}
    /\ UNCHANGED vars

\* PendingIssue::finish takes the pending state by value: an error loses it.
Finish(s, public, request, response) ==
    /\ pending[s] # None
    /\ pending' = [pending EXCEPT ![s] = None]
    /\ credentials' =
         IF FinishResult(pending[s], public, request, response) = "Ok"
         THEN [credentials EXCEPT ![s] = @ \cup {Finished(pending[s], response)}]
         ELSE credentials
    /\ UNCHANGED <<saved, asked, log>>

CrashClient(s) ==
    /\ pending[s] # None
    /\ pending' = [pending EXCEPT ![s] = None]
    /\ UNCHANGED <<saved, asked, log, credentials>>

\* PendingIssue::from_bytes, with WrongIssuer for another public key.
Restore(s, public) ==
    /\ pending[s] = None
    /\ saved[s] # None
    /\ saved[s].issuer_context = public
    /\ pending' = [pending EXCEPT ![s] = pending_from_bytes(saved[s])]
    /\ UNCHANGED <<saved, asked, log, credentials>>

Next ==
    \/ \E s \in Sessions, i \in Issuers :
         \/ \E c \in CredentialContexts, secret \in Secrets, h \in HidingNonces :
              Prepare(s, i, c, secret, h)
         \/ \E request \in Requests, response \in Responses :
              Finish(s, i, request, response)
         \/ Restore(s, i)
    \/ \E s \in Sessions : SavePending(s) \/ CrashClient(s)
    \/ \E i \in Issuers, c \in CredentialContexts, request \in Requests, salt \in Salts :
         Issue(i, c, request, salt)
    \/ Deny

Spec == Init /\ [][Next]_vars

-----------------------------------------------------------------------------
(* Properties.                                                             *)

Commitments ==
    {credential_target(credential_scope(i, c), s, h) :
       i \in Issuers, c \in CredentialContexts, s \in Secrets, h \in HidingNonces}

PendingIssues ==
    {PendingIssue(i, c, s, h) :
       i \in Issuers, c \in CredentialContexts, s \in Secrets, h \in HidingNonces}

Bodies ==
    {CredentialBody(i, c, s, h, salt) :
       i \in Issuers, c \in CredentialContexts, s \in Secrets, h \in HidingNonces,
       salt \in Salts}

IssueRequests ==
    {[commitment |-> p.commitment,
      proof |-> IssueProof(issue_statement(p.issuer_context, p.credential_context,
                                           p.commitment),
                           IssueCircuit(credential_scope(p.issuer_context,
                                                         p.credential_context),
                                        p.commitment),
                           p.secret, p.hiding_nonce)] : p \in PendingIssues}

\* Shapes of pending states, encodings, requests, the log and the credentials.
TypeOK ==
    /\ pending \in [Sessions -> PendingIssues \cup {None}]
    /\ saved \in [Sessions -> {pending_to_bytes(p) : p \in PendingIssues} \cup {None}]
    /\ asked \in [Sessions -> IssueRequests \cup {None}]
    /\ log \subseteq [issuer : Issuers, credential_context : CredentialContexts,
                      commitment : Commitments, salt : Salts]
    /\ credentials \in [Sessions -> SUBSET Bodies]

\* The authenticators that anyone could assemble from the signatures the issuers
\* released and any hidden values, and that verify.
Authenticators(issuer, credential_context) ==
    {b \in [issuer_context : {issuer}, credential_context : {credential_context},
            signature : {IssueResponse(call).signature : call \in log},
            secret : Secrets, hiding_nonce : HidingNonces, salt : Salts] :
       verify_credential(issuer, b)}

\* Tag keys are paid for: the lineages that exist under an issuer and a
\* credential context are no more than the commitments that issuer accepted for
\* that very context.  Repeating a request, recombining messages or presenting a
\* request under another context never mints one, whatever salts were signed.
LineagesPaidFor ==
    \A i \in Issuers, c \in CredentialContexts :
      Cardinality({b.secret : b \in Authenticators(i, c)})
        <= Cardinality({call.commitment : call \in {k \in log :
             k.issuer = i /\ k.credential_context = c}})

\* Every authenticator that verifies goes back to one call of issue: whoever
\* assembled it, the issuer accepted the very commitment it opens, under its
\* policy's choice of the very context it verifies for, and drew the salt it
\* carries.  What was accepted for one context is worth nothing in another.
IssuedOnlyByIssuance ==
    \A i \in Issuers, c \in CredentialContexts : \A b \in Authenticators(i, c) :
      \E call \in log :
        /\ call.issuer = i
        /\ call.credential_context = c
        /\ call.commitment = credential_target(credential_scope(i, c), b.secret,
                                               b.hiding_nonce)
        /\ call.salt = b.salt

\* A credential that finish returned verifies, under the session's own issuer and
\* context and for its own secret, and the issuer did authenticate that session's
\* commitment under the salt it carries, for that context.
CredentialsAuthentic ==
    \A s \in Sessions : \A b \in credentials[s] :
      /\ verify_credential(b.issuer_context, b)
      /\ asked[s].proof.secret = b.secret
      /\ \E call \in log :
           /\ call.issuer = b.issuer_context
           /\ call.credential_context = b.credential_context
           /\ call.commitment = asked[s].commitment
           /\ call.salt = b.salt

\* A saved session is never stranded: whatever crashed or was used up in between,
\* decoding its pending state and finishing with any response the issuer gave to
\* its request succeeds.
AnswerUsable ==
    \A s \in Sessions : saved[s] # None =>
      \A call \in log : call.commitment = asked[s].commitment =>
        FinishResult(pending_from_bytes(saved[s]), saved[s].issuer_context,
                     asked[s], IssueResponse(call)) = "Ok"

\* The inductive invariant: a session's pending state, in memory and saved, is
\* the opening of the request it made, and the log holds only commitments opened
\* under the context they were accepted for.
OpeningOf(p, request) ==
    /\ request # None
    /\ p.commitment = request.commitment
    /\ p.secret = request.proof.secret

LogSound ==
    /\ IsFiniteSet(log)
    /\ \A call \in log : \E s \in Secrets, h \in HidingNonces :
         call.commitment =
           credential_target(credential_scope(call.issuer, call.credential_context), s, h)

IInv ==
    /\ TypeOK
    /\ \A s \in Sessions : credentials[s] # {} => asked[s] # None
    /\ \A s \in Sessions : pending[s] # None => OpeningOf(pending[s], asked[s])
    /\ \A s \in Sessions :
         saved[s] # None => OpeningOf(pending_from_bytes(saved[s]), asked[s])
    /\ LogSound
    /\ CredentialsAuthentic
=============================================================================
