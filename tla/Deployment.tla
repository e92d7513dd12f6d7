------------------------------- MODULE Deployment -------------------------------
(***************************************************************************)
(* Issuance and verification at once: while clients ask, crash, restore and *)
(* finish, and the issuer signs whatever it accepts, whoever can assemble   *)
(* an authenticator from released signatures presents it.  Nobody follows   *)
(* the counters of Credential here: provers choose their nonces freely.     *)
(*                                                                         *)
(* The relying party runs one Verifier, whose verify takes it exclusively,  *)
(* so that a call is one step; replicas and failing stores are Verifier's.  *)
(***************************************************************************)
EXTENDS Issuance

CONSTANT Calls

VARIABLES
    store,   \* the tags consumed, a set of <<scope, tag>>
    verdict  \* verdict[v]: what the call of verify v was shown and what it returned

deployment_vars == <<vars, store, verdict>>

-----------------------------------------------------------------------------
(* What provers can make.                                                  *)

\* A presentation of an authenticator at a nonce for a challenge of an issuer,
\* as present makes it but with any nonce.
PresentationOf(issuer, challenge, body, nonce) ==
    LET tag == derive_tag(body.secret, ScopeOf(issuer, challenge), nonce) IN
    [tag |-> tag,
     proof |-> prove(presentation_statement(issuer, challenge, tag),
                     PresentationCircuit(issuer, challenge, tag),
                     PresentationSecrets(body, nonce),
                     [issuer |-> issuer, challenge |-> challenge])]

AllAuthenticators == UNION {Authenticators(i, c) : i \in Issuers, c \in CredentialContexts}

Uncalled == [result |-> "none"]

Refused == [result |-> "InvalidProof"]

\* Mutant: the store is keyed by the tag alone.
Key_without_scope(issuer, challenge, presentation) == <<"any", presentation.tag>>

\* The scope and tag that verify_proof_only returns.
Key(issuer, challenge, presentation) == <<ScopeOf(issuer, challenge), presentation.tag>>

-----------------------------------------------------------------------------
DeploymentInit ==
    /\ Init
    /\ store = {}
    /\ verdict = [v \in Calls |-> Uncalled]

Returns(v, issuer, challenge, presentation, result) ==
    verdict' = [verdict EXCEPT ![v] =
               [result |-> result, issuer |-> issuer, challenge |-> challenge,
                witness |-> presentation.proof.witness]]

\* Verifier::verify on a MemoryTagStore.
Verify(v, issuer, challenge, presentation) ==
    LET key == Key(issuer, challenge, presentation) IN
    /\ verdict[v] = Uncalled
    /\ \/ /\ ~verify_proof_only(issuer, challenge, presentation)
          /\ verdict' = [verdict EXCEPT ![v] = Refused]
          /\ UNCHANGED store
       \/ /\ verify_proof_only(issuer, challenge, presentation)
          /\ key \in store
          /\ Returns(v, issuer, challenge, presentation, "TagAlreadyUsed")
          /\ UNCHANGED store
       \/ /\ verify_proof_only(issuer, challenge, presentation)
          /\ key \notin store
          /\ Returns(v, issuer, challenge, presentation, "Ok")
          /\ store' = store \cup {key}
    /\ UNCHANGED vars

DeploymentNext ==
    \/ Next /\ UNCHANGED <<store, verdict>>
    \/ \E v \in Calls, body \in AllAuthenticators, issuer \in Issuers,
          challenge \in Challenges, nonce \in 0..U32Max :
         Verify(v, issuer, challenge, PresentationOf(issuer, challenge, body, nonce))

DeploymentSpec == DeploymentInit /\ [][DeploymentNext]_deployment_vars

-----------------------------------------------------------------------------
(* Properties.                                                             *)

GrantedUnder(issuer, credential_context, presentation_context, L) ==
    {v \in Calls : /\ verdict[v].result = "Ok"
                   /\ verdict[v].issuer = issuer
                   /\ verdict[v].challenge.credential_context = credential_context
                   /\ verdict[v].challenge.presentation_context = presentation_context
                   /\ verdict[v].challenge.limit <= L}

\* What issuance charges is what verification grants: in each bucket, under
\* challenges with a limit of at most L, verify lets through at most L calls for
\* each commitment that the issuer accepted under that credential context, at
\* every moment of a deployment that goes on issuing, however often requests are
\* repeated and signed again, pending states restored and finished twice, and
\* whatever anyone assembles from the answers.
PaidUses ==
    \A i \in Issuers, c \in CredentialContexts, p \in PresentationContexts, L \in 0..U32Max :
      Cardinality(GrantedUnder(i, c, p, L))
        <= Cardinality({k.commitment : k \in {k \in log :
             k.issuer = i /\ k.credential_context = c}}) * L

\* Whatever finish returned, after any crashes, is a credential in use: each of
\* its presentations below the limit verifies.
FinishedIsUsable ==
    \A s \in Sessions : \A b \in credentials[s] :
      \A ch \in {x \in Challenges : x.credential_context = b.credential_context} :
        \A nonce \in 0..ch.limit - 1 :
          verify_proof_only(b.issuer_context, ch,
                            PresentationOf(b.issuer_context, ch, b, nonce))

TagsDistinctInScope ==
    \A scope \in Scopes, s, t \in Secrets, m, n \in 0..U32Max :
      derive_tag(s, scope, m) = derive_tag(t, scope, n) => s = t /\ m = n

\* Tags are consumed by nobody but their lineage: whichever nonces were used in
\* whatever order and with however many credentials of the lineage, a call that
\* was refused as a duplicate showed a nonce that its lineage was granted before
\* in that same bucket, provided that tags of one bucket do not collide.
DuplicatesOfLineage ==
    TagsDistinctInScope =>
      \A v \in Calls : verdict[v].result = "TagAlreadyUsed" =>
        \E w \in Calls :
          /\ verdict[w].result = "Ok"
          /\ ScopeOf(verdict[w].issuer, verdict[w].challenge)
               = ScopeOf(verdict[v].issuer, verdict[v].challenge)
          /\ verdict[w].witness.secret = verdict[v].witness.secret
          /\ verdict[w].witness.presentation_nonce = verdict[v].witness.presentation_nonce

-----------------------------------------------------------------------------
(* The inductive invariant.  A call that verified a proof showed an opening *)
(* of a commitment in the log, and granted calls own the keys in the store. *)

Answered(v) == verdict[v].result \in {"Ok", "TagAlreadyUsed"}

KeyOf(v) ==
    LET scope == ScopeOf(verdict[v].issuer, verdict[v].challenge) IN
    <<scope, derive_tag(verdict[v].witness.secret, scope, verdict[v].witness.presentation_nonce)>>

\* The log holds what the call opened.
Backed(r) ==
    \E k \in log :
      /\ k.issuer = r.issuer
      /\ k.credential_context = r.challenge.credential_context
      /\ \E h \in HidingNonces :
           k.commitment = credential_target(
             credential_scope(r.issuer, r.challenge.credential_context), r.witness.secret, h)

Sound(r) ==
    /\ r.issuer \in Issuers
    /\ r.challenge \in Challenges
    /\ r.witness.secret \in Secrets
    /\ r.witness.presentation_nonce \in 0..r.challenge.limit - 1
    /\ Backed(r)

DeploymentIInv ==
    /\ IInv
    /\ verdict = [v \in Calls |-> verdict[v]]
    /\ \A v \in Calls : Answered(v) => Sound(verdict[v])
    /\ \A v \in Calls : Answered(v) => KeyOf(v) \in store
    /\ \A v, w \in Calls :
         verdict[v].result = "Ok" /\ verdict[w].result = "Ok" /\ KeyOf(v) = KeyOf(w) => v = w
    /\ \A key \in store : \E v \in Calls : verdict[v].result = "Ok" /\ KeyOf(v) = key
=============================================================================
