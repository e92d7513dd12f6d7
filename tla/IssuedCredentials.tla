--------------------------- MODULE IssuedCredentials ---------------------------
(***************************************************************************)
(* The credentials in existence, as the holder and the verifier find them:  *)
(* any bodies with a preimage under their issuer for their own opening, as  *)
(* all that verify are.  Which ones can exist is the matter of Issuance:    *)
(* behind each is a call of issue for its context (IssuedOnlyByIssuance).   *)
(***************************************************************************)
EXTENDS ArcStatements

CONSTANT Issued   \* bodies of all credentials the issuers ever made

ASSUME IssuedAssumption ==
    /\ IsFiniteSet(Issued)
    /\ \A body \in Issued :
         \E i \in Issuers, c \in CredentialContexts,
            s \in Secrets, h \in HidingNonces, salt \in Salts :
              body = CredentialBody(i, c, s, h, salt)

\* The hidden tag keys with a credential under an issuer and a context: what
\* the rate limit counts.  Two authenticators over one commitment share one.
Lineages(issuer, credential_context) ==
    {body.secret : body \in {b \in Issued :
        b.issuer_context = issuer /\ b.credential_context = credential_context}}
=============================================================================
