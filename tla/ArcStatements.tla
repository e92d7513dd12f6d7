------------------------------ MODULE ArcStatements ------------------------------
(***************************************************************************)
(* The pure part of VOLE-ARC that clients and servers share: contexts,     *)
(* challenges, scopes, credential authenticators, tags, and the statement, *)
(* circuit and proof of one scoped presentation.                           *)
(*                                                                         *)
(* Bytes are abstracted, bindings are not.  A SHAKE256 digest over a fixed *)
(* domain and fixed-width parts is the tuple of its inputs (collision      *)
(* resistance); the one digest whose collisions the accounting argument    *)
(* has to tolerate, the presentation tag, goes through the constant        *)
(* operator TagHash, which may collide.  MAYO and the VOLE-in-the-head     *)
(* proof system are external crates: an authenticator names the key and    *)
(* the target it opens, and a proof carries the statement, the circuit and *)
(* the witness it was made from.                                           *)
(***************************************************************************)
EXTENDS Integers, FiniteSets

CONSTANTS
    Issuers,                \* issuer contexts: key, suite and profile digests
    CredentialContexts,
    PresentationContexts,   \* rate-limit buckets
    Bindings,               \* per-request proof bindings
    Limits,                 \* the limits applications ask for
    U32Max,                 \* largest nonce, limit and counter (2^32 - 1)
    Secrets, HidingNonces, Salts,
    TagHash(_)              \* SHAKE256 over a tag message

ASSUME U32MaxAssumption == U32Max \in Nat \ {0}

ASSUME LimitsAssumption == Limits \subseteq 0..U32Max

-----------------------------------------------------------------------------
(* Contexts, challenges and scopes.                                        *)

\* PresentationChallenge::new refuses a zero limit, and its fields are private.
Challenges ==
    [credential_context : CredentialContexts,
     presentation_context : PresentationContexts,
     limit : {l \in Limits : l # 0},
     binding : Bindings]

\* Mutant: the credential context is left out of the digest.
credential_scope_any_context(issuer, credential_context) ==
    <<"credential-scope", issuer>>

credential_scope(issuer, credential_context) ==
    <<"credential-scope", issuer, credential_context>>

presentation_scope(issuer, credential_context, presentation_context) ==
    <<"presentation-scope", issuer, credential_context, presentation_context>>

\* The scope a verifier holding issuer's public key derives from a challenge.
ScopeOf(issuer, challenge) ==
    presentation_scope(issuer, challenge.credential_context,
                       challenge.presentation_context)

Scopes == {presentation_scope(i, c, p) :
             i \in Issuers, c \in CredentialContexts, p \in PresentationContexts}

-----------------------------------------------------------------------------
(* Credential authenticators.                                              *)

credential_target(scope, secret, hiding_nonce) ==
    <<"credential", scope, secret, hiding_nonce>>

signed_credential_target(commitment, salt) ==
    <<"signed-credential", commitment, salt>>

\* mayo::spre: only the trapdoor holder makes one, for one target.
spre(key, target) == [key |-> key, target |-> target]

\* mayo::eval of the public key at the authenticator gives the target.
MayoOpens(key, signature, target) == signature = spre(key, target)

SignedTarget(credscope, opening) ==
    signed_credential_target(
        credential_target(credscope, opening.secret, opening.hiding_nonce),
        opening.salt)

verify_credential(public, body) ==
    /\ body.issuer_context = public
    /\ MayoOpens(public, body.signature,
                 SignedTarget(credential_scope(body.issuer_context,
                                               body.credential_context), body))

\* The body a client holds after issue and finish succeeded.
CredentialBody(issuer, credential_context, secret, hiding_nonce, salt) ==
    [issuer_context |-> issuer,
     credential_context |-> credential_context,
     signature |-> spre(issuer,
         signed_credential_target(
             credential_target(credential_scope(issuer, credential_context),
                               secret, hiding_nonce), salt)),
     secret |-> secret, hiding_nonce |-> hiding_nonce, salt |-> salt]

-----------------------------------------------------------------------------
(* Tags.                                                                   *)

tag_message(secret, scope, nonce) == <<secret, scope, nonce>>

derive_tag(secret, scope, nonce) == TagHash(tag_message(secret, scope, nonce))

-----------------------------------------------------------------------------
(* The presentation relation.                                              *)

\* Mutant: the per-request binding is not written into the statement.
presentation_statement_unbound(issuer, challenge, tag) ==
    [issuer |-> issuer, challenge |-> [challenge EXCEPT !.binding = "none"], tag |-> tag]

presentation_statement(issuer, challenge, tag) ==
    [issuer |-> issuer, challenge |-> challenge, tag |-> tag]

PresentationCircuit(issuer, challenge, tag) ==
    [mayo_system |-> issuer,
     credential_scope |-> credential_scope(issuer, challenge.credential_context),
     presentation_scope |-> ScopeOf(issuer, challenge),
     presentation_limit |-> challenge.limit,
     tag |-> tag]

\* PresentationSecrets for one nonce.
PresentationSecrets(body, nonce) ==
    [signature |-> body.signature, secret |-> body.secret,
     hiding_nonce |-> body.hiding_nonce, salt |-> body.salt,
     presentation_nonce |-> nonce]

\* Mutant: the carry chain admits equality.
assert_u32_at_most(value, limit) == value <= limit

assert_u32_less_than(value, limit) == value < limit

CircuitSatisfied(circuit, witness) ==
    /\ circuit.presentation_limit # 0
    /\ assert_u32_less_than(witness.presentation_nonce, circuit.presentation_limit)
    /\ MayoOpens(circuit.mayo_system, witness.signature,
                 SignedTarget(circuit.credential_scope, witness))
    /\ circuit.tag = derive_tag(witness.secret, circuit.presentation_scope,
                                witness.presentation_nonce)

\* voleith::prove and voleith::verify.  request is history: what the prover
\* meant the proof for, which no verifier sees.
prove(statement, circuit, witness, request) ==
    [statement |-> statement, circuit |-> circuit,
     witness |-> witness, request |-> request]

vole_verify(statement, circuit, proof) ==
    /\ proof.statement = statement
    /\ proof.circuit = circuit
    /\ CircuitSatisfied(circuit, proof.witness)

\* PublicKey::verify_proof_only for the holder of issuer's public key.
verify_proof_only(issuer, challenge, presentation) ==
    /\ challenge.limit # 0
    /\ vole_verify(presentation_statement(issuer, challenge, presentation.tag),
                   PresentationCircuit(issuer, challenge, presentation.tag),
                   presentation.proof)
=============================================================================
