------------------------------ MODULE MCArcCircuit ------------------------------
(***************************************************************************)
(* Lanes of 8 bits and two groups of four rounds keep the shape of the      *)
(* real circuits: 17 of 25 lanes are the rate, every hash has a checkpoint  *)
(* between its ends.  The credential message fills the block to its last    *)
(* byte.  A target has an odd number of nibbles, which leaves build a byte  *)
(* to fill: the code provides for it, though both MAYO suites are even.     *)
(***************************************************************************)
EXTENDS ArcCircuit

MCCredentialDomain == [i \in 1..11 |-> 16 * i]
MCSignedDomain == <<2>>
MCTagDomain == <<3>>

\* A map of KN = 4 elements to M = 3, with a preimage for every target.
MCMayoEval(s) == <<(s[1] + s[4]) % 16, (s[2] + s[1] * s[4]) % 16, (s[3] + s[2] * s[4]) % 16>>

MCPreimage(t, v) ==
    LET first == (t[1] + 16 - v) % 16
        second == (t[2] + 16 * 16 - first * v) % 16
    IN  <<first, second, (t[3] + 16 * 16 - second * v) % 16, v>>

Scope(n) == <<n, 255 - n>>

\* The secrets of the honest holder of a credential under scope 1.
Secrets(nonce) ==
    [secret |-> <<90, 5>>, hiding_nonce |-> <<201>>, salt |-> <<60>>,
     presentation_nonce |-> nonce,
     signature |-> MCPreimage(signed_credential_target(
         credential_target(Scope(1), <<90, 5>>, <<201>>), <<60>>), 7)]

Base ==
    [kind |-> "presentation", credential_scope |-> Scope(1), presentation_scope |-> Scope(2),
     presentation_limit |-> 2, tag |-> derive_tag(<<90, 5>>, Scope(2), 1, 2)]

BaseIssue ==
    [kind |-> "issue", credential_scope |-> Scope(1),
     target |-> credential_target(Scope(1), <<90, 5>>, <<201>>)]

MCCircuits ==
    {Base, BaseIssue,
     [Base EXCEPT !.presentation_limit = 0], [Base EXCEPT !.presentation_limit = 1],
     [Base EXCEPT !.presentation_limit = 255],
     [Base EXCEPT !.credential_scope = Scope(3)],
     [Base EXCEPT !.presentation_scope = Scope(3)],
     [Base EXCEPT !.tag = derive_tag(<<90, 5>>, Scope(2), 2, 2)],
     [BaseIssue EXCEPT !.credential_scope = Scope(3)],
     [BaseIssue EXCEPT !.target = SubSeq(@, 1, 2)]}

\* Secrets a prover may run witness() with, in the relation or not.
SecretsTried ==
    {Secrets(nonce) : nonce \in 0..2}
      \cup {[Secrets(1) EXCEPT !.secret = <<90, 6>>], [Secrets(1) EXCEPT !.salt = <<61>>],
            [Secrets(1) EXCEPT !.hiding_nonce = <<202>>],
            [Secrets(1) EXCEPT !.signature[2] = (@ + 1) % 16],
            [Secrets(1) EXCEPT !.signature = MCPreimage(MCMayoEval(@), 11)]}

CONSTANT FlipEvery

Flipped(t, b) == [t EXCEPT ![b] = ~@]

\* The tapes of all of these, the honest tape of another circuit, and the honest
\* tape with one bit flipped.
MCTapes(c) ==
    {witness(c, s) : s \in SecretsTried}
      \cup {witness(IF c.kind = "issue" THEN BaseIssue ELSE Base, Secrets(1))}
      \cup (IF c \in {Base, BaseIssue}
            THEN LET honest == witness(c, Secrets(1))
                 IN  {Flipped(honest, b) : b \in {i \in 1..Len(honest) : i % FlipEvery = 0}}
            ELSE {})
=============================================================================
