------------------------------ MODULE MCVerifier ------------------------------
(* Instances of Verifier for TLC. *)
EXTENDS Verifier, TLC

CONSTANTS i1, i2, cc1, cc2, p1, p2, b1, b2, s1, s2, h1, salt1, salt2

\* One bucket and one lineage, holding two authenticators over one commitment.
MCIssuedOne ==
    {CredentialBody(i1, cc1, s1, h1, salt1),
     CredentialBody(i1, cc1, s1, h1, salt2)}

\* Several buckets: the same secret under two issuers, another one under a
\* second credential context.
MCIssuedMany ==
    {CredentialBody(i1, cc1, s1, h1, salt1),
     CredentialBody(i2, cc1, s1, h1, salt1),
     CredentialBody(i1, cc2, s2, h1, salt1)}

\* SHAKE256 without collisions, and with every collision that a tag without
\* its scope would have.
MCDistinctTags(message) == message

MCCollidingTags(message) == <<message[1], message[3]>>

CallSymmetry == Permutations(Calls)
=============================================================================
