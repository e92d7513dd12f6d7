------------------------------ MODULE MCIssuerKeys ------------------------------
EXTENDS IssuerKeys, TLC

CONSTANTS i1, i2, v1, v2, t1, t2, mayo1, mayo2

\* An application context is its length here: one at the bound, one over it.
MCContextLength(a) == a

Symmetry ==
    Permutations(Processes) \cup Permutations(Clients)
      \cup Permutations(Trapdoors) \cup Permutations(Suites)
=============================================================================
