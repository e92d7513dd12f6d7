-------------------------------- MODULE MCWire --------------------------------
(* Instances of Wire for TLC: encodings of a few values of every artifact, each *)
(* decoded as every artifact, and what is one edit away from them.              *)
EXTENDS Wire, FiniteSets, TLC

CONSTANT Edits   \* the bytes an edit writes

Hash(a) == <<a, 7>>

MCMayoDecodes(content) == Len(content) = 1

MCProofResult(content) ==
    IF Len(content) > 2 THEN "TooLarge"
    ELSE IF content = <<>> THEN "InvalidEncoding"
    ELSE IF content[1] = 0 THEN "UnsupportedVersion" ELSE "Ok"

MCContext == Hash(1)

MCAuthentic(credential) == credential.secret # Hash(0)

Keys ==
    {[profile |-> p, application_context |-> a, mayo |-> <<16>>] :
       p \in {"Compact", "Balanced", "LowLatency"}, a \in {<<>>, <<2, 1>>}}

Signatures == {<<1, 5, 2>>}

Counters(n) == [k \in 1..n |-> [context |-> <<k - 1, 2>>, next_nonce |-> 255 + k]]

MCValues ==
    <<Keys, Keys,
      {[commitment |-> <<c>>, proof |-> p] : c \in {0, 15}, p \in {<<1>>, <<1, 0>>}},
      {[signature |-> s, salt |-> <<3>>] : s \in Signatures},
      {[issuer_context |-> Hash(1), credential_context |-> Hash(2), secret |-> Hash(3),
        hiding_nonce |-> Hash(4)]},
      {[issuer_context |-> Hash(1), credential_context |-> Hash(2), signature |-> s,
        secret |-> Hash(3), hiding_nonce |-> Hash(4), salt |-> <<3>>,
        next_nonces |-> Counters(n)] : s \in Signatures, n \in 0..2},
      {[tag |-> Hash(5), proof |-> <<1, 2>>]}>>

Encodings == UNION {{to_bytes(a, v) : v \in MCValues[a]} : a \in Artifacts}

\* One byte written, left out, or put in, and everything cut short.
Edited(b) ==
    {[b EXCEPT ![k] = e] : k \in 1..Len(b), e \in Edits}
      \cup {SubSeq(b, 1, k - 1) \o SubSeq(b, k + 1, Len(b)) : k \in 1..Len(b)}
      \cup {SubSeq(b, 1, k) \o <<e>> \o SubSeq(b, k + 1, Len(b)) : k \in 0..Len(b), e \in Edits}
      \cup {SubSeq(b, 1, k) : k \in 0..Len(b)}

MCInputs == Encodings \cup UNION {Edited(b) : b \in Encodings}
=============================================================================
