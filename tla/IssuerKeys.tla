------------------------------- MODULE IssuerKeys -------------------------------
(***************************************************************************)
(* The life of issuer keys: an issuer is generated, its trapdoor saved and  *)
(* its public key published; issuers crash and are loaded from what was     *)
(* saved, clients and verifiers decode what was published, each for the     *)
(* suite it was built for.  Published keys may change on their way.  Wire   *)
(* has the bytes; here an encoding is the record of its fields, and the     *)
(* context digest is the tuple of its inputs, which HashInputs licenses.    *)
(***************************************************************************)
EXTENDS Integers, FiniteSets

CONSTANTS
    Processes,                       \* that run an issuer
    Clients,                         \* clients and verifiers
    Suites,                          \* MAYO parameter sets
    ApplicationContexts,
    ContextLength(_),                \* their lengths in bytes
    MAX_APPLICATION_CONTEXT_BYTES,
    Trapdoors,                       \* what mayo::trapgen samples
    Nothing                          \* neither an issuer nor a key

VARIABLES
    issuer,      \* the Issuer in the memory of each process, if any
    drawn,       \* trapdoors sampled so far
    saved,       \* encodings in key storage
    published,   \* encodings handed out
    key,         \* the PublicKey each client decoded, if any
    panicked     \* processes whose generation was refused

vars == <<issuer, drawn, saved, published, key, panicked>>

-----------------------------------------------------------------------------
Profiles == {"Compact", "Balanced", "LowLatency"}

\* tau and k of a profile, which voleith fixes and no two profiles share.
params(profile) == <<"tau_k", profile>>

wire_id(profile) ==
    CASE profile = "Compact" -> 1 [] profile = "Balanced" -> 2 [] profile = "LowLatency" -> 3

from_wire_id(id) == <<"Compact", "Balanced", "LowLatency">>[id]

\* The public half of a trapdoor of a suite.
public_key(trapdoor) == [public_half_of |-> trapdoor]

\* Mutant: the profile is left out of the digest.
derive_issuer_context_any_profile(application_context, mayo, suite, profile) ==
    <<application_context, mayo, suite>>

derive_issuer_context(application_context, mayo, suite, profile) ==
    <<application_context, mayo, suite, params(profile)>>

PublicKey(application_context, mayo, suite, profile) ==
    [application_context |-> application_context, mayo |-> mayo, suite |-> suite,
     profile |-> profile,
     context |-> derive_issuer_context(application_context, mayo, suite, profile)]

Issuer(application_context, trapdoor, suite, profile) ==
    [secret |-> trapdoor,
     public |-> PublicKey(application_context, public_key(trapdoor), suite, profile)]

\* key_bytes and to_bytes.
key_bytes(i) ==
    [artifact |-> "issuer_key", suite |-> i.public.suite, profile |-> wire_id(i.public.profile),
     application_context |-> i.public.application_context, mayo |-> i.secret]

to_bytes(p) ==
    [artifact |-> "public_key", suite |-> p.suite, profile |-> wire_id(p.profile),
     application_context |-> p.application_context, mayo |-> p.mayo]

\* Mutant: the artifact byte is not compared.
Decodes_any_artifact(bytes, artifact, suite) ==
    /\ bytes.suite = suite
    /\ bytes.profile \in 1..3
    /\ ContextLength(bytes.application_context) <= MAX_APPLICATION_CONTEXT_BYTES

\* The checks of both decoders, built for a suite.
Decodes(bytes, artifact, suite) ==
    /\ bytes.artifact = artifact
    /\ bytes.suite = suite
    /\ bytes.profile \in 1..3
    /\ ContextLength(bytes.application_context) <= MAX_APPLICATION_CONTEXT_BYTES

from_key_bytes(bytes, suite) ==
    Issuer(bytes.application_context, bytes.mayo, suite, from_wire_id(bytes.profile))

from_bytes(bytes, suite) ==
    PublicKey(bytes.application_context, bytes.mayo, suite, from_wire_id(bytes.profile))

-----------------------------------------------------------------------------
Init ==
    /\ issuer = [i \in Processes |-> Nothing]
    /\ key = [c \in Clients |-> Nothing]
    /\ drawn = {} /\ saved = {} /\ published = {}
    /\ panicked = {}

\* Mutant: the length is checked by the decoders alone.
Admitted_any(application_context) == TRUE

Admitted(application_context) ==
    ContextLength(application_context) <= MAX_APPLICATION_CONTEXT_BYTES

\* generate_with_profile; generate is the same with the balanced profile.
Generate(i, application_context, profile, suite) ==
    /\ issuer[i] = Nothing /\ i \notin panicked
    /\ IF Admitted(application_context)
       THEN \E trapdoor \in Trapdoors \ drawn :
              /\ issuer' = [issuer EXCEPT ![i] =
                              Issuer(application_context, trapdoor, suite, profile)]
              /\ drawn' = drawn \cup {trapdoor}
              /\ UNCHANGED panicked
       ELSE /\ panicked' = panicked \cup {i}
            /\ UNCHANGED <<issuer, drawn>>
    /\ UNCHANGED <<saved, published, key>>

Save(i) ==
    /\ issuer[i] # Nothing
    /\ saved' = saved \cup {key_bytes(issuer[i])}
    /\ UNCHANGED <<issuer, drawn, published, key, panicked>>

Publish(i) ==
    /\ issuer[i] # Nothing
    /\ published' = published \cup {to_bytes(issuer[i].public)}
    /\ UNCHANGED <<issuer, drawn, saved, key, panicked>>

\* The process ends and forgets its trapdoor.
CrashIssuer(i) ==
    /\ issuer[i] # Nothing
    /\ issuer' = [issuer EXCEPT ![i] = Nothing]
    /\ UNCHANGED <<drawn, saved, published, key, panicked>>

\* A process built for suite loads a saved issuer; what does not decode leaves
\* it without one.
Load(i, bytes, suite) ==
    /\ issuer[i] = Nothing
    /\ Decodes(bytes, "issuer_key", suite)
    /\ issuer' = [issuer EXCEPT ![i] = from_key_bytes(bytes, suite)]
    /\ UNCHANGED <<drawn, saved, published, key, panicked>>

\* A client or a verifier built for suite decodes the key it was given.
Receive(c, bytes, suite) ==
    /\ key[c] = Nothing
    /\ Decodes(bytes, "public_key", suite)
    /\ key' = [key EXCEPT ![c] = from_bytes(bytes, suite)]
    /\ UNCHANGED <<issuer, drawn, saved, published, panicked>>

Next ==
    \/ \E i \in Processes :
         \/ \E a \in ApplicationContexts, p \in Profiles, s \in Suites : Generate(i, a, p, s)
         \/ Save(i) \/ Publish(i) \/ CrashIssuer(i)
         \/ \E bytes \in saved \cup published, s \in Suites : Load(i, bytes, s)
    \/ \E c \in Clients, bytes \in saved \cup published, s \in Suites :
         \/ Receive(c, bytes, s)
         \/ \E a \in ApplicationContexts, id \in 0..3 :
              Receive(c, [bytes EXCEPT !.application_context = a, !.profile = id], s)

Spec == Init /\ [][Next]_vars

-----------------------------------------------------------------------------
(* Properties.                                                             *)

Running == {issuer[i] : i \in {j \in Processes : issuer[j] # Nothing}}

PublicKeys == {r.public : r \in Running} \cup {key[c] : c \in {d \in Clients : key[d] # Nothing}}

\* The context a credential, a request or a tag is bound to names one key, one
\* suite, one application and one profile: no two keys that differ in any of
\* them are taken for each other, in whatever process they were decoded and
\* whatever happened to the configuration that was published with them.
ContextNamesKey == \A p, q \in PublicKeys : p.context = q.context => p = q

\* An issuer that is running never loses its service to a restart: what it
\* saves and publishes is accepted by the decoders of its suite and gives back
\* the trapdoor and the context under which its credentials were issued.
RestartsAsItself ==
    \A r \in Running :
      /\ Decodes(key_bytes(r), "issuer_key", r.public.suite)
      /\ from_key_bytes(key_bytes(r), r.public.suite) = r
      /\ Decodes(to_bytes(r.public), "public_key", r.public.suite)
      /\ from_bytes(to_bytes(r.public), r.public.suite) = r.public

\* A public key is only ever that of a trapdoor some issuer drew, and a running
\* issuer of a key holds that key's trapdoor, whatever was decoded as what.
KeysHaveIssuers ==
    /\ \A p \in PublicKeys : \E t \in drawn : p.mayo = public_key(t)
    /\ \A r \in Running : r.secret \in drawn /\ r.public.mayo = public_key(r.secret)

\* The inductive invariant behind the three: whatever runs, is stored, is handed
\* out or is decoded was put together from a drawn trapdoor and a context of
\* admitted length, and what lies in storage as an issuer is never what was
\* published.
IssuersDrawn ==
    {Issuer(a, t, s, p) : a \in {x \in ApplicationContexts : Admitted(x)},
                          t \in drawn, s \in Suites, p \in Profiles}

KeysDrawn == {r.public : r \in IssuersDrawn}

IInv ==
    /\ issuer \in [Processes -> IssuersDrawn \cup {Nothing}]
    /\ key \in [Clients -> KeysDrawn \cup {Nothing}]
    /\ saved \subseteq {key_bytes(r) : r \in IssuersDrawn}
    /\ published \subseteq {to_bytes(p) : p \in KeysDrawn}
=============================================================================
