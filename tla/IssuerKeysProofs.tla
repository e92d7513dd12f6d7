---------------------------- MODULE IssuerKeysProofs ----------------------------
(***************************************************************************)
(* The safety of issuer keys for every set of processes, suites, contexts  *)
(* and trapdoors and every bound on contexts.  Everything rests on IInv:   *)
(* the decoders put back together what was drawn, because the artifact and *)
(* the suite are compared and the profile's number is read back.           *)
(***************************************************************************)
EXTENDS IssuerKeys, TLAPS

-----------------------------------------------------------------------------
(* The two encodings.                                                      *)

\* The number of a profile is read back as the profile, and every number the
\* decoders admit is a profile's.
LEMMA ProfileIds ==
  /\ \A p \in Profiles : wire_id(p) \in 1..3 /\ from_wire_id(wire_id(p)) = p
  /\ \A n \in 1..3 : from_wire_id(n) \in Profiles
<1>1. ASSUME NEW p \in Profiles
      PROVE  wire_id(p) \in 1..3 /\ from_wire_id(wire_id(p)) = p
  <2>1. p = "Compact" \/ p = "Balanced" \/ p = "LowLatency"
    BY DEF Profiles
  <2>2. wire_id("Compact") = 1 /\ wire_id("Balanced") = 2 /\ wire_id("LowLatency") = 3
    BY DEF wire_id
  <2> QED
    BY <2>1, <2>2 DEF from_wire_id
<1>2. ASSUME NEW n \in 1..3
      PROVE  from_wire_id(n) \in Profiles
  <2>1. n = 1 \/ n = 2 \/ n = 3
    OBVIOUS
  <2> QED
    BY <2>1 DEF from_wire_id, Profiles
<1> QED
  BY <1>1, <1>2

\* An issuer put together from its parts.
LEMMA IssuerDrawn ==
  ASSUME NEW a \in ApplicationContexts, Admitted(a), NEW t \in drawn,
         NEW s \in Suites, NEW p \in Profiles
  PROVE  /\ Issuer(a, t, s, p) \in IssuersDrawn
         /\ PublicKey(a, public_key(t), s, p) \in KeysDrawn
<1>1. Issuer(a, t, s, p) \in IssuersDrawn
  BY DEF IssuersDrawn
<1>2. Issuer(a, t, s, p).public = PublicKey(a, public_key(t), s, p)
  BY DEF Issuer
<1> QED
  BY <1>1, <1>2 DEF KeysDrawn

\* The parts of an issuer.
LEMMA IssuerParts ==
  ASSUME NEW r \in IssuersDrawn
  PROVE  \E a \in ApplicationContexts, t \in drawn, s \in Suites, p \in Profiles :
           /\ Admitted(a)
           /\ r = Issuer(a, t, s, p)
           /\ r.secret = t
           /\ r.public = PublicKey(a, public_key(t), s, p)
BY DEF IssuersDrawn, Issuer

\* The parts of a public key.
LEMMA KeyParts ==
  ASSUME NEW k \in KeysDrawn
  PROVE  \E a \in ApplicationContexts, t \in drawn, s \in Suites, p \in Profiles :
           Admitted(a) /\ k = PublicKey(a, public_key(t), s, p)
BY IssuerParts DEF KeysDrawn

\* What storage and publication hold: an encoding, told apart by its artifact.
LEMMA Stored ==
  ASSUME IInv, NEW b \in saved \cup published
  PROVE  \E a \in ApplicationContexts, t \in drawn, s \in Suites, p \in Profiles :
           /\ Admitted(a)
           /\ \/ b = [artifact |-> "issuer_key", suite |-> s, profile |-> wire_id(p),
                      application_context |-> a, mayo |-> t]
              \/ b = [artifact |-> "public_key", suite |-> s, profile |-> wire_id(p),
                      application_context |-> a, mayo |-> public_key(t)]
<1>1. CASE b \in saved
  <2>1. PICK r \in IssuersDrawn : b = key_bytes(r)
    BY <1>1 DEF IInv
  <2>2. PICK a \in ApplicationContexts, t \in drawn, s \in Suites, p \in Profiles :
          Admitted(a) /\ r.secret = t /\ r.public = PublicKey(a, public_key(t), s, p)
    BY IssuerParts
  <2>3. b = [artifact |-> "issuer_key", suite |-> s, profile |-> wire_id(p),
             application_context |-> a, mayo |-> t]
    BY <2>1, <2>2 DEF key_bytes, PublicKey
  <2> QED
    BY <2>2, <2>3
<1>2. CASE b \in published
  <2>1. PICK k \in KeysDrawn : b = to_bytes(k)
    BY <1>2 DEF IInv
  <2>2. PICK a \in ApplicationContexts, t \in drawn, s \in Suites, p \in Profiles :
          Admitted(a) /\ k = PublicKey(a, public_key(t), s, p)
    BY KeyParts
  <2>3. b = [artifact |-> "public_key", suite |-> s, profile |-> wire_id(p),
             application_context |-> a, mayo |-> public_key(t)]
    BY <2>1, <2>2 DEF to_bytes, PublicKey
  <2> QED
    BY <2>2, <2>3
<1> QED
  BY <1>1, <1>2

\* What an issuer's decoder accepts gives an issuer that was drawn.
LEMMA LoadsDrawn ==
  ASSUME IInv, NEW b \in saved \cup published, NEW s \in Suites,
         Decodes(b, "issuer_key", s)
  PROVE  from_key_bytes(b, s) \in IssuersDrawn
<1>1. PICK a \in ApplicationContexts, t \in drawn, q \in Suites, p \in Profiles :
        /\ Admitted(a)
        /\ \/ b = [artifact |-> "issuer_key", suite |-> q, profile |-> wire_id(p),
                   application_context |-> a, mayo |-> t]
           \/ b = [artifact |-> "public_key", suite |-> q, profile |-> wire_id(p),
                   application_context |-> a, mayo |-> public_key(t)]
  BY Stored
<1>2. b.artifact = "issuer_key"
  BY DEF Decodes
<1>3. b = [artifact |-> "issuer_key", suite |-> q, profile |-> wire_id(p),
           application_context |-> a, mayo |-> t]
  <2>1. b # [artifact |-> "public_key", suite |-> q, profile |-> wire_id(p),
             application_context |-> a, mayo |-> public_key(t)]
    BY <1>2
  <2> QED
    BY <1>1, <2>1
<1>4. from_key_bytes(b, s) = Issuer(a, t, s, p)
  BY <1>3, ProfileIds DEF from_key_bytes
<1> QED
  BY <1>1, <1>4, IssuerDrawn

\* Changing the context and the profile of stored bytes leaves their artifact
\* and their key.
LEMMA Changed ==
  ASSUME IInv, NEW b \in saved \cup published, NEW a \in ApplicationContexts, NEW id \in 0..3
  PROVE  LET bytes == [b EXCEPT !.application_context = a, !.profile = id] IN
           /\ bytes.artifact = b.artifact /\ bytes.mayo = b.mayo
           /\ bytes.application_context \in ApplicationContexts
<1>1. ASSUME NEW artifact, NEW s, NEW n, NEW c, NEW m,
             b = [artifact |-> artifact, suite |-> s, profile |-> n,
                  application_context |-> c, mayo |-> m]
      PROVE  LET bytes == [b EXCEPT !.application_context = a, !.profile = id] IN
               /\ bytes.artifact = b.artifact /\ bytes.mayo = b.mayo
               /\ bytes.application_context \in ApplicationContexts
  BY <1>1
<1> QED
  BY <1>1, Stored

\* Stored bytes have a context of the program.
LEMMA StoredContext ==
  ASSUME IInv, NEW b \in saved \cup published
  PROVE  b.application_context \in ApplicationContexts
BY Stored

\* What a public key's decoder accepts gives a key of a drawn trapdoor, though
\* its context and its profile were replaced on the way.
LEMMA ReceivesDrawn ==
  ASSUME IInv, NEW b \in saved \cup published, NEW s \in Suites, NEW bytes,
         bytes.artifact = b.artifact, bytes.mayo = b.mayo,
         bytes.application_context \in ApplicationContexts,
         Decodes(bytes, "public_key", s)
  PROVE  from_bytes(bytes, s) \in KeysDrawn
<1>1. PICK c \in ApplicationContexts, t \in drawn, q \in Suites, p \in Profiles :
        /\ Admitted(c)
        /\ \/ b = [artifact |-> "issuer_key", suite |-> q, profile |-> wire_id(p),
                   application_context |-> c, mayo |-> t]
           \/ b = [artifact |-> "public_key", suite |-> q, profile |-> wire_id(p),
                   application_context |-> c, mayo |-> public_key(t)]
  BY Stored
<1>2. /\ b.artifact = "public_key" /\ bytes.profile \in 1..3
      /\ Admitted(bytes.application_context)
  BY DEF Decodes, Admitted
<1>3. b.mayo = public_key(t)
  BY <1>1, <1>2
<1>4. from_wire_id(bytes.profile) \in Profiles
  BY <1>2, ProfileIds
<1>5. from_bytes(bytes, s)
        = PublicKey(bytes.application_context, public_key(t), s, from_wire_id(bytes.profile))
  BY <1>3 DEF from_bytes
<1> QED
  BY <1>2, <1>4, <1>5, IssuerDrawn

-----------------------------------------------------------------------------
(* The inductive invariant.                                                *)

\* A step that draws nothing less leaves what was drawn before drawn.
LEMMA DrawnGrows ==
  ASSUME drawn \subseteq drawn'
  PROVE  IssuersDrawn \subseteq IssuersDrawn' /\ KeysDrawn \subseteq KeysDrawn'
<1>1. ASSUME NEW r \in IssuersDrawn
      PROVE  r \in IssuersDrawn'
  <2>1. PICK a \in ApplicationContexts, t \in drawn, s \in Suites, p \in Profiles :
          Admitted(a) /\ r = Issuer(a, t, s, p)
    BY IssuerParts
  <2>2. t \in drawn'
    OBVIOUS
  <2> QED
    BY <2>1, <2>2 DEF IssuersDrawn
<1> QED
  BY <1>1 DEF KeysDrawn

\* An action that keeps the drawn trapdoors keeps what may be put together.
LEMMA DrawnKept ==
  ASSUME UNCHANGED drawn
  PROVE  IssuersDrawn' = IssuersDrawn /\ KeysDrawn' = KeysDrawn
<1>1. IssuersDrawn' = IssuersDrawn
  BY DEF IssuersDrawn, Issuer, PublicKey, derive_issuer_context, params, public_key, Admitted
<1> QED
  BY <1>1 DEF KeysDrawn

\* A fresh issuer is put together from the trapdoor it draws; the refusal of a
\* context changes nothing.
LEMMA GeneratePreserves ==
  ASSUME IInv, NEW i \in Processes, NEW a \in ApplicationContexts, NEW p \in Profiles,
         NEW s \in Suites, Generate(i, a, p, s)
  PROVE  IInv'
<1>0. drawn \subseteq drawn'
  BY DEF Generate
<1>1. IssuersDrawn \subseteq IssuersDrawn' /\ KeysDrawn \subseteq KeysDrawn'
  BY <1>0, DrawnGrows
<1>2. UNCHANGED <<saved, published, key>>
  BY DEF Generate
<1>3. issuer' \in [Processes -> IssuersDrawn' \cup {Nothing}]
  <2>1. CASE Admitted(a)
    <3>1. PICK t \in Trapdoors \ drawn :
            /\ issuer' = [issuer EXCEPT ![i] = Issuer(a, t, s, p)]
            /\ drawn' = drawn \cup {t}
      BY <2>1 DEF Generate
    <3>2. Issuer(a, t, s, p) \in IssuersDrawn'
      BY <2>1, <3>1 DEF IssuersDrawn, Issuer, PublicKey, derive_issuer_context, params,
                        public_key, Admitted
    <3> QED
      BY <1>1, <3>1, <3>2 DEF IInv
  <2>2. CASE ~Admitted(a)
    BY <1>1, <2>2 DEF Generate, IInv
  <2> QED
    BY <2>1, <2>2
<1>4. key' \in [Clients -> KeysDrawn' \cup {Nothing}]
  BY <1>1, <1>2 DEF IInv
<1>5. saved' \subseteq {key_bytes(r) : r \in IssuersDrawn'}
  BY <1>1, <1>2 DEF IInv
<1>6. published' \subseteq {to_bytes(k) : k \in KeysDrawn'}
  BY <1>1, <1>2 DEF IInv
<1> QED
  BY <1>3, <1>4, <1>5, <1>6 DEF IInv, key_bytes, to_bytes

\* An action that draws nothing keeps the invariant when what it changes is
\* put together from what was drawn.
LEMMA NothingDrawn ==
  ASSUME UNCHANGED drawn,
         issuer' \in [Processes -> IssuersDrawn \cup {Nothing}],
         key' \in [Clients -> KeysDrawn \cup {Nothing}],
         saved' \subseteq {key_bytes(r) : r \in IssuersDrawn},
         published' \subseteq {to_bytes(k) : k \in KeysDrawn}
  PROVE  IInv'
<1>1. IssuersDrawn' = IssuersDrawn /\ KeysDrawn' = KeysDrawn
  BY DrawnKept
<1> QED
  BY <1>1 DEF IInv, key_bytes, to_bytes

\* A process saves and publishes the issuer it holds, and forgets it.
LEMMA ProcessPreserves ==
  ASSUME IInv, NEW i \in Processes, Save(i) \/ Publish(i) \/ CrashIssuer(i)
  PROVE  IInv'
<1>1. CASE Save(i)
  <2>1. issuer[i] \in IssuersDrawn
    BY <1>1 DEF Save, IInv
  <2> QED
    BY <1>1, <2>1, NothingDrawn DEF Save, IInv
<1>2. CASE Publish(i)
  <2>1. issuer[i].public \in KeysDrawn
    BY <1>2 DEF Publish, IInv, KeysDrawn
  <2> QED
    BY <1>2, <2>1, NothingDrawn DEF Publish, IInv
<1>3. CASE CrashIssuer(i)
  BY <1>3, NothingDrawn DEF CrashIssuer, IInv
<1> QED
  BY <1>1, <1>2, <1>3

\* A process loads what some issuer saved.
LEMMA LoadPreserves ==
  ASSUME IInv, NEW i \in Processes, NEW b \in saved \cup published, NEW s \in Suites,
         Load(i, b, s)
  PROVE  IInv'
<1>1. from_key_bytes(b, s) \in IssuersDrawn
  BY LoadsDrawn DEF Load
<1> QED
  BY <1>1, NothingDrawn DEF Load, IInv

\* A client receives a key, as it was published or with its context and profile
\* replaced.
LEMMA ReceivePreserves ==
  ASSUME IInv, NEW c \in Clients, NEW b \in saved \cup published, NEW s \in Suites, NEW bytes,
         bytes.artifact = b.artifact, bytes.mayo = b.mayo,
         bytes.application_context \in ApplicationContexts,
         Receive(c, bytes, s)
  PROVE  IInv'
<1>1. from_bytes(bytes, s) \in KeysDrawn
  BY ReceivesDrawn DEF Receive
<1> QED
  BY <1>1, NothingDrawn DEF Receive, IInv

\* The invariant holds of every behaviour.
LEMMA SpecIInv == Spec => []IInv
<1>1. Init => IInv
  BY DEF Init, IInv
<1>2. ASSUME IInv, [Next]_vars
      PROVE  IInv'
  <2>1. ASSUME NEW i \in Processes, NEW a \in ApplicationContexts, NEW p \in Profiles,
               NEW s \in Suites, Generate(i, a, p, s)
        PROVE  IInv'
    BY <1>2, <2>1, GeneratePreserves
  <2>2. ASSUME NEW i \in Processes, Save(i) \/ Publish(i) \/ CrashIssuer(i)
        PROVE  IInv'
    BY <1>2, <2>2, ProcessPreserves
  <2>3. ASSUME NEW i \in Processes, NEW b \in saved \cup published, NEW s \in Suites,
               Load(i, b, s)
        PROVE  IInv'
    BY <1>2, <2>3, LoadPreserves
  <2>4. ASSUME NEW c \in Clients, NEW b \in saved \cup published, NEW s \in Suites,
               Receive(c, b, s)
        PROVE  IInv'
    BY <1>2, <2>4, StoredContext, ReceivePreserves
  <2>5. ASSUME NEW c \in Clients, NEW b \in saved \cup published, NEW s \in Suites,
               NEW a \in ApplicationContexts, NEW id \in 0..3,
               Receive(c, [b EXCEPT !.application_context = a, !.profile = id], s)
        PROVE  IInv'
    <3> DEFINE bytes == [b EXCEPT !.application_context = a, !.profile = id]
    <3>1. /\ bytes.artifact = b.artifact /\ bytes.mayo = b.mayo
          /\ bytes.application_context \in ApplicationContexts
      BY <1>2, Changed
    <3>2. Receive(c, bytes, s)
      BY <2>5
    <3> HIDE DEF bytes
    <3> QED
      BY <1>2, <3>1, <3>2, ReceivePreserves
  <2>6. CASE UNCHANGED vars
    BY <1>2, <2>6, NothingDrawn DEF vars, IInv
  <2> QED
    BY <1>2, <2>1, <2>2, <2>3, <2>4, <2>5, <2>6 DEF Next
<1> QED
  BY <1>1, <1>2, PTL DEF Spec

-----------------------------------------------------------------------------
(* Theorems.                                                               *)

\* What runs and what was decoded, under the invariant.
LEMMA InMemory ==
  ASSUME IInv
  PROVE  Running \subseteq IssuersDrawn /\ PublicKeys \subseteq KeysDrawn
<1>1. Running \subseteq IssuersDrawn
  BY DEF Running, IInv
<1>2. {key[c] : c \in {d \in Clients : key[d] # Nothing}} \subseteq KeysDrawn
  BY DEF IInv
<1> QED
  BY <1>1, <1>2 DEF PublicKeys, KeysDrawn

\* In every process, after any crash, load or change of a published key, two
\* keys with one context digest are one key of one suite and one profile.
THEOREM IssuerContextNamesKey == Spec => []ContextNamesKey
<1>1. IInv => ContextNamesKey
  <2> SUFFICES ASSUME IInv, NEW k \in PublicKeys, NEW l \in PublicKeys,
                      k.context = l.context
               PROVE  k = l
    BY DEF ContextNamesKey
  <2>1. PICK a \in ApplicationContexts, t \in drawn, s \in Suites, p \in Profiles :
          k = PublicKey(a, public_key(t), s, p)
    BY InMemory, KeyParts
  <2>2. PICK b \in ApplicationContexts, u \in drawn, q \in Suites, o \in Profiles :
          l = PublicKey(b, public_key(u), q, o)
    BY InMemory, KeyParts
  <2>3. a = b /\ public_key(t) = public_key(u) /\ s = q /\ params(p) = params(o)
    BY <2>1, <2>2 DEF PublicKey, derive_issuer_context
  <2>4. p = o
    BY <2>3 DEF params
  <2> QED
    BY <2>1, <2>2, <2>3, <2>4
<1> QED
  BY <1>1, SpecIInv, PTL

\* Whatever issuer runs, its own decoders accept what it saves and publishes
\* and give back the very same trapdoor, context and key.
THEOREM IssuerRestartsAsItself == Spec => []RestartsAsItself
<1>1. IInv => RestartsAsItself
  <2> SUFFICES ASSUME IInv, NEW r \in Running
               PROVE  /\ Decodes(key_bytes(r), "issuer_key", r.public.suite)
                      /\ from_key_bytes(key_bytes(r), r.public.suite) = r
                      /\ Decodes(to_bytes(r.public), "public_key", r.public.suite)
                      /\ from_bytes(to_bytes(r.public), r.public.suite) = r.public
    BY DEF RestartsAsItself
  <2>1. PICK a \in ApplicationContexts, t \in drawn, s \in Suites, p \in Profiles :
          /\ Admitted(a) /\ r = Issuer(a, t, s, p)
          /\ r.secret = t /\ r.public = PublicKey(a, public_key(t), s, p)
    BY InMemory, IssuerParts
  <2>2. /\ r.public.suite = s /\ r.public.profile = p
        /\ r.public.application_context = a /\ r.public.mayo = public_key(t)
    BY <2>1 DEF PublicKey
  <2>3. wire_id(p) \in 1..3 /\ from_wire_id(wire_id(p)) = p
    BY ProfileIds
  <2>4. key_bytes(r) = [artifact |-> "issuer_key", suite |-> s, profile |-> wire_id(p),
                        application_context |-> a, mayo |-> t]
    BY <2>1, <2>2 DEF key_bytes
  <2>5. to_bytes(r.public) = [artifact |-> "public_key", suite |-> s, profile |-> wire_id(p),
                              application_context |-> a, mayo |-> public_key(t)]
    BY <2>2 DEF to_bytes
  <2>6. Decodes(key_bytes(r), "issuer_key", s) /\ Decodes(to_bytes(r.public), "public_key", s)
    BY <2>1, <2>3, <2>4, <2>5 DEF Decodes, Admitted
  <2>7. from_key_bytes(key_bytes(r), s) = r
    BY <2>1, <2>3, <2>4 DEF from_key_bytes
  <2>8. from_bytes(to_bytes(r.public), s) = r.public
    BY <2>1, <2>3, <2>5 DEF from_bytes
  <2> QED
    BY <2>2, <2>6, <2>7, <2>8
<1> QED
  BY <1>1, SpecIInv, PTL

\* Every key in a memory is that of a trapdoor some issuer drew, and a running
\* issuer holds the trapdoor of its own key.
THEOREM IssuerKeysHaveIssuers == Spec => []KeysHaveIssuers
<1>1. IInv => KeysHaveIssuers
  <2> SUFFICES ASSUME IInv
               PROVE  KeysHaveIssuers
    OBVIOUS
  <2>1. ASSUME NEW k \in PublicKeys
        PROVE  \E t \in drawn : k.mayo = public_key(t)
    BY InMemory, KeyParts DEF PublicKey
  <2>2. ASSUME NEW r \in Running
        PROVE  r.secret \in drawn /\ r.public.mayo = public_key(r.secret)
    <3>1. PICK a \in ApplicationContexts, t \in drawn, s \in Suites, p \in Profiles :
            r.secret = t /\ r.public = PublicKey(a, public_key(t), s, p)
      BY InMemory, IssuerParts
    <3> QED
      BY <3>1 DEF PublicKey
  <2> QED
    BY <2>1, <2>2 DEF KeysHaveIssuers
<1> QED
  BY <1>1, SpecIInv, PTL
=============================================================================
