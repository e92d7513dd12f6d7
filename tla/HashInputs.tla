------------------------------- MODULE HashInputs -------------------------------
(***************************************************************************)
(* Every byte string VOLE-ARC hashes with SHAKE256 or hands to the proof    *)
(* system as a statement, written update by update as src/context.rs,       *)
(* src/circuit.rs and src/protocol.rs write it.  The other modules take a   *)
(* digest to be the tuple of what was hashed; that is sound only when two   *)
(* different tuples are never hashed from the same bytes.                   *)
(*                                                                         *)
(* A domain string is one symbol, which DomainsAssumption licenses; the     *)
(* rest is bytes, of a small base so that data can look like a length.      *)
(***************************************************************************)
EXTENDS Integers, Sequences, FiniteSets, SequencesExt

CONSTANTS
    Base,         \* values of a byte (256)
    U64_BYTES,    \* bytes of a length frame (8)
    U32_BYTES,    \* bytes of a nonce and a limit (4)
    Data,         \* application data
    Digests,      \* 32-byte strings: digests, secrets, salts, tags
    Suites,       \* MAYO parameter sets: name, n, m, o, k
    Profiles,     \* performance profiles: tau, k
    Numbers,      \* nonces and limits
    None          \* no epoch

Octet == 0..Base - 1

\* Base to the power k.
Power[k \in Nat] == IF k = 0 THEN 1 ELSE Base * Power[k - 1]

\* The numbers of so many bytes.
Below(width) == 0..Power[width] - 1

\* A length is a usize, and a suite's and a profile's numbers are too: `as u64`
\* loses nothing.
ASSUME BytesAssumption ==
    /\ Base \in Nat \ {0, 1} /\ U64_BYTES \in Nat \ {0} /\ U32_BYTES \in Nat
    /\ Data \subseteq Seq(Octet)
    /\ \A d \in Data : Len(d) \in Below(U64_BYTES)
    /\ \A d, e \in Digests : d \in Seq(Octet) /\ Len(d) = Len(e)
    /\ Numbers \subseteq Below(U32_BYTES)
    /\ None \notin Data

\* A suite is known by its name, and by its numbers.
ASSUME SuitesAssumption ==
    /\ \A s \in Suites :
         /\ s.name \in Seq(Octet) /\ Len(s.name) \in Below(U64_BYTES)
         /\ \A number \in {s.n, s.m, s.o, s.k} : number \in Below(U64_BYTES)
    /\ \A s, t \in Suites :
         s.name = t.name \/ <<s.n, s.m, s.o, s.k>> = <<t.n, t.m, t.o, t.k>> => s = t
    /\ Profiles \subseteq [tau : Below(U64_BYTES), k : Below(U64_BYTES)]

Domains ==
    {"VOLE-ARC/credential-context/v1", "VOLE-ARC/presentation-context/v1",
     "VOLE-ARC/scoped-presentation/v1", "VOLE-ARC/presentation-binding/v1",
     "VOLE-ARC/credential/v1", "VOLE-ARC/signed/v1", "VOLE-ARC/tag/v1",
     "VOLE-ARC/mayo-public-key/v1", "VOLE-ARC/credential-scope/v1",
     "VOLE-ARC/presentation-scope/v1", "VOLE-ARC/issuer-context/v1",
     "VOLE-ARC/issue-statement/v1", "VOLE-ARC/presentation-statement/v1"}

\* No domain begins with another, so the bytes after a domain cannot turn it
\* into one.
ASSUME DomainsAssumption ==
    \A d \in Domains : \A e \in Domains \ {d} :
      Len(e) > Len(d) \/ SubSeq(d, 1, Len(e)) # e

VARIABLES
    query,      \* what is hashed: a function of the code and its arguments
    updates,    \* the updates still to come
    absorbed    \* the bytes taken in

vars == <<query, updates, absorbed>>

-----------------------------------------------------------------------------
LittleEndian(n, width) ==
    LET rest[i \in Nat] == IF i = 0 THEN n ELSE rest[i - 1] \div Base
    IN  [i \in 1..width |-> rest[i - 1] % Base]

\* (n as u64).to_le_bytes()
u64(n) == LittleEndian(n, U64_BYTES)

u32(n) == LittleEndian(n, U32_BYTES)

\* Mutant: no length before the component.
Framed_bare(component) == <<component>>

\* A component after its length: encode_bytes, and the loop of hash_framed.
Framed(component) == <<u64(Len(component)), component>>

hash_framed(domain, components) ==
    <<<<domain>>>> \o FlattenSeq([i \in DOMAIN components |-> Framed(components[i])])

\* The presence byte and the epoch, both components.
EpochParts(epoch) == IF epoch = None THEN <<<<0>>, <<>>>> ELSE <<<<1>>, epoch>>

scoped(relying_party, purpose, epoch) ==
    hash_framed("VOLE-ARC/scoped-presentation/v1",
                <<relying_party, purpose>> \o EpochParts(epoch))

\* hash_scope, and the messages of fixed parts: no frames.
hash_scope(domain, parts) == <<<<domain>>>> \o parts

mayo_system_and_hash(suite, forms) ==
    <<<<"VOLE-ARC/mayo-public-key/v1">>,
      u64(suite.n), u64(suite.m), u64(suite.o), u64(suite.k), forms>>

derive_issuer_context(application_context, public_key_hash, suite, profile) ==
    <<<<"VOLE-ARC/issuer-context/v1">>>> \o Framed(application_context)
      \o <<public_key_hash, suite.name, u64(32), u64(profile.tau), u64(profile.k)>>

issue_statement(suite, issuer_context, credential_context, commitment) ==
    <<<<"VOLE-ARC/issue-statement/v1">>>> \o Framed(suite.name)
      \o <<issuer_context, credential_context>> \o Framed(commitment)

presentation_statement(suite, issuer_context, c, tag) ==
    <<<<"VOLE-ARC/presentation-statement/v1">>>> \o Framed(suite.name)
      \o <<issuer_context, c.credential_context, c.presentation_context,
           u32(c.limit), c.binding, tag>>

\* The updates of a query.
Updates(q) ==
    CASE q[1] = "credential_context" ->
           hash_framed("VOLE-ARC/credential-context/v1", <<q[2]>>)
      [] q[1] = "presentation_context" ->
           hash_framed("VOLE-ARC/presentation-context/v1", <<q[2]>>)
      [] q[1] = "scoped" -> scoped(q[2], q[3], q[4])
      [] q[1] = "binding" -> hash_framed("VOLE-ARC/presentation-binding/v1", <<q[2]>>)
      [] q[1] = "credential_scope" ->
           hash_scope("VOLE-ARC/credential-scope/v1", <<q[2], q[3]>>)
      [] q[1] = "presentation_scope" ->
           hash_scope("VOLE-ARC/presentation-scope/v1", <<q[2], q[3], q[4]>>)
      [] q[1] = "credential" -> hash_scope("VOLE-ARC/credential/v1", <<q[2], q[3], q[4]>>)
      [] q[1] = "signed" -> hash_scope("VOLE-ARC/signed/v1", <<q[2], q[3]>>)
      [] q[1] = "tag" -> hash_scope("VOLE-ARC/tag/v1", <<q[2], q[3], u32(q[4])>>)
      [] q[1] = "mayo_key" -> mayo_system_and_hash(q[2], q[3])
      [] q[1] = "issuer_context" -> derive_issuer_context(q[2], q[3], q[4], q[5])
      [] q[1] = "issue_statement" -> issue_statement(q[2], q[3], q[4], q[5])
      [] q[1] = "presentation_statement" -> presentation_statement(q[2], q[3], q[4], q[5])

-----------------------------------------------------------------------------
(* What the program hashes.                                                *)

\* Byte strings of a length a suite fixes: the entries of its forms, and its
\* targets, packed into bytes or one element to a byte.
BytesOf(len) == [1..len -> Octet]

Queries ==
    ({"credential_context", "presentation_context", "binding"} \X Data)
      \cup ({"scoped"} \X Data \X Data \X (Data \cup {None}))
      \cup ({"credential_scope"} \X Digests \X Digests)
      \cup ({"presentation_scope", "credential"} \X Digests \X Digests \X Digests)
      \cup (UNION {{"signed"} \X BytesOf((s.m + 1) \div 2) \X Digests : s \in Suites})
      \cup ({"tag"} \X Digests \X Digests \X Numbers)
      \cup (UNION {{"mayo_key"} \X {s} \X BytesOf(s.o) : s \in Suites})
      \cup ({"issuer_context"} \X Data \X Digests \X Suites \X Profiles)
      \cup (UNION {{"issue_statement"} \X {s} \X Digests \X Digests \X BytesOf(s.m) : s \in Suites})
      \cup ({"presentation_statement"} \X Suites \X Digests
              \X [credential_context : Digests, presentation_context : Digests,
                  limit : Numbers, binding : Digests] \X Digests)

Init ==
    /\ query \in Queries
    /\ updates = Updates(query)
    /\ absorbed = <<>>

\* hash.update
Update ==
    /\ updates # <<>>
    /\ absorbed' = absorbed \o Head(updates)
    /\ updates' = Tail(updates)
    /\ UNCHANGED query

Next == Update

Spec == Init /\ [][Next]_vars

-----------------------------------------------------------------------------
(* Properties.                                                             *)

HashedAs == {<<q, FlattenSeq(Updates(q))>> : q \in Queries}

\* Framing and domain separation: the bytes a hash has taken in when it is
\* finalized are the bytes of one query alone.  Neither components that move
\* bytes over their borders, nor an epoch that is empty and one that is absent,
\* nor two uses of the hash, meet in one digest.
OneQueryPerInput ==
    updates = <<>> => {h \in HashedAs : h[2] = absorbed} = {<<query, absorbed>>}
=============================================================================
