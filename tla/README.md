# A TLA+ development of VOLE-ARC

VOLE-ARC is a library for anonymous rate-limited credentials. An issuer signs a
hidden secret once; its holder then makes up to `limit` unlinkable
presentations in each rate-limit bucket; a relying party checks a proof and
consumes a deterministic tag, so that no use counts twice. This directory models
the protocol state machine of `src/src/`, checks it on small instances with TLC
and proves its main properties for all instances with TLAPS.

## The system

| Part | Source | State | Operations |
|---|---|---|---|
| Issuer | `protocol.rs` | the MAYO trapdoor, profile and application context; nothing per request | generation, `key_bytes`, `from_key_bytes`, `public_key`, `issue` |
| Public key | `protocol.rs` | the expanded key and its context digest | `to_bytes`, `from_bytes` |
| Client, issuing | `protocol.rs` | `PendingIssue` (issuer, context, secret, hiding nonce) | `prepare_issue`, `to_bytes`, `from_bytes`, `finish` |
| Holder | `protocol.rs` | `Credential`: authenticator and one counter for each presentation context | `present`, `to_bytes`, `from_bytes` |
| Verifier | `protocol.rs` | none of its own | `verify_proof_only`, `verify` |
| Tag store | `store.rs` | a set of (scope, tag), shared by all replicas | `insert_if_absent` |
| Statements and circuits | `circuit.rs`, `protocol.rs` | none | scopes, targets, tags, `witness` and `build` of the two circuits, the range check |
| Contexts and challenges | `context.rs` | none | `new`, `scoped`, the framed hash |
| Wire | `wire.rs` | decoder offset | header, fields, nibbles |
| Keccak | `keccak.rs`, `circuit.rs` | none | SHAKE256, and its rounds a second time for the circuits |
| Suites and profiles | `markers.rs` | none | parameters, wire identifiers |

They interact through values only: the client sends a request and gets a
response; the holder sends a presentation for a challenge that the relying party
chose; the verifier calls the store; the application around each of them saves
bytes, transmits and acts. No operation of the library waits for another, so the
hard behaviours lie between the operations:

- calls of `verify` on several replicas interleave between the check of a proof
  and the insertion of its tag, and may crash in any step; the store may fail
  with or without having made the tag durable;
- a holder may crash between `present`, saving and transmitting, restart from
  what it saved, or be handed an older snapshot, which it cannot recognise;
- requests, responses and presentations are repeated, crossed, recombined and
  shown under challenges they were not made for;
- the limit is an argument of every challenge, and may change in a bucket that
  is already in use;
- counters, the number of contexts and the nonce's range have edges;
- what one side computes on bytes the other asserts on bits: two codecs of every
  artifact, two implementations of Keccak, a tape that is written in one place
  and allocated in another.

What makes each part correct: the verifier lets through at most `limit` calls for
each lineage and scope, each for the request it was proved for, and refuses as
duplicates only duplicates; the holder never repeats a tag while its storage is
honest, never loses a use, and can always restore what it saved; issuance makes
no lineage the issuer did not accept under the context its policy chose, and
strands no client that saved; the circuits accept exactly the honest tapes of
their relation; no two inputs are hashed as the same bytes; a decoder accepts
exactly the canonical encodings of legal values; an issuer that restarts is the
issuer it was, and a key stands for no other.

## Modules

    ArcStatements          contexts, challenges, scopes, tags, statements, circuit, proofs
      IssuedCredentials    the population of credentials the next two start from
        Verifier           verify, the store, callers       refines ScopedRateLimit
        Credential         present, codecs, crashes, rollback
          VoleArc          holder, network, replicas        refines Verifier and Credential
      Issuance             prepare_issue, issue, finish, crashes, the network
        Deployment         issuance that goes on in front of a verifier
    RangeProof             the range check, bit by bit
    Keccak                 the permutation, on lanes and on bits
      Shake256             shake256, round by round
      ArcCircuit           witness and build of both circuits over committed tapes
    HashInputs             what is hashed, update by update
    Wire                   encoders and decoders of all artifacts
    IssuerKeys             generation, storage, publication and decoding of keys
    ScopedRateLimit        the abstract rate limit
    MC*                    instances for TLC
    *Proofs                theorems (VoleArcProofs: of Verifier and Credential too;
                           EncodingProofs: of Wire and HashInputs)

The first group models the protocol over abstract values; the others model what
the first takes for granted of bytes and bits. `ArcStatements` takes a digest to
be the tuple of its inputs, which needs `HashInputs` (different tuples are
different bytes) and `Shake256`; it takes a proof to satisfy its relation, which
needs `ArcCircuit` and `RangeProof`; encodings are records there, which needs
`Wire`; and a public key is the identity of its issuer, which needs `IssuerKeys`.

**ArcStatements** is shared by the rest. Bytes are abstracted, bindings are not:
each statement, scope and target holds exactly the fields the code writes into
it, in the form of a tuple or a record. Three idealisations are made.
A SHAKE256 digest under a fixed domain is the tuple of its inputs, so it has no
collisions, except for the presentation tag, which goes through the constant
operator `TagHash` and may collide in any way. A MAYO preimage names the key and
the target it opens, so only the trapdoor's holder makes one. A proof carries
the statement, circuit and witness it was made from, verifies only for that
statement and circuit, and only if the witness satisfies the circuit (soundness
with extraction). A public key is the identity of its issuer context, in which
suite and profile are digested.

**Verifier** has two variables: `store`, and `call[c]`, how far each call of
`verify` got. `Accept` and `Reject` are `verify_proof_only` (all its inputs come
from `Deliveries`: every satisfiable proof, in its own or another proof's
envelope, under every challenge at a verifier of every issuer); `Consume`,
`Duplicate` and `StoreFails` are the outcomes of `insert_if_absent` with what
`verify` makes of them; `Act` is the protected action that the contract of
`TagStore` lets the caller perform; `Crash` loses a call. A call's witness and
`made_for` are history, for properties only.

**ScopedRateLimit** is what a relying party is promised: requests are authorised
by redeeming distinct units (lineage, nonce below the stated limit) of a scope.
`RefinesRateLimit` maps a verifier's calls that acted to authorised requests.

**Credential** has the credential in memory (`live`), the snapshot on disk, an
archive of all snapshots, and the presentations made. `Present` is the whole of
`present` with its checks in order (`PresentResult`); `Refuse` and `ProofFails`
are its error paths, which leave everything alone; `Restart` is `from_bytes`
with all checks of the counter map and of the authenticator. `Save`, `Transmit`,
`CrashHolder` and `Rollback` are the application and its storage: presentations are
transmitted only after a save, as the documentation of `Credential` requires.
`rolled_back` is history: whether storage ever returned anything but the last
snapshot.

`NoRepeatedTag` says more than the documents do. `docs/DESIGN.md:204` says that "A crash
or rollback between these steps may repeat a tag"; the comment on `Credential`
(`protocol.rs:663`) says so of rollback only, and that is what holds: in the documented
order, save before transmit, a crash alone loses uses that were never transmitted and
repeats no tag that was. After a rollback tags do repeat, which `NoRepeatedTag` excludes;
`RollbackNoGain` says that it wins nothing.

**Issuance** has the pending state in memory and saved, the request of each
session, the issuer's calls (`log`, history: the issuer itself is stateless) and
what `finish` returned. Messages are never removed and may be recombined field by
field, so loss, delay, repetition and crossing are all included. Sessions choose
their hidden values freely, so nothing depends on honest clients. `finish` takes
the pending state by value, in success and failure. `Issue` draws a salt that no
earlier call drew. `issue`'s check of the commitment's length has no counterpart,
because `prepare_issue` and the decoder make only requests of the right length.

**RangeProof** runs the prover's loop over the bits (`append_less_than_carries`,
AND and OR) and the circuit's loop of equations over GF(2)
(`assert_u32_less_than`), with honest carries or any others. What it compares is the
numbers that the bits spell (`Number`; `MCRangeProof` checks that they are the sums
of powers of two); the carries are compared with the order of the bits
(`LessBelow`). `ArcStatements` uses the comparison itself.

**VoleArc** puts one honest holder (`Credential`) before the replicas and the
store (`Verifier`). `DeliverUse` hands a transmitted use, once, again or never, to
any replica under any challenge; `DeliverOther` is any proof of another holder
and anything refused. The holder is the only one of its lineage
(`SoleAssumption`): an application that finished one pending state twice keeps
one credential. `shown`, which use a call was shown, is history.

**Deployment** puts a verifier behind `Issuance`. Anyone assembles an
authenticator from released signatures and any secrets (`AllAuthenticators`) and
presents it at any nonce, so two credentials of one lineage with counters of
their own are included. One `Verifier` takes itself exclusively, so a call of
`verify` is one step; replicas are `Verifier`'s matter.

**Wire** has `to_bytes` of each of the seven artifacts as one definition, and runs
`from_bytes` as the decoder runs it: `New` is the envelope, `ReadArray`,
`ReadProfile`, `ReadNibbles`, `ReadBytes`, `ReadCount` and `ReadCounter` consume
the `Layout` of the artifact field by field over `offset`, and `Finish` is the
trailing check with what local state checks against the public key. Each has its
refusals. What a MAYO key or a proof decodes to is a constant.

**Keccak** has the round on lanes of `keccak.rs` (`round`), the round on bit
expressions of `circuit.rs` (`keccak_round_expr`), and the text of FIPS 202 as
reference. A state is the set of its one bits. **Shake256** is the loop of
`shake256`: absorption, padding, chunks of output, with one step for each round.

**ArcCircuit** has the native computation that writes a tape (`witness`) and
`build` step by step: parameters, allocation in order, the range check, and for
each hash its message of wires, groups of four rounds from checkpoint to
checkpoint (`CheckGroup`) and the assertion on its output. A step whose assertion
fails rejects; the proof system collects all assertions, which decides the same.
`RangeHolds` is the equations of `RangeProof`. The MAYO quadratic map is a
constant. Powers, bits and checkpoints are functions over all numbers, of which
the code takes the values below a width, so that they can be reasoned about by
their steps.

**HashInputs** writes every query to SHAKE256 and every statement as the list of
updates that the code makes, and absorbs them one by one. A domain string is one
symbol: no domain is the beginning of another (`DomainsAssumption`, which TLC
evaluates). A byte has any base of at least two values, and a length frame any
width that its lengths fit in.

**IssuerKeys** runs issuer processes and clients: `Generate` (which panics for a
context over the bound), `Save`, `Publish`, `CrashIssuer`, `Load`, and `Receive`,
which decodes a published key as it is or with a field altered on its way. Each
decoder refuses the other artifact and the other suite.

## Runs

| Run | Instance | Shows |
|---|---|---|
| `race` | 4 calls (symmetric), 1 bucket, 1 lineage with two authenticators, limits 0 to 2 | the rate limit, exclusive grants, a store bounded by policy, and refinement of the abstract rate limit under every interleaving, failure and crash |
| `policy` | 2 calls; 2 issuers, credential contexts, buckets and bindings; limits 1 and 2; a tag hash that ignores the scope | proofs do not transfer between requests, policies, buckets or issuers, buckets do not exhaust each other, every call that verified ends, and a race for a key has a winner unless a call fails |
| `crash` | 3 uses, 3 contexts, room for 2 counters, counters up to 2, limits 0 to 2, 2 issuers and contexts | no counter wraps, no repeated tag, no lost use, every snapshot restores, at both bounds and across crashes and rollbacks |
| `network` | 2 sessions, issuers, contexts, secrets and salts | lineages are paid for, every authenticator goes back to a call of `issue` for its context, credentials are authentic, saved sessions not stranded |
| `system` | 2 uses of the holder, another holder, 2 calls, limits 1 and 2 | an honest holder gets its allowance and nobody else spends it, rollback wins nothing, and the system implements the verifier before arbitrary provers |
| `paid` | 2 sessions, credential contexts, secrets and salts, 3 calls, a tag hash that ignores the scope | verification grants what issuance charged for, finished credentials are usable, duplicates are of one lineage |
| `bits` | every 4-bit nonce, nonzero limit and carries | the range check is sound, complete and has one witness |
| `tapes` | 10 circuits over lanes of 8 bits and 8 rounds; tapes of right and wrong secrets, of another circuit, and every fifth bit of the honest tapes flipped | a tape is accepted exactly when it is honest and in the relation |
| `fips` | lanes of 64 bits, 24 rounds, blocks of 136 bytes; 6 pairs of lengths at and around the borders | SHAKE256 is that of FIPS 202; the circuit's round is the prover's |
| `framing` | data of up to 3 bytes, two digests, suites and profiles | one query for each byte string |
| `codec` | encodings of a few values of each artifact and all byte strings one edit away, each decoded as each artifact | exactly the canonical encodings of legal values are accepted |
| `restart` | 2 issuers, 2 clients, suites and trapdoors; application contexts below, at and above the bound | what a context names, restarts, whose keys are decoded |

Bounds. `U32Max` stands for 2^32 - 1: limits and nonces reach it in `race`,
`policy`, `system`, `paid` and `crash`, so the largest counter is met. With limits
up to 2 and four calls, a lineage can use up its allowance and two further calls
can race for it or repeat it; with two authenticators over one commitment the
runs tell lineages from authenticators. In `policy` two of everything let any one
field differ. In `crash` the third context meets the full counter map and three
uses meet the limit in one context with one to spare. In `network` a
recombination needs two sessions, a re-signing two salts. In `system` two calls
show one use twice, or two uses of one nonce after a rollback; its tags are
distinct, and its theorems cover the rest. In `paid` one commitment with limit 2
meets its third call, and a commitment of one context the other context.
`Uses`, `Sessions`, `Salts` and `Calls` bound the length of behaviours: each
names a call and is used once.

In `tapes` the shape of the circuits is kept: the rate is 17 of 25 lanes, each
hash has a checkpoint between its ends, a message fills its block to the last
byte. The permutation itself is checked at full size in
`fips`. In `framing` a byte has three values, of which data use two, and a
length has four bytes, so that data can look like lengths. In `codec` digests have
two bytes, and sizes are so small that counts and lengths reach and pass their
limits within one edit.

Both suites that `ArcParams` is sealed to, MAYO1 and MAYO2, have an even number of
elements in targets and signatures. `OddHalfEmpty`, and the zeros of `ToWholeBytes`,
are code that no build reaches. They are modelled because the code has them, the
instances of `codec` and `tapes` have odd sizes so that they are exercised, and the
theorems hold for every size; no property is there for their sake.

Symmetry is taken only over names that no definition singles out, and never in a
run with a liveness property. Deadlock is not checked, because all these systems
stop when their calls, uses, sessions, bits or bytes are used up.

Fairness. `RaceDecided`, the one liveness property, says of each call that verified a
proof that it ends: it acts, fails or crashes, or is told `TagAlreadyUsed`, and then another
call with its key acts, fails or crashes. It assumes that a call that
verified a proof goes on to the store and that a caller with a grant acts, unless
it crashes: `verify` is straight-line code between those points. `StoreFails`
and `Crash` are never required to happen, and no call is required to begin.
The other components have no liveness property, since nothing in the library
retries or schedules their steps; the loops of `Wire`, `Shake256` and `ArcCircuit`
have no cycle.

## Proofs

All theorems hold for any constants that satisfy the named assumptions, which TLC
evaluates on the instances of the runs. `TagHash` is arbitrary; calls, uses,
sessions, issuers, clients and inputs may be infinitely many. Assumed are:

- of the protocol: `U32Max` a positive natural number, `Limits` within it, a
  natural number of contexts, the population of credentials finite and made by
  issuers (`IssuedAssumption`), the holder's credential in it and, for the composed
  system, alone of its lineage (`SoleAssumption`);
- of `Wire`: sizes that are natural numbers, and of the values whose encodings
  `RoundTrip` is about that the program may hold them (`ValuesAssumption`): arrays
  and vectors of the lengths their types or constructors fix, counters above zero
  in the order of their map and at most as many as it may have, local state of the
  key it is decoded against, contents that the external decoders take, and
  encodings within `MAX_WIRE_BYTES`;
- of `HashInputs`: lengths and numbers fit their frames, digests have one length, a
  byte has at least two values (`BytesAssumption`), and a suite is known by its name
  as by its numbers (`SuitesAssumption`; the sealed `ArcParams` has MAYO1 and MAYO2);
- of `Keccak` and `Shake256`: lanes of 1 to 64 bits, at most 24 rounds, blocks that
  fit in the state, messages of bytes (`CallsAssumption`);
- of `ArcCircuit`: sizes are natural numbers, the rounds come in groups of four and a
  nonce in whole bytes, domains are bytes (`SizesAssumption`); scopes and tags are
  bytes, the target of a request is made of elements of GF16, a limit has the width of
  a nonce, which are the types of the fields, and every message fits in a block, which
  `debug_assert`s state and `pad_single_block` asserts (`CircuitsAssumption`); a tape is as
  long as `witness` makes it, because a proof of another length is no proof of this
  circuit (`TapesAssumption`). Nothing is assumed of the bits of a tape, of the
  number of elements of a requested target, nor of the MAYO map.

- **ScopedRateLimitProofs**: `RateLimitAccounting`. Units are redeemed once, and
  those redeemed under limits of at most L are pairs of a lineage and a nonce
  below L. The pairs are counted in the same module.
- **VoleArcProofs**, verifier: the inductive invariant says that a call past the check of
  its proof carries the key its witness derives (`CallsSound`), that calls let
  through own their key in the store (`GrantedStored`, `GrantOnce`) and that keys
  in the store come from calls (`StoreOwned`, `StoreJustified`). The properties
  are not inductive alone: nothing in `GrantOnce` keeps a granted key from
  leaving the store or a second call from finding it absent. The accounting follows
  by counting: equal units have equal keys, so granted calls hold distinct units.
  This direction of the hash is the only one used, which is why colliding tags
  cannot raise the limit. `VerifierRefinesRateLimit` maps `Act` to `Redeem` and
  all other steps to stuttering.
- **VoleArcProofs**, holder: the invariant adds that every credential in memory or
  restorable is well formed, and that, until the storage rolls back, the disk
  covers what may be transmitted, the memory covers what it made and is never
  behind the disk (`InOrder`).
- **IssuanceProofs**: the invariant says that pending state, in memory or saved,
  opens its session's own request, and that the log holds only commitments opened
  under the context they were accepted for. `LineagesPaidFor` follows by mapping
  commitments onto secrets. `IssuancePopulation` finds behind every authenticator
  that verifies the call of `issue` it comes from: the signature names the commitment
  and the salt, and the log's own openings its context, for a commitment has one. `Verifier` and
  `Credential` assume of their credentials only that they verify. For `Deployment` the invariant adds that each
  call that verified opened a commitment in the log for its own context (`Sound`),
  that its key is in the store and that granted calls own the keys there.
  `DeploymentPaidUses` counts pairs of an opened commitment and a nonce;
  `DeploymentDuplicatesOfLineage` reads the owner of the key off the store.
- **VoleArcProofs**, composition: `SystemIInv` joins the invariants of verifier and holder and
  says that a call that verified a use carries exactly that use, and any other
  call an opening under a signature that is not the holder's (`Attributed`).
  Without it neither `FreshUseAdmitted` nor `AllowanceIsOwn` could tell whose key a
  duplicate met. `SystemRefinesVerifier` and `SystemRefinesHolder` map each step to
  a step or a stutter, and `SystemRefinesRateLimit` follows.
- **IssuerKeysProofs**: `IInv` says that every issuer in a process, everything saved,
  every key published or received is put together (`Issuer`, `PublicKey`) from a drawn
  trapdoor, an admitted context, a suite and a profile. A key altered on its way
  still is, because what arrives is put together anew from the altered parts: it
  is the key of another profile or context, under another digest.
  `IssuerContextNamesKey` then reads the parts off the digest, and
  `IssuerRestartsAsItself` follows because generation and both decoders admit the
  same contexts and the number of a profile is read back as the profile.
- **EncodingProofs**, artifacts: `WireIInv` says that what has been consumed is the
  encoding of the fields read so far. At `Finish` nothing is left, so the whole
  input is the encoding of the value (`WireCanonical`), for any sizes and inputs.
  The step for nibbles rests on the refusal of a nonempty last half byte. For
  `WireRoundTrip` the invariant `ReadsBack` goes the other way: while the input is the
  encoding of a value the program holds, the decoder of its artifact has read the
  first of its fields and records, stands where the next is encoded, and has refused
  nothing; any other decoder stops at the header.
- **EncodingProofs**, hash inputs: the invariant `HashIInv` is that the bytes absorbed
  with those still to come are the bytes of the query, so the theorem is that equal
  bytes are of equal queries. The domain, always first, tells the uses of the hash
  apart (`SameDomain`). Within one use parts are read back from the front
  (`JoinsReadBack`): the length of each is fixed, or stands in a frame before it, or
  all that follows it has fixed lengths, as after a signed target and after the
  suite's name in `derive_issuer_context`, which have no frame. A frame is read back
  because a number below the base's power is the only one with its little-endian
  bytes (`LittleEndianReads`).
  Induction over numbers is written with sets, from the least element of a nonempty
  one.
- **RangeProofProofs**: the carry of either loop is the comparison of the bits
  below the index. `CarryStep` shows it for the OR of products, `EquationSolved`
  that the equation over GF(2) has the same value as its one solution. The order of
  bits from the highest that differs is the order of numbers (`OrderIsNumeric`), so
  the theorems are about `presentation_nonce < presentation_limit` itself.
- **Shake256Proofs**: `RoundAgrees` compares the two rounds bit by bit: a rotation of
  lanes is an index into them (`RotatedBit`), a column's exclusive or is the parity of
  its bits. `RoundIsReference` does the same for FIPS 202, whose offsets come from a
  walk and whose constants come from a shift register: both are run through here,
  24 steps and 168 steps, with recursion unfolded by `Induction` over sets.
  The sponge's invariant (`SpongeInv`) says that the state and the rounds still to do
  lead to the state of the reference for the blocks absorbed or squeezed so far
  (`Toward`), and that the output read so far is that of the reference. Padding is
  where they differ in form: the crate puts bytes into a block, FIPS 202 bits at the
  end of a string, and a message that fills its block gets a block of padding only
  (`WholeBlock`, `LastBlock`).
- **ArcCircuitProofs**: whatever the tape, `build` accepts it exactly if it is the tape
  that `witness` writes for secrets in the relation. One half is that strings of bits
  are what the two sides say they are: a number is the one its bits spell
  (`NumberSpells`), elements are read back from a string and a string from its elements
  (`BitStringOf`), two elements are one byte and zeros fill the last (`PackedBits`), a
  state's bytes are its bits (`StateBytes`), and the padding stored over the wires is
  the padding xored into the block (`PaddedBits`). The other half is what each assertion
  says of a tape: the equations of the range check hold exactly for the honest carries
  of a nonce below the limit (`RangeIsHonest`), whatever a prover puts there; four rounds
  from one honest checkpoint meet the next only if that is honest too
  (`GroupIsHonest`, from the agreement of the two rounds); and the output is compared
  with every bit of target, authenticator and tag. `IssueTape` and `PresentationTape` split
  the equality of tapes into these parts. The invariant (`Inv`) holds, for each stage,
  how much is allocated and where the next field begins, that the wires are the
  secrets the tape stands for, and which of the parts are known to be honest. Neither
  property is inductive without it: that the last assertion holds says nothing of the
  fields and hashes before it. It needs both directions at each step, since a
  refusal must rest on a part that is wrong.

Only model-checked: `RaceDecided`, since liveness under fairness is beyond the
prover. `TypeOK` of `Verifier`, `Issuance`, `RangeProof` and `Shake256` is only proved.

## Not modelled

MAYO and voleith are other crates: sampling and evaluating the quadratic map, the
proof system and its encoding are constants or idealised as above, and with them
the claim that a proof shows a witness. Zero knowledge, unlinkability, side
channels and zeroization are not properties of behaviours. `MemoryTagStore` loses
its content with its process, which the code documents; the store of `Verifier` is
durable. `lib.rs` re-exports. The example, benches and fuzz targets drive the
library and keep no state of its own; scripts and the paper describe it, and the
paper's accounting theorem is `ScopedAccounting`.

## Plan

Every safety and action property of the runs is a theorem. What is left: `ArcStatements`
takes a proof to satisfy its relation, and an instance of `ArcCircuit`'s relation under
the abstract digests would state that step as a refinement too. Beyond it lie the
external crates: a model of voleith's transcript, and of MAYO's map over GF16.
