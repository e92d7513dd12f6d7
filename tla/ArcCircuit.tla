------------------------------- MODULE ArcCircuit -------------------------------
(***************************************************************************)
(* The issuance and presentation circuits of src/circuit.rs over the tape   *)
(* of witness bits a prover committed to: the native computation with which *)
(* witness() writes an honest tape, and build(), which allocates the tape   *)
(* in order and asserts what ties its parts together.  Provers and          *)
(* verifiers run the same build; a proof is accepted iff every assertion    *)
(* holds on the committed tape.  The MAYO map is external and a constant.   *)
(***************************************************************************)
EXTENDS Keccak

CONSTANTS
    CREDENTIAL_DOMAIN, SIGNED_CREDENTIAL_DOMAIN, TAG_DOMAIN,   \* byte strings
    SECRET_BYTES, HIDING_NONCE_BYTES, SALT_BYTES,
    PRESENTATION_NONCE_BITS,
    M, KN,             \* GF16 elements of a MAYO target and of a signature
    MayoEval(_),       \* the public quadratic map, external
    Circuits,          \* the circuits built
    Tapes(_)           \* the tapes committed to for a circuit

ASSUME SizesAssumption ==
    /\ ROUNDS % 4 = 0
    /\ {SECRET_BYTES, HIDING_NONCE_BYTES, SALT_BYTES, M, KN} \subseteq Nat
    /\ PRESENTATION_NONCE_BITS \in Nat \ {0} /\ PRESENTATION_NONCE_BITS % 8 = 0
    /\ CREDENTIAL_DOMAIN \in Seq(0..255) /\ SIGNED_CREDENTIAL_DOMAIN \in Seq(0..255)
    /\ TAG_DOMAIN \in Seq(0..255)
    /\ Len(SIGNED_CREDENTIAL_DOMAIN) + ((M + 1) \div 2) + SALT_BYTES < RATE_BYTES

VARIABLES
    circuit,   \* the public instance
    tape,      \* the committed bits
    used,      \* bits allocated
    wires,     \* what was allocated or computed, by name
    sponge,    \* the last checkpoint, or the padded message
    groups,    \* groups of four rounds checked in the hash under way
    stage      \* where build() is, or how it ended

vars == <<circuit, tape, used, wires, sponge, groups, stage>>

\* 2^k
Power[k \in Nat] == IF k = 0 THEN 1 ELSE 2 * Power[k - 1]

\* The number that bits spell, lowest first.
Sums(bits) ==
    LET Sum[k \in Nat] ==
          IF k = 0 THEN 0 ELSE Sum[k - 1] + (IF bits[k] THEN Power[k - 1] ELSE 0)
    IN  Sum

Number(bits) == Sums(bits)[Len(bits)]

-----------------------------------------------------------------------------
(* Native messages, targets and tags.                                      *)

NONCE_BYTES == PRESENTATION_NONCE_BITS \div 8

to_le_bytes(n) == [i \in 1..NONCE_BYTES |-> (n \div Power[8 * (i - 1)]) % 256]

\* The states after each round, from the padded message on.
RoundStates(message) ==
    LET After[i \in 0..ROUNDS] ==
          IF i = 0 THEN pad_single_block(message)
          ELSE CHOOSE t \in {round(s, RC[i - 1]) : s \in {After[i - 1]}} : TRUE
    IN  After

\* keccak::shake256 of a message and an output that fit in a block, as all do here.
shake256(message, len) ==
    LET last == RoundStates(message)[ROUNDS]
    IN  [i \in 1..len |-> StateByte(last, i - 1)]

\* (output[index / 2] >> (4 * (index % 2))) & 0x0f
Nibbles(output) == [i \in 1..M |-> (output[(i + 1) \div 2] \div 16^((i - 1) % 2)) % 16]

pack_gf16(values) ==
    [i \in 1..(Len(values) + 1) \div 2 |->
       values[2 * i - 1] + (IF 2 * i <= Len(values) THEN 16 * values[2 * i] ELSE 0)]

credential_message(scope, secret, hiding_nonce) ==
    CREDENTIAL_DOMAIN \o scope \o secret \o hiding_nonce

credential_target(scope, secret, hiding_nonce) ==
    Nibbles(shake256(credential_message(scope, secret, hiding_nonce), (M + 1) \div 2))

signed_credential_message(commitment, salt) ==
    SIGNED_CREDENTIAL_DOMAIN \o pack_gf16(commitment) \o salt

signed_credential_target(commitment, salt) ==
    Nibbles(shake256(signed_credential_message(commitment, salt), (M + 1) \div 2))

tag_message(secret, scope, nonce) == TAG_DOMAIN \o secret \o scope \o to_le_bytes(nonce)

derive_tag(secret, scope, nonce, len) == shake256(tag_message(secret, scope, nonce), len)

-----------------------------------------------------------------------------
(* The honest tape.                                                        *)

\* The bits of each element of a sequence, lowest first.
BitString(values, width) ==
    [b \in 1..width * Len(values) |->
       (values[((b - 1) \div width) + 1] \div Power[(b - 1) % width]) % 2 = 1]

bytes_bits(bytes) == BitString(bytes, 8)

gf16_bits(values) == BitString(values, 4)

u32_bits(value) == BitString(<<value>>, PRESENTATION_NONCE_BITS)

state_bits(s) == [b \in 1..25 * LANE |-> b - 1 \in s]

\* The carries of value + !limit + 1.
Carries(value, limit) ==
    LET a(k) == (value \div Power[k - 1]) % 2
        b(k) == 1 - ((limit \div Power[k - 1]) % 2)
        Carry[k \in Nat] ==
          IF k = 0 THEN TRUE ELSE a(k) + b(k) + (IF Carry[k - 1] THEN 1 ELSE 0) >= 2
    IN  Carry

less_than_carries(value, limit) ==
    [k \in 1..PRESENTATION_NONCE_BITS |-> Carries(value, limit)[k]]

\* Every fourth state of the hash of a message.
Checkpoints(message) ==
    LET states == RoundStates(message)
        Written[g \in Nat] ==
          IF g = 0 THEN <<>> ELSE Written[g - 1] \o state_bits(states[4 * g])
    IN  Written

keccak_checkpoints(message) == Checkpoints(message)[ROUNDS \div 4]

IssueWitness(c, s) ==
    bytes_bits(s.secret) \o bytes_bits(s.hiding_nonce)
      \o keccak_checkpoints(credential_message(c.credential_scope, s.secret, s.hiding_nonce))

PresentationWitness(c, s) ==
    gf16_bits(s.signature) \o bytes_bits(s.secret) \o bytes_bits(s.hiding_nonce)
      \o bytes_bits(s.salt) \o u32_bits(s.presentation_nonce)
      \o less_than_carries(s.presentation_nonce, c.presentation_limit)
      \o keccak_checkpoints(credential_message(c.credential_scope, s.secret, s.hiding_nonce))
      \o keccak_checkpoints(signed_credential_message(
           credential_target(c.credential_scope, s.secret, s.hiding_nonce), s.salt))
      \o keccak_checkpoints(tag_message(s.secret, c.presentation_scope, s.presentation_nonce))

witness(c, s) == IF c.kind = "issue" THEN IssueWitness(c, s) ELSE PresentationWitness(c, s)

KECCAK_CHECKPOINT_BITS == (ROUNDS \div 4) * (25 * LANE)

\* Vec::with_capacity
WitnessLength(c) ==
    IF c.kind = "issue" THEN 8 * (SECRET_BYTES + HIDING_NONCE_BYTES) + KECCAK_CHECKPOINT_BITS
    ELSE 4 * KN + 8 * (SECRET_BYTES + HIDING_NONCE_BYTES + SALT_BYTES)
           + 2 * PRESENTATION_NONCE_BITS + 3 * KECCAK_CHECKPOINT_BITS

\* Scopes and tags are bytes, targets are elements of GF16, a limit has the width
\* of a nonce, and messages fit in a block, as their debug_asserts say.
ASSUME CircuitsAssumption ==
    \A c \in Circuits :
      /\ c.credential_scope \in Seq(0..255)
      /\ Len(CREDENTIAL_DOMAIN) + Len(c.credential_scope)
           + SECRET_BYTES + HIDING_NONCE_BYTES < RATE_BYTES
      /\ \/ c.kind = "issue" /\ c.target \in Seq(0..15)
         \/ /\ c.kind = "presentation"
            /\ c.presentation_scope \in Seq(0..255)
            /\ c.presentation_limit \in 0..Power[PRESENTATION_NONCE_BITS] - 1
            /\ c.tag \in Seq(0..255) /\ Len(c.tag) <= RATE_BYTES
            /\ Len(TAG_DOMAIN) + SECRET_BYTES + Len(c.presentation_scope)
                 + NONCE_BYTES < RATE_BYTES

\* The proof system takes tapes of the circuit's length only.
ASSUME TapesAssumption ==
    \A c \in Circuits : \A t \in Tapes(c) : t \in Seq(BOOLEAN) /\ Len(t) = WitnessLength(c)

-----------------------------------------------------------------------------
(* Messages of wires.                                                      *)

\* while !message.len().is_multiple_of(8) push a zero: none where M is even, as in
\* both suites
ToWholeBytes(bits) == bits \o [b \in 1..(8 - (Len(bits) % 8)) % 8 |-> FALSE]

credential_wires ==
    bytes_bits(CREDENTIAL_DOMAIN) \o bytes_bits(circuit.credential_scope)
      \o wires.secret \o wires.hiding_nonce

signed_credential_wires(commitment) ==
    ToWholeBytes(bytes_bits(SIGNED_CREDENTIAL_DOMAIN) \o commitment) \o wires.salt

\* Mutant: the scope comes first, as it does in the credential message.
tag_wires_scope_first ==
    bytes_bits(TAG_DOMAIN) \o bytes_bits(circuit.presentation_scope) \o wires.secret
      \o wires.presentation_nonce

tag_wires ==
    bytes_bits(TAG_DOMAIN) \o wires.secret \o bytes_bits(circuit.presentation_scope)
      \o wires.presentation_nonce

\* The padding is stored over zero wires, not xored.
initial_sponge_state(message) ==
    {b \in 0..Len(message) - 1 : message[b + 1]}
      \cup {Len(message) + k : k \in ByteBits(31)} \cup {8 * RATE_BYTES - 1}

\* The element of GF(2^128) a nibble of bits lifts to, named by its value.
lift_gf16(bits) == Number(bits)

lift_nibbles(bits) ==
    [i \in 1..Len(bits) \div 4 |-> lift_gf16(SubSeq(bits, 4 * i - 3, 4 * i))]

-----------------------------------------------------------------------------
(* build.                                                                  *)

Alloc(count) == SubSeq(tape, used + 1, used + count)

Init ==
    \E c \in Circuits : \E t \in Tapes(c) :
      /\ circuit = c
      /\ tape = t
      /\ used = 0
      /\ wires = [name \in {} |-> <<>>]
      /\ sponge = {}
      /\ groups = 0
      /\ stage = "parameters"

Goto(next) ==
    /\ stage' = next
    /\ UNCHANGED <<circuit, tape>>

Reject == Goto("rejected") /\ UNCHANGED <<used, wires, sponge, groups>>

ValidParameters ==
    IF circuit.kind = "issue" THEN Len(circuit.target) = M
    ELSE /\ circuit.presentation_limit # 0
         /\ Len(SIGNED_CREDENTIAL_DOMAIN) + ((M + 1) \div 2) + SALT_BYTES < RATE_BYTES

CheckParameters ==
    /\ stage = "parameters"
    /\ Goto(IF ValidParameters THEN "inputs" ELSE "invalid")
    /\ UNCHANGED <<used, wires, sponge, groups>>

HidingNonceBits == 8 * HIDING_NONCE_BYTES

\* What build allocates before its first assertion, in order.
Inputs ==
    LET opening == <<<<"secret", 8 * SECRET_BYTES>>, <<"hiding_nonce", HidingNonceBits>>>>
    IN  IF circuit.kind = "issue" THEN opening
        ELSE <<<<"signature", 4 * KN>>>> \o opening
               \o <<<<"salt", 8 * SALT_BYTES>>,
                    <<"presentation_nonce", PRESENTATION_NONCE_BITS>>,
                    <<"carries", PRESENTATION_NONCE_BITS>>>>

AllocInputs ==
    LET next == Cardinality(DOMAIN wires) + 1
        last == next = Len(Inputs)
        input == Inputs[next]
    IN
    /\ stage = "inputs"
    /\ wires' = [name \in DOMAIN wires \cup {input[1]} |->
                   IF name = input[1] THEN Alloc(input[2]) ELSE wires[name]]
    /\ used' = used + input[2]
    /\ Goto(CASE ~last -> "inputs"
              [] last /\ circuit.kind = "issue" -> "credential message"
              [] OTHER -> "range")
    /\ UNCHANGED <<sponge, groups>>

\* assert_u32_less_than: the equation of each carry, and the last carry zero.
RangeHolds ==
    LET NotLimit(k) == (circuit.presentation_limit \div Power[k - 1]) % 2 = 0
        CarryIn(k) == IF k = 1 THEN TRUE ELSE wires.carries[k - 1]
        a(k) == wires.presentation_nonce[k]
    IN  /\ \A k \in 1..PRESENTATION_NONCE_BITS :
             wires.carries[k] = (((NotLimit(k) /\ a(k)) # (a(k) /\ CarryIn(k)))
                                   # (NotLimit(k) /\ CarryIn(k)))
        /\ ~wires.carries[PRESENTATION_NONCE_BITS]

AssertRange ==
    /\ stage = "range"
    /\ IF RangeHolds
       THEN Goto("credential message") /\ UNCHANGED <<used, wires, sponge, groups>>
       ELSE Reject

\* A hash begins: its message becomes the padded block.
StartHash(from, message, to) ==
    /\ stage = from
    /\ sponge' = initial_sponge_state(message)
    /\ groups' = 0
    /\ Goto(to)
    /\ UNCHANGED <<used, wires>>

HashCredential == StartHash("credential message", credential_wires, "credential")

HashSigned == StartHash("signed message", signed_credential_wires(wires.commitment), "signed")

HashTag == StartHash("tag message", tag_wires, "tag")

Hashing == stage \in {"credential", "signed", "tag"}

\* Mutant: the last checkpoint is left as the prover committed to it.
Committed_last_free(expression, checkpoint) ==
    groups + 1 = ROUNDS \div 4 \/ expression = checkpoint

\* assert_expr_zero on every bit
Committed(expression, checkpoint) == expression = checkpoint

\* The expressions after each round from a state on, round first being the next.
ExpressionRounds(s, first) ==
    LET After[i \in Nat] ==
          IF i = 0 THEN s
          ELSE CHOOSE t \in {keccak_round_expr(A, RC[first + i - 1]) :
                             A \in {After[i - 1]}} : TRUE
    IN  After

\* One group of shake_degree16: the next checkpoint is what four rounds make of
\* the last one, and takes its place.
CheckGroup ==
    LET bits == Alloc(25 * LANE)
        checkpoint == {b \in StateBits : bits[b + 1]}
    IN
    /\ Hashing /\ groups < ROUNDS \div 4
    /\ IF Committed(ExpressionRounds(sponge, 4 * groups)[4], checkpoint)
       THEN /\ sponge' = checkpoint
            /\ groups' = groups + 1
            /\ used' = used + 25 * LANE
            /\ Goto(stage)
            /\ UNCHANGED wires
       ELSE Reject

Hashed(at) == stage = at /\ groups = ROUNDS \div 4

HiddenOutput == SubSeq(state_bits(sponge), 1, 4 * M)

\* shake_assert_output: zip stops at the end of what is expected.
OutputIs(expected) == \A b \in DOMAIN expected : (b - 1 \in sponge) = expected[b]

AcceptIf(holds) ==
    IF holds THEN Goto("accepted") /\ UNCHANGED <<used, wires, sponge, groups>> ELSE Reject

\* The end of the issuance circuit.
AssertTarget ==
    /\ Hashed("credential") /\ circuit.kind = "issue"
    /\ AcceptIf(OutputIs(gf16_bits(circuit.target)))

\* shake_hidden_output of the credential message
KeepCommitment ==
    /\ Hashed("credential") /\ circuit.kind = "presentation"
    /\ wires' = [name \in DOMAIN wires \cup {"commitment"} |->
                   IF name = "commitment" THEN HiddenOutput ELSE wires[name]]
    /\ Goto("signed message")
    /\ UNCHANGED <<used, sponge, groups>>

\* assert_quad_form_system
AssertMayo ==
    /\ Hashed("signed")
    /\ IF MayoEval(lift_nibbles(wires.signature)) = lift_nibbles(HiddenOutput)
       THEN Goto("tag message") /\ UNCHANGED <<used, wires, sponge, groups>>
       ELSE Reject

\* The end of the presentation circuit.
AssertTag ==
    /\ Hashed("tag")
    /\ AcceptIf(OutputIs(bytes_bits(circuit.tag)))

Next ==
    \/ CheckParameters \/ AllocInputs \/ AssertRange
    \/ HashCredential \/ HashSigned \/ HashTag \/ CheckGroup
    \/ AssertTarget \/ KeepCommitment \/ AssertMayo \/ AssertTag

Spec == Init /\ [][Next]_vars

-----------------------------------------------------------------------------
(* Properties.                                                             *)

\* The secrets a tape stands for, read off its first bits by the widths of the
\* fields and not by the order of build.
Value(first, width) == Number(SubSeq(tape, first + 1, first + width))

Values(first, width, count) == [i \in 1..count |-> Value(first + width * (i - 1), width)]

CommittedSecrets ==
    LET secret == IF circuit.kind = "issue" THEN 0 ELSE 4 * KN
        hiding_nonce == secret + 8 * SECRET_BYTES
        salt == hiding_nonce + 8 * HIDING_NONCE_BYTES
        nonce == salt + 8 * SALT_BYTES
    IN  [signature |-> Values(0, 4, KN),
         secret |-> Values(secret, 8, SECRET_BYTES),
         hiding_nonce |-> Values(hiding_nonce, 8, HIDING_NONCE_BYTES),
         salt |-> Values(salt, 8, SALT_BYTES),
         presentation_nonce |-> Value(nonce, PRESENTATION_NONCE_BITS)]

\* The relation a proof is about, in native terms: the target of an issuance
\* request, or the range, the authenticator and the tag of a presentation.
Relation(c, s) ==
    LET target == credential_target(c.credential_scope, s.secret, s.hiding_nonce)
    IN  IF c.kind = "issue" THEN c.target = target
        ELSE /\ s.presentation_nonce < c.presentation_limit
             /\ MayoEval(s.signature) = signed_credential_target(target, s.salt)
             /\ c.tag = derive_tag(s.secret, c.presentation_scope,
                                   s.presentation_nonce, Len(c.tag))

\* The tape an honest prover writes for secrets in the relation.
Honest == Relation(circuit, CommittedSecrets) /\ tape = witness(circuit, CommittedSecrets)

\* Soundness of the circuit: whatever tape a prover commits to, one on which
\* build raises no failing assertion holds secrets in the relation, and not one
\* of its bits is a free choice of the prover.
AcceptsOnlyHonest == stage = "accepted" => Honest /\ used = Len(tape)

\* Completeness: the lanes, bytes and nibbles with which witness() computes a
\* tape agree with the wires of build, so an honest proof is never refused.
HonestTapeAccepted == stage \in {"rejected", "invalid"} => ~Honest
=============================================================================
