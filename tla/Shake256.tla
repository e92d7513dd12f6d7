-------------------------------- MODULE Shake256 --------------------------------
(***************************************************************************)
(* shake256 of src/keccak.rs, call by call: whole blocks absorbed, the      *)
(* padded remainder, and output squeezed chunk by chunk, each permutation   *)
(* one round at a time.                                                     *)
(***************************************************************************)
EXTENDS Keccak

CONSTANTS
    Calls,        \* the lengths of message and output asked for
    Message(_)    \* the message of a length

ASSUME CallsAssumption ==
    \A call \in Calls : Message(call[1]) \in Seq(0..255) /\ call[2] \in Nat

VARIABLES
    message, output_len,   \* the arguments
    at,                    \* bytes absorbed
    state,                 \* the sponge
    rounds,                \* rounds done of the permutation under way
    phase,                 \* "absorb", "squeeze" or "returned"
    output

shake_vars == <<message, output_len, at, state, rounds, phase, output>>

-----------------------------------------------------------------------------
ShakeInit ==
    \E call \in Calls :
      /\ message = Message(call[1])
      /\ output_len = call[2]
      /\ at = 0
      /\ state = {}
      /\ rounds = ROUNDS
      /\ phase = "absorb"
      /\ output = <<>>

\* A permutation begins, in the same step as what precedes it.
Permute == rounds' = 0

\* One turn of the loop over whole blocks.
AbsorbBlock ==
    /\ phase = "absorb" /\ rounds = ROUNDS
    /\ Len(message) - at >= RATE_BYTES
    /\ state' = absorb_block(state, BitsOf(SubSeq(message, at + 1, at + RATE_BYTES)))
    /\ at' = at + RATE_BYTES
    /\ Permute
    /\ UNCHANGED <<message, output_len, phase, output>>

AbsorbRemainder ==
    /\ phase = "absorb" /\ rounds = ROUNDS
    /\ Len(message) - at < RATE_BYTES
    /\ state' = absorb_block(state, pad_single_block(SubSeq(message, at + 1, Len(message))))
    /\ at' = Len(message)
    /\ phase' = "squeeze"
    /\ Permute
    /\ UNCHANGED <<message, output_len, output>>

\* One turn of the loop of keccak_f.
Round ==
    /\ rounds < ROUNDS
    /\ state' = round(state, RC[rounds])
    /\ rounds' = rounds + 1
    /\ UNCHANGED <<message, output_len, at, phase, output>>

\* if chunk.len() == RATE_BYTES, even when the output ends there
AfterChunk(len) == IF len = RATE_BYTES THEN Permute ELSE UNCHANGED rounds

\* output.chunks_mut(RATE_BYTES)
ChunkLen(left) == Min({RATE_BYTES, left})

\* One turn of the loop over chunks of the output.
Squeeze ==
    LET left == output_len - Len(output)
        len == ChunkLen(left)
    IN
    /\ phase = "squeeze" /\ rounds = ROUNDS
    /\ left > 0
    /\ output' = output \o [i \in 1..len |-> StateByte(state, i - 1)]
    /\ AfterChunk(len)
    /\ UNCHANGED <<message, output_len, at, state, phase>>

Return ==
    /\ phase = "squeeze" /\ rounds = ROUNDS
    /\ Len(output) = output_len
    /\ phase' = "returned"
    /\ UNCHANGED <<message, output_len, at, state, rounds, output>>

ShakeNext == AbsorbBlock \/ AbsorbRemainder \/ Round \/ Squeeze \/ Return

ShakeSpec == ShakeInit /\ [][ShakeNext]_shake_vars

-----------------------------------------------------------------------------
(* Properties.                                                             *)

\* The sponge of FIPS 202 on bit strings: the message, the suffix 1111, pad10*1,
\* the blocks absorbed in order, the output read block after block.
ReferenceRounds(s) ==
    LET After[i \in Nat] ==
          IF i = 0 THEN s
          ELSE CHOOSE B \in {ReferenceRound(A, i - 1) : A \in {After[i - 1]}} : TRUE
    IN  After

ReferenceF(s) == ReferenceRounds(s)[ROUNDS]

RATE == 8 * RATE_BYTES

ReferencePadded(bytes) ==
    LET end == 8 * Len(bytes) + 4
        zeros == CHOOSE j \in 0..RATE - 1 : (end + j + 2) % RATE = 0
    IN  [bits |-> BitsOf(bytes) \cup {end - 4, end - 3, end - 2, end - 1}
                    \cup {end, end + zeros + 1},
         blocks |-> (end + zeros + 2) \div RATE]

ReferenceBlock(bytes, n) ==
    LET bits == ReferencePadded(bytes).bits IN {b \in 0..RATE - 1 : RATE * n + b \in bits}

\* The state after each block of a message.
ReferenceAbsorbing(bytes) ==
    LET After[n \in Nat] ==
          IF n = 0 THEN {}
          ELSE CHOOSE B \in {ReferenceF(SymDiff(A, ReferenceBlock(bytes, n - 1))) :
                              A \in {After[n - 1]}} : TRUE
    IN  After

\* The first states that blocks of output are read from.
ReferenceSqueezing(bytes) ==
    LET States[n \in Nat] ==
          IF n = 0 THEN <<ReferenceAbsorbing(bytes)[ReferencePadded(bytes).blocks]>>
          ELSE CHOOSE t \in {Append(s, ReferenceF(s[n])) : s \in {States[n - 1]}} : TRUE
    IN  States

ReferenceShake256(bytes, len) ==
    LET states == ReferenceSqueezing(bytes)[len \div RATE_BYTES]
    IN  [i \in 1..len |-> StateByte(states[((i - 1) \div RATE_BYTES) + 1], (i - 1) % RATE_BYTES)]

\* shake256 returns the SHAKE256 of FIPS 202, for messages and outputs that end
\* before, at and after the boundary of a block, where the padding bytes meet
\* and the permutation after the last chunk is run or not.
ReturnsShake256 ==
    phase = "returned" => output = ReferenceShake256(message, output_len)

\* The round that the circuits put into their equations is the round that
\* honest provers compute their checkpoints with: on every state a hash goes
\* through, the expressions of keccak_round_expr evaluate to what round returns.
CircuitRoundAgrees ==
    [][rounds < ROUNDS => state' = keccak_round_expr(state, RC[rounds])]_shake_vars
=============================================================================
