--------------------------------- MODULE Wire ---------------------------------
(***************************************************************************)
(* Canonical encodings.  Each artifact has a to_bytes, written here as one *)
(* definition, and a from_bytes, run here as the decoder runs it: the      *)
(* envelope first, then field by field over an offset, then finish and,    *)
(* for local state, the checks against the public key.  The input is any   *)
(* byte string.                                                            *)
(***************************************************************************)
EXTENDS Integers, Sequences

CONSTANTS
    HASH_BYTES, SALT_BYTES,   \* lengths of digests and secrets, and of a salt
    M, KN,                    \* nibbles of a commitment and of an authenticator
    WIRE_ID,                  \* the suite of this build
    MAX_WIRE_BYTES, MAX_APPLICATION_CONTEXT_BYTES, MAX_PRESENTATION_CONTEXTS,
    MayoDecodes(_),           \* whether mayo takes the bytes of a key
    ProofResult(_),           \* what Proof::from_bytes says: "Ok" or its error
    Context,                  \* the context of the public key decoded against
    Authentic(_),             \* verify_credential
    Values,                   \* Values[k]: values of artifact k, as the program holds them
    Inputs                    \* the byte strings that arrive

Byte == 0..255

ASSUME InputsAssumption == Inputs \subseteq Seq(Byte)

ASSUME SizesAssumption ==
    /\ HASH_BYTES \in Nat /\ SALT_BYTES \in Nat /\ M \in Nat /\ KN \in Nat
    /\ MAX_WIRE_BYTES \in Nat /\ MAX_APPLICATION_CONTEXT_BYTES \in Nat
    /\ MAX_PRESENTATION_CONTEXTS \in Nat
    /\ WIRE_ID \in Byte

VARIABLES
    artifact,        \* the artifact whose from_bytes runs
    input, offset,   \* the Decoder
    fields,          \* the fields read so far, in order
    counters,        \* next_nonces, in order
    result           \* "opening", "reading", "Ok" or a WireError

wire_vars == <<artifact, input, offset, fields, counters, result>>

-----------------------------------------------------------------------------
(* Bytes.                                                                  *)

\* u32::to_le_bytes and from_le_bytes.
to_le_bytes(n) == <<n % 256, (n \div 256) % 256, (n \div 65536) % 256, n \div 16777216>>

from_le_bytes(b) == b[1] + 256 * b[2] + 65536 * b[3] + 16777216 * b[4]

\* Two nibbles to a byte, the first in the low half; an odd last byte has an
\* empty high half.
pack_nibbles(values) ==
    [k \in 1..((Len(values) + 1) \div 2) |->
        values[2 * k - 1] + (IF 2 * k <= Len(values) THEN 16 * values[2 * k] ELSE 0)]

\* Mutant: the low nibble keeps the high one.
unpack_unmasked(packed, count) ==
    [i \in 1..count |-> IF i % 2 = 1 THEN packed[(i + 1) \div 2] ELSE packed[i \div 2] \div 16]

unpack(packed, count) ==
    [i \in 1..count |-> IF i % 2 = 1 THEN packed[(i + 1) \div 2] % 16 ELSE packed[i \div 2] \div 16]

put_bytes(b) == to_le_bytes(Len(b)) \o b

\* MAGIC, version, artifact, suite, two reserved bytes.
header(kind) == <<86, 65, 82, 67, 1, kind, WIRE_ID, 0, 0>>

\* PerformanceProfile::wire_id and from_wire_id.
wire_id(profile) ==
    CASE profile = "Compact" -> 1 [] profile = "Balanced" -> 2 [] profile = "LowLatency" -> 3

from_wire_id(id) == <<"Compact", "Balanced", "LowLatency">>[id]

\* The order of byte arrays.
Precedes(a, b) ==
    \E k \in DOMAIN a : a[k] < b[k] /\ \A j \in 1..(k - 1) : a[j] = b[j]

record_bytes(counter) == counter.context \o to_le_bytes(counter.next_nonce)

RECORD_BYTES == HASH_BYTES + 4

\* Counter records end to end.
records_bytes(list) ==
    [k \in 1..(Len(list) * RECORD_BYTES) |->
        record_bytes(list[(k - 1) \div RECORD_BYTES + 1])[((k - 1) % RECORD_BYTES) + 1]]

-----------------------------------------------------------------------------
(* to_bytes of each artifact, over the fields of its type by name.         *)

Artifacts == 1..7

public_key_bytes(v) ==
    header(1) \o <<wire_id(v.profile)>> \o put_bytes(v.application_context) \o put_bytes(v.mayo)

issuer_key_bytes(v) ==
    header(2) \o <<wire_id(v.profile)>> \o put_bytes(v.application_context) \o put_bytes(v.mayo)

issue_request_bytes(v) == header(3) \o pack_nibbles(v.commitment) \o put_bytes(v.proof)

issue_response_bytes(v) == header(4) \o pack_nibbles(v.signature) \o v.salt

pending_issue_bytes(v) ==
    header(5) \o v.issuer_context \o v.credential_context \o v.secret \o v.hiding_nonce

\* The counters follow their number, in the order of the map.
credential_bytes(v) ==
    header(6) \o v.issuer_context \o v.credential_context \o pack_nibbles(v.signature)
      \o v.secret \o v.hiding_nonce \o v.salt \o to_le_bytes(Len(v.next_nonces))
      \o records_bytes(v.next_nonces)

presentation_bytes(v) == header(7) \o v.tag \o put_bytes(v.proof)

to_bytes(kind, v) ==
    CASE kind = 1 -> public_key_bytes(v)
      [] kind = 2 -> issuer_key_bytes(v)
      [] kind = 3 -> issue_request_bytes(v)
      [] kind = 4 -> issue_response_bytes(v)
      [] kind = 5 -> pending_issue_bytes(v)
      [] kind = 6 -> credential_bytes(v)
      [] kind = 7 -> presentation_bytes(v)

-----------------------------------------------------------------------------
(* The fields each from_bytes asks the decoder for, in order.              *)

array(size) == [kind |-> "array", size |-> size]
nibbles(count) == [kind |-> "nibbles", size |-> count]
bytes(content) == [kind |-> "bytes", size |-> 4, content |-> content]
profile_id == [kind |-> "profile", size |-> 1]
context_count == [kind |-> "count", size |-> 4]

public_key_layout == <<profile_id, bytes("application_context"), bytes("mayo")>>
issuer_key_layout == <<profile_id, bytes("application_context"), bytes("mayo")>>
issue_request_layout == <<nibbles(M), bytes("proof")>>
issue_response_layout == <<nibbles(KN), array(SALT_BYTES)>>
pending_issue_layout ==
    <<array(HASH_BYTES), array(HASH_BYTES), array(HASH_BYTES), array(HASH_BYTES)>>
credential_layout ==
    <<array(HASH_BYTES), array(HASH_BYTES), nibbles(KN), array(HASH_BYTES),
      array(HASH_BYTES), array(SALT_BYTES), context_count>>
presentation_layout == <<array(HASH_BYTES), bytes("proof")>>

Layouts ==
    <<public_key_layout, issuer_key_layout, issue_request_layout, issue_response_layout,
      pending_issue_layout, credential_layout, presentation_layout>>

Layout == Layouts[artifact]

-----------------------------------------------------------------------------
(* The decoder.                                                            *)

Left(n) == offset + n <= Len(input)

Bytes(from, n) == SubSeq(input, offset + from + 1, offset + from + n)

Fail(error) ==
    /\ result' = error
    /\ UNCHANGED <<artifact, input, offset, fields, counters>>

Here == Layout[Len(fields) + 1]

Expects(kind) ==
    /\ result = "reading"
    /\ Len(fields) < Len(Layout)
    /\ Here.kind = kind

Take(value, size) ==
    /\ offset' = offset + size
    /\ fields' = Append(fields, value)
    /\ UNCHANGED <<artifact, input, counters, result>>

Truncated ==
    /\ result = "reading"
    /\ Len(fields) < Len(Layout)
    /\ ~Left(IF Here.kind = "nibbles" THEN (Here.size + 1) \div 2 ELSE Here.size)
    /\ Fail("InvalidEncoding")

\* Decoder::new, with its checks in their order.
HeaderResult ==
    IF Len(input) > MAX_WIRE_BYTES THEN "TooLarge"
    ELSE IF Len(input) < 4 \/ SubSeq(input, 1, 4) # SubSeq(header(artifact), 1, 4)
         THEN "InvalidEncoding"
    ELSE IF Len(input) < 5 THEN "InvalidEncoding"
    ELSE IF input[5] # 1 THEN "UnsupportedVersion"
    ELSE IF Len(input) < 9 THEN "InvalidEncoding"
    ELSE IF input[6] # artifact THEN "WrongArtifact"
    ELSE IF input[7] # WIRE_ID THEN "WrongParameterSet"
    ELSE IF <<input[8], input[9]>> # <<0, 0>> THEN "InvalidEncoding"
    ELSE "reading"

New ==
    /\ result = "opening"
    /\ result' = HeaderResult
    /\ offset' = IF HeaderResult = "reading" THEN 9 ELSE offset
    /\ UNCHANGED <<artifact, input, fields, counters>>

ReadArray ==
    /\ Expects("array")
    /\ Left(Here.size)
    /\ Take(Bytes(0, Here.size), Here.size)

ReadProfile ==
    /\ Expects("profile")
    /\ Left(1)
    /\ LET id == input[offset + 1] IN
         IF id \in 1..3 THEN Take(from_wire_id(id), 1)
         ELSE Fail("InvalidEncoding")

\* The check of an odd last nibble, which no suite of even M and KN reaches.
OddHalfEmpty(packed, count) == count % 2 = 1 => packed[Len(packed)] \div 16 = 0

ReadNibbles ==
    LET size == (Here.size + 1) \div 2
        packed == Bytes(0, size)
    IN
    /\ Expects("nibbles")
    /\ Left(size)
    /\ IF OddHalfEmpty(packed, Here.size) THEN Take(unpack(packed, Here.size), size)
       ELSE Fail("InvalidEncoding")

\* The errors of Proof::from_bytes as this library names them.
decode_proof(content) ==
    IF ProofResult(content) \in {"Ok", "TooLarge", "UnsupportedVersion"}
    THEN ProofResult(content) ELSE "InvalidEncoding"

\* What becomes of the content of a length-prefixed field.
ContentResult(what, content) ==
    CASE what = "application_context" ->
           IF Len(content) > MAX_APPLICATION_CONTEXT_BYTES THEN "InvalidEncoding" ELSE "Ok"
      [] what = "mayo" ->
           IF MayoDecodes(content) THEN "Ok" ELSE "InvalidEncoding"
      [] what = "proof" -> decode_proof(content)

ReadBytes ==
    /\ Expects("bytes")
    /\ Left(4)
    /\ LET len == from_le_bytes(Bytes(0, 4))
           content == Bytes(4, len)
       IN
       \/ ~Left(4 + len) /\ Fail("InvalidEncoding")
       \/ /\ Left(4 + len)
          /\ IF ContentResult(Here.content, content) = "Ok"
             THEN Take(content, 4 + len)
             ELSE Fail(ContentResult(Here.content, content))

ReadCount ==
    /\ Expects("count")
    /\ Left(4)
    /\ LET count == from_le_bytes(Bytes(0, 4)) IN
         IF count <= MAX_PRESENTATION_CONTEXTS THEN Take(count, 4)
         ELSE Fail("InvalidEncoding")

Complete == Len(fields) = Len(Layout)

Counted == IF artifact = 6 /\ Complete THEN fields[7] ELSE 0

\* Mutant: equal contexts are let through.
InOrder_weak(context) ==
    counters # <<>> => ~Precedes(context, counters[Len(counters)].context)

InOrder(context) ==
    counters # <<>> => Precedes(counters[Len(counters)].context, context)

\* One turn of the loop over the counter records.
ReadCounter ==
    LET context == Bytes(0, HASH_BYTES)
        counter == [context |-> context, next_nonce |-> from_le_bytes(Bytes(HASH_BYTES, 4))]
    IN
    /\ result = "reading"
    /\ Complete
    /\ Len(counters) < Counted
    /\ IF /\ Left(RECORD_BYTES)
          /\ InOrder(context)
          /\ counter.next_nonce # 0
       THEN /\ counters' = Append(counters, counter)
            /\ offset' = offset + RECORD_BYTES
            /\ UNCHANGED <<artifact, input, fields, result>>
       ELSE Fail("InvalidEncoding")

\* The value that from_bytes makes of what was read, for each artifact.
key_value(f) == [profile |-> f[1], application_context |-> f[2], mayo |-> f[3]]

request_value(f) == [commitment |-> f[1], proof |-> f[2]]

response_value(f) == [signature |-> f[1], salt |-> f[2]]

\* Mutant: the hidden values of pending state change places.
pending_value_swapped(f) ==
    [issuer_context |-> f[1], credential_context |-> f[2], secret |-> f[4], hiding_nonce |-> f[3]]

pending_value(f) ==
    [issuer_context |-> f[1], credential_context |-> f[2], secret |-> f[3], hiding_nonce |-> f[4]]

credential_value(f, list) ==
    [issuer_context |-> f[1], credential_context |-> f[2], signature |-> f[3],
     secret |-> f[4], hiding_nonce |-> f[5], salt |-> f[6], next_nonces |-> list]

presentation_value(f) == [tag |-> f[1], proof |-> f[2]]

Decoded ==
    CASE artifact \in {1, 2} -> key_value(fields)
      [] artifact = 3 -> request_value(fields)
      [] artifact = 4 -> response_value(fields)
      [] artifact = 5 -> pending_value(fields)
      [] artifact = 6 -> credential_value(fields, counters)
      [] artifact = 7 -> presentation_value(fields)

\* Mutant: data after the last field is not looked at.
AtEnd_or_before == offset <= Len(input)

AtEnd == offset = Len(input)

\* finish, and for local state the checks against the public key.
Finish ==
    /\ result = "reading"
    /\ Complete
    /\ Len(counters) = Counted
    /\ Fail(IF ~AtEnd THEN "InvalidEncoding"
            ELSE IF artifact \in {5, 6} /\ fields[1] # Context THEN "WrongIssuer"
            ELSE IF artifact = 6 /\ ~Authentic(Decoded) THEN "InvalidCredential"
            ELSE "Ok")

WireInit ==
    /\ artifact \in Artifacts
    /\ input \in Inputs
    /\ offset = 0
    /\ fields = <<>>
    /\ counters = <<>>
    /\ result = "opening"

WireNext ==
    \/ New \/ Truncated
    \/ ReadArray \/ ReadProfile \/ ReadNibbles \/ ReadBytes \/ ReadCount
    \/ ReadCounter
    \/ Finish

WireSpec == WireInit /\ [][WireNext]_wire_vars

-----------------------------------------------------------------------------
(* What the program holds and writes, of each artifact.                    *)

\* Below 2^32.
U32 == {n \in Nat : n \div 16777216 \in Byte}

Arrays(size) == {b \in Seq(Byte) : Len(b) = size}
Nibbles(count) == {v \in Seq(0..15) : Len(v) = count}
Contents(what) == {b \in Seq(Byte) : Len(b) \in U32 /\ ContentResult(what, b) = "Ok"}
Counter == [context : Seq(Byte), next_nonce : Nat]

KeysHeld ==
    [profile : {"Compact", "Balanced", "LowLatency"},
     application_context : Contents("application_context"), mayo : Contents("mayo")]

\* A BTreeMap of nonces that are counted up from zero when they are first used.
NoncesHeld ==
    {list \in Seq(Counter) :
       /\ Len(list) <= MAX_PRESENTATION_CONTEXTS /\ Len(list) \in U32
       /\ \A k \in 1..Len(list) :
            Len(list[k].context) = HASH_BYTES /\ list[k].next_nonce \in U32 \ {0}
       /\ \A j, k \in 1..Len(list) : j < k => Precedes(list[j].context, list[k].context)}

\* Local state is that of the key it is decoded against.
Held(kind) ==
    CASE kind \in {1, 2} -> KeysHeld
      [] kind = 3 -> [commitment : Nibbles(M), proof : Contents("proof")]
      [] kind = 4 -> [signature : Nibbles(KN), salt : Arrays(SALT_BYTES)]
      [] kind = 5 -> [issuer_context : {Context} \cap Arrays(HASH_BYTES),
                      credential_context : Arrays(HASH_BYTES),
                      secret : Arrays(HASH_BYTES), hiding_nonce : Arrays(HASH_BYTES)]
      [] kind = 6 -> {c \in [issuer_context : {Context} \cap Arrays(HASH_BYTES),
                             credential_context : Arrays(HASH_BYTES), signature : Nibbles(KN),
                             secret : Arrays(HASH_BYTES), hiding_nonce : Arrays(HASH_BYTES),
                             salt : Arrays(SALT_BYTES), next_nonces : NoncesHeld] :
                        Authentic(c)}
      [] kind = 7 -> [tag : Arrays(HASH_BYTES), proof : Contents("proof")]

\* Nothing the program holds is written to more than the decoders take.
ASSUME ValuesAssumption ==
    \A kind \in Artifacts : \A v \in Values[kind] :
      v \in Held(kind) /\ Len(to_bytes(kind, v)) <= MAX_WIRE_BYTES

-----------------------------------------------------------------------------
(* Properties.                                                             *)

Errors ==
    {"InvalidEncoding", "WrongArtifact", "WrongParameterSet", "WrongIssuer", "TooLarge",
     "InvalidCredential", "UnsupportedVersion"}

\* What the field f of a layout may read.
FieldValues(f) ==
    CASE f.kind = "profile" -> {"Compact", "Balanced", "LowLatency"}
      [] f.kind = "array" -> {b \in Seq(Byte) : Len(b) = f.size}
      [] f.kind = "nibbles" -> {v \in Seq(0..15) : Len(v) = f.size}
      [] f.kind = "bytes" -> Seq(Byte)
      [] f.kind = "count" -> 0..MAX_PRESENTATION_CONTEXTS

\* Shapes of what has been read; no read leaves the input.
WireTypeOK ==
    /\ artifact \in Artifacts
    /\ input \in Seq(Byte)
    /\ offset \in 0..Len(input)
    /\ Len(fields) <= Len(Layout)
    /\ \A i \in DOMAIN fields : fields[i] \in FieldValues(Layout[i])
    /\ \A k \in DOMAIN counters :
         /\ counters[k].context \in Seq(Byte) /\ Len(counters[k].context) = HASH_BYTES
         /\ counters[k].next_nonce \in Nat
    /\ result \in {"opening", "reading", "Ok"} \cup Errors

\* Every artifact has one encoding: a decoder that returns a value was given the
\* very bytes that to_bytes writes for it, with nothing before, between or after.
Canonical == result = "Ok" => input = to_bytes(artifact, Decoded)

\* A decoded value is one that the program can hold: the counters are a map in
\* the order of its keys, none is zero, and the bounds are kept, so that it can
\* be presented, encoded and decoded again.
DecodedLegal ==
    result = "Ok" =>
      /\ artifact \in {1, 2} => Len(Decoded.application_context) <= MAX_APPLICATION_CONTEXT_BYTES
      /\ artifact \in {5, 6} => Decoded.issuer_context = Context
      /\ artifact = 6 =>
           /\ Len(counters) <= MAX_PRESENTATION_CONTEXTS
           /\ \A j, k \in 1..Len(counters) :
                j < k => Precedes(counters[j].context, counters[k].context)
           /\ \A k \in 1..Len(counters) : counters[k].next_nonce # 0
           /\ Authentic(Decoded)

\* Whatever the program wrote comes back as it was, and under any other decoder
\* it is named as the wrong artifact: to_bytes and from_bytes agree on layout,
\* packing, lengths and bounds for every artifact.
RoundTrip ==
    result \notin {"opening", "reading"} =>
      \A a \in Artifacts : \A v \in Values[a] : input = to_bytes(a, v) =>
        IF a = artifact THEN result = "Ok" /\ Decoded = v ELSE result = "WrongArtifact"

-----------------------------------------------------------------------------
(* The invariant behind Canonical and DecodedLegal: the bytes read so far are  *)
(* the encoding of what was read from them.                                    *)

\* A list whose elements need not be of one kind.
Listed(fs) == Len(fs) \in Nat /\ fs = [i \in 1..Len(fs) |-> fs[i]]

\* What to_bytes writes for a field.
Part(f, x) ==
  CASE f.kind = "profile" -> <<wire_id(x)>>
    [] f.kind = "array" -> x
    [] f.kind = "nibbles" -> pack_nibbles(x)
    [] f.kind = "bytes" -> put_bytes(x)
    [] f.kind = "count" -> to_le_bytes(x)

PartAt(L, fs, j) == IF j <= Len(fs) THEN Part(L[j], fs[j]) ELSE <<>>

Written(h, L, fs) ==
  h \o PartAt(L, fs, 1) \o PartAt(L, fs, 2) \o PartAt(L, fs, 3) \o PartAt(L, fs, 4)
    \o PartAt(L, fs, 5) \o PartAt(L, fs, 6) \o PartAt(L, fs, 7)

\* A counter whose record has the length of a record.
Recorded(c) == record_bytes(c) \in Seq(Byte) /\ Len(record_bytes(c)) = RECORD_BYTES

FieldsRead ==
  /\ Listed(fields)
  /\ Len(fields) <= Len(Layout)
  /\ \A i \in 1..Len(fields) : /\ fields[i] \in FieldValues(Layout[i])
                               /\ Part(Layout[i], fields[i]) \in Seq(Byte)
  /\ artifact \in {1, 2} /\ Len(fields) >= 2 => Len(fields[2]) <= MAX_APPLICATION_CONTEXT_BYTES

CountersRead ==
  /\ counters \in Seq(Counter)
  /\ Len(counters) <= Counted
  /\ \A k \in 1..Len(counters) : /\ Recorded(counters[k])
                                 /\ Len(counters[k].context) = HASH_BYTES
                                 /\ counters[k].next_nonce # 0
  /\ \A j, k \in 1..Len(counters) : j < k => Precedes(counters[j].context, counters[k].context)

Consumed ==
  result \in {"reading", "Ok"} =>
    SubSeq(input, 1, offset) = Written(header(artifact), Layout, fields) \o records_bytes(counters)

\* What Finish checked before it accepted.
Accepted ==
  result = "Ok" =>
    /\ AtEnd /\ Complete /\ Len(counters) = Counted
    /\ artifact \in {5, 6} => fields[1] = Context
    /\ artifact = 6 => Authentic(Decoded)

WireIInv ==
  /\ artifact \in Artifacts
  /\ input \in Seq(Byte)
  /\ offset \in 0..Len(input)
  /\ result \in {"opening", "reading", "Ok"} \cup Errors
  /\ result = "opening" => offset = 0 /\ fields = <<>> /\ counters = <<>>
  /\ FieldsRead /\ CountersRead /\ Consumed /\ Accepted

-----------------------------------------------------------------------------
(* The invariant behind RoundTrip: while what the program wrote is decoded,    *)
(* every field read so far is the field that was written.                      *)

FieldsOf(kind, v) ==
  CASE kind \in {1, 2} -> <<v.profile, v.application_context, v.mayo>>
    [] kind = 3 -> <<v.commitment, v.proof>>
    [] kind = 4 -> <<v.signature, v.salt>>
    [] kind = 5 -> <<v.issuer_context, v.credential_context, v.secret, v.hiding_nonce>>
    [] kind = 6 -> <<v.issuer_context, v.credential_context, v.signature, v.secret,
                     v.hiding_nonce, v.salt, Len(v.next_nonces)>>
    [] kind = 7 -> <<v.tag, v.proof>>

NoncesOf(kind, v) == IF kind = 6 THEN v.next_nonces ELSE <<>>

ReadingBack(kind, v) ==
  IF kind = artifact
  THEN /\ result \in {"opening", "reading", "Ok"}
       /\ \A i \in 1..Len(fields) : fields[i] = FieldsOf(kind, v)[i]
       /\ \A k \in 1..Len(counters) : counters[k] = NoncesOf(kind, v)[k]
  ELSE result \in {"opening", "WrongArtifact"}

ReadsBack ==
  \A kind \in Artifacts : \A v \in Values[kind] :
    input = to_bytes(kind, v) => ReadingBack(kind, v)
=============================================================================
