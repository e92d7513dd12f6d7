---------------------------- MODULE EncodingProofs ----------------------------
(***************************************************************************)
(* Two encodings say one thing each, for all sizes, bounds and inputs.     *)
(*                                                                         *)
(* Artifacts (Wire): on what a decoder takes, packing undoes unpacking and *)
(* the length prefix is the length.  The invariant is that the bytes read  *)
(* so far are the encoding of the fields read so far; conversely, what is  *)
(* read of an encoded value is that value.                                 *)
(*                                                                         *)
(* Hash inputs (HashInputs): parts put end to end are read back when the   *)
(* length of each is known from those before it, a domain tells the kinds  *)
(* of query apart, and so equal bytes are of one query.                    *)
(***************************************************************************)
EXTENDS Wire, HashInputs, SequenceTheorems, WellFoundedInduction, TLAPS

-----------------------------------------------------------------------------
(* The conversions.                                                        *)

\* Writing a number back gives the bytes it was read from.
LEMMA LengthBytes ==
  ASSUME NEW b \in Seq(Byte), Len(b) = 4
  PROVE  /\ from_le_bytes(b) \in Nat
         /\ to_le_bytes(from_le_bytes(b)) = b
<1>1. \A i \in 1..4 : b[i] \in 0..255
  BY ElementOfSeq DEF Byte
<1>2. PICK d1, d2, d3, d4 \in 0..255 : d1 = b[1] /\ d2 = b[2] /\ d3 = b[3] /\ d4 = b[4]
  <2>1. b[1] \in 0..255 /\ b[2] \in 0..255 /\ b[3] \in 0..255 /\ b[4] \in 0..255
    BY <1>1
  <2> QED
    BY <2>1
<1> DEFINE c == <<d1, d2, d3, d4>>
<1>3. b = c
  <2>1. c \in Seq(Byte) /\ Len(c) = 4
    BY DEF Byte
  <2>2. \A i \in 1..4 : b[i] = c[i]
    BY <1>2
  <2> HIDE DEF c
  <2> QED
    BY <2>1, <2>2, SeqEqual
<1>4. PICK n \in Nat : n = d1 + 256 * d2 + 65536 * d3 + 16777216 * d4
  OBVIOUS
<1>5. PICK m3 \in Nat : m3 = d3 + 256 * d4
  OBVIOUS
<1>6. PICK m2 \in Nat : m2 = d2 + 256 * m3
  OBVIOUS
<1>7. n = d1 + 256 * m2
  BY <1>4, <1>5, <1>6
<1>8. m3 % 256 = d3 /\ m3 \div 256 = d4
  BY <1>5
<1>9. m2 % 256 = d2 /\ m2 \div 256 = m3
  BY <1>6
<1>10. n % 256 = d1 /\ n \div 256 = m2
  BY <1>7
<1>11. n \div 65536 = (n \div 256) \div 256 /\ n \div 16777216 = ((n \div 256) \div 256) \div 256
  OBVIOUS
<1>12. to_le_bytes(n) = c
  BY <1>8, <1>9, <1>10, <1>11 DEF to_le_bytes
<1>13. from_le_bytes(b) = n
  BY <1>2, <1>4 DEF from_le_bytes
<1> QED
  BY <1>3, <1>12, <1>13

\* One byte in two nibbles.
LEMMA Halves ==
  ASSUME NEW b \in Byte
  PROVE  /\ b % 16 \in 0..15
         /\ b \div 16 \in 0..15
         /\ (b % 16) + 16 * (b \div 16) = b
<1>1. b \in Int /\ 0 <= b /\ b <= 255
  BY DEF Byte
<1> QED
  BY <1>1, Z3

\* Packing the nibbles of canonical bytes gives the bytes.
LEMMA PackedBack ==
  ASSUME NEW count \in Nat, NEW b \in Seq(Byte),
         Len(b) = (count + 1) \div 2, OddHalfEmpty(b, count)
  PROVE  /\ unpack(b, count) \in Seq(0..15)
         /\ Len(unpack(b, count)) = count
         /\ pack_nibbles(unpack(b, count)) = b
<1> DEFINE v == unpack(b, count)
           low(i) == b[(i + 1) \div 2] % 16
           high(i) == b[i \div 2] \div 16
<1>1. \A i \in 1..count : /\ i % 2 = 1 => (i + 1) \div 2 \in 1..Len(b)
                          /\ i % 2 # 1 => i \div 2 \in 1..Len(b)
  BY Z3
<1>2. \A k \in 1..Len(b) : b[k] \in Byte
  BY ElementOfSeq
<1>3. \A i \in 1..count : (IF i % 2 = 1 THEN low(i) ELSE high(i)) \in 0..15
  BY <1>1, <1>2, Halves
<1>4. v \in [1..count -> 0..15]
  BY <1>3 DEF unpack
<1>5. v \in Seq(0..15) /\ Len(v) = count
  BY <1>4
<1>6. \A k \in 1..Len(b) : 2 * k - 1 \in 1..count /\ (2 * k \in 1..count \/ 2 * k = count + 1)
  BY Z3
<1>7. \A k \in 1..Len(b) : v[2 * k - 1] = b[k] % 16
  <2> SUFFICES ASSUME NEW k \in 1..Len(b) PROVE v[2 * k - 1] = b[k] % 16
    OBVIOUS
  <2>1. 2 * k - 1 \in 1..count
    BY <1>6
  <2>2. (2 * k - 1) % 2 = 1 /\ ((2 * k - 1) + 1) \div 2 = k
    BY Z3
  <2> QED
    BY <2>1, <2>2 DEF unpack
<1>8. \A k \in 1..Len(b) : 2 * k <= count => v[2 * k] = b[k] \div 16
  <2> SUFFICES ASSUME NEW k \in 1..Len(b), 2 * k <= count PROVE v[2 * k] = b[k] \div 16
    OBVIOUS
  <2>1. 2 * k \in 1..count
    OBVIOUS
  <2>2. (2 * k) % 2 = 0 /\ (2 * k) \div 2 = k
    BY Z3
  <2> QED
    BY <2>1, <2>2 DEF unpack
<1>9. \A k \in 1..Len(b) : ~(2 * k <= count) => b[k] \div 16 = 0
  <2> SUFFICES ASSUME NEW k \in 1..Len(b), ~(2 * k <= count) PROVE b[k] \div 16 = 0
    OBVIOUS
  <2>1. k = Len(b) /\ count % 2 = 1
    <3>1. 2 * k = count + 1
      BY <1>6
    <3>2. (count + 1) \div 2 = k /\ count % 2 = 1
      BY <3>1, Z3
    <3> QED
      BY <3>2
  <2> QED
    BY <2>1 DEF OddHalfEmpty
<1>10. pack_nibbles(v) = [k \in 1..Len(b) |-> b[k]]
  <2>1. \A k \in 1..Len(b) :
          v[2 * k - 1] + (IF 2 * k <= Len(v) THEN 16 * v[2 * k] ELSE 0) = b[k]
    BY <1>2, <1>5, <1>7, <1>8, <1>9, Halves
  <2> HIDE DEF v
  <2> QED
    BY <1>5, <2>1 DEF pack_nibbles
<1> QED
  BY <1>5, <1>10

\* A number below 2^32 is read back from the bytes it was written to.
LEMMA LengthForth ==
  ASSUME NEW n \in U32
  PROVE  /\ to_le_bytes(n) \in Seq(Byte)
         /\ Len(to_le_bytes(n)) = 4
         /\ from_le_bytes(to_le_bytes(n)) = n
<1>1. n \in Nat /\ n \div 16777216 \in 0..255
  BY DEF U32, Byte
<1>2. PICK m2 \in Nat : m2 = n \div 256
  BY <1>1
<1>3. PICK m3 \in Nat : m3 = m2 \div 256
  BY <1>2
<1>4. n \div 65536 = m3 /\ n \div 16777216 = m3 \div 256
  BY <1>1, <1>2, <1>3
<1>5. PICK d1 \in 0..255 : d1 = n % 256 /\ n = d1 + 256 * m2
  BY <1>1, <1>2
<1>6. PICK d2 \in 0..255 : d2 = m2 % 256 /\ m2 = d2 + 256 * m3
  <2>1. m2 % 256 \in 0..255
    BY ONLY <1>2
  <2>2. m2 = (m2 % 256) + 256 * m3
    BY <1>3
  <2> QED
    BY ONLY <2>1, <2>2
<1>7. PICK d3 \in 0..255 : d3 = m3 % 256 /\ m3 = d3 + 256 * (m3 \div 256)
  <2>1. m3 % 256 \in 0..255
    OBVIOUS
  <2>2. m3 = (m3 % 256) + 256 * (m3 \div 256)
    OBVIOUS
  <2> QED
    BY ONLY <2>1, <2>2
<1>8. PICK d4 \in 0..255 : d4 = m3 \div 256
  BY <1>1, <1>4
<1>9. to_le_bytes(n) = <<d1, d2, d3, d4>>
  BY <1>2, <1>4, <1>5, <1>6, <1>7, <1>8 DEF to_le_bytes
<1>10. from_le_bytes(<<d1, d2, d3, d4>>) = n
  BY <1>1, <1>5, <1>6, <1>7, <1>8 DEF from_le_bytes
<1>11. <<d1, d2, d3, d4>> \in Seq(Byte) /\ Len(<<d1, d2, d3, d4>>) = 4
  BY DEF Byte
<1> QED
  BY <1>9, <1>10, <1>11

\* Two nibbles in one byte.
LEMMA TwoNibbles ==
  ASSUME NEW a \in 0..15, NEW b \in 0..15
  PROVE  /\ a + 16 * b \in Byte /\ a + 0 \in Byte
         /\ (a + 16 * b) % 16 = a /\ (a + 16 * b) \div 16 = b
         /\ (a + 0) % 16 = a /\ (a + 0) \div 16 = 0
BY Z3 DEF Byte

\* Nibbles come back from the bytes they were packed in, and the decoder finds
\* the unused half of an odd last byte empty.
LEMMA PackedForth ==
  ASSUME NEW count \in Nat, NEW v \in Nibbles(count)
  PROVE  /\ pack_nibbles(v) \in Seq(Byte)
         /\ Len(pack_nibbles(v)) = (count + 1) \div 2
         /\ OddHalfEmpty(pack_nibbles(v), count)
         /\ unpack(pack_nibbles(v), count) = v
<1> DEFINE p == pack_nibbles(v)
           size == (count + 1) \div 2
<1>1. v \in Seq(0..15) /\ Len(v) = count /\ v = [i \in 1..count |-> v[i]]
  BY DEF Nibbles
<1>2. \A i \in 1..count : v[i] \in 0..15
  BY <1>1, ElementOfSeq
<1>3. size \in Nat
  BY Z3
<1>4. p = [k \in 1..size |-> v[2 * k - 1] + (IF 2 * k <= count THEN 16 * v[2 * k] ELSE 0)]
  BY <1>1 DEF pack_nibbles
<1>5. \A k \in 1..size : 2 * k - 1 \in 1..count /\ (2 * k <= count => 2 * k \in 1..count)
  BY Z3
<1>6. ASSUME NEW k \in 1..size
      PROVE  /\ p[k] \in Byte
             /\ p[k] % 16 = v[2 * k - 1]
             /\ p[k] \div 16 = IF 2 * k <= count THEN v[2 * k] ELSE 0
  <2>1. PICK a \in 0..15 : a = v[2 * k - 1]
    BY <1>2, <1>5
  <2>2. CASE 2 * k <= count
    <3>1. PICK b \in 0..15 : b = v[2 * k]
      BY <1>2, <1>5, <2>2
    <3>2. p[k] = a + 16 * b
      BY <1>4, <2>1, <2>2, <3>1
    <3>3. a + 16 * b \in Byte /\ (a + 16 * b) % 16 = a /\ (a + 16 * b) \div 16 = b
      BY TwoNibbles
    <3>4. PICK c \in Byte : c = p[k] /\ c % 16 = a /\ c \div 16 = b
      BY <3>2, <3>3
    <3> HIDE DEF p
    <3> QED
      BY <2>1, <2>2, <3>1, <3>4
  <2>3. CASE ~(2 * k <= count)
    <3>1. p[k] = a + 0
      BY <1>4, <2>1, <2>3
    <3>2. a + 0 \in Byte /\ (a + 0) % 16 = a /\ (a + 0) \div 16 = 0
      BY TwoNibbles
    <3>3. PICK c \in Byte : c = p[k] /\ c % 16 = a /\ c \div 16 = 0
      BY <3>1, <3>2
    <3> HIDE DEF p
    <3> QED
      BY <2>1, <2>3, <3>3
  <2> QED
    BY <2>2, <2>3
<1> HIDE DEF p
<1>7. p \in Seq(Byte) /\ Len(p) = size
  <2>1. p \in [1..size -> Byte]
    BY <1>4, <1>6
  <2> HIDE DEF size
  <2> QED
    BY <1>3, <2>1
<1>8. OddHalfEmpty(p, count)
  <2> SUFFICES ASSUME count % 2 = 1 PROVE p[Len(p)] \div 16 = 0
    BY DEF OddHalfEmpty
  <2>1. size \in 1..size /\ ~(2 * size <= count)
    BY Z3
  <2> QED
    BY <1>6, <1>7, <2>1
<1>9. ASSUME NEW i \in 1..count
      PROVE  (IF i % 2 = 1 THEN p[(i + 1) \div 2] % 16 ELSE p[i \div 2] \div 16) = v[i]
  <2>1. CASE i % 2 = 1
    <3>1. (i + 1) \div 2 \in 1..size /\ 2 * ((i + 1) \div 2) - 1 = i
      BY <2>1, Z3
    <3> QED
      BY <1>6, <2>1, <3>1
  <2>2. CASE i % 2 # 1
    <3>1. i \div 2 \in 1..size /\ 2 * (i \div 2) = i /\ i <= count
      BY <2>2, Z3
    <3> QED
      BY <1>6, <2>2, <3>1
  <2> QED
    BY <2>1, <2>2
<1>10. unpack(p, count) = v
  BY <1>1, <1>9 DEF unpack
<1> QED
  BY <1>7, <1>8, <1>10 DEF p

\* A profile comes back from its number.
LEMMA ProfileForth ==
  ASSUME NEW x \in {"Compact", "Balanced", "LowLatency"}
  PROVE  wire_id(x) \in 1..3 /\ from_wire_id(wire_id(x)) = x
<1>1. x = "Compact" \/ x = "Balanced" \/ x = "LowLatency"
  OBVIOUS
<1>2. wire_id("Compact") = 1 /\ wire_id("Balanced") = 2 /\ wire_id("LowLatency") = 3
  BY DEF wire_id
<1> QED
  BY <1>1, <1>2 DEF from_wire_id

-----------------------------------------------------------------------------
(* Counter records end to end.                                             *)

\* Byte k of a list of records of S bytes lies in record (k - 1) \div S + 1.
LEMMA RecordIndex ==
  ASSUME NEW S \in Nat, S > 0, NEW n \in Nat
  PROVE  /\ \A k \in 1..(n * S) : (k - 1) \div S \in 0..(n - 1) /\ (k - 1) % S \in 0..(S - 1)
         /\ \A j \in 0..(S - 1) : (n * S + j) \div S = n /\ (n * S + j) % S = j
<1>1. ASSUME NEW k \in 1..(n * S)
      PROVE  (k - 1) \div S < n /\ (k - 1) \div S >= 0 /\ (k - 1) % S \in 0..(S - 1)
  BY Z3
<1>2. ASSUME NEW j \in 0..(S - 1)
      PROVE  (n * S + j) \div S = n /\ (n * S + j) % S = j
  BY Z3
<1>3. ASSUME NEW k \in 1..(n * S)
      PROVE  (k - 1) \div S \in 0..(n - 1)
  BY <1>1
<1> QED
  BY <1>1, <1>2, <1>3

\* The bytes of a list of records: so many, each that of its record.
LEMMA RecordsShape ==
  ASSUME NEW list \in Seq(Counter), \A k \in 1..Len(list) : Recorded(list[k])
  PROVE  LET S == RECORD_BYTES IN
           /\ records_bytes(list) \in Seq(Byte)
           /\ Len(records_bytes(list)) = Len(list) * S
           /\ \A k \in 1..(Len(list) * S) :
                /\ (k - 1) \div S + 1 \in 1..Len(list) /\ ((k - 1) % S) + 1 \in 1..S
                /\ records_bytes(list)[k] =
                     record_bytes(list[(k - 1) \div S + 1])[((k - 1) % S) + 1]
<1> DEFINE S == RECORD_BYTES
           n == Len(list)
           at(k) == record_bytes(list[(k - 1) \div S + 1])[((k - 1) % S) + 1]
<1>1. S \in Nat /\ S > 0 /\ n \in Nat
  BY SizesAssumption DEF RECORD_BYTES
<1>2. n * S \in Nat
  BY <1>1
<1>3. \A k \in 1..n : \A i \in 1..S : record_bytes(list[k])[i] \in Byte
  BY ElementOfSeq DEF Recorded
<1>4. \A k \in 1..(n * S) : (k - 1) \div S + 1 \in 1..n /\ ((k - 1) % S) + 1 \in 1..S
  <2>1. \A k \in 1..(n * S) : (k - 1) \div S \in 0..(n - 1) /\ (k - 1) % S \in 0..(S - 1)
    BY <1>1, RecordIndex
  <2> HIDE DEF n, S
  <2> QED
    BY <1>1, <2>1
<1>5. \A k \in 1..(n * S) : at(k) \in Byte
  BY <1>3, <1>4
<1>6. records_bytes(list) = [k \in 1..(n * S) |-> at(k)]
  BY DEF records_bytes
<1>7. records_bytes(list) \in Seq(Byte) /\ Len(records_bytes(list)) = n * S
  <2> HIDE DEF at, n, S
  <2>1. [k \in 1..(n * S) |-> at(k)] \in [1..(n * S) -> Byte]
    BY <1>5
  <2>2. [k \in 1..(n * S) |-> at(k)] \in Seq(Byte)
    BY <1>2, <2>1, SeqDef
  <2>3. Len([k \in 1..(n * S) |-> at(k)]) = n * S
    BY <1>2
  <2> QED
    BY <1>6, <2>2, <2>3
<1>8. \A k \in 1..(n * S) : records_bytes(list)[k] = at(k)
  <2> HIDE DEF at, n, S
  <2> QED
    BY <1>6
<1> QED
  BY <1>4, <1>7, <1>8

\* A record more, its bytes more.
LEMMA RecordsAppend ==
  ASSUME NEW list \in Seq(Counter), NEW c \in Counter, Recorded(c),
         \A k \in 1..Len(list) : Recorded(list[k]),
         HASH_BYTES \in Nat
  PROVE  /\ records_bytes(list) \in Seq(Byte)
         /\ records_bytes(Append(list, c)) = records_bytes(list) \o record_bytes(c)
<1> DEFINE S == RECORD_BYTES
           n == Len(list)
           at(k) == record_bytes(list[(k - 1) \div S + 1])[((k - 1) % S) + 1]
           more == Append(list, c)
<1>1. S \in Nat /\ S > 0 /\ n \in Nat
  BY DEF RECORD_BYTES
<1>2. /\ more \in Seq(Counter) /\ Len(more) = n + 1 /\ more[n + 1] = c
      /\ \A k \in 1..n : more[k] = list[k]
  BY AppendProperties
<1>3. n * S \in Nat /\ (n + 1) * S \in Nat /\ (n + 1) * S = n * S + S
  BY <1>1
<1>5. \A k \in 1..(n * S) : (k - 1) \div S + 1 \in 1..n /\ ((k - 1) % S) + 1 \in 1..S
  BY RecordsShape
<1>7. \A k \in 1..(n * S) : records_bytes(list)[k] = at(k)
  BY RecordsShape
<1>8. records_bytes(list) \in Seq(Byte) /\ Len(records_bytes(list)) = n * S
  BY RecordsShape
<1>9. records_bytes(more) =
        [k \in 1..((n + 1) * S) |-> record_bytes(more[(k - 1) \div S + 1])[((k - 1) % S) + 1]]
  BY <1>2 DEF records_bytes
<1> DEFINE t == records_bytes(list) \o record_bytes(c)
<1>10. /\ t \in Seq(Byte) /\ Len(t) = (n + 1) * S
       /\ \A k \in 1..(n * S) : t[k] = at(k)
       /\ \A k \in 1..S : t[n * S + k] = record_bytes(c)[k]
  <2> HIDE DEF at, n, S
  <2>1. record_bytes(c) \in Seq(Byte) /\ Len(record_bytes(c)) = S
    BY DEF Recorded, S
  <2>2. /\ t \in Seq(Byte) /\ Len(t) = n * S + S
        /\ \A i \in 1..(n * S + S) :
             t[i] = IF i <= n * S THEN records_bytes(list)[i] ELSE record_bytes(c)[i - n * S]
    <3> DEFINE a == records_bytes(list)
               b == record_bytes(c)
    <3>1. a \in Seq(Byte) /\ b \in Seq(Byte)
      BY <1>8, <2>1
    <3> HIDE DEF a, b
    <3>2. /\ a \o b \in Seq(Byte) /\ Len(a \o b) = Len(a) + Len(b)
          /\ \A i \in 1..(Len(a) + Len(b)) :
               (a \o b)[i] = IF i <= Len(a) THEN a[i] ELSE b[i - Len(a)]
      BY <3>1, ConcatProperties
    <3> QED
      BY <1>8, <2>1, <3>2 DEF a, b
  <2> HIDE DEF t
  <2> DEFINE m == n * S
  <2>3. \A k \in 1..m : t[k] = at(k)
    <3>1. ASSUME NEW k \in 1..m PROVE k \in 1..(m + S) /\ k <= m
      <4> m \in Nat
        BY <1>3
      <4> HIDE DEF m
      <4> QED
        BY <1>1
    <3>2. \A i \in 1..(m + S) : i <= m => t[i] = records_bytes(list)[i]
      BY <2>2
    <3> QED
      BY <1>7, <3>1, <3>2
  <2>4. \A k \in 1..S : t[m + k] = record_bytes(c)[k]
    <3>1. ASSUME NEW k \in 1..S
          PROVE  m + k \in 1..(m + S) /\ ~(m + k <= m) /\ (m + k) - m = k
      <4> m \in Nat
        BY <1>3
      <4> HIDE DEF m
      <4> QED
        BY <1>1
    <3>2. \A i \in 1..(m + S) : ~(i <= m) => t[i] = record_bytes(c)[i - m]
      BY <2>2
    <3> HIDE DEF m
    <3> QED
      BY <3>1, <3>2
  <2> QED
    BY <1>3, <2>2, <2>3, <2>4
<1>11. ASSUME NEW k \in 1..((n + 1) * S)
       PROVE  record_bytes(more[(k - 1) \div S + 1])[((k - 1) % S) + 1] = t[k]
  <2>1. CASE k \in 1..(n * S)
    <3>1. (k - 1) \div S + 1 \in 1..n
      BY <1>5, <2>1
    <3>2. more[(k - 1) \div S + 1] = list[(k - 1) \div S + 1]
      BY <1>2, <3>1
    <3> QED
      BY <1>10, <2>1, <3>2
  <2>2. CASE k \notin 1..(n * S)
    <3> HIDE DEF at, S, n, t, more
    <3>1. PICK j \in 1..S : k = n * S + j
      <4> DEFINE m == n * S
      <4>1. m \in Nat /\ k \in 1..(m + S) /\ k \notin 1..m
        BY <1>3, <2>2
      <4> HIDE DEF m
      <4>2. k - m \in 1..S /\ k = m + (k - m)
        BY <1>1, <4>1
      <4> QED
        BY <4>2 DEF m
    <3>2. j - 1 \in 0..(S - 1)
      BY <1>1
    <3>3. (n * S + (j - 1)) \div S = n /\ (n * S + (j - 1)) % S = j - 1
      BY <1>1, <3>2, RecordIndex
    <3>4. k - 1 = n * S + (j - 1)
      BY <1>1, <1>3, <3>1
    <3>5. (k - 1) \div S + 1 = n + 1 /\ ((k - 1) % S) + 1 = j
      <4>1. (k - 1) \div S = n /\ (k - 1) % S = j - 1
        BY <3>3, <3>4
      <4> QED
        BY <1>1, <4>1
    <3> QED
      BY <1>2, <1>10, <3>1, <3>5
  <2> QED
    BY <2>1, <2>2
<1>12. t = [k \in 1..((n + 1) * S) |-> t[k]]
  <2> HIDE DEF t, n, S
  <2> QED
    BY <1>10
<1> HIDE DEF t, n, S, more, at
<1>13. records_bytes(more) = t
  BY <1>9, <1>11, <1>12
<1> QED
  BY <1>8, <1>13 DEF more, t

-----------------------------------------------------------------------------
(* Prefixes.                                                               *)

Begins(s, t) ==
  /\ s \in Seq(Byte) /\ t \in Seq(Byte)
  /\ Len(s) <= Len(t)
  /\ \A i \in 1..Len(s) : t[i] = s[i]

\* A sequence begins what is made by adding to it.
LEMMA BeginsConcat ==
  ASSUME NEW s \in Seq(Byte), NEW r \in Seq(Byte)
  PROVE  Begins(s, s \o r) /\ Begins(s, s)
<1>1. /\ s \o r \in Seq(Byte) /\ Len(s \o r) = Len(s) + Len(r)
      /\ \A i \in 1..(Len(s) + Len(r)) :
           (s \o r)[i] = IF i <= Len(s) THEN s[i] ELSE r[i - Len(s)]
  BY ConcatProperties
<1>2. Len(s) \in Nat /\ Len(r) \in Nat
  BY LenProperties
<1> QED
  BY <1>1, <1>2 DEF Begins

\* What begins the beginning begins the whole.
LEMMA BeginsTransitive ==
  ASSUME NEW r, NEW s, NEW t, Begins(r, s), Begins(s, t)
  PROVE  Begins(r, t)
<1>1. Len(r) \in Nat /\ Len(s) \in Nat /\ Len(t) \in Nat
  BY LenProperties DEF Begins
<1> QED
  BY <1>1 DEF Begins

\* t begins with s and then p.
BeginsWith(s, p, t) == Begins(s \o p, t)

\* What is added to a common beginning is found behind it.
LEMMA BeginsBehind ==
  ASSUME NEW s \in Seq(Byte), NEW p \in Seq(Byte), NEW t, BeginsWith(s, p, t)
  PROVE  /\ Len(s) + Len(p) <= Len(t)
         /\ \A i \in 1..Len(p) : t[Len(s) + i] = p[i]
<1>1. /\ Len(s \o p) = Len(s) + Len(p)
      /\ \A i \in 1..(Len(s) + Len(p)) :
           (s \o p)[i] = IF i <= Len(s) THEN s[i] ELSE p[i - Len(s)]
  BY ConcatProperties
<1>2. Len(s) \in Nat /\ Len(p) \in Nat
  BY LenProperties
<1>3. ASSUME NEW i \in 1..Len(p)
      PROVE  t[Len(s) + i] = p[i]
  <2>1. Len(s) + i \in 1..(Len(s) + Len(p)) /\ ~(Len(s) + i <= Len(s)) /\ (Len(s) + i) - Len(s) = i
    BY <1>2
  <2> QED
    BY <1>1, <2>1 DEF BeginsWith, Begins
<1> QED
  BY <1>1, <1>3 DEF BeginsWith, Begins

\* The bytes of some first records begin the bytes of all.
LEMMA RecordsBegin ==
  ASSUME NEW list \in Seq(Counter), \A k \in 1..Len(list) : Recorded(list[k]),
         NEW first \in Seq(Counter), Len(first) <= Len(list),
         \A k \in 1..Len(first) : first[k] = list[k]
  PROVE  Begins(records_bytes(first), records_bytes(list))
<1> DEFINE S == RECORD_BYTES
           m == Len(first)
           n == Len(list)
<1>1. S \in Nat /\ m \in Nat /\ n \in Nat /\ m <= n
  BY SizesAssumption, LenProperties DEF RECORD_BYTES
<1>2. m * S \in Nat /\ n * S \in Nat /\ m * S <= n * S
  <2> HIDE DEF S, m, n
  <2>1. PICK d \in Nat : n = m + d
    BY <1>1
  <2>2. n * S = m * S + d * S /\ d * S \in Nat /\ m * S \in Nat
    BY <1>1, <2>1
  <2> QED
    BY <2>2
<1>3. \A k \in 1..m : Recorded(first[k])
  BY <1>1
<1>4. /\ records_bytes(first) \in Seq(Byte) /\ Len(records_bytes(first)) = m * S
      /\ \A k \in 1..(m * S) :
           /\ (k - 1) \div S + 1 \in 1..m
           /\ records_bytes(first)[k] = record_bytes(first[(k - 1) \div S + 1])[((k - 1) % S) + 1]
  BY <1>3, RecordsShape
<1>5. /\ records_bytes(list) \in Seq(Byte) /\ Len(records_bytes(list)) = n * S
      /\ \A k \in 1..(n * S) :
           records_bytes(list)[k] = record_bytes(list[(k - 1) \div S + 1])[((k - 1) % S) + 1]
  BY RecordsShape
<1> HIDE DEF S, m, n
<1>6. ASSUME NEW k \in 1..(m * S)
      PROVE  records_bytes(list)[k] = records_bytes(first)[k]
  <2>1. k \in 1..(n * S)
    BY <1>2
  <2>2. first[(k - 1) \div S + 1] = list[(k - 1) \div S + 1]
    BY <1>4 DEF m
  <2> QED
    BY <1>4, <1>5, <2>1, <2>2
<1> QED
  BY <1>2, <1>4, <1>5, <1>6 DEF Begins

-----------------------------------------------------------------------------
(* The fields end to end.                                                  *)

\* Append keeps a list a list.
LEMMA AppendListed ==
  ASSUME NEW fs, Listed(fs), NEW x
  PROVE  /\ Listed(Append(fs, x))
         /\ Len(Append(fs, x)) = Len(fs) + 1
         /\ \A i \in 1..Len(fs) : Append(fs, x)[i] = fs[i]
         /\ Append(fs, x)[Len(fs) + 1] = x
<1> DEFINE S == {fs[i] : i \in 1..Len(fs)} \cup {x}
<1>1. fs \in Seq(S)
  <2> DEFINE e(i) == fs[i]
  <2>1. \A i \in 1..Len(fs) : fs[i] \in S
    OBVIOUS
  <2>2. [i \in 1..Len(fs) |-> fs[i]] \in [1..Len(fs) -> S]
    BY <2>1
  <2>3. [i \in 1..Len(fs) |-> fs[i]] \in Seq(S)
    BY <2>2, SeqDef DEF Listed
  <2> QED
    BY <2>3 DEF Listed
<1>2. x \in S
  OBVIOUS
<1> HIDE DEF S
<1>3. /\ Append(fs, x) \in Seq(S)
      /\ Len(Append(fs, x)) = Len(fs) + 1
      /\ \A i \in 1..Len(fs) : Append(fs, x)[i] = fs[i]
      /\ Append(fs, x)[Len(fs) + 1] = x
  BY <1>1, <1>2, AppendProperties
<1>4. Append(fs, x) \in [1..Len(Append(fs, x)) -> S] /\ Len(Append(fs, x)) \in Nat
  BY <1>3, LenProperties
<1>5. Append(fs, x) = [i \in 1..Len(Append(fs, x)) |-> Append(fs, x)[i]]
  BY <1>4
<1> QED
  BY <1>3, <1>4, <1>5 DEF Listed

\* One field further, two lists written side by side where the second has one
\* field more, the n + 1st.
SideBySide(n, part, j, w, v) ==
  /\ w \in Seq(Byte) /\ v \in Seq(Byte)
  /\ j <= n => v = w
  /\ j > n => v = w \o part

NextParts(n, part, j, p, q) ==
  /\ j < n => p \in Seq(Byte) /\ q = p
  /\ j = n => p = <<>> /\ q = part
  /\ j > n => p = <<>> /\ q = <<>>

\* The step from a field to the next, with and without the field added.
LEMMA ChainStep ==
  ASSUME NEW n \in Nat, NEW part \in Seq(Byte), NEW i \in Nat, NEW j \in Nat, j = i + 1,
         NEW w, NEW v, NEW p, NEW q, SideBySide(n, part, i, w, v), NextParts(n, part, i, p, q)
  PROVE  SideBySide(n, part, j, w \o p, v \o q)
<1>1. w \in Seq(Byte) /\ v \in Seq(Byte)
  BY DEF SideBySide
<1>2. CASE i < n
  <2>1. v = w /\ q = p /\ p \in Seq(Byte)
    BY <1>2 DEF SideBySide, NextParts
  <2>2. w \o p \in Seq(Byte)
    BY <1>1, <2>1, ConcatProperties
  <2> QED
    BY <1>2, <2>1, <2>2 DEF SideBySide
<1>3. CASE i = n
  <2>1. w \o p = w /\ v \o q = w \o part
    BY <1>1, <1>3, ConcatEmptySeq DEF SideBySide, NextParts
  <2>2. v \o q \in Seq(Byte)
    BY <1>1, <2>1, ConcatProperties
  <2> QED
    BY <1>1, <1>3, <2>1, <2>2 DEF SideBySide
<1>4. CASE i > n
  <2>1. w \o p = w /\ v \o q = v
    BY <1>1, <1>4, ConcatEmptySeq DEF NextParts
  <2> QED
    BY <1>1, <1>4, <2>1 DEF SideBySide
<1> QED
  BY <1>2, <1>3, <1>4

\* A field more, its encoding more.
LEMMA WrittenTake ==
  ASSUME NEW h \in Seq(Byte), NEW L, NEW fs, Listed(fs), Len(fs) < 7, NEW x,
         \A i \in 1..Len(fs) : Part(L[i], fs[i]) \in Seq(Byte),
         Part(L[Len(fs) + 1], x) \in Seq(Byte)
  PROVE  /\ Written(h, L, fs) \in Seq(Byte)
         /\ Written(h, L, Append(fs, x)) = Written(h, L, fs) \o Part(L[Len(fs) + 1], x)
<1> DEFINE n == Len(fs)
           p(j) == PartAt(L, fs, j)
           q(j) == PartAt(L, Append(fs, x), j)
           part == Part(L[n + 1], x)
<1>1. n \in Nat /\ n < 7 /\ part \in Seq(Byte)
  BY DEF Listed
<1>2. ASSUME NEW i \in Nat, NEW j \in 1..7, j = i + 1
      PROVE  NextParts(n, part, i, p(j), q(j))
  <2>1. CASE i < n
    BY <1>1, <1>2, <2>1, AppendListed DEF PartAt, NextParts
  <2>2. CASE i = n
    BY <1>1, <1>2, <2>2, AppendListed DEF PartAt, NextParts
  <2>3. CASE i > n
    BY <1>1, <1>2, <2>3, AppendListed DEF PartAt, NextParts
  <2> QED
    BY <1>1, <2>1, <2>2, <2>3
<1>3. SideBySide(n, part, 0, h, h)
  BY <1>1 DEF SideBySide
<1> HIDE DEF n, p, q, part
<1>4. SideBySide(n, part, 1, h \o p(1), h \o q(1))
  BY <1>1, <1>2, <1>3, ChainStep
<1>5. SideBySide(n, part, 2, h \o p(1) \o p(2), h \o q(1) \o q(2))
  BY <1>1, <1>2, <1>4, ChainStep
<1>6. SideBySide(n, part, 3, h \o p(1) \o p(2) \o p(3), h \o q(1) \o q(2) \o q(3))
  BY <1>1, <1>2, <1>5, ChainStep
<1>7. SideBySide(n, part, 4, h \o p(1) \o p(2) \o p(3) \o p(4), h \o q(1) \o q(2) \o q(3) \o q(4))
  BY <1>1, <1>2, <1>6, ChainStep
<1>8. SideBySide(n, part, 5, h \o p(1) \o p(2) \o p(3) \o p(4) \o p(5),
             h \o q(1) \o q(2) \o q(3) \o q(4) \o q(5))
  <2>1. NextParts(n, part, 4, p(5), q(5))
    BY <1>2
  <2> QED
    BY ONLY <1>1, <1>7, <2>1, 4 \in Nat, 5 \in Nat, 5 = 4 + 1, ChainStep, Zenon
<1>9. SideBySide(n, part, 6, h \o p(1) \o p(2) \o p(3) \o p(4) \o p(5) \o p(6),
             h \o q(1) \o q(2) \o q(3) \o q(4) \o q(5) \o q(6))
  <2>1. NextParts(n, part, 5, p(6), q(6))
    BY <1>2
  <2> QED
    BY ONLY <1>1, <1>8, <2>1, 5 \in Nat, 6 \in Nat, 6 = 5 + 1, ChainStep, Zenon
<1>10. SideBySide(n, part, 7, h \o p(1) \o p(2) \o p(3) \o p(4) \o p(5) \o p(6) \o p(7),
              h \o q(1) \o q(2) \o q(3) \o q(4) \o q(5) \o q(6) \o q(7))
  <2>1. NextParts(n, part, 6, p(7), q(7))
    BY <1>2
  <2> QED
    BY ONLY <1>1, <1>9, <2>1, 6 \in Nat, 7 \in Nat, 7 = 6 + 1, ChainStep, Zenon
<1>11. SideBySide(n, part, 7, Written(h, L, fs), Written(h, L, Append(fs, x)))
  BY <1>10 DEF Written, p, q
<1> QED
  BY <1>1, <1>11 DEF SideBySide, n, part

\* Two lists written side by side, where the second goes on after n fields.
GoesOn(n, j, w, v) ==
  /\ Begins(w, v)
  /\ j <= n => v = w

GoesWith(n, j, p, q) ==
  /\ q \in Seq(Byte)
  /\ j < n => p = q
  /\ j >= n => p = <<>>

\* The step from a field to the next, in a list that ends after n and in one that
\* goes on.
LEMMA GoesOnStep ==
  ASSUME NEW n \in Nat, NEW i \in Nat, NEW j \in Nat, j = i + 1, NEW w, NEW v, NEW p, NEW q,
         GoesOn(n, i, w, v), GoesWith(n, i, p, q)
  PROVE  GoesOn(n, j, w \o p, v \o q)
<1>1. w \in Seq(Byte) /\ v \in Seq(Byte) /\ q \in Seq(Byte) /\ Begins(w, v)
  BY DEF GoesOn, GoesWith, Begins
<1>2. Begins(v, v \o q)
  BY <1>1, BeginsConcat
<1>3. CASE i < n
  <2>1. v = w /\ p = q
    BY <1>3 DEF GoesOn, GoesWith
  <2>2. Begins(v \o q, v \o q)
    <3>1. v \o q \in Seq(Byte)
      BY <1>1, ConcatProperties
    <3> QED
      BY <3>1, BeginsConcat
  <2> QED
    BY <2>1, <2>2, Zenon DEF GoesOn
<1>4. CASE i >= n
  <2>1. w \o p = w
    BY <1>1, <1>4, ConcatEmptySeq DEF GoesWith
  <2>2. Begins(w, v \o q)
    BY <1>1, <1>2, BeginsTransitive
  <2>3. ~(j <= n)
    BY <1>4
  <2> QED
    BY <2>1, <2>2, <2>3, Zenon DEF GoesOn
<1> QED
  BY <1>3, <1>4

\* Some first fields, written, begin all the fields, written.
LEMMA WrittenBegins ==
  ASSUME NEW h \in Seq(Byte), NEW L, NEW fs, Listed(fs), NEW gs, Listed(gs),
         Len(gs) <= Len(fs), \A i \in 1..Len(gs) : gs[i] = fs[i],
         \A i \in 1..Len(fs) : Part(L[i], fs[i]) \in Seq(Byte)
  PROVE  Begins(Written(h, L, gs), Written(h, L, fs))
<1> DEFINE n == Len(gs)
           p(j) == PartAt(L, gs, j)
           q(j) == PartAt(L, fs, j)
<1>1. n \in Nat /\ Len(fs) \in Nat
  BY DEF Listed
<1>2. ASSUME NEW i \in Nat, NEW j \in 1..7, j = i + 1
      PROVE  GoesWith(n, i, p(j), q(j))
  BY <1>1, <1>2, EmptySeq DEF PartAt, GoesWith
<1>3. GoesOn(n, 0, h, h)
  BY BeginsConcat DEF GoesOn
<1> HIDE DEF n, p, q
<1>4. GoesOn(n, 1, h \o p(1), h \o q(1))
  BY <1>1, <1>2, <1>3, GoesOnStep
<1>5. GoesOn(n, 2, h \o p(1) \o p(2), h \o q(1) \o q(2))
  BY <1>1, <1>2, <1>4, GoesOnStep
<1>6. GoesOn(n, 3, h \o p(1) \o p(2) \o p(3), h \o q(1) \o q(2) \o q(3))
  BY <1>1, <1>2, <1>5, GoesOnStep
<1>7. GoesOn(n, 4, h \o p(1) \o p(2) \o p(3) \o p(4), h \o q(1) \o q(2) \o q(3) \o q(4))
  BY <1>1, <1>2, <1>6, GoesOnStep
<1>8. GoesOn(n, 5, h \o p(1) \o p(2) \o p(3) \o p(4) \o p(5),
             h \o q(1) \o q(2) \o q(3) \o q(4) \o q(5))
  BY <1>1, <1>2, <1>7, GoesOnStep
<1>9. GoesOn(n, 6, h \o p(1) \o p(2) \o p(3) \o p(4) \o p(5) \o p(6),
             h \o q(1) \o q(2) \o q(3) \o q(4) \o q(5) \o q(6))
  BY <1>1, <1>2, <1>8, GoesOnStep
<1>10. GoesOn(n, 7, h \o p(1) \o p(2) \o p(3) \o p(4) \o p(5) \o p(6) \o p(7),
              h \o q(1) \o q(2) \o q(3) \o q(4) \o q(5) \o q(6) \o q(7))
  BY <1>1, <1>2, <1>9, GoesOnStep
<1> QED
  BY <1>10 DEF GoesOn, Written, p, q

-----------------------------------------------------------------------------
(* The layouts.                                                            *)

Kinds == {"profile", "array", "nibbles", "bytes", "count"}

\* Every artifact has one to seven fields, of the decoder's five kinds, and the
\* credential ends in its count.
LEMMA LayoutFacts ==
  ASSUME artifact \in Artifacts
  PROVE  /\ Len(Layout) \in 1..7
         /\ \A i \in 1..Len(Layout) :
              /\ Layout[i].kind \in Kinds
              /\ Layout[i].size \in Nat
              /\ Layout[i].kind = "profile" => Layout[i].size = 1
              /\ Layout[i].kind \in {"bytes", "count"} => Layout[i].size = 4
              /\ i = 2 /\ artifact \in {1, 2} =>
                   Layout[i].kind = "bytes" /\ Layout[i].content = "application_context"
         /\ artifact = 6 => Len(Layout) = 7 /\ Layout[7].kind = "count"
<1> USE SizesAssumption DEF Layout, Layouts, Kinds, array, nibbles, bytes, profile_id, context_count
<1>1. CASE artifact = 1
  BY <1>1 DEF public_key_layout
<1>2. CASE artifact = 2
  BY <1>2 DEF issuer_key_layout
<1>3. CASE artifact = 3
  BY <1>3 DEF issue_request_layout
<1>4. CASE artifact = 4
  BY <1>4 DEF issue_response_layout
<1>5. CASE artifact = 5
  BY <1>5 DEF pending_issue_layout
<1>6. CASE artifact = 6
  BY <1>6 DEF credential_layout
<1>7. CASE artifact = 7
  BY <1>7 DEF presentation_layout
<1>8. \/ artifact = 1 \/ artifact = 2 \/ artifact = 3 \/ artifact = 4
      \/ artifact = 5 \/ artifact = 6 \/ artifact = 7
  BY DEF Artifacts
<1> HIDE DEF Layout, Layouts, Kinds, array, nibbles, bytes, profile_id, context_count
<1> QED
  BY <1>1, <1>2, <1>3, <1>4, <1>5, <1>6, <1>7, <1>8

\* The first nine bytes of an input whose header is accepted are that header.
LEMMA HeaderRead ==
  ASSUME artifact \in Artifacts, input \in Seq(Byte), HeaderResult = "reading"
  PROVE  /\ Len(input) >= 9
         /\ header(artifact) \in Seq(Byte)
         /\ SubSeq(input, 1, 9) = header(artifact)
<1> DEFINE h == header(artifact)
           s == SubSeq(input, 1, 9)
<1>1. Len(input) \in Nat /\ Len(input) >= 9
  BY SizesAssumption, LenProperties DEF HeaderResult
<1>2. SubSeq(input, 1, 4) = SubSeq(h, 1, 4)
  BY DEF HeaderResult
<1>3. input[5] = 1 /\ input[6] = artifact /\ input[7] = WIRE_ID /\ input[8] = 0 /\ input[9] = 0
  BY DEF HeaderResult
<1>4. h \in Seq(Byte) /\ Len(h) = 9
  BY SizesAssumption DEF header, Byte, Artifacts
<1>5. /\ h[5] = 1 /\ h[6] = artifact /\ h[7] = WIRE_ID /\ h[8] = 0 /\ h[9] = 0
  BY DEF header
<1> HIDE DEF h
<1>6. s \in Seq(Byte) /\ Len(s) = 9 /\ \A i \in 1..9 : s[i] = input[i]
  <2>1. \A i \in 1..9 : input[i] \in Byte
    BY <1>1, ElementOfSeq
  <2> QED
    BY <2>1, SubSeqProperties
<1>7. \A i \in 1..4 : input[i] = h[i]
  <2>1. \A i \in 1..4 : input[i] \in Byte
    BY <1>1, ElementOfSeq
  <2>2. \A i \in 1..4 : h[i] \in Byte
    <3>1. \A i \in 1..Len(h) : h[i] \in Byte
      BY <1>4, ElementOfSeq
    <3> QED
      BY <1>4, <3>1
  <2>3. \A i \in 1..4 : SubSeq(input, 1, 4)[i] = input[i]
    BY <2>1, SubSeqProperties
  <2>4. \A i \in 1..4 : SubSeq(h, 1, 4)[i] = h[i]
    BY <2>2, SubSeqProperties
  <2> QED
    BY <1>2, <2>3, <2>4
<1>8. \A i \in 1..9 : s[i] = h[i]
  BY <1>3, <1>5, <1>6, <1>7
<1>9. s = h
  <2> HIDE DEF s
  <2> QED
    BY <1>4, <1>6, <1>8, SeqEqual
<1> QED
  BY <1>1, <1>4, <1>9 DEF h

\* The bytes of the next read.
LEMMA BytesRead ==
  ASSUME input \in Seq(Byte), offset \in 0..Len(input),
         NEW from \in Nat, NEW n \in Nat, Left(from + n)
  PROVE  /\ Bytes(from, n) \in Seq(Byte)
         /\ Len(Bytes(from, n)) = n
         /\ Bytes(0, from) \o Bytes(from, n) = Bytes(0, from + n)
         /\ SubSeq(input, 1, offset) \o Bytes(0, from + n) = SubSeq(input, 1, offset + from + n)
<1>1. Len(input) \in Nat /\ offset \in Nat /\ offset + (from + n) <= Len(input)
  BY LenProperties DEF Left
<1>2. \A i \in (offset + from + 1)..(offset + from + n) : input[i] \in Byte
  BY <1>1, ElementOfSeq
<1>3. Bytes(from, n) \in Seq(Byte) /\ Len(Bytes(from, n)) = n
  <2>1. PICK a \in Nat : a = offset + from
    BY <1>1
  <2>2. \A i \in (a + 1)..(a + n) : input[i] \in Byte
    BY <1>2, <2>1
  <2>3. /\ SubSeq(input, a + 1, a + n) \in Seq(Byte)
        /\ Len(SubSeq(input, a + 1, a + n)) =
             IF a + 1 <= a + n THEN (a + n) - (a + 1) + 1 ELSE 0
    BY <2>2, SubSeqProperties
  <2>4. (IF a + 1 <= a + n THEN (a + n) - (a + 1) + 1 ELSE 0) = n
    OBVIOUS
  <2> QED
    BY <2>1, <2>3, <2>4 DEF Bytes
<1>4. SubSeq(input, offset + 1, offset + from) \o SubSeq(input, (offset + from) + 1, offset + from + n)
        = SubSeq(input, offset + 1, offset + from + n)
  BY <1>1, ConcatAdjacentSubSeq
<1>5. SubSeq(input, 1, offset) \o SubSeq(input, offset + 1, offset + from + n)
        = SubSeq(input, 1, offset + from + n)
  BY <1>1, ConcatAdjacentSubSeq
<1>6. /\ offset + 0 + 1 = offset + 1 /\ offset + 0 + from = offset + from
      /\ offset + 0 + (from + n) = offset + from + n
      /\ (offset + from) + 1 = offset + from + 1
  BY <1>1
<1> QED
  BY <1>3, <1>4, <1>5, <1>6 DEF Bytes

\* What is written for the fields read is bytes.
LEMMA WrittenBytes ==
  ASSUME NEW h \in Seq(Byte), FieldsRead, artifact \in Artifacts
  PROVE  Written(h, Layout, fields) \in Seq(Byte)
<1>1. \A j \in 1..7 : PartAt(Layout, fields, j) \in Seq(Byte)
  BY EmptySeq DEF PartAt, FieldsRead, Listed
<1> QED
  BY <1>1, ConcatProperties DEF Written

-----------------------------------------------------------------------------
(* Steps.                                                                  *)

\* No counters, no bytes.
LEMMA NoRecords == records_bytes(<<>>) = <<>>
<1>1. Len(<<>>) * RECORD_BYTES = 0
  BY SizesAssumption DEF RECORD_BYTES
<1> QED
  BY <1>1 DEF records_bytes

\* The header is nine bytes.
LEMMA HeaderBytes ==
  ASSUME NEW kind \in Artifacts
  PROVE  header(kind) \in Seq(Byte)
BY SizesAssumption DEF header, Byte, Artifacts

\* Before the last field there is no counter.
LEMMA CountersLast ==
  ASSUME WireIInv, ~Complete
  PROVE  counters = <<>>
BY EmptySeq DEF WireIInv, CountersRead, Counted

\* A failure keeps the invariant.
LEMMA FailKeeps ==
  ASSUME WireIInv, NEW error \in Errors, Fail(error)
  PROVE  WireIInv'
<1>1. /\ artifact' = artifact /\ input' = input /\ offset' = offset
      /\ fields' = fields /\ counters' = counters
      /\ result' \in Errors /\ result' \notin {"opening", "reading", "Ok"}
  BY DEF Fail, Errors
<1>2. Layout' = Layout
  BY <1>1 DEF Layout
<1>3. FieldsRead' /\ CountersRead'
  <2>1. Counted' = Counted
    BY <1>1, <1>2 DEF Counted, Complete
  <2> QED
    BY <1>1, <1>2, <2>1 DEF WireIInv, FieldsRead, CountersRead
<1>4. Consumed' /\ Accepted'
  BY <1>1 DEF Consumed, Accepted
<1> QED
  BY <1>1, <1>3, <1>4 DEF WireIInv

\* Taking a field whose encoding is the bytes taken keeps the invariant.
LEMMA TakeKeeps ==
  ASSUME WireIInv, result = "reading", Len(fields) < Len(Layout),
         NEW x, NEW size \in Nat, Left(size), Take(x, size),
         x \in FieldValues(Here), Part(Here, x) = Bytes(0, size),
         artifact \in {1, 2} /\ Len(fields) = 1 => Len(x) <= MAX_APPLICATION_CONTEXT_BYTES
  PROVE  WireIInv'
<1> DEFINE n == Len(fields)
           h == header(artifact)
           read == SubSeq(input, 1, offset)
<1>1. /\ artifact' = artifact /\ input' = input /\ counters' = counters /\ result' = result
      /\ offset' = offset + size /\ fields' = Append(fields, x)
  BY DEF Take
<1>2. Layout' = Layout
  BY <1>1 DEF Layout
<1>3. /\ artifact \in Artifacts /\ input \in Seq(Byte) /\ offset \in 0..Len(input)
      /\ FieldsRead /\ Consumed
  BY DEF WireIInv
<1>4. n \in Nat /\ n < Len(Layout) /\ Len(Layout) \in 1..7
  BY <1>3, LayoutFacts DEF FieldsRead, Listed
<1>4a. n \in 0..6
  <2> DEFINE m == Len(Layout)
  <2>1. n \in Nat /\ n < m /\ m \in 1..7
    BY <1>4
  <2> HIDE DEF n, m
  <2> QED
    BY <2>1
<1>5. counters = <<>>
  BY <1>4, CountersLast DEF Complete
<1>6. /\ Bytes(0, size) \in Seq(Byte)
      /\ read \o Bytes(0, size) = SubSeq(input, 1, offset + size)
  <2>1. Left(0 + size)
    OBVIOUS
  <2>2. /\ Bytes(0, size) \in Seq(Byte)
        /\ read \o Bytes(0, 0 + size) = SubSeq(input, 1, offset + 0 + size)
    BY <1>3, <2>1, BytesRead
  <2> QED
    BY <1>3, <2>2
<1>7. /\ Listed(fields') /\ Len(fields') = n + 1 /\ fields'[n + 1] = x
      /\ \A i \in 1..n : fields'[i] = fields[i]
  BY <1>1, <1>3, AppendListed DEF FieldsRead
<1>7a. \A i \in 1..(n + 1) : fields'[i] \in FieldValues(Layout[i])
                             /\ Part(Layout[i], fields'[i]) \in Seq(Byte)
  <2>1. \A i \in 1..n : /\ fields[i] \in FieldValues(Layout[i])
                        /\ Part(Layout[i], fields[i]) \in Seq(Byte)
    BY <1>3 DEF FieldsRead
  <2>2. x \in FieldValues(Layout[n + 1]) /\ Part(Layout[n + 1], x) \in Seq(Byte)
    BY <1>6 DEF Here
  <2>3. \A i \in 1..(n + 1) : i \in 1..n \/ i = n + 1
    BY <1>4
  <2> HIDE DEF n
  <2> QED
    BY <1>7, <2>1, <2>2, <2>3
<1>8. FieldsRead'
  <2>1. ASSUME artifact \in {1, 2}, n + 1 >= 2
        PROVE  Len(fields'[2]) <= MAX_APPLICATION_CONTEXT_BYTES
    <3>1. CASE n = 1
      BY <1>7, <2>1, <3>1
    <3>2. CASE n # 1
      <4>1. n >= 2 /\ 2 \in 1..n
        <5> HIDE DEF n
        <5> QED
          BY <1>4a, <2>1, <3>2
      <4>2. fields'[2] = fields[2]
        BY <1>7, <4>1
      <4> QED
        BY <1>3, <2>1, <4>1, <4>2 DEF FieldsRead
    <3> QED
      BY <3>1, <3>2
  <2>2. artifact \in {1, 2} /\ n + 1 >= 2 => Len(fields'[2]) <= MAX_APPLICATION_CONTEXT_BYTES
    BY <2>1
  <2>3. (\A i \in 1..Len(fields) : /\ fields[i] \in FieldValues(Layout[i])
                                   /\ Part(Layout[i], fields[i]) \in Seq(Byte))'
    BY <1>2, <1>7, <1>7a DEF FieldValues, Part
  <2> QED
    BY <1>1, <1>2, <1>4, <1>7, <2>2, <2>3 DEF FieldsRead
<1>9. CountersRead'
  <2>1. artifact' = 6 /\ Complete' => fields'[7] \in Nat
    <3>1. artifact = 6 => Len(Layout) = 7 /\ Layout[7].kind = "count"
      BY <1>3, LayoutFacts
    <3>2. FieldValues(Layout[7]) = 0..MAX_PRESENTATION_CONTEXTS \/ Layout[7].kind # "count"
      BY DEF FieldValues
    <3>3. Complete' => Len(fields') = Len(Layout)
      BY <1>2 DEF Complete
    <3>4. (artifact' = 6 /\ Complete') => fields'[7] \in FieldValues(Layout[7])
      <4>1. Complete' => Len(Layout) = n + 1
        BY <1>7, <3>3
      <4> QED
        BY <1>1, <1>4, <1>7a, <3>1, <4>1
    <3>5. 0..MAX_PRESENTATION_CONTEXTS \subseteq Nat
      BY SizesAssumption
    <3> QED
      BY <1>1, <3>1, <3>2, <3>4, <3>5
  <2>2. Counted' \in Nat
    BY <2>1 DEF Counted
  <2> QED
    BY <1>1, <1>5, <2>2, EmptySeq DEF CountersRead
<1>10. Consumed'
  <2>1. read = Written(h, Layout, fields) \o <<>>
    BY <1>3, <1>5, NoRecords DEF Consumed
  <2>2. h \in Seq(Byte)
    BY <1>3, HeaderBytes
  <2>3. /\ Written(h, Layout, fields) \in Seq(Byte)
        /\ Written(h, Layout, Append(fields, x)) = Written(h, Layout, fields) \o Bytes(0, size)
    <3>1. Part(Layout[Len(fields) + 1], x) = Bytes(0, size)
      BY DEF Here
    <3>2. \A i \in 1..Len(fields) : Part(Layout[i], fields[i]) \in Seq(Byte)
      BY <1>3 DEF FieldsRead
    <3>3. Listed(fields) /\ Len(fields) < 7
      <4>1. Listed(fields)
        BY <1>3 DEF FieldsRead
      <4>2. n < 7
        <5> HIDE DEF n
        <5> QED
          BY <1>4a
      <4> QED
        BY <4>1, <4>2
    <3>4. Part(Layout[Len(fields) + 1], x) \in Seq(Byte)
      BY <1>6, <3>1
    <3> DEFINE L == Layout
    <3> HIDE DEF h, L
    <3>5. /\ Written(h, L, fields) \in Seq(Byte)
          /\ Written(h, L, Append(fields, x)) = Written(h, L, fields) \o Part(L[Len(fields) + 1], x)
      BY <2>2, <3>2, <3>3, <3>4, WrittenTake, SMTT(20) DEF L
    <3> QED
      BY <3>1, <3>5 DEF L
  <2>4. read \o Bytes(0, size) = Written(h, Layout, Append(fields, x))
    BY <2>1, <2>3, ConcatEmptySeq
  <2>5. Written(h, Layout, Append(fields, x)) \o <<>> = Written(h, Layout, Append(fields, x))
    BY <1>6, <2>3, ConcatProperties, ConcatEmptySeq
  <2>6. Written(header(artifact), Layout, fields)' = Written(h, Layout, Append(fields, x))
    BY <1>1, <1>2 DEF Written, PartAt, Part
  <2>7. SubSeq(input, 1, offset)' = SubSeq(input, 1, offset + size)
    BY <1>1
  <2>8. records_bytes(counters)' = <<>>
    BY <1>1, <1>5, NoRecords DEF records_bytes, record_bytes
  <2> QED
    BY <1>6, <2>4, <2>5, <2>6, <2>7, <2>8 DEF Consumed
<1>11. Accepted'
  BY <1>1 DEF Accepted
<1>12. offset' \in 0..Len(input') /\ result' = "reading" /\ artifact' \in Artifacts /\ input' \in Seq(Byte)
  BY <1>1, <1>3, LenProperties DEF Left
<1> QED
  BY <1>8, <1>9, <1>10, <1>11, <1>12 DEF WireIInv

\* A length-prefixed field is one of three.
LEMMA ContentKinds ==
  ASSUME WireIInv, Len(fields) < Len(Layout), Here.kind = "bytes"
  PROVE  Here.content \in {"application_context", "mayo", "proof"}
<1>1. Len(fields) \in Nat /\ artifact \in Artifacts
  BY DEF WireIInv, FieldsRead, Listed
<1>2. \A i \in 1..Len(Layout) :
        Layout[i].kind = "bytes" => Layout[i].content \in {"application_context", "mayo", "proof"}
  <2> USE DEF Layout, Layouts, array, nibbles, bytes, profile_id, context_count
  <2>1. CASE artifact = 1
    BY <2>1 DEF public_key_layout
  <2>2. CASE artifact = 2
    BY <2>2 DEF issuer_key_layout
  <2>3. CASE artifact = 3
    BY <2>3 DEF issue_request_layout
  <2>4. CASE artifact = 4
    BY <2>4 DEF issue_response_layout
  <2>5. CASE artifact = 5
    BY <2>5 DEF pending_issue_layout
  <2>6. CASE artifact = 6
    BY <2>6 DEF credential_layout
  <2>7. CASE artifact = 7
    BY <2>7 DEF presentation_layout
  <2>8. \/ artifact = 1 \/ artifact = 2 \/ artifact = 3 \/ artifact = 4
        \/ artifact = 5 \/ artifact = 6 \/ artifact = 7
    BY <1>1 DEF Artifacts
  <2> HIDE DEF Layout, Layouts, array, nibbles, bytes, profile_id, context_count
  <2> QED
    BY <2>1, <2>2, <2>3, <2>4, <2>5, <2>6, <2>7, <2>8
<1>3. Len(Layout) \in 1..7
  BY <1>1, LayoutFacts
<1> DEFINE i == Len(fields) + 1
<1>4. i \in 1..Len(Layout) /\ Here = Layout[i]
  BY <1>1, <1>3 DEF Here
<1> HIDE DEF i
<1> QED
  BY <1>2, <1>4

\* What is known of the field about to be read.
LEMMA HereFacts ==
  ASSUME WireIInv, Len(fields) < Len(Layout)
  PROVE  /\ Here.kind \in Kinds
         /\ Here.size \in Nat
         /\ Here.kind = "profile" => Here.size = 1
         /\ Here.kind \in {"bytes", "count"} => Here.size = 4
         /\ artifact \in {1, 2} /\ Len(fields) = 1 =>
              Here.kind = "bytes" /\ Here.content = "application_context"
<1>1. Len(fields) \in Nat /\ Len(Layout) \in 1..7 /\ artifact \in Artifacts
  BY LayoutFacts DEF WireIInv, FieldsRead, Listed
<1> DEFINE i == Len(fields) + 1
<1>2. i \in 1..Len(Layout)
  BY <1>1
<1>3. Len(fields) = 1 => i = 2
  OBVIOUS
<1> HIDE DEF i
<1>4. /\ Layout[i].kind \in Kinds
      /\ Layout[i].size \in Nat
      /\ Layout[i].kind = "profile" => Layout[i].size = 1
      /\ Layout[i].kind \in {"bytes", "count"} => Layout[i].size = 4
      /\ i = 2 /\ artifact \in {1, 2} =>
           Layout[i].kind = "bytes" /\ Layout[i].content = "application_context"
  BY <1>1, <1>2, LayoutFacts
<1>5. Here = Layout[i]
  BY DEF Here, i
<1> QED
  BY <1>3, <1>4, <1>5

\* Every read takes the encoding of the value it returns.
LEMMA ReadArrayKeeps ==
  ASSUME WireIInv, ReadArray
  PROVE  WireIInv'
<1>1. /\ result = "reading" /\ Len(fields) < Len(Layout) /\ Here.kind = "array"
      /\ Left(Here.size) /\ Take(Bytes(0, Here.size), Here.size)
  BY DEF ReadArray, Expects
<1>2. Here.size \in Nat /\ ~(artifact \in {1, 2} /\ Len(fields) = 1)
  BY <1>1, HereFacts
<1> DEFINE s == Here.size
           x == Bytes(0, s)
<1>3. x \in Seq(Byte) /\ Len(x) = s
  <2>1. input \in Seq(Byte) /\ offset \in 0..Len(input) /\ Left(0 + s)
    BY <1>1, <1>2 DEF WireIInv
  <2> QED
    BY <1>2, <2>1, BytesRead
<1>4. x \in FieldValues(Here) /\ Part(Here, x) = x
  BY <1>1, <1>3 DEF FieldValues, Part
<1> QED
  BY <1>1, <1>2, <1>4, TakeKeeps

\* The profile's identifier is the byte read.
LEMMA ReadProfileKeeps ==
  ASSUME WireIInv, ReadProfile
  PROVE  WireIInv'
<1> DEFINE id == input[offset + 1]
<1>1. /\ result = "reading" /\ Len(fields) < Len(Layout) /\ Here.kind = "profile" /\ Left(1)
      /\ IF id \in 1..3 THEN Take(from_wire_id(id), 1) ELSE Fail("InvalidEncoding")
  BY DEF ReadProfile, Expects
<1>2. CASE id \in 1..3
  <2>1. ~(artifact \in {1, 2} /\ Len(fields) = 1)
    BY <1>1, HereFacts
  <2> DEFINE x == from_wire_id(id)
  <2>2. x \in {"Compact", "Balanced", "LowLatency"} /\ wire_id(x) = id
    <3> HIDE DEF id
    <3>1. id = 1 \/ id = 2 \/ id = 3
      BY <1>2
    <3> QED
      BY <3>1 DEF from_wire_id, wire_id
  <2>3. Bytes(0, 1) = <<id>>
    <3> DEFINE s == Bytes(0, 1)
    <3>1. input \in Seq(Byte) /\ offset \in Nat /\ offset + 1 \in 1..Len(input)
      BY <1>1, LenProperties DEF WireIInv, Left
    <3>2. id \in Byte
      BY <3>1, ElementOfSeq
    <3>3. s = SubSeq(input, offset + 1, offset + 1)
      BY <3>1 DEF Bytes
    <3>4. s \in Seq(Byte) /\ Len(s) = 1 /\ s[1] = id
      BY <3>1, <3>2, <3>3, SubSeqProperties
    <3> HIDE DEF s, id
    <3>5. s = <<id>>
      BY <3>4
    <3> QED
      BY <3>5 DEF s
  <2>4. x \in FieldValues(Here) /\ Part(Here, x) = Bytes(0, 1)
    BY <1>1, <2>2, <2>3 DEF FieldValues, Part
  <2>5. Take(x, 1)
    BY <1>1, <1>2
  <2> HIDE DEF x
  <2> QED
    BY <1>1, <2>1, <2>4, <2>5, TakeKeeps
<1>3. CASE id \notin 1..3
  BY <1>1, <1>3, FailKeeps DEF Errors
<1> QED
  BY <1>2, <1>3

\* The nibbles pack to the bytes read.
LEMMA ReadNibblesKeeps ==
  ASSUME WireIInv, ReadNibbles
  PROVE  WireIInv'
<1> DEFINE count == Here.size
           size == (count + 1) \div 2
           packed == Bytes(0, size)
           x == unpack(packed, count)
<1>1. /\ result = "reading" /\ Len(fields) < Len(Layout) /\ Here.kind = "nibbles" /\ Left(size)
      /\ IF OddHalfEmpty(packed, count) THEN Take(x, size) ELSE Fail("InvalidEncoding")
  BY DEF ReadNibbles, Expects
<1>2. CASE OddHalfEmpty(packed, count)
  <2>1. count \in Nat /\ ~(artifact \in {1, 2} /\ Len(fields) = 1)
    BY <1>1, HereFacts
  <2>2. size \in Nat
    <3> HIDE DEF count
    <3> QED
      BY <2>1
  <2>3. packed \in Seq(Byte) /\ Len(packed) = size
    <3>1. input \in Seq(Byte) /\ offset \in 0..Len(input) /\ Left(0 + size)
      BY <1>1, <2>2 DEF WireIInv
    <3> HIDE DEF size
    <3> QED
      BY <2>2, <3>1, BytesRead
  <2>4. x \in Seq(0..15) /\ Len(x) = count /\ pack_nibbles(x) = packed
    <3> HIDE DEF packed, count
    <3> QED
      BY <1>2, <2>1, <2>3, PackedBack
  <2>5. x \in FieldValues(Here) /\ Part(Here, x) = packed
    BY <1>1, <2>4 DEF FieldValues, Part
  <2>6. Take(x, size)
    BY <1>1, <1>2
  <2> HIDE DEF x, size, count
  <2> QED
    BY <1>1, <2>1, <2>2, <2>5, <2>6, TakeKeeps
<1>3. CASE ~OddHalfEmpty(packed, count)
  BY <1>1, <1>3, FailKeeps DEF Errors
<1> QED
  BY <1>2, <1>3

\* The length prefix and the content are the bytes read.
LEMMA ReadBytesKeeps ==
  ASSUME WireIInv, ReadBytes
  PROVE  WireIInv'
<1> DEFINE len == from_le_bytes(Bytes(0, 4))
           x == Bytes(4, len)
           verdict == ContentResult(Here.content, x)
<1>1. /\ result = "reading" /\ Len(fields) < Len(Layout) /\ Here.kind = "bytes" /\ Left(4)
      /\ \/ ~Left(4 + len) /\ Fail("InvalidEncoding")
         \/ /\ Left(4 + len)
            /\ IF verdict = "Ok" THEN Take(x, 4 + len) ELSE Fail(verdict)
  BY DEF ReadBytes, Expects
<1>2. input \in Seq(Byte) /\ offset \in 0..Len(input)
  BY DEF WireIInv
<1>3. len \in Nat /\ to_le_bytes(len) = Bytes(0, 4)
  <2>1. Bytes(0, 4) \in Seq(Byte) /\ Len(Bytes(0, 4)) = 4
    <3>1. Left(0 + 4)
      BY <1>1
    <3> QED
      BY <1>2, <3>1, BytesRead
  <2> QED
    BY <2>1, LengthBytes
<1>4. Here.content = "application_context" =>
        (verdict = "Ok" => ~(Len(x) > MAX_APPLICATION_CONTEXT_BYTES))
  BY DEF ContentResult
<1>5. CASE ~Left(4 + len)
  BY <1>1, <1>5, FailKeeps DEF Errors
<1>6. CASE Left(4 + len) /\ verdict = "Ok"
  <2>1. x \in Seq(Byte) /\ Len(x) = len /\ Bytes(0, 4) \o x = Bytes(0, 4 + len)
    <3> HIDE DEF len
    <3> QED
      BY <1>2, <1>3, <1>6, BytesRead
  <2>2. put_bytes(x) = Bytes(0, 4 + len)
    BY <1>3, <2>1 DEF put_bytes
  <2>3. x \in FieldValues(Here) /\ Part(Here, x) = Bytes(0, 4 + len)
    BY <1>1, <2>1, <2>2 DEF FieldValues, Part
  <2>4. artifact \in {1, 2} /\ Len(fields) = 1 => Len(x) <= MAX_APPLICATION_CONTEXT_BYTES
    <3>1. artifact \in {1, 2} /\ Len(fields) = 1 => ~(Len(x) > MAX_APPLICATION_CONTEXT_BYTES)
      BY <1>1, <1>4, <1>6, HereFacts
    <3> QED
      BY SizesAssumption, <1>3, <2>1, <3>1
  <2>5. Take(x, 4 + len) /\ 4 + len \in Nat
    BY <1>1, <1>3, <1>6
  <2> HIDE DEF x, len
  <2> QED
    BY <1>1, <1>6, <2>3, <2>4, <2>5, TakeKeeps
<1>7. CASE Left(4 + len) /\ verdict # "Ok"
  <2>1. verdict \in {"Ok"} \cup Errors \/ Here.content \notin {"application_context", "mayo", "proof"}
    BY DEF ContentResult, decode_proof, Errors
  <2>2. Here.content \in {"application_context", "mayo", "proof"}
    BY <1>1, ContentKinds
  <2>3. verdict \in Errors /\ Fail(verdict)
    BY <1>1, <1>7, <2>1, <2>2
  <2> HIDE DEF verdict
  <2> QED
    BY <2>3, FailKeeps
<1> QED
  BY <1>5, <1>6, <1>7

\* The count is the four bytes read.
LEMMA ReadCountKeeps ==
  ASSUME WireIInv, ReadCount
  PROVE  WireIInv'
<1> DEFINE count == from_le_bytes(Bytes(0, 4))
<1>1. /\ result = "reading" /\ Len(fields) < Len(Layout) /\ Here.kind = "count" /\ Left(4)
      /\ IF count <= MAX_PRESENTATION_CONTEXTS THEN Take(count, 4) ELSE Fail("InvalidEncoding")
  BY DEF ReadCount, Expects
<1>2. count \in Nat /\ to_le_bytes(count) = Bytes(0, 4)
  <2>1. Bytes(0, 4) \in Seq(Byte) /\ Len(Bytes(0, 4)) = 4
    <3>1. input \in Seq(Byte) /\ offset \in 0..Len(input) /\ Left(0 + 4)
      BY <1>1 DEF WireIInv
    <3> QED
      BY <3>1, BytesRead
  <2> QED
    BY <2>1, LengthBytes
<1>3. CASE count <= MAX_PRESENTATION_CONTEXTS
  <2>1. ~(artifact \in {1, 2} /\ Len(fields) = 1)
    BY <1>1, HereFacts
  <2> HIDE DEF count
  <2>2. count \in FieldValues(Here) /\ Part(Here, count) = Bytes(0, 4)
    BY SizesAssumption, <1>1, <1>2, <1>3 DEF FieldValues, Part
  <2>3. Take(count, 4)
    BY <1>1, <1>3
  <2> QED
    BY <1>1, <2>1, <2>2, <2>3, TakeKeeps
<1>4. CASE ~(count <= MAX_PRESENTATION_CONTEXTS)
  BY <1>1, <1>4, FailKeeps DEF Errors
<1> QED
  BY <1>3, <1>4

\* The order of byte arrays is transitive.
LEMMA PrecedesTransitive ==
  ASSUME NEW a \in Seq(Byte), NEW b \in Seq(Byte), NEW c \in Seq(Byte),
         Len(a) = Len(b), Len(b) = Len(c), Precedes(a, b), Precedes(b, c)
  PROVE  Precedes(a, c)
<1>1. PICK k \in 1..Len(a) : a[k] < b[k] /\ \A j \in 1..(k - 1) : a[j] = b[j]
  BY LenProperties DEF Precedes
<1>2. PICK m \in 1..Len(a) : b[m] < c[m] /\ \A j \in 1..(m - 1) : b[j] = c[j]
  BY LenProperties DEF Precedes
<1>3. \A i \in 1..Len(a) : a[i] \in Int /\ b[i] \in Int /\ c[i] \in Int
  <2>1. \A i \in 1..Len(a) : a[i] \in Byte
    BY ElementOfSeq
  <2>2. \A i \in 1..Len(b) : b[i] \in Byte
    BY ElementOfSeq
  <2>3. \A i \in 1..Len(c) : c[i] \in Byte
    BY ElementOfSeq
  <2>4. \A x \in Byte : x \in Int
    BY DEF Byte
  <2> QED
    BY <2>1, <2>2, <2>3, <2>4
<1>4. Len(a) \in Nat /\ DOMAIN a = 1..Len(a)
  BY LenProperties
<1>5. CASE k < m
  <2>1. a[k] < c[k] /\ \A j \in 1..(k - 1) : a[j] = c[j]
    BY <1>1, <1>2, <1>3, <1>4, <1>5
  <2> QED
    BY <1>4, <2>1 DEF Precedes
<1>6. CASE k >= m
  <2>1. a[m] < c[m] /\ \A j \in 1..(m - 1) : a[j] = c[j]
    BY <1>1, <1>2, <1>3, <1>4, <1>6
  <2> QED
    BY <1>4, <2>1 DEF Precedes
<1> QED
  BY <1>1, <1>2, <1>4, <1>5, <1>6

\* A counter's record is the bytes read, and its context follows the last.
LEMMA ReadCounterKeeps ==
  ASSUME WireIInv, ReadCounter
  PROVE  WireIInv'
<1> DEFINE context == Bytes(0, HASH_BYTES)
           nonce == Bytes(HASH_BYTES, 4)
           c == [context |-> context, next_nonce |-> from_le_bytes(nonce)]
           n == Len(counters)
<1>1. /\ result = "reading" /\ Complete /\ n < Counted
      /\ IF Left(RECORD_BYTES) /\ InOrder(context) /\ c.next_nonce # 0
         THEN /\ counters' = Append(counters, c) /\ offset' = offset + RECORD_BYTES
              /\ UNCHANGED <<artifact, input, fields, result>>
         ELSE Fail("InvalidEncoding")
  BY DEF ReadCounter
<1>2. CASE ~(Left(RECORD_BYTES) /\ InOrder(context) /\ c.next_nonce # 0)
  <2>1. Fail("InvalidEncoding")
    BY <1>1, <1>2
  <2> QED
    BY <2>1, FailKeeps DEF Errors
<1>3. CASE Left(RECORD_BYTES) /\ InOrder(context) /\ c.next_nonce # 0
  <2>1. /\ artifact \in Artifacts /\ input \in Seq(Byte) /\ offset \in 0..Len(input)
        /\ FieldsRead /\ CountersRead /\ Consumed /\ HASH_BYTES \in Nat
    BY SizesAssumption DEF WireIInv
  <2>2. /\ counters' = Append(counters, c) /\ offset' = offset + RECORD_BYTES
        /\ artifact' = artifact /\ input' = input /\ fields' = fields /\ result' = result
    BY <1>1, <1>3
  <2>3. Layout' = Layout /\ Counted' = Counted /\ Counted # 0
    <3>1. Layout' = Layout
      BY <2>2 DEF Layout
    <3>2. Counted' = Counted
      BY <2>2, <3>1 DEF Counted, Complete
    <3>3. n \in Nat
      BY <2>1, LenProperties DEF CountersRead
    <3> QED
      BY <1>1, <3>1, <3>2, <3>3
  <2>4. artifact = 6 /\ Counted \in Nat
    <3>1. artifact = 6 /\ Counted = fields[7]
      BY <2>3 DEF Counted
    <3>2. Len(fields) = 7 /\ Layout[7].kind = "count"
      BY <1>1, <2>1, <3>1, LayoutFacts DEF Complete
    <3>3. fields[7] \in FieldValues(Layout[7])
      BY <2>1, <3>2 DEF FieldsRead
    <3>4. fields[7] \in 0..MAX_PRESENTATION_CONTEXTS
      BY <3>2, <3>3 DEF FieldValues
    <3> QED
      BY SizesAssumption, <3>1, <3>4
  <2>5. /\ context \in Seq(Byte) /\ Len(context) = HASH_BYTES
        /\ nonce \in Seq(Byte) /\ Len(nonce) = 4
        /\ context \o nonce = Bytes(0, RECORD_BYTES)
        /\ Bytes(0, RECORD_BYTES) \in Seq(Byte) /\ Len(Bytes(0, RECORD_BYTES)) = RECORD_BYTES
        /\ SubSeq(input, 1, offset) \o Bytes(0, RECORD_BYTES)
             = SubSeq(input, 1, offset + RECORD_BYTES)
    <3>1. RECORD_BYTES = HASH_BYTES + 4 /\ RECORD_BYTES \in Nat
      BY <2>1 DEF RECORD_BYTES
    <3>2. Left(0 + HASH_BYTES) /\ Left(0 + RECORD_BYTES) /\ Left(HASH_BYTES + 4)
      BY <1>3, <2>1, <3>1, LenProperties DEF Left
    <3>3. context \in Seq(Byte) /\ Len(context) = HASH_BYTES
      BY <2>1, <3>2, BytesRead
    <3>4. /\ nonce \in Seq(Byte) /\ Len(nonce) = 4
          /\ context \o nonce = Bytes(0, HASH_BYTES + 4)
      BY <2>1, <3>2, BytesRead
    <3>5. /\ Bytes(0, RECORD_BYTES) \in Seq(Byte) /\ Len(Bytes(0, RECORD_BYTES)) = RECORD_BYTES
          /\ SubSeq(input, 1, offset) \o Bytes(0, 0 + RECORD_BYTES)
               = SubSeq(input, 1, offset + 0 + RECORD_BYTES)
      BY <2>1, <3>1, <3>2, BytesRead
    <3>6. offset + 0 + RECORD_BYTES = offset + RECORD_BYTES /\ 0 + RECORD_BYTES = RECORD_BYTES
      BY <2>1, <3>1
    <3> QED
      BY <3>1, <3>3, <3>4, <3>5, <3>6
  <2>6. from_le_bytes(nonce) \in Nat /\ to_le_bytes(from_le_bytes(nonce)) = nonce
    BY <2>5, LengthBytes
  <2>7. c \in Counter /\ record_bytes(c) = Bytes(0, RECORD_BYTES) /\ Recorded(c)
    <3>1. c \in Counter
      BY <2>5, <2>6 DEF Counter
    <3>2. c.context = context /\ c.next_nonce = from_le_bytes(nonce)
      OBVIOUS
    <3>3. record_bytes(c) = Bytes(0, RECORD_BYTES)
      BY <2>5, <2>6, <3>2 DEF record_bytes
    <3> QED
      BY <2>5, <3>1, <3>3 DEF Recorded
  <2>8. c.context = context /\ c.next_nonce # 0
    BY <1>3
  <2> HIDE DEF c, context
  <2>9. /\ Append(counters, c) \in Seq(Counter) /\ Len(Append(counters, c)) = n + 1 /\ n \in Nat
        /\ Append(counters, c)[n + 1] = c
        /\ \A k \in 1..n : Append(counters, c)[k] = counters[k]
    BY <2>1, <2>7, AppendProperties, LenProperties DEF CountersRead
  <2> DEFINE more == Append(counters, c)
  <2> HIDE DEF more
  <2>10. \A k \in 1..(n + 1) : /\ Recorded(more[k])
                               /\ Len(more[k].context) = HASH_BYTES
                               /\ more[k].next_nonce # 0
    <3>1. \A k \in 1..n : /\ Recorded(counters[k]) /\ Len(counters[k].context) = HASH_BYTES
                          /\ counters[k].next_nonce # 0
      BY <2>1 DEF CountersRead
    <3>2. ASSUME NEW k \in 1..n
          PROVE  more[k] = counters[k]
      BY <2>9 DEF more
    <3>3. more[n + 1] = c
      BY <2>9 DEF more
    <3>4. \A k \in 1..(n + 1) : k \in 1..n \/ k = n + 1
      BY <2>9
    <3> QED
      BY <2>5, <2>7, <2>8, <3>1, <3>2, <3>3, <3>4
  <2>11. ASSUME NEW j \in 1..(n + 1), NEW k \in 1..(n + 1), j < k
         PROVE  Precedes(more[j].context, more[k].context)
    <3>1. CASE k <= n
      <4>1. j \in 1..n /\ k \in 1..n
        BY <2>9, <2>11, <3>1
      <4>2. more[j] = counters[j] /\ more[k] = counters[k]
        BY <2>9, <4>1 DEF more
      <4> QED
        BY <2>1, <2>11, <4>1, <4>2 DEF CountersRead
    <3>2. CASE k = n + 1
      <4>1. j \in 1..n /\ n \in 1..n
        BY <2>9, <2>11, <3>2
      <4>2. more[j] = counters[j] /\ more[k] = c
        BY <2>9, <3>2, <4>1 DEF more
      <4>3. Precedes(counters[n].context, context)
        <5>1. counters # <<>>
          BY <4>1, EmptySeq
        <5> QED
          BY <1>3, <5>1 DEF InOrder
      <4>4. CASE j = n
        BY <2>8, <4>2, <4>3, <4>4
      <4>5. CASE j # n
        <5>1. Precedes(counters[j].context, counters[n].context)
          BY <2>1, <2>9, <4>1, <4>5 DEF CountersRead
        <5>2. /\ counters[j].context \in Seq(Byte) /\ counters[n].context \in Seq(Byte)
              /\ Len(counters[j].context) = HASH_BYTES /\ Len(counters[n].context) = HASH_BYTES
          <6>1. counters[j] \in Counter /\ counters[n] \in Counter
            BY <2>1, <4>1, ElementOfSeq DEF CountersRead
          <6> QED
            BY <2>1, <4>1, <6>1 DEF CountersRead, Counter
        <5>3. Precedes(counters[j].context, context)
          BY <2>5, <4>3, <5>1, <5>2, PrecedesTransitive
        <5> QED
          BY <2>8, <4>2, <5>3
      <4> QED
        BY <4>4, <4>5
    <3> QED
      BY <2>9, <3>1, <3>2
  <2>12. CountersRead'
    <3>1. counters' = more
      BY <2>2 DEF more
    <3>2. more \in Seq(Counter) /\ Len(more) = n + 1 /\ n + 1 <= Counted
      BY <1>1, <2>4, <2>9 DEF more
    <3> HIDE DEF n
    <3> QED
      BY <2>3, <2>10, <2>11, <3>1, <3>2
      DEF CountersRead, Recorded, record_bytes, to_le_bytes, Precedes, Counter
  <2>13. Consumed'
    <3> DEFINE w == Written(header(artifact), Layout, fields)
               r == records_bytes(counters)
               b == Bytes(0, RECORD_BYTES)
               read == SubSeq(input, 1, offset)
    <3>1. read = w \o r
      BY <1>1, <2>1 DEF Consumed
    <3>2. w \in Seq(Byte)
      BY <2>1, HeaderBytes, WrittenBytes
    <3>3. r \in Seq(Byte) /\ records_bytes(more) = r \o b
      <4>1. \A k \in 1..Len(counters) : Recorded(counters[k])
        BY <2>1 DEF CountersRead
      <4>2. counters \in Seq(Counter)
        BY <2>1 DEF CountersRead
      <4> QED
        BY <2>1, <2>7, <4>1, <4>2, RecordsAppend DEF more
    <3> HIDE DEF w, r, b, read
    <3>4. read \o b = w \o (r \o b)
      <4>1. b \in Seq(Byte)
        BY <2>5 DEF b
      <4>2. (w \o r) \o b = w \o (r \o b)
        BY <3>2, <3>3, <4>1, ConcatAssociative
      <4> QED
        BY <3>1, <4>2
    <3>5. SubSeq(input, 1, offset)' = read \o b
      BY <2>2, <2>5 DEF read, b
    <3>6. Written(header(artifact), Layout, fields)' = w
      BY <2>2, <2>3 DEF w, Written, PartAt, Part
    <3>7. records_bytes(counters)' = records_bytes(more)
      <4>1. counters' = more
        BY <2>2 DEF more
      <4> QED
        BY <4>1 DEF records_bytes, record_bytes
    <3> QED
      BY <3>3, <3>4, <3>5, <3>6, <3>7 DEF Consumed
  <2>14. FieldsRead'
    BY <2>1, <2>2, <2>3 DEF FieldsRead
  <2>15. offset' \in 0..Len(input') /\ result' = "reading" /\ Accepted'
    BY <1>1, <1>3, <2>1, <2>2, LenProperties DEF Left, RECORD_BYTES, Accepted
  <2> QED
    BY <2>1, <2>2, <2>12, <2>13, <2>14, <2>15 DEF WireIInv
<1> QED
  BY <1>2, <1>3

\* Nothing is taken from an input that is too short.
LEMMA TruncatedKeeps ==
  ASSUME WireIInv, Truncated
  PROVE  WireIInv'
<1>1. Fail("InvalidEncoding")
  BY DEF Truncated
<1> QED
  BY <1>1, FailKeeps DEF Errors

\* The header is the first nine bytes.
LEMMA NewKeeps ==
  ASSUME WireIInv, New
  PROVE  WireIInv'
<1>1. /\ result = "opening" /\ result' = HeaderResult
      /\ offset' = IF HeaderResult = "reading" THEN 9 ELSE offset
      /\ artifact' = artifact /\ input' = input /\ fields' = fields /\ counters' = counters
  BY DEF New
<1>2. /\ artifact \in Artifacts /\ input \in Seq(Byte) /\ offset \in 0..Len(input)
      /\ FieldsRead /\ CountersRead /\ fields = <<>> /\ counters = <<>>
  BY <1>1 DEF WireIInv
<1>3. Layout' = Layout
  BY <1>1 DEF Layout
<1>4. FieldsRead' /\ CountersRead'
  <2>1. Counted' = Counted
    BY <1>1, <1>3 DEF Counted, Complete
  <2> QED
    BY <1>1, <1>2, <1>3, <2>1 DEF FieldsRead, CountersRead
<1>5. HeaderResult \in {"reading"} \cup Errors /\ HeaderResult # "Ok" /\ HeaderResult # "opening"
  BY DEF HeaderResult, Errors
<1>6. Accepted'
  BY <1>1, <1>5 DEF Accepted
<1>7. Consumed' /\ offset' \in 0..Len(input')
  <2>1. CASE HeaderResult = "reading"
    <3> DEFINE h == header(artifact)
    <3>1. Len(input) >= 9 /\ h \in Seq(Byte) /\ SubSeq(input, 1, 9) = h
      BY <1>2, <2>1, HeaderRead
    <3>2. \A j \in 1..7 : PartAt(Layout, fields, j) = <<>>
      BY <1>2, EmptySeq DEF PartAt
    <3> HIDE DEF h
    <3>3. Written(h, Layout, fields) = h
      <4>1. h \o <<>> = h
        BY <3>1, ConcatEmptySeq
      <4>2. Written(h, Layout, fields) =
              h \o <<>> \o <<>> \o <<>> \o <<>> \o <<>> \o <<>> \o <<>>
        <5>1. /\ PartAt(Layout, fields, 1) = <<>> /\ PartAt(Layout, fields, 2) = <<>>
              /\ PartAt(Layout, fields, 3) = <<>> /\ PartAt(Layout, fields, 4) = <<>>
              /\ PartAt(Layout, fields, 5) = <<>> /\ PartAt(Layout, fields, 6) = <<>>
              /\ PartAt(Layout, fields, 7) = <<>>
          BY <3>2
        <5> QED
          BY <5>1, Zenon DEF Written
      <4> QED
        BY <4>1, <4>2
    <3>4. Written(h, Layout, fields) \o records_bytes(counters) = h
      BY <1>2, <3>1, <3>3, NoRecords, ConcatEmptySeq
    <3>5. Written(header(artifact), Layout, fields)' = Written(h, Layout, fields)
      BY <1>1, <1>3 DEF h, Written, PartAt, Part
    <3>6. records_bytes(counters)' = records_bytes(counters)
      BY <1>1 DEF records_bytes, record_bytes
    <3>7. SubSeq(input, 1, offset)' = h
      BY <1>1, <2>1, <3>1
    <3>8. Consumed'
      BY <3>4, <3>5, <3>6, <3>7 DEF Consumed
    <3>9. offset' \in 0..Len(input')
      BY <1>1, <1>2, <2>1, <3>1, LenProperties
    <3> QED
      BY <3>8, <3>9
  <2>2. CASE HeaderResult # "reading"
    BY <1>1, <1>2, <1>5, <2>2 DEF Consumed
  <2> QED
    BY <2>1, <2>2
<1> QED
  BY <1>1, <1>2, <1>4, <1>5, <1>6, <1>7 DEF WireIInv

\* Nothing is accepted before the end of the input.
LEMMA FinishKeeps ==
  ASSUME WireIInv, Finish
  PROVE  WireIInv'
<1> DEFINE verdict == IF ~AtEnd THEN "InvalidEncoding"
                      ELSE IF artifact \in {5, 6} /\ fields[1] # Context THEN "WrongIssuer"
                      ELSE IF artifact = 6 /\ ~Authentic(Decoded) THEN "InvalidCredential"
                      ELSE "Ok"
<1>1. /\ result = "reading" /\ Complete /\ Len(counters) = Counted
      /\ Fail(verdict)
  BY DEF Finish
<1>2. CASE verdict # "Ok"
  <2>1. verdict \in Errors
    BY <1>2 DEF Errors
  <2> HIDE DEF verdict
  <2> QED
    BY <1>1, <2>1, FailKeeps
<1>3. CASE verdict = "Ok"
  <2>1. /\ artifact' = artifact /\ input' = input /\ offset' = offset
        /\ fields' = fields /\ counters' = counters /\ result' = "Ok"
    BY <1>1, <1>3 DEF Fail
  <2>2. /\ AtEnd /\ (artifact \in {5, 6} => fields[1] = Context)
        /\ (artifact = 6 => Authentic(Decoded))
    BY <1>3
  <2>3. Layout' = Layout
    BY <2>1 DEF Layout
  <2>4. Counted' = Counted /\ Complete' = Complete
    BY <2>1, <2>3 DEF Counted, Complete
  <2>5. FieldsRead' /\ CountersRead'
    BY <2>1, <2>3, <2>4 DEF WireIInv, FieldsRead, CountersRead
  <2>6. Consumed'
    <3>1. /\ SubSeq(input, 1, offset)' = SubSeq(input, 1, offset)
          /\ Written(header(artifact), Layout, fields)' = Written(header(artifact), Layout, fields)
          /\ records_bytes(counters)' = records_bytes(counters)
      BY <2>1, <2>3 DEF Written, PartAt, Part, records_bytes, record_bytes
    <3>2. Consumed
      BY DEF WireIInv
    <3> QED
      BY <1>1, <3>1, <3>2 DEF Consumed
  <2>7. Decoded' = Decoded
    BY <2>1 DEF Decoded, key_value, request_value, response_value, pending_value,
                credential_value, presentation_value
  <2>8. Accepted'
    <3>1. artifact' = 6 => Authentic(Decoded')
      BY <2>1, <2>2, <2>7
    <3>2. AtEnd' /\ (artifact' \in {5, 6} => fields'[1] = Context)
      BY <2>1, <2>2 DEF AtEnd
    <3>3. Complete' /\ Len(counters') = Counted'
      BY <1>1, <2>1, <2>4
    <3> QED
      BY <3>1, <3>2, <3>3 DEF Accepted
  <2> QED
    BY <2>1, <2>5, <2>6, <2>8 DEF WireIInv
<1> QED
  BY <1>2, <1>3

\* The invariant holds before the header is read,
LEMMA WireIInvInit == WireInit => WireIInv
<1> SUFFICES ASSUME WireInit PROVE WireIInv
  OBVIOUS
<1>1. /\ artifact \in Artifacts /\ input \in Seq(Byte) /\ offset = 0
      /\ fields = <<>> /\ counters = <<>> /\ result = "opening"
  BY InputsAssumption DEF WireInit
<1>2. offset \in 0..Len(input)
  BY <1>1, LenProperties
<1>3. Len(Layout) \in 1..7
  BY <1>1, LayoutFacts
<1>4. FieldsRead
  BY <1>1, <1>3 DEF FieldsRead, Listed
<1>5. CountersRead
  <2>1. Len(fields) = 0 /\ Len(fields) # Len(Layout)
    <3>1. Len(fields) = 0
      BY <1>1
    <3> DEFINE n == Len(fields)
               m == Len(Layout)
    <3>2. n = 0 /\ m \in 1..7
      BY <1>3, <3>1
    <3> HIDE DEF n, m
    <3>3. n # m
      BY <3>2
    <3> QED
      BY <3>1, <3>3 DEF n, m
  <2>2. Counted = 0
    BY <2>1 DEF Counted, Complete
  <2> QED
    BY <1>1, <2>2, EmptySeq DEF CountersRead
<1> QED
  BY <1>1, <1>2, <1>4, <1>5 DEF WireIInv, Consumed, Accepted

\* every step of the decoder keeps it,
LEMMA WireIInvStep == WireIInv /\ [WireNext]_wire_vars => WireIInv'
<1> SUFFICES ASSUME WireIInv, [WireNext]_wire_vars PROVE WireIInv'
  OBVIOUS
<1>1. CASE New
  BY <1>1, NewKeeps
<1>2. CASE Truncated
  BY <1>2, TruncatedKeeps
<1>3. CASE ReadArray
  BY <1>3, ReadArrayKeeps
<1>4. CASE ReadProfile
  BY <1>4, ReadProfileKeeps
<1>5. CASE ReadNibbles
  BY <1>5, ReadNibblesKeeps
<1>6. CASE ReadBytes
  BY <1>6, ReadBytesKeeps
<1>7. CASE ReadCount
  BY <1>7, ReadCountKeeps
<1>8. CASE ReadCounter
  BY <1>8, ReadCounterKeeps
<1>9. CASE Finish
  BY <1>9, FinishKeeps
<1>10. CASE UNCHANGED wire_vars
  <2>1. /\ artifact' = artifact /\ input' = input /\ offset' = offset
        /\ fields' = fields /\ counters' = counters /\ result' = result
    BY <1>10 DEF wire_vars
  <2>2. Layout' = Layout
    BY <2>1 DEF Layout
  <2>3. Counted' = Counted /\ Complete' = Complete /\ AtEnd' = AtEnd
    BY <2>1, <2>2 DEF Counted, Complete, AtEnd
  <2>4. Decoded' = Decoded
    BY <2>1 DEF Decoded, key_value, request_value, response_value, pending_value,
                credential_value, presentation_value
  <2>5. FieldsRead' /\ CountersRead'
    BY <2>1, <2>2, <2>3 DEF WireIInv, FieldsRead, CountersRead
  <2>6. /\ Written(header(artifact), Layout, fields)' = Written(header(artifact), Layout, fields)
        /\ records_bytes(counters)' = records_bytes(counters)
    BY <2>1, <2>2 DEF Written, PartAt, Part, records_bytes, record_bytes
  <2>7. Consumed' /\ Accepted'
    BY <2>1, <2>3, <2>4, <2>6 DEF WireIInv, Consumed, Accepted
  <2> QED
    BY <2>1, <2>5, <2>7 DEF WireIInv
<1> QED
  BY <1>1, <1>2, <1>3, <1>4, <1>5, <1>6, <1>7, <1>8, <1>9, <1>10 DEF WireNext

\* and so it always holds.
LEMMA WireSpecIInv == WireSpec => []WireIInv
BY WireIInvInit, WireIInvStep, PTL DEF WireSpec

-----------------------------------------------------------------------------
(* Theorems.                                                               *)

\* THE DECODER IS TYPED.  Shapes of the fields and counters that from_bytes has
\* read at any time; no read leaves the input.
THEOREM WireTyped == WireSpec => []WireTypeOK
<1>1. WireIInv => WireTypeOK
  <2> SUFFICES ASSUME WireIInv PROVE WireTypeOK
    OBVIOUS
  <2>1. DOMAIN fields = 1..Len(fields)
    BY DEF WireIInv, FieldsRead, Listed
  <2>2. \A i \in DOMAIN fields : fields[i] \in FieldValues(Layout[i])
    BY <2>1 DEF WireIInv, FieldsRead
  <2>3. \A k \in DOMAIN counters :
          /\ counters[k].context \in Seq(Byte) /\ Len(counters[k].context) = HASH_BYTES
          /\ counters[k].next_nonce \in Nat
    <3>1. counters \in Seq(Counter)
      BY DEF WireIInv, CountersRead
    <3>2. DOMAIN counters = 1..Len(counters)
      BY <3>1, LenProperties
    <3>3. \A k \in 1..Len(counters) : counters[k] \in Counter
      BY <3>1, ElementOfSeq
    <3> QED
      BY <3>2, <3>3 DEF WireIInv, CountersRead, Counter
  <2> QED
    BY <2>2, <2>3 DEF WireIInv, WireTypeOK, FieldsRead
<1> QED
  BY <1>1, WireSpecIInv, PTL

\* A DECODED VALUE IS LEGAL.  What credential from_bytes returns has its counters
\* in the strict order of a map, none zero, within the bound; local state belongs
\* to the public key and authenticates.
THEOREM WireDecodedLegal == WireSpec => []DecodedLegal
<1>1. WireIInv => DecodedLegal
  <2> SUFFICES ASSUME WireIInv, result = "Ok" PROVE DecodedLegal
    BY DEF DecodedLegal
  <2>1. artifact \in Artifacts /\ FieldsRead /\ CountersRead /\ Accepted
    BY DEF WireIInv
  <2>2. Complete /\ Len(counters) = Counted
    BY <2>1 DEF Accepted
  <2>3. artifact \in {1, 2} =>
          Len(Decoded.application_context) <= MAX_APPLICATION_CONTEXT_BYTES
    <3> SUFFICES ASSUME artifact \in {1, 2}
                 PROVE  Len(Decoded.application_context) <= MAX_APPLICATION_CONTEXT_BYTES
      OBVIOUS
    <3>1. Len(Layout) = 3
      <4>1. CASE artifact = 1
        BY <4>1 DEF Layout, Layouts, public_key_layout
      <4>2. CASE artifact = 2
        BY <4>2 DEF Layout, Layouts, issuer_key_layout
      <4> QED
        BY <4>1, <4>2
    <3>2. Decoded.application_context = fields[2]
      BY DEF Decoded, key_value
    <3> QED
      BY <2>1, <2>2, <3>1, <3>2 DEF FieldsRead, Complete
  <2>4. artifact \in {5, 6} => Decoded.issuer_context = Context
    BY <2>1 DEF Accepted, Decoded, pending_value, credential_value
  <2>5. artifact = 6 => Len(counters) <= MAX_PRESENTATION_CONTEXTS
    <3> SUFFICES ASSUME artifact = 6 PROVE Len(counters) <= MAX_PRESENTATION_CONTEXTS
      OBVIOUS
    <3>1. Len(fields) = 7 /\ Layout[7].kind = "count"
      BY <2>1, <2>2, LayoutFacts DEF Complete
    <3>2. fields[7] \in FieldValues(Layout[7])
      BY <2>1, <3>1 DEF FieldsRead
    <3>3. fields[7] \in 0..MAX_PRESENTATION_CONTEXTS /\ Len(counters) = fields[7]
      BY <2>2, <3>1, <3>2 DEF FieldValues, Counted
    <3> QED
      BY SizesAssumption, <3>3
  <2> QED
    BY <2>1, <2>3, <2>4, <2>5 DEF DecodedLegal, CountersRead, Accepted
<1> QED
  BY <1>1, WireSpecIInv, PTL

\* A complete list of fields, end to end, for each artifact.
LEMMA WrittenFields ==
  ASSUME NEW kind \in Artifacts, NEW fs, Listed(fs), Len(fs) = Len(Layouts[kind]),
         \A i \in 1..Len(fs) : Part(Layouts[kind][i], fs[i]) \in Seq(Byte)
  PROVE  LET w == Written(header(kind), Layouts[kind], fs) IN
           /\ w \in Seq(Byte)
           /\ kind \in {1, 2} =>
                w = header(kind) \o <<wire_id(fs[1])>> \o put_bytes(fs[2]) \o put_bytes(fs[3])
           /\ kind = 3 => w = header(3) \o pack_nibbles(fs[1]) \o put_bytes(fs[2])
           /\ kind = 4 => w = header(4) \o pack_nibbles(fs[1]) \o fs[2]
           /\ kind = 5 => w = header(5) \o fs[1] \o fs[2] \o fs[3] \o fs[4]
           /\ kind = 6 => w = header(6) \o fs[1] \o fs[2] \o pack_nibbles(fs[3]) \o fs[4]
                                \o fs[5] \o fs[6] \o to_le_bytes(fs[7])
           /\ kind = 7 => w = header(7) \o fs[1] \o put_bytes(fs[2])
<1> DEFINE L == Layouts[kind]
           h == header(kind)
           p(j) == PartAt(L, fs, j)
           w == Written(h, L, fs)
<1>1. \A j \in 1..7 : IF j <= Len(L) THEN p(j) = Part(L[j], fs[j]) ELSE p(j) = <<>>
  BY DEF PartAt
<1>2. h \in Seq(Byte)
  BY HeaderBytes
<1>3. \A j \in 1..7 : p(j) \in Seq(Byte)
  BY EmptySeq DEF PartAt, Listed
<1>4. w = h \o p(1) \o p(2) \o p(3) \o p(4) \o p(5) \o p(6) \o p(7)
  BY DEF Written
<1>5. \A b \in Seq(Byte) : b \o <<>> = b
  BY ConcatEmptySeq
<1> HIDE DEF h, p, w, L
<1>6. h \o p(1) \o p(2) \in Seq(Byte)
  BY <1>2, <1>3, ConcatProperties
<1>7. h \o p(1) \o p(2) \o p(3) \in Seq(Byte)
  BY <1>3, <1>6, ConcatProperties
<1>8. h \o p(1) \o p(2) \o p(3) \o p(4) \in Seq(Byte)
  BY <1>3, <1>7, ConcatProperties
<1>9. w \in Seq(Byte)
  BY <1>3, <1>4, <1>8, ConcatProperties
<1>10. CASE kind \in {1, 2}
  <2>1. Len(L) = 3 /\ L[1].kind = "profile" /\ L[2].kind = "bytes" /\ L[3].kind = "bytes"
    <3>1. CASE kind = 1
      BY <3>1 DEF L, Layouts, public_key_layout, profile_id, bytes
    <3>2. CASE kind = 2
      BY <3>2 DEF L, Layouts, issuer_key_layout, profile_id, bytes
    <3> QED
      BY <1>10, <3>1, <3>2
  <2>2. /\ p(1) = <<wire_id(fs[1])>> /\ p(2) = put_bytes(fs[2]) /\ p(3) = put_bytes(fs[3])
        /\ p(4) = <<>> /\ p(5) = <<>> /\ p(6) = <<>> /\ p(7) = <<>>
    BY <1>1, <2>1 DEF Part
  <2>3. w = h \o p(1) \o p(2) \o p(3)
    BY <1>4, <1>5, <1>7, <2>2
  <2>4. w = h \o <<wire_id(fs[1])>> \o put_bytes(fs[2]) \o put_bytes(fs[3])
    BY <2>2, <2>3, Zenon
  <2>5. kind \notin {3, 4, 5, 6, 7}
    BY <1>10
  <2> QED
    BY <1>9, <2>4, <2>5 DEF w, h, L
<1>11. CASE kind = 3
  <2>1. /\ Len(L) = 2 /\ L[1].kind = "nibbles" /\ L[2].kind = "bytes"
    BY <1>11 DEF L, Layouts, issue_request_layout, nibbles, bytes
  <2>2. /\ p(1) = pack_nibbles(fs[1]) /\ p(2) = put_bytes(fs[2]) /\ p(3) = <<>>
        /\ p(4) = <<>> /\ p(5) = <<>> /\ p(6) = <<>> /\ p(7) = <<>>
    BY <1>1, <2>1 DEF Part
  <2>3. w = h \o p(1) \o p(2)
    BY <1>4, <1>5, <1>6, <2>2
  <2>4. h = header(3)
    BY <1>11 DEF h
  <2>5. w = header(3) \o pack_nibbles(fs[1]) \o put_bytes(fs[2])
    BY <2>2, <2>3, <2>4, Zenon
  <2>6. kind \notin {1, 2, 4, 5, 6, 7}
    BY <1>11
  <2> QED
    BY <1>9, <2>5, <2>6 DEF w, h, L
<1>12. CASE kind = 4
  <2>1. /\ Len(L) = 2 /\ L[1].kind = "nibbles" /\ L[2].kind = "array"
    BY <1>12 DEF L, Layouts, issue_response_layout, nibbles, array
  <2>2. /\ p(1) = pack_nibbles(fs[1]) /\ p(2) = fs[2] /\ p(3) = <<>> /\ p(4) = <<>>
        /\ p(5) = <<>> /\ p(6) = <<>> /\ p(7) = <<>>
    BY <1>1, <2>1 DEF Part
  <2>3. w = h \o p(1) \o p(2)
    BY <1>4, <1>5, <1>6, <2>2
  <2>4. h = header(4)
    BY <1>12 DEF h
  <2>5. w = header(4) \o pack_nibbles(fs[1]) \o fs[2]
    BY <2>2, <2>3, <2>4, Zenon
  <2>6. kind \notin {1, 2, 3, 5, 6, 7}
    BY <1>12
  <2> QED
    BY <1>9, <2>5, <2>6 DEF w, h, L
<1>13. CASE kind = 5
  <2>1. /\ Len(L) = 4 /\ L[1].kind = "array" /\ L[2].kind = "array"
        /\ L[3].kind = "array" /\ L[4].kind = "array"
    BY <1>13 DEF L, Layouts, pending_issue_layout, array
  <2>2. /\ p(1) = fs[1] /\ p(2) = fs[2] /\ p(3) = fs[3] /\ p(4) = fs[4]
        /\ p(5) = <<>> /\ p(6) = <<>> /\ p(7) = <<>>
    BY <1>1, <2>1 DEF Part
  <2>3. w = h \o p(1) \o p(2) \o p(3) \o p(4)
    BY <1>4, <1>5, <1>8, <2>2
  <2>4. h = header(5)
    BY <1>13 DEF h
  <2>5. w = header(5) \o fs[1] \o fs[2] \o fs[3] \o fs[4]
    BY <2>2, <2>3, <2>4, Zenon
  <2>6. kind \notin {1, 2, 3, 4, 6, 7}
    BY <1>13
  <2> QED
    BY <1>9, <2>5, <2>6 DEF w, h, L
<1>14. CASE kind = 6
  <2>1. /\ Len(L) = 7 /\ L[1].kind = "array" /\ L[2].kind = "array"
        /\ L[3].kind = "nibbles" /\ L[4].kind = "array" /\ L[5].kind = "array"
        /\ L[6].kind = "array" /\ L[7].kind = "count"
    BY <1>14 DEF L, Layouts, credential_layout, array, nibbles, context_count
  <2>2. /\ p(1) = fs[1] /\ p(2) = fs[2] /\ p(3) = pack_nibbles(fs[3])
        /\ p(4) = fs[4] /\ p(5) = fs[5] /\ p(6) = fs[6] /\ p(7) = to_le_bytes(fs[7])
    BY <1>1, <2>1 DEF Part
  <2>3. w = h \o p(1) \o p(2) \o p(3) \o p(4) \o p(5) \o p(6) \o p(7)
    BY <1>4
  <2>4. h = header(6)
    BY <1>14 DEF h
  <2>5. w = header(6) \o fs[1] \o fs[2] \o pack_nibbles(fs[3]) \o fs[4] \o fs[5] \o fs[6] \o to_le_bytes(fs[7])
    BY <2>2, <2>3, <2>4, Zenon
  <2>6. kind \notin {1, 2, 3, 4, 5, 7}
    BY <1>14
  <2> QED
    BY <1>9, <2>5, <2>6 DEF w, h, L
<1>15. CASE kind = 7
  <2>1. /\ Len(L) = 2 /\ L[1].kind = "array" /\ L[2].kind = "bytes"
    BY <1>15 DEF L, Layouts, presentation_layout, array, bytes
  <2>2. /\ p(1) = fs[1] /\ p(2) = put_bytes(fs[2]) /\ p(3) = <<>> /\ p(4) = <<>>
        /\ p(5) = <<>> /\ p(6) = <<>> /\ p(7) = <<>>
    BY <1>1, <2>1 DEF Part
  <2>3. w = h \o p(1) \o p(2)
    BY <1>4, <1>5, <1>6, <2>2
  <2>4. h = header(7)
    BY <1>15 DEF h
  <2>5. w = header(7) \o fs[1] \o put_bytes(fs[2])
    BY <2>2, <2>3, <2>4, Zenon
  <2>6. kind \notin {1, 2, 3, 4, 5, 6}
    BY <1>15
  <2> QED
    BY <1>9, <2>5, <2>6 DEF w, h, L
<1>16. kind \in {1, 2} \/ kind = 3 \/ kind = 4 \/ kind = 5 \/ kind = 6 \/ kind = 7
  BY DEF Artifacts
<1> QED
  BY <1>10, <1>11, <1>12, <1>13, <1>14, <1>15, <1>16, Zenon

\* What the fields fs are end to end, for each artifact.
WrittenAs(kind, fs, w) ==
  /\ kind = 1 => w = header(1) \o <<wire_id(fs[1])>> \o put_bytes(fs[2]) \o put_bytes(fs[3])
  /\ kind = 2 => w = header(2) \o <<wire_id(fs[1])>> \o put_bytes(fs[2]) \o put_bytes(fs[3])
  /\ kind = 3 => w = header(3) \o pack_nibbles(fs[1]) \o put_bytes(fs[2])
  /\ kind = 4 => w = header(4) \o pack_nibbles(fs[1]) \o fs[2]
  /\ kind = 5 => w = header(5) \o fs[1] \o fs[2] \o fs[3] \o fs[4]
  /\ kind = 6 => w = header(6) \o fs[1] \o fs[2] \o pack_nibbles(fs[3]) \o fs[4]
                       \o fs[5] \o fs[6] \o to_le_bytes(fs[7])
  /\ kind = 7 => w = header(7) \o fs[1] \o put_bytes(fs[2])

\* The fields of a complete value, end to end, are what its to_bytes writes.
LEMMA WrittenIsToBytes ==
  ASSUME WireIInv, result = "Ok"
  PROVE  Written(header(artifact), Layout, fields) \o records_bytes(counters)
           = to_bytes(artifact, Decoded)
<1> DEFINE w == Written(header(artifact), Layout, fields)
           d == Decoded
<1>1. artifact \in Artifacts /\ FieldsRead /\ CountersRead /\ Complete
  BY DEF WireIInv, Accepted
<1>2. /\ Listed(fields) /\ Len(fields) = Len(Layouts[artifact])
      /\ \A i \in 1..Len(fields) : Part(Layouts[artifact][i], fields[i]) \in Seq(Byte)
  BY <1>1 DEF FieldsRead, Complete, Layout
<1>3. w = Written(header(artifact), Layouts[artifact], fields)
  BY DEF Layout
<1>4. w \in Seq(Byte)
  BY <1>1, <1>2, <1>3, WrittenFields
<1>5. artifact # 6 => w \o records_bytes(counters) = w
  <2>1. artifact # 6 => counters = <<>>
    BY <1>1, EmptySeq DEF CountersRead, Counted
  <2> HIDE DEF w
  <2> QED
    BY <1>4, <2>1, NoRecords, ConcatEmptySeq
<1> SUFFICES w \o records_bytes(counters) = to_bytes(artifact, d)
  OBVIOUS
<1> HIDE DEF w, d
<1>6. CASE artifact = 1
  <2>1. w = header(1) \o <<wire_id(fields[1])>> \o put_bytes(fields[2]) \o put_bytes(fields[3])
    BY <1>6, <1>1, <1>2, <1>3, WrittenFields
  <2>2. d = key_value(fields)
    BY <1>6 DEF d, Decoded
  <2>3. to_bytes(artifact, d) = public_key_bytes(key_value(fields))
    BY <1>6, <2>2 DEF to_bytes
  <2>4. public_key_bytes(key_value(fields)) = header(1) \o <<wire_id(fields[1])>> \o put_bytes(fields[2]) \o put_bytes(fields[3])
    BY DEF public_key_bytes, key_value
  <2>5. artifact # 6
    BY <1>6
  <2> QED
    BY <1>5, <2>1, <2>3, <2>4, <2>5, Zenon
<1>7. CASE artifact = 2
  <2>1. w = header(2) \o <<wire_id(fields[1])>> \o put_bytes(fields[2]) \o put_bytes(fields[3])
    BY <1>7, <1>1, <1>2, <1>3, WrittenFields
  <2>2. d = key_value(fields)
    BY <1>7 DEF d, Decoded
  <2>3. to_bytes(artifact, d) = issuer_key_bytes(key_value(fields))
    BY <1>7, <2>2 DEF to_bytes
  <2>4. issuer_key_bytes(key_value(fields)) = header(2) \o <<wire_id(fields[1])>> \o put_bytes(fields[2]) \o put_bytes(fields[3])
    BY DEF issuer_key_bytes, key_value
  <2>5. artifact # 6
    BY <1>7
  <2> QED
    BY <1>5, <2>1, <2>3, <2>4, <2>5, Zenon
<1>8. CASE artifact = 3
  <2>1. w = header(3) \o pack_nibbles(fields[1]) \o put_bytes(fields[2])
    BY <1>8, <1>1, <1>2, <1>3, WrittenFields
  <2>2. d = request_value(fields)
    BY <1>8 DEF d, Decoded
  <2>3. to_bytes(artifact, d) = issue_request_bytes(request_value(fields))
    BY <1>8, <2>2 DEF to_bytes
  <2>4. issue_request_bytes(request_value(fields)) = header(3) \o pack_nibbles(fields[1]) \o put_bytes(fields[2])
    BY DEF issue_request_bytes, request_value
  <2>5. artifact # 6
    BY <1>8
  <2> QED
    BY <1>5, <2>1, <2>3, <2>4, <2>5, Zenon
<1>9. CASE artifact = 4
  <2>1. w = header(4) \o pack_nibbles(fields[1]) \o fields[2]
    BY <1>9, <1>1, <1>2, <1>3, WrittenFields
  <2>2. d = response_value(fields)
    BY <1>9 DEF d, Decoded
  <2>3. to_bytes(artifact, d) = issue_response_bytes(response_value(fields))
    BY <1>9, <2>2 DEF to_bytes
  <2>4. issue_response_bytes(response_value(fields)) = header(4) \o pack_nibbles(fields[1]) \o fields[2]
    BY DEF issue_response_bytes, response_value
  <2>5. artifact # 6
    BY <1>9
  <2> QED
    BY <1>5, <2>1, <2>3, <2>4, <2>5, Zenon
<1>10. CASE artifact = 5
  <2>1. w = header(5) \o fields[1] \o fields[2] \o fields[3] \o fields[4]
    BY <1>10, <1>1, <1>2, <1>3, WrittenFields
  <2>2. d = pending_value(fields)
    BY <1>10 DEF d, Decoded
  <2>3. to_bytes(artifact, d) = pending_issue_bytes(pending_value(fields))
    BY <1>10, <2>2 DEF to_bytes
  <2>4. pending_issue_bytes(pending_value(fields)) = header(5) \o fields[1] \o fields[2] \o fields[3] \o fields[4]
    BY DEF pending_issue_bytes, pending_value
  <2>5. artifact # 6
    BY <1>10
  <2> QED
    BY <1>5, <2>1, <2>3, <2>4, <2>5, Zenon
<1>11. CASE artifact = 6
  <2>1. w = header(6) \o fields[1] \o fields[2] \o pack_nibbles(fields[3]) \o fields[4]
                \o fields[5] \o fields[6] \o to_le_bytes(fields[7])
    BY <1>11, <1>1, <1>2, <1>3, WrittenFields
  <2>2. fields[7] = Len(counters)
    BY <1>1, <1>11 DEF WireIInv, Accepted, Counted
  <2>3. d = credential_value(fields, counters)
    BY <1>11 DEF d, Decoded
  <2>4. to_bytes(artifact, d) = credential_bytes(credential_value(fields, counters))
    BY <1>11, <2>3 DEF to_bytes
  <2>5. credential_bytes(credential_value(fields, counters)) =
          header(6) \o fields[1] \o fields[2] \o pack_nibbles(fields[3]) \o fields[4]
            \o fields[5] \o fields[6] \o to_le_bytes(Len(counters)) \o records_bytes(counters)
    BY DEF credential_bytes, credential_value
  <2> QED
    BY <2>1, <2>2, <2>4, <2>5, Zenon
<1>12. CASE artifact = 7
  <2>1. w = header(7) \o fields[1] \o put_bytes(fields[2])
    BY <1>12, <1>1, <1>2, <1>3, WrittenFields
  <2>2. d = presentation_value(fields)
    BY <1>12 DEF d, Decoded
  <2>3. to_bytes(artifact, d) = presentation_bytes(presentation_value(fields))
    BY <1>12, <2>2 DEF to_bytes
  <2>4. presentation_bytes(presentation_value(fields)) = header(7) \o fields[1] \o put_bytes(fields[2])
    BY DEF presentation_bytes, presentation_value
  <2>5. artifact # 6
    BY <1>12
  <2> QED
    BY <1>5, <2>1, <2>3, <2>4, <2>5, Zenon
<1> QED
  BY <1>1, <1>6, <1>7, <1>8, <1>9, <1>10, <1>11, <1>12 DEF Artifacts

\* ONE ENCODING.  Whatever from_bytes accepts, of any artifact and any length, is
\* byte for byte what to_bytes writes for the value it returns.
THEOREM WireCanonical == WireSpec => []Canonical
<1>1. WireIInv => Canonical
  <2> SUFFICES ASSUME WireIInv, result = "Ok" PROVE input = to_bytes(artifact, Decoded)
    BY DEF Canonical
  <2>1. offset = Len(input) /\ input \in Seq(Byte)
    BY DEF WireIInv, Accepted, AtEnd
  <2>2. SubSeq(input, 1, offset) = input
    BY <2>1, SubSeqFull
  <2>3. SubSeq(input, 1, offset)
          = Written(header(artifact), Layout, fields) \o records_bytes(counters)
    BY DEF WireIInv, Consumed
  <2> QED
    BY <2>2, <2>3, WrittenIsToBytes
<1> QED
  BY <1>1, WireSpecIInv, PTL

-----------------------------------------------------------------------------
(* What the program wrote is read back.                                    *)

\* What the program holds where the layout has the field f.
HeldField(f, x) ==
  /\ f.kind \in Kinds
  /\ f.kind = "profile" => x \in {"Compact", "Balanced", "LowLatency"}
  /\ f.kind = "array" => x \in Arrays(f.size)
  /\ f.kind = "nibbles" => x \in Nibbles(f.size)
  /\ f.kind = "bytes" => x \in Contents(f.content)
  /\ f.kind = "count" => x \in U32 /\ x <= MAX_PRESENTATION_CONTEXTS

\* The fields of what the program holds are those of the layout.
LEMMA HeldFields ==
  ASSUME NEW kind \in Artifacts, NEW v \in Held(kind)
  PROVE  /\ Listed(FieldsOf(kind, v))
         /\ Len(FieldsOf(kind, v)) = Len(Layouts[kind])
         /\ \A i \in 1..Len(FieldsOf(kind, v)) : HeldField(Layouts[kind][i], FieldsOf(kind, v)[i])
<1> DEFINE F == FieldsOf(kind, v)
           L == Layouts[kind]
<1>1. CASE kind = 1
  <2>1. F = <<v.profile, v.application_context, v.mayo>>
    BY <1>1 DEF FieldsOf
  <2>2. L = public_key_layout
    BY <1>1 DEF Layouts
  <2> USE DEF public_key_layout, profile_id, bytes
  <2>3. v \in Held(1)
    BY <1>1
  <2>4. /\ HeldField(profile_id, v.profile)
        /\ HeldField(bytes("application_context"), v.application_context)
        /\ HeldField(bytes("mayo"), v.mayo)
    BY <2>3, SizesAssumption DEF Held, HeldField, Kinds, KeysHeld
  <2>5. Len(F) = 3 /\ Len(L) = 3 /\ Listed(F)
    BY <2>1, <2>2 DEF Listed
  <2>6. \A i \in 1..3 : HeldField(L[i], F[i])
    BY <2>1, <2>2, <2>4
  <2> QED
    BY <2>5, <2>6
<1>2. CASE kind = 2
  <2>1. F = <<v.profile, v.application_context, v.mayo>>
    BY <1>2 DEF FieldsOf
  <2>2. L = issuer_key_layout
    BY <1>2 DEF Layouts
  <2> USE DEF issuer_key_layout, profile_id, bytes
  <2>3. v \in Held(2)
    BY <1>2
  <2>4. /\ HeldField(profile_id, v.profile)
        /\ HeldField(bytes("application_context"), v.application_context)
        /\ HeldField(bytes("mayo"), v.mayo)
    BY <2>3, SizesAssumption DEF Held, HeldField, Kinds, KeysHeld
  <2>5. Len(F) = 3 /\ Len(L) = 3 /\ Listed(F)
    BY <2>1, <2>2 DEF Listed
  <2>6. \A i \in 1..3 : HeldField(L[i], F[i])
    BY <2>1, <2>2, <2>4
  <2> QED
    BY <2>5, <2>6
<1>3. CASE kind = 3
  <2>1. F = <<v.commitment, v.proof>>
    BY <1>3 DEF FieldsOf
  <2>2. L = issue_request_layout
    BY <1>3 DEF Layouts
  <2> USE DEF issue_request_layout, nibbles, bytes
  <2>3. v \in Held(3)
    BY <1>3
  <2>4. /\ HeldField(nibbles(M), v.commitment) /\ HeldField(bytes("proof"), v.proof)
    BY <2>3, SizesAssumption DEF Held, HeldField, Kinds
  <2>5. Len(F) = 2 /\ Len(L) = 2 /\ Listed(F)
    BY <2>1, <2>2 DEF Listed
  <2>6. \A i \in 1..2 : HeldField(L[i], F[i])
    BY <2>1, <2>2, <2>4
  <2> QED
    BY <2>5, <2>6
<1>4. CASE kind = 4
  <2>1. F = <<v.signature, v.salt>>
    BY <1>4 DEF FieldsOf
  <2>2. L = issue_response_layout
    BY <1>4 DEF Layouts
  <2> USE DEF issue_response_layout, nibbles, array
  <2>3. v \in Held(4)
    BY <1>4
  <2>4. /\ HeldField(nibbles(KN), v.signature)
        /\ HeldField(array(SALT_BYTES), v.salt)
    BY <2>3, SizesAssumption DEF Held, HeldField, Kinds
  <2>5. Len(F) = 2 /\ Len(L) = 2 /\ Listed(F)
    BY <2>1, <2>2 DEF Listed
  <2>6. \A i \in 1..2 : HeldField(L[i], F[i])
    BY <2>1, <2>2, <2>4
  <2> QED
    BY <2>5, <2>6
<1>5. CASE kind = 5
  <2>1. F = <<v.issuer_context, v.credential_context, v.secret, v.hiding_nonce>>
    BY <1>5 DEF FieldsOf
  <2>2. L = pending_issue_layout
    BY <1>5 DEF Layouts
  <2> USE DEF pending_issue_layout, array
  <2>3. v \in Held(5)
    BY <1>5
  <2>4. /\ HeldField(array(HASH_BYTES), v.issuer_context)
        /\ HeldField(array(HASH_BYTES), v.credential_context)
        /\ HeldField(array(HASH_BYTES), v.secret)
        /\ HeldField(array(HASH_BYTES), v.hiding_nonce)
    BY <2>3, SizesAssumption DEF Held, HeldField, Kinds
  <2>5. Len(F) = 4 /\ Len(L) = 4 /\ Listed(F)
    BY <2>1, <2>2 DEF Listed
  <2>6. \A i \in 1..4 : HeldField(L[i], F[i])
    BY <2>1, <2>2, <2>4
  <2> QED
    BY <2>5, <2>6
<1>6. CASE kind = 6
  <2>1. F = <<v.issuer_context, v.credential_context, v.signature, v.secret, v.hiding_nonce, v.salt, Len(v.next_nonces)>>
    BY <1>6 DEF FieldsOf
  <2>2. L = credential_layout
    BY <1>6 DEF Layouts
  <2> USE DEF credential_layout, array, nibbles, context_count
  <2>3. v \in Held(6)
    BY <1>6
  <2>4. /\ HeldField(array(HASH_BYTES), v.issuer_context)
        /\ HeldField(array(HASH_BYTES), v.credential_context)
        /\ HeldField(nibbles(KN), v.signature)
        /\ HeldField(array(HASH_BYTES), v.secret)
        /\ HeldField(array(HASH_BYTES), v.hiding_nonce)
        /\ HeldField(array(SALT_BYTES), v.salt)
        /\ HeldField(context_count, Len(v.next_nonces))
    BY <2>3, SizesAssumption DEF Held, HeldField, Kinds, NoncesHeld
  <2>5. Len(F) = 7 /\ Len(L) = 7 /\ Listed(F)
    BY <2>1, <2>2 DEF Listed
  <2>6. \A i \in 1..7 : HeldField(L[i], F[i])
    BY <2>1, <2>2, <2>4
  <2> QED
    BY <2>5, <2>6
<1>7. CASE kind = 7
  <2>1. F = <<v.tag, v.proof>>
    BY <1>7 DEF FieldsOf
  <2>2. L = presentation_layout
    BY <1>7 DEF Layouts
  <2> USE DEF presentation_layout, array, bytes
  <2>3. v \in Held(7)
    BY <1>7
  <2>4. /\ HeldField(array(HASH_BYTES), v.tag) /\ HeldField(bytes("proof"), v.proof)
    BY <2>3, SizesAssumption DEF Held, HeldField, Kinds
  <2>5. Len(F) = 2 /\ Len(L) = 2 /\ Listed(F)
    BY <2>1, <2>2 DEF Listed
  <2>6. \A i \in 1..2 : HeldField(L[i], F[i])
    BY <2>1, <2>2, <2>4
  <2> QED
    BY <2>5, <2>6
<1> QED
  BY <1>1, <1>2, <1>3, <1>4, <1>5, <1>6, <1>7 DEF Artifacts

\* What is written for a field is bytes: so many for an array, two nibbles to a
\* byte, four for a number, and as many more as a content has.
LEMMA HeldPart ==
  ASSUME NEW f, NEW x, HeldField(f, x)
  PROVE  Part(f, x) \in Seq(Byte)
<1>1. CASE f.kind = "profile"
  <2>1. wire_id(x) \in Byte
    BY <1>1, ProfileForth DEF HeldField, Byte
  <2> QED
    BY <1>1, <2>1 DEF Part
<1>2. CASE f.kind = "array"
  BY <1>2 DEF HeldField, Part, Arrays
<1>3. CASE f.kind = "nibbles"
  <2>1. f.size \in Nat
    BY <1>3, LenProperties DEF HeldField, Nibbles
  <2> QED
    BY <1>3, <2>1, PackedForth DEF HeldField, Part
<1>4. CASE f.kind = "bytes"
  <2>1. x \in Seq(Byte) /\ Len(x) \in U32
    BY <1>4 DEF HeldField, Contents
  <2> QED
    BY <1>4, <2>1, LengthForth, ConcatProperties DEF Part, put_bytes
<1>5. CASE f.kind = "count"
  BY <1>5, LengthForth DEF HeldField, Part
<1> QED
  BY <1>1, <1>2, <1>3, <1>4, <1>5 DEF HeldField, Kinds

\* What to_bytes writes is the fields end to end, and the counters.
LEMMA HeldWritten ==
  ASSUME NEW kind \in Artifacts, NEW v \in Held(kind)
  PROVE  /\ \A i \in 1..Len(FieldsOf(kind, v)) :
              Part(Layouts[kind][i], FieldsOf(kind, v)[i]) \in Seq(Byte)
         /\ Written(header(kind), Layouts[kind], FieldsOf(kind, v)) \in Seq(Byte)
         /\ to_bytes(kind, v) = Written(header(kind), Layouts[kind], FieldsOf(kind, v))
                                  \o records_bytes(NoncesOf(kind, v))
<1> DEFINE F == FieldsOf(kind, v)
           w == Written(header(kind), Layouts[kind], F)
<1>1. \A i \in 1..Len(F) : Part(Layouts[kind][i], F[i]) \in Seq(Byte)
  BY HeldFields, HeldPart
<1>2. Listed(F) /\ Len(F) = Len(Layouts[kind])
  BY HeldFields
<1>3. w \in Seq(Byte) /\ WrittenAs(kind, F, w)
  BY <1>1, <1>2, WrittenFields DEF WrittenAs
<1>4. kind # 6 => w \o records_bytes(NoncesOf(kind, v)) = w
  <2> HIDE DEF w
  <2> QED
    BY <1>3, NoRecords, ConcatEmptySeq DEF NoncesOf
<1> SUFFICES to_bytes(kind, v) = w \o records_bytes(NoncesOf(kind, v))
  BY <1>1, <1>3
<1> HIDE DEF w
<1>5. CASE kind = 1
  <2>1. F = <<v.profile, v.application_context, v.mayo>>
    BY <1>5 DEF FieldsOf
  <2>2. /\ F[1] = v.profile /\ F[2] = v.application_context /\ F[3] = v.mayo
    BY <2>1
  <2> HIDE DEF F
  <2>3. w = header(1) \o <<wire_id(v.profile)>> \o put_bytes(v.application_context)
                \o put_bytes(v.mayo)
    BY <1>5, <1>3, <2>2 DEF WrittenAs
  <2>4. to_bytes(kind, v) = public_key_bytes(v)
    BY <1>5 DEF to_bytes
  <2>5. kind # 6
    BY <1>5
  <2> QED
    BY <1>4, <2>3, <2>4, <2>5, Zenon DEF public_key_bytes
<1>6. CASE kind = 2
  <2>1. F = <<v.profile, v.application_context, v.mayo>>
    BY <1>6 DEF FieldsOf
  <2>2. /\ F[1] = v.profile /\ F[2] = v.application_context /\ F[3] = v.mayo
    BY <2>1
  <2> HIDE DEF F
  <2>3. w = header(2) \o <<wire_id(v.profile)>> \o put_bytes(v.application_context)
                \o put_bytes(v.mayo)
    BY <1>6, <1>3, <2>2 DEF WrittenAs
  <2>4. to_bytes(kind, v) = issuer_key_bytes(v)
    BY <1>6 DEF to_bytes
  <2>5. kind # 6
    BY <1>6
  <2> QED
    BY <1>4, <2>3, <2>4, <2>5, Zenon DEF issuer_key_bytes
<1>7. CASE kind = 3
  <2>1. F = <<v.commitment, v.proof>>
    BY <1>7 DEF FieldsOf
  <2>2. /\ F[1] = v.commitment /\ F[2] = v.proof
    BY <2>1
  <2> HIDE DEF F
  <2>3. w = header(3) \o pack_nibbles(v.commitment) \o put_bytes(v.proof)
    BY <1>7, <1>3, <2>2 DEF WrittenAs
  <2>4. to_bytes(kind, v) = issue_request_bytes(v)
    BY <1>7 DEF to_bytes
  <2>5. kind # 6
    BY <1>7
  <2> QED
    BY <1>4, <2>3, <2>4, <2>5, Zenon DEF issue_request_bytes
<1>8. CASE kind = 4
  <2>1. F = <<v.signature, v.salt>>
    BY <1>8 DEF FieldsOf
  <2>2. /\ F[1] = v.signature /\ F[2] = v.salt
    BY <2>1
  <2> HIDE DEF F
  <2>3. w = header(4) \o pack_nibbles(v.signature) \o v.salt
    BY <1>8, <1>3, <2>2 DEF WrittenAs
  <2>4. to_bytes(kind, v) = issue_response_bytes(v)
    BY <1>8 DEF to_bytes
  <2>5. kind # 6
    BY <1>8
  <2> QED
    BY <1>4, <2>3, <2>4, <2>5, Zenon DEF issue_response_bytes
<1>9. CASE kind = 5
  <2>1. F = <<v.issuer_context, v.credential_context, v.secret, v.hiding_nonce>>
    BY <1>9 DEF FieldsOf
  <2>2. /\ F[1] = v.issuer_context /\ F[2] = v.credential_context /\ F[3] = v.secret
        /\ F[4] = v.hiding_nonce
    BY <2>1
  <2> HIDE DEF F
  <2>3. w = header(5) \o v.issuer_context \o v.credential_context \o v.secret
                \o v.hiding_nonce
    <3>1. w = header(5) \o F[1] \o F[2] \o F[3] \o F[4]
      BY <1>9, <1>3 DEF WrittenAs
    <3> QED
      BY <2>2, <3>1, Zenon
  <2>4. to_bytes(kind, v) = pending_issue_bytes(v)
    BY <1>9 DEF to_bytes
  <2>5. kind # 6
    BY <1>9
  <2> QED
    BY <1>4, <2>3, <2>4, <2>5, Zenon DEF pending_issue_bytes
<1>10. CASE kind = 6
  <2>1. F = <<v.issuer_context, v.credential_context, v.signature, v.secret, v.hiding_nonce, v.salt, Len(v.next_nonces)>>
    BY <1>10 DEF FieldsOf
  <2>2. /\ F[1] = v.issuer_context /\ F[2] = v.credential_context
        /\ F[3] = v.signature /\ F[4] = v.secret /\ F[5] = v.hiding_nonce
        /\ F[6] = v.salt /\ F[7] = Len(v.next_nonces)
    BY <2>1
  <2> HIDE DEF F
  <2>3. w = header(6) \o v.issuer_context \o v.credential_context
                \o pack_nibbles(v.signature) \o v.secret \o v.hiding_nonce \o v.salt
                \o to_le_bytes(Len(v.next_nonces))
    <3>1. w = header(6) \o F[1] \o F[2] \o pack_nibbles(F[3]) \o F[4] \o F[5] \o F[6]
                \o to_le_bytes(F[7])
      BY <1>10, <1>3 DEF WrittenAs
    <3> QED
      BY <2>2, <3>1, Zenon
  <2>4. to_bytes(kind, v) = credential_bytes(v)
    BY <1>10 DEF to_bytes
  <2>5. NoncesOf(kind, v) = v.next_nonces
    BY <1>10 DEF NoncesOf
  <2> QED
    BY <2>3, <2>4, <2>5, Zenon DEF credential_bytes
<1>11. CASE kind = 7
  <2>1. F = <<v.tag, v.proof>>
    BY <1>11 DEF FieldsOf
  <2>2. /\ F[1] = v.tag /\ F[2] = v.proof
    BY <2>1
  <2> HIDE DEF F
  <2>3. w = header(7) \o v.tag \o put_bytes(v.proof)
    BY <1>11, <1>3, <2>2 DEF WrittenAs
  <2>4. to_bytes(kind, v) = presentation_bytes(v)
    BY <1>11 DEF to_bytes
  <2>5. kind # 6
    BY <1>11
  <2> QED
    BY <1>4, <2>3, <2>4, <2>5, Zenon DEF presentation_bytes
<1> QED
  BY <1>5, <1>6, <1>7, <1>8, <1>9, <1>10, <1>11 DEF Artifacts

\* The counters of what the program holds are written as records.
LEMMA HeldNonces ==
  ASSUME NEW kind \in Artifacts, NEW v \in Held(kind)
  PROVE  /\ NoncesOf(kind, v) \in Seq(Counter)
         /\ \A k \in 1..Len(NoncesOf(kind, v)) :
              LET c == NoncesOf(kind, v)[k] IN
                /\ Recorded(c)
                /\ c.context \in Seq(Byte) /\ Len(c.context) = HASH_BYTES
                /\ c.next_nonce \in U32 \ {0}
         /\ \A j, k \in 1..Len(NoncesOf(kind, v)) :
              j < k => Precedes(NoncesOf(kind, v)[j].context, NoncesOf(kind, v)[k].context)
         /\ records_bytes(NoncesOf(kind, v)) \in Seq(Byte)
<1>1. CASE kind = 6
  <2> DEFINE list == NoncesOf(kind, v)
  <2>1. list = v.next_nonces
    BY <1>1 DEF NoncesOf
  <2>2. list \in NoncesHeld
    BY <1>1, <2>1 DEF Held
  <2>3. list \in Seq(Counter)
    BY <2>2 DEF NoncesHeld
  <2> HIDE DEF list
  <2>4. ASSUME NEW k \in 1..Len(list)
        PROVE  /\ Recorded(list[k])
               /\ list[k].context \in Seq(Byte) /\ Len(list[k].context) = HASH_BYTES
               /\ list[k].next_nonce \in U32 \ {0}
    <3> DEFINE context == list[k].context
               nonce == list[k].next_nonce
    <3>1. context \in Seq(Byte)
      <4>1. list[k] \in Counter
        BY <2>3, ElementOfSeq
      <4> QED
        BY <4>1 DEF Counter
    <3>2. Len(context) = HASH_BYTES /\ nonce \in U32 \ {0}
      BY <2>2 DEF NoncesHeld
    <3>3. record_bytes(list[k]) = context \o to_le_bytes(nonce)
      BY DEF record_bytes
    <3> HIDE DEF context, nonce
    <3>4. to_le_bytes(nonce) \in Seq(Byte) /\ Len(to_le_bytes(nonce)) = 4
      BY <3>2, LengthForth
    <3>5. Recorded(list[k])
      <4> DEFINE number == to_le_bytes(nonce)
      <4> HIDE DEF number
      <4>1. number \in Seq(Byte) /\ Len(number) = 4
        BY <3>4 DEF number
      <4>2. context \o number \in Seq(Byte) /\ Len(context \o number) = Len(context) + Len(number)
        BY <3>1, <4>1, ConcatProperties
      <4>3. record_bytes(list[k]) = context \o number
        BY <3>3 DEF number
      <4> QED
        BY <3>2, <4>1, <4>2, <4>3 DEF Recorded, RECORD_BYTES
    <3> QED
      BY <3>1, <3>2, <3>5 DEF context, nonce
  <2>5. \A j, k \in 1..Len(list) : j < k => Precedes(list[j].context, list[k].context)
    BY <2>2 DEF NoncesHeld
  <2>6. records_bytes(list) \in Seq(Byte)
    BY <2>3, <2>4, RecordsShape
  <2> QED
    BY <2>3, <2>4, <2>5, <2>6 DEF list
<1>2. CASE kind # 6
  <2> DEFINE list == NoncesOf(kind, v)
  <2>1. list = <<>>
    BY <1>2 DEF NoncesOf
  <2>2. list \in Seq(Counter) /\ Len(list) = 0
    BY <2>1, EmptySeq
  <2>3. records_bytes(list) \in Seq(Byte)
    BY <2>1, EmptySeq, NoRecords
  <2> HIDE DEF list
  <2>4. 1..Len(list) = {}
    BY <2>2
  <2> QED
    BY <2>2, <2>3, <2>4 DEF list
<1> QED
  BY <1>1, <1>2

\* A value of the program's is being decoded as what it is.
BeingReadBack(kind, v) ==
  /\ kind \in Artifacts /\ v \in Held(kind) /\ kind = artifact
  /\ input = to_bytes(kind, v)
  /\ WireIInv
  /\ ReadingBack(kind, v)

\* The next bytes, named by what they are.
LEMMA BytesAre ==
  ASSUME WireIInv, NEW from \in Nat, NEW s \in Seq(Byte), Left(from + Len(s)),
         \A i \in 1..Len(s) : input[offset + from + i] = s[i]
  PROVE  Bytes(from, Len(s)) = s
<1> DEFINE n == Len(s)
           b == Bytes(from, n)
<1>1. input \in Seq(Byte) /\ offset \in 0..Len(input) /\ n \in Nat
  BY LenProperties DEF WireIInv
<1>2. b \in Seq(Byte) /\ Len(b) = n
  BY <1>1, BytesRead
<1>3. \A i \in 1..n : b[i] = input[offset + from + i]
  <2>1. PICK a \in Nat : a = offset + from
    BY <1>1
  <2>2. a + n <= Len(input) /\ Len(input) \in Nat
    BY <1>1, <2>1, LenProperties DEF Left
  <2>3. \A i \in (a + 1)..(a + n) : input[i] \in Byte
    BY <1>1, <2>2, ElementOfSeq
  <2>4. \A i \in 1..n : SubSeq(input, a + 1, a + n)[i] = input[a + i]
    <3> HIDE DEF n
    <3>1. /\ Len(SubSeq(input, a + 1, a + n)) = IF a + 1 <= a + n THEN (a + n) - (a + 1) + 1 ELSE 0
          /\ \A i \in 1..((a + n) - (a + 1) + 1) :
               SubSeq(input, a + 1, a + n)[i] = input[(a + 1) + i - 1]
      BY <1>1, <2>3, SubSeqProperties
    <3>2. (a + n) - (a + 1) + 1 = n
      BY <1>1
    <3>3. \A i \in 1..n : (a + 1) + i - 1 = a + i
      BY <1>1
    <3> QED
      BY <3>1, <3>2, <3>3
  <2> QED
    BY <2>1, <2>4 DEF Bytes
<1> HIDE DEF b, n
<1>4. \A i \in 1..n : b[i] = s[i]
  BY <1>3 DEF n
<1> QED
  BY <1>2, <1>4, SeqEqual DEF b, n

\* The next bytes are those of the next field that was written.
LEMMA NextField ==
  ASSUME NEW kind, NEW v, BeingReadBack(kind, v), result = "reading",
         Len(fields) < Len(Layout)
  PROVE  LET x == FieldsOf(kind, v)[Len(fields) + 1]
             P == Part(Here, x)
         IN  /\ HeldField(Here, x)
             /\ P \in Seq(Byte)
             /\ Left(Len(P))
             /\ \A i \in 1..Len(P) : input[offset + i] = P[i]
<1> DEFINE F == FieldsOf(kind, v)
           h == header(kind)
           L == Layout
           n == Len(fields)
           x == F[n + 1]
           P == Part(Here, x)
           w == Written(h, L, fields)
<1>1. /\ kind \in Artifacts /\ v \in Held(kind) /\ kind = artifact /\ input = to_bytes(kind, v)
      /\ FieldsRead /\ input \in Seq(Byte) /\ offset \in 0..Len(input) /\ Consumed
      /\ \A i \in 1..n : fields[i] = F[i]
  BY DEF BeingReadBack, WireIInv, ReadingBack
<1>2. L = Layouts[kind]
  BY <1>1 DEF Layout
<1>3. Listed(F) /\ Len(F) = Len(L) /\ \A i \in 1..Len(F) : HeldField(L[i], F[i])
  BY <1>1, <1>2, HeldFields
<1>4. n \in Nat /\ n < Len(L) /\ Len(L) \in 1..7
  BY <1>1, LayoutFacts DEF FieldsRead, Listed
<1>5. n + 1 \in 1..Len(F) /\ n < 7
  <2> DEFINE m == Len(L)
  <2>1. n \in Nat /\ n < m /\ m \in 1..7 /\ Len(F) = m
    BY <1>3, <1>4
  <2> HIDE DEF n, m, F
  <2> QED
    BY <2>1
<1>6. Here = L[n + 1]
  BY DEF Here
<1>7. HeldField(Here, x) /\ P \in Seq(Byte)
  BY <1>3, <1>5, <1>6, HeldPart
<1>8. h \in Seq(Byte)
  BY <1>1, HeaderBytes
<1>9. Listed(fields) /\ \A i \in 1..n : Part(L[i], fields[i]) \in Seq(Byte)
  BY <1>1 DEF FieldsRead
<1> DEFINE gs == Append(fields, x)
<1>10. /\ Listed(gs) /\ Len(gs) = n + 1
       /\ \A i \in 1..n : gs[i] = fields[i]
       /\ gs[n + 1] = x
  BY <1>9, AppendListed
<1>11. w \in Seq(Byte) /\ Written(h, L, gs) = w \o P
  <2>1. P = Part(L[Len(fields) + 1], x)
    BY <1>6
  <2>2. Part(L[Len(fields) + 1], x) \in Seq(Byte)
    BY <1>7, <2>1
  <2>3. Len(fields) < 7
    BY <1>5
  <2>4. Listed(fields) /\ \A i \in 1..Len(fields) : Part(L[i], fields[i]) \in Seq(Byte)
    BY <1>9
  <2> HIDE DEF h, L, x
  <2>5. /\ Written(h, L, fields) \in Seq(Byte)
        /\ Written(h, L, Append(fields, x)) = Written(h, L, fields) \o Part(L[Len(fields) + 1], x)
    BY <1>8, <2>2, <2>3, <2>4, WrittenTake
  <2> QED
    BY <2>1, <2>5, Zenon
<1>12. /\ \A i \in 1..Len(F) : Part(L[i], F[i]) \in Seq(Byte)
       /\ Written(h, L, F) \in Seq(Byte)
       /\ input = Written(h, L, F) \o records_bytes(NoncesOf(kind, v))
  BY <1>1, <1>2, HeldWritten
<1>13. Begins(Written(h, L, F), input)
  <2>1. records_bytes(NoncesOf(kind, v)) \in Seq(Byte)
    BY <1>1, HeldNonces
  <2> QED
    BY <1>12, <2>1, BeginsConcat
<1>14. Begins(w \o P, Written(h, L, F))
  <2>1. \A i \in 1..Len(gs) : gs[i] = F[i]
    <3>1. \A i \in 1..(n + 1) : i \in 1..n \/ i = n + 1
      BY <1>4
    <3> HIDE DEF gs, F, x
    <3> QED
      BY <1>1, <1>10, <3>1 DEF x
  <2>2. Len(gs) <= Len(F)
    BY <1>5, <1>10
  <2> HIDE DEF h, L, gs, F, w, P
  <2>3. Begins(Written(h, L, gs), Written(h, L, F))
    BY <1>3, <1>8, <1>10, <1>12, <2>1, <2>2, WrittenBegins
  <2> QED
    BY <1>11, <2>3
<1>15. Len(w) = offset
  <2>1. counters = <<>>
    BY <1>4, CountersLast DEF BeingReadBack, Complete
  <2>2. SubSeq(input, 1, offset) = w \o <<>>
    BY <1>1, <2>1, NoRecords DEF Consumed
  <2>3. w \o <<>> = w
    BY <1>11, ConcatEmptySeq
  <2>4. Len(SubSeq(input, 1, offset)) = offset
    <3>1. offset \in Nat /\ offset <= Len(input) /\ Len(input) \in Nat
      BY <1>1, LenProperties
    <3>2. \A i \in 1..offset : input[i] \in Byte
      BY <1>1, <3>1, ElementOfSeq
    <3>3. Len(SubSeq(input, 1, offset)) = IF 1 <= offset THEN offset - 1 + 1 ELSE 0
      BY <3>1, <3>2, SubSeqProperties
    <3> QED
      BY <3>1, <3>3
  <2> QED
    BY <2>2, <2>3, <2>4
<1> HIDE DEF w, P, F, h, L, x
<1>16. Begins(w \o P, input)
  BY <1>13, <1>14, BeginsTransitive
<1>17. /\ Len(w) + Len(P) <= Len(input)
       /\ \A i \in 1..Len(P) : input[Len(w) + i] = P[i]
  <2>1. BeginsWith(w, P, input)
    BY <1>16, Zenon DEF BeginsWith
  <2> QED
    BY <1>7, <1>11, <2>1, BeginsBehind
<1> QED
  BY <1>7, <1>15, <1>17 DEF Left, P, x, F

\* A field taken is a field read back.
LEMMA TakenBack ==
  ASSUME NEW kind, NEW v, BeingReadBack(kind, v), result = "reading",
         NEW size, Take(FieldsOf(kind, v)[Len(fields) + 1], size)
  PROVE  ReadingBack(kind, v)'
<1> DEFINE F == FieldsOf(kind, v)
           n == Len(fields)
<1>1. /\ artifact' = artifact /\ counters' = counters /\ result' = result
      /\ fields' = Append(fields, F[n + 1])
  BY DEF Take
<1>2. /\ kind = artifact /\ Listed(fields) /\ n \in Nat
      /\ \A i \in 1..n : fields[i] = F[i]
      /\ \A k \in 1..Len(counters) : counters[k] = NoncesOf(kind, v)[k]
  BY DEF BeingReadBack, ReadingBack, WireIInv, FieldsRead, Listed
<1>3. Len(fields') = n + 1 /\ fields'[n + 1] = F[n + 1] /\ \A i \in 1..n : fields'[i] = fields[i]
  BY <1>1, <1>2, AppendListed
<1>4. \A i \in 1..Len(fields') : fields'[i] = F[i]
  <2>1. \A i \in 1..(n + 1) : i \in 1..n \/ i = n + 1
    BY <1>2
  <2> HIDE DEF F, n
  <2> QED
    BY <1>2, <1>3, <2>1
<1> QED
  BY <1>1, <1>2, <1>4 DEF ReadingBack, FieldsOf, NoncesOf

\* Nothing the program wrote is cut short.
LEMMA NotTruncated ==
  ASSUME NEW kind, NEW v, BeingReadBack(kind, v)
  PROVE  ~Truncated
<1> SUFFICES ASSUME result = "reading", Len(fields) < Len(Layout)
             PROVE  Left(IF Here.kind = "nibbles" THEN (Here.size + 1) \div 2 ELSE Here.size)
  BY DEF Truncated
<1> DEFINE x == FieldsOf(kind, v)[Len(fields) + 1]
           P == Part(Here, x)
<1>1. HeldField(Here, x) /\ P \in Seq(Byte) /\ Left(Len(P))
  BY NextField
<1>3. /\ Here.size \in Nat
      /\ Here.kind = "profile" => Here.size = 1
      /\ Here.kind \in {"bytes", "count"} => Here.size = 4
  BY HereFacts DEF BeingReadBack
<1>4. offset \in Nat /\ Len(input) \in Nat
  BY LenProperties DEF BeingReadBack, WireIInv
<1> HIDE DEF x
<1>5. CASE Here.kind = "profile"
  <2>1. Len(P) = 1
    BY <1>5 DEF Part
  <2> QED
    BY <1>1, <1>3, <1>5, <2>1
<1>6. CASE Here.kind = "array"
  BY <1>1, <1>6 DEF HeldField, Arrays, Part
<1>7. CASE Here.kind = "nibbles"
  <2>1. Len(pack_nibbles(x)) = (Here.size + 1) \div 2
    BY <1>1, <1>3, <1>7, PackedForth DEF HeldField
  <2>2. P = pack_nibbles(x)
    BY <1>7 DEF Part
  <2> QED
    BY <1>1, <1>7, <2>1, <2>2
<1>8. CASE Here.kind = "bytes"
  <2>1. x \in Seq(Byte) /\ Len(x) \in U32
    BY <1>1, <1>8 DEF HeldField, Contents
  <2> DEFINE l == to_le_bytes(Len(x))
  <2>2. l \in Seq(Byte) /\ Len(l) = 4
    BY <2>1, LengthForth
  <2>3. P = l \o x
    BY <1>8 DEF Part, put_bytes
  <2> HIDE DEF l, P
  <2>4. Len(l \o x) = Len(l) + Len(x)
    BY <2>1, <2>2, ConcatProperties
  <2>5. Len(P) = 4 + Len(x) /\ Len(x) \in Nat
    BY <2>1, <2>2, <2>3, <2>4, LenProperties
  <2>6. Left(4)
    BY <1>1, <1>4, <2>5 DEF Left
  <2> QED
    BY <1>3, <1>8, <2>6
<1>9. CASE Here.kind = "count"
  <2>1. Len(to_le_bytes(x)) = 4
    BY <1>1, <1>9, LengthForth DEF HeldField
  <2>2. P = to_le_bytes(x)
    BY <1>9 DEF Part
  <2> QED
    BY <1>1, <1>3, <1>9, <2>1, <2>2
<1> QED
  BY <1>1, <1>5, <1>6, <1>7, <1>8, <1>9 DEF HeldField, Kinds

\* An array is read back.
LEMMA ArrayBack ==
  ASSUME NEW kind, NEW v, BeingReadBack(kind, v), ReadArray
  PROVE  ReadingBack(kind, v)'
<1> DEFINE x == FieldsOf(kind, v)[Len(fields) + 1]
<1>1. /\ result = "reading" /\ Len(fields) < Len(Layout) /\ Here.kind = "array"
      /\ Take(Bytes(0, Here.size), Here.size)
  BY DEF ReadArray, Expects
<1>2. /\ HeldField(Here, x) /\ Part(Here, x) \in Seq(Byte) /\ Left(Len(Part(Here, x)))
      /\ \A i \in 1..Len(Part(Here, x)) : input[offset + i] = Part(Here, x)[i]
  BY <1>1, NextField
<1>3. Part(Here, x) = x /\ Len(x) = Here.size
  BY <1>1, <1>2 DEF HeldField, Arrays, Part
<1> HIDE DEF x
<1>4. Bytes(0, Here.size) = x
  <2>1. WireIInv /\ offset \in Nat
    BY DEF BeingReadBack, WireIInv
  <2>2. Left(0 + Len(x)) /\ \A i \in 1..Len(x) : input[offset + 0 + i] = x[i]
    BY <1>2, <1>3, <2>1, LenProperties
  <2> QED
    BY <1>2, <1>3, <2>1, <2>2, BytesAre
<1> QED
  BY <1>1, <1>4, TakenBack DEF x

\* A profile is read back.
LEMMA ProfileBack ==
  ASSUME NEW kind, NEW v, BeingReadBack(kind, v), ReadProfile
  PROVE  ReadingBack(kind, v)'
<1> DEFINE x == FieldsOf(kind, v)[Len(fields) + 1]
           id == input[offset + 1]
<1>1. /\ result = "reading" /\ Len(fields) < Len(Layout) /\ Here.kind = "profile"
      /\ IF id \in 1..3 THEN Take(from_wire_id(id), 1) ELSE Fail("InvalidEncoding")
  BY DEF ReadProfile, Expects
<1>2. /\ HeldField(Here, x)
      /\ \A i \in 1..Len(Part(Here, x)) : input[offset + i] = Part(Here, x)[i]
  BY <1>1, NextField
<1>3. Part(Here, x) = <<wire_id(x)>>
  BY <1>1 DEF Part
<1>4. x \in {"Compact", "Balanced", "LowLatency"}
  BY <1>1, <1>2 DEF HeldField
<1> HIDE DEF x
<1>5. id = wire_id(x)
  BY <1>2, <1>3
<1>6. id \in 1..3 /\ from_wire_id(id) = x
  BY <1>4, <1>5, ProfileForth
<1> QED
  BY <1>1, <1>6, TakenBack DEF x

\* Nibbles are read back.
LEMMA NibblesBack ==
  ASSUME NEW kind, NEW v, BeingReadBack(kind, v), ReadNibbles
  PROVE  ReadingBack(kind, v)'
<1> DEFINE x == FieldsOf(kind, v)[Len(fields) + 1]
           size == (Here.size + 1) \div 2
           packed == Bytes(0, size)
           P == pack_nibbles(x)
<1>1. /\ result = "reading" /\ Len(fields) < Len(Layout) /\ Here.kind = "nibbles"
      /\ IF OddHalfEmpty(packed, Here.size) THEN Take(unpack(packed, Here.size), size)
         ELSE Fail("InvalidEncoding")
  BY DEF ReadNibbles, Expects
<1>2. /\ HeldField(Here, x) /\ Part(Here, x) \in Seq(Byte) /\ Left(Len(Part(Here, x)))
      /\ \A i \in 1..Len(Part(Here, x)) : input[offset + i] = Part(Here, x)[i]
  BY <1>1, NextField
<1>3. Part(Here, x) = P
  BY <1>1 DEF Part
<1>4. Here.size \in Nat /\ x \in Nibbles(Here.size)
  BY <1>1, <1>2, HereFacts DEF BeingReadBack, HeldField
<1> HIDE DEF x
<1>5. /\ P \in Seq(Byte) /\ Len(P) = size
      /\ OddHalfEmpty(P, Here.size) /\ unpack(P, Here.size) = x
  BY <1>4, PackedForth
<1> HIDE DEF P, size
<1>6. packed = P
  <2>1. WireIInv /\ offset \in Nat
    BY DEF BeingReadBack, WireIInv
  <2>2. Left(0 + Len(P)) /\ \A i \in 1..Len(P) : input[offset + 0 + i] = P[i]
    BY <1>2, <1>3, <2>1, LenProperties
  <2> QED
    BY <1>5, <2>1, <2>2, BytesAre
<1> HIDE DEF packed
<1>7. Take(x, size)
  BY <1>1, <1>5, <1>6
<1> QED
  BY <1>1, <1>7, TakenBack DEF x

\* A length-prefixed content is read back.
LEMMA ContentBack ==
  ASSUME NEW kind, NEW v, BeingReadBack(kind, v), ReadBytes
  PROVE  ReadingBack(kind, v)'
<1> DEFINE x == FieldsOf(kind, v)[Len(fields) + 1]
           len == from_le_bytes(Bytes(0, 4))
           content == Bytes(4, len)
           P == Part(Here, x)
<1>1. /\ result = "reading" /\ Len(fields) < Len(Layout) /\ Here.kind = "bytes"
      /\ \/ ~Left(4 + len) /\ Fail("InvalidEncoding")
         \/ /\ Left(4 + len)
            /\ IF ContentResult(Here.content, content) = "Ok"
               THEN Take(content, 4 + len)
               ELSE Fail(ContentResult(Here.content, content))
  BY DEF ReadBytes, Expects
<1>2. /\ HeldField(Here, x) /\ P \in Seq(Byte) /\ Left(Len(P))
      /\ \A i \in 1..Len(P) : input[offset + i] = P[i]
  BY <1>1, NextField
<1>3. x \in Seq(Byte) /\ Len(x) \in U32 /\ ContentResult(Here.content, x) = "Ok"
  BY <1>1, <1>2 DEF HeldField, Contents
<1> DEFINE l == to_le_bytes(Len(x))
<1>4. l \in Seq(Byte) /\ Len(l) = 4 /\ from_le_bytes(l) = Len(x)
  BY <1>3, LengthForth
<1>5. P = l \o x
  BY <1>1 DEF Part, put_bytes
<1>6. WireIInv /\ offset \in Nat /\ Len(input) \in Nat /\ Len(x) \in Nat
  BY <1>3, LenProperties DEF BeingReadBack, WireIInv
<1> HIDE DEF x, l, P
<1>7. /\ Len(P) = 4 + Len(x)
      /\ \A i \in 1..(4 + Len(x)) : P[i] = IF i <= 4 THEN l[i] ELSE x[i - 4]
  <2>1. /\ Len(l \o x) = Len(l) + Len(x)
        /\ \A i \in 1..(Len(l) + Len(x)) :
             (l \o x)[i] = IF i <= Len(l) THEN l[i] ELSE x[i - Len(l)]
    BY <1>3, <1>4, ConcatProperties
  <2>2. Len(P) = 4 + Len(x)
    BY <1>4, <1>5, <2>1
  <2>3. \A i \in 1..(4 + Len(x)) : (l \o x)[i] = IF i <= 4 THEN l[i] ELSE x[i - 4]
    BY <1>4, <2>1
  <2> QED
    BY <1>5, <2>2, <2>3, Zenon
<1>8. Bytes(0, 4) = l
  <2>1. Left(0 + Len(l))
    BY <1>2, <1>4, <1>6, <1>7 DEF Left
  <2>2. \A i \in 1..Len(l) : input[offset + 0 + i] = l[i]
    <3>1. ASSUME NEW i \in 1..4
          PROVE  input[offset + i] = l[i]
      <4>1. i \in 1..(4 + Len(x)) /\ i <= 4
        BY <1>6
      <4>2. P[i] = l[i]
        BY <1>7, <4>1
      <4> QED
        BY <1>2, <1>7, <4>1, <4>2
    <3>2. offset + 0 = offset
      BY <1>6
    <3> QED
      BY <1>4, <3>1, <3>2
  <2> QED
    BY <1>4, <1>6, <2>1, <2>2, BytesAre
<1>9. len = Len(x) /\ Left(4 + len)
  BY <1>2, <1>4, <1>7, <1>8
<1>10. content = x
  <2>1. Left(4 + Len(x))
    BY <1>9
  <2>2. \A i \in 1..Len(x) : input[offset + 4 + i] = x[i]
    <3> SUFFICES ASSUME NEW i \in 1..Len(x)
                 PROVE  input[offset + 4 + i] = x[i]
      OBVIOUS
    <3>1. 4 + i \in 1..(4 + Len(x)) /\ ~(4 + i <= 4) /\ (4 + i) - 4 = i
          /\ offset + (4 + i) = offset + 4 + i
      BY <1>6
    <3> QED
      BY <1>2, <1>7, <3>1
  <2>3. Bytes(4, Len(x)) = x
    BY <1>3, <1>6, <2>1, <2>2, BytesAre
  <2> QED
    BY <1>9, <2>3
<1> HIDE DEF len, content
<1>11. Take(x, 4 + len)
  BY <1>1, <1>3, <1>9, <1>10
<1> QED
  BY <1>1, <1>11, TakenBack DEF x

\* The count is read back.
LEMMA CountBack ==
  ASSUME NEW kind, NEW v, BeingReadBack(kind, v), ReadCount
  PROVE  ReadingBack(kind, v)'
<1> DEFINE x == FieldsOf(kind, v)[Len(fields) + 1]
           count == from_le_bytes(Bytes(0, 4))
           P == to_le_bytes(x)
<1>1. /\ result = "reading" /\ Len(fields) < Len(Layout) /\ Here.kind = "count"
      /\ IF count <= MAX_PRESENTATION_CONTEXTS THEN Take(count, 4) ELSE Fail("InvalidEncoding")
  BY DEF ReadCount, Expects
<1>2. /\ HeldField(Here, x) /\ Part(Here, x) \in Seq(Byte) /\ Left(Len(Part(Here, x)))
      /\ \A i \in 1..Len(Part(Here, x)) : input[offset + i] = Part(Here, x)[i]
  BY <1>1, NextField
<1>3. Part(Here, x) = P
  BY <1>1 DEF Part
<1>4. x \in U32 /\ x <= MAX_PRESENTATION_CONTEXTS
  BY <1>1, <1>2 DEF HeldField
<1> HIDE DEF x
<1>5. P \in Seq(Byte) /\ Len(P) = 4 /\ from_le_bytes(P) = x
  BY <1>4, LengthForth
<1> HIDE DEF P
<1>6. Bytes(0, 4) = P
  <2>1. WireIInv /\ offset \in Nat
    BY DEF BeingReadBack, WireIInv
  <2>2. Left(0 + Len(P)) /\ \A i \in 1..Len(P) : input[offset + 0 + i] = P[i]
    BY <1>2, <1>3, <1>5, <2>1
  <2> QED
    BY <1>5, <2>1, <2>2, BytesAre
<1>7. count = x
  BY <1>5, <1>6
<1> HIDE DEF count
<1>8. Take(x, 4)
  BY <1>1, <1>4, <1>7
<1> QED
  BY <1>1, <1>8, TakenBack DEF x

\* What is put before both keeps a beginning a beginning.
LEMMA BeginsAfter ==
  ASSUME NEW s \in Seq(Byte), NEW p, NEW q, Begins(p, q)
  PROVE  Begins(s \o p, s \o q)
<1>1. p \in Seq(Byte) /\ q \in Seq(Byte) /\ Len(p) <= Len(q) /\ \A i \in 1..Len(p) : q[i] = p[i]
  BY DEF Begins
<1>2. /\ s \o p \in Seq(Byte) /\ Len(s \o p) = Len(s) + Len(p)
      /\ \A i \in 1..(Len(s) + Len(p)) :
           (s \o p)[i] = IF i <= Len(s) THEN s[i] ELSE p[i - Len(s)]
  BY <1>1, ConcatProperties
<1>3. /\ s \o q \in Seq(Byte) /\ Len(s \o q) = Len(s) + Len(q)
      /\ \A i \in 1..(Len(s) + Len(q)) :
           (s \o q)[i] = IF i <= Len(s) THEN s[i] ELSE q[i - Len(s)]
  BY <1>1, ConcatProperties
<1>4. Len(s) \in Nat /\ Len(p) \in Nat /\ Len(q) \in Nat
  BY <1>1, LenProperties
<1>5. ASSUME NEW i \in 1..(Len(s) + Len(p))
      PROVE  (s \o q)[i] = (s \o p)[i]
  <2>1. i \in 1..(Len(s) + Len(q))
    BY <1>1, <1>4
  <2>2. ~(i <= Len(s)) => i - Len(s) \in 1..Len(p)
    BY <1>4
  <2> QED
    BY <1>1, <1>2, <1>3, <2>1, <2>2
<1> QED
  BY <1>1, <1>2, <1>3, <1>4, <1>5 DEF Begins

\* Once every field is read, the fields are those that were written, and the
\* count is that of the counters.
LEMMA AllRead ==
  ASSUME NEW kind, NEW v, BeingReadBack(kind, v), result \in {"reading", "Ok"}, Complete
  PROVE  /\ fields = FieldsOf(kind, v)
         /\ Counted = Len(NoncesOf(kind, v))
         /\ Written(header(kind), Layout, fields) \in Seq(Byte)
         /\ input = Written(header(kind), Layout, fields) \o records_bytes(NoncesOf(kind, v))
         /\ SubSeq(input, 1, offset) = Written(header(kind), Layout, fields) \o records_bytes(counters)
<1> DEFINE F == FieldsOf(kind, v)
<1>1. /\ kind \in Artifacts /\ v \in Held(kind) /\ kind = artifact /\ input = to_bytes(kind, v)
      /\ FieldsRead /\ Consumed
      /\ \A i \in 1..Len(fields) : fields[i] = F[i]
  BY DEF BeingReadBack, WireIInv, ReadingBack
<1>2. Layout = Layouts[kind]
  BY <1>1 DEF Layout
<1>3. Listed(F) /\ Len(F) = Len(Layout)
  BY <1>1, <1>2, HeldFields
<1>4. Listed(fields) /\ Len(fields) = Len(F)
  BY <1>1, <1>3 DEF FieldsRead, Complete
<1>5. fields = F
  <2>1. /\ fields = [i \in 1..Len(fields) |-> fields[i]]
        /\ F = [i \in 1..Len(F) |-> F[i]]
    BY <1>3, <1>4 DEF Listed
  <2> HIDE DEF F
  <2>2. [i \in 1..Len(fields) |-> fields[i]] = [i \in 1..Len(F) |-> F[i]]
    BY <1>1, <1>4
  <2> QED
    BY <2>1, <2>2, Zenon
<1>6. Counted = Len(NoncesOf(kind, v))
  <2>1. CASE kind = 6
    <3>1. F = <<v.issuer_context, v.credential_context, v.signature, v.secret,
                v.hiding_nonce, v.salt, Len(v.next_nonces)>>
      BY <2>1 DEF FieldsOf
    <3>2. F[7] = Len(v.next_nonces)
      BY <3>1
    <3> QED
      BY <1>1, <1>5, <2>1, <3>2 DEF Counted, NoncesOf
  <2>2. CASE kind # 6
    BY <1>1, <2>2, EmptySeq DEF Counted, NoncesOf
  <2> QED
    BY <2>1, <2>2
<1>7. /\ Written(header(kind), Layout, F) \in Seq(Byte)
      /\ input = Written(header(kind), Layout, F) \o records_bytes(NoncesOf(kind, v))
  BY <1>1, <1>2, HeldWritten
<1>8. SubSeq(input, 1, offset) = Written(header(kind), Layout, fields) \o records_bytes(counters)
  BY <1>1 DEF Consumed
<1> QED
  BY <1>5, <1>6, <1>7, <1>8

\* The next bytes are those of the next counter that was written.
LEMMA NextRecord ==
  ASSUME NEW kind, NEW v, BeingReadBack(kind, v), result = "reading", Complete,
         Len(counters) < Counted
  PROVE  LET c == NoncesOf(kind, v)[Len(counters) + 1] IN
           /\ Len(counters) \in Nat
           /\ Len(counters) + 1 \in 1..Len(NoncesOf(kind, v))
           /\ Left(RECORD_BYTES)
           /\ \A i \in 1..RECORD_BYTES : input[offset + i] = record_bytes(c)[i]
<1> DEFINE N == NoncesOf(kind, v)
           n == Len(counters)
           c == N[n + 1]
           w == Written(header(kind), Layout, fields)
           r == records_bytes(counters)
           b == record_bytes(c)
<1>1. /\ kind \in Artifacts /\ v \in Held(kind) /\ input \in Seq(Byte) /\ offset \in 0..Len(input)
      /\ counters \in Seq(Counter) /\ \A k \in 1..n : Recorded(counters[k])
      /\ \A k \in 1..n : counters[k] = N[k]
  BY DEF BeingReadBack, WireIInv, ReadingBack, CountersRead
<1>2. /\ Counted = Len(N) /\ w \in Seq(Byte)
      /\ input = w \o records_bytes(N) /\ SubSeq(input, 1, offset) = w \o r
  BY AllRead
<1>3. /\ N \in Seq(Counter) /\ \A k \in 1..Len(N) : Recorded(N[k])
      /\ records_bytes(N) \in Seq(Byte)
  BY <1>1, HeldNonces
<1>4. n \in Nat /\ Len(N) \in Nat /\ n + 1 \in 1..Len(N) /\ n < Len(N)
  BY <1>1, <1>2, <1>3, LenProperties
<1>5. c \in Counter /\ Recorded(c)
  BY <1>3, <1>4, ElementOfSeq
<1>6. b \in Seq(Byte) /\ Len(b) = RECORD_BYTES
  BY <1>5 DEF Recorded
<1>7. HASH_BYTES \in Nat
  BY SizesAssumption
<1> HIDE DEF N, c, w, r, b, n
<1> DEFINE first == Append(counters, c)
<1>8. /\ first \in Seq(Counter) /\ Len(first) = n + 1 /\ first[n + 1] = c
      /\ \A k \in 1..n : first[k] = counters[k]
  BY <1>1, <1>5, AppendProperties DEF n
<1>9. \A k \in 1..Len(first) : first[k] = N[k]
  <2>1. \A k \in 1..(n + 1) : k \in 1..n \/ k = n + 1
    BY <1>4
  <2> HIDE DEF first
  <2> QED
    BY <1>1, <1>8, <2>1 DEF c
<1>10. r \in Seq(Byte) /\ records_bytes(first) = r \o b
  BY <1>1, <1>5, <1>7, RecordsAppend DEF r, b, n
<1> HIDE DEF first
<1>11. Begins(records_bytes(first), records_bytes(N))
  BY <1>3, <1>4, <1>8, <1>9, RecordsBegin
<1>12. Begins((w \o r) \o b, input)
  <2>1. Begins(r \o b, records_bytes(N))
    BY <1>10, <1>11
  <2>2. Begins(w \o (r \o b), w \o records_bytes(N))
    BY <1>2, <2>1, BeginsAfter
  <2>3. (w \o r) \o b = w \o (r \o b)
    <3>1. w \in Seq(Byte) /\ r \in Seq(Byte) /\ b \in Seq(Byte)
      BY <1>2, <1>6, <1>10
    <3> QED
      BY <3>1, ConcatAssociative, SMTT(20)
  <2> QED
    BY <1>2, <2>2, <2>3, Zenon
<1>13. w \o r \in Seq(Byte) /\ Len(w \o r) = offset
  <2>1. w \o r \in Seq(Byte)
    BY <1>2, <1>10, ConcatProperties
  <2>2. offset \in Nat /\ offset <= Len(input) /\ Len(input) \in Nat
    BY <1>1, LenProperties
  <2>3. \A i \in 1..offset : input[i] \in Byte
    BY <1>1, <2>2, ElementOfSeq
  <2>4. Len(SubSeq(input, 1, offset)) = IF 1 <= offset THEN offset - 1 + 1 ELSE 0
    BY <2>2, <2>3, SubSeqProperties
  <2> QED
    BY <1>2, <2>1, <2>2, <2>4
<1>14. /\ offset + RECORD_BYTES <= Len(input)
       /\ \A i \in 1..RECORD_BYTES : input[offset + i] = b[i]
  <2>1. /\ Len(w \o r) + Len(b) <= Len(input)
        /\ \A i \in 1..Len(b) : input[Len(w \o r) + i] = b[i]
    <3>1. PICK s \in Seq(Byte) : s = w \o r
      BY <1>13
    <3>2. BeginsWith(s, b, input)
      BY <1>12, <3>1, Zenon DEF BeginsWith
    <3>3. Len(s) + Len(b) <= Len(input) /\ \A i \in 1..Len(b) : input[Len(s) + i] = b[i]
      BY <1>6, <3>2, BeginsBehind
    <3> QED
      BY <3>1, <3>3, Zenon
  <2> QED
    BY <1>6, <1>13, <2>1
<1> QED
  BY <1>4, <1>14 DEF Left, b, c, N, n

\* A counter is read back.
LEMMA CounterBack ==
  ASSUME NEW kind, NEW v, BeingReadBack(kind, v), ReadCounter
  PROVE  ReadingBack(kind, v)'
<1> DEFINE N == NoncesOf(kind, v)
           n == Len(counters)
           c == N[n + 1]
           context == Bytes(0, HASH_BYTES)
           nonce == from_le_bytes(Bytes(HASH_BYTES, 4))
           l == to_le_bytes(c.next_nonce)
<1>1. /\ result = "reading" /\ Complete /\ n < Counted
      /\ IF Left(RECORD_BYTES) /\ InOrder(context) /\ nonce # 0
         THEN /\ counters' = Append(counters, [context |-> context, next_nonce |-> nonce])
              /\ offset' = offset + RECORD_BYTES
              /\ UNCHANGED <<artifact, input, fields, result>>
         ELSE Fail("InvalidEncoding")
  BY DEF ReadCounter
<1>2. /\ kind \in Artifacts /\ v \in Held(kind) /\ kind = artifact /\ WireIInv
      /\ input \in Seq(Byte) /\ offset \in 0..Len(input) /\ counters \in Seq(Counter)
      /\ \A i \in 1..Len(fields) : fields[i] = FieldsOf(kind, v)[i]
      /\ \A k \in 1..n : counters[k] = N[k]
  BY DEF BeingReadBack, WireIInv, ReadingBack, CountersRead
<1>3. /\ n \in Nat /\ n + 1 \in 1..Len(N) /\ Left(RECORD_BYTES)
      /\ \A i \in 1..RECORD_BYTES : input[offset + i] = record_bytes(c)[i]
  BY <1>1, NextRecord
<1>4. /\ N \in Seq(Counter)
      /\ c.context \in Seq(Byte) /\ Len(c.context) = HASH_BYTES /\ c.next_nonce \in U32 \ {0}
      /\ \A j, k \in 1..Len(N) : j < k => Precedes(N[j].context, N[k].context)
  BY <1>2, <1>3, HeldNonces
<1>5. c = [context |-> c.context, next_nonce |-> c.next_nonce]
  <2>1. c \in Counter
    BY <1>3, <1>4, ElementOfSeq
  <2> HIDE DEF c
  <2> QED
    BY <2>1 DEF Counter
<1>6. /\ l \in Seq(Byte) /\ Len(l) = 4 /\ from_le_bytes(l) = c.next_nonce
  BY <1>4, LengthForth
<1>7. record_bytes(c) = c.context \o l
  BY DEF record_bytes
<1>8. HASH_BYTES \in Nat /\ RECORD_BYTES = HASH_BYTES + 4 /\ offset \in Nat /\ Len(input) \in Nat
  BY <1>2, SizesAssumption, LenProperties DEF RECORD_BYTES
<1> HIDE DEF N, n, c, l
<1>9. \A i \in 1..(HASH_BYTES + 4) :
        (c.context \o l)[i] = IF i <= HASH_BYTES THEN c.context[i] ELSE l[i - HASH_BYTES]
  <2>1. \A i \in 1..(Len(c.context) + Len(l)) :
          (c.context \o l)[i] = IF i <= Len(c.context) THEN c.context[i]
                                ELSE l[i - Len(c.context)]
    BY <1>4, <1>6, ConcatProperties
  <2> QED
    BY <1>4, <1>6, <2>1
<1>10. context = c.context
  <2>1. Left(0 + HASH_BYTES)
    BY <1>3, <1>8 DEF Left
  <2>2. \A i \in 1..HASH_BYTES : input[offset + 0 + i] = c.context[i]
    <3> SUFFICES ASSUME NEW i \in 1..HASH_BYTES
                 PROVE  input[offset + 0 + i] = c.context[i]
      OBVIOUS
    <3>1. i \in 1..(HASH_BYTES + 4) /\ i <= HASH_BYTES /\ offset + 0 + i = offset + i
      BY <1>8
    <3> QED
      BY <1>3, <1>7, <1>8, <1>9, <3>1
  <2> QED
    BY <1>2, <1>4, <2>1, <2>2, BytesAre
<1>11. Bytes(HASH_BYTES, 4) = l
  <2>1. Left(HASH_BYTES + 4)
    BY <1>3, <1>8 DEF Left
  <2>2. \A i \in 1..4 : input[offset + HASH_BYTES + i] = l[i]
    <3> SUFFICES ASSUME NEW i \in 1..4
                 PROVE  input[offset + HASH_BYTES + i] = l[i]
      OBVIOUS
    <3>1. /\ HASH_BYTES + i \in 1..(HASH_BYTES + 4) /\ ~(HASH_BYTES + i <= HASH_BYTES)
          /\ (HASH_BYTES + i) - HASH_BYTES = i
          /\ offset + (HASH_BYTES + i) = offset + HASH_BYTES + i
      BY <1>8
    <3> QED
      BY <1>3, <1>7, <1>8, <1>9, <3>1
  <2>3. Left(HASH_BYTES + Len(l)) /\ \A i \in 1..Len(l) : input[offset + HASH_BYTES + i] = l[i]
    BY <1>6, <2>1, <2>2
  <2>4. Bytes(HASH_BYTES, Len(l)) = l
    BY <1>2, <1>6, <1>8, <2>3, BytesAre
  <2> QED
    BY <1>6, <2>4
<1>12. nonce = c.next_nonce
  BY <1>6, <1>11
<1>13. InOrder(context)
  <2> SUFFICES ASSUME counters # <<>> PROVE Precedes(counters[n].context, context)
    BY DEF InOrder, n
  <2>1. n \in 1..n
    BY <1>2, <1>3, EmptySeq DEF n
  <2>2. counters[n] = N[n]
    BY <1>2, <2>1
  <2>3. n \in 1..Len(N) /\ n < n + 1
    BY <1>3, <2>1
  <2>4. Precedes(N[n].context, N[n + 1].context)
    BY <1>3, <1>4, <2>3
  <2> QED
    BY <1>10, <2>2, <2>4 DEF c
<1> HIDE DEF context, nonce
<1>14. /\ counters' = Append(counters, c)
       /\ artifact' = artifact /\ fields' = fields /\ result' = "reading"
  <2>1. nonce # 0
    BY <1>4, <1>12
  <2>2. /\ counters' = Append(counters, [context |-> context, next_nonce |-> nonce])
        /\ artifact' = artifact /\ fields' = fields /\ result' = result
    BY <1>1, <1>3, <1>13, <2>1
  <2> QED
    BY <1>1, <1>5, <1>10, <1>12, <2>2
<1>15. \A k \in 1..Len(counters') : counters'[k] = N[k]
  <2>1. c \in Counter
    BY <1>3, <1>4, ElementOfSeq DEF c
  <2>2. /\ Len(counters') = n + 1 /\ counters'[n + 1] = c
        /\ \A k \in 1..n : counters'[k] = counters[k]
    BY <1>2, <1>14, <2>1, AppendProperties DEF n
  <2>3. \A k \in 1..(n + 1) : k \in 1..n \/ k = n + 1
    BY <1>3
  <2> QED
    BY <1>2, <2>2, <2>3 DEF c
<1> QED
  BY <1>2, <1>14, <1>15 DEF ReadingBack, FieldsOf, NoncesOf, N

\* What is put together from the fields and the counters that were written is
\* the value that was written.
LEMMA DecodedBack ==
  ASSUME NEW kind, NEW v, BeingReadBack(kind, v), result \in {"reading", "Ok"}, Complete,
         Len(counters) = Counted
  PROVE  /\ Decoded = v
         /\ counters = NoncesOf(kind, v)
<1>1. /\ kind \in Artifacts /\ v \in Held(kind) /\ kind = artifact
      /\ counters \in Seq(Counter)
      /\ \A k \in 1..Len(counters) : counters[k] = NoncesOf(kind, v)[k]
  BY DEF BeingReadBack, WireIInv, ReadingBack, CountersRead
<1>2. fields = FieldsOf(kind, v) /\ Counted = Len(NoncesOf(kind, v))
  BY AllRead
<1>3. counters = NoncesOf(kind, v)
  <2>1. NoncesOf(kind, v) \in Seq(Counter)
    BY <1>1, HeldNonces
  <2> QED
    BY <1>1, <1>2, <2>1, SeqEqual
<1>4. CASE kind \in {1, 2}
  <2>1. fields = <<v.profile, v.application_context, v.mayo>>
    BY <1>2, <1>4 DEF FieldsOf
  <2>2. fields[1] = v.profile /\ fields[2] = v.application_context /\ fields[3] = v.mayo
    BY <2>1
  <2>3. Decoded = [profile |-> v.profile, application_context |-> v.application_context,
                   mayo |-> v.mayo]
    BY <1>1, <1>4, <2>2 DEF Decoded, key_value
  <2>4. v \in KeysHeld
    BY <1>1, <1>4 DEF Held
  <2> QED
    BY <1>3, <2>3, <2>4 DEF KeysHeld
<1>5. CASE kind = 3
  <2>1. fields = <<v.commitment, v.proof>>
    BY <1>2, <1>5 DEF FieldsOf
  <2>2. Decoded = [commitment |-> v.commitment, proof |-> v.proof]
    BY <1>1, <1>5, <2>1 DEF Decoded, request_value
  <2>3. v \in [commitment : Nibbles(M), proof : Contents("proof")]
    BY <1>1, <1>5 DEF Held
  <2> QED
    BY <1>3, <2>2, <2>3
<1>6. CASE kind = 4
  <2>1. fields = <<v.signature, v.salt>>
    BY <1>2, <1>6 DEF FieldsOf
  <2>2. Decoded = [signature |-> v.signature, salt |-> v.salt]
    BY <1>1, <1>6, <2>1 DEF Decoded, response_value
  <2>3. v \in [signature : Nibbles(KN), salt : Arrays(SALT_BYTES)]
    BY <1>1, <1>6 DEF Held
  <2> QED
    BY <1>3, <2>2, <2>3
<1>7. CASE kind = 5
  <2>1. fields = <<v.issuer_context, v.credential_context, v.secret, v.hiding_nonce>>
    BY <1>2, <1>7 DEF FieldsOf
  <2>2. Decoded = [issuer_context |-> v.issuer_context, credential_context |-> v.credential_context,
                   secret |-> v.secret, hiding_nonce |-> v.hiding_nonce]
    BY <1>1, <1>7, <2>1 DEF Decoded, pending_value
  <2>3. v \in [issuer_context : {Context} \cap Arrays(HASH_BYTES),
               credential_context : Arrays(HASH_BYTES),
               secret : Arrays(HASH_BYTES), hiding_nonce : Arrays(HASH_BYTES)]
    BY <1>1, <1>7 DEF Held
  <2> QED
    BY <1>3, <2>2, <2>3
<1>8. CASE kind = 6
  <2>1. fields = <<v.issuer_context, v.credential_context, v.signature, v.secret,
                   v.hiding_nonce, v.salt, Len(v.next_nonces)>>
    BY <1>2, <1>8 DEF FieldsOf
  <2>2. counters = v.next_nonces
    BY <1>3, <1>8 DEF NoncesOf
  <2>3. Decoded = [issuer_context |-> v.issuer_context, credential_context |-> v.credential_context,
                   signature |-> v.signature, secret |-> v.secret, hiding_nonce |-> v.hiding_nonce,
                   salt |-> v.salt, next_nonces |-> v.next_nonces]
    <3>1. Decoded = credential_value(fields, counters)
      BY <1>1, <1>8 DEF Decoded
    <3>2. /\ fields[1] = v.issuer_context /\ fields[2] = v.credential_context
          /\ fields[3] = v.signature /\ fields[4] = v.secret
          /\ fields[5] = v.hiding_nonce /\ fields[6] = v.salt
      BY <2>1
    <3> QED
      BY <2>2, <3>1, <3>2, Zenon DEF credential_value
  <2>4. v \in [issuer_context : {Context} \cap Arrays(HASH_BYTES),
               credential_context : Arrays(HASH_BYTES), signature : Nibbles(KN),
               secret : Arrays(HASH_BYTES), hiding_nonce : Arrays(HASH_BYTES),
               salt : Arrays(SALT_BYTES), next_nonces : NoncesHeld]
    BY <1>1, <1>8 DEF Held
  <2> QED
    BY <1>3, <2>3, <2>4
<1>9. CASE kind = 7
  <2>1. fields = <<v.tag, v.proof>>
    BY <1>2, <1>9 DEF FieldsOf
  <2>2. Decoded = [tag |-> v.tag, proof |-> v.proof]
    BY <1>1, <1>9, <2>1 DEF Decoded, presentation_value
  <2>3. v \in [tag : Arrays(HASH_BYTES), proof : Contents("proof")]
    BY <1>1, <1>9 DEF Held
  <2> QED
    BY <1>3, <2>2, <2>3
<1> QED
  BY <1>1, <1>4, <1>5, <1>6, <1>7, <1>8, <1>9 DEF Artifacts

\* What was written is accepted at its end.
LEMMA FinishBack ==
  ASSUME NEW kind, NEW v, BeingReadBack(kind, v), Finish
  PROVE  ReadingBack(kind, v)'
<1>1. /\ result = "reading" /\ Complete /\ Len(counters) = Counted
      /\ Fail(IF ~AtEnd THEN "InvalidEncoding"
              ELSE IF artifact \in {5, 6} /\ fields[1] # Context THEN "WrongIssuer"
              ELSE IF artifact = 6 /\ ~Authentic(Decoded) THEN "InvalidCredential"
              ELSE "Ok")
  BY DEF Finish
<1>2. /\ kind \in Artifacts /\ v \in Held(kind) /\ kind = artifact
      /\ input \in Seq(Byte) /\ offset \in 0..Len(input)
      /\ \A i \in 1..Len(fields) : fields[i] = FieldsOf(kind, v)[i]
      /\ \A k \in 1..Len(counters) : counters[k] = NoncesOf(kind, v)[k]
  BY DEF BeingReadBack, WireIInv, ReadingBack
<1>3. /\ fields = FieldsOf(kind, v)
      /\ input = Written(header(kind), Layout, fields) \o records_bytes(NoncesOf(kind, v))
      /\ SubSeq(input, 1, offset)
           = Written(header(kind), Layout, fields) \o records_bytes(counters)
  BY <1>1, AllRead
<1>4. Decoded = v /\ counters = NoncesOf(kind, v)
  BY <1>1, DecodedBack
<1>5. AtEnd
  <2>1. SubSeq(input, 1, offset) = input
    BY <1>3, <1>4, Zenon
  <2>2. offset \in Nat /\ offset <= Len(input) /\ Len(input) \in Nat
    BY <1>2, LenProperties
  <2>3. \A i \in 1..offset : input[i] \in Byte
    BY <1>2, <2>2, ElementOfSeq
  <2>4. Len(SubSeq(input, 1, offset)) = IF 1 <= offset THEN offset - 1 + 1 ELSE 0
    BY <2>2, <2>3, SubSeqProperties
  <2> QED
    BY <2>1, <2>2, <2>4 DEF AtEnd
<1>6. artifact = 5 => fields[1] = Context
  <2> SUFFICES ASSUME artifact = 5 PROVE fields[1] = Context
    OBVIOUS
  <2>1. fields[1] = v.issuer_context
    BY <1>2, <1>3 DEF FieldsOf
  <2>2. v \in [issuer_context : {Context} \cap Arrays(HASH_BYTES),
               credential_context : Arrays(HASH_BYTES),
               secret : Arrays(HASH_BYTES), hiding_nonce : Arrays(HASH_BYTES)]
    BY <1>2 DEF Held
  <2> QED
    BY <2>1, <2>2
<1>7. artifact = 6 => fields[1] = Context /\ Authentic(Decoded)
  <2> SUFFICES ASSUME artifact = 6 PROVE fields[1] = Context /\ Authentic(Decoded)
    OBVIOUS
  <2>1. fields[1] = v.issuer_context
    BY <1>2, <1>3 DEF FieldsOf
  <2>2. /\ v \in [issuer_context : {Context} \cap Arrays(HASH_BYTES),
                  credential_context : Arrays(HASH_BYTES), signature : Nibbles(KN),
                  secret : Arrays(HASH_BYTES), hiding_nonce : Arrays(HASH_BYTES),
                  salt : Arrays(SALT_BYTES), next_nonces : NoncesHeld]
        /\ Authentic(v)
    BY <1>2 DEF Held
  <2>3. v.issuer_context = Context
    BY <2>2
  <2> QED
    BY <1>4, <2>1, <2>2, <2>3, Zenon
<1>8. Fail("Ok")
  BY <1>1, <1>5, <1>6, <1>7
<1>9. result' = "Ok" /\ artifact' = artifact /\ fields' = fields /\ counters' = counters
  BY <1>8 DEF Fail
<1> QED
  BY <1>2, <1>9 DEF ReadingBack, FieldsOf, NoncesOf

\* Nothing is written for a field that has not been read.
LEMMA WrittenNothing ==
  ASSUME NEW h \in Seq(Byte), NEW L
  PROVE  Written(h, L, <<>>) = h
<1>1. /\ PartAt(L, <<>>, 1) = <<>> /\ PartAt(L, <<>>, 2) = <<>> /\ PartAt(L, <<>>, 3) = <<>>
      /\ PartAt(L, <<>>, 4) = <<>> /\ PartAt(L, <<>>, 5) = <<>> /\ PartAt(L, <<>>, 6) = <<>>
      /\ PartAt(L, <<>>, 7) = <<>>
  BY EmptySeq DEF PartAt
<1>2. Written(h, L, <<>>) = h \o <<>> \o <<>> \o <<>> \o <<>> \o <<>> \o <<>> \o <<>>
  BY <1>1, Zenon DEF Written
<1>3. h \o <<>> = h
  BY ConcatEmptySeq
<1> QED
  BY <1>2, <1>3

\* What the program wrote begins with the header of its artifact.
LEMMA HeaderBegins ==
  ASSUME NEW kind \in Artifacts, NEW v \in Held(kind)
  PROVE  Begins(header(kind), to_bytes(kind, v))
<1> DEFINE F == FieldsOf(kind, v)
           L == Layouts[kind]
           h == header(kind)
           w == Written(h, L, F)
           r == records_bytes(NoncesOf(kind, v))
<1>1. h \in Seq(Byte)
  BY HeaderBytes
<1>2. Listed(F)
  BY HeldFields
<1>3. /\ \A i \in 1..Len(F) : Part(L[i], F[i]) \in Seq(Byte)
      /\ w \in Seq(Byte) /\ to_bytes(kind, v) = w \o r
  BY HeldWritten
<1>4. r \in Seq(Byte)
  BY HeldNonces
<1> HIDE DEF h, L, F
<1>5. Begins(h, w)
  <2>1. Listed(<<>>) /\ Len(<<>>) = 0
    BY DEF Listed
  <2>2. Len(F) \in Nat
    BY <1>2 DEF Listed
  <2>3. Begins(Written(h, L, <<>>), w)
    BY <1>1, <1>2, <1>3, <2>1, <2>2, WrittenBegins
  <2> QED
    BY <1>1, <2>3, WrittenNothing
<1> HIDE DEF w, r
<1>6. Begins(w, to_bytes(kind, v))
  BY <1>3, <1>4, BeginsConcat
<1> QED
  BY <1>5, <1>6, BeginsTransitive DEF h

\* The header of what the program wrote names its artifact, and a decoder of
\* another artifact says so.
LEMMA NewBack ==
  ASSUME WireIInv, New, NEW kind \in Artifacts, NEW v \in Values[kind], input = to_bytes(kind, v)
  PROVE  ReadingBack(kind, v)'
<1>1. /\ result' = HeaderResult /\ artifact' = artifact
      /\ fields' = <<>> /\ counters' = <<>>
  BY DEF New, WireIInv
<1>2. v \in Held(kind) /\ Len(input) <= MAX_WIRE_BYTES
  BY ValuesAssumption
<1> DEFINE h == header(kind)
           a == header(artifact)
<1>3. input \in Seq(Byte) /\ artifact \in Artifacts
  BY DEF WireIInv
<1>4. h \in Seq(Byte) /\ a \in Seq(Byte)
  BY <1>3, HeaderBytes
<1>5. Begins(h, input)
  BY <1>2, HeaderBegins
<1>6. /\ Len(h) = 9 /\ Len(a) = 9
      /\ h[5] = 1 /\ h[6] = kind /\ h[7] = WIRE_ID /\ h[8] = 0 /\ h[9] = 0
      /\ h[1] = a[1] /\ h[2] = a[2] /\ h[3] = a[3] /\ h[4] = a[4]
  BY DEF header
<1> HIDE DEF h, a
<1>7. Len(input) \in Nat /\ Len(input) >= 9 /\ \A i \in 1..9 : input[i] = h[i]
  BY <1>5, <1>6, LenProperties DEF Begins
<1>8. SubSeq(input, 1, 4) = SubSeq(a, 1, 4)
  <2>1. \A i \in 1..4 : input[i] = a[i]
    BY <1>6, <1>7
  <2>2. \A i \in 1..4 : input[i] \in Byte
    BY <1>3, <1>7, ElementOfSeq
  <2>3. \A i \in 1..4 : a[i] \in Byte
    BY <2>1, <2>2
  <2>4. /\ SubSeq(input, 1, 4) \in Seq(Byte) /\ Len(SubSeq(input, 1, 4)) = 4
        /\ \A i \in 1..4 : SubSeq(input, 1, 4)[i] = input[i]
    BY <2>2, SubSeqProperties
  <2>5. /\ SubSeq(a, 1, 4) \in Seq(Byte) /\ Len(SubSeq(a, 1, 4)) = 4
        /\ \A i \in 1..4 : SubSeq(a, 1, 4)[i] = a[i]
    BY <2>3, SubSeqProperties
  <2>6. \A i \in 1..4 : SubSeq(input, 1, 4)[i] = SubSeq(a, 1, 4)[i]
    BY <2>1, <2>4, <2>5
  <2> QED
    BY <2>4, <2>5, <2>6, SeqEqual
<1>9. /\ input[5] = 1 /\ input[6] = kind /\ input[7] = WIRE_ID /\ input[8] = 0 /\ input[9] = 0
  BY <1>6, <1>7
<1>10. /\ ~(Len(input) > MAX_WIRE_BYTES) /\ ~(Len(input) < 4)
       /\ ~(Len(input) < 5) /\ ~(Len(input) < 9)
  BY <1>2, <1>7, SizesAssumption
<1>11. HeaderResult = IF kind # artifact THEN "WrongArtifact" ELSE "reading"
  BY <1>8, <1>9, <1>10 DEF HeaderResult, a
<1> QED
  BY <1>1, <1>11, EmptySeq DEF ReadingBack

\* Before the header is read nothing has been read,
LEMMA ReadsBackInit == WireInit => ReadsBack
BY EmptySeq DEF WireInit, ReadsBack, ReadingBack

\* every step of the decoder reads back what was written,
LEMMA ReadsBackStep == WireIInv /\ ReadsBack /\ [WireNext]_wire_vars => ReadsBack'
<1> SUFFICES ASSUME WireIInv, ReadsBack, [WireNext]_wire_vars,
                    NEW kind \in Artifacts, NEW v \in Values[kind], input' = to_bytes(kind, v)
             PROVE  ReadingBack(kind, v)'
  BY DEF ReadsBack
<1>1. input' = input /\ artifact' = artifact
  BY DEF WireNext, wire_vars, New, Truncated, ReadArray, ReadProfile, ReadNibbles, ReadBytes,
         ReadCount, ReadCounter, Finish, Fail, Take
<1>2. input = to_bytes(kind, v) /\ ReadingBack(kind, v)
  BY <1>1 DEF ReadsBack
<1>3. CASE New
  BY <1>2, <1>3, NewBack
<1>4. CASE UNCHANGED wire_vars
  <2>1. result' = result /\ artifact' = artifact /\ fields' = fields /\ counters' = counters
    BY <1>4 DEF wire_vars
  <2> QED
    BY <1>2, <2>1 DEF ReadingBack, FieldsOf, NoncesOf
<1>5. ASSUME result = "reading"
      PROVE  BeingReadBack(kind, v)
  <2>1. kind = artifact
    BY <1>2, <1>5 DEF ReadingBack
  <2>2. v \in Held(kind)
    BY ValuesAssumption
  <2> QED
    BY <1>2, <2>1, <2>2 DEF BeingReadBack
<1>6. CASE Truncated
  BY <1>5, <1>6, NotTruncated DEF Truncated
<1>7. CASE ReadArray
  BY <1>5, <1>7, ArrayBack DEF ReadArray, Expects
<1>8. CASE ReadProfile
  BY <1>5, <1>8, ProfileBack DEF ReadProfile, Expects
<1>9. CASE ReadNibbles
  <2>1. result = "reading"
    BY <1>9 DEF ReadNibbles, Expects
  <2> QED
    BY <1>5, <1>9, <2>1, NibblesBack
<1>10. CASE ReadBytes
  <2>1. result = "reading"
    BY <1>10 DEF ReadBytes, Expects
  <2> QED
    BY <1>5, <1>10, <2>1, ContentBack
<1>11. CASE ReadCount
  BY <1>5, <1>11, CountBack DEF ReadCount, Expects
<1>12. CASE ReadCounter
  <2>1. result = "reading"
    BY <1>12 DEF ReadCounter
  <2> QED
    BY <1>5, <1>12, <2>1, CounterBack
<1>13. CASE Finish
  <2>1. result = "reading"
    BY <1>13 DEF Finish
  <2> QED
    BY <1>5, <1>13, <2>1, FinishBack
<1> QED
  BY <1>3, <1>4, <1>6, <1>7, <1>8, <1>9, <1>10, <1>11, <1>12, <1>13 DEF WireNext

\* READ BACK.  Whatever the program wrote, of any artifact, with any number of
\* counters and contents of any length, from_bytes of that artifact returns as the
\* very value that was written, and every other from_bytes calls it the wrong
\* artifact: no decoder is stricter than its encoder.
THEOREM WireRoundTrip == WireSpec => []RoundTrip
<1>1. WireIInv /\ ReadsBack => RoundTrip
  <2> SUFFICES ASSUME WireIInv, ReadsBack, result \notin {"opening", "reading"},
                      NEW a \in Artifacts, NEW v \in Values[a], input = to_bytes(a, v)
               PROVE  IF a = artifact THEN result = "Ok" /\ Decoded = v
                      ELSE result = "WrongArtifact"
    BY DEF RoundTrip
  <2>1. ReadingBack(a, v)
    BY DEF ReadsBack
  <2>2. CASE a # artifact
    BY <2>1, <2>2 DEF ReadingBack
  <2>3. CASE a = artifact
    <3>1. result = "Ok"
      BY <2>1, <2>3 DEF ReadingBack
    <3>2. Complete /\ Len(counters) = Counted
      BY <3>1 DEF WireIInv, Accepted
    <3>3. v \in Held(a)
      BY ValuesAssumption
    <3>4. BeingReadBack(a, v)
      BY <2>1, <2>3, <3>3 DEF BeingReadBack
    <3> QED
      BY <2>3, <3>1, <3>2, <3>4, DecodedBack
  <2> QED
    BY <2>2, <2>3
<1>2. WireSpec => []ReadsBack
  <2>1. WireInit => ReadsBack
    BY ReadsBackInit
  <2>2. WireIInv /\ ReadsBack /\ [WireNext]_wire_vars => ReadsBack'
    BY ReadsBackStep
  <2> QED
    BY <2>1, <2>2, WireSpecIInv, PTL DEF WireSpec
<1> QED
  BY <1>1, <1>2, WireSpecIInv, PTL

-----------------------------------------------------------------------------
(* Induction and iteration.                                                *)

\* The least number of a set.
LEMMA Least ==
  ASSUME NEW T, T \subseteq Nat, T # {}
  PROVE  \E m \in T : \A n \in T : m <= n
<1> DEFINE R == OpToRel(<, Nat)
<1>1. IsWellFoundedOn(R, Nat)
  BY NatLessThanWellFounded
<1> HIDE DEF R
<1>2. PICK m \in T : \A n \in T : ~(<<n, m>> \in R)
  BY <1>1, WFMin
<1>3. ASSUME NEW n \in T
      PROVE  m <= n
  <2>1. m \in Nat /\ n \in Nat
    OBVIOUS
  <2>2. n < m => <<n, m>> \in R
    BY <2>1 DEF R, OpToRel
  <2> QED
    BY <1>2, <2>1, <2>2
<1> QED
  BY <1>3

\* Induction, of a set.
LEMMA Induction ==
  ASSUME NEW S, 0 \in S, \A n \in Nat : n \in S => n + 1 \in S
  PROVE  \A n \in Nat : n \in S
<1> SUFFICES ASSUME \E n \in Nat : n \notin S
             PROVE  FALSE
  OBVIOUS
<1> DEFINE T == {n \in Nat : n \notin S}
<1>1. PICK m \in T : \A n \in T : m <= n
  <2>1. T \subseteq Nat /\ T # {}
    OBVIOUS
  <2> HIDE DEF T
  <2> QED
    BY <2>1, Least
<1>2. m \in Nat /\ m # 0 /\ m - 1 \in Nat /\ m - 1 \in S
  BY <1>1
<1> QED
  BY <1>1, <1>2

\* The first n + 1 values of an iteration.
Iterates(h, S, x, f, n) ==
  /\ h \in [0..n -> S]
  /\ h[0] = x
  /\ \A k \in 0..(n - 1) : h[k + 1] = f[<<k, h[k]>>]

\* An iteration is determined by its start,
LEMMA IteratesUnique ==
  ASSUME NEW S, NEW x, NEW f, NEW n \in Nat, NEW m \in Nat, NEW g, NEW h,
         Iterates(g, S, x, f, n), Iterates(h, S, x, f, m)
  PROVE  \A k \in Nat : k <= n /\ k <= m => g[k] = h[k]
<1> DEFINE E == {k \in Nat : k <= n /\ k <= m => g[k] = h[k]}
<1>1. 0 \in E
  BY DEF Iterates
<1>2. ASSUME NEW k \in Nat, k \in E
      PROVE  k + 1 \in E
  <2> SUFFICES ASSUME k + 1 <= n, k + 1 <= m PROVE g[k + 1] = h[k + 1]
    OBVIOUS
  <2>1. k \in 0..(n - 1) /\ k \in 0..(m - 1) /\ g[k] = h[k]
    BY <1>2
  <2>2. g[k + 1] = f[<<k, g[k]>>] /\ h[k + 1] = f[<<k, h[k]>>]
    BY <2>1 DEF Iterates
  <2> QED
    BY <2>1, <2>2
<1> HIDE DEF E
<1>3. \A k \in Nat : k \in E
  BY <1>1, <1>2, Induction
<1> QED
  BY <1>3 DEF E

\* has as many values as are asked for,
LEMMA IteratesExist ==
  ASSUME NEW S, NEW x \in S, NEW f \in [Nat \X S -> S]
  PROVE  \A n \in Nat : \E h : Iterates(h, S, x, f, n)
<1> DEFINE E == {n \in Nat : \E h : Iterates(h, S, x, f, n)}
<1>1. 0 \in E
  <2>1. Iterates([k \in 0..0 |-> x], S, x, f, 0)
    BY DEF Iterates
  <2> QED
    BY <2>1
<1>2. ASSUME NEW n \in Nat, n \in E
      PROVE  n + 1 \in E
  <2>1. PICK h : Iterates(h, S, x, f, n)
    BY <1>2
  <2> DEFINE g == [k \in 0..(n + 1) |-> IF k <= n THEN h[k] ELSE f[<<n, h[n]>>]]
  <2>2. h \in [0..n -> S] /\ h[0] = x /\ \A k \in 0..(n - 1) : h[k + 1] = f[<<k, h[k]>>]
    BY <2>1 DEF Iterates
  <2>3. g \in [0..(n + 1) -> S]
    <3>1. f[<<n, h[n]>>] \in S
      BY <2>2
    <3> QED
      BY <2>2, <3>1
  <2>4. g[0] = x
    BY <2>2
  <2>5. ASSUME NEW k \in 0..((n + 1) - 1)
        PROVE  g[k + 1] = f[<<k, g[k]>>]
    <3>1. CASE k = n
      <4>1. g[n] = h[n]
        OBVIOUS
      <4>2. g[n + 1] = f[<<n, h[n]>>]
        OBVIOUS
      <4> QED
        BY <3>1, <4>1, <4>2, Zenon
    <3>2. CASE k # n
      <4>1. k \in 0..(n - 1) /\ k + 1 \in 0..(n + 1) /\ k + 1 <= n /\ k <= n
        BY <3>2
      <4> QED
        BY <2>2, <4>1
    <3> QED
      BY <3>1, <3>2
  <2> HIDE DEF g
  <2>6. Iterates(g, S, x, f, n + 1)
    BY <2>3, <2>4, <2>5 DEF Iterates
  <2> QED
    BY <2>6
<1> HIDE DEF E
<1>3. \A n \in Nat : n \in E
  BY <1>1, <1>2, Induction
<1> QED
  BY <1>3 DEF E

\* f can be iterated from x, in S.
Starts(S, x, f) == x \in S /\ f \in [Nat \X S -> S]

\* g is the iteration of f from x, in S.
Iteration(g, S, x, f) ==
  g \in [Nat -> S] /\ g[0] = x /\ \A n \in Nat : g[n + 1] = f[<<n, g[n]>>]

\* and has a value for every number: a recursive function has its values.
LEMMA IterationExists ==
  ASSUME NEW S, NEW x, NEW f, Starts(S, x, f)
  PROVE  \E g : Iteration(g, S, x, f)
<1>0. x \in S /\ f \in [Nat \X S -> S]
  BY DEF Starts
<1> DEFINE h == [n \in Nat |-> CHOOSE h : Iterates(h, S, x, f, n)]
<1>1. \A n \in Nat : Iterates(h[n], S, x, f, n)
  BY <1>0, IteratesExist
<1> HIDE DEF h
<1> DEFINE g == [n \in Nat |-> h[n][n]]
<1>2. g \in [Nat -> S]
  <2>1. \A n \in Nat : h[n][n] \in S
    BY <1>1 DEF Iterates
  <2> QED
    BY <2>1
<1>3. g[0] = x
  BY <1>1 DEF Iterates
<1>4. ASSUME NEW n \in Nat
      PROVE  g[n + 1] = f[<<n, g[n]>>]
  <2>1. Iterates(h[n], S, x, f, n) /\ Iterates(h[n + 1], S, x, f, n + 1)
    BY <1>1
  <2>2. h[n + 1][n] = h[n][n]
    <3> DEFINE m == n + 1
               a == h[n]
               b == h[m]
    <3>1. m \in Nat /\ n <= m /\ n <= n
      OBVIOUS
    <3>2. Iterates(a, S, x, f, n) /\ Iterates(b, S, x, f, m)
      BY <2>1
    <3> HIDE DEF g, m, a, b
    <3>3. \A k \in Nat : k <= n /\ k <= m => a[k] = b[k]
      BY <3>1, <3>2, IteratesUnique
    <3>4. a[n] = b[n]
      BY <3>1, <3>3
    <3> QED
      BY <3>4 DEF m, a, b
  <2>3. n \in 0..((n + 1) - 1)
    OBVIOUS
  <2>4. h[n + 1][n + 1] = f[<<n, h[n + 1][n]>>]
    BY <2>1, <2>3 DEF Iterates
  <2> QED
    BY <2>2, <2>4
<1> HIDE DEF g
<1>5. Iteration(g, S, x, f)
  BY <1>2, <1>3, <1>4 DEF Iteration
<1> QED
  BY <1>5

-----------------------------------------------------------------------------
(* Parts end to end.                                                       *)

\* The parts of a list up to each, end to end.
Ends(g, u) == g[0] = <<>> /\ \A i \in 1..Len(u) : g[i] = g[i - 1] \o u[i]

\* FlattenSeq puts the parts of a list end to end.
LEMMA FlattenEnds ==
  ASSUME NEW S, NEW u \in Seq(Seq(S)), NEW g \in [0..Len(u) -> Seq(S)], Ends(g, u)
  PROVE  g[Len(u)] = FlattenSeq(u)
<1>1. Len(u) \in Nat /\ \A i \in 1..Len(u) : u[i] \in Seq(S)
  BY LenProperties, ElementOfSeq
<1>2. g[0] = <<>> /\ \A i \in 1..Len(u) : g[i] = g[i - 1] \o u[i]
  BY DEF Ends
<1>3. CASE Len(u) = 0
  <2>1. u = <<>>
    BY <1>3, EmptySeq
  <2>2. FlattenSeq(u) = u
    BY <1>3 DEF FlattenSeq
  <2> QED
    BY <1>2, <1>3, <2>1, <2>2
<1>4. CASE Len(u) # 0
  <2> DEFINE flatten[i \in 1..Len(u)] == IF i = 1 THEN u[i] ELSE flatten[i - 1] \o u[i]
             w == [i \in 1..Len(u) |-> g[i]]
  <2>1. ASSUME NEW i \in 1..Len(u)
        PROVE  g[i] = IF i = 1 THEN u[i] ELSE w[i - 1] \o u[i]
    <3> HIDE DEF flatten
    <3>1. g[i] = g[i - 1] \o u[i] /\ u[i] \in Seq(S)
      BY <1>1, <1>2
    <3>2. CASE i = 1
      <4> HIDE DEF w
      <4>1. i - 1 = 0
        BY <3>2
      <4>2. g[i] = <<>> \o u[i]
        BY <1>2, <3>1, <4>1, Zenon
      <4>3. <<>> \o u[i] = u[i]
        BY <3>1, ConcatEmptySeq
      <4> QED
        BY <3>2, <4>2, <4>3
    <3>3. CASE i # 1
      <4>1. i - 1 \in 1..Len(u)
        BY <1>1, <3>3
      <4>2. w[i - 1] = g[i - 1]
        BY <4>1
      <4> QED
        BY <3>1, <3>3, <4>2
    <3> QED
      BY <3>2, <3>3
  <2>2. w = [i \in 1..Len(u) |-> IF i = 1 THEN u[i] ELSE w[i - 1] \o u[i]]
    <3> HIDE DEF flatten
    <3> SUFFICES [i \in 1..Len(u) |-> g[i]]
                   = [i \in 1..Len(u) |-> IF i = 1 THEN u[i] ELSE w[i - 1] \o u[i]]
      BY DEF w
    <3> HIDE DEF w
    <3> QED
      BY <2>1
  <2>3. FlattenSeq(u) = flatten[Len(u)]
    BY <1>4 DEF FlattenSeq
  <2>4. flatten = [i \in 1..Len(u) |-> IF i = 1 THEN u[i] ELSE flatten[i - 1] \o u[i]]
    <3> HIDE DEF w
    <3> QED
      BY <2>2
  <2> HIDE DEF flatten, w
  <2> DEFINE E == {i \in Nat : i \in 1..Len(u) => flatten[i] = g[i]}
  <2>5. 0 \in E
    OBVIOUS
  <2>6. ASSUME NEW i \in Nat, i \in E
        PROVE  i + 1 \in E
    <3> SUFFICES ASSUME i + 1 \in 1..Len(u) PROVE flatten[i + 1] = g[i + 1]
      OBVIOUS
    <3>1. (i + 1) - 1 = i
      OBVIOUS
    <3>2. flatten[i + 1] = IF i + 1 = 1 THEN u[i + 1] ELSE flatten[i] \o u[i + 1]
      BY <2>4, <3>1
    <3>3. g[i + 1] = IF i + 1 = 1 THEN u[i + 1] ELSE w[i] \o u[i + 1]
      BY <2>1, <3>1
    <3>4. i + 1 # 1 => flatten[i] = g[i] /\ w[i] = g[i]
      <4> SUFFICES ASSUME i + 1 # 1 PROVE flatten[i] = g[i] /\ w[i] = g[i]
        OBVIOUS
      <4>1. i \in 1..Len(u)
        BY <1>1
      <4> QED
        BY <2>6, <4>1 DEF w
    <3> QED
      BY <3>2, <3>3, <3>4
  <2> HIDE DEF E
  <2>7. \A i \in Nat : i \in E
    BY <2>5, <2>6, Induction
  <2>8. Len(u) \in 1..Len(u)
    BY <1>1, <1>4
  <2> QED
    BY <1>1, <2>3, <2>7, <2>8 DEF E
<1> QED
  BY <1>3, <1>4

\* Every list of parts can be put end to end.
LEMMA Flattened ==
  ASSUME NEW S, NEW u \in Seq(Seq(S))
  PROVE  \E g \in [0..Len(u) -> Seq(S)] : Ends(g, u) /\ g[Len(u)] = FlattenSeq(u)
<1> DEFINE n == Len(u)
           f == [p \in Nat \X Seq(S) |-> IF p[1] + 1 \in 1..n THEN p[2] \o u[p[1] + 1] ELSE p[2]]
<1>1. n \in Nat /\ \A i \in 1..n : u[i] \in Seq(S)
  BY LenProperties, ElementOfSeq
<1>2. <<>> \in Seq(S)
  BY EmptySeq
<1>3. f \in [Nat \X Seq(S) -> Seq(S)]
  <2> SUFFICES ASSUME NEW k \in Nat, NEW s \in Seq(S)
               PROVE  (IF k + 1 \in 1..n THEN s \o u[k + 1] ELSE s) \in Seq(S)
    OBVIOUS
  <2>1. CASE k + 1 \in 1..n
    <3>1. u[k + 1] \in Seq(S)
      BY <1>1, <2>1
    <3> QED
      BY <2>1, <3>1, ConcatProperties
  <2> QED
    BY <2>1
<1>4. Starts(Seq(S), <<>>, f)
  BY <1>2, <1>3 DEF Starts
<1>5. PICK g : Iteration(g, Seq(S), <<>>, f)
  <2> HIDE DEF f
  <2> QED
    BY <1>4, IterationExists, Zenon
<1>6. g \in [Nat -> Seq(S)] /\ g[0] = <<>> /\ \A k \in Nat : g[k + 1] = f[<<k, g[k]>>]
  <2> HIDE DEF f
  <2> QED
    BY <1>5 DEF Iteration
<1>7. ASSUME NEW i \in 1..n
      PROVE  g[i] = g[i - 1] \o u[i]
  <2>1. i - 1 \in Nat /\ (i - 1) + 1 = i
    BY <1>1
  <2>2. g[i] = f[<<i - 1, g[i - 1]>>]
    BY <1>6, <2>1
  <2>3. \A k \in Nat, s \in Seq(S) : k + 1 \in 1..n => f[<<k, s>>] = s \o u[k + 1]
    OBVIOUS
  <2>4. f[<<i - 1, g[i - 1]>>] = g[i - 1] \o u[(i - 1) + 1]
    <3> HIDE DEF f
    <3> QED
      BY <1>6, <2>1, <2>3
  <2> QED
    BY <2>1, <2>2, <2>4
<1> HIDE DEF f
<1> DEFINE e == [i \in 0..n |-> g[i]]
<1>8. e \in [0..n -> Seq(S)]
  BY <1>1, <1>6
<1>9. Ends(e, u)
  <2>1. e[0] = <<>>
    BY <1>1, <1>6
  <2>2. ASSUME NEW i \in 1..n
        PROVE  e[i] = e[i - 1] \o u[i]
    <3>1. i \in 0..n /\ i - 1 \in 0..n
      BY <1>1
    <3> QED
      BY <1>7, <3>1
  <2> HIDE DEF e
  <2> QED
    BY <2>1, <2>2 DEF Ends
<1> HIDE DEF e
<1>10. e[n] = FlattenSeq(u)
  BY <1>8, <1>9, FlattenEnds
<1> QED
  BY <1>8, <1>9, <1>10

\* No parts, no bytes.
LEMMA FlattenEmpty == FlattenSeq(<<>>) = <<>>
BY DEF FlattenSeq

\* Putting end to end is associative.
LEMMA Associative ==
  ASSUME NEW S, NEW x \in Seq(S), NEW y \in Seq(S), NEW z \in Seq(S)
  PROVE  (x \o y) \o z = x \o (y \o z)
BY ConcatAssociative

\* g takes in one part more than h, first.
Leads(S, g, h, t, n, a) ==
  /\ g \in [0..(n + 1) -> Seq(S)] /\ h \in [0..n -> Seq(S)]
  /\ g[1] = a /\ h[0] = <<>>
  /\ \A i \in 0..(n - 1) : /\ t[i + 1] \in Seq(S)
                           /\ g[(i + 1) + 1] = g[i + 1] \o t[i + 1]
                           /\ h[i + 1] = h[i] \o t[i + 1]

\* A part put first is put before all the others.
LEMMA EndsAfter ==
  ASSUME NEW S, NEW n \in Nat, NEW a \in Seq(S), NEW t, NEW g, NEW h, Leads(S, g, h, t, n, a)
  PROVE  g[n + 1] = a \o h[n]
<1>0. /\ g \in [0..(n + 1) -> Seq(S)] /\ h \in [0..n -> Seq(S)]
      /\ g[1] = a /\ h[0] = <<>>
      /\ \A i \in 0..(n - 1) : /\ t[i + 1] \in Seq(S)
                               /\ g[(i + 1) + 1] = g[i + 1] \o t[i + 1]
                               /\ h[i + 1] = h[i] \o t[i + 1]
  BY DEF Leads
<1>1. ASSUME NEW y \in Seq(S), NEW z \in Seq(S)
      PROVE  (a \o y) \o z = a \o (y \o z)
  BY Associative, SMTT(20)
<1> DEFINE c == [k \in Nat |-> a \o h[k]]
<1>2. \A k \in Nat : c[k] = a \o h[k]
  OBVIOUS
<1> HIDE DEF c
<1> DEFINE E == {k \in Nat : k <= n => g[k + 1] = c[k]}
<1>3. 0 \in E
  <2>1. a \o <<>> = a
    BY ConcatEmptySeq
  <2>2. c[0] = a
    BY <1>0, <1>2, <2>1
  <2> QED
    BY <1>0, <2>2
<1>4. ASSUME NEW k \in Nat, k \in E
      PROVE  k + 1 \in E
  <2> SUFFICES ASSUME k + 1 <= n PROVE g[(k + 1) + 1] = c[k + 1]
    OBVIOUS
  <2>1. k \in 0..(n - 1) /\ k \in 0..n /\ k + 1 \in Nat
    OBVIOUS
  <2>2. g[k + 1] = c[k]
    BY <1>4, <2>1
  <2> HIDE DEF E
  <2>3. h[k] \in Seq(S) /\ t[k + 1] \in Seq(S)
    BY <1>0, <2>1
  <2>4. (a \o h[k]) \o t[k + 1] = a \o (h[k] \o t[k + 1])
    BY <1>1, <2>3
  <2>5. g[(k + 1) + 1] = (a \o h[k]) \o t[k + 1]
    BY <1>0, <1>2, <2>1, <2>2, Zenon
  <2>6. g[(k + 1) + 1] = a \o h[k + 1]
    BY <1>0, <2>1, <2>4, <2>5, Zenon
  <2> QED
    BY <1>2, <2>1, <2>6, Zenon
<1>5. \A k \in Nat : k \in E
  <2> HIDE DEF E
  <2> QED
    BY <1>3, <1>4, Induction
<1>6. g[n + 1] = c[n]
  BY <1>5
<1> QED
  BY <1>2, <1>6, Zenon

\* A list of parts end to end is the first, and the others end to end.
LEMMA FlattenHead ==
  ASSUME NEW S, NEW u \in Seq(Seq(S))
  PROVE  Len(u) # 0 => /\ Head(u) \in Seq(S) /\ Tail(u) \in Seq(Seq(S))
                       /\ FlattenSeq(u) = Head(u) \o FlattenSeq(Tail(u))
<1>0. SUFFICES ASSUME Len(u) # 0
               PROVE  /\ Head(u) \in Seq(S) /\ Tail(u) \in Seq(Seq(S))
                      /\ FlattenSeq(u) = Head(u) \o FlattenSeq(Tail(u))
  OBVIOUS
<1> DEFINE t == Tail(u)
           n == Len(t)
<1>1. /\ Head(u) \in Seq(S) /\ t \in Seq(Seq(S)) /\ Len(u) = n + 1 /\ n \in Nat
      /\ u[1] = Head(u) /\ \A i \in 1..n : t[i] = u[i + 1]
  <2>1. u # <<>>
    BY <1>0, EmptySeq
  <2> QED
    BY <2>1, HeadTailProperties, LenProperties
<1>2. PICK g : g \in [0..Len(u) -> Seq(S)] /\ Ends(g, u) /\ g[Len(u)] = FlattenSeq(u)
  BY Flattened
<1>3. PICK h : h \in [0..Len(t) -> Seq(S)] /\ Ends(h, t) /\ h[Len(t)] = FlattenSeq(t)
  BY <1>1, Flattened
<1> HIDE DEF t, n
<1>4. g[0] = <<>> /\ \A i \in 1..(n + 1) : g[i] = g[i - 1] \o u[i]
  BY <1>1, <1>2 DEF Ends, n
<1>5. h[0] = <<>> /\ \A i \in 1..n : h[i] = h[i - 1] \o t[i]
  BY <1>3 DEF Ends, n
<1>6. g \in [0..(n + 1) -> Seq(S)] /\ h \in [0..n -> Seq(S)]
  BY <1>1, <1>2, <1>3 DEF n
<1>7. g[1] = Head(u)
  <2>1. 1 - 1 = 0 /\ 1 \in 1..(n + 1)
    BY <1>1
  <2>2. g[1] = <<>> \o Head(u)
    BY <1>1, <1>4, <2>1, Zenon
  <2>3. <<>> \o Head(u) = Head(u)
    BY <1>1, ConcatEmptySeq
  <2> QED
    BY <2>2, <2>3
<1>8. ASSUME NEW i \in 0..(n - 1)
      PROVE  /\ t[i + 1] \in Seq(S)
             /\ g[(i + 1) + 1] = g[i + 1] \o t[i + 1]
             /\ h[i + 1] = h[i] \o t[i + 1]
  <2>1. /\ (i + 1) - 1 = i /\ ((i + 1) + 1) - 1 = i + 1
        /\ i + 1 \in 1..n /\ (i + 1) + 1 \in 1..(n + 1)
    BY <1>1
  <2>2. t[i + 1] \in Seq(S) /\ t[i + 1] = u[(i + 1) + 1]
    BY <1>1, <2>1, ElementOfSeq DEF n
  <2>3. g[(i + 1) + 1] = g[i + 1] \o t[i + 1]
    BY <1>4, <2>1, <2>2, Zenon
  <2>4. h[i + 1] = h[i] \o t[i + 1]
    BY <1>5, <2>1, Zenon
  <2> QED
    BY <2>2, <2>3, <2>4
<1>9. g[n + 1] = Head(u) \o h[n]
  <2>1. PICK a \in Seq(S) : a = Head(u)
    BY <1>1
  <2>2. Leads(S, g, h, t, n, a)
    BY <1>5, <1>6, <1>7, <1>8, <2>1 DEF Leads
  <2>3. n \in Nat
    BY <1>1
  <2>4. g[n + 1] = a \o h[n]
    BY <2>2, <2>3, EndsAfter
  <2> QED
    BY <2>1, <2>4, Zenon
<1> QED
  BY <1>1, <1>2, <1>3, <1>9 DEF t, n

\* What the parts are of, they are of end to end.
LEMMA FlattenType ==
  ASSUME NEW S, NEW u \in Seq(Seq(S))
  PROVE  FlattenSeq(u) \in Seq(S)
<1>1. PICK g \in [0..Len(u) -> Seq(S)] : g[Len(u)] = FlattenSeq(u)
  BY Flattened
<1>2. Len(u) \in 0..Len(u)
  BY LenProperties
<1> QED
  BY <1>1, <1>2

-----------------------------------------------------------------------------
(* Numbers in bytes.                                                       *)

\* The values of Power.
LEMMA PowerValues ==
  /\ Power[0] = 1
  /\ \A k \in Nat : Power[k] \in Nat /\ Power[k] # 0 /\ Power[k + 1] = Base * Power[k]
<1> DEFINE f == [p \in Nat \X (Nat \ {0}) |-> Base * p[2]]
           S == Nat \ {0}
<1>1. Starts(S, 1, f)
  <2>1. \A b, c \in Nat \ {0} : b * c \in Nat \ {0}
    OBVIOUS
  <2>2. Base \in Nat \ {0}
    BY BytesAssumption
  <2>3. \A p \in Nat \X S : Base * p[2] \in S
    BY <2>1, <2>2
  <2> QED
    BY <2>3 DEF Starts
<1>2. PICK g : Iteration(g, S, 1, f)
  <2> HIDE DEF f, S
  <2> QED
    BY <1>1, IterationExists, Zenon
<1>3. g \in [Nat -> S] /\ g[0] = 1 /\ \A n \in Nat : g[n + 1] = f[<<n, g[n]>>]
  <2> HIDE DEF f, S
  <2> QED
    BY <1>2 DEF Iteration
<1>4. \A n \in Nat : g[n] \in S /\ g[n + 1] = Base * g[n]
  BY <1>3
<1> HIDE DEF f
<1>5. g = [k \in Nat |-> IF k = 0 THEN 1 ELSE Base * g[k - 1]]
  <2>1. ASSUME NEW k \in Nat
        PROVE  g[k] = IF k = 0 THEN 1 ELSE Base * g[k - 1]
    <3>1. CASE k = 0
      BY <1>3, <3>1
    <3>2. CASE k # 0
      <4>1. k - 1 \in Nat /\ (k - 1) + 1 = k
        BY <3>2
      <4> QED
        BY <1>4, <3>2, <4>1
    <3> QED
      BY <3>1, <3>2
  <2> QED
    BY <1>3, <2>1
<1>6. Power = [k \in Nat |-> IF k = 0 THEN 1 ELSE Base * Power[k - 1]]
  BY <1>5 DEF Power
<1> DEFINE P == Power
<1>7. P = [k \in Nat |-> IF k = 0 THEN 1 ELSE Base * P[k - 1]]
  BY <1>6
<1> HIDE DEF P
<1>8. P[0] = 1 /\ \A k \in Nat : P[k + 1] = Base * P[k]
  <2>1. P[0] = 1
    BY <1>7
  <2>2. ASSUME NEW k \in Nat
        PROVE  P[k + 1] = Base * P[k]
    <3>1. k + 1 \in Nat /\ k + 1 # 0 /\ (k + 1) - 1 = k
      OBVIOUS
    <3>2. P[k + 1] = IF k + 1 = 0 THEN 1 ELSE Base * P[(k + 1) - 1]
      BY <1>7, <3>1
    <3> QED
      BY <3>1, <3>2
  <2> QED
    BY <2>1, <2>2
<1> DEFINE E == {k \in Nat : P[k] = g[k]}
<1>9. 0 \in E /\ \A k \in Nat : k \in E => k + 1 \in E
  BY <1>3, <1>4, <1>8
<1> HIDE DEF E
<1>10. \A k \in Nat : k \in E
  BY <1>9, Induction
<1> QED
  BY <1>4, <1>8, <1>10 DEF E, P

\* What is left of n after each byte.
Rests(r, n) == /\ r \in [Nat -> Nat] /\ r[0] = n
               /\ \A k \in Nat : r[k + 1] = r[k] \div Base

\* A quotient and a remainder.
LEMMA Division ==
  ASSUME NEW b \in Nat, b # 0, NEW n \in Nat
  PROVE  n \div b \in Nat /\ n % b \in 0..(b - 1) /\ n = b * (n \div b) + (n % b)
OBVIOUS

\* The bytes of a number are the remainders of what is left of it.
LEMMA LittleEndianRests ==
  ASSUME NEW n \in Nat
  PROVE  \E r : Rests(r, n) /\ \A w : LittleEndian(n, w) = [i \in 1..w |-> r[i - 1] % Base]
<1> DEFINE f == [p \in Nat \X Nat |-> p[2] \div Base]
<1>1. Base \in Nat /\ Base # 0
  BY BytesAssumption
<1>2. Starts(Nat, n, f)
  <2>1. \A p \in Nat \X Nat : p[2] \div Base \in Nat
    BY <1>1
  <2> QED
    BY <2>1 DEF Starts
<1>3. PICK r : Iteration(r, Nat, n, f)
  <2> HIDE DEF f
  <2> QED
    BY <1>2, IterationExists, Zenon
<1>4. Rests(r, n)
  <2>1. r \in [Nat -> Nat] /\ r[0] = n /\ \A k \in Nat : r[k + 1] = f[<<k, r[k]>>]
    <3> HIDE DEF f
    <3> QED
      BY <1>3 DEF Iteration
  <2>2. \A k \in Nat : r[k + 1] = r[k] \div Base
    BY <2>1
  <2> QED
    BY <2>1, <2>2 DEF Rests
<1> HIDE DEF f
<1> DEFINE rest[i \in Nat] == IF i = 0 THEN n ELSE rest[i - 1] \div Base
<1>5. r = [i \in Nat |-> IF i = 0 THEN n ELSE r[i - 1] \div Base]
  <2> HIDE DEF rest
  <2>1. r \in [Nat -> Nat] /\ r[0] = n /\ \A k \in Nat : r[k + 1] = r[k] \div Base
    BY <1>4 DEF Rests
  <2>2. ASSUME NEW i \in Nat
        PROVE  r[i] = IF i = 0 THEN n ELSE r[i - 1] \div Base
    <3>1. CASE i = 0
      BY <2>1, <3>1
    <3>2. CASE i # 0
      <4>1. i - 1 \in Nat /\ (i - 1) + 1 = i
        BY <3>2
      <4>2. r[(i - 1) + 1] = r[i - 1] \div Base
        BY <2>1, <4>1
      <4> QED
        BY <3>2, <4>1, <4>2
    <3> QED
      BY <3>1, <3>2
  <2> QED
    BY <2>1, <2>2
<1>6. rest = [i \in Nat |-> IF i = 0 THEN n ELSE rest[i - 1] \div Base]
  BY <1>5
<1>7. \A w : LittleEndian(n, w) = [i \in 1..w |-> rest[i - 1] % Base]
  BY DEF LittleEndian
<1> HIDE DEF rest
<1> DEFINE E == {k \in Nat : rest[k] = r[k]}
<1>8. 0 \in E
  BY <1>4, <1>6 DEF Rests
<1>9. ASSUME NEW k \in Nat, k \in E
      PROVE  k + 1 \in E
  <2>1. k + 1 \in Nat /\ k + 1 # 0 /\ (k + 1) - 1 = k
    OBVIOUS
  <2>2. rest[k + 1] = rest[k] \div Base
    BY <1>6, <2>1
  <2>3. r[k + 1] = r[k] \div Base
    BY <1>4 DEF Rests
  <2> QED
    BY <1>9, <2>2, <2>3
<1> HIDE DEF E
<1>10. \A k \in Nat : k \in E
  BY <1>8, <1>9, Induction
<1>11. \A k \in Nat : rest[k] = r[k]
  BY <1>10 DEF E
<1>12. ASSUME NEW w
       PROVE  LittleEndian(n, w) = [i \in 1..w |-> r[i - 1] % Base]
  <2>1. \A i \in 1..w : i - 1 \in Nat
    OBVIOUS
  <2>2. [i \in 1..w |-> rest[i - 1] % Base] = [i \in 1..w |-> r[i - 1] % Base]
    BY <1>11, <2>1
  <2> QED
    BY <1>7, <2>2
<1> QED
  BY <1>4, <1>12

\* A number in w bytes.
LEMMA LittleEndianType ==
  ASSUME NEW n \in Nat, NEW w \in Nat
  PROVE  LittleEndian(n, w) \in Seq(Octet) /\ Len(LittleEndian(n, w)) = w
<1>1. PICK r : Rests(r, n) /\ \A v : LittleEndian(n, v) = [i \in 1..v |-> r[i - 1] % Base]
  BY LittleEndianRests
<1> DEFINE e == [i \in 1..w |-> r[i - 1] % Base]
<1>2. LittleEndian(n, w) = e
  BY <1>1
<1>3. ASSUME NEW i \in 1..w
      PROVE  r[i - 1] % Base \in Octet
  <2> HIDE DEF e
  <2>1. i - 1 \in Nat
    OBVIOUS
  <2>2. r \in [Nat -> Nat]
    BY <1>1 DEF Rests
  <2>3. r[i - 1] \in Nat
    BY <2>1, <2>2
  <2> QED
    BY <2>3, BytesAssumption, Division DEF Octet
<1>4. e \in [1..w -> Octet]
  BY <1>3
<1> HIDE DEF e
<1>5. e \in Seq(Octet) /\ Len(e) = w
  BY <1>4, LenProperties, SeqDef
<1> QED
  BY <1>2, <1>5

\* A number that goes into w bytes is read back from them.
LEMMA LittleEndianReads ==
  ASSUME NEW w \in Nat, NEW n \in Below(w), NEW m \in Below(w),
         LittleEndian(n, w) = LittleEndian(m, w)
  PROVE  n = m
<1>1. /\ Base \in Nat /\ Base # 0
      /\ Power[0] = 1
      /\ \A k \in Nat : Power[k] \in Nat /\ Power[k] # 0 /\ Power[k + 1] = Base * Power[k]
  BY BytesAssumption, PowerValues
<1>2. n \in Nat /\ m \in Nat /\ n < Power[w] /\ m < Power[w]
  BY <1>1 DEF Below
<1>3. PICK r : Rests(r, n) /\ \A v : LittleEndian(n, v) = [i \in 1..v |-> r[i - 1] % Base]
  BY <1>2, LittleEndianRests
<1>4. PICK s : Rests(s, m) /\ \A v : LittleEndian(m, v) = [i \in 1..v |-> s[i - 1] % Base]
  BY <1>2, LittleEndianRests
<1>5. \A i \in 1..w : r[i - 1] % Base = s[i - 1] % Base
  <2>1. [i \in 1..w |-> r[i - 1] % Base] = [i \in 1..w |-> s[i - 1] % Base]
    BY <1>3, <1>4
  <2> DEFINE a == [i \in 1..w |-> r[i - 1] % Base]
             b == [i \in 1..w |-> s[i - 1] % Base]
  <2>2. a = b /\ (\A i \in 1..w : a[i] = r[i - 1] % Base) /\ \A i \in 1..w : b[i] = s[i - 1] % Base
    BY <2>1
  <2> HIDE DEF a, b
  <2> QED
    BY <2>2
<1>6. r[w] = 0 /\ s[w] = 0
  <2>1. ASSUME NEW x \in Nat, x < Power[w], NEW t, Rests(t, x)
        PROVE  t[w] = 0
    <3> DEFINE E == {k \in Nat : k <= w => t[k] < Power[w - k]}
    <3>0. t \in [Nat -> Nat] /\ t[0] = x /\ \A k \in Nat : t[k + 1] = t[k] \div Base
      BY <2>1 DEF Rests
    <3>1. 0 \in E
      <4>1. w - 0 = w
        OBVIOUS
      <4>2. t[0] < Power[w - 0]
        BY <2>1, <3>0, <4>1
      <4> QED
        BY <4>2
    <3>2. ASSUME NEW k \in Nat, k \in E
          PROVE  k + 1 \in E
      <4> SUFFICES ASSUME k + 1 <= w PROVE t[k + 1] < Power[w - (k + 1)]
        OBVIOUS
      <4>1. w - (k + 1) \in Nat /\ (w - (k + 1)) + 1 = w - k /\ k <= w
        OBVIOUS
      <4>2. t[k] < Power[w - k]
        BY <3>2, <4>1
      <4> HIDE DEF E
      <4>3. PICK c \in Nat : c = Power[w - (k + 1)]
        BY <1>1, <4>1
      <4>4. Power[w - k] = Base * c
        BY <1>1, <4>1, <4>3
      <4>5. PICK y \in Nat : y = t[k]
        BY <3>0
      <4>6. PICK b \in Nat : b = Base /\ b # 0
        BY <1>1
      <4>7. PICK d \in Nat : d = y \div b /\ y % b \in 0..(b - 1) /\ y = b * d + (y % b)
        BY <4>6, Division
      <4>8. b * d < b * c
        <5>1. y < b * c
          BY <4>2, <4>4, <4>5, <4>6
        <5>2. y % b \in Nat
          BY <4>6, <4>7
        <5>3. PICK z \in Nat : z = y % b
          BY <5>2
        <5>4. PICK v \in Nat : v = b * d
          OBVIOUS
        <5>5. y = v + z
          BY <4>7, <5>3, <5>4
        <5> QED
          BY <5>1, <5>4, <5>5
      <4>9. d < c
        <5>1. SUFFICES ASSUME c <= d PROVE b * c <= b * d
          BY <4>8
        <5>2. PICK z \in Nat : d = c + z
          BY <5>1
        <5>3. b * d = b * c + b * z /\ b * z \in Nat
          BY <5>2
        <5> QED
          BY <5>3
      <4> QED
        BY <3>0, <4>3, <4>5, <4>6, <4>7, <4>9
    <3>3. \A k \in Nat : k \in E
      <4> HIDE DEF E
      <4> QED
        BY <3>1, <3>2, Induction
    <3>4. t[w] < Power[w - w] /\ w - w = 0
      BY <3>3
    <3> QED
      BY <1>1, <3>0, <3>4
  <2> QED
    BY <1>2, <1>3, <1>4, <2>1
<1> DEFINE E == {k \in Nat : k <= w => r[w - k] = s[w - k]}
<1>7. 0 \in E
  <2>1. w - 0 = w
    OBVIOUS
  <2>2. r[w - 0] = s[w - 0]
    BY <1>6, <2>1
  <2> QED
    BY <2>2
<1>8. ASSUME NEW k \in Nat, k \in E
      PROVE  k + 1 \in E
  <2> SUFFICES ASSUME k + 1 <= w PROVE r[w - (k + 1)] = s[w - (k + 1)]
    OBVIOUS
  <2>1. PICK i \in 1..w : i = w - k /\ i - 1 = w - (k + 1) /\ i - 1 \in Nat /\ (i - 1) + 1 = i
    OBVIOUS
  <2>2. r[i] = s[i]
    BY <1>8, <2>1
  <2> HIDE DEF E
  <2>3. /\ r[i] = r[i - 1] \div Base /\ s[i] = s[i - 1] \div Base
        /\ r[i - 1] \in Nat /\ s[i - 1] \in Nat
    <3>1. r[(i - 1) + 1] = r[i - 1] \div Base /\ s[(i - 1) + 1] = s[i - 1] \div Base
      BY <1>3, <1>4, <2>1 DEF Rests
    <3> QED
      BY <1>3, <1>4, <2>1, <3>1 DEF Rests
  <2>4. /\ r[i - 1] = Base * (r[i - 1] \div Base) + (r[i - 1] % Base)
        /\ s[i - 1] = Base * (s[i - 1] \div Base) + (s[i - 1] % Base)
    BY <1>1, <2>3, Division
  <2>5. r[i - 1] % Base = s[i - 1] % Base
    BY <1>5
  <2>6. r[i - 1] = s[i - 1]
    BY <2>2, <2>3, <2>4, <2>5
  <2> QED
    BY <2>1, <2>6
<1>9. \A k \in Nat : k \in E
  <2> HIDE DEF E
  <2> QED
    BY <1>7, <1>8, Induction
<1>10. r[w - w] = s[w - w] /\ w - w = 0
  BY <1>9
<1> QED
  BY <1>3, <1>4, <1>10 DEF Rests

-----------------------------------------------------------------------------
(* Parts read back.                                                        *)

\* g[i] is the first i of the n parts in u, end to end.
Joins(S, g, u, n) ==
  /\ g \in [0..n -> Seq(S)] /\ g[0] = <<>>
  /\ \A i \in 1..n : u[i] \in Seq(S) /\ g[i] = g[i - 1] \o u[i]

\* FlattenSeq of a list of parts is the parts end to end.
LEMMA FlattenJoins ==
  ASSUME NEW S, NEW u \in Seq(Seq(S)), NEW n \in Nat, Len(u) = n
  PROVE  \E g : Joins(S, g, u, n) /\ g[n] = FlattenSeq(u)
<1>1. PICK g : g \in [0..Len(u) -> Seq(S)] /\ Ends(g, u) /\ g[Len(u)] = FlattenSeq(u)
  BY Flattened
<1>2. \A i \in 1..n : u[i] \in Seq(S)
  BY ElementOfSeq
<1>3. g \in [0..n -> Seq(S)] /\ g[0] = <<>> /\ \A i \in 1..n : g[i] = g[i - 1] \o u[i]
  BY <1>1 DEF Ends
<1>4. Joins(S, g, u, n)
  BY <1>2, <1>3, Zenon DEF Joins
<1> QED
  BY <1>1, <1>4

\* With each part, g is longer by the part and ends in it.
Grows(g, a, u, b, n) ==
  /\ a \in [0..n -> Nat] /\ \A i \in 0..n : a[i] = Len(g[i])
  /\ b \in [1..n -> Nat] /\ \A i \in 1..n : b[i] = Len(u[i])
  /\ \A i \in 0..(n - 1) :
       /\ a[i + 1] = a[i] + b[i + 1]
       /\ \A p \in 1..a[i] : g[i + 1][p] = g[i][p]
       /\ \A p \in 1..b[i + 1] : g[i + 1][a[i] + p] = u[i + 1][p]

\* End to end, the lengths add up and every part stands after those before it.
LEMMA JoinsGrow ==
  ASSUME NEW S, NEW n \in Nat, NEW g, NEW u, Joins(S, g, u, n)
  PROVE  \E a, b : Grows(g, a, u, b, n)
<1>1. /\ g \in [0..n -> Seq(S)]
      /\ \A i \in 1..n : u[i] \in Seq(S) /\ g[i] = g[i - 1] \o u[i]
  BY DEF Joins
<1> DEFINE a == [i \in 0..n |-> Len(g[i])]
           b == [i \in 1..n |-> Len(u[i])]
<1>2. a \in [0..n -> Nat] /\ \A i \in 0..n : a[i] = Len(g[i])
  BY <1>1, LenProperties
<1>3. b \in [1..n -> Nat] /\ \A i \in 1..n : b[i] = Len(u[i])
  BY <1>1, LenProperties
<1> HIDE DEF a, b
<1>4. ASSUME NEW i \in 0..(n - 1)
      PROVE  /\ a[i + 1] = a[i] + b[i + 1]
             /\ \A p \in 1..a[i] : g[i + 1][p] = g[i][p]
             /\ \A p \in 1..b[i + 1] : g[i + 1][a[i] + p] = u[i + 1][p]
  <2>0. i \in 0..n /\ i + 1 \in 0..n /\ i + 1 \in 1..n /\ (i + 1) - 1 = i
    OBVIOUS
  <2>1. PICK x \in Seq(S) : x = g[i]
    BY <1>1, <2>0
  <2>2. PICK y \in Seq(S) : y = u[i + 1]
    BY <1>1, <2>0
  <2>3. g[i + 1] = x \o y
    BY <1>1, <2>0, <2>1, <2>2, Zenon
  <2>4. PICK l \in Nat : l = Len(x)
    BY LenProperties
  <2>5. PICK m \in Nat : m = Len(y)
    BY LenProperties
  <2>6. /\ Len(x \o y) = l + m
        /\ \A p \in 1..(l + m) : (x \o y)[p] = IF p <= l THEN x[p] ELSE y[p - l]
    BY <2>4, <2>5, ConcatProperties
  <2>7. a[i] = l /\ b[i + 1] = m /\ a[i + 1] = l + m
    BY <1>2, <1>3, <2>0, <2>1, <2>2, <2>3, <2>4, <2>5, <2>6
  <2>8. \A p \in 1..l : (x \o y)[p] = x[p]
    BY <2>6
  <2>9. ASSUME NEW p \in 1..m
        PROVE  (x \o y)[l + p] = y[p]
    <3>1. l + p \in 1..(l + m) /\ ~(l + p <= l) /\ (l + p) - l = p
      OBVIOUS
    <3> QED
      BY <2>6, <3>1
  <2> QED
    BY <2>1, <2>2, <2>3, <2>7, <2>8, <2>9
<1>5. Grows(g, a, u, b, n)
  BY <1>2, <1>3, <1>4 DEF Grows
<1> QED
  BY <1>5

\* What is put end to end stays.
LEMMA GrowsKeep ==
  ASSUME NEW n \in Nat, NEW g, NEW a, NEW u, NEW b, Grows(g, a, u, b, n), NEW k \in 0..n
  PROVE  a[k] <= a[n] /\ \A p \in 1..a[k] : g[n][p] = g[k][p]
<1>0. /\ a \in [0..n -> Nat] /\ b \in [1..n -> Nat]
      /\ \A i \in 0..(n - 1) : a[i + 1] = a[i] + b[i + 1] /\ \A p \in 1..a[i] : g[i + 1][p] = g[i][p]
  BY DEF Grows
<1> DEFINE kept(m) == a[k] <= a[m] /\ \A p \in 1..a[k] : g[m][p] = g[k][p]
           E == {d \in Nat : k + d <= n => kept(k + d)}
<1>1. 0 \in E
  <2>1. k + 0 = k /\ a[k] \in Nat
    BY <1>0
  <2>2. kept(k + 0)
    BY <2>1
  <2> HIDE DEF kept
  <2> QED
    BY <2>2
<1>2. ASSUME NEW d \in Nat, d \in E
      PROVE  d + 1 \in E
  <2>0. SUFFICES ASSUME k + (d + 1) <= n PROVE kept(k + (d + 1))
    <3> HIDE DEF kept
    <3> QED
      OBVIOUS
  <2>1. PICK m \in Nat : m = k + d
    OBVIOUS
  <2>2. k + (d + 1) = m + 1 /\ m + 1 \in 1..n /\ m <= n /\ m \in 0..(n - 1) /\ m \in 0..n
    BY <2>0, <2>1
  <2>3. kept(m)
    <3> HIDE DEF kept
    <3> QED
      BY <1>2, <2>1, <2>2
  <2> HIDE DEF E
  <2>7. PICK x \in Nat : x = a[k]
    BY <1>0
  <2>8. PICK y \in Nat : y = a[m]
    BY <1>0, <2>2
  <2>9. PICK z \in Nat : z = b[m + 1]
    BY <1>0, <2>2
  <2>4. a[m + 1] = y + z
    BY <1>0, <2>2, <2>8, <2>9
  <2>5. \A p \in 1..y : g[m + 1][p] = g[m][p]
    BY <1>0, <2>2, <2>8
  <2>6. kept(m + 1)
    BY <2>3, <2>4, <2>5, <2>7, <2>8
  <2> HIDE DEF kept
  <2> QED
    BY <2>2, <2>6
<1> HIDE DEF kept
<1>3. \A d \in Nat : d \in E
  <2> HIDE DEF E
  <2> QED
    BY <1>1, <1>2, Induction
<1>4. n - k \in Nat /\ k + (n - k) = n
  OBVIOUS
<1>5. kept(n)
  BY <1>3, <1>4
<1> QED
  BY <1>5 DEF kept

\* When the parts before one are the same, either it has one length in both lists
\* or all the parts after it have.
Aligned(u, v, n) ==
  \A i \in 1..n :
    (\A j \in 1..(i - 1) : u[j] = v[j])
      => Len(u[i]) = Len(v[i]) \/ \A j \in (i + 1)..n : Len(u[j]) = Len(v[j])

\* Aligned parts are read back from what they are end to end.
LEMMA JoinsReadBack ==
  ASSUME NEW S, NEW n \in Nat, NEW g, NEW h, NEW u, NEW v,
         Joins(S, g, u, n), Joins(S, h, v, n), Aligned(u, v, n), g[n] = h[n]
  PROVE  \A i \in 1..n : u[i] = v[i]
<1>0. SUFFICES ASSUME \E i \in 1..n : u[i] # v[i]
               PROVE  FALSE
  OBVIOUS
<1> DEFINE D == {i \in 1..n : u[i] # v[i]}
<1>1. PICK i : i \in D /\ \A k \in D : i <= k
  <2>1. D \subseteq Nat /\ D # {}
    BY <1>0
  <2> HIDE DEF D
  <2> QED
    BY <2>1, Least
<1>2. i \in 1..n /\ u[i] # v[i] /\ i \in Nat /\ \A j \in 1..(i - 1) : u[j] = v[j]
  BY <1>1
<1> HIDE DEF D
<1>3. PICK a, b : Grows(g, a, u, b, n)
  BY JoinsGrow
<1>4. PICK c, d : Grows(h, c, v, d, n)
  BY JoinsGrow
<1>5. g[i - 1] = h[i - 1]
  <2> DEFINE E == {k \in Nat : k <= i - 1 => g[k] = h[k]}
  <2>1. 0 \in E
    BY DEF Joins
  <2>2. ASSUME NEW k \in Nat, k \in E
        PROVE  k + 1 \in E
    <3>0. SUFFICES ASSUME k + 1 <= i - 1 PROVE g[k + 1] = h[k + 1]
      OBVIOUS
    <3>1. k + 1 \in 1..(i - 1) /\ k + 1 \in 1..n /\ (k + 1) - 1 = k /\ k <= i - 1
      BY <1>2, <3>0
    <3>2. g[k] = h[k] /\ u[k + 1] = v[k + 1]
      BY <1>2, <2>2, <3>1
    <3> HIDE DEF E
    <3>3. g[k + 1] = g[k] \o u[k + 1]
      BY <3>1, Zenon DEF Joins
    <3>4. h[k + 1] = h[k] \o v[k + 1]
      BY <3>1, Zenon DEF Joins
    <3> QED
      BY <3>2, <3>3, <3>4, Zenon
  <2>3. \A k \in Nat : k \in E
    <3> HIDE DEF E
    <3> QED
      BY <2>1, <2>2, Induction
  <2>4. i - 1 \in Nat /\ i - 1 <= i - 1
    BY <1>2
  <2> QED
    BY <2>3, <2>4
<1>6. /\ a \in [0..n -> Nat] /\ (\A k \in 0..n : a[k] = Len(g[k]))
      /\ b \in [1..n -> Nat] /\ (\A k \in 1..n : b[k] = Len(u[k]))
      /\ \A k \in 0..(n - 1) : a[k + 1] = a[k] + b[k + 1]
  BY <1>3 DEF Grows
<1>7. /\ c \in [0..n -> Nat] /\ (\A k \in 0..n : c[k] = Len(h[k]))
      /\ d \in [1..n -> Nat] /\ (\A k \in 1..n : d[k] = Len(v[k]))
      /\ \A k \in 0..(n - 1) : c[k + 1] = c[k] + d[k + 1]
  BY <1>4 DEF Grows
<1>8. PICK q \in 0..(n - 1) : q = i - 1 /\ q + 1 = i
  BY <1>2
<1>9. a[q] = c[q] /\ a[n] = c[n]
  <2>1. n \in 0..n /\ q \in 0..n
    OBVIOUS
  <2> QED
    BY <1>5, <1>6, <1>7, <1>8, <2>1
<1>10. b[i] = d[i]
  <2>1. b[i] = d[i] \/ \A j \in (i + 1)..n : b[j] = d[j]
    <3>1. Len(u[i]) = Len(v[i]) \/ \A j \in (i + 1)..n : Len(u[j]) = Len(v[j])
      BY <1>2 DEF Aligned
    <3>2. \A j \in (i + 1)..n : j \in 1..n
      BY <1>2
    <3> QED
      BY <1>2, <1>6, <1>7, <3>1, <3>2
  <2>2. ASSUME \A j \in (i + 1)..n : b[j] = d[j]
        PROVE  a[i] = c[i]
    <3> DEFINE E == {e \in Nat : i + e <= n => a[i + e] - a[i] = c[i + e] - c[i]}
    <3>1. 0 \in E
      <4>1. i + 0 = i /\ i \in 0..n
        BY <1>2
      <4>2. a[i + 0] - a[i] = c[i + 0] - c[i]
        BY <1>6, <1>7, <4>1
      <4> QED
        BY <4>2
    <3>2. ASSUME NEW e \in Nat, e \in E
          PROVE  e + 1 \in E
      <4>0. SUFFICES ASSUME i + (e + 1) <= n
                     PROVE  a[i + (e + 1)] - a[i] = c[i + (e + 1)] - c[i]
        OBVIOUS
      <4>1. PICK m \in Nat : m = i + e
        BY <1>2
      <4>2. /\ i + (e + 1) = m + 1 /\ m + 1 \in (i + 1)..n /\ m + 1 \in 1..n /\ m \in 0..(n - 1)
            /\ m \in 0..n /\ i \in 0..n /\ m <= n
        BY <1>2, <4>0, <4>1
      <4>3. a[m] - a[i] = c[m] - c[i]
        BY <3>2, <4>1, <4>2
      <4> HIDE DEF E
      <4>4. PICK w \in Nat : w = a[m]
        BY <1>6, <4>2
      <4>5. PICK x \in Nat : x = a[i]
        BY <1>6, <4>2
      <4>6. PICK y \in Nat : y = c[m]
        BY <1>7, <4>2
      <4>7. PICK z \in Nat : z = c[i]
        BY <1>7, <4>2
      <4>8. PICK t \in Nat : t = b[m + 1] /\ t = d[m + 1]
        BY <1>6, <2>2, <4>2
      <4>9. a[m + 1] = w + t /\ c[m + 1] = y + t
        BY <1>6, <1>7, <4>2, <4>4, <4>6, <4>8
      <4>10. a[m + 1] - a[i] = c[m + 1] - c[i]
        BY <4>3, <4>4, <4>5, <4>6, <4>7, <4>9
      <4> QED
        BY <4>2, <4>10
    <3>3. \A e \in Nat : e \in E
      <4> HIDE DEF E
      <4> QED
        BY <3>1, <3>2, Induction
    <3>4. n - i \in Nat /\ i + (n - i) = n
      BY <1>2
    <3>5. a[n] - a[i] = c[n] - c[i]
      BY <3>3, <3>4
    <3> HIDE DEF E
    <3>6. PICK x \in Nat, y \in Nat, z \in Nat : x = a[i] /\ y = c[i] /\ z = a[n] /\ z = c[n]
      BY <1>2, <1>6, <1>7, <1>9
    <3> QED
      BY <3>5, <3>6
  <2>3. PICK x \in Nat, y \in Nat, z \in Nat :
          x = a[q] /\ y = b[i] /\ z = d[i] /\ a[i] = x + y /\ c[i] = x + z
    BY <1>2, <1>6, <1>7, <1>8, <1>9
  <2> QED
    BY <2>1, <2>2, <2>3
<1>11. ASSUME NEW p \in 1..b[i]
       PROVE  u[i][p] = v[i][p]
  <2>1. PICK x \in Nat, y \in Nat : /\ x = a[q] /\ x = c[q] /\ y = b[i] /\ y = d[i]
                                    /\ a[i] = x + y /\ c[i] = x + y
    BY <1>2, <1>6, <1>7, <1>8, <1>9, <1>10
  <2>2. g[i][x + p] = u[i][p]
    <3>1. p \in 1..b[q + 1] /\ a[q] = x
      BY <1>8, <2>1
    <3>2. \A r \in 1..b[q + 1] : g[q + 1][a[q] + r] = u[q + 1][r]
      BY <1>3 DEF Grows
    <3> QED
      BY <1>8, <3>1, <3>2
  <2>3. h[i][x + p] = v[i][p]
    <3>1. p \in 1..d[q + 1] /\ c[q] = x
      BY <1>8, <1>10, <2>1
    <3>2. \A r \in 1..d[q + 1] : h[q + 1][c[q] + r] = v[q + 1][r]
      BY <1>4 DEF Grows
    <3> QED
      BY <1>8, <3>1, <3>2
  <2>4. i \in 0..n /\ x + p \in 1..(x + y)
    BY <1>2, <2>1
  <2>5. \A r \in 1..a[i] : g[n][r] = g[i][r]
    BY <1>3, <2>4, GrowsKeep
  <2>6. \A r \in 1..c[i] : h[n][r] = h[i][r]
    BY <1>4, <2>4, GrowsKeep
  <2>7. g[n][x + p] = g[i][x + p] /\ h[n][x + p] = h[i][x + p]
    BY <2>1, <2>4, <2>5, <2>6
  <2> QED
    BY <2>2, <2>3, <2>7
<1>12. u[i] = v[i]
  <2>1. u[i] \in Seq(S) /\ v[i] \in Seq(S)
    BY <1>2 DEF Joins
  <2>2. Len(u[i]) = b[i] /\ Len(v[i]) = b[i]
    BY <1>2, <1>6, <1>7, <1>10
  <2>3. \A p \in 1..Len(u[i]) : u[i][p] = v[i][p]
    BY <1>11, <2>2
  <2> QED
    BY <2>1, <2>2, <2>3, SeqEqual
<1> QED
  BY <1>2, <1>12

\* One part,
LEMMA OfOne ==
  ASSUME NEW T, NEW a \in T
  PROVE  \E s \in Seq(T) : /\ s = <<a>> /\ Len(s) = 1
                          /\ s[1] = a
<1> DEFINE w == <<a>>
<1>1. w \in Seq(T) /\ Len(w) = 1 /\ w[1] = a
  OBVIOUS
<1> QED
  BY <1>1

\* two parts,
LEMMA OfTwo ==
  ASSUME NEW T, NEW a \in T, NEW b \in T
  PROVE  \E s \in Seq(T) : /\ s = <<a, b>> /\ Len(s) = 2
                          /\ s[1] = a /\ s[2] = b
<1> DEFINE w == <<a, b>>
<1>1. w \in Seq(T) /\ Len(w) = 2 /\ w[1] = a /\ w[2] = b
  OBVIOUS
<1> QED
  BY <1>1

\* and three parts are lists of parts.
LEMMA OfThree ==
  ASSUME NEW T, NEW a \in T, NEW b \in T, NEW c \in T
  PROVE  \E s \in Seq(T) : /\ s = <<a, b, c>> /\ Len(s) = 3
                          /\ s[1] = a /\ s[2] = b /\ s[3] = c
<1> DEFINE w == <<a, b, c>>
<1>1. w \in Seq(T) /\ Len(w) = 3 /\ w[1] = a /\ w[2] = b /\ w[3] = c
  OBVIOUS
<1> QED
  BY <1>1

\* One list of parts after another.
LEMMA Joined ==
  ASSUME NEW T, NEW w \in Seq(T), NEW z \in Seq(T), NEW m \in Nat, NEW n \in Nat, Len(w) = m, Len(z) = n
  PROVE  /\ w \o z \in Seq(T) /\ Len(w \o z) = m + n
         /\ \A i \in 1..m : (w \o z)[i] = w[i]
         /\ \A i \in 1..n : (w \o z)[m + i] = z[i]
<1>1. /\ w \o z \in Seq(T) /\ Len(w \o z) = m + n
      /\ \A i \in 1..(m + n) : (w \o z)[i] = IF i <= m THEN w[i] ELSE z[i - m]
  BY ConcatProperties
<1>2. \A i \in 1..m : i \in 1..(m + n) /\ i <= m
  OBVIOUS
<1>3. \A i \in 1..n : m + i \in 1..(m + n) /\ ~(m + i <= m) /\ (m + i) - m = i
  OBVIOUS
<1>4. \A i \in 1..m : (w \o z)[i] = w[i]
  BY <1>1, <1>2
<1>5. \A i \in 1..n : (w \o z)[m + i] = z[i]
  BY <1>1, <1>3
<1> QED
  BY <1>1, <1>4, <1>5

-----------------------------------------------------------------------------
(* Frames.                                                                 *)

\* What is hashed: domains and bytes.
Symbols == Domains \cup Octet

\* The updates of a hash.
Parts == Seq(Symbols)

\* Two aligned lists of n parts with the same bytes.
SameBytes(u, v, n) ==
  /\ Len(u) = n /\ Len(v) = n /\ FlattenSeq(u) = FlattenSeq(v)
  /\ Aligned(u, v, n)

\* Aligned lists with the same bytes are the same list.
LEMMA SameParts ==
  ASSUME NEW S, NEW u \in Seq(Seq(S)), NEW v \in Seq(Seq(S)), NEW n \in Nat,
         SameBytes(u, v, n)
  PROVE  \A i \in 1..n : u[i] = v[i]
<1>0. Len(u) = n /\ Len(v) = n /\ FlattenSeq(u) = FlattenSeq(v) /\ Aligned(u, v, n)
  BY DEF SameBytes
<1>1. PICK g : Joins(S, g, u, n) /\ g[n] = FlattenSeq(u)
  BY <1>0, FlattenJoins
<1>2. PICK h : Joins(S, h, v, n) /\ h[n] = FlattenSeq(v)
  BY <1>0, FlattenJoins
<1>3. g[n] = h[n]
  BY <1>0, <1>1, <1>2
<1>4. Joins(S, g, u, n) /\ Joins(S, h, v, n) /\ Aligned(u, v, n)
  BY <1>0, <1>1, <1>2
<1> QED
  BY <1>3, <1>4, JoinsReadBack

\* Pairs end to end.
LEMMA FlattenPairs ==
  ASSUME NEW S, NEW u \in Seq(Seq(S)), NEW n \in Nat, Len(u) = n,
         \A i \in 1..n : Len(u[i]) = 2
  PROVE  /\ FlattenSeq(u) \in Seq(S) /\ Len(FlattenSeq(u)) = 2 * n
         /\ \A i \in 1..n : /\ FlattenSeq(u)[2 * i - 1] = u[i][1]
                            /\ FlattenSeq(u)[2 * i] = u[i][2]
<1>1. PICK g : Joins(S, g, u, n) /\ g[n] = FlattenSeq(u)
  BY FlattenJoins
<1>2. g \in [0..n -> Seq(S)] /\ g[0] = <<>>
  BY <1>1 DEF Joins
<1>3. PICK a, b : Grows(g, a, u, b, n)
  BY <1>1, JoinsGrow
<1>4. /\ a \in [0..n -> Nat] /\ (\A i \in 0..n : a[i] = Len(g[i]))
      /\ (\A i \in 1..n : b[i] = 2)
      /\ \A i \in 0..(n - 1) : a[i + 1] = a[i] + b[i + 1]
  <2>1. /\ a \in [0..n -> Nat] /\ (\A i \in 0..n : a[i] = Len(g[i]))
        /\ (\A i \in 1..n : b[i] = Len(u[i]))
        /\ \A i \in 0..(n - 1) : a[i + 1] = a[i] + b[i + 1]
    BY <1>3, Zenon DEF Grows
  <2> QED
    BY <2>1, Zenon
<1> DEFINE E == {k \in Nat : k <= n => a[k] = 2 * k}
<1>5. 0 \in E
  <2>1. g[0] = <<>> /\ Len(<<>>) = 0
    BY <1>2
  <2>2. a[0] = 0
    BY <1>4, <2>1
  <2> QED
    BY <2>2
<1>6. ASSUME NEW k \in Nat, k \in E
      PROVE  k + 1 \in E
  <2>0. SUFFICES ASSUME k + 1 <= n PROVE a[k + 1] = 2 * (k + 1)
    OBVIOUS
  <2>1. k \in 0..(n - 1) /\ k + 1 \in 1..n /\ k <= n
    BY <2>0
  <2>2. a[k] = 2 * k
    BY <1>6, <2>1
  <2> HIDE DEF E
  <2>3. a[k + 1] = a[k] + 2
    BY <1>4, <2>1
  <2> QED
    BY <2>2, <2>3
<1>7. \A k \in Nat : k \in E
  <2> HIDE DEF E
  <2> QED
    BY <1>5, <1>6, Induction
<1>8. \A k \in 0..n : a[k] = 2 * k
  BY <1>7
<1> HIDE DEF E
<1>9. FlattenSeq(u) \in Seq(S) /\ Len(FlattenSeq(u)) = 2 * n /\ g[n] = FlattenSeq(u)
  BY <1>1, <1>2, <1>4, <1>8
<1>10. ASSUME NEW i \in 1..n
       PROVE  FlattenSeq(u)[2 * i - 1] = u[i][1] /\ FlattenSeq(u)[2 * i] = u[i][2]
  <2>1. PICK k \in 0..(n - 1) : k + 1 = i /\ 2 * i - 1 = 2 * k + 1 /\ 2 * i = 2 * k + 2
    <3>1. i - 1 \in 0..(n - 1) /\ (i - 1) + 1 = i
      OBVIOUS
    <3> QED
      BY <3>1
  <2>2. a[k] = 2 * k /\ a[i] = 2 * k + 2 /\ b[k + 1] = 2 /\ i \in 0..n
    BY <1>4, <1>8, <2>1
  <2>3. \A p \in 1..b[k + 1] : g[k + 1][a[k] + p] = u[k + 1][p]
    BY <1>3 DEF Grows
  <2>4. g[i][2 * k + 1] = u[i][1] /\ g[i][2 * k + 2] = u[i][2]
    BY <2>1, <2>2, <2>3
  <2>5. \A p \in 1..a[i] : g[n][p] = g[i][p]
    BY <1>3, <2>2, GrowsKeep
  <2>6. 2 * k + 1 \in 1..(2 * k + 2) /\ 2 * k + 2 \in 1..(2 * k + 2)
    OBVIOUS
  <2>7. g[n][2 * k + 1] = u[i][1] /\ g[n][2 * k + 2] = u[i][2]
    BY <2>2, <2>4, <2>5, <2>6
  <2> QED
    BY <1>9, <2>1, <2>7
<1> QED
  BY <1>9, <1>10

\* A sequence over a set is one over a larger set.
LEMMA SeqOfMore ==
  ASSUME NEW S, NEW T, S \subseteq T, NEW s \in Seq(S)
  PROVE  s \in Seq(T)
<1>1. Len(s) \in Nat /\ s \in [1..Len(s) -> S]
  BY LenProperties
<1>2. s \in [1..Len(s) -> T]
  BY <1>1
<1> QED
  BY <1>1, <1>2, SeqDef

\* Byte strings, domains and numbers are parts.
LEMMA PartsType ==
  /\ \A s \in Seq(Octet) : s \in Parts
  /\ \A domain \in Domains : <<domain>> \in Parts /\ Len(<<domain>>) = 1 /\ <<domain>>[1] = domain
  /\ \A n \in Nat : u64(n) \in Parts /\ Len(u64(n)) = U64_BYTES
  /\ \A n \in Nat : u32(n) \in Parts /\ Len(u32(n)) = U32_BYTES
<1>1. Octet \subseteq Symbols /\ Domains \subseteq Symbols
  BY DEF Symbols
<1>2. \A s \in Seq(Octet) : s \in Parts
  BY <1>1, SeqOfMore DEF Parts
<1>3. ASSUME NEW domain \in Domains
      PROVE  <<domain>> \in Parts /\ Len(<<domain>>) = 1 /\ <<domain>>[1] = domain
  <2>1. domain \in Symbols
    BY <1>1
  <2> HIDE DEF Domains
  <2> QED
    BY <2>1 DEF Parts
<1>4. ASSUME NEW n \in Nat
      PROVE  /\ u64(n) \in Parts /\ Len(u64(n)) = U64_BYTES
             /\ u32(n) \in Parts /\ Len(u32(n)) = U32_BYTES
  <2>1. U64_BYTES \in Nat /\ U32_BYTES \in Nat
    BY BytesAssumption
  <2>2. /\ LittleEndian(n, U64_BYTES) \in Seq(Octet) /\ Len(LittleEndian(n, U64_BYTES)) = U64_BYTES
        /\ LittleEndian(n, U32_BYTES) \in Seq(Octet) /\ Len(LittleEndian(n, U32_BYTES)) = U32_BYTES
    BY <2>1, LittleEndianType
  <2> QED
    BY <1>2, <2>2 DEF u64, u32
<1> QED
  BY <1>2, <1>3, <1>4

\* A length that goes into a frame.
Frameable(c) == c \in Parts /\ Len(c) \in Below(U64_BYTES)

\* What can be framed is a part and has a length.
LEMMA FrameableLength ==
  ASSUME NEW c, Frameable(c)
  PROVE  c \in Parts /\ Len(c) \in Nat
BY LenProperties DEF Frameable, Parts

\* A frame is the length and the component.
LEMMA FramedParts ==
  ASSUME NEW c, Frameable(c)
  PROVE  /\ Framed(c) \in Seq(Parts) /\ Len(Framed(c)) = 2
         /\ Framed(c)[1] = u64(Len(c)) /\ Framed(c)[2] = c
<1>1. u64(Len(c)) \in Parts /\ c \in Parts
  BY FrameableLength, PartsType
<1>2. PICK s \in Seq(Parts) : s = <<u64(Len(c)), c>> /\ Len(s) = 2 /\ s[1] = u64(Len(c)) /\ s[2] = c
  BY <1>1, OfTwo
<1> QED
  BY <1>2 DEF Framed

\* Equal frames are of equal lengths.
LEMMA FrameReads ==
  ASSUME NEW c, NEW d, Frameable(c), Frameable(d), u64(Len(c)) = u64(Len(d))
  PROVE  Len(c) = Len(d)
<1>1. U64_BYTES \in Nat
  BY BytesAssumption
<1> QED
  BY <1>1, LittleEndianReads DEF Frameable, u64

\* The components of hash_framed.
FrameableList(components, n) ==
  components \in Seq(Parts) /\ Len(components) = n /\ \A i \in 1..n : Frameable(components[i])

\* The updates of hash_framed: the domain, then a frame to each component.
LEMMA hash_framedParts ==
  ASSUME NEW domain \in Domains, NEW n \in Nat, NEW components, FrameableList(components, n)
  PROVE  /\ hash_framed(domain, components) \in Seq(Parts)
         /\ Len(hash_framed(domain, components)) = 1 + 2 * n
         /\ hash_framed(domain, components)[1] = <<domain>>
         /\ \A i \in 1..n :
              /\ hash_framed(domain, components)[1 + (2 * i - 1)] = u64(Len(components[i]))
              /\ hash_framed(domain, components)[1 + 2 * i] = components[i]
<1>0. components \in Seq(Parts) /\ Len(components) = n /\ \A i \in 1..n : Frameable(components[i])
  BY DEF FrameableList
<1> DEFINE f == [i \in DOMAIN components |-> Framed(components[i])]
<1>1. DOMAIN components = 1..n
  BY <1>0
<1>2. f \in [1..n -> Seq(Parts)] /\ \A i \in 1..n : f[i] = Framed(components[i])
  BY <1>0, <1>1, FramedParts
<1>3. hash_framed(domain, components) = <<<<domain>>>> \o FlattenSeq(f)
  BY DEF hash_framed
<1> HIDE DEF f
<1>4. f \in Seq(Seq(Parts)) /\ Len(f) = n
  BY <1>2, SeqDef, LenProperties
<1>5. ASSUME NEW i \in 1..n
      PROVE  Len(f[i]) = 2 /\ f[i][1] = u64(Len(components[i])) /\ f[i][2] = components[i]
  BY <1>0, <1>2, FramedParts
<1>6. PICK w \in Seq(Parts) : w = FlattenSeq(f) /\ Len(w) = 2 * n
        /\ \A i \in 1..n : w[2 * i - 1] = f[i][1] /\ w[2 * i] = f[i][2]
  BY <1>4, <1>5, FlattenPairs
<1>7. PICK z \in Seq(Parts) : z = <<<<domain>>>> /\ Len(z) = 1 /\ z[1] = <<domain>>
  <2>1. <<domain>> \in Parts
    BY PartsType
  <2> QED
    BY <2>1, OfOne
<1>8. PICK m \in Nat : m = 2 * n
  OBVIOUS
<1>9. /\ z \o w \in Seq(Parts) /\ Len(z \o w) = 1 + m
      /\ \A i \in 1..1 : (z \o w)[i] = z[i]
      /\ \A i \in 1..m : (z \o w)[1 + i] = w[i]
  BY <1>6, <1>7, <1>8, Joined
<1>10. hash_framed(domain, components) = z \o w
  BY <1>3, <1>6, <1>7, Zenon
<1>11. ASSUME NEW i \in 1..n
       PROVE  /\ (z \o w)[1 + (2 * i - 1)] = u64(Len(components[i]))
              /\ (z \o w)[1 + 2 * i] = components[i]
  <2>1. 2 * i - 1 \in 1..m /\ 2 * i \in 1..m
    BY <1>8
  <2> QED
    BY <1>5, <1>6, <1>9, <2>1
<1>12. (z \o w)[1] = <<domain>>
  BY <1>7, <1>9
<1> QED
  BY <1>8, <1>9, <1>10, <1>11, <1>12

\* Framing: the components are read back from the bytes.
LEMMA hash_framedReads ==
  ASSUME NEW domain \in Domains, NEW n \in Nat, NEW c, NEW d,
         FrameableList(c, n), FrameableList(d, n),
         FlattenSeq(hash_framed(domain, c)) = FlattenSeq(hash_framed(domain, d))
  PROVE  \A i \in 1..n : c[i] = d[i]
<1>1. PICK u \in Seq(Seq(Symbols)) :
        /\ u = hash_framed(domain, c) /\ Len(u) = 1 + 2 * n /\ u[1] = <<domain>>
        /\ \A i \in 1..n : u[1 + (2 * i - 1)] = u64(Len(c[i])) /\ u[1 + 2 * i] = c[i]
  <2> DEFINE u == hash_framed(domain, c)
  <2>1. /\ u \in Seq(Parts) /\ Len(u) = 1 + 2 * n /\ u[1] = <<domain>>
        /\ \A i \in 1..n : u[1 + (2 * i - 1)] = u64(Len(c[i])) /\ u[1 + 2 * i] = c[i]
    BY hash_framedParts, SMTT(20)
  <2> HIDE DEF u
  <2> QED
    BY <2>1, Zenon DEF Parts, u
<1>2. PICK v \in Seq(Seq(Symbols)) :
        /\ v = hash_framed(domain, d) /\ Len(v) = 1 + 2 * n /\ v[1] = <<domain>>
        /\ \A i \in 1..n : v[1 + (2 * i - 1)] = u64(Len(d[i])) /\ v[1 + 2 * i] = d[i]
  <2> DEFINE v == hash_framed(domain, d)
  <2>1. /\ v \in Seq(Parts) /\ Len(v) = 1 + 2 * n /\ v[1] = <<domain>>
        /\ \A i \in 1..n : v[1 + (2 * i - 1)] = u64(Len(d[i])) /\ v[1 + 2 * i] = d[i]
    BY hash_framedParts, SMTT(20)
  <2> HIDE DEF v
  <2> QED
    BY <2>1, Zenon DEF Parts, v
<1>3. /\ \A i \in 1..n : Frameable(c[i]) /\ Frameable(d[i])
  BY DEF FrameableList
<1>4. PICK m \in Nat : m = 1 + 2 * n
  OBVIOUS
<1>5. Aligned(u, v, m)
  <2>1. ASSUME NEW k \in 1..m, \A j \in 1..(k - 1) : u[j] = v[j]
        PROVE  Len(u[k]) = Len(v[k])
    <3>1. CASE k = 1
      BY <1>1, <1>2, <3>1
    <3>2. CASE k # 1 /\ k % 2 = 0
      <4>1. PICK i \in 1..n : k = 1 + (2 * i - 1)
        <5>1. k \div 2 \in 1..n /\ k = 1 + (2 * (k \div 2) - 1)
          BY <1>4, <3>2
        <5> QED
          BY <5>1
      <4>2. u[k] = u64(Len(c[i])) /\ v[k] = u64(Len(d[i]))
        BY <1>1, <1>2, <4>1
      <4>3. Len(c[i]) \in Nat /\ Len(d[i]) \in Nat
        BY <1>3, FrameableLength
      <4> QED
        BY <4>2, <4>3, PartsType
    <3>3. CASE k # 1 /\ k % 2 = 1
      <4>1. PICK i \in 1..n : k = 1 + 2 * i
        <5>1. k \div 2 \in 1..n /\ k = 1 + 2 * (k \div 2)
          BY <1>4, <3>3
        <5> QED
          BY <5>1
      <4>2. u[k] = c[i] /\ v[k] = d[i]
        BY <1>1, <1>2, <4>1
      <4>3. 1 + (2 * i - 1) \in 1..(k - 1)
        BY <4>1
      <4>4. u64(Len(c[i])) = u64(Len(d[i]))
        BY <1>1, <1>2, <2>1, <4>3
      <4> QED
        BY <1>3, <4>2, <4>4, FrameReads
    <3> QED
      BY <3>1, <3>2, <3>3
  <2> QED
    BY <2>1 DEF Aligned
<1>6. \A k \in 1..m : u[k] = v[k]
  <2>1. Len(u) = m /\ Len(v) = m /\ FlattenSeq(u) = FlattenSeq(v)
    BY <1>1, <1>2, <1>4
  <2>2. SameBytes(u, v, m)
    BY <1>5, <2>1 DEF SameBytes
  <2> QED
    BY <2>2, SameParts
<1>7. ASSUME NEW i \in 1..n
      PROVE  c[i] = d[i]
  <2>1. 1 + 2 * i \in 1..m
    BY <1>4
  <2> QED
    BY <1>1, <1>2, <1>6, <2>1
<1> QED
  BY <1>7

-----------------------------------------------------------------------------
(* What is hashed without frames.                                          *)

\* The updates of each kind of query.
LEMMA UpdatesOf ==
  ASSUME NEW q
  PROVE  /\ q[1] = "credential_context"
              => Updates(q) = hash_framed("VOLE-ARC/credential-context/v1", <<q[2]>>)
         /\ q[1] = "presentation_context"
              => Updates(q) = hash_framed("VOLE-ARC/presentation-context/v1", <<q[2]>>)
         /\ q[1] = "binding"
              => Updates(q) = hash_framed("VOLE-ARC/presentation-binding/v1", <<q[2]>>)
         /\ q[1] = "scoped" => Updates(q) = scoped(q[2], q[3], q[4])
         /\ q[1] = "credential_scope"
              => Updates(q) = hash_scope("VOLE-ARC/credential-scope/v1", <<q[2], q[3]>>)
         /\ q[1] = "presentation_scope"
              => Updates(q) = hash_scope("VOLE-ARC/presentation-scope/v1", <<q[2], q[3], q[4]>>)
         /\ q[1] = "credential"
              => Updates(q) = hash_scope("VOLE-ARC/credential/v1", <<q[2], q[3], q[4]>>)
         /\ q[1] = "signed" => Updates(q) = hash_scope("VOLE-ARC/signed/v1", <<q[2], q[3]>>)
         /\ q[1] = "tag" => Updates(q) = hash_scope("VOLE-ARC/tag/v1", <<q[2], q[3], u32(q[4])>>)
         /\ q[1] = "mayo_key" => Updates(q) = mayo_system_and_hash(q[2], q[3])
         /\ q[1] = "issuer_context"
              => Updates(q) = derive_issuer_context(q[2], q[3], q[4], q[5])
         /\ q[1] = "issue_statement"
              => Updates(q) = issue_statement(q[2], q[3], q[4], q[5])
         /\ q[1] = "presentation_statement"
              => Updates(q) = presentation_statement(q[2], q[3], q[4], q[5])
BY DEF Updates

\* The updates of hash_scope: the domain, then the parts.
LEMMA hash_scopeParts ==
  ASSUME NEW domain \in Domains, NEW n \in Nat, NEW parts \in Seq(Parts), Len(parts) = n
  PROVE  /\ hash_scope(domain, parts) \in Seq(Parts)
         /\ Len(hash_scope(domain, parts)) = 1 + n
         /\ hash_scope(domain, parts)[1] = <<domain>>
         /\ \A i \in 1..n : hash_scope(domain, parts)[1 + i] = parts[i]
<1>1. PICK z \in Seq(Parts) : z = <<<<domain>>>> /\ Len(z) = 1 /\ z[1] = <<domain>>
  <2>1. <<domain>> \in Parts
    BY PartsType
  <2> QED
    BY <2>1, OfOne
<1>2. /\ z \o parts \in Seq(Parts) /\ Len(z \o parts) = 1 + n
      /\ \A i \in 1..1 : (z \o parts)[i] = z[i]
      /\ \A i \in 1..n : (z \o parts)[1 + i] = parts[i]
  BY <1>1, Joined
<1>3. (z \o parts)[1] = <<domain>>
  BY <1>1, <1>2
<1>4. hash_scope(domain, parts) = z \o parts
  BY <1>1, Zenon DEF hash_scope
<1> QED
  BY <1>2, <1>3, <1>4

\* Two aligned lists of n parts.
AlignedLists(p, q, n) ==
  /\ p \in Seq(Parts) /\ Len(p) = n /\ q \in Seq(Parts) /\ Len(q) = n
  /\ Aligned(p, q, n)

\* Aligned parts are read back from the bytes of hash_scope.
LEMMA hash_scopeReads ==
  ASSUME NEW domain \in Domains, NEW n \in Nat, NEW p, NEW q, AlignedLists(p, q, n),
         FlattenSeq(hash_scope(domain, p)) = FlattenSeq(hash_scope(domain, q))
  PROVE  \A i \in 1..n : p[i] = q[i]
<1>0. /\ p \in Seq(Parts) /\ Len(p) = n /\ q \in Seq(Parts) /\ Len(q) = n
      /\ Aligned(p, q, n)
  BY DEF AlignedLists
<1>1. PICK u \in Seq(Parts) :
        /\ u = hash_scope(domain, p) /\ Len(u) = 1 + n /\ u[1] = <<domain>>
        /\ \A i \in 1..n : u[1 + i] = p[i]
  BY <1>0, hash_scopeParts
<1>2. PICK v \in Seq(Parts) :
        /\ v = hash_scope(domain, q) /\ Len(v) = 1 + n /\ v[1] = <<domain>>
        /\ \A i \in 1..n : v[1 + i] = q[i]
  BY <1>0, hash_scopeParts
<1>3. PICK m \in Nat : m = 1 + n
  OBVIOUS
<1>4. Aligned(u, v, m)
  <2>1. ASSUME NEW k \in 1..m, \A j \in 1..(k - 1) : u[j] = v[j]
        PROVE  Len(u[k]) = Len(v[k]) \/ \A j \in (k + 1)..m : Len(u[j]) = Len(v[j])
    <3>1. CASE k = 1
      BY <1>1, <1>2, <3>1
    <3>2. CASE k # 1
      <4>1. PICK i \in 1..n : k = 1 + i
        <5>1. k - 1 \in 1..n /\ k = 1 + (k - 1)
          BY <1>3, <3>2
        <5> QED
          BY <5>1
      <4>2. \A j \in 1..(i - 1) : p[j] = q[j]
        <5>1. \A j \in 1..(i - 1) : j \in 1..n /\ 1 + j \in 1..(k - 1)
          BY <4>1
        <5> QED
          BY <1>1, <1>2, <2>1, <5>1
      <4>3. Len(p[i]) = Len(q[i]) \/ \A j \in (i + 1)..n : Len(p[j]) = Len(q[j])
        BY <1>0, <4>2 DEF Aligned
      <4>4. u[k] = p[i] /\ v[k] = q[i]
        BY <1>1, <1>2, <4>1
      <4>5. ASSUME NEW j \in (k + 1)..m
            PROVE  \E e \in (i + 1)..n : u[j] = p[e] /\ v[j] = q[e]
        <5>1. j - 1 \in (i + 1)..n /\ j - 1 \in 1..n /\ 1 + (j - 1) = j
          BY <1>3, <4>1
        <5>2. u[j] = p[j - 1] /\ v[j] = q[j - 1]
          BY <1>1, <1>2, <5>1
        <5> QED
          BY <5>1, <5>2
      <4> QED
        BY <4>3, <4>4, <4>5
    <3> QED
      BY <3>1, <3>2
  <2> QED
    BY <2>1 DEF Aligned
<1>5. \A k \in 1..m : u[k] = v[k]
  <2>1. Len(u) = m /\ Len(v) = m /\ FlattenSeq(u) = FlattenSeq(v)
    BY <1>1, <1>2, <1>3
  <2>2. SameBytes(u, v, m)
    BY <1>4, <2>1 DEF SameBytes
  <2>3. u \in Seq(Seq(Symbols)) /\ v \in Seq(Seq(Symbols))
    BY DEF Parts
  <2> QED
    BY <2>2, <2>3, SameParts
<1>6. ASSUME NEW i \in 1..n
      PROVE  p[i] = q[i]
  <2>1. 1 + i \in 1..m
    BY <1>3
  <2> QED
    BY <1>1, <1>2, <1>5, <2>1
<1> QED
  BY <1>6

\* Digests are parts of one length.
LEMMA DigestType ==
  /\ \A d \in Digests : d \in Parts
  /\ \A d, e \in Digests : Len(d) = Len(e)
BY BytesAssumption, PartsType

\* Lists of parts of the same lengths are aligned.
LEMMA SameLengths ==
  ASSUME NEW n \in Nat, NEW p \in Seq(Parts), NEW q \in Seq(Parts), Len(p) = n, Len(q) = n,
         \A i \in 1..n : Len(p[i]) = Len(q[i])
  PROVE  AlignedLists(p, q, n)
BY DEF AlignedLists, Aligned

\* The scope of a credential is read back from its bytes.
LEMMA TwoDigests ==
  ASSUME NEW domain \in Domains, NEW a \in Digests, NEW b \in Digests, NEW c \in Digests, NEW d \in Digests,
         FlattenSeq(hash_scope(domain, <<a, b>>)) = FlattenSeq(hash_scope(domain, <<c, d>>))
  PROVE  a = c /\ b = d
<1>0. a \in Parts /\ b \in Parts /\ c \in Parts /\ d \in Parts /\ Len(a) = Len(c) /\ Len(b) = Len(d)
  BY DigestType
<1>1. PICK p \in Seq(Parts) : p = <<a, b>> /\ Len(p) = 2 /\ p[1] = a /\ p[2] = b
  BY <1>0, OfTwo
<1>2. PICK q \in Seq(Parts) : q = <<c, d>> /\ Len(q) = 2 /\ q[1] = c /\ q[2] = d
  BY <1>0, OfTwo
<1>3. \A i \in 1..2 : Len(p[i]) = Len(q[i])
  BY <1>0, <1>1, <1>2
<1>4. AlignedLists(p, q, 2)
  BY <1>1, <1>2, <1>3, SameLengths
<1>5. \A i \in 1..2 : p[i] = q[i]
  BY <1>1, <1>2, <1>4, hash_scopeReads
<1> QED
  BY <1>1, <1>2, <1>5

\* Three parts of known lengths are read back from their bytes.
LEMMA ThreeParts ==
  ASSUME NEW domain \in Domains,
         NEW a \in Parts, NEW b \in Parts, NEW c \in Parts,
         NEW d \in Parts, NEW e \in Parts, NEW f \in Parts,
         Len(a) = Len(d), Len(b) = Len(e), Len(c) = Len(f),
         FlattenSeq(hash_scope(domain, <<a, b, c>>)) = FlattenSeq(hash_scope(domain, <<d, e, f>>))
  PROVE  a = d /\ b = e /\ c = f
<1>1. PICK p \in Seq(Parts) : p = <<a, b, c>> /\ Len(p) = 3 /\ p[1] = a /\ p[2] = b /\ p[3] = c
  BY OfThree
<1>2. PICK q \in Seq(Parts) : q = <<d, e, f>> /\ Len(q) = 3 /\ q[1] = d /\ q[2] = e /\ q[3] = f
  BY OfThree
<1>3. \A i \in 1..3 : Len(p[i]) = Len(q[i])
  BY <1>1, <1>2
<1>4. AlignedLists(p, q, 3)
  BY <1>1, <1>2, <1>3, SameLengths
<1>5. \A i \in 1..3 : p[i] = q[i]
  BY <1>1, <1>2, <1>4, hash_scopeReads
<1> QED
  BY <1>1, <1>2, <1>5

\* What is signed is read back from its bytes: the target in front takes what the
\* digest leaves.
LEMMA SignedReads ==
  ASSUME NEW domain \in Domains, NEW a \in Parts, NEW c \in Parts, NEW b \in Digests, NEW d \in Digests,
         FlattenSeq(hash_scope(domain, <<a, b>>)) = FlattenSeq(hash_scope(domain, <<c, d>>))
  PROVE  a = c /\ b = d
<1>0. b \in Parts /\ d \in Parts /\ Len(b) = Len(d)
  BY DigestType
<1>1. PICK p \in Seq(Parts) : p = <<a, b>> /\ Len(p) = 2 /\ p[1] = a /\ p[2] = b
  BY <1>0, OfTwo
<1>2. PICK q \in Seq(Parts) : q = <<c, d>> /\ Len(q) = 2 /\ q[1] = c /\ q[2] = d
  BY <1>0, OfTwo
<1>3. \A j \in 2..2 : Len(p[j]) = Len(q[j])
  BY <1>0, <1>1, <1>2
<1>4. AlignedLists(p, q, 2)
  <2>1. ASSUME NEW i \in 1..2
        PROVE  Len(p[i]) = Len(q[i]) \/ \A j \in (i + 1)..2 : Len(p[j]) = Len(q[j])
    BY <1>3
  <2> QED
    BY <1>1, <1>2, <2>1 DEF AlignedLists, Aligned
<1>5. \A i \in 1..2 : p[i] = q[i]
  BY <1>1, <1>2, <1>4, hash_scopeReads
<1> QED
  BY <1>1, <1>2, <1>5

\* A number that goes into its bytes is read back from them.
LEMMA NumberReads ==
  /\ \A n, m \in Below(U64_BYTES) : n \in Nat /\ (u64(n) = u64(m) => n = m)
  /\ \A n, m \in Below(U32_BYTES) : n \in Nat /\ (u32(n) = u32(m) => n = m)
<1>1. U64_BYTES \in Nat /\ U32_BYTES \in Nat
  BY BytesAssumption
<1>2. ASSUME NEW w \in Nat, NEW n \in Below(w)
      PROVE  n \in Nat
  BY PowerValues DEF Below
<1> QED
  BY <1>1, <1>2, LittleEndianReads DEF u64, u32

\* The input of a tag is read back from its bytes.
LEMMA TagReads ==
  ASSUME NEW a \in Digests, NEW b \in Digests, NEW n \in Numbers,
         NEW c \in Digests, NEW d \in Digests, NEW m \in Numbers,
         FlattenSeq(hash_scope("VOLE-ARC/tag/v1", <<a, b, u32(n)>>))
           = FlattenSeq(hash_scope("VOLE-ARC/tag/v1", <<c, d, u32(m)>>))
  PROVE  a = c /\ b = d /\ n = m
<1>1. n \in Below(U32_BYTES) /\ m \in Below(U32_BYTES)
  BY BytesAssumption
<1>2. n \in Nat /\ m \in Nat
  BY <1>1, NumberReads
<1>3. /\ u32(n) \in Parts /\ u32(m) \in Parts /\ Len(u32(n)) = Len(u32(m))
      /\ a \in Parts /\ b \in Parts /\ c \in Parts /\ d \in Parts
      /\ Len(a) = Len(c) /\ Len(b) = Len(d)
  BY <1>2, PartsType, DigestType
<1>4. "VOLE-ARC/tag/v1" \in Domains
  BY DEF Domains
<1>5. a = c /\ b = d /\ u32(n) = u32(m)
  BY <1>3, <1>4, ThreeParts
<1> QED
  BY <1>1, <1>5, NumberReads

\* The numbers of suites and profiles go into their bytes.
LEMMA SuiteType ==
  ASSUME NEW s \in Suites
  PROVE  /\ s.n \in Below(U64_BYTES) /\ s.m \in Below(U64_BYTES)
         /\ s.o \in Below(U64_BYTES) /\ s.k \in Below(U64_BYTES)
         /\ Frameable(s.name)
<1>1. /\ s.name \in Seq(Octet) /\ Len(s.name) \in Below(U64_BYTES)
      /\ \A number \in {s.n, s.m, s.o, s.k} : number \in Below(U64_BYTES)
  BY SuitesAssumption
<1> QED
  BY <1>1, PartsType DEF Frameable

\* A number in eight bytes is a part.
LEMMA u64Parts ==
  ASSUME NEW n \in Below(U64_BYTES)
  PROVE  u64(n) \in Parts /\ Len(u64(n)) = U64_BYTES
BY NumberReads, PartsType

\* A list that begins with a domain is hashed as hash_scope hashes it.
LEMMA DomainAndFive ==
  ASSUME NEW domain \in Domains,
         NEW a \in Parts, NEW b \in Parts, NEW c \in Parts, NEW d \in Parts, NEW e \in Parts
  PROVE  <<<<domain>>, a, b, c, d, e>> = hash_scope(domain, <<a, b, c, d, e>>)
<1>1. PICK z \in Parts : z = <<domain>>
  BY PartsType
<1> DEFINE p == <<a, b, c, d, e>>
           u == <<z, a, b, c, d, e>>
<1>2. /\ p \in Seq(Parts) /\ Len(p) = 5
      /\ p[1] = a /\ p[2] = b /\ p[3] = c /\ p[4] = d /\ p[5] = e
  OBVIOUS
<1>3. /\ u \in Seq(Parts) /\ Len(u) = 6
      /\ u[1] = z /\ u[2] = a /\ u[3] = b /\ u[4] = c /\ u[5] = d /\ u[6] = e
  OBVIOUS
<1> HIDE DEF p, u
<1>4. PICK v \in Seq(Parts) :
        /\ v = hash_scope(domain, p) /\ Len(v) = 6 /\ v[1] = z
        /\ \A i \in 1..5 : v[1 + i] = p[i]
  <2>1. 5 \in Nat /\ 1 + 5 = 6
    OBVIOUS
  <2>2. /\ hash_scope(domain, p) \in Seq(Parts)
        /\ Len(hash_scope(domain, p)) = 1 + 5
        /\ hash_scope(domain, p)[1] = <<domain>>
        /\ \A i \in 1..5 : hash_scope(domain, p)[1 + i] = p[i]
    BY <1>2, <2>1, hash_scopeParts, Zenon
  <2> QED
    BY <1>1, <2>1, <2>2
<1>5. v[2] = a /\ v[3] = b /\ v[4] = c /\ v[5] = d /\ v[6] = e
  <2>1. v[1 + 1] = a /\ v[1 + 2] = b /\ v[1 + 3] = c /\ v[1 + 4] = d /\ v[1 + 5] = e
    BY <1>2, <1>4
  <2> QED
    BY <2>1
<1>6. \A i \in 1..6 : u[i] = v[i]
  BY <1>3, <1>4, <1>5
<1>7. u = v
  <2>1. Len(u) = 6 /\ Len(v) = 6
    BY <1>3, <1>4
  <2> QED
    BY <1>3, <1>6, <2>1, SeqEqual
<1> QED
  BY <1>1, <1>4, <1>7, Zenon DEF p, u

\* A public key is read back from its bytes: the numbers name the suite, and the
\* forms take the rest.
LEMMA mayo_system_and_hashReads ==
  ASSUME NEW s \in Suites, NEW t \in Suites, NEW f \in Parts, NEW g \in Parts,
         FlattenSeq(mayo_system_and_hash(s, f)) = FlattenSeq(mayo_system_and_hash(t, g))
  PROVE  s = t /\ f = g
<1>0. PICK domain \in Domains : domain = "VOLE-ARC/mayo-public-key/v1"
  BY DEF Domains
<1>1. /\ s.n \in Below(U64_BYTES) /\ s.m \in Below(U64_BYTES)
      /\ s.o \in Below(U64_BYTES) /\ s.k \in Below(U64_BYTES)
      /\ t.n \in Below(U64_BYTES) /\ t.m \in Below(U64_BYTES)
      /\ t.o \in Below(U64_BYTES) /\ t.k \in Below(U64_BYTES)
  BY SuiteType
<1>2. PICK a \in Parts : a = u64(s.n) /\ Len(a) = U64_BYTES
  BY <1>1, u64Parts
<1>3. PICK b \in Parts : b = u64(s.m) /\ Len(b) = U64_BYTES
  BY <1>1, u64Parts
<1>4. PICK c \in Parts : c = u64(s.o) /\ Len(c) = U64_BYTES
  BY <1>1, u64Parts
<1>5. PICK d \in Parts : d = u64(s.k) /\ Len(d) = U64_BYTES
  BY <1>1, u64Parts
<1>6. PICK aa \in Parts : aa = u64(t.n) /\ Len(aa) = U64_BYTES
  BY <1>1, u64Parts
<1>7. PICK bb \in Parts : bb = u64(t.m) /\ Len(bb) = U64_BYTES
  BY <1>1, u64Parts
<1>8. PICK cc \in Parts : cc = u64(t.o) /\ Len(cc) = U64_BYTES
  BY <1>1, u64Parts
<1>9. PICK dd \in Parts : dd = u64(t.k) /\ Len(dd) = U64_BYTES
  BY <1>1, u64Parts
<1>10. mayo_system_and_hash(s, f) = hash_scope(domain, <<a, b, c, d, f>>)
  <2>1. mayo_system_and_hash(s, f) = <<<<domain>>, a, b, c, d, f>>
    BY <1>0, <1>2, <1>3, <1>4, <1>5 DEF mayo_system_and_hash
  <2> QED
    BY <2>1, DomainAndFive
<1>11. mayo_system_and_hash(t, g) = hash_scope(domain, <<aa, bb, cc, dd, g>>)
  <2>1. mayo_system_and_hash(t, g) = <<<<domain>>, aa, bb, cc, dd, g>>
    BY <1>0, <1>6, <1>7, <1>8, <1>9 DEF mayo_system_and_hash
  <2> QED
    BY <2>1, DomainAndFive
<1> DEFINE p == <<a, b, c, d, f>>
           q == <<aa, bb, cc, dd, g>>
<1>12. /\ p \in Seq(Parts) /\ Len(p) = 5
       /\ p[1] = a /\ p[2] = b /\ p[3] = c /\ p[4] = d /\ p[5] = f
  OBVIOUS
<1>13. /\ q \in Seq(Parts) /\ Len(q) = 5
       /\ q[1] = aa /\ q[2] = bb /\ q[3] = cc /\ q[4] = dd /\ q[5] = g
  OBVIOUS
<1>14. FlattenSeq(hash_scope(domain, p)) = FlattenSeq(hash_scope(domain, q))
  BY <1>10, <1>11, Zenon
<1> HIDE DEF p, q
<1>15. AlignedLists(p, q, 5)
  <2>1. ASSUME NEW i \in 1..5
        PROVE  Len(p[i]) = Len(q[i]) \/ \A j \in (i + 1)..5 : Len(p[j]) = Len(q[j])
    <3>1. CASE i = 5
      <4>1. \A j \in (i + 1)..5 : FALSE
        BY <3>1
      <4> QED
        BY <4>1
    <3>2. CASE i # 5
      <4>1. i = 1 \/ i = 2 \/ i = 3 \/ i = 4
        BY <3>2
      <4>2. Len(p[1]) = Len(q[1]) /\ Len(p[2]) = Len(q[2]) /\ Len(p[3]) = Len(q[3]) /\ Len(p[4]) = Len(q[4])
        BY <1>2, <1>3, <1>4, <1>5, <1>6, <1>7, <1>8, <1>9, <1>12, <1>13
      <4> QED
        BY <4>1, <4>2
    <3> QED
      BY <3>1, <3>2
  <2> QED
    BY <1>12, <1>13, <2>1 DEF AlignedLists, Aligned
<1>16. \A i \in 1..5 : p[i] = q[i]
  BY <1>14, <1>15, hash_scopeReads
<1>17. a = aa /\ b = bb /\ c = cc /\ d = dd /\ f = g
  BY <1>12, <1>13, <1>16
<1>18. s.n = t.n /\ s.m = t.m /\ s.o = t.o /\ s.k = t.k
  BY <1>1, <1>2, <1>3, <1>4, <1>5, <1>6, <1>7, <1>8, <1>9, <1>17, NumberReads
<1>19. s = t
  BY <1>18, SuitesAssumption
<1> QED
  BY <1>17, <1>19

\* A domain and two lists of parts are hashed as hash_scope hashes both lists.
LEMMA AfterDomain ==
  ASSUME NEW domain \in Domains, NEW p \in Seq(Parts), NEW q \in Seq(Parts)
  PROVE  (<<<<domain>>>> \o p) \o q = hash_scope(domain, p \o q)
<1>1. <<domain>> \in Parts
  BY PartsType
<1>2. PICK z \in Seq(Parts) : z = <<<<domain>>>>
  BY <1>1, OfOne
<1>3. (z \o p) \o q = z \o (p \o q)
  BY ConcatAssociative, SMTT(20)
<1> QED
  BY <1>2, <1>3, Zenon DEF hash_scope

-----------------------------------------------------------------------------
(* What is hashed with a frame.                                            *)

\* A framed part a, and the n parts of w after it.
Follows(p, a, w, n) ==
  /\ p \in Seq(Parts) /\ Len(p) = 2 + n
  /\ p[1] = u64(Len(a)) /\ p[2] = a
  /\ \A i \in 1..n : p[2 + i] = w[i]

\* A frame and n parts are as Follows says.
LEMMA FramedThen ==
  ASSUME NEW a, Frameable(a), NEW n \in Nat, NEW w \in Seq(Parts), Len(w) = n
  PROVE  Follows(Framed(a) \o w, a, w, n)
<1>1. PICK f \in Seq(Parts) : f = Framed(a) /\ Len(f) = 2 /\ f[1] = u64(Len(a)) /\ f[2] = a
  BY FramedParts
<1>2. PICK m \in Nat : m = 2
  OBVIOUS
<1>3. /\ f \o w \in Seq(Parts) /\ Len(f \o w) = m + n
      /\ \A i \in 1..m : (f \o w)[i] = f[i]
      /\ \A i \in 1..n : (f \o w)[m + i] = w[i]
  <2>1. f \o w \in Seq(Parts) /\ Len(f \o w) = Len(f) + Len(w)
    BY ConcatProperties
  <2>2. \A i \in 1..(Len(f) + Len(w)) : (f \o w)[i] = IF i <= Len(f) THEN f[i] ELSE w[i - Len(f)]
    BY ConcatProperties
  <2>3. Len(f) = m /\ Len(w) = n
    BY <1>1, <1>2
  <2>4. \A i \in 1..(m + n) : (f \o w)[i] = IF i <= m THEN f[i] ELSE w[i - m]
    BY <2>2, <2>3
  <2>5. \A i \in 1..m : i \in 1..(m + n) /\ i <= m
    OBVIOUS
  <2>6. \A i \in 1..n : m + i \in 1..(m + n) /\ ~(m + i <= m) /\ (m + i) - m = i
    OBVIOUS
  <2>7. \A i \in 1..m : (f \o w)[i] = f[i]
    BY <2>4, <2>5
  <2>8. \A i \in 1..n : (f \o w)[m + i] = w[i]
    BY <2>4, <2>6
  <2> QED
    BY <2>1, <2>3, <2>7, <2>8
<1>4. (f \o w)[1] = f[1] /\ (f \o w)[2] = f[2]
  BY <1>2, <1>3
<1>5. PICK p \in Seq(Parts) : p = f \o w
  BY <1>3
<1>6. Follows(p, a, w, n)
  BY <1>1, <1>2, <1>3, <1>4, <1>5 DEF Follows
<1> QED
  BY <1>1, <1>5, <1>6, Zenon

\* Lengths are of one length, and two that are the same bytes are the same.
LEMMA FramedFirst ==
  ASSUME NEW a, NEW b, Frameable(a), Frameable(b)
  PROVE  /\ Len(u64(Len(a))) = Len(u64(Len(b)))
         /\ u64(Len(a)) = u64(Len(b)) => Len(a) = Len(b)
  BY FrameReads, FrameableLength, PartsType

\* The length of a digest is a part.
LEMMA ThirtyTwo ==
  u64(32) \in Parts /\ Len(u64(32)) = U64_BYTES
BY PartsType

\* The arguments of an issuer context are read back from its bytes: the suite
\* name has no frame, and everything after it has a known length.
LEMMA derive_issuer_contextReads ==
  ASSUME NEW a, NEW b, Frameable(a), Frameable(b), NEW g \in Digests, NEW h \in Digests,
         NEW s \in Suites, NEW t \in Suites, NEW x \in Profiles, NEW y \in Profiles,
         FlattenSeq(derive_issuer_context(a, g, s, x)) = FlattenSeq(derive_issuer_context(b, h, t, y))
  PROVE  a = b /\ g = h /\ s = t /\ x = y
<1>0. PICK domain \in Domains : domain = "VOLE-ARC/issuer-context/v1"
  BY DEF Domains
<1>1. /\ g \in Parts /\ h \in Parts /\ Len(g) = Len(h)
      /\ s.name \in Parts /\ t.name \in Parts
  BY DigestType, SuiteType DEF Frameable
<1>2. /\ x.tau \in Below(U64_BYTES) /\ x.k \in Below(U64_BYTES) /\ x = [tau |-> x.tau, k |-> x.k]
      /\ y.tau \in Below(U64_BYTES) /\ y.k \in Below(U64_BYTES) /\ y = [tau |-> y.tau, k |-> y.k]
  BY SuitesAssumption
<1>3. PICK c \in Parts : c = u64(32) /\ Len(c) = U64_BYTES
  BY ThirtyTwo
<1>4. PICK xt \in Parts : xt = u64(x.tau) /\ Len(xt) = U64_BYTES
  BY <1>2, u64Parts
<1>5. PICK xk \in Parts : xk = u64(x.k) /\ Len(xk) = U64_BYTES
  BY <1>2, u64Parts
<1>6. PICK yt \in Parts : yt = u64(y.tau) /\ Len(yt) = U64_BYTES
  BY <1>2, u64Parts
<1>7. PICK yk \in Parts : yk = u64(y.k) /\ Len(yk) = U64_BYTES
  BY <1>2, u64Parts
<1>8. PICK sn \in Parts : sn = s.name
  BY <1>1
<1>9. PICK tn \in Parts : tn = t.name
  BY <1>1
<1> DEFINE v == <<g, sn, c, xt, xk>>
           w == <<h, tn, c, yt, yk>>
<1>10. /\ v \in Seq(Parts) /\ Len(v) = 5
       /\ v[1] = g /\ v[2] = sn /\ v[3] = c /\ v[4] = xt /\ v[5] = xk
  BY <1>1
<1>11. /\ w \in Seq(Parts) /\ Len(w) = 5
       /\ w[1] = h /\ w[2] = tn /\ w[3] = c /\ w[4] = yt /\ w[5] = yk
  BY <1>1
<1>12. derive_issuer_context(a, g, s, x) = (<<<<domain>>>> \o Framed(a)) \o v
  BY <1>0, <1>3, <1>4, <1>5, <1>8, Zenon DEF derive_issuer_context
<1>13. derive_issuer_context(b, h, t, y) = (<<<<domain>>>> \o Framed(b)) \o w
  BY <1>0, <1>3, <1>6, <1>7, <1>9, Zenon DEF derive_issuer_context
<1> HIDE DEF v, w
<1>14. Framed(a) \in Seq(Parts) /\ Framed(b) \in Seq(Parts)
  BY FramedParts
<1> DEFINE p == Framed(a) \o v
           q == Framed(b) \o w
<1>15. derive_issuer_context(a, g, s, x) = hash_scope(domain, p)
  BY <1>10, <1>12, <1>14, AfterDomain
<1>16. derive_issuer_context(b, h, t, y) = hash_scope(domain, q)
  BY <1>11, <1>13, <1>14, AfterDomain
<1>17. /\ p \in Seq(Parts) /\ Len(p) = 2 + 5 /\ p[1] = u64(Len(a)) /\ p[2] = a
       /\ \A i \in 1..5 : p[2 + i] = v[i]
  <2>1. Follows(Framed(a) \o v, a, v, 5)
    BY <1>10, FramedThen
  <2>2. Follows(p, a, v, 5)
    BY <2>1
  <2> HIDE DEF p
  <2> QED
    BY <2>2 DEF Follows
<1>18. /\ q \in Seq(Parts) /\ Len(q) = 2 + 5 /\ q[1] = u64(Len(b)) /\ q[2] = b
       /\ \A i \in 1..5 : q[2 + i] = w[i]
  <2>1. Follows(Framed(b) \o w, b, w, 5)
    BY <1>11, FramedThen
  <2>2. Follows(q, b, w, 5)
    BY <2>1
  <2> HIDE DEF q
  <2> QED
    BY <2>2 DEF Follows
<1> HIDE DEF p, q
<1>19. p[3] = g /\ p[4] = sn /\ p[5] = c /\ p[6] = xt /\ p[7] = xk /\ Len(p) = 7
  <2>1. p[2 + 1] = g /\ p[2 + 2] = sn /\ p[2 + 3] = c /\ p[2 + 4] = xt /\ p[2 + 5] = xk
    BY <1>10, <1>17
  <2> QED
    BY <1>17, <2>1
<1>20. q[3] = h /\ q[4] = tn /\ q[5] = c /\ q[6] = yt /\ q[7] = yk /\ Len(q) = 7
  <2>1. q[2 + 1] = h /\ q[2 + 2] = tn /\ q[2 + 3] = c /\ q[2 + 4] = yt /\ q[2 + 5] = yk
    BY <1>11, <1>18
  <2> QED
    BY <1>18, <2>1
<1>21. AlignedLists(p, q, 7)
  <2>1. ASSUME NEW i \in 1..7, \A j \in 1..(i - 1) : p[j] = q[j]
        PROVE  Len(p[i]) = Len(q[i]) \/ \A j \in (i + 1)..7 : Len(p[j]) = Len(q[j])
    <3>1. i = 1 \/ i = 2 \/ i = 3 \/ i = 4 \/ i = 5 \/ i = 6 \/ i = 7
      OBVIOUS
    <3>2. CASE i = 1
      BY <1>17, <1>18, <3>2, FramedFirst
    <3>3. CASE i = 2
      <4>1. p[1] = q[1]
        BY <2>1, <3>3
      <4> QED
        <5>1. u64(Len(a)) = u64(Len(b))
          BY <1>17, <1>18, <4>1
        <5>2. Len(a) = Len(b)
          BY <5>1, FrameReads
        <5> QED
          BY <1>17, <1>18, <3>3, <5>2
    <3>4. Len(p[3]) = Len(q[3])
      BY <1>1, <1>19, <1>20
    <3>5. Len(p[5]) = Len(q[5]) /\ Len(p[6]) = Len(q[6]) /\ Len(p[7]) = Len(q[7])
      BY <1>4, <1>5, <1>6, <1>7, <1>19, <1>20
    <3>6. CASE i = 4
      <4>1. \A j \in (i + 1)..7 : j = 5 \/ j = 6 \/ j = 7
        BY <3>6
      <4> QED
        BY <3>5, <4>1
    <3> QED
      BY <3>1, <3>2, <3>3, <3>4, <3>5, <3>6
  <2> QED
    BY <1>17, <1>18, <1>19, <1>20, <2>1 DEF AlignedLists, Aligned
<1>22. FlattenSeq(hash_scope(domain, p)) = FlattenSeq(hash_scope(domain, q))
  BY <1>15, <1>16
<1>23. \A i \in 1..7 : p[i] = q[i]
  BY <1>21, <1>22, hash_scopeReads
<1>24. a = b /\ g = h /\ sn = tn /\ xt = yt /\ xk = yk
  BY <1>17, <1>18, <1>19, <1>20, <1>23
<1>25. x.tau = y.tau /\ x.k = y.k
  BY <1>2, <1>4, <1>5, <1>6, <1>7, <1>24, NumberReads
<1>26. s = t
  BY <1>8, <1>9, <1>24, SuitesAssumption
<1> QED
  BY <1>2, <1>24, <1>25, <1>26

\* A domain and three lists of parts are hashed as hash_scope hashes the lists.
LEMMA AfterDomainThree ==
  ASSUME NEW domain \in Domains, NEW p \in Seq(Parts), NEW q \in Seq(Parts), NEW r \in Seq(Parts)
  PROVE  ((<<<<domain>>>> \o p) \o q) \o r = hash_scope(domain, (p \o q) \o r)
<1>1. PICK w \in Seq(Parts) : w = p \o q
  BY ConcatProperties
<1>2. (<<<<domain>>>> \o p) \o q = hash_scope(domain, p \o q)
  BY AfterDomain
<1>3. (<<<<domain>>>> \o p) \o q = <<<<domain>>>> \o w
  BY <1>1, <1>2, Zenon DEF hash_scope
<1>4. (<<<<domain>>>> \o w) \o r = hash_scope(domain, w \o r)
  BY AfterDomain
<1> QED
  BY <1>1, <1>3, <1>4, Zenon

\* The parts of an issue statement after its domain.
IssueParts(p, s, g, h, a) ==
  /\ p \in Seq(Parts) /\ Len(p) = 6
  /\ p[1] = u64(Len(s.name)) /\ p[2] = s.name /\ p[3] = g /\ p[4] = h
  /\ p[5] = u64(Len(a)) /\ p[6] = a

\* An issue statement is hashed as hash_scope hashes its parts.
LEMMA issue_statementParts ==
  ASSUME NEW s \in Suites, NEW g \in Digests, NEW h \in Digests, NEW a, Frameable(a),
         NEW domain \in Domains, domain = "VOLE-ARC/issue-statement/v1"
  PROVE  \E p : IssueParts(p, s, g, h, a) /\ issue_statement(s, g, h, a) = hash_scope(domain, p)
<1>1. g \in Parts /\ h \in Parts /\ Frameable(s.name)
  BY DigestType, SuiteType
<1>2. PICK b \in Parts : b = s.name /\ Frameable(b)
  BY <1>1 DEF Frameable
<1>3. PICK f \in Seq(Parts) : f = Framed(b)
  BY <1>2, FramedParts
<1>4. PICK e \in Seq(Parts) : e = Framed(a) /\ Len(e) = 2 /\ e[1] = u64(Len(a)) /\ e[2] = a
  BY FramedParts
<1> DEFINE v == <<g, h>>
<1>5. v \in Seq(Parts) /\ Len(v) = 2 /\ v[1] = g /\ v[2] = h
  BY <1>1
<1>6. issue_statement(s, g, h, a) = ((<<<<domain>>>> \o f) \o v) \o e
  BY <1>2, <1>3, <1>4, Zenon DEF issue_statement
<1> HIDE DEF v
<1>7. ((<<<<domain>>>> \o f) \o v) \o e = hash_scope(domain, (f \o v) \o e)
  <2>1. f \in Seq(Parts) /\ v \in Seq(Parts) /\ e \in Seq(Parts)
    BY <1>5
  <2> QED
    BY ONLY <2>1, AfterDomainThree, Zenon
<1>8. Follows(f \o v, b, v, 2)
  BY <1>2, <1>3, <1>5, FramedThen
<1>9. PICK r \in Seq(Parts) : r = f \o v /\ Follows(r, b, v, 2)
  BY <1>8 DEF Follows
<1>10. Len(r) = 4 /\ r[1] = u64(Len(b)) /\ r[2] = b /\ r[3] = g /\ r[4] = h
  <2>1. r[2 + 1] = g /\ r[2 + 2] = h /\ Len(r) = 2 + 2
    BY <1>5, <1>9 DEF Follows
  <2> QED
    BY <1>9, <2>1 DEF Follows
<1>11. /\ r \o e \in Seq(Parts) /\ Len(r \o e) = 6
       /\ \A i \in 1..6 : (r \o e)[i] = IF i <= 4 THEN r[i] ELSE e[i - 4]
  <2>1. r \o e \in Seq(Parts) /\ Len(r \o e) = Len(r) + Len(e)
    BY ConcatProperties
  <2>2. \A i \in 1..(Len(r) + Len(e)) : (r \o e)[i] = IF i <= Len(r) THEN r[i] ELSE e[i - Len(r)]
    BY ConcatProperties
  <2>3. Len(r) + Len(e) = 6 /\ Len(r) = 4
    BY <1>4, <1>10
  <2> QED
    BY <2>1, <2>2, <2>3
<1>12. PICK p \in Seq(Parts) : p = r \o e
  BY <1>11
<1>13. p[1] = r[1] /\ p[2] = r[2] /\ p[3] = r[3] /\ p[4] = r[4] /\ p[5] = e[1] /\ p[6] = e[2] /\ Len(p) = 6
  <2>1. \A i \in 1..6 : p[i] = IF i <= 4 THEN r[i] ELSE e[i - 4]
    BY <1>11, <1>12
  <2>2. p[1] = r[1] /\ p[2] = r[2] /\ p[3] = r[3] /\ p[4] = r[4]
    BY <2>1
  <2>3. p[5] = e[5 - 4] /\ p[6] = e[6 - 4]
    BY <2>1
  <2>4. 5 - 4 = 1 /\ 6 - 4 = 2
    OBVIOUS
  <2> QED
    BY <1>11, <1>12, <2>2, <2>3, <2>4
<1>14. IssueParts(p, s, g, h, a)
  BY <1>2, <1>4, <1>10, <1>13 DEF IssueParts
<1>15. issue_statement(s, g, h, a) = hash_scope(domain, p)
  BY <1>6, <1>7, <1>9, <1>12, Zenon
<1> QED
  BY <1>14, <1>15

\* The arguments of an issue statement are read back from its bytes.
LEMMA issue_statementReads ==
  ASSUME NEW s \in Suites, NEW t \in Suites, NEW g \in Digests, NEW h \in Digests,
         NEW d \in Digests, NEW e \in Digests, NEW a, NEW b, Frameable(a), Frameable(b),
         FlattenSeq(issue_statement(s, g, h, a)) = FlattenSeq(issue_statement(t, d, e, b))
  PROVE  s = t /\ g = d /\ h = e /\ a = b
<1>0. PICK domain \in Domains : domain = "VOLE-ARC/issue-statement/v1"
  BY DEF Domains
<1>1. PICK p : IssueParts(p, s, g, h, a) /\ issue_statement(s, g, h, a) = hash_scope(domain, p)
  BY <1>0, issue_statementParts
<1>2. PICK q : IssueParts(q, t, d, e, b) /\ issue_statement(t, d, e, b) = hash_scope(domain, q)
  BY <1>0, issue_statementParts
<1>3. /\ p \in Seq(Parts) /\ Len(p) = 6
      /\ p[1] = u64(Len(s.name)) /\ p[2] = s.name /\ p[3] = g /\ p[4] = h
      /\ p[5] = u64(Len(a)) /\ p[6] = a
  BY <1>1 DEF IssueParts
<1>4. /\ q \in Seq(Parts) /\ Len(q) = 6
      /\ q[1] = u64(Len(t.name)) /\ q[2] = t.name /\ q[3] = d /\ q[4] = e
      /\ q[5] = u64(Len(b)) /\ q[6] = b
  BY <1>2 DEF IssueParts
<1>5. /\ Len(g) = Len(d) /\ Len(h) = Len(e) /\ Frameable(s.name) /\ Frameable(t.name)
  BY DigestType, SuiteType
<1>6. AlignedLists(p, q, 6)
  <2>1. ASSUME NEW i \in 1..6, \A j \in 1..(i - 1) : p[j] = q[j]
        PROVE  Len(p[i]) = Len(q[i])
    <3>1. i = 1 \/ i = 2 \/ i = 3 \/ i = 4 \/ i = 5 \/ i = 6
      OBVIOUS
    <3>2. Len(p[1]) = Len(q[1]) /\ Len(p[5]) = Len(q[5])
      BY <1>3, <1>4, <1>5, FramedFirst
    <3>3. CASE i = 2
      <4>1. p[1] = q[1]
        BY <2>1, <3>3
      <4>2. u64(Len(s.name)) = u64(Len(t.name))
        BY <1>3, <1>4, <4>1
      <4>3. Len(s.name) = Len(t.name)
        BY <1>5, <4>2, FrameReads
      <4> QED
        BY <1>3, <1>4, <3>3, <4>3
    <3>4. Len(p[3]) = Len(q[3]) /\ Len(p[4]) = Len(q[4])
      BY <1>3, <1>4, <1>5
    <3>5. CASE i = 6
      <4>1. p[5] = q[5]
        BY <2>1, <3>5
      <4>2. Len(a) = Len(b)
        BY <1>3, <1>4, <4>1, FrameReads
      <4> QED
        BY <1>3, <1>4, <3>5, <4>2
    <3> QED
      BY <3>1, <3>2, <3>3, <3>4, <3>5
  <2> QED
    BY <1>3, <1>4, <2>1 DEF AlignedLists, Aligned
<1>7. FlattenSeq(hash_scope(domain, p)) = FlattenSeq(hash_scope(domain, q))
  BY <1>1, <1>2
<1>8. \A i \in 1..6 : p[i] = q[i]
  BY <1>6, <1>7, hash_scopeReads
<1>9. s.name = t.name /\ g = d /\ h = e /\ a = b
  BY <1>3, <1>4, <1>8
<1> QED
  BY <1>9, SuitesAssumption

\* The challenges of the queries.
QueryChallenges ==
  [credential_context : Digests, presentation_context : Digests, limit : Numbers, binding : Digests]

\* The parts of a presentation statement after its domain.
PresentationParts(p, s, g, c, h) ==
  /\ p \in Seq(Parts) /\ Len(p) = 8
  /\ p[1] = u64(Len(s.name)) /\ p[2] = s.name /\ p[3] = g
  /\ p[4] = c.credential_context /\ p[5] = c.presentation_context /\ p[6] = u32(c.limit)
  /\ p[7] = c.binding /\ p[8] = h

\* A presentation statement is hashed as hash_scope hashes its parts.
LEMMA presentation_statementParts ==
  ASSUME NEW s \in Suites, NEW g \in Digests, NEW c \in QueryChallenges, NEW h \in Digests,
         NEW domain \in Domains, domain = "VOLE-ARC/presentation-statement/v1"
  PROVE  \E p : /\ PresentationParts(p, s, g, c, h)
                /\ presentation_statement(s, g, c, h) = hash_scope(domain, p)
<1>1. /\ g \in Parts /\ h \in Parts /\ Frameable(s.name)
      /\ c.credential_context \in Parts /\ c.presentation_context \in Parts /\ c.binding \in Parts
      /\ c.limit \in Below(U32_BYTES)
  BY DigestType, SuiteType, BytesAssumption DEF QueryChallenges
<1>2. u32(c.limit) \in Parts
  BY <1>1, NumberReads, PartsType
<1>3. PICK b \in Parts : b = s.name /\ Frameable(b)
  BY <1>1 DEF Frameable
<1>4. PICK f \in Seq(Parts) : f = Framed(b)
  BY <1>3, FramedParts
<1>5. PICK x \in Parts : x = c.credential_context
  BY <1>1
<1>6. PICK y \in Parts : y = c.presentation_context
  BY <1>1
<1>7. PICK z \in Parts : z = u32(c.limit)
  BY <1>2
<1>8. PICK w \in Parts : w = c.binding
  BY <1>1
<1> DEFINE v == <<g, x, y, z, w, h>>
<1>9. /\ v \in Seq(Parts) /\ Len(v) = 6
      /\ v[1] = g /\ v[2] = x /\ v[3] = y /\ v[4] = z /\ v[5] = w /\ v[6] = h
  BY <1>1
<1>10. presentation_statement(s, g, c, h) = (<<<<domain>>>> \o f) \o v
  BY <1>3, <1>4, <1>5, <1>6, <1>7, <1>8, Zenon DEF presentation_statement
<1> HIDE DEF v
<1>11. (<<<<domain>>>> \o f) \o v = hash_scope(domain, f \o v)
  BY <1>9, AfterDomain
<1>12. Follows(f \o v, b, v, 6)
  BY <1>3, <1>4, <1>9, FramedThen
<1>13. PICK p \in Seq(Parts) : p = f \o v /\ Follows(p, b, v, 6)
  BY <1>12 DEF Follows
<1>14. /\ Len(p) = 8 /\ p[1] = u64(Len(b)) /\ p[2] = b
       /\ p[3] = g /\ p[4] = x /\ p[5] = y /\ p[6] = z /\ p[7] = w /\ p[8] = h
  <2>1. /\ Len(p) = 2 + 6 /\ p[2 + 1] = g /\ p[2 + 2] = x /\ p[2 + 3] = y
        /\ p[2 + 4] = z /\ p[2 + 5] = w /\ p[2 + 6] = h
    <3>1. Len(p) = 2 + 6 /\ \A i \in 1..6 : p[2 + i] = v[i]
      BY <1>13 DEF Follows
    <3>2. p[2 + 1] = v[1] /\ p[2 + 2] = v[2] /\ p[2 + 3] = v[3]
      BY <3>1
    <3>3. p[2 + 4] = v[4] /\ p[2 + 5] = v[5] /\ p[2 + 6] = v[6]
      BY <3>1
    <3> QED
      BY <1>9, <3>1, <3>2, <3>3
  <2>2. p[1] = u64(Len(b)) /\ p[2] = b
    BY <1>13 DEF Follows
  <2> HIDE DEF v
  <2>3. /\ 2 + 6 = 8 /\ 2 + 1 = 3 /\ 2 + 2 = 4 /\ 2 + 3 = 5 /\ 2 + 4 = 6
        /\ 2 + 5 = 7
    OBVIOUS
  <2> QED
    BY <2>1, <2>2, <2>3
<1>15. PresentationParts(p, s, g, c, h)
  BY <1>3, <1>5, <1>6, <1>7, <1>8, <1>14 DEF PresentationParts
<1>16. presentation_statement(s, g, c, h) = hash_scope(domain, p)
  BY <1>10, <1>11, <1>13, Zenon
<1> QED
  BY <1>15, <1>16

\* The arguments of a presentation statement.
PresentationArguments(s, g, c, h) ==
  s \in Suites /\ g \in Digests /\ c \in QueryChallenges /\ h \in Digests

\* The arguments of a presentation statement are read back from its bytes.
LEMMA presentation_statementReads ==
  ASSUME NEW s, NEW g, NEW a, NEW h, PresentationArguments(s, g, a, h),
         NEW t, NEW d, NEW b, NEW e, PresentationArguments(t, d, b, e),
         FlattenSeq(presentation_statement(s, g, a, h))
           = FlattenSeq(presentation_statement(t, d, b, e))
  PROVE  s = t /\ g = d /\ a = b /\ h = e
<1> USE DEF PresentationArguments
<1>0. PICK domain \in Domains : domain = "VOLE-ARC/presentation-statement/v1"
  BY DEF Domains
<1>1. PICK p : /\ PresentationParts(p, s, g, a, h)
               /\ presentation_statement(s, g, a, h) = hash_scope(domain, p)
  BY <1>0, presentation_statementParts
<1>2. PICK q : /\ PresentationParts(q, t, d, b, e)
               /\ presentation_statement(t, d, b, e) = hash_scope(domain, q)
  BY <1>0, presentation_statementParts
<1>3. /\ p \in Seq(Parts) /\ Len(p) = 8
      /\ p[1] = u64(Len(s.name)) /\ p[2] = s.name /\ p[3] = g
      /\ p[4] = a.credential_context /\ p[5] = a.presentation_context /\ p[6] = u32(a.limit)
      /\ p[7] = a.binding /\ p[8] = h
  BY <1>1 DEF PresentationParts
<1>4. /\ q \in Seq(Parts) /\ Len(q) = 8
      /\ q[1] = u64(Len(t.name)) /\ q[2] = t.name /\ q[3] = d
      /\ q[4] = b.credential_context /\ q[5] = b.presentation_context /\ q[6] = u32(b.limit)
      /\ q[7] = b.binding /\ q[8] = e
  BY <1>2 DEF PresentationParts
<1>5. /\ a.limit \in Below(U32_BYTES) /\ b.limit \in Below(U32_BYTES)
      /\ a.credential_context \in Digests /\ b.credential_context \in Digests
      /\ a.presentation_context \in Digests /\ b.presentation_context \in Digests
      /\ a.binding \in Digests /\ b.binding \in Digests
      /\ a = [credential_context |-> a.credential_context,
              presentation_context |-> a.presentation_context, limit |-> a.limit, binding |-> a.binding]
      /\ b = [credential_context |-> b.credential_context,
              presentation_context |-> b.presentation_context, limit |-> b.limit, binding |-> b.binding]
  BY BytesAssumption DEF QueryChallenges
<1>6. Frameable(s.name) /\ Frameable(t.name) /\ Len(u32(a.limit)) = Len(u32(b.limit))
  BY <1>5, SuiteType, NumberReads, PartsType
<1>7. AlignedLists(p, q, 8)
  <2>1. ASSUME NEW i \in 1..8, \A j \in 1..(i - 1) : p[j] = q[j]
        PROVE  Len(p[i]) = Len(q[i])
    <3>1. i = 1 \/ i = 2 \/ i = 3 \/ i = 4 \/ i = 5 \/ i = 6 \/ i = 7 \/ i = 8
      OBVIOUS
    <3>2. Len(p[1]) = Len(q[1])
      BY <1>3, <1>4, <1>6, FramedFirst
    <3>3. CASE i = 2
      <4>1. p[1] = q[1]
        BY <2>1, <3>3
      <4>2. u64(Len(s.name)) = u64(Len(t.name))
        BY <1>3, <1>4, <4>1
      <4>3. Len(s.name) = Len(t.name)
        BY <1>6, <4>2, FrameReads
      <4> QED
        BY <1>3, <1>4, <3>3, <4>3
    <3>4. /\ Len(p[3]) = Len(q[3]) /\ Len(p[4]) = Len(q[4]) /\ Len(p[5]) = Len(q[5])
          /\ Len(p[7]) = Len(q[7]) /\ Len(p[8]) = Len(q[8])
      BY <1>3, <1>4, <1>5, DigestType
    <3>5. Len(p[6]) = Len(q[6])
      BY <1>3, <1>4, <1>6
    <3> QED
      BY <3>1, <3>2, <3>3, <3>4, <3>5
  <2> QED
    BY <1>3, <1>4, <2>1 DEF AlignedLists, Aligned
<1>8. FlattenSeq(hash_scope(domain, p)) = FlattenSeq(hash_scope(domain, q))
  BY <1>1, <1>2
<1>9. \A i \in 1..8 : p[i] = q[i]
  BY <1>7, <1>8, hash_scopeReads
<1>10. /\ s.name = t.name /\ g = d /\ h = e /\ u32(a.limit) = u32(b.limit)
       /\ a.credential_context = b.credential_context
       /\ a.presentation_context = b.presentation_context /\ a.binding = b.binding
  BY <1>3, <1>4, <1>9
<1>11. a.limit = b.limit
  BY <1>5, <1>10, NumberReads
<1>12. a = b
  BY <1>5, <1>10, <1>11
<1> QED
  BY <1>10, <1>12, SuitesAssumption

-----------------------------------------------------------------------------
(* What is hashed in frames.                                               *)

\* The presence byte and no epoch can be framed.
LEMMA EpochFrames ==
  Frameable(<<0>>) /\ Frameable(<<1>>) /\ Frameable(<<>>)
<1>1. PICK k \in Nat : U64_BYTES = k + 1
  <2>1. U64_BYTES - 1 \in Nat /\ U64_BYTES = (U64_BYTES - 1) + 1
    BY BytesAssumption
  <2> QED
    BY <2>1
<1>2. PICK p \in Nat : p = Power[k] /\ p # 0 /\ Power[U64_BYTES] = Base * p
  BY <1>1, PowerValues
<1>3. Base * p >= 2
  <2>1. ASSUME NEW b \in Nat \ {0, 1}, NEW c \in Nat, c # 0
        PROVE  b * c >= 2
    <3>1. PICK d \in Nat : c = d + 1
      <4>1. c - 1 \in Nat /\ c = (c - 1) + 1
        BY <2>1
      <4> QED
        BY <4>1
    <3>2. b * (d + 1) = b * d + b /\ b * d \in Nat
      OBVIOUS
    <3> QED
      BY <3>1, <3>2
  <2> QED
    BY <1>2, <2>1, BytesAssumption
<1>4. 0 \in Below(U64_BYTES) /\ 1 \in Below(U64_BYTES)
  <2>1. Power[U64_BYTES] >= 2 /\ Power[U64_BYTES] \in Nat
    BY <1>2, <1>3, PowerValues, BytesAssumption
  <2> QED
    BY <2>1 DEF Below
<1>5. 0 \in Octet /\ 1 \in Octet
  BY BytesAssumption DEF Octet
<1>6. /\ <<0>> \in Seq(Octet) /\ Len(<<0>>) = 1
      /\ <<1>> \in Seq(Octet) /\ Len(<<1>>) = 1
      /\ <<>> \in Seq(Octet) /\ Len(<<>>) = 0
  <2>1. <<>> \in Seq(Octet) /\ Len(<<>>) = 0
    BY EmptySeq
  <2>2. PICK x \in Seq(Octet) : x = <<0>> /\ Len(x) = 1
    BY <1>5, OfOne
  <2>3. PICK y \in Seq(Octet) : y = <<1>> /\ Len(y) = 1
    BY <1>5, OfOne
  <2> QED
    BY <2>1, <2>2, <2>3
<1> QED
  BY <1>4, <1>6, PartsType DEF Frameable

\* The components of a scoped presentation.
ScopedParts(c, a, b, e) ==
  /\ FrameableList(c, 4)
  /\ c[1] = a /\ c[2] = b
  /\ c[3] = IF e = None THEN <<0>> ELSE <<1>>
  /\ c[4] = IF e = None THEN <<>> ELSE e

\* An epoch or none.
MayBeFramed(e) == e = None \/ Frameable(e)

\* The components of a scoped presentation can be framed.
LEMMA ScopedComponents ==
  ASSUME NEW a, NEW b, NEW e, Frameable(a), Frameable(b), MayBeFramed(e)
  PROVE  ScopedParts(<<a, b>> \o EpochParts(e), a, b, e)
<1>1. PICK x : Frameable(x) /\ x = IF e = None THEN <<0>> ELSE <<1>>
  BY EpochFrames
<1>2. PICK y : Frameable(y) /\ y = IF e = None THEN <<>> ELSE e
  BY EpochFrames DEF MayBeFramed
<1>3. a \in Parts /\ b \in Parts /\ x \in Parts /\ y \in Parts
  BY <1>1, <1>2 DEF Frameable
<1>4. PICK v \in Seq(Parts) : v = <<a, b>> /\ Len(v) = 2 /\ v[1] = a /\ v[2] = b
  BY <1>3, OfTwo
<1>5. PICK w \in Seq(Parts) : w = <<x, y>> /\ Len(w) = 2 /\ w[1] = x /\ w[2] = y
  BY <1>3, OfTwo
<1>6. EpochParts(e) = w
  <2>1. EpochParts(e) = <<x, y>>
    BY <1>1, <1>2 DEF EpochParts
  <2> QED
    BY <1>5, <2>1
<1>7. PICK m \in Nat : m = 2
  OBVIOUS
<1>8. /\ v \o w \in Seq(Parts) /\ Len(v \o w) = m + m
      /\ \A i \in 1..m : (v \o w)[i] = v[i]
      /\ \A i \in 1..m : (v \o w)[m + i] = w[i]
  BY <1>4, <1>5, <1>7, Joined
<1>9. PICK c \in Seq(Parts) : c = v \o w
  BY <1>8
<1>10. Len(c) = 4 /\ c[1] = a /\ c[2] = b /\ c[3] = x /\ c[4] = y
  <2>1. c[2 + 1] = x /\ c[2 + 2] = y
    BY <1>5, <1>7, <1>8, <1>9
  <2> QED
    BY <1>4, <1>7, <1>8, <1>9, <2>1
<1>11. FrameableList(c, 4)
  <2>1. \A i \in 1..4 : i = 1 \/ i = 2 \/ i = 3 \/ i = 4
    OBVIOUS
  <2> QED
    BY <1>1, <1>2, <1>10, <2>1 DEF FrameableList
<1>12. ScopedParts(c, a, b, e)
  BY <1>1, <1>2, <1>10, <1>11 DEF ScopedParts
<1> QED
  BY <1>4, <1>6, <1>9, <1>12, Zenon

\* The arguments of a scoped presentation are read back from its bytes: the
\* presence byte tells an empty epoch from none.
LEMMA scopedReads ==
  ASSUME NEW a, NEW b, NEW e, Frameable(a), Frameable(b), MayBeFramed(e),
         NEW c, NEW d, NEW f, Frameable(c), Frameable(d), MayBeFramed(f),
         FlattenSeq(scoped(a, b, e)) = FlattenSeq(scoped(c, d, f))
  PROVE  a = c /\ b = d /\ e = f
<1>0. PICK domain \in Domains : domain = "VOLE-ARC/scoped-presentation/v1"
  BY DEF Domains
<1>1. PICK p : p = <<a, b>> \o EpochParts(e) /\ ScopedParts(p, a, b, e)
  BY ScopedComponents
<1>2. PICK q : q = <<c, d>> \o EpochParts(f) /\ ScopedParts(q, c, d, f)
  BY ScopedComponents
<1>3. scoped(a, b, e) = hash_framed(domain, p)
  BY <1>0, <1>1, Zenon DEF scoped
<1>4. scoped(c, d, f) = hash_framed(domain, q)
  BY <1>0, <1>2, Zenon DEF scoped
<1>5. \A i \in 1..4 : p[i] = q[i]
  <2>1. FrameableList(p, 4) /\ FrameableList(q, 4)
    BY <1>1, <1>2 DEF ScopedParts
  <2>2. FlattenSeq(hash_framed(domain, p)) = FlattenSeq(hash_framed(domain, q))
    BY <1>3, <1>4
  <2> QED
    BY <2>1, <2>2, hash_framedReads
<1>6. /\ p[1] = a /\ p[2] = b /\ p[3] = (IF e = None THEN <<0>> ELSE <<1>>)
      /\ p[4] = (IF e = None THEN <<>> ELSE e)
  BY <1>1 DEF ScopedParts
<1>7. /\ q[1] = c /\ q[2] = d /\ q[3] = (IF f = None THEN <<0>> ELSE <<1>>)
      /\ q[4] = (IF f = None THEN <<>> ELSE f)
  BY <1>2 DEF ScopedParts
<1>8. p[1] = q[1] /\ p[2] = q[2] /\ p[3] = q[3] /\ p[4] = q[4]
  BY <1>5
<1>9. e = None <=> f = None
  <2>1. <<0>> # <<1>>
    OBVIOUS
  <2> QED
    BY <1>6, <1>7, <1>8, <2>1
<1> QED
  BY <1>6, <1>7, <1>8, <1>9

\* A framed component is read back from its bytes.
LEMMA FramedReads ==
  ASSUME NEW domain \in Domains, NEW a, NEW b, Frameable(a), Frameable(b),
         FlattenSeq(hash_framed(domain, <<a>>)) = FlattenSeq(hash_framed(domain, <<b>>))
  PROVE  a = b
<1>1. a \in Parts /\ b \in Parts
  BY DEF Frameable
<1>2. PICK p \in Seq(Parts) : p = <<a>> /\ Len(p) = 1 /\ p[1] = a
  BY <1>1, OfOne
<1>3. PICK q \in Seq(Parts) : q = <<b>> /\ Len(q) = 1 /\ q[1] = b
  BY <1>1, OfOne
<1>4. FrameableList(p, 1) /\ FrameableList(q, 1)
  BY <1>2, <1>3 DEF FrameableList
<1>5. \A i \in 1..1 : p[i] = q[i]
  BY <1>2, <1>3, <1>4, hash_framedReads
<1> QED
  BY <1>2, <1>3, <1>5

-----------------------------------------------------------------------------
(* Domain separation.                                                      *)

\* A list of parts whose first is a domain.
OpensWith(u, domain) ==
  domain \in Domains /\ u \in Seq(Parts) /\ Len(u) # 0 /\ u[1] = <<domain>>

\* What comes first stays first.
LEMMA FirstOf ==
  ASSUME NEW S, NEW z \in Seq(S), NEW y \in Seq(S), Len(z) = 1
  PROVE  (z \o y)[1] = z[1]
<1>1. Len(y) \in Nat
  BY LenProperties
<1>2. \A i \in 1..(Len(z) + Len(y)) : (z \o y)[i] = IF i <= Len(z) THEN z[i] ELSE y[i - Len(z)]
  BY ConcatProperties
<1>3. 1 \in 1..(Len(z) + Len(y)) /\ 1 <= Len(z)
  BY <1>1
<1> QED
  BY <1>2, <1>3

\* Lists of parts with the same bytes have the same domain.
LEMMA SameDomain ==
  ASSUME NEW u, NEW v, NEW d, NEW e, OpensWith(u, d), OpensWith(v, e), FlattenSeq(u) = FlattenSeq(v)
  PROVE  d = e
<1>1. ASSUME NEW w, NEW f, OpensWith(w, f)
      PROVE  FlattenSeq(w)[1] = f
  <2>1. w \in Seq(Seq(Symbols)) /\ Len(w) # 0 /\ w[1] = <<f>> /\ f \in Domains
    BY <1>1 DEF OpensWith, Parts
  <2>2. /\ Head(w) \in Seq(Symbols) /\ Tail(w) \in Seq(Seq(Symbols))
        /\ FlattenSeq(w) = Head(w) \o FlattenSeq(Tail(w))
    BY <2>1, FlattenHead
  <2>3. PICK z \in Seq(Symbols) : z = Head(w)
    BY <2>2
  <2>4. PICK y \in Seq(Symbols) : y = FlattenSeq(Tail(w))
    BY <2>2, FlattenType
  <2>5. FlattenSeq(w) = z \o y
    BY <2>2, <2>3, <2>4, Zenon
  <2>6. z = <<f>>
    BY <2>1, <2>3
  <2>7. Len(z) = 1 /\ z[1] = f
    BY <2>6
  <2>8. (z \o y)[1] = z[1]
    BY <2>7, FirstOf
  <2> QED
    BY <2>5, <2>7, <2>8
<1> QED
  BY <1>1

\* The updates of hash_scope begin with the domain,
LEMMA hash_scopeBegins ==
  ASSUME NEW domain \in Domains, NEW p \in Seq(Parts)
  PROVE  OpensWith(hash_scope(domain, p), domain)
<1>1. PICK n \in Nat : Len(p) = n
  BY LenProperties
<1>2. /\ hash_scope(domain, p) \in Seq(Parts) /\ Len(hash_scope(domain, p)) = 1 + n
      /\ hash_scope(domain, p)[1] = <<domain>>
  BY <1>1, hash_scopeParts
<1>3. 1 + n # 0
  OBVIOUS
<1> QED
  BY <1>2, <1>3 DEF OpensWith

\* so do those of hash_framed,
LEMMA hash_framedBegins ==
  ASSUME NEW domain \in Domains, NEW n \in Nat, NEW c, FrameableList(c, n)
  PROVE  OpensWith(hash_framed(domain, c), domain)
<1>1. /\ hash_framed(domain, c) \in Seq(Parts) /\ Len(hash_framed(domain, c)) = 1 + 2 * n
      /\ hash_framed(domain, c)[1] = <<domain>>
  BY hash_framedParts
<1>2. 1 + 2 * n # 0
  OBVIOUS
<1> QED
  BY <1>1, <1>2 DEF OpensWith

\* of an issuer context
LEMMA derive_issuer_contextBegins ==
  ASSUME NEW a, Frameable(a), NEW g \in Digests, NEW s \in Suites, NEW x \in Profiles,
         NEW domain \in Domains, domain = "VOLE-ARC/issuer-context/v1"
  PROVE  OpensWith(derive_issuer_context(a, g, s, x), domain)
<1>1. g \in Parts /\ s.name \in Parts
  BY DigestType, SuiteType DEF Frameable
<1>2. x.tau \in Below(U64_BYTES) /\ x.k \in Below(U64_BYTES)
  BY SuitesAssumption
<1>3. u64(32) \in Parts /\ u64(x.tau) \in Parts /\ u64(x.k) \in Parts
  BY <1>2, ThirtyTwo, u64Parts
<1>4. PICK b \in Parts : b = s.name
  BY <1>1
<1>5. PICK c \in Parts : c = u64(32)
  BY <1>3
<1>6. PICK d \in Parts : d = u64(x.tau)
  BY <1>3
<1>7. PICK e \in Parts : e = u64(x.k)
  BY <1>3
<1>8. PICK v \in Seq(Parts) : v = <<g, b, c, d, e>>
  <2>1. <<g, b, c, d, e>> \in Seq(Parts)
    BY <1>1
  <2> QED
    BY <2>1, Zenon
<1>9. PICK f \in Seq(Parts) : f = Framed(a)
  BY FramedParts
<1>10. derive_issuer_context(a, g, s, x) = (<<<<domain>>>> \o f) \o v
  BY <1>4, <1>5, <1>6, <1>7, <1>8, <1>9, Zenon DEF derive_issuer_context
<1>11. PICK w \in Seq(Parts) : w = f \o v
  BY ConcatProperties
<1>12. (<<<<domain>>>> \o f) \o v = hash_scope(domain, f \o v)
  BY AfterDomain
<1>13. derive_issuer_context(a, g, s, x) = hash_scope(domain, w)
  BY <1>10, <1>11, <1>12, Zenon
<1> QED
  BY <1>13, hash_scopeBegins

\* and of a public key.
LEMMA mayo_system_and_hashBegins ==
  ASSUME NEW s \in Suites, NEW f \in Parts,
         NEW domain \in Domains, domain = "VOLE-ARC/mayo-public-key/v1"
  PROVE  OpensWith(mayo_system_and_hash(s, f), domain)
<1>1. /\ s.n \in Below(U64_BYTES) /\ s.m \in Below(U64_BYTES)
      /\ s.o \in Below(U64_BYTES) /\ s.k \in Below(U64_BYTES)
  BY SuiteType
<1>2. PICK a \in Parts : a = u64(s.n)
  BY <1>1, u64Parts
<1>3. PICK b \in Parts : b = u64(s.m)
  BY <1>1, u64Parts
<1>4. PICK c \in Parts : c = u64(s.o)
  BY <1>1, u64Parts
<1>5. PICK d \in Parts : d = u64(s.k)
  BY <1>1, u64Parts
<1>6. PICK w \in Seq(Parts) : w = <<a, b, c, d, f>>
  <2>1. <<a, b, c, d, f>> \in Seq(Parts)
    OBVIOUS
  <2> QED
    BY <2>1, Zenon
<1>7. mayo_system_and_hash(s, f) = hash_scope(domain, w)
  <2>1. mayo_system_and_hash(s, f) = <<<<domain>>, a, b, c, d, f>>
    BY <1>2, <1>3, <1>4, <1>5, Zenon DEF mayo_system_and_hash
  <2> QED
    BY <1>6, <2>1, DomainAndFive
<1> QED
  BY <1>7, hash_scopeBegins

-----------------------------------------------------------------------------
(* Queries.                                                                *)

\* Tuples.
IsTwo(q) == q = <<q[1], q[2]>>
IsThree(q) == q = <<q[1], q[2], q[3]>>
IsFour(q) == q = <<q[1], q[2], q[3], q[4]>>
IsFive(q) == q = <<q[1], q[2], q[3], q[4], q[5]>>

\* The arguments of each kind of query.
Arguments(q) ==
  \/ /\ q[1] \in {"credential_context", "presentation_context", "binding"} /\ IsTwo(q)
     /\ Frameable(q[2])
  \/ /\ q[1] = "scoped" /\ IsFour(q)
     /\ Frameable(q[2]) /\ Frameable(q[3]) /\ MayBeFramed(q[4])
  \/ /\ q[1] = "credential_scope" /\ IsThree(q)
     /\ q[2] \in Digests /\ q[3] \in Digests
  \/ /\ q[1] \in {"presentation_scope", "credential"} /\ IsFour(q)
     /\ q[2] \in Digests /\ q[3] \in Digests /\ q[4] \in Digests
  \/ /\ q[1] = "signed" /\ IsThree(q)
     /\ q[2] \in Parts /\ q[3] \in Digests
  \/ /\ q[1] = "tag" /\ IsFour(q)
     /\ q[2] \in Digests /\ q[3] \in Digests /\ q[4] \in Numbers
  \/ /\ q[1] = "mayo_key" /\ IsThree(q)
     /\ q[2] \in Suites /\ q[3] \in Parts
  \/ /\ q[1] = "issuer_context" /\ IsFive(q)
     /\ Frameable(q[2]) /\ q[3] \in Digests /\ q[4] \in Suites /\ q[5] \in Profiles
  \/ /\ q[1] = "issue_statement" /\ IsFive(q)
     /\ q[2] \in Suites /\ q[3] \in Digests /\ q[4] \in Digests /\ Frameable(q[5])
  \/ /\ q[1] = "presentation_statement" /\ IsFive(q)
     /\ q[2] \in Suites /\ q[3] \in Digests /\ q[4] \in QueryChallenges /\ q[5] \in Digests

\* Application data and commitments can be framed; forms and targets are parts.
LEMMA DataFrameable ==
  /\ \A d \in Data : Frameable(d)
  /\ \A s \in Suites : \A f \in BytesOf(s.m) : Frameable(f)
  /\ \A s \in Suites : \A f \in BytesOf(s.o) : f \in Parts
  /\ \A s \in Suites : \A f \in BytesOf((s.m + 1) \div 2) : f \in Parts
<1>1. ASSUME NEW n \in Nat, NEW f \in BytesOf(n)
      PROVE  f \in Parts /\ Len(f) = n
  <2>1. f \in Seq(Octet) /\ Len(f) = n
    BY SeqDef, LenProperties DEF BytesOf
  <2> QED
    BY <2>1, PartsType
<1>2. ASSUME NEW s \in Suites
      PROVE  s.m \in Nat /\ s.o \in Nat /\ s.m \in Below(U64_BYTES)
  BY SuiteType, NumberReads
<1>3. ASSUME NEW s \in Suites
      PROVE  (s.m + 1) \div 2 \in Nat
  BY <1>2
<1>4. \A d \in Data : Frameable(d)
  BY BytesAssumption, PartsType DEF Frameable
<1> QED
  BY <1>1, <1>2, <1>3, <1>4 DEF Frameable

\* The queries of the program have these arguments.
LEMMA QueryArguments ==
  ASSUME NEW q \in Queries
  PROVE  Arguments(q)
<1>1. CASE q \in {"credential_context", "presentation_context", "binding"} \X Data
  BY <1>1, DataFrameable DEF Arguments, IsTwo
<1>2. CASE q \in {"scoped"} \X Data \X Data \X (Data \cup {None})
  BY <1>2, DataFrameable DEF Arguments, IsFour, MayBeFramed
<1>3. CASE q \in {"credential_scope"} \X Digests \X Digests
  BY <1>3 DEF Arguments, IsThree
<1>4. CASE q \in {"presentation_scope", "credential"} \X Digests \X Digests \X Digests
  BY <1>4 DEF Arguments, IsFour
<1>5. CASE \E s \in Suites : q \in {"signed"} \X BytesOf((s.m + 1) \div 2) \X Digests
  BY <1>5, DataFrameable DEF Arguments, IsThree
<1>6. CASE q \in {"tag"} \X Digests \X Digests \X Numbers
  BY <1>6 DEF Arguments, IsFour
<1>7. CASE \E s \in Suites : q \in {"mayo_key"} \X {s} \X BytesOf(s.o)
  BY <1>7, DataFrameable DEF Arguments, IsThree
<1>8. CASE q \in {"issuer_context"} \X Data \X Digests \X Suites \X Profiles
  BY <1>8, DataFrameable DEF Arguments, IsFive
<1>9. CASE \E s \in Suites : q \in {"issue_statement"} \X {s} \X Digests \X Digests \X BytesOf(s.m)
  BY <1>9, DataFrameable DEF Arguments, IsFive
<1>10. CASE q \in {"presentation_statement"} \X Suites \X Digests \X QueryChallenges \X Digests
  BY <1>10 DEF Arguments, IsFive
<1> QED
  BY <1>1, <1>2, <1>3, <1>4, <1>5, <1>6, <1>7, <1>8, <1>9, <1>10 DEF Queries, QueryChallenges

\* The updates of two and of three parts begin with the domain.
LEMMA PartsBegin ==
  ASSUME NEW domain \in Domains, NEW a \in Parts, NEW b \in Parts
  PROVE  /\ OpensWith(hash_scope(domain, <<a, b>>), domain)
         /\ \A c \in Parts : OpensWith(hash_scope(domain, <<a, b, c>>), domain)
<1>1. PICK p \in Seq(Parts) : p = <<a, b>>
  BY OfTwo
<1>2. ASSUME NEW c \in Parts
      PROVE  OpensWith(hash_scope(domain, <<a, b, c>>), domain)
  <2>1. PICK q \in Seq(Parts) : q = <<a, b, c>>
    BY OfThree
  <2> QED
    BY <2>1, hash_scopeBegins
<1> QED
  BY <1>1, <1>2, hash_scopeBegins

\* The kind of query that a domain separates from the others.
KindOf(domain) ==
  CASE domain = "VOLE-ARC/credential-context/v1" -> "credential_context"
    [] domain = "VOLE-ARC/presentation-context/v1" -> "presentation_context"
    [] domain = "VOLE-ARC/scoped-presentation/v1" -> "scoped"
    [] domain = "VOLE-ARC/presentation-binding/v1" -> "binding"
    [] domain = "VOLE-ARC/credential/v1" -> "credential"
    [] domain = "VOLE-ARC/signed/v1" -> "signed"
    [] domain = "VOLE-ARC/tag/v1" -> "tag"
    [] domain = "VOLE-ARC/mayo-public-key/v1" -> "mayo_key"
    [] domain = "VOLE-ARC/credential-scope/v1" -> "credential_scope"
    [] domain = "VOLE-ARC/presentation-scope/v1" -> "presentation_scope"
    [] domain = "VOLE-ARC/issuer-context/v1" -> "issuer_context"
    [] domain = "VOLE-ARC/issue-statement/v1" -> "issue_statement"
    [] domain = "VOLE-ARC/presentation-statement/v1" -> "presentation_statement"

\* The kinds of the domains.
LEMMA KindsOfDomains ==
  /\ KindOf("VOLE-ARC/credential-context/v1") = "credential_context"
  /\ KindOf("VOLE-ARC/presentation-context/v1") = "presentation_context"
  /\ KindOf("VOLE-ARC/scoped-presentation/v1") = "scoped"
  /\ KindOf("VOLE-ARC/presentation-binding/v1") = "binding"
  /\ KindOf("VOLE-ARC/credential/v1") = "credential"
  /\ KindOf("VOLE-ARC/signed/v1") = "signed"
  /\ KindOf("VOLE-ARC/tag/v1") = "tag"
  /\ KindOf("VOLE-ARC/mayo-public-key/v1") = "mayo_key"
  /\ KindOf("VOLE-ARC/credential-scope/v1") = "credential_scope"
  /\ KindOf("VOLE-ARC/presentation-scope/v1") = "presentation_scope"
  /\ KindOf("VOLE-ARC/issuer-context/v1") = "issuer_context"
  /\ KindOf("VOLE-ARC/issue-statement/v1") = "issue_statement"
  /\ KindOf("VOLE-ARC/presentation-statement/v1") = "presentation_statement"
BY DEF KindOf

\* What is hashed begins with the domain of its kind.
LEMMA UpdatesBegin ==
  ASSUME NEW q, Arguments(q)
  PROVE  \E domain : OpensWith(Updates(q), domain) /\ KindOf(domain) = q[1]
<1>1. ASSUME NEW d \in Domains, q[1] = KindOf(d), Frameable(q[2]),
             Updates(q) = hash_framed(d, <<q[2]>>)
      PROVE  \E domain : OpensWith(Updates(q), domain) /\ KindOf(domain) = q[1]
  <2>1. PICK p \in Seq(Parts) : p = <<q[2]>> /\ Len(p) = 1 /\ p[1] = q[2]
    BY <1>1, OfOne DEF Frameable
  <2>2. FrameableList(p, 1)
    BY <1>1, <2>1 DEF FrameableList
  <2>3. OpensWith(hash_framed(d, p), d)
    BY <2>2, hash_framedBegins
  <2> QED
    BY <1>1, <2>1, <2>3
<1>2. ASSUME NEW d \in Domains, q[1] = KindOf(d), NEW p \in Seq(Parts), Updates(q) = hash_scope(d, p)
      PROVE  \E domain : OpensWith(Updates(q), domain) /\ KindOf(domain) = q[1]
  BY <1>2, hash_scopeBegins
<1>3. ASSUME NEW d \in Domains, q[1] = KindOf(d), OpensWith(Updates(q), d)
      PROVE  \E domain : OpensWith(Updates(q), domain) /\ KindOf(domain) = q[1]
  BY <1>3
<1>4. \A d \in Digests : d \in Parts
  BY DigestType
<1>5. CASE q[1] = "credential_context" /\ Frameable(q[2])
  BY <1>1, <1>5, KindsOfDomains, UpdatesOf DEF Domains
<1>6. CASE q[1] = "presentation_context" /\ Frameable(q[2])
  BY <1>1, <1>6, KindsOfDomains, UpdatesOf DEF Domains
<1>7. CASE q[1] = "binding" /\ Frameable(q[2])
  BY <1>1, <1>7, KindsOfDomains, UpdatesOf DEF Domains
<1>8. CASE q[1] = "scoped" /\ Frameable(q[2]) /\ Frameable(q[3]) /\ MayBeFramed(q[4])
  <2>1. PICK c : c = <<q[2], q[3]>> \o EpochParts(q[4]) /\ FrameableList(c, 4)
    <3>1. ScopedParts(<<q[2], q[3]>> \o EpochParts(q[4]), q[2], q[3], q[4])
      BY <1>8, ScopedComponents
    <3> QED
      BY <3>1 DEF ScopedParts
  <2>2. PICK d \in Domains : d = "VOLE-ARC/scoped-presentation/v1"
    BY DEF Domains
  <2>3. OpensWith(hash_framed(d, c), d)
    BY <2>1, hash_framedBegins
  <2>4. Updates(q) = scoped(q[2], q[3], q[4])
    BY <1>8, UpdatesOf
  <2>5. Updates(q) = hash_framed(d, c)
    BY <2>1, <2>2, <2>4, Zenon DEF scoped
  <2> QED
    BY <1>3, <1>8, <2>2, <2>3, <2>5, KindsOfDomains
<1>9. CASE q[1] = "credential_scope" /\ q[2] \in Digests /\ q[3] \in Digests
  <2>1. PICK d \in Domains : d = "VOLE-ARC/credential-scope/v1"
    BY DEF Domains
  <2>2. q[2] \in Parts /\ q[3] \in Parts
    BY <1>4, <1>9
  <2>3. OpensWith(hash_scope(d, <<q[2], q[3]>>), d)
    BY <2>2, PartsBegin
  <2> QED
    BY <1>3, <1>9, <2>1, <2>3, KindsOfDomains, UpdatesOf
<1>10. CASE q[1] = "presentation_scope" /\ q[2] \in Digests /\ q[3] \in Digests /\ q[4] \in Digests
  <2>1. PICK d \in Domains : d = "VOLE-ARC/presentation-scope/v1"
    BY DEF Domains
  <2>2. q[2] \in Parts /\ q[3] \in Parts /\ q[4] \in Parts
    BY <1>4, <1>10
  <2>3. OpensWith(hash_scope(d, <<q[2], q[3], q[4]>>), d)
    BY <2>2, PartsBegin
  <2> QED
    BY <1>3, <1>10, <2>1, <2>3, KindsOfDomains, UpdatesOf
<1>11. CASE q[1] = "credential" /\ q[2] \in Digests /\ q[3] \in Digests /\ q[4] \in Digests
  <2>1. PICK d \in Domains : d = "VOLE-ARC/credential/v1"
    BY DEF Domains
  <2>2. q[2] \in Parts /\ q[3] \in Parts /\ q[4] \in Parts
    BY <1>4, <1>11
  <2>3. OpensWith(hash_scope(d, <<q[2], q[3], q[4]>>), d)
    BY <2>2, PartsBegin
  <2> QED
    BY <1>3, <1>11, <2>1, <2>3, KindsOfDomains, UpdatesOf
<1>12. CASE q[1] = "signed" /\ q[2] \in Parts /\ q[3] \in Digests
  <2>1. PICK d \in Domains : d = "VOLE-ARC/signed/v1"
    BY DEF Domains
  <2>2. q[2] \in Parts /\ q[3] \in Parts
    BY <1>4, <1>12
  <2>3. OpensWith(hash_scope(d, <<q[2], q[3]>>), d)
    BY <2>2, PartsBegin
  <2> QED
    BY <1>3, <1>12, <2>1, <2>3, KindsOfDomains, UpdatesOf
<1>13. CASE q[1] = "tag" /\ q[2] \in Digests /\ q[3] \in Digests /\ q[4] \in Numbers
  <2>1. u32(q[4]) \in Parts
    BY <1>13, BytesAssumption, NumberReads, PartsType
  <2>2. PICK d \in Domains : d = "VOLE-ARC/tag/v1"
    BY DEF Domains
  <2>3. q[2] \in Parts /\ q[3] \in Parts
    BY <1>4, <1>13
  <2>4. OpensWith(hash_scope(d, <<q[2], q[3], u32(q[4])>>), d)
    BY <2>1, <2>3, PartsBegin
  <2> QED
    BY <1>3, <1>13, <2>2, <2>4, KindsOfDomains, UpdatesOf
<1>14. CASE q[1] = "mayo_key" /\ q[2] \in Suites /\ q[3] \in Parts
  <2>1. PICK d \in Domains : d = "VOLE-ARC/mayo-public-key/v1"
    BY DEF Domains
  <2>2. OpensWith(mayo_system_and_hash(q[2], q[3]), d)
    BY <1>14, <2>1, mayo_system_and_hashBegins
  <2> QED
    BY <1>3, <1>14, <2>1, <2>2, KindsOfDomains, UpdatesOf
<1>15. CASE q[1] = "issuer_context" /\ Frameable(q[2]) /\ q[3] \in Digests /\ q[4] \in Suites /\ q[5] \in Profiles
  <2>1. PICK d \in Domains : d = "VOLE-ARC/issuer-context/v1"
    BY DEF Domains
  <2>2. OpensWith(derive_issuer_context(q[2], q[3], q[4], q[5]), d)
    BY <1>15, <2>1, derive_issuer_contextBegins
  <2> QED
    BY <1>3, <1>15, <2>1, <2>2, KindsOfDomains, UpdatesOf
<1>16. CASE q[1] = "issue_statement" /\ q[2] \in Suites /\ q[3] \in Digests /\ q[4] \in Digests /\ Frameable(q[5])
  <2>1. PICK d \in Domains : d = "VOLE-ARC/issue-statement/v1"
    BY DEF Domains
  <2>2. PICK p \in Seq(Parts) : issue_statement(q[2], q[3], q[4], q[5]) = hash_scope(d, p)
    BY <1>16, <2>1, issue_statementParts DEF IssueParts
  <2> QED
    BY <1>2, <1>16, <2>1, <2>2, KindsOfDomains, UpdatesOf
<1>17. CASE q[1] = "presentation_statement" /\ q[2] \in Suites /\ q[3] \in Digests /\ q[4] \in QueryChallenges /\ q[5] \in Digests
  <2>1. PICK d \in Domains : d = "VOLE-ARC/presentation-statement/v1"
    BY DEF Domains
  <2>2. PICK p \in Seq(Parts) : presentation_statement(q[2], q[3], q[4], q[5]) = hash_scope(d, p)
    BY <1>17, <2>1, presentation_statementParts DEF PresentationParts
  <2> QED
    BY <1>2, <1>17, <2>1, <2>2, KindsOfDomains, UpdatesOf
<1> QED
  BY <1>5, <1>6, <1>7, <1>8, <1>9, <1>10, <1>11, <1>12, <1>13, <1>14, <1>15, <1>16, <1>17 DEF Arguments

\* Three digests are read back from their bytes.
LEMMA ThreeDigests ==
  ASSUME NEW domain \in Domains, NEW a \in Digests, NEW b \in Digests, NEW c \in Digests,
         NEW d \in Digests, NEW e \in Digests, NEW f \in Digests,
         FlattenSeq(hash_scope(domain, <<a, b, c>>)) = FlattenSeq(hash_scope(domain, <<d, e, f>>))
  PROVE  a = d /\ b = e /\ c = f
<1>1. /\ a \in Parts /\ b \in Parts /\ c \in Parts /\ d \in Parts /\ e \in Parts /\ f \in Parts
      /\ Len(a) = Len(d) /\ Len(b) = Len(e) /\ Len(c) = Len(f)
  BY DigestType
<1> QED
  BY <1>1, ThreeParts

-----------------------------------------------------------------------------
(* The invariant of a hash.                                                *)

\* Framing and domain separation: two queries with the same bytes are one query.
LEMMA UpdatesReadBack ==
  ASSUME NEW q \in Queries, NEW p \in Queries, FlattenSeq(Updates(q)) = FlattenSeq(Updates(p))
  PROVE  q = p
<1>1. Arguments(q) /\ Arguments(p)
  BY QueryArguments
<1>2. q[1] = p[1]
  <2>1. PICK d : OpensWith(Updates(q), d) /\ KindOf(d) = q[1]
    BY <1>1, UpdatesBegin
  <2>2. PICK e : OpensWith(Updates(p), e) /\ KindOf(e) = p[1]
    BY <1>1, UpdatesBegin
  <2>3. d = e
    BY <2>1, <2>2, SameDomain
  <2> QED
    BY <2>1, <2>2, <2>3
<1>3. CASE q[1] \in {"credential_context", "presentation_context", "binding"}
  <2>1. IsTwo(q) /\ IsTwo(p) /\ Frameable(q[2]) /\ Frameable(p[2])
    BY <1>1, <1>2, <1>3 DEF Arguments
  <2>2. PICK d \in Domains : /\ Updates(q) = hash_framed(d, <<q[2]>>)
                             /\ Updates(p) = hash_framed(d, <<p[2]>>)
    <3>1. /\ "VOLE-ARC/credential-context/v1" \in Domains
          /\ "VOLE-ARC/presentation-context/v1" \in Domains
          /\ "VOLE-ARC/presentation-binding/v1" \in Domains
      BY DEF Domains
    <3> QED
      BY <1>2, <1>3, <3>1, UpdatesOf
  <2>3. q[2] = p[2]
    BY <2>1, <2>2, FramedReads
  <2> QED
    BY <1>2, <2>1, <2>3 DEF IsTwo
<1>4. CASE q[1] = "scoped"
  <2>1. /\ IsFour(q) /\ Frameable(q[2]) /\ Frameable(q[3]) /\ MayBeFramed(q[4])
        /\ IsFour(p) /\ Frameable(p[2]) /\ Frameable(p[3]) /\ MayBeFramed(p[4])
    BY <1>1, <1>2, <1>4 DEF Arguments
  <2>2. FlattenSeq(scoped(q[2], q[3], q[4])) = FlattenSeq(scoped(p[2], p[3], p[4]))
    BY <1>2, <1>4, UpdatesOf
  <2>3. q[2] = p[2] /\ q[3] = p[3] /\ q[4] = p[4]
    BY <2>1, <2>2, scopedReads
  <2> QED
    BY <1>2, <2>1, <2>3 DEF IsFour
<1>5. CASE q[1] = "credential_scope"
  <2>1. /\ IsThree(q) /\ q[2] \in Digests /\ q[3] \in Digests
        /\ IsThree(p) /\ p[2] \in Digests /\ p[3] \in Digests
    BY <1>1, <1>2, <1>5 DEF Arguments
  <2>2. PICK d \in Domains : /\ Updates(q) = hash_scope(d, <<q[2], q[3]>>)
                             /\ Updates(p) = hash_scope(d, <<p[2], p[3]>>)
    BY <1>2, <1>5, UpdatesOf DEF Domains
  <2>3. q[2] = p[2] /\ q[3] = p[3]
    BY <2>1, <2>2, TwoDigests
  <2> QED
    BY <1>2, <2>1, <2>3 DEF IsThree
<1>6. CASE q[1] \in {"presentation_scope", "credential"}
  <2>1. /\ IsFour(q) /\ q[2] \in Digests /\ q[3] \in Digests /\ q[4] \in Digests
        /\ IsFour(p) /\ p[2] \in Digests /\ p[3] \in Digests /\ p[4] \in Digests
    BY <1>1, <1>2, <1>6 DEF Arguments
  <2>2. PICK d \in Domains : /\ Updates(q) = hash_scope(d, <<q[2], q[3], q[4]>>)
                             /\ Updates(p) = hash_scope(d, <<p[2], p[3], p[4]>>)
    BY <1>2, <1>6, UpdatesOf DEF Domains
  <2>3. q[2] = p[2] /\ q[3] = p[3] /\ q[4] = p[4]
    BY <2>1, <2>2, ThreeDigests
  <2> QED
    BY <1>2, <2>1, <2>3 DEF IsFour
<1>7. CASE q[1] = "signed"
  <2>1. /\ IsThree(q) /\ q[2] \in Parts /\ q[3] \in Digests
        /\ IsThree(p) /\ p[2] \in Parts /\ p[3] \in Digests
    BY <1>1, <1>2, <1>7 DEF Arguments
  <2>2. PICK d \in Domains : /\ Updates(q) = hash_scope(d, <<q[2], q[3]>>)
                             /\ Updates(p) = hash_scope(d, <<p[2], p[3]>>)
    BY <1>2, <1>7, UpdatesOf DEF Domains
  <2>3. q[2] = p[2] /\ q[3] = p[3]
    BY <2>1, <2>2, SignedReads
  <2> QED
    BY <1>2, <2>1, <2>3 DEF IsThree
<1>8. CASE q[1] = "tag"
  <2>1. /\ IsFour(q) /\ q[2] \in Digests /\ q[3] \in Digests /\ q[4] \in Numbers
        /\ IsFour(p) /\ p[2] \in Digests /\ p[3] \in Digests /\ p[4] \in Numbers
    BY <1>1, <1>2, <1>8 DEF Arguments
  <2>2. /\ Updates(q) = hash_scope("VOLE-ARC/tag/v1", <<q[2], q[3], u32(q[4])>>)
        /\ Updates(p) = hash_scope("VOLE-ARC/tag/v1", <<p[2], p[3], u32(p[4])>>)
    BY <1>2, <1>8, UpdatesOf
  <2>3. q[2] = p[2] /\ q[3] = p[3] /\ q[4] = p[4]
    BY <2>1, <2>2, TagReads
  <2> QED
    BY <1>2, <2>1, <2>3 DEF IsFour
<1>9. CASE q[1] = "mayo_key"
  <2>1. /\ IsThree(q) /\ q[2] \in Suites /\ q[3] \in Parts
        /\ IsThree(p) /\ p[2] \in Suites /\ p[3] \in Parts
    BY <1>1, <1>2, <1>9 DEF Arguments
  <2>2. FlattenSeq(mayo_system_and_hash(q[2], q[3])) = FlattenSeq(mayo_system_and_hash(p[2], p[3]))
    BY <1>2, <1>9, UpdatesOf
  <2>3. q[2] = p[2] /\ q[3] = p[3]
    BY <2>1, <2>2, mayo_system_and_hashReads
  <2> QED
    BY <1>2, <2>1, <2>3 DEF IsThree
<1>10. CASE q[1] = "issuer_context"
  <2>1. /\ IsFive(q) /\ Frameable(q[2]) /\ q[3] \in Digests /\ q[4] \in Suites /\ q[5] \in Profiles
        /\ IsFive(p) /\ Frameable(p[2]) /\ p[3] \in Digests /\ p[4] \in Suites /\ p[5] \in Profiles
    BY <1>1, <1>2, <1>10 DEF Arguments
  <2>2. FlattenSeq(derive_issuer_context(q[2], q[3], q[4], q[5]))
          = FlattenSeq(derive_issuer_context(p[2], p[3], p[4], p[5]))
    BY <1>2, <1>10, UpdatesOf
  <2>3. q[2] = p[2] /\ q[3] = p[3] /\ q[4] = p[4] /\ q[5] = p[5]
    BY <2>1, <2>2, derive_issuer_contextReads
  <2> QED
    BY <1>2, <2>1, <2>3 DEF IsFive
<1>11. CASE q[1] = "issue_statement"
  <2>1. /\ IsFive(q) /\ q[2] \in Suites /\ q[3] \in Digests /\ q[4] \in Digests /\ Frameable(q[5])
        /\ IsFive(p) /\ p[2] \in Suites /\ p[3] \in Digests /\ p[4] \in Digests /\ Frameable(p[5])
    BY <1>1, <1>2, <1>11 DEF Arguments
  <2>2. FlattenSeq(issue_statement(q[2], q[3], q[4], q[5]))
          = FlattenSeq(issue_statement(p[2], p[3], p[4], p[5]))
    BY <1>2, <1>11, UpdatesOf
  <2>3. q[2] = p[2] /\ q[3] = p[3] /\ q[4] = p[4] /\ q[5] = p[5]
    BY <2>1, <2>2, issue_statementReads
  <2> QED
    BY <1>2, <2>1, <2>3 DEF IsFive
<1>12. CASE q[1] = "presentation_statement"
  <2>1. /\ IsFive(q) /\ q[2] \in Suites /\ q[3] \in Digests /\ q[4] \in QueryChallenges /\ q[5] \in Digests
        /\ IsFive(p) /\ p[2] \in Suites /\ p[3] \in Digests /\ p[4] \in QueryChallenges /\ p[5] \in Digests
    BY <1>1, <1>2, <1>12 DEF Arguments
  <2>2. FlattenSeq(presentation_statement(q[2], q[3], q[4], q[5]))
          = FlattenSeq(presentation_statement(p[2], p[3], p[4], p[5]))
    BY <1>2, <1>12, UpdatesOf
  <2>3. /\ PresentationArguments(q[2], q[3], q[4], q[5])
        /\ PresentationArguments(p[2], p[3], p[4], p[5])
    BY <2>1 DEF PresentationArguments
  <2>4. q[2] = p[2] /\ q[3] = p[3] /\ q[4] = p[4] /\ q[5] = p[5]
    BY <2>2, <2>3, presentation_statementReads
  <2> QED
    BY <1>2, <2>1, <2>4 DEF IsFive
<1> QED
  BY <1>1, <1>3, <1>4, <1>5, <1>6, <1>7, <1>8, <1>9, <1>10, <1>11, <1>12 DEF Arguments

\* The bytes still to come are those of the updates still to come.
HashIInv ==
  /\ query \in Queries
  /\ updates \in Seq(Parts) /\ absorbed \in Parts
  /\ absorbed \o FlattenSeq(updates) = FlattenSeq(Updates(query))

\* It holds of a new hash,
LEMMA HashIInvInit ==
  ASSUME Init
  PROVE  HashIInv
<1>1. query \in Queries /\ updates = Updates(query) /\ absorbed = <<>>
  BY DEF Init
<1>2. updates \in Seq(Parts)
  BY <1>1, QueryArguments, UpdatesBegin DEF OpensWith
<1>3. PICK f \in Seq(Symbols) : f = FlattenSeq(updates)
  BY <1>2, FlattenType DEF Parts
<1>4. <<>> \o f = f /\ <<>> \in Seq(Symbols)
  BY ConcatEmptySeq, EmptySeq
<1>5. absorbed \o FlattenSeq(updates) = FlattenSeq(Updates(query))
  BY <1>1, <1>3, <1>4, Zenon
<1> QED
  BY <1>1, <1>2, <1>4, <1>5 DEF HashIInv, Parts

\* every update keeps it,
LEMMA HashIInvUpdate ==
  ASSUME HashIInv, Update
  PROVE  HashIInv'
<1>1. /\ query \in Queries /\ updates \in Seq(Seq(Symbols)) /\ absorbed \in Seq(Symbols)
      /\ absorbed \o FlattenSeq(updates) = FlattenSeq(Updates(query))
  BY DEF HashIInv, Parts
<1>2. /\ updates # <<>> /\ absorbed' = absorbed \o Head(updates)
      /\ updates' = Tail(updates) /\ query' = query
  BY DEF Update
<1>3. Len(updates) # 0
  BY <1>1, <1>2, EmptySeq
<1>4. /\ Head(updates) \in Seq(Symbols) /\ Tail(updates) \in Seq(Seq(Symbols))
      /\ FlattenSeq(updates) = Head(updates) \o FlattenSeq(Tail(updates))
  BY <1>1, <1>3, FlattenHead
<1>5. PICK h \in Seq(Symbols) : h = Head(updates)
  BY <1>4
<1>6. PICK f \in Seq(Symbols) : f = FlattenSeq(Tail(updates))
  BY <1>4, FlattenType
<1>7. PICK a \in Seq(Symbols) : a = absorbed
  BY <1>1
<1>8. (a \o h) \o f = a \o (h \o f)
  BY Associative
<1>9. absorbed' \o FlattenSeq(updates') = FlattenSeq(Updates(query'))
  <2>1. absorbed' \o FlattenSeq(updates') = (a \o h) \o f
    BY <1>2, <1>5, <1>6, <1>7, Zenon
  <2>2. absorbed \o FlattenSeq(updates) = a \o (h \o f)
    BY <1>4, <1>5, <1>6, <1>7, Zenon
  <2>3. FlattenSeq(Updates(query')) = FlattenSeq(Updates(query))
    BY <1>2, Zenon
  <2> QED
    BY <1>1, <1>8, <2>1, <2>2, <2>3, Zenon
<1>10. absorbed' \in Seq(Symbols)
  <2>1. a \o h \in Seq(Symbols)
    BY ConcatProperties
  <2> QED
    BY <1>2, <1>5, <1>7, <2>1, Zenon
<1> QED
  BY <1>1, <1>2, <1>4, <1>9, <1>10 DEF HashIInv, Parts

\* and when no update is left the bytes are those of the query, and of no other.
LEMMA HashIInvOneQuery ==
  ASSUME HashIInv
  PROVE  OneQueryPerInput
<1> SUFFICES ASSUME updates = <<>>
             PROVE  {h \in HashedAs : h[2] = absorbed} = {<<query, absorbed>>}
  BY DEF OneQueryPerInput
<1>1. absorbed = FlattenSeq(Updates(query))
  <2>1. /\ absorbed \in Seq(Symbols)
        /\ absorbed \o FlattenSeq(updates) = FlattenSeq(Updates(query))
    BY DEF HashIInv, Parts
  <2>2. absorbed \o <<>> = absorbed
    BY <2>1, ConcatEmptySeq
  <2>3. FlattenSeq(updates) = <<>>
    BY FlattenEmpty, Zenon
  <2> QED
    BY <2>1, <2>2, <2>3, Zenon
<1>2. <<query, absorbed>> \in HashedAs
  BY <1>1 DEF HashedAs, HashIInv
<1>3. ASSUME NEW h \in HashedAs, h[2] = absorbed
      PROVE  h = <<query, absorbed>>
  <2>1. PICK q \in Queries : h = <<q, FlattenSeq(Updates(q))>>
    BY DEF HashedAs
  <2>2. FlattenSeq(Updates(q)) = FlattenSeq(Updates(query))
    BY <1>1, <1>3, <2>1
  <2>3. q = query
    BY <2>2, UpdatesReadBack DEF HashIInv
  <2> QED
    BY <1>1, <2>1, <2>3
<1> QED
  BY <1>2, <1>3

\* The bytes a hash has taken in when it is finalized are the bytes of one query of
\* the program alone, for all data, digests, suites, profiles and numbers.
THEOREM HashOneQueryPerInput == Spec => []OneQueryPerInput
<1>1. Init => HashIInv
  BY HashIInvInit
<1>2. HashIInv /\ [Next]_vars => HashIInv'
  <2>1. HashIInv /\ UNCHANGED vars => HashIInv'
    BY DEF HashIInv, vars
  <2> QED
    BY <2>1, HashIInvUpdate DEF Next
<1>3. HashIInv => OneQueryPerInput
  BY HashIInvOneQuery
<1> QED
  BY <1>1, <1>2, <1>3, PTL DEF Spec
=============================================================================
