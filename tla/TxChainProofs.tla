----------------------------- MODULE TxChainProofs -----------------------------
(* The transmit side: the invariants of BuildPacket, AfskBasic, AfskBasicPdu    *)
(* and TxChain, for all packets, files, messages, rates, preambles and lengths  *)
(* of the output buffers, for any number of restarts, and for any checksum of   *)
(* four bytes.                                                                  *)
(*                                                                              *)
(* Each block has an invariant of its own, BInv, AInv with SInv, and PInv.  The *)
(* chain takes no step that is not one of its blocks' (ChainStep), so they hold *)
(* in it as well, and CInv follows the packets from one block to the next.      *)
EXTENDS TxChain, FifoLemmas, FiniteSetTheorems

--------------------------------------------------------------------------------
\* Sequences.

\* A sequence that agrees with a part of another one is that part.
LEMMA PartIs ==
  ASSUME NEW S, NEW q, NEW t \in Seq(S), NEW m \in Int, NEW n \in Int, Len(t) = n - m + 1,
         \A i \in 1..Len(t) : t[i] = q[m + i - 1]
  PROVE  SubSeq(q, m, n) = t
<1>1. Len(t) \in Nat /\ \A i \in 1..Len(t) : t[i] \in S
  BY LenProperties, ElementOfSeq
<1>2. \A i \in m..n : q[i] \in S
  <2> TAKE i \in m..n
  <2>1. i - m + 1 \in 1..Len(t) /\ m + (i - m + 1) - 1 = i
    OBVIOUS
  <2>2. t[i - m + 1] = q[m + (i - m + 1) - 1]
    BY <2>1
  <2>3. t[i - m + 1] \in S
    BY <1>1, <2>1
  <2> QED
    BY <2>1, <2>2, <2>3
<1>3. /\ SubSeq(q, m, n) \in Seq(S)
      /\ Len(SubSeq(q, m, n)) = IF m <= n THEN n - m + 1 ELSE 0
      /\ \A i \in 1..(n - m + 1) : SubSeq(q, m, n)[i] = q[m + i - 1]
  BY <1>2, SubSeqProperties
<1>4. Len(SubSeq(q, m, n)) = Len(t)
  <2>1. m <= n \/ n - m + 1 = 0
    BY <1>1
  <2> QED
    BY <1>3, <2>1
<1>5. \A i \in 1..Len(SubSeq(q, m, n)) : SubSeq(q, m, n)[i] = t[i]
  BY <1>3, <1>4
<1> QED
  BY <1>3, <1>4, <1>5, SeqEqual

\* Two sequences in one.
LEMMA Joined ==
  ASSUME NEW S, NEW s \in Seq(S), NEW t \in Seq(S)
  PROVE  /\ s \o t \in Seq(S) /\ Len(s \o t) = Len(s) + Len(t)
         /\ \A k \in 1..Len(s) : (s \o t)[k] = s[k]
         /\ \A k \in 1..Len(t) : (s \o t)[Len(s) + k] = t[k]
<1> DEFINE m == Len(s)
           n == Len(t)
           q == s \o t
<1>1. m \in Nat /\ n \in Nat
  BY LenProperties
<1>2. /\ q \in Seq(S) /\ Len(q) = m + n
      /\ \A i \in 1..(m + n) : q[i] = IF i <= m THEN s[i] ELSE t[i - m]
  BY ConcatProperties
<1> HIDE DEF m, n, q
<1>3. \A k \in 1..m : q[k] = s[k]
  <2> TAKE k \in 1..m
  <2>1. k \in 1..(m + n) /\ k <= m
    BY <1>1
  <2> QED
    BY <1>2, <2>1
<1>4. \A k \in 1..n : q[m + k] = t[k]
  <2> TAKE k \in 1..n
  <2>1. m + k \in 1..(m + n) /\ ~(m + k <= m)
    BY <1>1
  <2>2. q[m + k] = t[(m + k) - m]
    BY <1>2, <2>1
  <2>3. (m + k) - m = k
    BY <1>1
  <2> QED
    BY <2>2, <2>3
<1> QED
  BY <1>2, <1>3, <1>4 DEF m, n, q

\* Four sequences in one.
LEMMA FourJoined ==
  ASSUME NEW S, NEW a \in Seq(S), NEW b \in Seq(S), NEW c \in Seq(S), NEW d \in Seq(S),
         NEW q, q = a \o b \o c \o d
  PROVE  /\ q \in Seq(S) /\ Len(q) = Len(a) + Len(b) + Len(c) + Len(d)
         /\ \A i \in 1..Len(a) : q[i] = a[i]
         /\ \A i \in 1..Len(b) : q[Len(a) + i] = b[i]
         /\ \A i \in 1..Len(c) : q[Len(a) + Len(b) + i] = c[i]
<1> DEFINE ab   == a \o b
           abc  == ab \o c
           abcd == abc \o d
<1>1. Len(a) \in Nat /\ Len(b) \in Nat /\ Len(c) \in Nat /\ Len(d) \in Nat
  BY LenProperties
<1>2. /\ ab \in Seq(S) /\ Len(ab) = Len(a) + Len(b)
      /\ \A i \in 1..Len(a) : ab[i] = a[i]
      /\ \A i \in 1..Len(b) : ab[Len(a) + i] = b[i]
  BY Joined
<1> HIDE DEF ab
<1>3. /\ abc \in Seq(S) /\ Len(abc) = Len(ab) + Len(c)
      /\ \A i \in 1..Len(ab) : abc[i] = ab[i]
      /\ \A i \in 1..Len(c) : abc[Len(ab) + i] = c[i]
  <2>1. ab \in Seq(S)
    BY <1>2
  <2> QED
    BY <2>1, Joined
<1> HIDE DEF abc
<1>4. /\ abcd \in Seq(S) /\ Len(abcd) = Len(abc) + Len(d)
      /\ \A i \in 1..Len(abc) : abcd[i] = abc[i]
  <2>1. abc \in Seq(S)
    BY <1>3
  <2> QED
    BY <2>1, Joined
<1> HIDE DEF abcd
<1>5. abcd \in Seq(S) /\ Len(abcd) = Len(a) + Len(b) + Len(c) + Len(d)
  BY <1>1, <1>2, <1>3, <1>4
<1>6. \A i \in 1..Len(a) : abcd[i] = a[i]
  <2> TAKE i \in 1..Len(a)
  <2>1. i \in 1..Len(ab) /\ i \in 1..Len(abc)
    BY <1>1, <1>2, <1>3
  <2> QED
    BY <1>2, <1>3, <1>4, <2>1
<1>7. \A i \in 1..Len(b) : abcd[Len(a) + i] = b[i]
  <2> TAKE i \in 1..Len(b)
  <2>1. Len(a) + i \in 1..Len(ab) /\ Len(a) + i \in 1..Len(abc)
    BY <1>1, <1>2, <1>3
  <2>2. abcd[Len(a) + i] = abc[Len(a) + i]
    BY <1>4, <2>1
  <2>3. abc[Len(a) + i] = ab[Len(a) + i]
    BY <1>3, <2>1
  <2> QED
    BY <1>2, <2>2, <2>3
<1>8. \A i \in 1..Len(c) : abcd[Len(a) + Len(b) + i] = c[i]
  <2> TAKE i \in 1..Len(c)
  <2>1. Len(ab) + i \in 1..Len(abc)
    BY <1>1, <1>2, <1>3
  <2> QED
    BY <1>1, <1>2, <1>3, <1>4, <2>1
<1> QED
  BY <1>5, <1>6, <1>7, <1>8 DEF abcd, abc, ab

\* A function on 1..n.
LEMMA FunctionIsSeq ==
  ASSUME NEW S, NEW n \in Nat, NEW f \in [1..n -> S]
  PROVE  f \in Seq(S) /\ Len(f) = n
BY SeqDef

--------------------------------------------------------------------------------
\* BuildPacket: bytes and bits.

Bytes == 0..255

LEMMA ByteIsNumber == \A b : b \in Bytes <=> b \in Nat /\ b < 256
BY DEF Bytes

\* All the proofs need to know of gr::digital::crc32.  TLC cannot try all sequences
\* of bytes, so it is a hypothesis of the theorems and no ASSUME.
Crc32IsFourBytes == \A bytes \in Seq(Bytes) : crc32(bytes) \in [1..4 -> Bytes]

LEMMA ChecksumIsSeq ==
  ASSUME Crc32IsFourBytes, NEW bytes \in Seq(Bytes)
  PROVE  crc32(bytes) \in Seq(Bytes) /\ Len(crc32(bytes)) = 4
<1>1. crc32(bytes) \in [1..4 -> Bytes] /\ 4 \in Nat
  BY DEF Crc32IsFourBytes
<1> HIDE DEF Bytes
<1> QED
  BY <1>1, FunctionIsSeq

LEMMA ZerosAreBytes ==
  ASSUME NEW n \in Nat
  PROVE  Zeros(n) \in Seq(Bytes) /\ Len(Zeros(n)) = n
<1>1. Zeros(n) \in [1..n -> Bytes]
  BY ByteIsNumber DEF Zeros
<1> QED
  BY <1>1, SeqDef

\* The fields in front of the checksum of a header, low byte first.
Head4(size) == << 55, 19 >> \o U16(size)

LEMMA PairIsSeq ==
  ASSUME NEW S, NEW a \in S, NEW b \in S
  PROVE  << a, b >> \in Seq(S) /\ Len(<< a, b >>) = 2
OBVIOUS

LEMMA Head4IsSeq ==
  ASSUME NEW size \in Nat, size < 65536
  PROVE  /\ Head4(size) \in Seq(Bytes) /\ Len(Head4(size)) = 4
         /\ Head4(size)[1] = 55 /\ Head4(size)[2] = 19
         /\ Head4(size)[3] + 256 * Head4(size)[4] = size
<1> DEFINE low   == size % 256
           high  == (size \div 256) % 256
           front == << 55, 19 >>
           back  == << low, high >>
<1>1. low \in Bytes /\ high \in Bytes /\ low + 256 * high = size
  <2>1. /\ size \div 256 \in Nat /\ size \div 256 < 256
        /\ size % 256 \in Nat /\ size % 256 < 256
        /\ size = 256 * (size \div 256) + (size % 256)
    OBVIOUS
  <2>2. high = size \div 256
    BY <2>1
  <2> QED
    BY <2>1, <2>2, ByteIsNumber
<1>2. Head4(size) = front \o back
  BY DEF Head4, U16
<1>3. front[1] = 55 /\ front[2] = 19 /\ back[1] = low /\ back[2] = high
  OBVIOUS
<1> HIDE DEF low, high
<1>4. front \in Seq(Bytes) /\ Len(front) = 2
  <2>1. 55 \in Bytes /\ 19 \in Bytes
    BY ByteIsNumber
  <2> QED
    BY <2>1, PairIsSeq
<1>5. back \in Seq(Bytes) /\ Len(back) = 2
  BY <1>1, PairIsSeq
<1> HIDE DEF front, back
<1>6. /\ front \o back \in Seq(Bytes) /\ Len(front \o back) = Len(front) + Len(back)
      /\ \A i \in 1..Len(front) : (front \o back)[i] = front[i]
      /\ \A i \in 1..Len(back) : (front \o back)[Len(front) + i] = back[i]
  <2>1. front \in Seq(Bytes) /\ back \in Seq(Bytes)
    BY <1>4, <1>5
  <2> QED
    BY <2>1, Joined
<1>7. /\ Head4(size) \in Seq(Bytes) /\ Len(Head4(size)) = 2 + 2
      /\ \A i \in 1..2 : Head4(size)[i] = front[i]
      /\ \A i \in 1..2 : Head4(size)[2 + i] = back[i]
  BY <1>2, <1>4, <1>5, <1>6
<1>8. /\ Head4(size)[1] = 55 /\ Head4(size)[2] = 19
      /\ Head4(size)[2 + 1] = low /\ Head4(size)[2 + 2] = high
  BY <1>3, <1>7
<1> QED
  BY <1>1, <1>7, <1>8

\* The bits of a byte are all of it.
LEMMA ByteOfBits ==
  ASSUME NEW b \in Bytes
  PROVE  128 * Bit(b, 7) + 64 * Bit(b, 6) + 32 * Bit(b, 5) + 16 * Bit(b, 4)
           + 8 * Bit(b, 3) + 4 * Bit(b, 2) + 2 * Bit(b, 1) + Bit(b, 0) = b
<1>0. b \in Nat /\ b < 256
  BY ByteIsNumber
<1>1. /\ 2^0 = 1 /\ 2^1 = 2 /\ 2^2 = 4 /\ 2^3 = 8
      /\ 2^4 = 16 /\ 2^5 = 32 /\ 2^6 = 64 /\ 2^7 = 128
  OBVIOUS
<1>2. /\ Bit(b, 7) = (b \div 128) % 2 /\ Bit(b, 6) = (b \div 64) % 2
      /\ Bit(b, 5) = (b \div 32) % 2 /\ Bit(b, 4) = (b \div 16) % 2
      /\ Bit(b, 3) = (b \div 8) % 2 /\ Bit(b, 2) = (b \div 4) % 2
      /\ Bit(b, 1) = (b \div 2) % 2 /\ Bit(b, 0) = b % 2
  BY <1>0, <1>1 DEF Bit
<1>3. (b \div 128) % 2 = b \div 128
  BY <1>0
<1>4. b \div 64 = 2 * (b \div 128) + ((b \div 64) % 2)
  BY <1>0
<1>5. b \div 32 = 2 * (b \div 64) + ((b \div 32) % 2)
  BY <1>0
<1>6. b \div 16 = 2 * (b \div 32) + ((b \div 16) % 2)
  BY <1>0
<1>7. b \div 8 = 2 * (b \div 16) + ((b \div 8) % 2)
  BY <1>0
<1>8. b \div 4 = 2 * (b \div 8) + ((b \div 4) % 2)
  BY <1>0
<1>9. b \div 2 = 2 * (b \div 4) + ((b \div 2) % 2)
  BY <1>0
<1>10. b = 2 * (b \div 2) + (b % 2)
  BY <1>0
<1> QED
  BY <1>2, <1>3, <1>4, <1>5, <1>6, <1>7, <1>8, <1>9, <1>10, <1>0

LEMMA BitIsBit ==
  ASSUME NEW b \in Bytes, NEW n \in 0..7
  PROVE  Bit(b, n) \in 0..1
<1>0. b \in Nat /\ b < 256
  BY ByteIsNumber
<1>1. /\ 2^0 = 1 /\ 2^1 = 2 /\ 2^2 = 4 /\ 2^3 = 8
      /\ 2^4 = 16 /\ 2^5 = 32 /\ 2^6 = 64 /\ 2^7 = 128
  OBVIOUS
<1>2. n = 0 \/ n = 1 \/ n = 2 \/ n = 3 \/ n = 4 \/ n = 5 \/ n = 6 \/ n = 7
  OBVIOUS
<1>3. 2^n \in Nat \ {0}
  <2> DEFINE pow(k) == 2^k
  <2>1. /\ pow(0) = 1 /\ pow(1) = 2 /\ pow(2) = 4 /\ pow(3) = 8
        /\ pow(4) = 16 /\ pow(5) = 32 /\ pow(6) = 64 /\ pow(7) = 128
    BY <1>1
  <2> HIDE DEF pow
  <2>2. pow(n) \in Nat \ {0}
    BY <1>2, <2>1
  <2> QED
    BY <2>2 DEF pow
<1>4. b \div 2^n \in Int
  BY <1>0, <1>3
<1> QED
  BY <1>4 DEF Bit

LEMMA UnpackIsSeq ==
  ASSUME NEW bytes \in Seq(Bytes)
  PROVE  Unpack(bytes) \in Seq(0..1) /\ Len(Unpack(bytes)) = 8 * Len(bytes)
<1> DEFINE e(i) == Bit(bytes[((i - 1) \div 8) + 1], 7 - ((i - 1) % 8))
           n    == 8 * Len(bytes)
<1>1. Len(bytes) \in Nat /\ n \in Nat
  BY LenProperties
<1>2. \A i \in 1..n : e(i) \in 0..1
  <2> TAKE i \in 1..n
  <2>1. ((i - 1) \div 8) + 1 \in 1..Len(bytes) /\ 7 - ((i - 1) % 8) \in 0..7
    BY <1>1
  <2>2. bytes[((i - 1) \div 8) + 1] \in Bytes
    BY <2>1, ElementOfSeq
  <2> QED
    BY <2>1, <2>2, BitIsBit
<1>3. Unpack(bytes) = [i \in 1..n |-> e(i)]
  BY DEF Unpack
<1> HIDE DEF n, e
<1>4. Unpack(bytes) \in [1..n -> 0..1]
  BY <1>2, <1>3
<1>5. Unpack(bytes) \in Seq(0..1) /\ Len(Unpack(bytes)) = n
  BY <1>1, <1>4, SeqDef
<1> QED
  BY <1>5 DEF n

\* Packing what was unpacked gives the bytes again.
LEMMA PackOfUnpack ==
  ASSUME NEW bytes \in Seq(Bytes)
  PROVE  Pack(Unpack(bytes)) = bytes
<1> DEFINE bits == Unpack(bytes)
           n    == Len(bytes)
           b(i, k) == bits[8 * (i - 1) + k]
           e(i) == 128 * b(i, 1) + 64 * b(i, 2) + 32 * b(i, 3) + 16 * b(i, 4)
                     + 8 * b(i, 5) + 4 * b(i, 6) + 2 * b(i, 7) + b(i, 8)
<1>1. n \in Nat /\ Len(bits) = 8 * n
  BY LenProperties, UnpackIsSeq
<1>2. Len(bits) \div 8 = n
  <2> HIDE DEF n, bits
  <2> QED
    BY <1>1
<1>3. Pack(bits) = [i \in 1..n |-> e(i)]
  BY <1>2 DEF Pack
<1>4. ASSUME NEW i \in 1..n, NEW k \in 1..8
      PROVE  b(i, k) = Bit(bytes[i], 8 - k)
  <2>1. 8 * (i - 1) + k \in 1..(8 * n)
    BY <1>1
  <2>2. (8 * (i - 1) + k - 1) \div 8 = i - 1 /\ (8 * (i - 1) + k - 1) % 8 = k - 1
    BY <1>1
  <2>3. b(i, k) = Bit(bytes[((8 * (i - 1) + k - 1) \div 8) + 1], 7 - ((8 * (i - 1) + k - 1) % 8))
    BY <2>1 DEF Unpack
  <2>4. (i - 1) + 1 = i /\ 7 - (k - 1) = 8 - k
    BY <1>1
  <2> QED
    BY <2>2, <2>3, <2>4
<1>5. \A i \in 1..n : e(i) = bytes[i]
  <2> TAKE i \in 1..n
  <2>1. bytes[i] \in Bytes
    BY ElementOfSeq
  <2>2. /\ b(i, 1) = Bit(bytes[i], 7) /\ b(i, 2) = Bit(bytes[i], 6)
        /\ b(i, 3) = Bit(bytes[i], 5) /\ b(i, 4) = Bit(bytes[i], 4)
        /\ b(i, 5) = Bit(bytes[i], 3) /\ b(i, 6) = Bit(bytes[i], 2)
        /\ b(i, 7) = Bit(bytes[i], 1) /\ b(i, 8) = Bit(bytes[i], 0)
    <3> HIDE DEF b
    <3>1. /\ 8 - 1 = 7 /\ 8 - 2 = 6 /\ 8 - 3 = 5 /\ 8 - 4 = 4
          /\ 8 - 5 = 3 /\ 8 - 6 = 2 /\ 8 - 7 = 1 /\ 8 - 8 = 0
      OBVIOUS
    <3> QED
      BY <1>4, <3>1
  <2> HIDE DEF b
  <2> QED
    BY <2>1, <2>2, ByteOfBits
<1> HIDE DEF n, e, bits
<1>6. bytes \in [1..n -> Bytes]
  BY LenProperties DEF n
<1> QED
  BY <1>3, <1>5, <1>6 DEF bits

--------------------------------------------------------------------------------
\* BuildPacket: the invariant.

BuildTypes ==
  /\ m_appendHeader \in BOOLEAN
  /\ m_packetLength \in Nat
  /\ m_dataType \in { DATA_PACKED, DATA_UNPACKED }
  /\ m_dataFrom \in { DATA_FROM_RANDOM_GENERATOR, DATA_FROM_FILE, DATA_CMD_LINE }
  /\ packet_bytes \in Seq(Bytes)
  /\ m_fileSize \in Nat /\ m_fileIncrement \in Nat
  /\ file \in Seq(Bytes) /\ whole \in Seq(Bytes)
  /\ stat_pdus \in Seq(Int) /\ out_pdus \in Seq(Seq(Bytes))
  /\ triggers \in Nat

\* Only the bytes of a command line may be a packet of another length.
LengthKept ==
  /\ m_packetLength \in PacketLengths \/ m_packetLength = Len(packet_bytes)
  /\ m_dataFrom # DATA_CMD_LINE => m_packetLength \in PacketLengths
  /\ m_dataFrom = DATA_CMD_LINE /\ out_pdus # << >> => m_packetLength = Len(packet_bytes)
  /\ HasHeader => m_packetLength >= 12

PerTrigger == Len(stat_pdus) <= triggers /\ Len(out_pdus) <= triggers

PdusFit ==
  \A k \in 1..Len(out_pdus) :
    /\ Len(out_pdus[k]) = m_packetLength * (IF m_dataType = DATA_UNPACKED THEN 8 ELSE 1)
    /\ m_dataType = DATA_UNPACKED => out_pdus[k] \in Seq(0..1)

FileIsWhole ==
  /\ Len(file) <= Len(whole) /\ \A i \in 1..Len(file) : file[i] = whole[i]
  /\ m_fileIncrement <= Len(whole)

\* All packets so far are full; or the file came to an end in one of them, and
\* those that may still follow are empty.
CursorBehind ==
  m_dataFrom = DATA_FROM_FILE =>
    \/ m_fileIncrement = Len(out_pdus) * Room
    \/ /\ m_fileIncrement <= Len(out_pdus) * Room
       /\ m_fileIncrement >= m_fileSize \/ m_fileIncrement >= Len(file)

BInv ==
  BuildTypes /\ LengthKept /\ PerTrigger /\ PdusFit /\ FileIsWhole /\ CursorBehind /\ FileInOrder

LEMMA RoomIs ==
  ASSUME BuildTypes, LengthKept
  PROVE  /\ Room \in Nat
         /\ HasHeader => Room = m_packetLength - 12 /\ Room < 65536
         /\ ~HasHeader => Room = m_packetLength
<1>1. CASE HasHeader
  <2>1. m_dataFrom # DATA_CMD_LINE /\ m_packetLength >= 12
    BY <1>1 DEF HasHeader, LengthKept
  <2>2. m_packetLength \in PacketLengths /\ m_packetLength \in Nat
    BY <2>1 DEF LengthKept, BuildTypes
  <2>3. m_packetLength < 65536 + 12
    BY <2>2, LengthFieldAssumption
  <2>4. Room = m_packetLength - 4 - 8
    BY <1>1 DEF Room, payload_length, offset
  <2> QED
    BY <1>1, <2>1, <2>2, <2>3, <2>4
<1>2. CASE ~HasHeader
  <2>1. m_packetLength \in Nat
    BY DEF BuildTypes
  <2>2. Room = m_packetLength - 0
    BY <1>2 DEF Room, payload_length, offset
  <2> QED
    BY <1>2, <2>1, <2>2
<1> QED
  BY <1>1, <1>2

\* A packet without a header is its payload, filled up.
LEMMA PlainPacket ==
  ASSUME BuildTypes, LengthKept, ~HasHeader,
         NEW payload \in Seq(Bytes), Len(payload) <= Room
  PROVE  /\ data_packet(payload) = payload \o Zeros(m_packetLength - Len(payload))
         /\ data_packet(payload) \in Seq(Bytes) /\ Len(data_packet(payload)) = m_packetLength
<1> DEFINE n     == m_packetLength - Len(payload)
           zeros == Zeros(n)
<1>1. Room = m_packetLength /\ m_packetLength \in Nat /\ Len(payload) \in Nat
  BY RoomIs, LenProperties DEF BuildTypes
<1>2. data_packet(payload) = payload \o zeros
  BY <1>1 DEF data_packet
<1>3. n \in Nat
  BY <1>1
<1> HIDE DEF n
<1>4. zeros \in Seq(Bytes) /\ Len(zeros) = n
  BY <1>3, ZerosAreBytes
<1> HIDE DEF zeros
<1>5. payload \o zeros \in Seq(Bytes) /\ Len(payload \o zeros) = Len(payload) + Len(zeros)
  BY <1>4, Joined
<1>6. Len(payload) + n = m_packetLength
  BY <1>1 DEF n
<1> QED
  BY <1>2, <1>4, <1>5, <1>6 DEF zeros, n

\* A packet with a header carries its payload.
LEMMA HeaderedPacket ==
  ASSUME Crc32IsFourBytes, BuildTypes, LengthKept, HasHeader,
         NEW payload \in Seq(Bytes), Len(payload) <= Room
  PROVE  /\ data_packet(payload) \in Seq(Bytes) /\ Len(data_packet(payload)) = m_packetLength
         /\ SubSeq(data_packet(payload), 9, 8 + Len(payload)) = payload
         /\ Carries(data_packet(payload), payload)
<1> DEFINE room == Room
           size == Len(payload)
<1>0. /\ room = m_packetLength - 12 /\ room < 65536
      /\ room \in Nat /\ m_packetLength \in Nat
      /\ size \in Nat /\ size <= room
  <2>1. room = m_packetLength - 12 /\ room < 65536 /\ room \in Nat
    BY RoomIs
  <2>2. size \in Nat /\ m_packetLength \in Nat
    BY LenProperties DEF BuildTypes
  <2> QED
    BY <2>1, <2>2
<1> HIDE DEF room
<1> DEFINE extra  == room - size
           front  == Head4(size)
           header == front \o crc32(front)
           sum    == crc32(payload)
           zeros  == Zeros(extra)
           packet == header \o payload \o sum \o zeros
<1>2. data_packet(payload) = packet
  <2>1. Room - extra = size
    BY <1>0 DEF room
  <2> QED
    BY <2>1 DEF data_packet, Header, Head4, room
<1> HIDE DEF size
<1>1. extra \in Nat /\ size < 65536 /\ room - extra = size
  BY <1>0
<1>3. /\ front \in Seq(Bytes) /\ Len(front) = 4
      /\ front[1] = 55 /\ front[2] = 19 /\ front[3] + 256 * front[4] = size
  BY <1>0, <1>1, Head4IsSeq
<1>4. zeros \in Seq(Bytes) /\ Len(zeros) = extra
  BY <1>1, ZerosAreBytes
<1> HIDE DEF front, extra
<1>5. crc32(front) \in Seq(Bytes) /\ Len(crc32(front)) = 4
  BY <1>3, ChecksumIsSeq
<1>6. sum \in Seq(Bytes) /\ Len(sum) = 4
  BY ChecksumIsSeq
<1> HIDE DEF zeros, sum
<1>7. /\ header \in Seq(Bytes) /\ Len(header) = 8
      /\ \A i \in 1..4 : header[i] = front[i]
      /\ \A i \in 1..4 : header[4 + i] = crc32(front)[i]
  <2>1. front \in Seq(Bytes) /\ crc32(front) \in Seq(Bytes)
    BY <1>3, <1>5
  <2>2. /\ header \in Seq(Bytes) /\ Len(header) = Len(front) + Len(crc32(front))
        /\ \A i \in 1..Len(front) : header[i] = front[i]
        /\ \A i \in 1..Len(crc32(front)) : header[Len(front) + i] = crc32(front)[i]
    BY <2>1, Joined
  <2> HIDE DEF header
  <2> QED
    BY <1>3, <1>5, <2>2
<1> HIDE DEF header
<1>8. /\ packet \in Seq(Bytes)
      /\ Len(packet) = Len(header) + Len(payload) + Len(sum) + Len(zeros)
      /\ \A i \in 1..Len(header) : packet[i] = header[i]
      /\ \A i \in 1..Len(payload) : packet[Len(header) + i] = payload[i]
      /\ \A i \in 1..Len(sum) : packet[Len(header) + Len(payload) + i] = sum[i]
  <2>1. header \in Seq(Bytes) /\ payload \in Seq(Bytes) /\ sum \in Seq(Bytes) /\ zeros \in Seq(Bytes)
    BY <1>4, <1>6, <1>7
  <2>2. packet = header \o payload \o sum \o zeros
    OBVIOUS
  <2> HIDE DEF packet
  <2> QED
    BY <2>1, <2>2, FourJoined
<1> HIDE DEF packet
<1>9. packet \in Seq(Bytes) /\ Len(packet) = m_packetLength
  <2>1. Len(packet) = 8 + size + 4 + extra
    BY <1>4, <1>6, <1>7, <1>8 DEF size
  <2> QED
    BY <1>0, <1>8, <2>1 DEF extra
<1>10. \A i \in 1..4 : packet[i] = front[i]
  <2> TAKE i \in 1..4
  <2>1. i \in 1..Len(header)
    BY <1>7
  <2> QED
    BY <1>7, <1>8, <2>1
<1>11. SubSeq(packet, 1, 2) = << 55, 19 >>
  <2>1. packet[1] = 55 /\ packet[2] = 19
    <3>1. 1 \in 1..4 /\ 2 \in 1..4
      OBVIOUS
    <3> QED
      BY <1>3, <1>10, <3>1
  <2> DEFINE preload == << 55, 19 >>
  <2>2. preload[1] = 55 /\ preload[2] = 19
    OBVIOUS
  <2>3. preload \in Seq(Int) /\ Len(preload) = 2
    BY PairIsSeq
  <2> HIDE DEF preload
  <2>4. \A i \in 1..2 : preload[i] = packet[1 + i - 1]
    <3> TAKE i \in 1..2
    <3>1. 1 + i - 1 = i /\ (i = 1 \/ i = 2)
      OBVIOUS
    <3> QED
      BY <2>1, <2>2, <3>1
  <2>5. SubSeq(packet, 1, 2) = preload
    BY <2>3, <2>4, PartIs
  <2> QED
    BY <2>5 DEF preload
<1>12. packet[3] + 256 * packet[4] = size
  <2>1. packet[3] = front[3] /\ packet[4] = front[4]
    BY <1>10
  <2> QED
    BY <1>3, <2>1
<1>13. SubSeq(packet, 1, 4) = front
  <2>1. \A i \in 1..Len(front) : front[i] = packet[1 + i - 1]
    <3> TAKE i \in 1..Len(front)
    <3>1. 1 + i - 1 = i /\ i \in 1..4
      BY <1>3
    <3> QED
      BY <1>10, <3>1
  <2> QED
    BY <1>3, <2>1, PartIs
<1>14. SubSeq(packet, 5, 8) = crc32(front)
  <2>1. \A i \in 1..4 : crc32(front)[i] = packet[5 + i - 1]
    <3> TAKE i \in 1..4
    <3>1. 5 + i - 1 = 4 + i /\ 4 + i \in 1..Len(header)
      BY <1>7
    <3>2. header[4 + i] = crc32(front)[i]
      BY <1>7
    <3> QED
      BY <1>8, <3>1, <3>2
  <2> DEFINE check == crc32(front)
  <2>2. check \in Seq(Bytes) /\ Len(check) = 4 /\ \A i \in 1..Len(check) : check[i] = packet[5 + i - 1]
    BY <1>5, <2>1
  <2> HIDE DEF check
  <2>3. SubSeq(packet, 5, 8) = check
    BY <2>2, PartIs
  <2> QED
    BY <2>3 DEF check
<1>15. SubSeq(packet, 9, 8 + size) = payload
  <2>1. \A i \in 1..Len(payload) : payload[i] = packet[9 + i - 1]
    <3> TAKE i \in 1..Len(payload)
    <3>1. 9 + i - 1 = 8 + i
      OBVIOUS
    <3> QED
      BY <1>7, <1>8, <3>1
  <2> DEFINE last == 8 + size
  <2>2. Len(payload) = last - 9 + 1 /\ last \in Int /\ 9 \in Int
    BY <1>0 DEF size
  <2> HIDE DEF last
  <2>3. SubSeq(packet, 9, last) = payload
    BY <2>1, <2>2, PartIs
  <2> QED
    BY <2>3 DEF last
<1>16. SubSeq(packet, 9 + size, 12 + size) = sum
  <2>1. \A i \in 1..Len(sum) : sum[i] = packet[9 + size + i - 1]
    <3> TAKE i \in 1..Len(sum)
    <3>1. 9 + size + i - 1 = 8 + size + i
      BY <1>0
    <3>2. packet[Len(header) + Len(payload) + i] = sum[i]
      BY <1>8
    <3> QED
      BY <1>7, <3>1, <3>2 DEF size
  <2> DEFINE first == 9 + size
             last  == 12 + size
  <2>2. Len(sum) = last - first + 1 /\ first \in Int /\ last \in Int
    BY <1>0, <1>6
  <2>3. sum \in Seq(Bytes) /\ \A i \in 1..Len(sum) : sum[i] = packet[first + i - 1]
    BY <1>6, <2>1
  <2> HIDE DEF first, last
  <2>4. SubSeq(packet, first, last) = sum
    BY <2>2, <2>3, PartIs
  <2> QED
    BY <2>4 DEF first, last
<1>17. Carries(packet, payload)
  BY <1>11, <1>12, <1>13, <1>14, <1>15, <1>16 DEF Carries, sum
<1> QED
  BY <1>2, <1>9, <1>15, <1>17 DEF size

LEMMA Published ==
  ASSUME BuildTypes, NEW packet \in Seq(Bytes), Publish(packet)
  PROVE  \E pdu \in Seq(Bytes) :
           /\ out_pdus' = Append(out_pdus, pdu)
           /\ Len(pdu) = Len(packet) * (IF m_dataType = DATA_UNPACKED THEN 8 ELSE 1)
           /\ m_dataType = DATA_UNPACKED => pdu \in Seq(0..1)
           /\ BytesOf(pdu) = packet
<1>1. Len(packet) \in Nat
  BY LenProperties
<1>2. CASE m_dataType = DATA_UNPACKED
  <2> DEFINE pdu == Unpack(packet)
  <2>1. out_pdus' = Append(out_pdus, pdu)
    BY <1>2 DEF Publish
  <2>2. pdu \in Seq(0..1) /\ Len(pdu) = 8 * Len(packet)
    BY UnpackIsSeq
  <2>3. BytesOf(pdu) = packet
    BY <1>2, PackOfUnpack DEF BytesOf
  <2> HIDE DEF pdu
  <2>4. pdu \in Seq(Bytes)
    <3>1. 0..1 \subseteq Bytes
      BY ByteIsNumber
    <3> QED
      BY <2>2, <3>1, SeqMonotonic
  <2>5. Len(pdu) = Len(packet) * 8
    BY <1>1, <2>2
  <2> QED
    BY <1>2, <2>1, <2>2, <2>3, <2>4, <2>5
<1>3. CASE m_dataType # DATA_UNPACKED
  <2>1. out_pdus' = Append(out_pdus, packet) /\ BytesOf(packet) = packet
    BY <1>3 DEF Publish, BytesOf
  <2>2. Len(packet) = Len(packet) * 1
    BY <1>1
  <2> QED
    BY <1>3, <2>1, <2>2
<1> QED
  BY <1>2, <1>3

\* One packet more, and the ones before it are what they were.
LEMMA OneMorePacket ==
  ASSUME BuildTypes, PdusFit, FileInOrder, m_dataType' = m_dataType,
         NEW packet \in Seq(Bytes), Publish(packet), Len(packet) = m_packetLength',
         out_pdus # << >> => m_packetLength' = m_packetLength,
         \A k \in 1..Len(out_pdus) : \A p : IsPacket(k, p) => IsPacket(k, p)',
         NEW next, next = Len(out_pdus) + 1, IsPacket(next, packet)'
  PROVE  /\ out_pdus' \in Seq(Seq(Bytes)) /\ Len(out_pdus') = Len(out_pdus) + 1
         /\ out_pdus' # << >>
         /\ PdusFit' /\ FileInOrder'
<1> DEFINE n == Len(out_pdus)
           width == IF m_dataType = DATA_UNPACKED THEN 8 ELSE 1
<1>1. PICK pdu \in Seq(Bytes) :
        /\ out_pdus' = Append(out_pdus, pdu)
        /\ Len(pdu) = Len(packet) * width
        /\ m_dataType = DATA_UNPACKED => pdu \in Seq(0..1)
        /\ BytesOf(pdu) = packet
  BY Published
<1>2. out_pdus \in Seq(Seq(Bytes)) /\ n \in Nat
  BY LenProperties DEF BuildTypes
<1>3. /\ out_pdus' \in Seq(Seq(Bytes)) /\ Len(out_pdus') = n + 1 /\ out_pdus' # << >>
      /\ \A k \in 1..n : out_pdus'[k] = out_pdus[k]
      /\ out_pdus'[n + 1] = pdu
  BY <1>1, <1>2, AppendProperties
<1>4. PdusFit'
  <2> SUFFICES ASSUME NEW k \in 1..(n + 1)
               PROVE  /\ Len(out_pdus'[k]) = m_packetLength' * width
                      /\ m_dataType = DATA_UNPACKED => out_pdus'[k] \in Seq(0..1)
    BY <1>3 DEF PdusFit
  <2>1. CASE k = n + 1
    BY <1>1, <1>3, <2>1
  <2>2. CASE k \in 1..n
    <3>1. n > 0
      BY <1>2, <2>2
    <3>2. out_pdus # << >>
      BY <3>1
    <3>3. m_packetLength' = m_packetLength /\ out_pdus'[k] = out_pdus[k]
      BY <1>3, <2>2, <3>2
    <3> QED
      BY <2>2, <3>3 DEF PdusFit
  <2> QED
    BY <1>2, <2>1, <2>2
<1>5. FileInOrder'
  <2> SUFFICES ASSUME NEW k \in 1..(n + 1)
               PROVE  IsPacket(k, BytesOf(out_pdus[k]))'
    BY <1>3 DEF FileInOrder
  <2>2. CASE k = n + 1
    <3>1. BytesOf(out_pdus[k])' = packet
      BY <1>1, <1>3, <2>2 DEF BytesOf
    <3>2. IsPacket(k, packet)'
      BY <2>2 DEF IsPacket
    <3> QED
      BY <3>1, <3>2 DEF IsPacket
  <2>3. CASE k \in 1..n
    <3>1. PICK bytes : bytes = BytesOf(out_pdus[k])
      OBVIOUS
    <3>2. IsPacket(k, bytes)
      BY <2>3, <3>1 DEF FileInOrder
    <3>3. IsPacket(k, bytes)'
      BY <2>3, <3>2
    <3>4. BytesOf(out_pdus[k])' = bytes
      BY <1>3, <2>3, <3>1 DEF BytesOf
    <3> QED
      BY <3>3, <3>4 DEF IsPacket
  <2> QED
    BY <1>2, <2>2, <2>3
<1> QED
  BY <1>3, <1>4, <1>5

\* What the read gets is what follows the cursor in the file, as much as there is.
LEMMA ReadFileIs ==
  ASSUME BuildTypes, LengthKept, FileIsWhole, NEW payload, payload = ReadFile
  PROVE  /\ payload \in Seq(Bytes) /\ Len(payload) <= Room
         /\ m_fileIncrement + Len(payload) <= Len(whole)
         /\ payload = SubSeq(whole, m_fileIncrement + 1, m_fileIncrement + Len(payload))
         /\ Len(payload) = Room \/ Len(file) <= m_fileIncrement + Len(payload)
         /\ Len(file) <= m_fileIncrement => Len(payload) = 0
<1> DEFINE inc  == m_fileIncrement
           room == Room
           last == IF inc + room < Len(file) THEN inc + room ELSE Len(file)
<1>1. /\ inc \in Nat /\ room \in Nat /\ Len(file) \in Nat /\ Len(whole) \in Nat
      /\ file \in Seq(Bytes) /\ whole \in Seq(Bytes)
      /\ Len(file) <= Len(whole) /\ inc <= Len(whole)
      /\ \A i \in 1..Len(file) : file[i] = whole[i]
  BY RoomIs, LenProperties DEF BuildTypes, FileIsWhole
<1>2. payload = SubSeq(file, inc + 1, last)
  BY DEF ReadFile
<1> HIDE DEF inc, room
<1>3. /\ last \in Nat /\ last <= Len(file) /\ last <= inc + room
      /\ last = inc + room \/ last = Len(file)
  BY <1>1
<1> HIDE DEF last
<1>4. CASE inc < last
  <2>1. \A i \in (inc + 1)..last : file[i] \in Bytes
    <3> TAKE i \in (inc + 1)..last
    <3>1. i \in 1..Len(file)
      BY <1>1, <1>3
    <3> QED
      BY <1>1, <3>1, ElementOfSeq
  <2>2. inc + 1 \in Int /\ last \in Int /\ inc + 1 <= last /\ last - (inc + 1) + 1 = last - inc
    BY <1>1, <1>3, <1>4
  <2>3. /\ payload \in Seq(Bytes) /\ Len(payload) = last - inc
        /\ \A i \in 1..(last - inc) : payload[i] = file[inc + 1 + i - 1]
    BY <1>2, <2>1, <2>2, SubSeqProperties
  <2>4. inc + Len(payload) = last
    BY <1>1, <1>3, <2>3
  <2>5. \A i \in 1..Len(payload) : payload[i] = whole[inc + 1 + i - 1]
    <3> TAKE i \in 1..Len(payload)
    <3>1. inc + 1 + i - 1 \in 1..Len(file)
      BY <1>1, <1>3, <2>3
    <3> QED
      BY <1>1, <2>3, <3>1
  <2>6. SubSeq(whole, inc + 1, last) = payload
    BY <2>2, <2>3, <2>5, PartIs
  <2>7. /\ Len(payload) <= room /\ last <= Len(whole)
        /\ Len(payload) = room \/ Len(file) <= last
        /\ ~(Len(file) <= inc)
    BY <1>1, <1>3, <1>4, <2>3
  <2> QED
    BY <2>3, <2>4, <2>6, <2>7 DEF inc, room
<1>5. CASE ~(inc < last)
  <2>1. inc + 1 \in Int /\ last \in Int /\ last < inc + 1 /\ inc < inc + 1
    BY <1>1, <1>3, <1>5
  <2>2. payload = << >>
    BY <1>2, <2>1, SubSeqEmpty
  <2>3. payload \in Seq(Bytes) /\ Len(payload) = 0
    BY <2>2
  <2>4. SubSeq(whole, inc + 1, inc) = payload
    <3>1. inc + 1 \in Int /\ inc \in Int /\ inc < inc + 1
      BY <1>1
    <3> QED
      BY <2>2, <3>1, SubSeqEmpty
  <2>5. inc + Len(payload) = inc
    BY <1>1, <2>3
  <2>6. Len(payload) = room \/ Len(file) <= inc
    BY <1>1, <1>3, <1>5, <2>3
  <2>7. Len(payload) <= room
    BY <1>1, <2>3
  <2> QED
    BY <1>1, <2>3, <2>4, <2>5, <2>6, <2>7 DEF inc, room
<1> QED
  BY <1>4, <1>5

\* The parts of the file that full packets have do not change any more.
LEMMA PartStays ==
  ASSUME BuildTypes, LengthKept, FileIsWhole, m_fileIncrement' \in Nat,
         Room' = Room, NEW k \in Nat \ {0},
         Len(whole) <= Len(whole'), \A i \in 1..Len(whole) : whole'[i] = whole[i],
         m_fileIncrement <= m_fileIncrement',
         k * Room <= m_fileIncrement \/ m_fileIncrement' = m_fileIncrement
  PROVE  Part(k)' = Part(k)
<1> DEFINE room  == Room
           first == (k - 1) * room + 1
           last  == IF k * room < m_fileIncrement THEN k * room ELSE m_fileIncrement
<1>1. /\ room \in Nat /\ m_fileIncrement \in Nat /\ m_fileIncrement' \in Nat
      /\ Len(whole) \in Nat /\ m_fileIncrement <= Len(whole) /\ whole \in Seq(Bytes)
  BY RoomIs, LenProperties DEF BuildTypes, FileIsWhole
<1>2. Part(k) = SubSeq(whole, first, last)
  BY DEF Part
<1>3. Part(k)' = SubSeq(whole', first, last)
  <2> HIDE DEF room
  <2>1. Room' = room
    BY DEF room
  <2>2. (IF k * Room < m_fileIncrement THEN k * Room ELSE m_fileIncrement)' = last
    <3>1. k * room \in Int
      BY <1>1
    <3>2. k * room <= m_fileIncrement \/ m_fileIncrement' = m_fileIncrement
      BY DEF room
    <3> QED
      BY <1>1, <2>1, <3>1, <3>2
  <2> HIDE DEF last
  <2> QED
    BY <2>1, <2>2 DEF Part
<1>4. first \in Int /\ last \in Int /\ first >= 1 /\ last <= Len(whole)
  <2> HIDE DEF room
  <2>1. k * room \in Nat /\ (k - 1) * room \in Nat
    BY <1>1
  <2> QED
    BY <1>1, <2>1
<1> HIDE DEF first, last
<1>5. \A i \in first..last : whole[i] \in Bytes /\ whole'[i] = whole[i]
  <2> TAKE i \in first..last
  <2>1. i \in 1..Len(whole)
    BY <1>1, <1>4
  <2> QED
    BY <1>1, <2>1, ElementOfSeq
<1>6. /\ SubSeq(whole, first, last) \in Seq(Bytes)
      /\ Len(SubSeq(whole, first, last)) = IF first <= last THEN last - first + 1 ELSE 0
      /\ \A i \in 1..(last - first + 1) : SubSeq(whole, first, last)[i] = whole[first + i - 1]
  BY <1>4, <1>5, SubSeqProperties
<1>7. CASE first <= last
  <2>1. \A i \in 1..Len(SubSeq(whole, first, last)) :
          SubSeq(whole, first, last)[i] = whole'[first + i - 1]
    <3> TAKE i \in 1..Len(SubSeq(whole, first, last))
    <3>1. i \in 1..(last - first + 1) /\ first + i - 1 \in first..last
      BY <1>4, <1>6, <1>7
    <3> QED
      BY <1>5, <1>6, <3>1
  <2> DEFINE part == SubSeq(whole, first, last)
  <2>2. part \in Seq(Bytes) /\ Len(part) = last - first + 1
    BY <1>6, <1>7
  <2>3. \A i \in 1..Len(part) : part[i] = whole'[first + i - 1]
    BY <2>1
  <2> HIDE DEF part
  <2>4. SubSeq(whole', first, last) = part
    BY <1>4, <2>2, <2>3, PartIs
  <2> QED
    BY <1>2, <1>3, <2>4 DEF part
<1>8. CASE ~(first <= last)
  <2>1. last < first
    BY <1>4, <1>8
  <2>2. SubSeq(whole, first, last) = << >> /\ SubSeq(whole', first, last) = << >>
    BY <1>4, <2>1, SubSeqEmpty
  <2> QED
    BY <1>2, <1>3, <2>2
<1> QED
  BY <1>7, <1>8

LEMMA RoomStays ==
  ASSUME UNCHANGED << m_appendHeader, m_packetLength, m_dataFrom >>
  PROVE  Room' = Room /\ HasHeader' = HasHeader
BY DEF Room, payload_length, offset, HasHeader

\* A packet of a file is still the same part of it.
LEMMA FilePacketStays ==
  ASSUME UNCHANGED << m_appendHeader, m_packetLength, m_dataFrom >>,
         m_dataFrom = DATA_FROM_FILE, NEW k, NEW packet, Part(k)' = Part(k),
         IsPacket(k, packet)
  PROVE  IsPacket(k, packet)'
<1>1. Room' = Room /\ HasHeader' = HasHeader
  BY RoomStays
<1>2. m_dataFrom' = DATA_FROM_FILE /\ DATA_FROM_FILE # DATA_CMD_LINE
  BY DEF DATA_FROM_FILE, DATA_CMD_LINE
<1> QED
  BY <1>1, <1>2 DEF IsPacket, Carries

\* A packet of another source has nothing to do with the file.
LEMMA OtherPacketStays ==
  ASSUME UNCHANGED << m_appendHeader, m_dataFrom, packet_bytes >>,
         m_packetLength' = m_packetLength \/ m_dataFrom = DATA_CMD_LINE,
         m_dataFrom # DATA_FROM_FILE, NEW k, NEW packet, IsPacket(k, packet)
  PROVE  IsPacket(k, packet)'
<1>1. CASE m_dataFrom = DATA_CMD_LINE
  BY <1>1 DEF IsPacket, HasHeader
<1>2. CASE m_packetLength' = m_packetLength
  <2>1. Room' = Room /\ HasHeader' = HasHeader
    BY <1>2, RoomStays
  <2> QED
    BY <2>1 DEF IsPacket, Carries
<1> QED
  BY <1>1, <1>2

\* What a trigger leaves alone, whatever it does.
Frame ==
  /\ UNCHANGED << m_appendHeader, m_dataType, m_dataFrom, packet_bytes, m_fileSize >>
  /\ UNCHANGED << file, whole >>
  /\ triggers' = triggers + 1

LEMMA HandlerFrame ==
  ASSUME packet_handler
  PROVE  Frame /\ (fromRandom \/ fromFile \/ transferReady \/ fromCmdLine)
BY DEF packet_handler, Frame, buildConfig

LEMMA RandomPacket ==
  ASSUME Crc32IsFourBytes, BInv, Frame, fromRandom
  PROVE  BInv'
<1> USE DEF BInv
<1>1. PICK payload \in [1..Room -> RandomBytes] : Publish(data_packet(payload))
  BY DEF fromRandom
<1>2. /\ m_dataFrom = DATA_FROM_RANDOM_GENERATOR
      /\ m_packetLength' = m_packetLength /\ m_fileIncrement' = m_fileIncrement
      /\ stat_pdus' = stat_pdus
  BY DEF fromRandom
<1>3. Room \in Nat
  BY RoomIs
<1>4. payload \in Seq(Bytes) /\ Len(payload) = Room
  <2>1. \A i \in 1..Room : payload[i] \in RandomBytes
    OBVIOUS
  <2>2. RandomBytes \subseteq Bytes
    BY BuildPacketAssumption DEF Bytes
  <2>3. payload \in [1..Room -> Bytes]
    BY <2>1, <2>2
  <2> QED
    BY <1>3, <2>3, FunctionIsSeq
<1>0. PICK packet : packet = data_packet(payload)
  OBVIOUS
<1>5. /\ packet \in Seq(Bytes) /\ Len(packet) = m_packetLength
      /\ HasHeader => SubSeq(packet, 9, 8 + Room) = payload /\ Carries(packet, payload)
  <2>1. Len(payload) <= Room
    BY <1>3, <1>4
  <2>2. CASE HasHeader
    <3>1. /\ packet \in Seq(Bytes) /\ Len(packet) = m_packetLength
          /\ SubSeq(packet, 9, 8 + Len(payload)) = payload
          /\ Carries(packet, payload)
      BY <1>0, <1>4, <2>1, <2>2, HeaderedPacket
    <3> QED
      BY <1>4, <3>1
  <2>3. CASE ~HasHeader
    BY <1>0, <1>4, <2>1, <2>3, PlainPacket
  <2> QED
    BY <2>2, <2>3
<1>6. Publish(packet)
  BY <1>0, <1>1
<1>7. DATA_FROM_RANDOM_GENERATOR # DATA_FROM_FILE /\ DATA_FROM_RANDOM_GENERATOR # DATA_CMD_LINE
  BY DEF DATA_FROM_RANDOM_GENERATOR, DATA_FROM_FILE, DATA_CMD_LINE
<1>8. UNCHANGED << m_appendHeader, m_packetLength, m_dataFrom >>
  BY <1>2 DEF Frame
<1>9. \A k : IsPacket(k, packet)
  BY <1>2, <1>5, <1>7 DEF IsPacket
<1>10. \A k, p : IsPacket(k, p) => IsPacket(k, p)'
  <2>1. UNCHANGED << m_appendHeader, m_dataFrom, packet_bytes >> /\ m_dataFrom # DATA_FROM_FILE
    BY <1>2, <1>7 DEF Frame
  <2> QED
    BY <1>2, <2>1, OtherPacketStays
<1>11. /\ out_pdus' \in Seq(Seq(Bytes)) /\ Len(out_pdus') = Len(out_pdus) + 1
       /\ PdusFit' /\ FileInOrder'
  <2>1. PICK n : n = Len(out_pdus) + 1
    OBVIOUS
  <2>2. IsPacket(n, packet)'
    BY <1>9, <1>10, <2>1
  <2>3. m_dataType' = m_dataType /\ m_packetLength' = m_packetLength
    BY <1>2 DEF Frame
  <2> QED
    BY <1>5, <1>6, <1>10, <2>1, <2>2, <2>3, OneMorePacket
<1>12. BuildTypes'
  BY <1>2, <1>11 DEF BuildTypes, Frame
<1>13. LengthKept'
  <2>1. HasHeader' = HasHeader
    BY <1>8, RoomStays
  <2> QED
    BY <1>2, <1>7, <2>1 DEF LengthKept, Frame
<1>14. PerTrigger'
  <2>1. Len(out_pdus) \in Nat /\ Len(stat_pdus) \in Nat /\ triggers \in Nat
    BY LenProperties DEF BuildTypes
  <2> QED
    BY <1>2, <1>11, <2>1 DEF PerTrigger, Frame
<1>15. FileIsWhole' /\ CursorBehind'
  BY <1>2, <1>7 DEF FileIsWhole, CursorBehind, Frame
<1> QED
  BY <1>11, <1>12, <1>13, <1>14, <1>15

LEMMA CmdLinePacket ==
  ASSUME BInv, Frame, fromCmdLine
  PROVE  BInv'
<1> USE DEF BInv
<1>1. /\ m_dataFrom = DATA_CMD_LINE /\ m_packetLength' = Len(packet_bytes)
      /\ Publish(packet_bytes)
      /\ m_fileIncrement' = m_fileIncrement /\ stat_pdus' = stat_pdus
  BY DEF fromCmdLine
<1>2. packet_bytes \in Seq(Bytes) /\ Len(packet_bytes) \in Nat
  BY LenProperties DEF BuildTypes
<1>3. DATA_CMD_LINE # DATA_FROM_FILE
  BY DEF DATA_FROM_FILE, DATA_CMD_LINE
<1>4. ~HasHeader /\ ~HasHeader'
  BY <1>1 DEF HasHeader, Frame
<1>6. \A k, p : IsPacket(k, p) => IsPacket(k, p)'
  <2>1. UNCHANGED << m_appendHeader, m_dataFrom, packet_bytes >> /\ m_dataFrom # DATA_FROM_FILE
    BY <1>1, <1>3 DEF Frame
  <2> QED
    BY <1>1, <2>1, OtherPacketStays
<1>7. /\ out_pdus' \in Seq(Seq(Bytes)) /\ Len(out_pdus') = Len(out_pdus) + 1
      /\ PdusFit' /\ FileInOrder'
  <2>1. PICK n : n = Len(out_pdus) + 1
    OBVIOUS
  <2>2. PICK packet : packet = packet_bytes
    OBVIOUS
  <2>3. IsPacket(n, packet)'
    <3>1. packet_bytes' = packet /\ m_dataFrom' # DATA_FROM_FILE
      BY <1>1, <1>3, <2>2 DEF Frame
    <3> QED
      BY <1>4, <3>1 DEF IsPacket, Carries
  <2>4. m_dataType' = m_dataType /\ (out_pdus # << >> => m_packetLength' = m_packetLength)
    BY <1>1 DEF Frame, LengthKept
  <2>5. packet \in Seq(Bytes) /\ Publish(packet) /\ Len(packet) = m_packetLength'
    BY <1>1, <1>2, <2>2
  <2> QED
    BY <1>6, <2>1, <2>3, <2>4, <2>5, OneMorePacket
<1>8. BuildTypes'
  BY <1>1, <1>2, <1>7 DEF BuildTypes, Frame
<1>9. LengthKept'
  BY <1>1, <1>4 DEF LengthKept, Frame
<1>10. PerTrigger'
  <2>1. Len(out_pdus) \in Nat /\ Len(stat_pdus) \in Nat /\ triggers \in Nat
    BY LenProperties DEF BuildTypes
  <2> QED
    BY <1>1, <1>7, <2>1 DEF PerTrigger, Frame
<1>11. FileIsWhole' /\ CursorBehind'
  BY <1>1, <1>3 DEF FileIsWhole, CursorBehind, Frame
<1> QED
  BY <1>7, <1>8, <1>9, <1>10, <1>11

\* No packet: everything about them stays.
LEMMA PacketsStay ==
  ASSUME BInv, UNCHANGED << m_appendHeader, m_packetLength, m_dataType, m_dataFrom >>,
         UNCHANGED << packet_bytes, m_fileIncrement, out_pdus >>,
         \A k \in 1..Len(out_pdus) : m_dataFrom = DATA_FROM_FILE => Part(k)' = Part(k)
  PROVE  LengthKept' /\ PdusFit' /\ FileInOrder'
<1>1. HasHeader' = HasHeader
  BY RoomStays
<1>2. LengthKept' /\ PdusFit'
  BY <1>1 DEF BInv, LengthKept, PdusFit
<1>3. FileInOrder'
  <2> SUFFICES ASSUME NEW k \in 1..Len(out_pdus)
               PROVE  IsPacket(k, BytesOf(out_pdus[k]))'
    BY DEF FileInOrder
  <2>1. PICK packet : packet = BytesOf(out_pdus[k])
    OBVIOUS
  <2>2. BytesOf(out_pdus[k])' = packet
    BY <2>1 DEF BytesOf
  <2>3. IsPacket(k, packet)
    BY <2>1 DEF BInv, FileInOrder
  <2>4. IsPacket(k, packet)'
    BY <2>3, FilePacketStays, OtherPacketStays
  <2> QED
    BY <2>2, <2>4 DEF IsPacket
<1> QED
  BY <1>2, <1>3

LEMMA StatusOnly ==
  ASSUME BInv, Frame, transferReady
  PROVE  BInv'
<1> USE DEF BInv
<1>1. /\ m_packetLength' = m_packetLength /\ m_fileIncrement' = m_fileIncrement
      /\ out_pdus' = out_pdus
      /\ stat_pdus' = Append(stat_pdus, TRANSFER_READY)
  BY DEF transferReady
<1>2. /\ stat_pdus' \in Seq(Int) /\ Len(stat_pdus') = Len(stat_pdus) + 1
      /\ Len(stat_pdus) \in Nat /\ Len(out_pdus) \in Nat /\ triggers \in Nat
  BY <1>1, LenProperties, AppendProperties DEF BuildTypes, TRANSFER_READY
<1>3. UNCHANGED << m_appendHeader, m_packetLength, m_dataFrom >>
  BY <1>1 DEF Frame
<1>4. Room' = Room
  BY <1>3, RoomStays
<1>5. \A k : Part(k)' = Part(k)
  BY <1>1, <1>4 DEF Part, Frame
<1>6. LengthKept' /\ PdusFit' /\ FileInOrder'
  BY <1>1, <1>5, PacketsStay DEF Frame
<1>7. BuildTypes'
  BY <1>1, <1>2 DEF BuildTypes, Frame
<1>8. PerTrigger'
  BY <1>1, <1>2 DEF PerTrigger, Frame
<1>9. FileIsWhole' /\ CursorBehind'
  BY <1>1, <1>4 DEF FileIsWhole, CursorBehind, Frame
<1> QED
  BY <1>6, <1>7, <1>8, <1>9

\* The packet after n of them has the next part of the file, or the file is at an
\* end and the packet is empty.
LEMMA NextPart ==
  ASSUME BInv, m_dataFrom = DATA_FROM_FILE, m_fileIncrement < m_fileSize,
         NEW payload, payload = ReadFile, m_fileIncrement' = m_fileIncrement + Len(payload),
         UNCHANGED << file, whole, m_fileSize >>, Room' = Room,
         NEW next, next = Len(out_pdus) + 1
  PROVE  /\ Part(next)' = payload
         /\ \A k \in 1..Len(out_pdus) : Part(k)' = Part(k)
         /\ \/ m_fileIncrement' = next * Room
            \/ m_fileIncrement' <= next * Room /\ m_fileIncrement' >= Len(file)
<1> USE DEF BInv
<1> DEFINE n    == Len(out_pdus)
           room == Room
           inc  == m_fileIncrement
           size == Len(payload)
<1>1. /\ room \in Nat /\ n \in Nat /\ next = n + 1
      /\ inc \in Nat /\ m_fileSize \in Nat /\ Len(file) \in Nat /\ Len(whole) \in Nat
      /\ inc < m_fileSize
  BY RoomIs, LenProperties DEF BuildTypes
<1>2. /\ payload \in Seq(Bytes) /\ size \in Nat /\ size <= room
      /\ inc + size <= Len(whole)
      /\ payload = SubSeq(whole, inc + 1, inc + size)
      /\ size = room \/ Len(file) <= inc + size
      /\ Len(file) <= inc => size = 0
  BY ReadFileIs, LenProperties
<1>3. \/ inc = n * room
      \/ inc <= n * room /\ Len(file) <= inc
  <2>1. \/ inc = n * room
        \/ inc <= n * room /\ (inc >= m_fileSize \/ inc >= Len(file))
    BY DEF CursorBehind
  <2> HIDE DEF inc, room, n
  <2> QED
    BY <1>1, <2>1
<1>4. m_fileIncrement' = inc + size
  OBVIOUS
<1> HIDE DEF n, room, inc, size
<1>5. n * room \in Nat /\ next * room = n * room + room
  BY <1>1
<1>6. \/ inc + size = next * room
      \/ inc + size <= next * room /\ inc + size >= Len(file)
  BY <1>1, <1>2, <1>3, <1>5
<1>7. Part(next)' = payload
  <2> DEFINE first == (next - 1) * room + 1
             last  == IF next * room < inc + size THEN next * room ELSE inc + size
  <2>1. Part(next)' = SubSeq(whole, first, last)
    <3>1. Room' = room
      BY DEF room
    <3> QED
      BY <1>4, <3>1 DEF Part
  <2>2. next - 1 = n
    BY <1>1
  <2>3. first = n * room + 1 /\ last = inc + size
    BY <1>1, <1>2, <1>5, <1>6, <2>2
  <2> HIDE DEF first, last
  <2>4. CASE inc = n * room
    <3>1. first = inc + 1
      BY <2>3, <2>4
    <3> QED
      BY <1>2, <2>1, <2>3, <3>1
  <2>5. CASE inc <= n * room /\ Len(file) <= inc
    <3>1. size = 0 /\ first \in Int /\ last \in Int /\ last < first
      BY <1>1, <1>2, <1>5, <2>3, <2>5
    <3>2. SubSeq(whole, first, last) = << >>
      BY <3>1, SubSeqEmpty
    <3>3. payload = << >>
      BY <1>2, <3>1, EmptySeq DEF size
    <3> QED
      BY <2>1, <3>2, <3>3
  <2> QED
    BY <1>3, <2>4, <2>5
<1>8. \A k \in 1..Len(out_pdus) : Part(k)' = Part(k)
  <2> TAKE k \in 1..Len(out_pdus)
  <2>1. k \in Nat \ {0} /\ k <= n
    BY <1>1 DEF n
  <2>2. k * room <= n * room
    BY <1>1, <2>1
  <2>3. k * room <= inc \/ inc + size = inc
    <3>1. CASE inc = n * room
      BY <2>2, <3>1
    <3>2. CASE Len(file) <= inc
      BY <1>1, <1>2, <3>2
    <3> QED
      BY <1>3, <3>1, <3>2
  <2>4. k * Room <= m_fileIncrement \/ m_fileIncrement' = m_fileIncrement
    BY <1>4, <2>3 DEF room, inc
  <2>5. m_fileIncrement' \in Nat /\ m_fileIncrement <= m_fileIncrement'
    BY <1>1, <1>2, <1>4 DEF inc
  <2>6. Len(whole) <= Len(whole') /\ \A i \in 1..Len(whole) : whole'[i] = whole[i]
    BY <1>1
  <2> QED
    BY <2>1, <2>4, <2>5, <2>6, PartStays
<1> QED
  BY <1>4, <1>6, <1>7, <1>8 DEF room

LEMMA FilePacket ==
  ASSUME Crc32IsFourBytes, BInv, Frame, fromFile
  PROVE  BInv'
<1> USE DEF BInv
<1>1. PICK payload : payload = ReadFile
  OBVIOUS
<1>2. /\ m_dataFrom = DATA_FROM_FILE /\ m_fileIncrement < m_fileSize
      /\ Publish(data_packet(payload))
      /\ m_fileIncrement' = m_fileIncrement + Len(payload)
      /\ stat_pdus' = Append(stat_pdus, TRANSFER_IN_PROGRESS)
      /\ m_packetLength' = m_packetLength
  BY <1>1 DEF fromFile, MoreToRead
<1>3. PICK packet : packet = data_packet(payload)
  OBVIOUS
<1>4. PICK next : next = Len(out_pdus) + 1
  OBVIOUS
<1>5. UNCHANGED << m_appendHeader, m_packetLength, m_dataFrom >>
  BY <1>2 DEF Frame
<1>6. Room' = Room /\ HasHeader' = HasHeader
  BY <1>5, RoomStays
<1>7. /\ payload \in Seq(Bytes) /\ Len(payload) <= Room /\ Len(payload) \in Nat
      /\ m_fileIncrement + Len(payload) <= Len(whole)
  BY <1>1, ReadFileIs, LenProperties
<1>8. /\ packet \in Seq(Bytes) /\ Len(packet) = m_packetLength
      /\ HasHeader => Carries(packet, payload)
      /\ ~HasHeader => packet = payload \o Zeros(m_packetLength - Len(payload))
  BY <1>3, <1>7, HeaderedPacket, PlainPacket
<1>9. /\ Part(next)' = payload
      /\ \A k \in 1..Len(out_pdus) : Part(k)' = Part(k)
      /\ \/ m_fileIncrement' = next * Room
         \/ m_fileIncrement' <= next * Room /\ m_fileIncrement' >= Len(file)
  BY <1>1, <1>2, <1>4, <1>6, NextPart DEF Frame
<1>10. \A k \in 1..Len(out_pdus) : \A p : IsPacket(k, p) => IsPacket(k, p)'
  BY <1>2, <1>5, <1>9, FilePacketStays
<1>11. IsPacket(next, packet)'
  <2>1. m_dataFrom' = DATA_FROM_FILE /\ DATA_FROM_FILE # DATA_CMD_LINE
    BY <1>2, <1>5 DEF DATA_FROM_FILE, DATA_CMD_LINE
  <2> QED
    BY <1>5, <1>6, <1>8, <1>9, <2>1 DEF IsPacket, Carries
<1>12. /\ out_pdus' \in Seq(Seq(Bytes)) /\ Len(out_pdus') = Len(out_pdus) + 1
       /\ PdusFit' /\ FileInOrder'
  <2>1. m_dataType' = m_dataType /\ m_packetLength' = m_packetLength /\ Publish(packet)
    BY <1>2, <1>3 DEF Frame
  <2> QED
    BY <1>4, <1>8, <1>10, <1>11, <2>1, OneMorePacket
<1>13. /\ stat_pdus' \in Seq(Int) /\ Len(stat_pdus') = Len(stat_pdus) + 1
       /\ Len(stat_pdus) \in Nat /\ Len(out_pdus) \in Nat /\ triggers \in Nat
  BY <1>2, LenProperties, AppendProperties DEF BuildTypes, TRANSFER_IN_PROGRESS
<1>14. BuildTypes'
  <2>1. m_fileIncrement' \in Nat
    BY <1>2, <1>7 DEF BuildTypes
  <2> QED
    BY <1>2, <1>12, <1>13, <2>1 DEF BuildTypes, Frame
<1>15. LengthKept'
  <2>1. DATA_FROM_FILE # DATA_CMD_LINE
    BY DEF DATA_FROM_FILE, DATA_CMD_LINE
  <2> QED
    BY <1>2, <1>6, <2>1 DEF LengthKept, Frame
<1>16. PerTrigger'
  BY <1>12, <1>13 DEF PerTrigger, Frame
<1>17. FileIsWhole'
  BY <1>2, <1>7 DEF FileIsWhole, Frame
<1>18. CursorBehind'
  <2>1. Len(out_pdus') = next /\ file' = file
    BY <1>4, <1>12 DEF Frame
  <2> QED
    BY <1>6, <1>9, <2>1 DEF CursorBehind
<1> QED
  BY <1>12, <1>14, <1>15, <1>16, <1>17, <1>18

LEMMA FileGrows ==
  ASSUME BInv, m_dataFrom = DATA_FROM_FILE, NEW more \in Growth, Grow(more)
  PROVE  BInv'
<1> USE DEF BInv
<1>1. /\ Len(file) = m_fileSize /\ file = whole
      /\ file' = file \o more /\ whole' = file'
      /\ UNCHANGED << m_appendHeader, m_packetLength, m_dataType, m_dataFrom >>
      /\ UNCHANGED << packet_bytes, m_fileIncrement, out_pdus >>
      /\ UNCHANGED << m_fileSize, stat_pdus, triggers >>
  BY DEF Grow, buildConfig
<1>2. more \in Seq(Bytes)
  BY BuildPacketAssumption DEF Bytes
<1>3. file \in Seq(Bytes) /\ Len(file) \in Nat /\ Len(more) \in Nat /\ m_fileIncrement \in Nat
  BY <1>2, LenProperties DEF BuildTypes
<1>4. /\ file \o more \in Seq(Bytes) /\ Len(file \o more) = Len(file) + Len(more)
      /\ \A i \in 1..Len(file) : (file \o more)[i] = file[i]
  BY <1>2, <1>3, Joined
<1>5. /\ file' \in Seq(Bytes) /\ Len(file') = Len(file) + Len(more)
      /\ \A i \in 1..Len(file) : file'[i] = file[i]
  BY <1>1, <1>4
<1>6. Room' = Room /\ Len(whole) <= Len(whole') /\ \A i \in 1..Len(whole) : whole'[i] = whole[i]
  BY <1>1, <1>3, <1>5, RoomStays
<1>7. \A k \in 1..Len(out_pdus) : Part(k)' = Part(k)
  <2> TAKE k \in 1..Len(out_pdus)
  <2>1. k \in Nat \ {0}
    OBVIOUS
  <2>2. m_fileIncrement' \in Nat /\ m_fileIncrement' = m_fileIncrement
    BY <1>1, <1>3
  <2>3. m_fileIncrement <= m_fileIncrement'
    BY <2>2
  <2> QED
    BY <1>6, <2>1, <2>2, <2>3, PartStays
<1>8. LengthKept' /\ PdusFit' /\ FileInOrder'
  BY <1>1, <1>7, PacketsStay
<1>9. BuildTypes'
  BY <1>1, <1>5 DEF BuildTypes
<1>10. PerTrigger'
  BY <1>1 DEF PerTrigger
<1>11. FileIsWhole'
  <2>1. Len(file') <= Len(whole') /\ \A i \in 1..Len(file') : file'[i] = whole'[i]
    BY <1>1, <1>3, <1>5
  <2>2. m_fileIncrement' <= Len(whole')
    BY <1>1, <1>3, <1>5 DEF FileIsWhole
  <2> QED
    BY <2>1, <2>2 DEF FileIsWhole
<1>12. CursorBehind'
  BY <1>1, <1>6 DEF CursorBehind
<1> QED
  BY <1>8, <1>9, <1>10, <1>11, <1>12

LEMMA FileIsCut ==
  ASSUME BInv, m_dataFrom = DATA_FROM_FILE, NEW n \in 0..Len(file), Cut(n)
  PROVE  BInv'
<1> USE DEF BInv
<1>1. /\ file = whole /\ file' = SubSeq(file, 1, n) /\ whole' = whole
      /\ UNCHANGED << m_appendHeader, m_packetLength, m_dataType, m_dataFrom >>
      /\ UNCHANGED << packet_bytes, m_fileIncrement, out_pdus >>
      /\ UNCHANGED << m_fileSize, stat_pdus, triggers >>
  BY DEF Cut, buildConfig
<1>2. file \in Seq(Bytes) /\ Len(file) \in Nat /\ n \in Nat /\ n <= Len(file) /\ m_fileIncrement \in Nat
  BY LenProperties DEF BuildTypes
<1>3. /\ file' \in Seq(Bytes) /\ Len(file') = n
      /\ \A i \in 1..n : file'[i] = file[i]
  <2>1. \A i \in 1..n : file[i] \in Bytes
    BY <1>2, ElementOfSeq
  <2>2. /\ SubSeq(file, 1, n) \in Seq(Bytes)
        /\ Len(SubSeq(file, 1, n)) = IF 1 <= n THEN n - 1 + 1 ELSE 0
        /\ \A i \in 1..(n - 1 + 1) : SubSeq(file, 1, n)[i] = file[1 + i - 1]
    BY <1>2, <2>1, SubSeqProperties
  <2>3. (IF 1 <= n THEN n - 1 + 1 ELSE 0) = n /\ n - 1 + 1 = n /\ \A i \in 1..n : 1 + i - 1 = i
    BY <1>2
  <2> QED
    BY <1>1, <2>2, <2>3
<1>4. Room' = Room
  BY <1>1, RoomStays
<1>5. \A k : Part(k)' = Part(k)
  BY <1>1, <1>4 DEF Part
<1>6. LengthKept' /\ PdusFit' /\ FileInOrder'
  BY <1>1, <1>5, PacketsStay
<1>7. BuildTypes'
  BY <1>1, <1>3 DEF BuildTypes
<1>8. PerTrigger'
  BY <1>1 DEF PerTrigger
<1>9. FileIsWhole'
  BY <1>1, <1>2, <1>3 DEF FileIsWhole
<1>10. CursorBehind'
  <2> DEFINE handed == Len(out_pdus) * Room
  <2>1. \/ m_fileIncrement = handed
        \/ m_fileIncrement <= handed /\ (m_fileIncrement >= m_fileSize \/ m_fileIncrement >= Len(file))
    BY DEF CursorBehind
  <2>2. m_fileIncrement >= Len(file) => m_fileIncrement >= Len(file')
    BY <1>2, <1>3
  <2>3. handed' = handed
    BY <1>1, <1>4
  <2> HIDE DEF handed
  <2>4. \/ m_fileIncrement' = handed'
        \/ /\ m_fileIncrement' <= handed'
           /\ m_fileIncrement' >= m_fileSize' \/ m_fileIncrement' >= Len(file')
    BY <1>1, <2>1, <2>2, <2>3
  <2> QED
    BY <2>4 DEF CursorBehind, handed
<1> QED
  BY <1>6, <1>7, <1>8, <1>9, <1>10

LEMMA BuildInitInv == BuildInit => BInv
<1> SUFFICES ASSUME BuildInit PROVE BInv
  OBVIOUS
<1>1. /\ m_appendHeader \in BOOLEAN /\ m_packetLength \in PacketLengths
      /\ m_dataType \in { DATA_PACKED, DATA_UNPACKED }
      /\ m_dataFrom \in { DATA_FROM_RANDOM_GENERATOR, DATA_FROM_FILE, DATA_CMD_LINE }
      /\ packet_bytes \in CmdLines /\ (HasHeader => m_packetLength >= 12)
      /\ file \in Files /\ whole = file
      /\ m_fileSize = IF m_dataFrom = DATA_FROM_FILE THEN Len(file) ELSE 0
      /\ m_fileIncrement = 0 /\ triggers = 0
  BY DEF BuildInit
<1>2. stat_pdus = << >> /\ out_pdus = << >>
  BY DEF BuildInit
<1>3. file \in Seq(Bytes) /\ packet_bytes \in Seq(Bytes) /\ m_packetLength \in Nat
  BY <1>1, BuildPacketAssumption DEF Bytes
<1>4. Len(file) \in Nat /\ m_fileSize \in Nat
  BY <1>1, <1>3, LenProperties
<1>5. stat_pdus \in Seq(Int) /\ out_pdus \in Seq(Seq(Bytes)) /\ Len(out_pdus) = 0 /\ Len(stat_pdus) = 0
  BY <1>2
<1>6. BuildTypes
  BY <1>1, <1>3, <1>4, <1>5 DEF BuildTypes
<1>7. LengthKept
  BY <1>1, <1>2 DEF LengthKept
<1>8. PerTrigger /\ PdusFit /\ FileInOrder
  BY <1>1, <1>5 DEF PerTrigger, PdusFit, FileInOrder
<1>9. FileIsWhole
  BY <1>1, <1>4 DEF FileIsWhole
<1>10. CursorBehind
  <2>1. Room \in Nat
    BY <1>6, <1>7, RoomIs
  <2>2. 0 * Room = 0
    BY <2>1
  <2> QED
    BY <1>1, <1>5, <2>2 DEF CursorBehind
<1> QED
  BY <1>6, <1>7, <1>8, <1>9, <1>10 DEF BInv

LEMMA BuildInductive ==
  ASSUME Crc32IsFourBytes
  PROVE  BInv /\ [BuildNext]_buildVars => BInv'
<1> SUFFICES ASSUME BInv, [BuildNext]_buildVars PROVE BInv'
  OBVIOUS
<1>1. CASE packet_handler
  <2>1. Frame /\ (fromRandom \/ fromFile \/ transferReady \/ fromCmdLine)
    BY <1>1, HandlerFrame
  <2> QED
    BY <2>1, RandomPacket, FilePacket, StatusOnly, CmdLinePacket
<1>2. CASE FileChanges
  BY <1>2, FileGrows, FileIsCut DEF FileChanges
<1>3. CASE UNCHANGED buildVars
  <2>1. /\ UNCHANGED << m_appendHeader, m_packetLength, m_dataType, m_dataFrom >>
        /\ UNCHANGED << packet_bytes, m_fileIncrement, out_pdus >>
        /\ UNCHANGED << m_fileSize, file, whole, stat_pdus, triggers >>
    BY <1>3 DEF buildVars, buildConfig
  <2>2. Room' = Room
    BY <2>1, RoomStays
  <2>3. \A k : Part(k)' = Part(k)
    BY <2>1, <2>2 DEF Part
  <2>4. LengthKept' /\ PdusFit' /\ FileInOrder'
    BY <2>1, <2>3, PacketsStay
  <2> QED
    BY <2>1, <2>2, <2>4
       DEF BInv, BuildTypes, PerTrigger, FileIsWhole, CursorBehind
<1> QED
  BY <1>1, <1>2, <1>3 DEF BuildNext

LEMMA BuildTypeFollows == BInv => BuildTypeOK
<1> SUFFICES ASSUME BInv PROVE BuildTypeOK
  OBVIOUS
<1> USE DEF BInv
<1>1. m_packetLength \in PacketLengths \cup { Len(packet_bytes) }
  BY DEF LengthKept
<1>2. (HasHeader => m_packetLength >= 12) /\ Len(stat_pdus) <= triggers /\ Len(out_pdus) <= triggers
  BY DEF LengthKept, PerTrigger
<1>3. m_fileIncrement \in 0..Len(whole)
  BY LenProperties DEF BuildTypes, FileIsWhole
<1>4. IsPrefix(file, whole)
  <2>1. file \in Seq(Bytes) /\ Len(file) \in Nat
    BY LenProperties DEF BuildTypes
  <2>2. \A i \in 1..Len(file) : file[i] \in Bytes /\ whole[i] = file[i]
    BY <2>1, ElementOfSeq DEF FileIsWhole
  <2>3. SubSeq(whole, 1, Len(file)) = SubSeq(file, 1, Len(file))
    BY <2>1, <2>2, SamePrefix
  <2> QED
    BY <2>3 DEF IsPrefix, FileIsWhole
<1>5. ASSUME NEW k \in 1..Len(out_pdus)
      PROVE  /\ Len(out_pdus[k]) = m_packetLength * (IF m_dataType = DATA_UNPACKED THEN 8 ELSE 1)
             /\ out_pdus[k] \in Seq(0..255)
  <2>1. out_pdus[k] \in Seq(Bytes)
    BY ElementOfSeq DEF BuildTypes
  <2> QED
    BY <2>1 DEF PdusFit, Bytes
<1> QED
  BY <1>1, <1>2, <1>3, <1>4, <1>5 DEF BuildTypeOK

\* The invariant of build_packet_1.
LEMMA BuildInvariant ==
  ASSUME Crc32IsFourBytes
  PROVE  BuildSpec => []BInv
<1>1. BuildInit => BInv
  BY BuildInitInv
<1>2. BInv /\ [BuildNext]_buildVars => BInv'
  BY BuildInductive
<1> QED
  BY <1>1, <1>2, PTL DEF BuildSpec

\* However many triggers there are and whatever happens to the file, at most one
\* packet is published per trigger, all have the length of the block, or of the
\* command line, and the cursor stays inside the file.
THEOREM BuildTypeCorrect ==
  ASSUME Crc32IsFourBytes
  PROVE  BuildSpec => []BuildTypeOK
<1>1. BuildSpec => []BInv
  BY BuildInvariant
<1> QED
  BY <1>1, BuildTypeFollows, PTL

\* The packets of a file have all of it up to the cursor, in order and every byte
\* once, whatever its size, also if it grows or is cut in between; with a header
\* a receiver reads the right length and two right checksums.
THEOREM FileStaysInOrder ==
  ASSUME Crc32IsFourBytes
  PROVE  BuildSpec => []FileInOrder
<1>1. BuildSpec => []BInv
  BY BuildInvariant
<1>2. BInv => FileInOrder
  BY DEF BInv
<1> QED
  BY <1>1, <1>2, PTL

--------------------------------------------------------------------------------
\* Modulation.

LEMMA SpsPositive == sps \in Nat \ {0}
<1>1. /\ samp_rate \in Nat /\ baud_rate \in Nat \ {0} /\ samp_rate >= baud_rate
  BY AfskAssumption
<1> QED
  BY <1>1 DEF sps

LEMMA PairsNat ==
  ASSUME NEW ms \in Nat
  PROVE  PreamblePairs(ms) \in Nat
<1>1. baud_rate \in Nat
  BY AfskAssumption
<1>2. ms * baud_rate \in Nat
  BY <1>1
<1> QED
  BY <1>2 DEF PreamblePairs

\* What the loop has added to the phase when it comes to bit i + 1.
LEMMA PhaseAdvances ==
  ASSUME NEW bits, NEW i \in Nat \ {0}
  PROVE  PhaseBefore(bits, i + 1) = PhaseBefore(bits, i) + sps * pinc(bits[i])
<1> DEFINE ones  == { j \in 1..(i - 1) : bits[j] = 1 }
           more  == { j \in 1..i : bits[j] = 1 }
           marks == Cardinality(ones)
           all   == Cardinality(more)
<1>1. IsFiniteSet(ones) /\ marks \in Nat
  <2>1. IsFiniteSet(1..(i - 1))
    BY FS_Interval
  <2> QED
    BY <2>1, FS_Subset, FS_CardinalityType
<1>2. i \notin ones
  OBVIOUS
<1>3. all = IF bits[i] = 1 THEN marks + 1 ELSE marks
  <2>1. CASE bits[i] = 1
    <3>1. more = ones \cup {i}
      BY <2>1
    <3>2. Cardinality(ones \cup {i}) = Cardinality(ones) + 1
      BY <1>1, <1>2, FS_AddElement
    <3> QED
      BY <2>1, <3>1, <3>2
  <2>2. CASE bits[i] # 1
    <3>1. more = ones
      BY <2>2
    <3> QED
      BY <2>2, <3>1
  <2> QED
    BY <2>1, <2>2
<1>4. PhaseBefore(bits, i) = sps * (marks * mark_freq + (i - 1 - marks) * space_freq)
  BY DEF PhaseBefore
<1>5. PhaseBefore(bits, i + 1) = sps * (all * mark_freq + (i - all) * space_freq)
  <2>1. PICK next : next = i + 1
    OBVIOUS
  <2>2. next - 1 = i
    BY <2>1
  <2>3. PhaseBefore(bits, next)
          = LET m == Cardinality({ j \in 1..(next - 1) : bits[j] = 1 })
            IN  sps * (m * mark_freq + (next - 1 - m) * space_freq)
    BY DEF PhaseBefore
  <2> QED
    BY <2>1, <2>2, <2>3
<1> HIDE DEF marks, all
<1>6. sps \in Nat /\ mark_freq \in Nat /\ space_freq \in Nat
  BY SpsPositive, AfskAssumption
<1>7. CASE bits[i] = 1
  <2>1. all = marks + 1 /\ pinc(bits[i]) = mark_freq /\ i - all = i - 1 - marks
    BY <1>1, <1>3, <1>7 DEF pinc
  <2> DEFINE a == marks * mark_freq
             b == (i - 1 - marks) * space_freq
  <2>2. a \in Int /\ b \in Int /\ all * mark_freq = a + mark_freq /\ (i - all) * space_freq = b
    BY <1>1, <1>6, <2>1
  <2> HIDE DEF a, b
  <2>3. sps * (a + mark_freq + b) = sps * (a + b) + sps * mark_freq
    BY <1>6, <2>2
  <2> QED
    BY <1>4, <1>5, <2>1, <2>2, <2>3 DEF a, b
<1>8. CASE bits[i] # 1
  <2>1. all = marks /\ pinc(bits[i]) = space_freq
    BY <1>3, <1>8 DEF pinc
  <2> DEFINE a == marks * mark_freq
             b == (i - 1 - marks) * space_freq
  <2>2. a \in Int /\ b \in Int /\ all * mark_freq = a /\ (i - all) * space_freq = b + space_freq
    BY <1>1, <1>6, <2>1
  <2> HIDE DEF a, b
  <2>3. sps * (a + (b + space_freq)) = sps * (a + b) + sps * space_freq
    BY <1>6, <2>2
  <2> QED
    BY <1>4, <1>5, <2>1, <2>2, <2>3 DEF a, b
<1> QED
  BY <1>7, <1>8

LEMMA PhaseStarts == ASSUME NEW bits PROVE PhaseBefore(bits, 1) = 0
<1>1. { j \in 1..(1 - 1) : bits[j] = 1 } = {}
  OBVIOUS
<1>2. Cardinality({}) = 0
  BY FS_EmptySet
<1>3. PhaseBefore(bits, 1) = sps * (0 * mark_freq + (1 - 1 - 0) * space_freq)
  BY <1>1, <1>2 DEF PhaseBefore
<1>4. sps \in Nat /\ mark_freq \in Nat /\ space_freq \in Nat
  BY SpsPositive, AfskAssumption
<1> QED
  BY <1>3, <1>4

LEMMA Division ==
  ASSUME NEW q \in Nat, NEW s \in Nat \ {0}, NEW r \in 0..(s - 1)
  PROVE  (q * s + r) \div s = q /\ (q * s + r) % s = r
OBVIOUS

\* The last sample of a symbol is the phase the next one starts from.
LEMMA SymbolEnds ==
  ASSUME NEW bits, Len(bits) \in Nat, NEW i \in 1..Len(bits)
  PROVE  ax25_to_fsk(bits)[i * sps] = PhaseBefore(bits, i + 1)
<1> DEFINE n == i * sps
<1>1. sps \in Nat \ {0}
  BY SpsPositive
<1>2. n \in 1..(Len(bits) * sps)
  <2>1. i \in Nat /\ 1 <= i /\ i <= Len(bits)
    OBVIOUS
  <2>2. 1 * sps <= i * sps /\ i * sps <= Len(bits) * sps
    BY <1>1, <2>1
  <2> QED
    BY <1>1, <2>1, <2>2
<1>3. BitOf(n) = i /\ SampleOf(n) = sps
  <2>1. i - 1 \in Nat /\ sps - 1 \in 0..(sps - 1)
    BY <1>1
  <2>2. n - 1 = (i - 1) * sps + (sps - 1)
    BY <1>1
  <2>3. /\ ((i - 1) * sps + (sps - 1)) \div sps = i - 1
        /\ ((i - 1) * sps + (sps - 1)) % sps = sps - 1
    BY <1>1, <2>1, Division
  <2>4. (n - 1) \div sps = i - 1 /\ (n - 1) % sps = sps - 1
    BY <2>2, <2>3
  <2> HIDE DEF n
  <2> QED
    BY <1>1, <2>4 DEF BitOf, SampleOf
<1>4. ax25_to_fsk(bits)[n] = PhaseBefore(bits, BitOf(n)) + SampleOf(n) * pinc(bits[BitOf(n)])
  BY <1>2 DEF ax25_to_fsk
<1> HIDE DEF n
<1>5. ax25_to_fsk(bits)[n] = PhaseBefore(bits, i) + sps * pinc(bits[i])
  BY <1>3, <1>4
<1> QED
  BY <1>5, PhaseAdvances DEF n
LEMMA PhaseIsInt ==
  ASSUME NEW bits, NEW i \in Int
  PROVE  PhaseBefore(bits, i) \in Int
<1> DEFINE ones  == { j \in 1..(i - 1) : bits[j] = 1 }
           marks == Cardinality(ones)
<1>1. IsFiniteSet(1..(i - 1))
  BY FS_Interval
<1>2. marks \in Nat
  BY <1>1, FS_Subset, FS_CardinalityType
<1>3. /\ sps \in Nat /\ mark_freq \in Nat /\ space_freq \in Nat
  BY SpsPositive, AfskAssumption
<1>4. PhaseBefore(bits, i) = sps * (marks * mark_freq + (i - 1 - marks) * space_freq)
  BY DEF PhaseBefore
<1> HIDE DEF marks
<1>5. marks * mark_freq \in Int /\ (i - 1 - marks) * space_freq \in Int
  BY <1>2, <1>3
<1> QED
  BY <1>3, <1>4, <1>5

LEMMA FskIsSeq ==
  ASSUME NEW bits \in Seq(0..255)
  PROVE  ax25_to_fsk(bits) \in Seq(Int)
<1> DEFINE n       == Len(bits) * sps
           e(k)    == PhaseBefore(bits, BitOf(k)) + SampleOf(k) * pinc(bits[BitOf(k)])
<1>1. sps \in Nat \ {0} /\ mark_freq \in Int /\ space_freq \in Int
  BY SpsPositive, AfskAssumption
<1>2. n \in Nat
  BY <1>1
<1>3. \A k \in 1..n : e(k) \in Int
  <2> TAKE k \in 1..n
  <2>1. BitOf(k) \in Int /\ SampleOf(k) \in Int
    BY <1>1, <1>2 DEF BitOf, SampleOf
  <2>2. PhaseBefore(bits, BitOf(k)) \in Int
    BY <2>1, PhaseIsInt
  <2>3. pinc(bits[BitOf(k)]) \in Int
    BY <1>1 DEF pinc
  <2> QED
    BY <2>1, <2>2, <2>3
<1>4. ax25_to_fsk(bits) = [k \in 1..n |-> e(k)]
  BY DEF ax25_to_fsk
<1> HIDE DEF n, e
<1>5. ax25_to_fsk(bits) \in [1..n -> Int]
  BY <1>3, <1>4
<1> QED
  BY <1>2, <1>5, SeqDef

\* A mark and a space are not the same to a receiver.
LEMMA TonesDiffer ==
  ASSUME NEW bit
  PROVE  sps * pinc(bit) = sps * mark_freq <=> bit = 1
<1>1. sps \in Nat \ {0} /\ mark_freq \in Nat /\ space_freq \in Nat /\ mark_freq # space_freq
  BY SpsPositive, AfskAssumption, TonesAssumption
<1>2. sps * mark_freq # sps * space_freq
  BY <1>1
<1> QED
  BY <1>2 DEF pinc

\* A receiver hears of a modulated message which of its bits are marks.
LEMMA HeardBits ==
  ASSUME NEW bits \in Seq(0..255)
  PROVE  Heard(ax25_to_fsk(bits)) = [i \in 1..Len(bits) |-> IF bits[i] = 1 THEN 1 ELSE 0]
<1> DEFINE samples == ax25_to_fsk(bits)
           n       == Len(bits)
           before(i) == IF i = 1 THEN 0 ELSE samples[(i - 1) * sps]
           e(i)    == IF samples[i * sps] - before(i) = sps * mark_freq THEN 1 ELSE 0
<1>1. n \in Nat /\ sps \in Nat \ {0}
  BY LenProperties, SpsPositive
<1>2. Len(samples) \div sps = n
  <2>1. n * sps \in Nat
    BY <1>1
  <2>2. samples \in Seq(Int) /\ DOMAIN samples = 1..(n * sps)
    BY FskIsSeq DEF ax25_to_fsk
  <2>3. Len(samples) = n * sps
    <3>1. DOMAIN samples = 1..Len(samples) /\ Len(samples) \in Nat
      BY <2>2, LenProperties
    <3> HIDE DEF samples, n
    <3> QED
      BY <2>1, <2>2, <3>1
  <2>4. 0 \in 0..(sps - 1) /\ n * sps + 0 = n * sps
    BY <1>1, <2>1
  <2>5. (n * sps + 0) \div sps = n
    BY <1>1, <2>4, Division
  <2> HIDE DEF samples, n
  <2> QED
    BY <2>3, <2>4, <2>5
<1>3. Heard(samples) = [i \in 1..n |-> e(i)]
  BY <1>2 DEF Heard
<1>4. ASSUME NEW i \in 1..n
      PROVE  e(i) = IF bits[i] = 1 THEN 1 ELSE 0
  <2>1. i \in Nat \ {0} /\ i <= n
    BY <1>1
  <2>2. samples[i * sps] = PhaseBefore(bits, i + 1)
    BY <1>1, SymbolEnds
  <2>3. before(i) = PhaseBefore(bits, i)
    <3>1. CASE i = 1
      BY <3>1, PhaseStarts
    <3>2. CASE i # 1
      <4>1. PICK j : j = i - 1
        OBVIOUS
      <4>2. j \in 1..Len(bits) /\ j + 1 = i
        BY <1>1, <2>1, <3>2, <4>1
      <4>3. samples[j * sps] = PhaseBefore(bits, j + 1)
        BY <1>1, <4>2, SymbolEnds
      <4> HIDE DEF samples
      <4> QED
        BY <3>2, <4>1, <4>2, <4>3
    <3> QED
      BY <3>1, <3>2
  <2>4. PhaseBefore(bits, i + 1) = PhaseBefore(bits, i) + sps * pinc(bits[i])
    BY <2>1, PhaseAdvances
  <2>5. PhaseBefore(bits, i) \in Int /\ sps * pinc(bits[i]) \in Int
    <3>1. pinc(bits[i]) \in Int
      BY AfskAssumption DEF pinc
    <3> QED
      BY <1>1, <2>1, <3>1, PhaseIsInt
  <2> HIDE DEF samples, before
  <2>6. samples[i * sps] - before(i) = sps * pinc(bits[i])
    <3> DEFINE p == PhaseBefore(bits, i)
               d == sps * pinc(bits[i])
    <3>1. samples[i * sps] = p + d /\ before(i) = p /\ p \in Int /\ d \in Int
      BY <2>2, <2>3, <2>4, <2>5
    <3> HIDE DEF p, d
    <3>2. samples[i * sps] - before(i) = d
      BY <3>1
    <3> QED
      BY <3>2 DEF d
  <2> QED
    BY <2>6, TonesDiffer
<1> HIDE DEF e, n, samples
<1>5. [i \in 1..n |-> e(i)] = [i \in 1..n |-> IF bits[i] = 1 THEN 1 ELSE 0]
  BY <1>4
<1> QED
  BY <1>3, <1>5 DEF n, samples

LEMMA BitsAreBytes ==
  ASSUME NEW msg \in Seq(0..1)
  PROVE  msg \in Messages
<1> DEFINE S == 0..255
<1>1. \A k \in 1..Len(msg) : msg[k] \in S
  <2> TAKE k \in 1..Len(msg)
  <2>1. msg[k] \in 0..1
    BY ElementOfSeq
  <2> QED
    BY <2>1
<1>2. Len(msg) \in Nat /\ msg = [k \in 1..Len(msg) |-> msg[k]]
  BY LenProperties
<1> HIDE DEF S
<1>3. msg \in [1..Len(msg) -> S]
  BY <1>1, <1>2
<1>4. msg \in Seq(S)
  BY <1>2, <1>3, FunctionIsSeq
<1> QED
  BY <1>4 DEF Messages, S

\* The message stands behind its preamble.
LEMMA PreambleFirst ==
  ASSUME NEW pairs \in Nat, NEW msg \in Messages
  PROVE  /\ msg_bits(pairs, msg) \in Seq(0..255)
         /\ Len(msg_bits(pairs, msg)) = 2 * pairs + Len(msg)
         /\ \A k \in 1..Len(msg) : msg_bits(pairs, msg)[2 * pairs + k] = msg[k]
<1> DEFINE n        == 2 * pairs
           preamble == [k \in 1..n |-> (k - 1) % 2]
<1>1. n \in Nat
  OBVIOUS
<1>2. preamble \in [1..n -> 0..255]
  BY <1>1
<1>3. msg_bits(pairs, msg) = preamble \o msg
  BY DEF msg_bits
<1> HIDE DEF n
<1>4. preamble \in Seq(0..255) /\ Len(preamble) = n
  <2> HIDE DEF preamble
  <2> QED
    BY <1>1, <1>2, FunctionIsSeq
<1> HIDE DEF preamble
<1>5. msg \in Seq(0..255)
  BY DEF Messages
<1>6. /\ preamble \o msg \in Seq(0..255) /\ Len(preamble \o msg) = Len(preamble) + Len(msg)
      /\ \A k \in 1..Len(msg) : (preamble \o msg)[Len(preamble) + k] = msg[k]
  <2> DEFINE S == 0..255
  <2>1. preamble \in Seq(S) /\ msg \in Seq(S)
    BY <1>4, <1>5
  <2> HIDE DEF S
  <2>2. /\ preamble \o msg \in Seq(S) /\ Len(preamble \o msg) = Len(preamble) + Len(msg)
        /\ \A k \in 1..Len(msg) : (preamble \o msg)[Len(preamble) + k] = msg[k]
    BY <2>1, Joined
  <2> QED
    BY <2>2 DEF S
<1> QED
  BY <1>3, <1>4, <1>6 DEF n

--------------------------------------------------------------------------------
\* AfskBasic: the invariant.

Tag == [offset : Nat, value : Nat]

TypesOK ==
  /\ AfskTypeOK
  /\ out \in Seq(Int)
  /\ tags \in Seq(Tag)
  /\ output_buffer \in Seq(Int)

\* No tag is ahead of the output.
TagsWritten == \A i \in 1..Len(tags) : tags[i].offset <= Len(out)

\* The last one has come as far as opb_idx says.
LastBurst ==
  tags # << >> =>
    LET tag == tags[Len(tags)]
    IN  IF output_buffer = << >> THEN tag.offset + tag.value <= Len(out)
                                 ELSE Len(out) = tag.offset + opb_idx

AInv == TypesOK /\ OrderKept /\ TagsWritten /\ LastBurst /\ BurstsIntact

LEMMA SamplesAreSeq ==
  ASSUME preamble_len_bits \in { PreamblePairs(ms) : ms \in PreambleMs }, NEW msg \in Messages
  PROVE  SamplesOf(msg) \in Seq(Int)
<1>1. preamble_len_bits \in Nat
  BY PairsNat, AfskBasicAssumption
<1> QED
  BY <1>1, PreambleFirst, FskIsSeq DEF SamplesOf

--------------------------------------------------------------------------------
\* AfskBasic: one copy.

LEMMA FillingIsSeq ==
  ASSUME NEW n \in Nat
  PROVE  Filling(n) \in Seq(Int) /\ (n = 0 => Len(Filling(n)) = 0)
<1>1. Silence(n) \in [1..n -> Int]
  BY DEF Silence
<1>2. Silence(n) \in Seq(Int) /\ Len(Silence(n)) = n
  BY <1>1, SeqDef
<1>3. << >> \in Seq(Int) /\ Len(<< >>) = 0
  OBVIOUS
<1> QED
  BY <1>2, <1>3 DEF Filling

\* What is copied goes to the end of the output, sample by sample; the buffer is
\* kept exactly as long as something of it is left, and then nothing is filled in.
LEMMA CopyStep ==
  ASSUME out \in Seq(Int), NEW buffer \in Seq(Int), NEW from \in 0..Len(buffer), NEW n \in Nat,
         Copy(buffer, from, n)
  PROVE  /\ out' \in Seq(Int) /\ Len(out) <= Len(out')
         /\ \A k \in 1..Len(out) : out'[k] = out[k]
         /\ \A k \in 1..Len(buffer) :
              from < k /\ Len(out) + k - from <= Len(out') =>
                out'[Len(out) + k - from] = buffer[k]
         /\ opb_idx' \in Nat
         /\ output_buffer' # << >> =>
              /\ output_buffer' = buffer /\ opb_idx' < Len(buffer)
              /\ Len(out') = Len(out) + opb_idx' - from
         /\ output_buffer' = << >> => Len(out') >= Len(out) + Len(buffer) - from
<1> DEFINE left   == Len(buffer) - from
           cnt    == IF left < n THEN left ELSE n
           piece  == SubSeq(buffer, from + 1, from + cnt)
           filled == Filling(n - cnt)
<1>1. /\ Len(buffer) \in Nat /\ Len(out) \in Nat /\ from \in Nat
      /\ cnt \in Nat /\ cnt <= left /\ n - cnt \in Nat
      /\ cnt < left => n - cnt = 0
  BY LenProperties
<1>2. /\ out' = out \o piece \o filled
      /\ opb_idx' = from + cnt
      /\ output_buffer' = IF from + cnt >= Len(buffer) THEN << >> ELSE buffer
  BY DEF Copy
<1>3. piece \in Seq(Int) /\ Len(piece) = cnt /\ \A k \in 1..cnt : piece[k] = buffer[from + k]
  <2>1. from + 1 \in Int /\ from + cnt \in Int
    BY <1>1
  <2>2. \A k \in (from + 1)..(from + cnt) : buffer[k] \in Int
    BY <1>1, ElementOfSeq
  <2> QED
    BY <1>1, <2>1, <2>2, SubSeqProperties
<1>4. filled \in Seq(Int) /\ (cnt < left => Len(filled) = 0)
  BY <1>1, FillingIsSeq
<1> HIDE DEF cnt, piece, filled
<1> DEFINE front == out \o piece
<1>5. /\ front \in Seq(Int) /\ Len(front) = Len(out) + cnt
      /\ \A k \in 1..Len(out) : front[k] = out[k]
      /\ \A k \in 1..cnt : front[Len(out) + k] = piece[k]
  <2>1. /\ front \in Seq(Int) /\ Len(front) = Len(out) + Len(piece)
        /\ \A k \in 1..Len(out) : front[k] = out[k]
        /\ \A k \in 1..Len(piece) : front[Len(out) + k] = piece[k]
    <3>1. piece \in Seq(Int)
      BY <1>3
    <3> QED
      BY <3>1, Joined
  <2> HIDE DEF front
  <2> QED
    BY <1>3, <2>1
<1>6. /\ out' \in Seq(Int) /\ Len(filled) \in Nat
      /\ Len(out') = Len(out) + cnt + Len(filled)
      /\ \A k \in 1..(Len(out) + cnt) : out'[k] = front[k]
  <2> HIDE DEF front
  <2>1. out' = front \o filled
    BY <1>2 DEF front
  <2>2. /\ front \o filled \in Seq(Int)
        /\ Len(front \o filled) = Len(front) + Len(filled)
        /\ \A k \in 1..Len(front) : (front \o filled)[k] = front[k]
    <3>1. front \in Seq(Int) /\ filled \in Seq(Int)
      BY <1>4, <1>5
    <3> QED
      BY <3>1, Joined
  <2>3. Len(filled) \in Nat
    BY <1>4, LenProperties
  <2> QED
    BY <1>5, <2>1, <2>2, <2>3
<1> HIDE DEF front
<1>7. \A k \in 1..Len(out) : out'[k] = out[k]
  <2> TAKE k \in 1..Len(out)
  <2>1. k \in 1..(Len(out) + cnt)
    BY <1>1
  <2> QED
    BY <1>5, <1>6, <2>1
<1>8. \A k \in 1..Len(buffer) :
        from < k /\ Len(out) + k - from <= Len(out') => out'[Len(out) + k - from] = buffer[k]
  <2> SUFFICES ASSUME NEW k \in 1..Len(buffer), from < k, Len(out) + k - from <= Len(out')
               PROVE  out'[Len(out) + k - from] = buffer[k]
    OBVIOUS
  <2>1. k - from \in 1..cnt
    <3>1. Len(out') = Len(out) + cnt + Len(filled) /\ Len(filled) \in Nat
      BY <1>6
    <3>2. CASE cnt < left
      <4>1. Len(out') = Len(out) + cnt
        BY <1>1, <1>4, <3>1, <3>2
      <4> QED
        BY <1>1, <4>1
    <3>3. CASE ~(cnt < left)
      BY <1>1, <3>3
    <3> QED
      BY <3>2, <3>3
  <2>2. /\ Len(out) + k - from \in 1..(Len(out) + cnt)
        /\ Len(out) + k - from = Len(out) + (k - from)
        /\ from + (k - from) = k
    BY <1>1, <2>1
  <2>3. front[Len(out) + (k - from)] = piece[k - from]
    BY <1>5, <2>1
  <2>4. piece[k - from] = buffer[from + (k - from)]
    BY <1>3, <2>1
  <2> QED
    BY <1>6, <2>2, <2>3, <2>4
<1>9. opb_idx' \in Nat
  BY <1>1, <1>2
<1>10. output_buffer' # << >> =>
         /\ output_buffer' = buffer /\ opb_idx' < Len(buffer)
         /\ Len(out') = Len(out) + opb_idx' - from
  BY <1>1, <1>2, <1>4, <1>6
<1>11. output_buffer' = << >> => Len(out') >= Len(out) + Len(buffer) - from
  <2>1. CASE from + cnt >= Len(buffer)
    BY <1>1, <1>6, <2>1
  <2>2. CASE buffer = << >>
    BY <1>1, <1>6, <2>2
  <2> QED
    BY <1>2, <2>1, <2>2
<1> QED
  BY <1>1, <1>6, <1>7, <1>8, <1>9, <1>10, <1>11

\* Behind a buffer that is copied to its end there is silence, if there is no
\* stream tag, and nothing otherwise.
LEMMA CopyFills ==
  ASSUME out \in Seq(Int), NEW buffer \in Seq(Int), NEW from \in 0..Len(buffer), NEW n \in Nat,
         Copy(buffer, from, n),
         NEW k \in 1..Len(out'), k > Len(out) + Len(buffer) - from
  PROVE  out'[k] = 0 /\ stream_tag = ""
<1> DEFINE left   == Len(buffer) - from
           cnt    == IF left < n THEN left ELSE n
           piece  == SubSeq(buffer, from + 1, from + cnt)
           filled == Filling(n - cnt)
           front  == out \o piece
<1>1. /\ Len(buffer) \in Nat /\ Len(out) \in Nat /\ from \in Nat
      /\ cnt \in Nat /\ cnt <= left /\ n - cnt \in Nat
  BY LenProperties
<1>2. out' = front \o filled
  BY DEF Copy
<1>3. piece \in Seq(Int) /\ Len(piece) = cnt
  <2>1. from + 1 \in Int /\ from + cnt \in Int
    BY <1>1
  <2>2. \A i \in (from + 1)..(from + cnt) : buffer[i] \in Int
    BY <1>1, ElementOfSeq
  <2> QED
    BY <1>1, <2>1, <2>2, SubSeqProperties
<1>4. filled \in Seq(Int)
  BY <1>1, FillingIsSeq
<1>5. filled # << >> => stream_tag = "" /\ \A i \in 1..Len(filled) : filled[i] = 0
  <2> SUFFICES ASSUME filled # << >>
               PROVE  stream_tag = "" /\ \A i \in 1..Len(filled) : filled[i] = 0
    OBVIOUS
  <2>1. stream_tag = "" /\ filled = Silence(n - cnt)
    BY DEF Filling
  <2>2. DOMAIN filled = 1..Len(filled)
    BY <1>4, LenProperties
  <2>3. filled = [i \in 1..(n - cnt) |-> 0]
    BY <2>1 DEF Silence
  <2> HIDE DEF filled
  <2>4. \A i \in DOMAIN filled : filled[i] = 0
    BY <2>3
  <2> QED
    BY <2>1, <2>2, <2>4
<1> HIDE DEF cnt, piece, filled
<1>6. front \in Seq(Int) /\ Len(front) = Len(out) + cnt
  BY <1>3, Joined
<1> HIDE DEF front
<1>7. /\ Len(out') = Len(front) + Len(filled)
      /\ \A i \in 1..Len(filled) : out'[Len(front) + i] = filled[i]
  <2> DEFINE longer == front \o filled
  <2>1. front \in Seq(Int) /\ filled \in Seq(Int)
    BY <1>4, <1>6
  <2>2. /\ Len(longer) = Len(front) + Len(filled)
        /\ \A i \in 1..Len(filled) : longer[Len(front) + i] = filled[i]
    BY <2>1, Joined
  <2>3. out' = longer
    BY <1>2
  <2> HIDE DEF longer
  <2> QED
    BY <2>2, <2>3
<1>8. Len(filled) \in Nat
  BY <1>4, LenProperties
<1> DEFINE i == k - Len(front)
<1>9. i \in 1..Len(filled) /\ Len(front) + i = k
  BY <1>1, <1>6, <1>7, <1>8
<1>10. filled # << >>
  BY <1>8, <1>9, EmptySeq
<1> HIDE DEF i
<1>11. out'[Len(front) + i] = filled[i]
  BY <1>7, <1>9
<1> QED
  BY <1>5, <1>9, <1>10, <1>11

--------------------------------------------------------------------------------
\* AfskBasic: the queues.

LEMMA HeadMoved ==
  ASSUME NEW S, NEW s \in Seq(S), NEW t \in Seq(S), t # << >>
  PROVE  /\ Append(s, Head(t)) \in Seq(S) /\ Tail(t) \in Seq(S)
         /\ Append(s, Head(t)) \o Tail(t) = s \o t
<1>1. /\ Head(t) \in S /\ Tail(t) \in Seq(S) /\ Len(Tail(t)) = Len(t) - 1
      /\ \A i \in 1..Len(Tail(t)) : Tail(t)[i] = t[i + 1]
  BY HeadTailProperties
<1>2. Len(t) \in Nat /\ Len(t) = Len(Tail(t)) + 1
  BY <1>1, LenProperties
<1>3. Head(t) = t[1]
  OBVIOUS
<1>4. Append(s, t[1]) \o Tail(t) = s \o t
  BY <1>1, <1>2, MoveOne
<1>5. Append(s, Head(t)) \in Seq(S)
  BY <1>1, AppendProperties
<1> QED
  BY <1>1, <1>3, <1>4, <1>5

\* Nothing is reordered where three queues follow each other.
LEMMA ThirdGrows ==
  ASSUME NEW S, NEW s \in Seq(S), NEW t \in Seq(S), NEW u \in Seq(S), NEW e \in S
  PROVE  (s \o t) \o Append(u, e) = Append((s \o t) \o u, e)
<1>1. s \o t \in Seq(S)
  BY ConcatProperties
<1>2. Append(u, e) = u \o << e >>
  BY AppendIsConcat
<1> QED
  BY <1>1, <1>2, BatchAndQueue

LEMMA SecondToFirst ==
  ASSUME NEW S, NEW s \in Seq(S), NEW t \in Seq(S), NEW u \in Seq(S), t # << >>
  PROVE  (Append(s, Head(t)) \o Tail(t)) \o u = (s \o t) \o u
BY HeadMoved

--------------------------------------------------------------------------------
\* AfskBasic: the bursts.

\* What BurstsIntact says of one burst.
Burst(i) ==
  /\ tags[i].value = Len(SamplesOf(Tagged(i)))
  /\ \A k \in 1..Len(SamplesOf(Tagged(i))) :
       tags[i].offset + k <= Len(out) =>
         out[tags[i].offset + k] = SamplesOf(Tagged(i))[k]
  /\ i < Len(tags) => tags[i].offset + tags[i].value <= tags[i + 1].offset

LEMMA BurstsAre ==
  /\ BurstsIntact <=> \A i \in 1..Len(tags) : Burst(i)
  /\ BurstsIntact' <=> \A i \in 1..Len(tags') : Burst(i)'
BY DEF BurstsIntact, Burst

\* Every tag has its message and its place.
LEMMA TagTypes ==
  ASSUME TypesOK, NEW i \in 1..Len(tags)
  PROVE  /\ tags[i].offset \in Nat /\ tags[i].value \in Nat
         /\ Len(begun) - Len(tags) + i \in 1..Len(begun)
         /\ Tagged(i) \in Messages
         /\ SamplesOf(Tagged(i)) \in Seq(Int)
         /\ Len(SamplesOf(Tagged(i))) \in Nat
<1>1. /\ tags \in Seq(Tag) /\ begun \in Seq(Messages) /\ Len(tags) <= Len(begun)
      /\ preamble_len_bits \in { PreamblePairs(ms) : ms \in PreambleMs }
  BY DEF TypesOK, AfskTypeOK
<1>2. Len(tags) \in Nat /\ Len(begun) \in Nat
  BY <1>1, LenProperties
<1>3. tags[i] \in Tag
  BY <1>1, ElementOfSeq
<1>4. Len(begun) - Len(tags) + i \in 1..Len(begun)
  BY <1>1, <1>2
<1>5. Tagged(i) \in Messages
  BY <1>1, <1>4, ElementOfSeq DEF Tagged
<1>6. SamplesOf(Tagged(i)) \in Seq(Int)
  BY <1>1, <1>5, SamplesAreSeq
<1> QED
  BY <1>3, <1>4, <1>5, <1>6, LenProperties DEF Tag

\* A burst that is not being copied is in the output as a whole.
LEMMA Finished ==
  ASSUME TypesOK, TagsWritten, LastBurst, BurstsIntact,
         NEW i \in 1..Len(tags), i < Len(tags) \/ output_buffer = << >>
  PROVE  tags[i].offset + Len(SamplesOf(Tagged(i))) <= Len(out)
<1>1. Burst(i)
  BY BurstsAre
<1>2. tags[i].value = Len(SamplesOf(Tagged(i)))
  BY <1>1 DEF Burst
<1>3. Len(tags) \in Nat /\ Len(out) \in Nat
  BY LenProperties DEF TypesOK
<1>4. CASE i < Len(tags)
  <2>1. i + 1 \in 1..Len(tags)
    BY <1>3, <1>4
  <2>2. tags[i + 1].offset <= Len(out)
    BY <2>1 DEF TagsWritten
  <2>3. tags[i].offset + tags[i].value <= tags[i + 1].offset
    BY <1>1, <1>4 DEF Burst
  <2>4. /\ tags[i].offset \in Nat /\ tags[i].value \in Nat
        /\ tags[i + 1].offset \in Nat
    BY <2>1, TagTypes
  <2>5. tags[i].offset + tags[i].value <= Len(out)
    BY <1>3, <2>2, <2>3, <2>4
  <2> QED
    BY <1>2, <2>5
<1>5. CASE i = Len(tags) /\ output_buffer = << >>
  <2>1. tags # << >>
    BY <1>3, <1>5
  <2>2. tags[i].offset + tags[i].value <= Len(out)
    BY <1>5, <2>1 DEF LastBurst
  <2> QED
    BY <1>2, <2>2
<1> QED
  BY <1>3, <1>4, <1>5

\* A burst that is not being copied stays as it is when the output grows.
LEMMA StillIntact ==
  ASSUME TypesOK, TagsWritten, LastBurst, BurstsIntact,
         NEW i \in 1..Len(tags), i < Len(tags) \/ output_buffer = << >>,
         out' \in Seq(Int), Len(out) <= Len(out'), \A k \in 1..Len(out) : out'[k] = out[k],
         preamble_len_bits' = preamble_len_bits,
         tags'[i] = tags[i], Tagged(i)' = Tagged(i),
         i < Len(tags') => tags[i].offset + tags[i].value <= tags'[i + 1].offset
  PROVE  Burst(i)'
<1> DEFINE samples == SamplesOf(Tagged(i))
           start   == tags[i].offset
<1>1. SamplesOf(Tagged(i))' = samples
  BY DEF SamplesOf
<1>2. Burst(i)
  BY BurstsAre
<1>3. start \in Nat /\ Len(samples) \in Nat /\ Len(out) \in Nat
  BY TagTypes, LenProperties DEF TypesOK
<1>4. start + Len(samples) <= Len(out)
  BY Finished
<1>5. /\ tags[i].value = Len(samples)
      /\ \A k \in 1..Len(samples) : start + k <= Len(out) => out[start + k] = samples[k]
  BY <1>2 DEF Burst
<1> HIDE DEF samples, start
<1>6. \A k \in 1..Len(samples) : out'[start + k] = samples[k]
  <2> TAKE k \in 1..Len(samples)
  <2>1. start + k \in 1..Len(out) /\ start + k <= Len(out)
    BY <1>3, <1>4
  <2> QED
    BY <1>5, <2>1
<1> QED
  BY <1>1, <1>5, <1>6 DEF Burst, samples, start

\* Nothing happens to the bursts where neither the output nor its tags change.
LEMMA OutputKept ==
  ASSUME AInv, UNCHANGED << preamble_len_bits, output_buffer, opb_idx, out, tags, begun >>
  PROVE  TagsWritten' /\ LastBurst' /\ BurstsIntact'
<1>1. TagsWritten'
  BY DEF AInv, TagsWritten
<1>2. LastBurst'
  BY DEF AInv, LastBurst
<1>3. BurstsIntact'
  BY DEF AInv, BurstsIntact, SamplesOf, Tagged
<1> QED
  BY <1>1, <1>2, <1>3

--------------------------------------------------------------------------------
\* AfskBasic: the steps.

LEMMA AfskInitInv ==
  AfskInit => AInv
<1> SUFFICES ASSUME AfskInit PROVE AInv
  OBVIOUS
<1> USE DEF AfskInit
<1>1. Len(tags) = 0 /\ Len(begun) = 0
  OBVIOUS
<1>2. TypesOK
  BY <1>1 DEF TypesOK, AfskTypeOK
<1>3. OrderKept
  BY DEF OrderKept
<1>4. TagsWritten /\ LastBurst /\ BurstsIntact
  BY <1>1 DEF TagsWritten, LastBurst, BurstsIntact
<1> QED
  BY <1>2, <1>3, <1>4 DEF AInv

LEMMA PostStep ==
  ASSUME AInv, NEW msg \in Messages, Post(msg)
  PROVE  AInv'
<1>1. /\ inbox' = Append(inbox, msg) /\ posted' = Append(posted, msg)
      /\ UNCHANGED << preamble_len_bits, stream_tag, outbox, output_buffer, opb_idx, out, tags,
                      begun >>
  BY DEF Post, afskConfig
<1>2. TypesOK
  BY DEF AInv
<1>3. inbox' \in Seq(Messages) /\ posted' \in Seq(Messages)
  BY <1>1, <1>2, AppendProperties DEF TypesOK, AfskTypeOK
<1>4. TypesOK'
  BY <1>1, <1>2, <1>3 DEF TypesOK, AfskTypeOK, SamplesOf
<1>5. OrderKept'
  <2>1. inbox \in Seq(Messages) /\ outbox \in Seq(Messages) /\ begun \in Seq(Messages)
    BY <1>2 DEF TypesOK, AfskTypeOK
  <2>2. begun \o outbox \o Append(inbox, msg) = Append(begun \o outbox \o inbox, msg)
    BY <2>1, ThirdGrows
  <2>3. begun \o outbox \o inbox = posted
    BY DEF AInv, OrderKept
  <2> QED
    BY <1>1, <2>2, <2>3 DEF OrderKept
<1> QED
  BY <1>1, <1>4, <1>5, OutputKept DEF AInv

LEMMA HandleStep ==
  ASSUME AInv, handle_msg
  PROVE  AInv'
<1>1. /\ inbox # << >> /\ outbox' = Append(outbox, Head(inbox)) /\ inbox' = Tail(inbox)
      /\ UNCHANGED << preamble_len_bits, stream_tag, output_buffer, opb_idx, out, tags, begun,
                      posted >>
  BY DEF handle_msg, afskConfig
<1>2. TypesOK
  BY DEF AInv
<1>3. inbox \in Seq(Messages) /\ outbox \in Seq(Messages) /\ begun \in Seq(Messages)
  BY <1>2 DEF TypesOK, AfskTypeOK
<1>4. inbox' \in Seq(Messages) /\ outbox' \in Seq(Messages)
  BY <1>1, <1>3, HeadMoved
<1>5. TypesOK'
  BY <1>1, <1>2, <1>4 DEF TypesOK, AfskTypeOK, SamplesOf
<1>6. OrderKept'
  <2> DEFINE longer == Append(outbox, Head(inbox))
             rest   == Tail(inbox)
  <2>1. longer \in Seq(Messages) /\ rest \in Seq(Messages) /\ longer \o rest = outbox \o inbox
    BY <1>1, <1>3, HeadMoved
  <2> HIDE DEF longer, rest
  <2>2. (begun \o longer) \o rest = begun \o (longer \o rest)
    <3>1. longer \in Seq(Messages) /\ rest \in Seq(Messages)
      BY <2>1
    <3> QED
      BY <1>3, <3>1, ConcatAssociative
  <2>3. begun \o (outbox \o inbox) = (begun \o outbox) \o inbox
    BY <1>3, ConcatAssociative
  <2>4. begun \o outbox \o inbox = posted
    BY DEF AInv, OrderKept
  <2>5. outbox' = longer /\ inbox' = rest
    BY <1>1 DEF longer, rest
  <2> QED
    BY <1>1, <2>1, <2>2, <2>3, <2>4, <2>5 DEF OrderKept
<1> QED
  BY <1>1, <1>5, <1>6, OutputKept DEF AInv

LEMMA RestartStep ==
  ASSUME AInv, Restart
  PROVE  AInv'
<1>1. /\ out' = << >> /\ tags' = << >>
      /\ UNCHANGED << preamble_len_bits, stream_tag, inbox, outbox, output_buffer, opb_idx, begun,
                      posted >>
  BY DEF Restart, afskConfig
<1>2. Len(tags') = 0 /\ tags' \in Seq(Tag) /\ out' \in Seq(Int)
  BY <1>1
<1>3. TypesOK
  BY DEF AInv
<1>4. Len(tags') <= Len(begun')
  <2>1. Len(begun) \in Nat
    BY <1>3, LenProperties DEF TypesOK, AfskTypeOK
  <2> QED
    BY <1>1, <1>2, <2>1
<1>5. TypesOK'
  BY <1>1, <1>2, <1>3, <1>4 DEF TypesOK, AfskTypeOK, SamplesOf
<1>6. OrderKept'
  BY <1>1 DEF AInv, OrderKept
<1>7. TagsWritten' /\ LastBurst' /\ BurstsIntact'
  BY <1>1, <1>2 DEF TagsWritten, LastBurst, BurstsIntact
<1> QED
  BY <1>5, <1>6, <1>7 DEF AInv

\* The last tag announces what is being copied, if that was begun since the start.
LEMMA BeingCopied ==
  ASSUME TypesOK, LastBurst, BurstsIntact, tags # << >>, output_buffer # << >>
  PROVE  /\ Len(tags) \in 1..Len(tags)
         /\ tags[Len(tags)].offset \in Nat
         /\ Len(out) = tags[Len(tags)].offset + opb_idx
         /\ tags[Len(tags)].value = Len(output_buffer)
         /\ SamplesOf(Tagged(Len(tags))) = output_buffer
<1> DEFINE last == Len(tags)
<1>1. last \in 1..last
  <2>1. tags \in Seq(Tag)
    BY DEF TypesOK
  <2> QED
    BY <2>1, EmptySeq
<1>2. Tagged(last) = begun[Len(begun)]
  <2>1. Len(begun) \in Nat /\ last \in Nat
    BY LenProperties DEF TypesOK, AfskTypeOK
  <2>2. Len(begun) - Len(tags) + last = Len(begun)
    BY <2>1
  <2> QED
    BY <2>2 DEF Tagged
<1>3. Burst(last)
  BY <1>1, BurstsAre
<1>4. output_buffer = SamplesOf(begun[Len(begun)])
  BY DEF TypesOK, AfskTypeOK
<1>5. Len(out) = tags[last].offset + opb_idx
  BY DEF LastBurst
<1>6. tags[last].offset \in Nat
  BY <1>1, TagTypes
<1>7. tags[last].value = Len(SamplesOf(Tagged(last)))
  BY <1>3 DEF Burst
<1> QED
  BY <1>1, <1>2, <1>4, <1>5, <1>6, <1>7

LEMMA WorkOnStep ==
  ASSUME AInv, NEW n \in Nat, workOn(n)
  PROVE  AInv'
<1> DEFINE last == Len(tags)
<1>1. /\ output_buffer # << >> /\ Copy(output_buffer, opb_idx, n)
      /\ UNCHANGED << preamble_len_bits, stream_tag, inbox, outbox, tags, begun, posted >>
  BY DEF workOn, afskConfig
<1>2. TypesOK /\ TagsWritten /\ LastBurst /\ BurstsIntact
  BY DEF AInv
<1>3. /\ output_buffer \in Seq(Int) /\ out \in Seq(Int) /\ tags \in Seq(Tag)
      /\ begun # << >> /\ output_buffer = SamplesOf(begun[Len(begun)])
      /\ opb_idx \in Nat /\ opb_idx < Len(output_buffer)
  BY <1>1, <1>2 DEF TypesOK, AfskTypeOK
<1>4. /\ Len(out) \in Nat /\ Len(output_buffer) \in Nat /\ last \in Nat
      /\ opb_idx \in 0..Len(output_buffer)
  BY <1>3, LenProperties
<1>5. /\ out' \in Seq(Int) /\ Len(out) <= Len(out')
      /\ \A k \in 1..Len(out) : out'[k] = out[k]
  BY <1>1, <1>3, <1>4, CopyStep
<1>6. \A k \in 1..Len(output_buffer) :
        opb_idx < k /\ Len(out) + k - opb_idx <= Len(out') =>
          out'[Len(out) + k - opb_idx] = output_buffer[k]
  BY <1>1, <1>3, <1>4, CopyStep
<1>7. /\ opb_idx' \in Nat
      /\ output_buffer' # << >> =>
           /\ output_buffer' = output_buffer /\ opb_idx' < Len(output_buffer)
           /\ Len(out') = Len(out) + opb_idx' - opb_idx
      /\ output_buffer' = << >> => Len(out') >= Len(out) + Len(output_buffer) - opb_idx
  BY <1>1, <1>3, <1>4, CopyStep
<1>8. Len(out') \in Nat
  BY <1>5, LenProperties
<1>9. TypesOK'
  <2>1. output_buffer' \in Seq(Int)
    <3>1. output_buffer' = << >> \/ output_buffer' = output_buffer
      BY <1>7
    <3> QED
      BY <1>3, <3>1, EmptySeq
  <2>2. output_buffer' # << >> =>
          /\ begun' # << >> /\ output_buffer' = SamplesOf(begun[Len(begun)])'
          /\ opb_idx' < Len(output_buffer')
    BY <1>1, <1>3, <1>7 DEF SamplesOf
  <2> QED
    BY <1>1, <1>2, <1>5, <1>7, <2>1, <2>2 DEF TypesOK, AfskTypeOK
<1>10. OrderKept'
  BY <1>1 DEF AInv, OrderKept
<1>11. TagsWritten'
  <2> SUFFICES ASSUME NEW i \in 1..Len(tags) PROVE tags[i].offset <= Len(out')
    BY <1>1 DEF TagsWritten
  <2>1. tags[i].offset <= Len(out) /\ tags[i].offset \in Nat
    BY <1>2, TagTypes DEF TagsWritten
  <2> QED
    BY <1>4, <1>5, <1>8, <2>1
<1>12. ASSUME tags # << >>
       PROVE  /\ last \in 1..last
              /\ tags[last].offset \in Nat
              /\ Len(out) = tags[last].offset + opb_idx
              /\ tags[last].value = Len(output_buffer)
              /\ SamplesOf(Tagged(last)) = output_buffer
  BY <1>1, <1>2, <1>12, BeingCopied
<1>13. LastBurst'
  <2> SUFFICES ASSUME tags # << >>
               PROVE  IF output_buffer' = << >>
                        THEN tags[last].offset + tags[last].value <= Len(out')
                        ELSE Len(out') = tags[last].offset + opb_idx'
    BY <1>1 DEF LastBurst
  <2>1. /\ tags[last].offset \in Nat /\ Len(out) = tags[last].offset + opb_idx
        /\ tags[last].value = Len(output_buffer)
    BY <1>12
  <2>2. CASE output_buffer' = << >>
    <3>1. Len(out') >= Len(out) + Len(output_buffer) - opb_idx
      BY <1>7, <2>2
    <3>2. tags[last].offset + tags[last].value <= Len(out')
      BY <1>3, <1>4, <1>8, <2>1, <3>1
    <3> QED
      BY <2>2, <3>2
  <2>3. CASE output_buffer' # << >>
    <3>1. Len(out') = Len(out) + opb_idx' - opb_idx /\ opb_idx' \in Nat
      BY <1>7, <2>3
    <3>2. Len(out') = tags[last].offset + opb_idx'
      BY <1>3, <1>4, <2>1, <3>1
    <3> QED
      BY <2>3, <3>2
  <2> QED
    BY <2>2, <2>3
<1>14. BurstsIntact'
  <2> SUFFICES ASSUME NEW i \in 1..Len(tags) PROVE Burst(i)'
    BY <1>1, BurstsAre
  <2>1. Tagged(i)' = Tagged(i) /\ SamplesOf(Tagged(i))' = SamplesOf(Tagged(i))
    BY <1>1 DEF Tagged, SamplesOf
  <2>2. Burst(i)
    BY <1>2, BurstsAre
  <2>3. CASE i < last
    <3>1. tags[i].offset + tags[i].value <= tags'[i + 1].offset
      BY <1>1, <2>2, <2>3 DEF Burst
    <3> QED
      BY <1>1, <1>2, <1>5, <2>1, <2>3, <3>1, StillIntact
  <2>4. CASE i = last
    <3>1. tags # << >>
      BY <1>4, <2>4, EmptySeq
    <3>2. \A k \in 1..Len(output_buffer) :
            tags[last].offset + k <= Len(out') => out'[tags[last].offset + k] = output_buffer[k]
      <4> SUFFICES ASSUME NEW k \in 1..Len(output_buffer), tags[last].offset + k <= Len(out')
                   PROVE  out'[tags[last].offset + k] = output_buffer[k]
        OBVIOUS
      <4>1. CASE opb_idx < k
        <5>1. Len(out) + k - opb_idx = tags[last].offset + k
          <6>1. tags[last].offset \in Nat /\ Len(out) = tags[last].offset + opb_idx
            BY <1>12, <3>1
          <6> QED
            BY <1>3, <6>1
        <5> QED
          BY <1>6, <4>1, <5>1
      <4>2. CASE ~(opb_idx < k)
        <5>1. tags[last].offset + k \in 1..Len(out) /\ tags[last].offset + k <= Len(out)
          BY <1>4, <1>12, <3>1, <4>2
        <5>2. out'[tags[last].offset + k] = out[tags[last].offset + k]
          BY <1>5, <5>1
        <5>3. out[tags[last].offset + k] = output_buffer[k]
          BY <1>12, <2>2, <2>4, <3>1, <5>1 DEF Burst
        <5> QED
          BY <5>2, <5>3
      <4> QED
        BY <4>1, <4>2
    <3> QED
      BY <1>1, <1>4, <1>12, <2>1, <2>4, <3>1, <3>2 DEF Burst
  <2> QED
    BY <1>4, <2>3, <2>4
<1> QED
  BY <1>9, <1>10, <1>11, <1>13, <1>14 DEF AInv

LEMMA WorkNextStep ==
  ASSUME AInv, NEW n \in Nat, workNext(n)
  PROVE  AInv'
<1> DEFINE last   == Len(tags)
           msg    == Head(outbox)
           buffer == SamplesOf(msg)
           tag    == [offset |-> Len(out), value |-> Len(buffer)]
<1>1. /\ output_buffer = << >> /\ outbox # << >>
      /\ Copy(buffer, 0, n)
      /\ tags' = Append(tags, tag)
      /\ begun' = Append(begun, msg) /\ outbox' = Tail(outbox)
      /\ UNCHANGED << preamble_len_bits, stream_tag, inbox, posted >>
  BY DEF workNext, afskConfig, SamplesOf
<1>2. TypesOK /\ TagsWritten /\ LastBurst /\ BurstsIntact
  BY DEF AInv
<1>3. /\ out \in Seq(Int) /\ tags \in Seq(Tag) /\ Len(tags) <= Len(begun)
      /\ inbox \in Seq(Messages) /\ outbox \in Seq(Messages) /\ begun \in Seq(Messages)
      /\ preamble_len_bits \in { PreamblePairs(ms) : ms \in PreambleMs }
  BY <1>2 DEF TypesOK, AfskTypeOK
<1>4. msg \in Messages /\ outbox' \in Seq(Messages)
  BY <1>1, <1>3, HeadTailProperties
<1>5. buffer \in Seq(Int)
  BY <1>3, <1>4, SamplesAreSeq
<1> HIDE DEF msg, buffer
<1>6. /\ Len(out) \in Nat /\ Len(buffer) \in Nat /\ Len(begun) \in Nat /\ last \in Nat
      /\ 0 \in 0..Len(buffer)
  BY <1>3, <1>5, LenProperties
<1>7. /\ out' \in Seq(Int) /\ Len(out) <= Len(out')
      /\ \A k \in 1..Len(out) : out'[k] = out[k]
  BY <1>1, <1>3, <1>5, <1>6, CopyStep
<1>8. \A k \in 1..Len(buffer) :
        0 < k /\ Len(out) + k - 0 <= Len(out') => out'[Len(out) + k - 0] = buffer[k]
  BY <1>1, <1>3, <1>5, <1>6, CopyStep
<1>9. /\ opb_idx' \in Nat
      /\ output_buffer' # << >> =>
           /\ output_buffer' = buffer /\ opb_idx' < Len(buffer)
           /\ Len(out') = Len(out) + opb_idx' - 0
      /\ output_buffer' = << >> => Len(out') >= Len(out) + Len(buffer) - 0
  BY <1>1, <1>3, <1>5, <1>6, CopyStep
<1>10. Len(out') \in Nat
  BY <1>7, LenProperties
<1>11. tag \in Tag /\ tag.offset = Len(out) /\ tag.value = Len(buffer)
  BY <1>6 DEF Tag
<1> HIDE DEF tag
<1>12. /\ tags' \in Seq(Tag) /\ Len(tags') = last + 1
       /\ \A i \in 1..last : tags'[i] = tags[i]
       /\ tags'[last + 1] = tag
  BY <1>1, <1>3, <1>11, AppendProperties
<1>13. /\ begun' \in Seq(Messages) /\ Len(begun') = Len(begun) + 1 /\ begun' # << >>
       /\ \A i \in 1..Len(begun) : begun'[i] = begun[i]
       /\ begun'[Len(begun) + 1] = msg
  <2> DEFINE longer == Append(begun, msg)
  <2>1. begun \in Seq(Messages) /\ msg \in Messages
    BY <1>3, <1>4
  <2>2. /\ longer \in Seq(Messages) /\ Len(longer) = Len(begun) + 1 /\ longer # << >>
        /\ \A i \in 1..Len(begun) : longer[i] = begun[i]
        /\ longer[Len(begun) + 1] = msg
    BY <2>1, AppendProperties
  <2> HIDE DEF longer
  <2>3. begun' = longer
    BY <1>1 DEF longer
  <2> QED
    BY <2>2, <2>3
<1>14. TypesOK'
  <2>1. output_buffer' \in Seq(Int)
    <3>1. output_buffer' = << >> \/ output_buffer' = buffer
      BY <1>9
    <3> QED
      BY <1>5, <3>1, EmptySeq
  <2>2. SamplesOf(begun[Len(begun)])' = buffer
    BY <1>1, <1>13 DEF SamplesOf, buffer
  <2>3. output_buffer' # << >> =>
          /\ begun' # << >> /\ output_buffer' = SamplesOf(begun[Len(begun)])'
          /\ opb_idx' < Len(output_buffer')
    BY <1>9, <1>13, <2>2
  <2>4. Len(tags') <= Len(begun')
    BY <1>3, <1>6, <1>12, <1>13
  <2>5. /\ preamble_len_bits' \in { PreamblePairs(ms) : ms \in PreambleMs }
        /\ stream_tag' \in StreamTags
        /\ inbox' \in Seq(Messages) /\ posted' \in Seq(Messages)
    BY <1>1, <1>2 DEF TypesOK, AfskTypeOK
  <2>6. AfskTypeOK'
    BY <1>4, <1>9, <1>13, <2>3, <2>4, <2>5 DEF AfskTypeOK
  <2> QED
    BY <1>7, <1>12, <2>1, <2>6 DEF TypesOK
<1>15. OrderKept'
  <2>1. Append(begun, msg) \o Tail(outbox) \o inbox = begun \o outbox \o inbox
    <3>1. outbox # << >>
      BY <1>1
    <3> QED
      BY <1>3, <3>1, SecondToFirst DEF msg
  <2>2. begun \o outbox \o inbox = posted
    BY DEF AInv, OrderKept
  <2> QED
    BY <1>1, <2>1, <2>2 DEF OrderKept
<1>16. \A i \in 1..Len(tags') : i \in 1..last \/ i = last + 1
  BY <1>6, <1>12
<1>17. TagsWritten'
  <2> SUFFICES ASSUME NEW i \in 1..Len(tags') PROVE tags'[i].offset <= Len(out')
    BY DEF TagsWritten
  <2>1. CASE i \in 1..last
    <3>1. tags[i].offset <= Len(out) /\ tags[i].offset \in Nat
      BY <1>2, <2>1, TagTypes DEF TagsWritten
    <3>2. tags'[i] = tags[i]
      BY <1>12, <2>1
    <3>3. tags[i].offset <= Len(out')
      BY <1>6, <1>7, <1>10, <3>1
    <3> QED
      BY <3>2, <3>3
  <2>2. CASE i = last + 1
    BY <1>7, <1>11, <1>12, <2>2
  <2> QED
    BY <1>16, <2>1, <2>2
<1>18. LastBurst'
  <2>1. tags'[Len(tags')] = tag
    BY <1>12
  <2>2. CASE output_buffer' = << >>
    <3>1. tag.offset + tag.value <= Len(out')
      BY <1>6, <1>9, <1>10, <1>11, <2>2
    <3> QED
      BY <2>1, <2>2, <3>1 DEF LastBurst
  <2>3. CASE output_buffer' # << >>
    <3>1. Len(out') = tag.offset + opb_idx'
      BY <1>6, <1>9, <1>11, <2>3
    <3> QED
      BY <2>1, <2>3, <3>1 DEF LastBurst
  <2> QED
    BY <2>2, <2>3
<1>19. BurstsIntact'
  <2> SUFFICES ASSUME NEW i \in 1..Len(tags') PROVE Burst(i)'
    BY BurstsAre
  <2>1. CASE i \in 1..last
    <3>1. Tagged(i)' = Tagged(i)
      <4>1. Len(begun') - Len(tags') + i = Len(begun) - Len(tags) + i
        BY <1>6, <1>12, <1>13, <2>1
      <4>2. Len(begun) - Len(tags) + i \in 1..Len(begun)
        BY <1>2, <2>1, TagTypes
      <4> QED
        BY <1>13, <4>1, <4>2 DEF Tagged
    <3>2. tags'[i] = tags[i]
      BY <1>12, <2>1
    <3>3. tags[i].offset + tags[i].value <= tags'[i + 1].offset
      <4>1. Burst(i)
        BY <1>2, <2>1, BurstsAre
      <4>2. CASE i < last
        <5>1. i + 1 \in 1..last
          BY <1>6, <2>1, <4>2
        <5>2. tags'[i + 1] = tags[i + 1]
          BY <1>12, <5>1
        <5> QED
          BY <4>1, <4>2, <5>2 DEF Burst
      <4>3. CASE i = last
        <5>1. tags'[i + 1].offset = Len(out)
          BY <1>11, <1>12, <4>3
        <5>2. tags[i].offset + Len(SamplesOf(Tagged(i))) <= Len(out)
          BY <1>1, <1>2, <2>1, Finished
        <5>3. tags[i].value = Len(SamplesOf(Tagged(i)))
          BY <4>1 DEF Burst
        <5> QED
          BY <5>1, <5>2, <5>3
      <4> QED
        BY <1>6, <2>1, <4>2, <4>3
    <3> QED
      BY <1>1, <1>2, <1>7, <2>1, <3>1, <3>2, <3>3, StillIntact
  <2>2. CASE i = last + 1
    <3>1. SamplesOf(Tagged(i))' = buffer
      <4>1. Len(begun') - Len(tags') + i = Len(begun) + 1
        BY <1>6, <1>12, <1>13, <2>2
      <4>2. Tagged(i)' = msg
        BY <1>13, <4>1 DEF Tagged
      <4> QED
        BY <1>1, <4>2 DEF SamplesOf, buffer
    <3>2. tags'[i].offset = Len(out) /\ tags'[i].value = Len(buffer)
      BY <1>11, <1>12, <2>2
    <3>3. \A k \in 1..Len(buffer) : Len(out) + k <= Len(out') => out'[Len(out) + k] = buffer[k]
      <4> TAKE k \in 1..Len(buffer)
      <4>1. 0 < k /\ Len(out) + k - 0 = Len(out) + k
        BY <1>6
      <4> QED
        BY <1>8, <4>1
    <3>4. ~(i < Len(tags'))
      BY <1>6, <1>12, <2>2
    <3> QED
      BY <3>1, <3>2, <3>3, <3>4 DEF Burst
  <2> QED
    BY <1>16, <2>1, <2>2
<1> QED
  BY <1>14, <1>15, <1>17, <1>18, <1>19 DEF AInv

LEMMA WorkIdleStep ==
  ASSUME AInv, NEW n \in Nat, workIdle(n)
  PROVE  AInv'
<1>1. /\ output_buffer = << >> /\ out' = out \o Silence(n)
      /\ UNCHANGED << preamble_len_bits, stream_tag, inbox, outbox, output_buffer, opb_idx, tags,
                      begun, posted >>
  BY DEF workIdle, afskConfig
<1>2. TypesOK /\ TagsWritten /\ LastBurst /\ BurstsIntact
  BY DEF AInv
<1>3. out \in Seq(Int) /\ Silence(n) \in Seq(Int)
  <2>1. Silence(n) \in [1..n -> Int]
    BY DEF Silence
  <2> QED
    BY <1>2, <2>1, SeqDef DEF TypesOK
<1>4. /\ out' \in Seq(Int) /\ Len(out') = Len(out) + Len(Silence(n))
      /\ \A k \in 1..Len(out) : out'[k] = out[k]
  BY <1>1, <1>3, Joined
<1>5. /\ Len(out) \in Nat /\ Len(out') \in Nat /\ Len(out) <= Len(out')
      /\ Len(tags) \in Nat
  BY <1>2, <1>3, <1>4, LenProperties DEF TypesOK
<1>6. TypesOK'
  BY <1>1, <1>2, <1>4 DEF TypesOK, AfskTypeOK, SamplesOf
<1>7. OrderKept'
  BY <1>1 DEF AInv, OrderKept
<1>8. TagsWritten'
  <2> SUFFICES ASSUME NEW i \in 1..Len(tags) PROVE tags[i].offset <= Len(out')
    BY <1>1 DEF TagsWritten
  <2>1. tags[i].offset <= Len(out) /\ tags[i].offset \in Nat
    BY <1>2, TagTypes DEF TagsWritten
  <2> QED
    BY <1>5, <2>1
<1>9. LastBurst'
  <2> SUFFICES ASSUME tags # << >>
               PROVE  tags[Len(tags)].offset + tags[Len(tags)].value <= Len(out')
    BY <1>1 DEF LastBurst
  <2>1. Len(tags) \in 1..Len(tags)
    BY <1>2, <1>5, EmptySeq DEF TypesOK
  <2>2. tags[Len(tags)].offset + tags[Len(tags)].value <= Len(out)
    BY <1>1, <1>2 DEF LastBurst
  <2>3. tags[Len(tags)].offset \in Nat /\ tags[Len(tags)].value \in Nat
    BY <1>2, <2>1, TagTypes
  <2> QED
    BY <1>5, <2>2, <2>3
<1>10. BurstsIntact'
  <2> SUFFICES ASSUME NEW i \in 1..Len(tags) PROVE Burst(i)'
    BY <1>1, BurstsAre
  <2>1. Tagged(i)' = Tagged(i)
    BY <1>1 DEF Tagged
  <2>2. Burst(i)
    BY <1>2, BurstsAre
  <2>3. i < Len(tags') => tags[i].offset + tags[i].value <= tags'[i + 1].offset
    BY <1>1, <2>2 DEF Burst
  <2> QED
    BY <1>1, <1>2, <1>4, <1>5, <2>1, <2>3, StillIntact
<1> QED
  BY <1>6, <1>7, <1>8, <1>9, <1>10 DEF AInv

LEMMA AfskInductive ==
  ASSUME AInv, [AfskNext]_afskVars
  PROVE  AInv'
<1>1. CASE \E msg \in Messages : Post(msg)
  BY <1>1, PostStep
<1>2. CASE handle_msg
  BY <1>2, HandleStep
<1>3. CASE work
  <2>1. PICK n \in OutSizes : workNext(n) \/ workOn(n) \/ workIdle(n)
    BY <1>3 DEF work
  <2>2. n \in Nat
    BY AfskBasicAssumption
  <2> QED
    BY <2>1, <2>2, WorkNextStep, WorkOnStep, WorkIdleStep
<1>4. CASE Restart
  BY <1>4, RestartStep
<1>5. CASE UNCHANGED afskVars
  <2>1. UNCHANGED << preamble_len_bits, stream_tag, inbox, outbox, output_buffer, opb_idx, out, tags,
                     begun, posted >>
    BY <1>5 DEF afskVars
  <2>2. TypesOK' /\ OrderKept'
    BY <2>1 DEF AInv, TypesOK, AfskTypeOK, SamplesOf, OrderKept
  <2> QED
    BY <2>1, <2>2, OutputKept DEF AInv
<1> QED
  BY <1>1, <1>2, <1>3, <1>4, <1>5 DEF AfskNext

\* The invariant of afsk_basic.
LEMMA AfskInvariant == AfskSpec => []AInv
<1>1. AfskInit => AInv
  BY AfskInitInv
<1>2. AInv /\ [AfskNext]_afskVars => AInv'
  BY AfskInductive
<1> QED
  BY <1>1, <1>2, PTL DEF AfskSpec

--------------------------------------------------------------------------------
\* AfskBasic: silence between the bursts.

\* What SilenceBetween says of one item.
Explained(k) ==
  \/ InBurst(k)
  \/ k <= Len(carried) /\ out[k] = carried[k]
  \/ k > Len(carried) /\ out[k] = 0 /\ stream_tag = ""

\* What a restart has found is written first.
CarriedFirst ==
  IF tags = << >> /\ output_buffer # << >>
    THEN /\ Len(out) + Len(output_buffer) = Len(carried) + opb_idx
         /\ \A k \in 1..Len(output_buffer) :
              opb_idx < k => carried[Len(out) + k - opb_idx] = output_buffer[k]
    ELSE Len(carried) <= Len(out)

SInv == carried \in Seq(Int) /\ CarriedFirst /\ SilenceBetween

\* An item that is written stays explained.
LEMMA StillExplained ==
  ASSUME SilenceBetween, UNCHANGED << carried, stream_tag >>,
         Len(tags) \in Nat, Len(tags') \in Nat, Len(tags) <= Len(tags'),
         \A i \in 1..Len(tags) : tags'[i] = tags[i],
         NEW k \in 1..Len(out), out'[k] = out[k]
  PROVE  Explained(k)'
<1>1. Explained(k)
  BY DEF SilenceBetween, Explained
<1>2. InBurst(k) => InBurst(k)'
  <2> SUFFICES ASSUME InBurst(k) PROVE InBurst(k)'
    OBVIOUS
  <2>1. PICK i \in 1..Len(tags) : k - tags[i].offset \in 1..tags[i].value
    BY DEF InBurst
  <2>2. i \in 1..Len(tags') /\ tags'[i] = tags[i]
    OBVIOUS
  <2> QED
    BY <2>1, <2>2 DEF InBurst
<1> QED
  BY <1>1, <1>2 DEF Explained

LEMMA WorkOnSilence ==
  ASSUME AInv, SInv, NEW n \in Nat, workOn(n)
  PROVE  SInv'
<1> DEFINE last == Len(tags)
           end  == Len(out) + Len(output_buffer) - opb_idx
<1>1. /\ output_buffer # << >> /\ Copy(output_buffer, opb_idx, n)
      /\ UNCHANGED << stream_tag, tags, carried >>
  BY DEF workOn, afskConfig
<1>2. /\ TypesOK /\ LastBurst /\ BurstsIntact
      /\ carried \in Seq(Int) /\ CarriedFirst /\ SilenceBetween
  BY DEF AInv, SInv
<1>3. /\ output_buffer \in Seq(Int) /\ out \in Seq(Int) /\ tags \in Seq(Tag)
      /\ opb_idx \in Nat /\ opb_idx < Len(output_buffer)
  BY <1>1, <1>2 DEF TypesOK, AfskTypeOK
<1>4. /\ Len(out) \in Nat /\ Len(output_buffer) \in Nat /\ last \in Nat
      /\ Len(carried) \in Nat
      /\ opb_idx \in 0..Len(output_buffer)
  BY <1>2, <1>3, LenProperties
<1>5. /\ out' \in Seq(Int) /\ Len(out) <= Len(out')
      /\ \A k \in 1..Len(out) : out'[k] = out[k]
  BY <1>1, <1>3, <1>4, CopyStep
<1>6. \A k \in 1..Len(output_buffer) :
        opb_idx < k /\ Len(out) + k - opb_idx <= Len(out') =>
          out'[Len(out) + k - opb_idx] = output_buffer[k]
  BY <1>1, <1>3, <1>4, CopyStep
<1>7. /\ opb_idx' \in Nat
      /\ output_buffer' # << >> =>
           /\ output_buffer' = output_buffer /\ opb_idx' < Len(output_buffer)
           /\ Len(out') = Len(out) + opb_idx' - opb_idx
      /\ output_buffer' = << >> => Len(out') >= Len(out) + Len(output_buffer) - opb_idx
  BY <1>1, <1>3, <1>4, CopyStep
<1>8. \A k \in 1..Len(out') : k > end => out'[k] = 0 /\ stream_tag = ""
  BY <1>1, <1>3, <1>4, CopyFills
<1>9. Len(out') \in Nat /\ end \in Nat
  BY <1>3, <1>4, <1>5, LenProperties
<1>10. CASE tags # << >>
  <2>1. Len(carried) <= Len(out)
    BY <1>2, <1>10 DEF CarriedFirst
  <2>2. /\ last \in 1..last /\ tags[last].offset \in Nat
        /\ Len(out) = tags[last].offset + opb_idx
        /\ tags[last].value = Len(output_buffer)
    BY <1>1, <1>2, <1>10, BeingCopied
  <2>3. CarriedFirst'
    <3>1. Len(carried) <= Len(out')
      BY <1>4, <1>5, <1>9, <2>1
    <3> QED
      BY <1>1, <1>10, <3>1 DEF CarriedFirst
  <2>4. ASSUME NEW k \in 1..Len(out'), k > Len(out), k <= end
        PROVE  Explained(k)'
    <3>1. k - tags[last].offset \in 1..tags[last].value
      <4> DEFINE start == tags[last].offset
      <4>1. /\ start \in Nat /\ Len(out) = start + opb_idx
            /\ tags[last].value = Len(output_buffer)
        BY <2>2
      <4>2. k \in Nat /\ k > Len(out) /\ k <= Len(out) + Len(output_buffer) - opb_idx
        BY <1>9, <2>4
      <4> HIDE DEF start
      <4>3. k - start \in 1..Len(output_buffer)
        BY <1>3, <1>4, <4>1, <4>2
      <4> QED
        BY <4>1, <4>3 DEF start
    <3> QED
      BY <1>1, <2>2, <3>1 DEF Explained, InBurst
  <2>5. ASSUME NEW k \in 1..Len(out'), k > end
        PROVE  Explained(k)'
    <3>1. k > Len(carried)
      BY <1>3, <1>4, <2>1, <2>5
    <3> QED
      BY <1>1, <1>8, <2>5, <3>1 DEF Explained
  <2>6. SilenceBetween'
    <3> SUFFICES ASSUME NEW k \in 1..Len(out') PROVE Explained(k)'
      BY DEF SilenceBetween, Explained
    <3>1. CASE k <= Len(out)
      <4>1. k \in 1..Len(out)
        BY <1>4, <3>1
      <4> QED
        BY <1>1, <1>2, <1>4, <1>5, <4>1, StillExplained
    <3> QED
      BY <1>4, <1>9, <2>4, <2>5, <3>1
  <2> QED
    BY <1>1, <1>2, <2>3, <2>6 DEF SInv
<1>11. CASE tags = << >>
  <2>1. /\ Len(out) + Len(output_buffer) = Len(carried) + opb_idx
        /\ \A k \in 1..Len(output_buffer) :
             opb_idx < k => carried[Len(out) + k - opb_idx] = output_buffer[k]
    BY <1>1, <1>2, <1>11 DEF CarriedFirst
  <2>2. Len(carried) = end
    BY <1>3, <1>4, <2>1
  <2>3. CarriedFirst'
    <3>1. CASE output_buffer' = << >>
      <4>1. Len(carried) <= Len(out')
        BY <1>7, <2>2, <3>1
      <4> QED
        BY <1>1, <3>1, <4>1 DEF CarriedFirst
    <3>2. CASE output_buffer' # << >>
      <4>1. /\ output_buffer' = output_buffer /\ opb_idx' \in Nat
            /\ Len(out') = Len(out) + opb_idx' - opb_idx
        BY <1>7, <3>2
      <4>2. Len(out') + Len(output_buffer) = Len(carried) + opb_idx'
        <5>1. Len(carried) = Len(out) + Len(output_buffer) - opb_idx
          BY <2>2
        <5>2. Len(out') = Len(out) + opb_idx' - opb_idx /\ opb_idx' \in Nat
          BY <4>1
        <5>3. /\ Len(out) \in Nat /\ Len(output_buffer) \in Nat /\ Len(carried) \in Nat
              /\ opb_idx \in Nat
          BY <1>3, <1>4
        <5> QED
          BY <5>1, <5>2, <5>3
      <4>3. ASSUME NEW k \in 1..Len(output_buffer), opb_idx' < k
            PROVE  carried[Len(out') + k - opb_idx'] = output_buffer[k]
        <5>1. opb_idx < k /\ Len(out') + k - opb_idx' = Len(out) + k - opb_idx
          BY <1>3, <1>4, <1>5, <4>1, <4>3
        <5> QED
          BY <2>1, <5>1
      <4> QED
        BY <1>1, <1>11, <3>2, <4>1, <4>2, <4>3 DEF CarriedFirst
    <3> QED
      BY <3>1, <3>2
  <2>4. ASSUME NEW k \in 1..Len(out'), k > Len(out), k <= end
        PROVE  Explained(k)'
    <3> DEFINE j == k - Len(out) + opb_idx
    <3>1. /\ j \in 1..Len(output_buffer) /\ opb_idx < j
          /\ Len(out) + j - opb_idx = k /\ k <= Len(out')
      BY <1>3, <1>4, <1>9, <2>4
    <3> HIDE DEF j
    <3>2. out'[k] = output_buffer[j] /\ carried[k] = output_buffer[j]
      BY <1>6, <2>1, <3>1
    <3> QED
      BY <1>1, <2>2, <2>4, <3>2 DEF Explained
  <2>5. ASSUME NEW k \in 1..Len(out'), k > end
        PROVE  Explained(k)'
    BY <1>1, <1>8, <2>2, <2>5 DEF Explained
  <2>6. SilenceBetween'
    <3> SUFFICES ASSUME NEW k \in 1..Len(out') PROVE Explained(k)'
      BY DEF SilenceBetween, Explained
    <3>1. CASE k <= Len(out)
      <4>1. k \in 1..Len(out)
        BY <1>4, <3>1
      <4> QED
        BY <1>1, <1>2, <1>4, <1>5, <4>1, StillExplained
    <3> QED
      BY <1>4, <1>9, <2>4, <2>5, <3>1
  <2> QED
    BY <1>1, <1>2, <2>3, <2>6 DEF SInv
<1> QED
  BY <1>10, <1>11

LEMMA WorkNextSilence ==
  ASSUME AInv, SInv, NEW n \in Nat, workNext(n)
  PROVE  SInv'
<1> DEFINE last   == Len(tags)
           msg    == Head(outbox)
           buffer == SamplesOf(msg)
           tag    == [offset |-> Len(out), value |-> Len(buffer)]
           end    == Len(out) + Len(buffer) - 0
<1>1. /\ output_buffer = << >> /\ outbox # << >>
      /\ Copy(buffer, 0, n)
      /\ tags' = Append(tags, tag)
      /\ UNCHANGED << stream_tag, carried >>
  BY DEF workNext, afskConfig, SamplesOf
<1>2. /\ out \in Seq(Int) /\ tags \in Seq(Tag) /\ outbox \in Seq(Messages)
      /\ preamble_len_bits \in { PreamblePairs(ms) : ms \in PreambleMs }
      /\ carried \in Seq(Int)
  BY DEF AInv, TypesOK, AfskTypeOK, SInv
<1>3. msg \in Messages
  BY <1>1, <1>2, HeadTailProperties
<1>4. buffer \in Seq(Int)
  BY <1>2, <1>3, SamplesAreSeq
<1> HIDE DEF msg, buffer
<1>5. /\ Len(out) \in Nat /\ Len(buffer) \in Nat /\ last \in Nat /\ Len(carried) \in Nat
      /\ 0 \in 0..Len(buffer)
  BY <1>2, <1>4, LenProperties
<1>6. /\ out' \in Seq(Int) /\ Len(out) <= Len(out')
      /\ \A k \in 1..Len(out) : out'[k] = out[k]
  BY <1>1, <1>2, <1>4, <1>5, CopyStep
<1>7. \A k \in 1..Len(out') : k > end => out'[k] = 0 /\ stream_tag = ""
  BY <1>1, <1>2, <1>4, <1>5, CopyFills
<1>8. Len(out') \in Nat /\ end \in Nat
  BY <1>5, <1>6, LenProperties
<1>9. tag \in Tag /\ tag.offset = Len(out) /\ tag.value = Len(buffer)
  BY <1>5 DEF Tag
<1> HIDE DEF tag
<1>10. /\ tags' \in Seq(Tag) /\ Len(tags') = last + 1 /\ tags' # << >>
       /\ \A i \in 1..last : tags'[i] = tags[i]
       /\ tags'[last + 1] = tag
  <2> DEFINE longer == Append(tags, tag)
  <2>1. tags \in Seq(Tag) /\ tag \in Tag
    BY <1>2, <1>9
  <2>2. /\ longer \in Seq(Tag) /\ Len(longer) = last + 1 /\ longer # << >>
        /\ \A i \in 1..last : longer[i] = tags[i]
        /\ longer[last + 1] = tag
    BY <2>1, AppendProperties
  <2> HIDE DEF longer
  <2>3. tags' = longer
    BY <1>1 DEF longer
  <2> QED
    BY <2>2, <2>3
<1>11. Len(carried) <= Len(out)
  BY <1>1 DEF SInv, CarriedFirst
<1>12. CarriedFirst'
  <2>1. Len(carried) <= Len(out')
    BY <1>5, <1>6, <1>8, <1>11
  <2> QED
    BY <1>1, <1>10, <2>1 DEF CarriedFirst
<1>13. ASSUME NEW k \in 1..Len(out'), k > Len(out), k <= end
       PROVE  Explained(k)'
  <2>1. k - tag.offset \in 1..tag.value
    BY <1>5, <1>9, <1>13
  <2>2. last + 1 \in 1..Len(tags')
    BY <1>5, <1>10
  <2> QED
    BY <1>10, <2>1, <2>2 DEF Explained, InBurst
<1>14. ASSUME NEW k \in 1..Len(out'), k > end
       PROVE  Explained(k)'
  <2>1. k > Len(carried)
    BY <1>5, <1>11, <1>14
  <2> QED
    BY <1>1, <1>7, <1>14, <2>1 DEF Explained
<1>15. SilenceBetween'
  <2> SUFFICES ASSUME NEW k \in 1..Len(out') PROVE Explained(k)'
    BY DEF SilenceBetween, Explained
  <2>1. CASE k <= Len(out)
    <3>1. k \in 1..Len(out) /\ out'[k] = out[k]
      BY <1>5, <1>6, <2>1
    <3>2. last \in Nat /\ Len(tags') \in Nat /\ last <= Len(tags')
      BY <1>5, <1>10
    <3>3. SilenceBetween
      BY DEF SInv
    <3> QED
      BY <1>1, <1>10, <3>1, <3>2, <3>3, StillExplained
  <2> QED
    BY <1>5, <1>8, <1>13, <1>14, <2>1
<1> QED
  BY <1>1, <1>2, <1>12, <1>15 DEF SInv

LEMMA WorkIdleSilence ==
  ASSUME AInv, SInv, NEW n \in Nat, workIdle(n)
  PROVE  SInv'
<1>1. /\ output_buffer = << >> /\ stream_tag = "" /\ out' = out \o Silence(n)
      /\ UNCHANGED << stream_tag, output_buffer, tags, carried >>
  BY DEF workIdle, afskConfig
<1>2. /\ out \in Seq(Int) /\ tags \in Seq(Tag) /\ carried \in Seq(Int) /\ SilenceBetween
      /\ Len(carried) <= Len(out)
  BY <1>1 DEF AInv, TypesOK, SInv, CarriedFirst
<1>3. /\ Silence(n) \in Seq(Int)
      /\ \A i \in 1..Len(Silence(n)) : Silence(n)[i] = 0
  <2>1. Silence(n) \in [1..n -> Int]
    BY DEF Silence
  <2>2. Silence(n) \in Seq(Int)
    BY <2>1, SeqDef
  <2>3. DOMAIN Silence(n) = 1..Len(Silence(n))
    BY <2>2, LenProperties
  <2>4. \A i \in DOMAIN Silence(n) : Silence(n)[i] = 0
    BY DEF Silence
  <2> QED
    BY <2>2, <2>3, <2>4
<1>4. /\ out' \in Seq(Int) /\ Len(out') = Len(out) + Len(Silence(n))
      /\ \A k \in 1..Len(out) : out'[k] = out[k]
      /\ \A k \in 1..Len(Silence(n)) : out'[Len(out) + k] = Silence(n)[k]
  <2> DEFINE longer == out \o Silence(n)
  <2>1. /\ longer \in Seq(Int) /\ Len(longer) = Len(out) + Len(Silence(n))
        /\ \A k \in 1..Len(out) : longer[k] = out[k]
        /\ \A k \in 1..Len(Silence(n)) : longer[Len(out) + k] = Silence(n)[k]
    <3>1. out \in Seq(Int) /\ Silence(n) \in Seq(Int)
      BY <1>2, <1>3
    <3> QED
      BY <3>1, Joined
  <2>2. out' = longer
    BY <1>1
  <2> HIDE DEF longer
  <2> QED
    BY <2>1, <2>2
<1>5. /\ Len(out) \in Nat /\ Len(Silence(n)) \in Nat /\ Len(tags) \in Nat
      /\ Len(carried) \in Nat /\ Len(out') \in Nat
  BY <1>2, <1>3, <1>4, LenProperties
<1>6. CarriedFirst'
  <2>1. Len(carried) <= Len(out')
    BY <1>2, <1>4, <1>5
  <2> QED
    BY <1>1, <2>1 DEF CarriedFirst
<1>7. SilenceBetween'
  <2> SUFFICES ASSUME NEW k \in 1..Len(out') PROVE Explained(k)'
    BY DEF SilenceBetween, Explained
  <2>1. CASE k <= Len(out)
    <3>1. k \in 1..Len(out) /\ out'[k] = out[k]
      BY <1>4, <1>5, <2>1
    <3>2. /\ Len(tags') \in Nat /\ Len(tags) <= Len(tags')
          /\ \A i \in 1..Len(tags) : tags'[i] = tags[i]
      <4>1. tags' = tags
        BY <1>1
      <4> QED
        BY <1>5, <4>1
    <3> QED
      BY <1>1, <1>2, <1>5, <3>1, <3>2, StillExplained
  <2>2. CASE k > Len(out)
    <3> DEFINE i == k - Len(out)
    <3>1. i \in 1..Len(Silence(n)) /\ Len(out) + i = k
      BY <1>4, <1>5, <2>2
    <3> HIDE DEF i
    <3>2. out'[k] = 0
      BY <1>3, <1>4, <3>1
    <3>3. k > Len(carried)
      BY <1>2, <1>5, <2>2
    <3> QED
      BY <1>1, <3>2, <3>3 DEF Explained
  <2> QED
    BY <1>5, <2>1, <2>2
<1> QED
  BY <1>1, <1>2, <1>6, <1>7 DEF SInv

LEMMA RestartSilence ==
  ASSUME AInv, SInv, Restart
  PROVE  SInv'
<1>1. /\ out' = << >> /\ tags' = << >>
      /\ carried' = SubSeq(output_buffer, opb_idx + 1, Len(output_buffer))
      /\ UNCHANGED << output_buffer, opb_idx >>
  BY DEF Restart
<1>2. /\ output_buffer \in Seq(Int) /\ opb_idx \in Nat
      /\ output_buffer # << >> => opb_idx < Len(output_buffer)
  BY DEF AInv, TypesOK, AfskTypeOK
<1>3. Len(output_buffer) \in Nat /\ Len(out') = 0
  BY <1>1, <1>2, LenProperties
<1>4. /\ carried' \in Seq(Int)
      /\ Len(carried') = IF opb_idx + 1 <= Len(output_buffer)
                           THEN Len(output_buffer) - (opb_idx + 1) + 1 ELSE 0
      /\ \A i \in 1..(Len(output_buffer) - (opb_idx + 1) + 1) :
           carried'[i] = output_buffer[opb_idx + 1 + i - 1]
  <2>1. opb_idx + 1 \in Int /\ Len(output_buffer) \in Int
    BY <1>2, <1>3
  <2>2. \A i \in (opb_idx + 1)..Len(output_buffer) : output_buffer[i] \in Int
    BY <1>2, <1>3, ElementOfSeq
  <2> QED
    BY <1>1, <2>1, <2>2, SubSeqProperties
<1>5. CarriedFirst'
  <2>1. CASE output_buffer = << >>
    <3>1. Len(carried') = 0
      BY <1>2, <1>3, <1>4, <2>1
    <3>2. Len(carried') <= Len(out')
      BY <1>3, <3>1
    <3>3. output_buffer' = << >>
      BY <1>1, <2>1
    <3> QED
      BY <3>2, <3>3 DEF CarriedFirst
  <2>2. CASE output_buffer # << >>
    <3>1. Len(out') + Len(output_buffer) = Len(carried') + opb_idx
      BY <1>2, <1>3, <1>4, <2>2
    <3>2. ASSUME NEW k \in 1..Len(output_buffer), opb_idx < k
          PROVE  carried'[Len(out') + k - opb_idx] = output_buffer[k]
      <4> DEFINE i == Len(out') + k - opb_idx
      <4>1. /\ i \in 1..(Len(output_buffer) - (opb_idx + 1) + 1)
            /\ opb_idx + 1 + i - 1 = k
        BY <1>2, <1>3, <3>2
      <4> HIDE DEF i
      <4>2. carried'[i] = output_buffer[k]
        BY <1>4, <4>1
      <4> QED
        BY <4>2 DEF i
    <3>3. output_buffer' = output_buffer /\ opb_idx' = opb_idx /\ tags' = << >>
      BY <1>1
    <3> QED
      BY <2>2, <3>1, <3>2, <3>3 DEF CarriedFirst
  <2> QED
    BY <2>1, <2>2
<1>6. SilenceBetween'
  <2>1. 1..Len(out') = {}
    BY <1>3
  <2> QED
    BY <2>1 DEF SilenceBetween
<1> QED
  BY <1>4, <1>5, <1>6 DEF SInv

LEMMA AfskInitSilent == AfskInit => SInv
<1> SUFFICES ASSUME AfskInit PROVE SInv
  OBVIOUS
<1>1. carried = << >> /\ out = << >> /\ output_buffer = << >>
  BY DEF AfskInit
<1>2. Len(carried) = 0 /\ Len(out) = 0 /\ carried \in Seq(Int)
  BY <1>1
<1> QED
  BY <1>1, <1>2 DEF SInv, CarriedFirst, SilenceBetween

LEMMA SilenceInductive ==
  ASSUME AInv, SInv, [AfskNext]_afskVars
  PROVE  SInv'
<1>1. CASE work
  <2>1. PICK n \in OutSizes : workNext(n) \/ workOn(n) \/ workIdle(n)
    BY <1>1 DEF work
  <2>2. n \in Nat
    BY AfskBasicAssumption
  <2> QED
    BY <2>1, <2>2, WorkNextSilence, WorkOnSilence, WorkIdleSilence
<1>2. CASE Restart
  BY <1>2, RestartSilence
<1>3. CASE (\E msg \in Messages : Post(msg)) \/ handle_msg \/ UNCHANGED afskVars
  <2>1. UNCHANGED << stream_tag, output_buffer, opb_idx, out, tags, carried >>
    BY <1>3 DEF Post, handle_msg, afskConfig, afskVars
  <2> QED
    BY <2>1 DEF SInv, CarriedFirst, SilenceBetween, InBurst
<1> QED
  BY <1>1, <1>2, <1>3 DEF AfskNext

--------------------------------------------------------------------------------
\* AfskBasic: theorems.

\* What is being copied is the message begun last, and something of it is left.
THEOREM AfskTypeCorrect == AfskSpec => []AfskTypeOK
<1>1. AInv => AfskTypeOK
  BY DEF AInv, TypesOK
<1> QED
  BY <1>1, AfskInvariant, PTL

\* Every message is sent once and in its turn, also over restarts.
THEOREM MessagesInOrder == AfskSpec => []OrderKept
<1>1. AInv => OrderKept
  BY DEF AInv
<1> QED
  BY <1>1, AfskInvariant, PTL

\* However the scheduler cuts a message into calls of work, its samples follow
\* its tag without a gap, as many as the tag says, and bursts do not overlap.
THEOREM BurstsStayIntact == AfskSpec => []BurstsIntact
<1>1. AInv => BurstsIntact
  BY DEF AInv
<1> QED
  BY <1>1, AfskInvariant, PTL

\* Between the bursts there is silence, or nothing if the stream is tagged, and
\* after a restart only the rest of the burst it has interrupted.
THEOREM SilenceElsewhere == AfskSpec => []SilenceBetween
<1>1. AfskInit => AInv /\ SInv
  BY AfskInitInv, AfskInitSilent
<1>2. (AInv /\ SInv) /\ [AfskNext]_afskVars => (AInv /\ SInv)'
  BY AfskInductive, SilenceInductive
<1>3. AInv /\ SInv => SilenceBetween
  BY DEF SInv
<1> QED
  BY <1>1, <1>2, <1>3, PTL DEF AfskSpec

--------------------------------------------------------------------------------
\* AfskBasicPdu.

PduTypes ==
  /\ pdu_preamble_len_bits \in Nat
  /\ pdu_posted \in Seq(Messages) /\ pdu_inbox \in Seq(Messages)
  /\ pdus \in Seq(Seq(Int))

\* What is not published yet is in the inbox.
PduOrder ==
  /\ Len(pdus) + Len(pdu_inbox) = Len(pdu_posted)
  /\ \A k \in 1..Len(pdu_inbox) : pdu_inbox[k] = pdu_posted[Len(pdus) + k]

PdusModulated ==
  \A k \in 1..Len(pdus) : pdus[k] = ax25_to_fsk(msg_bits(pdu_preamble_len_bits, pdu_posted[k]))

PInv == PduTypes /\ PduOrder /\ PdusModulated

LEMMA PduInitInv == PduInit => PInv
<1> SUFFICES ASSUME PduInit PROVE PInv
  OBVIOUS
<1>1. pdu_inbox = << >> /\ pdus = << >> /\ pdu_posted = << >>
  BY DEF PduInit
<1>2. pdu_preamble_len_bits \in Nat
  BY PairsNat, AfskBasicPduAssumption DEF PduInit
<1>3. PduTypes
  BY <1>1, <1>2 DEF PduTypes
<1>4. Len(pdus) = 0 /\ Len(pdu_inbox) = 0 /\ Len(pdu_posted) = 0
  BY <1>1
<1> QED
  BY <1>3, <1>4 DEF PInv, PduOrder, PdusModulated

LEMMA PostPduStep ==
  ASSUME PInv, NEW msg \in Messages, PostPdu(msg)
  PROVE  PInv'
<1> DEFINE n    == Len(pdus)
           wait == Len(pdu_inbox)
           all  == Len(pdu_posted)
<1>1. /\ pdu_inbox' = Append(pdu_inbox, msg)
      /\ pdu_posted' = Append(pdu_posted, msg)
      /\ UNCHANGED << pdu_preamble_len_bits, pdus >>
  BY DEF PostPdu
<1>2. /\ n \in Nat /\ wait \in Nat /\ all \in Nat /\ n + wait = all
      /\ \A k \in 1..wait : pdu_inbox[k] = pdu_posted[n + k]
      /\ pdu_posted \in Seq(Messages) /\ pdu_inbox \in Seq(Messages)
  BY LenProperties DEF PInv, PduTypes, PduOrder
<1>3. /\ pdu_inbox' \in Seq(Messages) /\ Len(pdu_inbox') = wait + 1
      /\ \A k \in 1..wait : pdu_inbox'[k] = pdu_inbox[k]
      /\ pdu_inbox'[wait + 1] = msg
  BY <1>1, <1>2, AppendProperties
<1>4. /\ pdu_posted' \in Seq(Messages) /\ Len(pdu_posted') = all + 1
      /\ \A k \in 1..all : pdu_posted'[k] = pdu_posted[k]
      /\ pdu_posted'[all + 1] = msg
  BY <1>1, <1>2, AppendProperties
<1>5. PduTypes'
  BY <1>1, <1>3, <1>4 DEF PInv, PduTypes
<1>6. Len(pdus') = n
  BY <1>1
<1> HIDE DEF n, wait, all
<1>7. PduOrder'
  <2>1. ASSUME NEW k \in 1..(wait + 1) PROVE pdu_inbox'[k] = pdu_posted'[n + k]
    <3>1. CASE k \in 1..wait
      BY <1>2, <1>3, <1>4, <3>1
    <3>2. CASE k = wait + 1
      <4>1. n + k = all + 1
        BY <1>2, <3>2
      <4> QED
        BY <1>3, <1>4, <3>2, <4>1
    <3> QED
      BY <1>2, <3>1, <3>2
  <2> QED
    BY <1>2, <1>3, <1>4, <1>6, <2>1 DEF PduOrder
<1>8. PdusModulated'
  <2>1. \A k \in 1..n : pdu_posted'[k] = pdu_posted[k]
    BY <1>2, <1>4
  <2>2. \A k \in 1..n : pdus[k] = ax25_to_fsk(msg_bits(pdu_preamble_len_bits, pdu_posted[k]))
    BY DEF PInv, PdusModulated, n
  <2> QED
    BY <1>1, <1>6, <2>1, <2>2 DEF PdusModulated
<1> QED
  BY <1>5, <1>7, <1>8 DEF PInv

LEMMA HandlePduStep ==
  ASSUME PInv, handle_pdu
  PROVE  PInv'
<1> DEFINE n    == Len(pdus)
           wait == Len(pdu_inbox)
           all  == Len(pdu_posted)
           msg  == Head(pdu_inbox)
           pdu  == ax25_to_fsk(msg_bits(pdu_preamble_len_bits, msg))
<1>1. /\ pdu_inbox # << >>
      /\ pdus' = Append(pdus, pdu)
      /\ pdu_inbox' = Tail(pdu_inbox)
      /\ UNCHANGED << pdu_preamble_len_bits, pdu_posted >>
  BY DEF handle_pdu
<1>2. /\ n \in Nat /\ wait \in Nat /\ all \in Nat /\ n + wait = all
      /\ \A k \in 1..wait : pdu_inbox[k] = pdu_posted[n + k]
      /\ pdu_inbox \in Seq(Messages) /\ pdus \in Seq(Seq(Int))
      /\ pdu_preamble_len_bits \in Nat
  BY LenProperties DEF PInv, PduTypes, PduOrder
<1>3. /\ pdu_inbox' \in Seq(Messages) /\ Len(pdu_inbox') = wait - 1 /\ wait >= 1
      /\ msg \in Messages /\ msg = pdu_inbox[1]
      /\ \A k \in 1..(wait - 1) : pdu_inbox'[k] = pdu_inbox[k + 1]
  <2>1. wait >= 1
    BY <1>1, <1>2, EmptySeq
  <2> QED
    BY <1>1, <1>2, <2>1, HeadTailProperties
<1>4. pdu \in Seq(Int)
  BY <1>2, <1>3, PreambleFirst, FskIsSeq
<1>5. pdu_posted[n + 1] = msg
  BY <1>2, <1>3
<1> HIDE DEF msg
<1>6. /\ pdus' \in Seq(Seq(Int)) /\ Len(pdus') = n + 1
      /\ \A k \in 1..n : pdus'[k] = pdus[k]
      /\ pdus'[n + 1] = pdu
  <2> HIDE DEF pdu
  <2> QED
    BY <1>1, <1>2, <1>4, AppendProperties
<1>7. PduTypes'
  BY <1>1, <1>3, <1>6 DEF PInv, PduTypes
<1> HIDE DEF n, wait, all, pdu
<1>8. PduOrder'
  <2>1. ASSUME NEW k \in 1..(wait - 1) PROVE pdu_inbox'[k] = pdu_posted[n + 1 + k]
    <3>1. k + 1 \in 1..wait /\ n + (k + 1) = n + 1 + k
      BY <1>2
    <3>2. pdu_inbox[k + 1] = pdu_posted[n + (k + 1)]
      BY <1>2, <3>1
    <3> QED
      BY <1>3, <3>1, <3>2
  <2>2. Len(pdu_posted') = all /\ n + 1 + (wait - 1) = all /\ pdu_posted' = pdu_posted
    BY <1>1, <1>2 DEF all
  <2> QED
    BY <1>3, <1>6, <2>1, <2>2 DEF PduOrder
<1>9. PdusModulated'
  <2>1. \A k \in 1..n : pdus[k] = ax25_to_fsk(msg_bits(pdu_preamble_len_bits, pdu_posted[k]))
    BY DEF PInv, PdusModulated, n
  <2>2. pdu = ax25_to_fsk(msg_bits(pdu_preamble_len_bits, pdu_posted[n + 1]))
    BY <1>5 DEF pdu
  <2>3. \A k \in 1..(n + 1) :
          pdus'[k] = ax25_to_fsk(msg_bits(pdu_preamble_len_bits, pdu_posted[k]))
    <3> TAKE k \in 1..(n + 1)
    <3>1. k \in 1..n \/ k = n + 1
      BY <1>2
    <3> QED
      BY <1>6, <2>1, <2>2, <3>1
  <2> QED
    BY <1>1, <1>6, <2>3 DEF PdusModulated
<1> QED
  BY <1>7, <1>8, <1>9 DEF PInv

LEMMA PduInductive == PInv /\ [PduNext]_pduVars => PInv'
<1> SUFFICES ASSUME PInv, [PduNext]_pduVars PROVE PInv'
  OBVIOUS
<1>1. CASE UNCHANGED pduVars
  BY <1>1 DEF PInv, PduTypes, PduOrder, PdusModulated, pduVars
<1> QED
  BY <1>1, PostPduStep, HandlePduStep DEF PduNext

\* What the bits of a message are to a receiver.
LEMMA PduIsHeard ==
  ASSUME PInv, NEW k \in 1..Len(pdus)
  PROVE  Heard(pdus[k]) = Keyed(pdu_preamble_len_bits, pdu_posted[k])
<1>1. PICK msg : msg = pdu_posted[k]
  OBVIOUS
<1>2. msg \in Messages
  <2>1. k \in 1..Len(pdu_posted) /\ pdu_posted \in Seq(Messages)
    BY LenProperties DEF PInv, PduTypes, PduOrder
  <2> QED
    BY <1>1, <2>1, ElementOfSeq
<1>3. pdus[k] = ax25_to_fsk(msg_bits(pdu_preamble_len_bits, msg))
  BY <1>1 DEF PInv, PdusModulated
<1>4. PICK bits : bits = msg_bits(pdu_preamble_len_bits, msg)
  OBVIOUS
<1>5. bits \in Seq(0..255)
  BY <1>2, <1>4, PreambleFirst DEF PInv, PduTypes
<1> QED
  BY <1>1, <1>3, <1>4, <1>5, HeardBits DEF Keyed

LEMMA PdusHeardFollows == PInv => PdusAreHeard
BY PduIsHeard DEF PInv, PduOrder, PdusAreHeard

LEMMA PduInvariant == PduSpec => []PInv
BY PduInitInv, PduInductive, PTL DEF PduSpec

\* Whatever arrives, a receiver of the pdus hears every message once and in its
\* turn, each with its preamble.
THEOREM PdusHeard == PduSpec => []PdusAreHeard
BY PduInvariant, PdusHeardFollows, PTL

--------------------------------------------------------------------------------
\* TxChain: the invariant.

\* What the modulator is handed for a packet.
Carried(packet) == IF unpacker THEN Unpack(packet) ELSE packet

\* PacketNumber of any history.
Packets(history, n) == Cardinality({ j \in 1..n : history[j] = "packet" })

ChainTypes ==
  /\ modulator \in { "afsk_basic", "afsk_basic_pdu" } /\ unpacker \in BOOLEAN
  /\ unpack_inbox \in Seq(Seq(Bytes))
  /\ origin \in Seq({ "packet", "telecommand" }) /\ Len(origin) = Len(Arrived)

\* The packets that did not go to the modulator yet wait for the unpacker.
PacketsQueued ==
  /\ Packets(origin, Len(origin)) + Len(unpack_inbox) = Len(out_pdus)
  /\ \A k \in 1..Len(unpack_inbox) :
       unpack_inbox[k] = out_pdus[Packets(origin, Len(origin)) + k]
  /\ ~unpacker => unpack_inbox = << >>

\* What arrived at the modulator as a packet is the next one that was published.
PacketsInTurn ==
  \A n \in 1..Len(origin) :
    origin[n] = "packet" =>
      /\ Packets(origin, n) \in 1..Len(out_pdus)
      /\ Arrived[n] = Carried(out_pdus[Packets(origin, n)])

CInv == ChainTypes /\ PacketsQueued /\ PacketsInTurn

LEMMA PacketsNat ==
  ASSUME NEW history, NEW n \in Nat
  PROVE  Packets(history, n) \in Nat
<1>1. IsFiniteSet(1..n)
  BY FS_Interval
<1> QED
  BY <1>1, FS_Subset, FS_CardinalityType DEF Packets

LEMMA PacketsCounted ==
  ASSUME NEW history, NEW n \in Nat, NEW next, next = n + 1
  PROVE  /\ Packets(history, n) \in Nat
         /\ history[next] = "packet" => Packets(history, next) = Packets(history, n) + 1
         /\ history[next] # "packet" => Packets(history, next) = Packets(history, n)
<1> DEFINE those == { j \in 1..n : history[j] = "packet" }
<1>1. IsFiniteSet(those) /\ Cardinality(those) \in Nat
  <2>1. IsFiniteSet(1..n)
    BY FS_Interval
  <2> QED
    BY <2>1, FS_Subset, FS_CardinalityType
<1>2. next \notin those
  OBVIOUS
<1>3. CASE history[next] = "packet"
  <2>1. { j \in 1..next : history[j] = "packet" } = those \cup {next}
    BY <1>3
  <2>2. Cardinality(those \cup {next}) = Cardinality(those) + 1
    BY <1>1, <1>2, FS_AddElement
  <2> QED
    BY <1>1, <1>3, <2>1, <2>2 DEF Packets
<1>4. CASE history[next] # "packet"
  <2>1. { j \in 1..next : history[j] = "packet" } = those
    BY <1>4
  <2> QED
    BY <1>1, <1>4, <2>1 DEF Packets
<1> QED
  BY <1>3, <1>4

LEMMA PacketsSame ==
  ASSUME NEW one, NEW other, NEW n, \A j \in 1..n : one[j] = other[j]
  PROVE  Packets(one, n) = Packets(other, n)
<1>1. { j \in 1..n : one[j] = "packet" } = { j \in 1..n : other[j] = "packet" }
  OBVIOUS
<1> QED
  BY <1>1 DEF Packets

LEMMA ArrivedTypes ==
  ASSUME AInv, PInv
  PROVE  Arrived \in Seq(Messages) /\ Len(Arrived) \in Nat
<1>1. posted \in Seq(Messages) /\ pdu_posted \in Seq(Messages)
  BY DEF AInv, TypesOK, AfskTypeOK, PInv, PduTypes
<1> QED
  BY <1>1, LenProperties DEF Arrived

\* A message goes to one modulator, and nothing happens to the other.
LEMMA ModulateStep ==
  ASSUME AInv, PInv, NEW msg \in Messages, NEW from, Modulate(msg, from), modulator' = modulator
  PROVE  /\ [AfskNext]_afskVars /\ [PduNext]_pduVars
         /\ Arrived' = Append(Arrived, msg) /\ origin' = Append(origin, from)
<1>1. CASE modulator = "afsk_basic" /\ Post(msg) /\ UNCHANGED pduVars
  <2>1. posted' = Append(posted, msg) /\ AfskNext
    BY <1>1 DEF Post, AfskNext
  <2> QED
    BY <1>1, <2>1 DEF Modulate, Arrived
<1>2. CASE modulator = "afsk_basic_pdu" /\ PostPdu(msg) /\ UNCHANGED afskVars
  <2>1. pdu_posted' = Append(pdu_posted, msg) /\ PduNext
    BY <1>2 DEF PostPdu, PduNext
  <2> QED
    BY <1>2, <2>1 DEF Modulate, Arrived
<1> QED
  BY <1>1, <1>2 DEF Modulate

\* Packets that are published do not change what the others are.
LEMMA InTurnStays ==
  ASSUME PacketsInTurn, UNCHANGED << unpacker, origin, Arrived >>,
         Len(out_pdus) \in Nat, Len(out_pdus') \in Nat, Len(out_pdus) <= Len(out_pdus'),
         \A k \in 1..Len(out_pdus) : out_pdus'[k] = out_pdus[k]
  PROVE  PacketsInTurn'
<1> SUFFICES ASSUME NEW n \in 1..Len(origin'), origin'[n] = "packet"
             PROVE  /\ Packets(origin', n) \in 1..Len(out_pdus')
                    /\ Arrived'[n] = Carried(out_pdus[Packets(origin, n)])'
  BY DEF PacketsInTurn, Packets
<1>1. PICK k : k = Packets(origin, n)
  OBVIOUS
<1>2. k \in 1..Len(out_pdus) /\ Arrived[n] = Carried(out_pdus[k])
  BY <1>1 DEF PacketsInTurn
<1>3. Packets(origin', n) = k /\ Packets(origin, n)' = k
  BY <1>1 DEF Packets
<1>4. k \in 1..Len(out_pdus') /\ out_pdus'[k] = out_pdus[k]
  BY <1>2
<1>5. Carried(out_pdus[k])' = Carried(out_pdus[k])
  BY <1>4 DEF Carried
<1>6. Carried(out_pdus[Packets(origin, n)])' = Carried(out_pdus[k])'
  BY <1>3 DEF Carried
<1> QED
  BY <1>2, <1>3, <1>4, <1>5, <1>6

\* One more message at the modulator: a packet has to be the next one.
LEMMA MessageArrives ==
  ASSUME CInv, Arrived \in Seq(Messages), NEW msg \in Messages,
         NEW from \in { "packet", "telecommand" },
         Arrived' = Append(Arrived, msg), origin' = Append(origin, from), unpacker' = unpacker,
         Len(out_pdus) \in Nat, Len(out_pdus') \in Nat, Len(out_pdus) <= Len(out_pdus'),
         \A k \in 1..Len(out_pdus) : out_pdus'[k] = out_pdus[k],
         NEW sent, sent = Packets(origin, Len(origin)),
         NEW next, next = sent + 1,
         from = "packet" => next \in 1..Len(out_pdus') /\ msg = Carried(out_pdus'[next])
  PROVE  /\ origin' \in Seq({ "packet", "telecommand" }) /\ Len(origin') = Len(Arrived')
         /\ sent \in Nat
         /\ Packets(origin', Len(origin')) = IF from = "packet" THEN next ELSE sent
         /\ PacketsInTurn'
<1>1. PICK n : n = Len(origin)
  OBVIOUS
<1>2. PICK last : last = n + 1
  OBVIOUS
<1>3. n \in Nat /\ origin \in Seq({ "packet", "telecommand" }) /\ Len(Arrived) = n
  BY <1>1, LenProperties DEF CInv, ChainTypes
<1>4. /\ origin' \in Seq({ "packet", "telecommand" }) /\ Len(origin') = last
      /\ \A j \in 1..n : origin'[j] = origin[j]
      /\ origin'[last] = from
  BY <1>1, <1>2, <1>3, AppendProperties
<1>5. /\ Len(Arrived') = last
      /\ \A j \in 1..n : Arrived'[j] = Arrived[j]
      /\ Arrived'[last] = msg
  <2>1. /\ Len(Append(Arrived, msg)) = n + 1
        /\ \A j \in 1..n : Append(Arrived, msg)[j] = Arrived[j]
        /\ Append(Arrived, msg)[n + 1] = msg
    BY <1>3, AppendProperties
  <2> QED
    BY <1>2, <2>1
<1>6. ASSUME NEW j \in 1..n PROVE Packets(origin', j) = Packets(origin, j)
  <2>1. \A i \in 1..j : origin'[i] = origin[i]
    <3> TAKE i \in 1..j
    <3>1. i \in 1..n
      BY <1>3
    <3> QED
      BY <1>4, <3>1
  <2> QED
    BY <2>1, PacketsSame
<1>7. Packets(origin', n) = sent
  BY <1>1, <1>4, PacketsSame
<1>8. sent \in Nat /\ Packets(origin', last) = IF from = "packet" THEN next ELSE sent
  <2>1. /\ Packets(origin', n) \in Nat
        /\ origin'[last] = "packet" => Packets(origin', last) = Packets(origin', n) + 1
        /\ origin'[last] # "packet" => Packets(origin', last) = Packets(origin', n)
    <3>1. PICK history : history = origin'
      OBVIOUS
    <3>2. /\ Packets(history, n) \in Nat
          /\ history[last] = "packet" => Packets(history, last) = Packets(history, n) + 1
          /\ history[last] # "packet" => Packets(history, last) = Packets(history, n)
      BY <1>2, <1>3, PacketsCounted
    <3> QED
      BY <3>1, <3>2
  <2> QED
    BY <1>4, <1>7, <2>1
<1>9. ASSUME NEW j \in 1..last, origin'[j] = "packet",
             NEW k, k = Packets(origin', j)
      PROVE  k \in 1..Len(out_pdus') /\ Arrived'[j] = Carried(out_pdus[k])'
  <2>1. CASE j = last
    <3>1. from = "packet" /\ k = next
      BY <1>4, <1>8, <1>9, <2>1
    <3>2. Carried(out_pdus[k])' = Carried(out_pdus'[next])
      BY <3>1 DEF Carried
    <3> QED
      BY <1>5, <2>1, <3>1, <3>2
  <2>2. CASE j # last
    <3>1. j \in 1..n
      BY <1>2, <1>3, <2>2
    <3>2. k = Packets(origin, j) /\ origin[j] = "packet"
      BY <1>4, <1>6, <1>9, <3>1
    <3>3. k \in 1..Len(out_pdus) /\ Arrived[j] = Carried(out_pdus[k])
      BY <1>1, <3>1, <3>2 DEF CInv, PacketsInTurn
    <3>4. k \in 1..Len(out_pdus') /\ out_pdus'[k] = out_pdus[k]
      BY <3>3
    <3>5. Carried(out_pdus[k])' = Carried(out_pdus[k])
      BY <3>4 DEF Carried
    <3> QED
      BY <1>5, <3>1, <3>3, <3>4, <3>5
  <2> QED
    BY <2>1, <2>2
<1>10. PacketsInTurn'
  <2> SUFFICES ASSUME NEW j \in 1..Len(origin'), origin'[j] = "packet"
               PROVE  /\ Packets(origin', j) \in 1..Len(out_pdus')
                      /\ Arrived'[j] = Carried(out_pdus[Packets(origin, j)])'
    BY DEF PacketsInTurn, Packets
  <2>1. PICK k : k = Packets(origin', j)
    OBVIOUS
  <2>2. Packets(origin, j)' = k
    BY <2>1 DEF Packets
  <2>3. Carried(out_pdus[Packets(origin, j)])' = Carried(out_pdus[k])'
    BY <2>2 DEF Carried
  <2> QED
    BY <1>4, <1>9, <2>1, <2>3
<1> QED
  BY <1>4, <1>5, <1>8, <1>10

LEMMA ArrivedStays ==
  ASSUME modulator' = modulator, posted' = posted, pdu_posted' = pdu_posted
  PROVE  Arrived' = Arrived
BY DEF Arrived

\* Nothing happens to the chain where no packet is published and no message sent.
LEMMA ChainStays ==
  ASSUME CInv, UNCHANGED << modulator, unpacker, unpack_inbox, origin, out_pdus, Arrived >>,
         out_pdus \in Seq(Seq(Bytes))
  PROVE  CInv'
<1> USE DEF CInv
<1>1. ChainTypes'
  <2>1. Len(origin') = Len(Arrived')
    BY DEF ChainTypes
  <2> QED
    BY <2>1 DEF ChainTypes
<1>2. PacketsQueued'
  BY DEF PacketsQueued, Packets
<1>3. PacketsInTurn'
  <2>1. Len(out_pdus) \in Nat
    BY LenProperties
  <2> QED
    BY <2>1, InTurnStays
<1> QED
  BY <1>1, <1>2, <1>3

\* At a trigger at most one packet is published.
LEMMA HandlerPublishes ==
  ASSUME BInv, BInv', packet_handler
  PROVE  \/ out_pdus' = out_pdus
         \/ /\ Len(out_pdus') = Len(out_pdus) + 1
            /\ \A k \in 1..Len(out_pdus) : out_pdus'[k] = out_pdus[k]
            /\ Last(out_pdus') = out_pdus'[Len(out_pdus) + 1]
            /\ Last(out_pdus') \in Seq(Bytes)
<1>1. out_pdus \in Seq(Seq(Bytes)) /\ out_pdus' \in Seq(Seq(Bytes)) /\ Len(out_pdus) \in Nat
  BY LenProperties DEF BInv, BuildTypes
<1>2. out_pdus' = out_pdus \/ \E pdu : out_pdus' = Append(out_pdus, pdu)
  BY DEF packet_handler, fromRandom, fromFile, transferReady, fromCmdLine, Publish
<1>3. ASSUME NEW pdu, out_pdus' = Append(out_pdus, pdu)
      PROVE  /\ Len(out_pdus') = Len(out_pdus) + 1
             /\ \A k \in 1..Len(out_pdus) : out_pdus'[k] = out_pdus[k]
  <2> DEFINE S == Seq(Bytes) \cup {pdu}
  <2>1. out_pdus \in Seq(S) /\ pdu \in S
    <3>1. \A k \in 1..Len(out_pdus) : out_pdus[k] \in S
      BY <1>1, ElementOfSeq
    <3>2. out_pdus = [k \in 1..Len(out_pdus) |-> out_pdus[k]]
      BY <1>1, LenProperties
    <3>3. out_pdus \in [1..Len(out_pdus) -> S]
      BY <3>1, <3>2
    <3> HIDE DEF S
    <3>4. out_pdus \in Seq(S)
      BY <1>1, <3>3, FunctionIsSeq
    <3> QED
      BY <3>4 DEF S
  <2> HIDE DEF S
  <2> QED
    BY <1>3, <2>1, AppendProperties
<1>4. CASE out_pdus' # out_pdus
  <2>1. /\ Len(out_pdus') = Len(out_pdus) + 1
        /\ \A k \in 1..Len(out_pdus) : out_pdus'[k] = out_pdus[k]
    BY <1>2, <1>3, <1>4
  <2>2. Last(out_pdus') = out_pdus'[Len(out_pdus) + 1]
    BY <2>1 DEF Last
  <2>3. Len(out_pdus) + 1 \in 1..Len(out_pdus')
    BY <1>1, <2>1
  <2>4. out_pdus'[Len(out_pdus) + 1] \in Seq(Bytes)
    BY <1>1, <2>3, ElementOfSeq
  <2> QED
    BY <2>1, <2>2, <2>4
<1> QED
  BY <1>4

LEMMA StrobeStep ==
  ASSUME CInv, BInv, BInv', AInv, PInv, Strobe
  PROVE  CInv' /\ [AfskNext]_afskVars /\ [PduNext]_pduVars
<1>1. packet_handler /\ UNCHANGED << modulator, unpacker >>
  BY DEF Strobe, chainConfig
<1>2. /\ out_pdus \in Seq(Seq(Bytes)) /\ out_pdus' \in Seq(Seq(Bytes))
      /\ Len(out_pdus) \in Nat /\ Len(out_pdus') \in Nat
  BY LenProperties DEF BInv, BuildTypes
<1>3. CASE out_pdus' = out_pdus /\ UNCHANGED << unpack_inbox, origin, afskVars, pduVars >>
  <2>1. UNCHANGED << modulator, unpacker, unpack_inbox, origin, out_pdus >>
    BY <1>1, <1>3
  <2>2. Arrived' = Arrived
    BY <1>1, <1>3, ArrivedStays DEF afskVars, pduVars
  <2>3. CInv'
    BY <1>2, <2>1, <2>2, ChainStays
  <2> QED
    BY <1>3, <2>3
<1>4. CASE Len(out_pdus') > Len(out_pdus) /\ Send(Last(out_pdus'))
  <2>1. PICK pdu : pdu = Last(out_pdus')
    OBVIOUS
  <2>2. PICK all : all = Len(out_pdus)
    OBVIOUS
  <2>3. PICK sent : sent = Packets(origin, Len(origin))
    OBVIOUS
  <2>4. /\ Len(out_pdus') = all + 1 /\ all \in Nat
        /\ \A k \in 1..all : out_pdus'[k] = out_pdus[k]
        /\ pdu = out_pdus'[all + 1] /\ pdu \in Seq(Bytes)
    <3>1. out_pdus' # out_pdus
      BY <1>2, <1>4
    <3> QED
      BY <1>1, <1>2, <2>1, <2>2, <3>1, HandlerPublishes
  <2>5. /\ unpack_inbox \in Seq(Seq(Bytes)) /\ Len(unpack_inbox) \in Nat
        /\ sent + Len(unpack_inbox) = all
        /\ \A k \in 1..Len(unpack_inbox) : unpack_inbox[k] = out_pdus[sent + k]
        /\ origin \in Seq({ "packet", "telecommand" }) /\ Len(origin) \in Nat
        /\ Len(origin) = Len(Arrived)
    BY <2>2, <2>3, LenProperties DEF CInv, ChainTypes, PacketsQueued
  <2>6. sent \in Nat
    BY <2>3, <2>5, PacketsNat
  <2>7. CASE unpacker /\ unpack_inbox' = Append(unpack_inbox, pdu)
               /\ UNCHANGED << origin, afskVars, pduVars >>
    <3>1. Arrived' = Arrived
      BY <1>1, <2>7, ArrivedStays DEF afskVars, pduVars
    <3>2. /\ unpack_inbox' \in Seq(Seq(Bytes)) /\ Len(unpack_inbox') = Len(unpack_inbox) + 1
          /\ \A k \in 1..Len(unpack_inbox) : unpack_inbox'[k] = unpack_inbox[k]
          /\ unpack_inbox'[Len(unpack_inbox) + 1] = pdu
      BY <2>4, <2>5, <2>7, AppendProperties
    <3>3. ChainTypes'
      BY <1>1, <2>7, <3>1, <3>2 DEF CInv, ChainTypes
    <3>4. PacketsInTurn'
      BY <1>1, <1>2, <2>2, <2>4, <2>7, <3>1, InTurnStays DEF CInv
    <3>5. ASSUME NEW k \in 1..(Len(unpack_inbox) + 1)
          PROVE  unpack_inbox'[k] = out_pdus'[sent + k]
      <4>1. CASE k \in 1..Len(unpack_inbox)
        <5>1. sent + k \in 1..all
          BY <2>5, <2>6, <4>1
        <5> QED
          BY <2>4, <2>5, <3>2, <4>1, <5>1
      <4>2. CASE k = Len(unpack_inbox) + 1
        <5>1. sent + k = all + 1
          BY <2>5, <2>6, <4>2
        <5> QED
          BY <2>4, <3>2, <4>2, <5>1
      <4> QED
        BY <2>5, <4>1, <4>2
    <3>6. PacketsQueued'
      <4>1. Packets(origin', Len(origin')) = sent
        BY <2>3, <2>7
      <4>2. sent + Len(unpack_inbox') = Len(out_pdus')
        BY <2>4, <2>5, <2>6, <3>2
      <4>3. \A k \in 1..Len(unpack_inbox') : unpack_inbox'[k] = out_pdus'[sent + k]
        BY <3>2, <3>5
      <4>4. unpacker'
        BY <1>1, <2>7
      <4> QED
        BY <4>1, <4>2, <4>3, <4>4 DEF PacketsQueued, Packets
    <3> QED
      BY <2>7, <3>3, <3>4, <3>6 DEF CInv
  <2>8. CASE ~unpacker /\ Modulate(pdu, "packet") /\ UNCHANGED unpack_inbox
    <3>1. pdu \in Messages
      BY <2>4 DEF Messages, Bytes
    <3>2. /\ [AfskNext]_afskVars /\ [PduNext]_pduVars
          /\ Arrived' = Append(Arrived, pdu) /\ origin' = Append(origin, "packet")
      BY <1>1, <2>8, <3>1, ModulateStep
    <3>3. unpack_inbox = << >> /\ Len(unpack_inbox) = 0 /\ sent = all
      BY <2>5, <2>6, <2>8 DEF CInv, PacketsQueued
    <3>4. PICK next : next = sent + 1
      OBVIOUS
    <3>5. next \in 1..Len(out_pdus') /\ pdu = Carried(out_pdus'[next])
      BY <2>4, <2>8, <3>3, <3>4 DEF Carried
    <3>6. /\ origin' \in Seq({ "packet", "telecommand" }) /\ Len(origin') = Len(Arrived')
          /\ Packets(origin', Len(origin')) = next
          /\ PacketsInTurn'
      <4>1. Arrived \in Seq(Messages)
        BY ArrivedTypes
      <4>2. Len(out_pdus) <= Len(out_pdus') /\ \A k \in 1..Len(out_pdus) : out_pdus'[k] = out_pdus[k]
        BY <2>2, <2>4
      <4>3. "packet" \in { "packet", "telecommand" } /\ unpacker' = unpacker
        BY <1>1
      <4> QED
        BY <1>2, <2>3, <3>1, <3>2, <3>4, <3>5, <4>1, <4>2, <4>3, MessageArrives
    <3>7. ChainTypes'
      BY <1>1, <2>8, <3>6 DEF CInv, ChainTypes
    <3>8. PacketsQueued'
      <4>1. unpack_inbox' = << >> /\ Len(unpack_inbox') = 0
        BY <2>8, <3>3
      <4>2. next + 0 = Len(out_pdus')
        BY <2>4, <3>3, <3>4
      <4> QED
        BY <3>6, <4>1, <4>2 DEF PacketsQueued, Packets
    <3> QED
      BY <3>2, <3>6, <3>7, <3>8 DEF CInv
  <2> QED
    BY <1>4, <2>1, <2>7, <2>8 DEF Send
<1> QED
  BY <1>3, <1>4 DEF Strobe

LEMMA UnpackStep ==
  ASSUME CInv, BInv, AInv, PInv, packed_to_unpacked
  PROVE  CInv' /\ [BuildNext]_buildVars /\ [AfskNext]_afskVars /\ [PduNext]_pduVars
<1> DEFINE waiting == Len(unpack_inbox)
<1>1. /\ unpack_inbox # << >> /\ unpack_inbox' = Tail(unpack_inbox)
      /\ Modulate(Unpack(Head(unpack_inbox)), "packet")
      /\ UNCHANGED << modulator, unpacker, buildVars >>
  BY DEF packed_to_unpacked, chainConfig
<1>2. PICK pdu : pdu = Head(unpack_inbox)
  OBVIOUS
<1>3. PICK sent : sent = Packets(origin, Len(origin))
  OBVIOUS
<1>4. PICK next : next = sent + 1
  OBVIOUS
<1>5. /\ unpack_inbox \in Seq(Seq(Bytes)) /\ waiting \in Nat /\ sent \in Nat
      /\ sent + waiting = Len(out_pdus)
      /\ \A k \in 1..waiting : unpack_inbox[k] = out_pdus[sent + k]
      /\ unpacker = TRUE
  <2>1. Len(origin) \in Nat
    BY LenProperties DEF CInv, ChainTypes
  <2>2. unpacker = TRUE
    BY <1>1 DEF CInv, ChainTypes, PacketsQueued
  <2> QED
    BY <1>3, <2>1, <2>2, LenProperties, PacketsNat DEF CInv, ChainTypes, PacketsQueued
<1>6. /\ unpack_inbox' \in Seq(Seq(Bytes)) /\ Len(unpack_inbox') = waiting - 1 /\ waiting >= 1
      /\ pdu \in Seq(Bytes) /\ pdu = unpack_inbox[1]
      /\ \A k \in 1..(waiting - 1) : unpack_inbox'[k] = unpack_inbox[k + 1]
  <2>1. waiting >= 1
    BY <1>1, <1>5, EmptySeq
  <2> QED
    BY <1>1, <1>2, <1>5, <2>1, HeadTailProperties
<1>7. PICK msg : msg = Unpack(pdu)
  OBVIOUS
<1>8. msg \in Messages
  BY <1>6, <1>7, UnpackIsSeq, BitsAreBytes
<1>9. /\ [AfskNext]_afskVars /\ [PduNext]_pduVars
      /\ Arrived' = Append(Arrived, msg) /\ origin' = Append(origin, "packet")
  BY <1>1, <1>2, <1>7, <1>8, ModulateStep
<1>10. out_pdus' = out_pdus /\ Len(out_pdus) \in Nat
  BY <1>1, LenProperties DEF buildVars, BInv, BuildTypes
<1> HIDE DEF waiting
<1>11. next \in 1..Len(out_pdus') /\ msg = Carried(out_pdus'[next])
  <2>1. next \in 1..Len(out_pdus)
    BY <1>4, <1>5, <1>6, <1>10
  <2>2. 1 \in 1..waiting
    BY <1>5, <1>6
  <2>3. out_pdus[next] = pdu
    BY <1>4, <1>5, <1>6, <2>2
  <2> QED
    BY <1>5, <1>7, <1>10, <2>1, <2>3 DEF Carried
<1>12. /\ origin' \in Seq({ "packet", "telecommand" }) /\ Len(origin') = Len(Arrived')
       /\ Packets(origin', Len(origin')) = next
       /\ PacketsInTurn'
  <2>1. Arrived \in Seq(Messages)
    BY ArrivedTypes
  <2>2. /\ Len(out_pdus') \in Nat /\ Len(out_pdus) <= Len(out_pdus')
        /\ \A k \in 1..Len(out_pdus) : out_pdus'[k] = out_pdus[k]
    BY <1>10
  <2>3. "packet" \in { "packet", "telecommand" } /\ unpacker' = unpacker
    BY <1>1
  <2> QED
    BY <1>3, <1>4, <1>8, <1>9, <1>10, <1>11, <2>1, <2>2, <2>3, MessageArrives
<1>13. ChainTypes'
  BY <1>1, <1>6, <1>12 DEF CInv, ChainTypes
<1>14. PacketsQueued'
  <2>1. next + Len(unpack_inbox') = Len(out_pdus')
    <3>1. next + (waiting - 1) = sent + waiting
      BY <1>4, <1>5
    <3> QED
      BY <1>5, <1>6, <1>10, <3>1
  <2>2. ASSUME NEW k \in 1..(waiting - 1) PROVE unpack_inbox'[k] = out_pdus'[next + k]
    <3>1. k + 1 \in 1..waiting /\ sent + (k + 1) = next + k
      BY <1>4, <1>5
    <3> QED
      BY <1>5, <1>6, <1>10, <3>1
  <2>3. unpacker'
    BY <1>1, <1>5
  <2> QED
    BY <1>6, <1>12, <2>1, <2>2, <2>3 DEF PacketsQueued, Packets
<1> QED
  BY <1>1, <1>9, <1>12, <1>13, <1>14 DEF CInv

LEMMA TelecommandStep ==
  ASSUME CInv, BInv, AInv, PInv, Telecommand
  PROVE  CInv' /\ [BuildNext]_buildVars /\ [AfskNext]_afskVars /\ [PduNext]_pduVars
<1>1. PICK msg \in Telecommands : Modulate(msg, "telecommand")
  BY DEF Telecommand
<1>2. UNCHANGED << modulator, unpacker, unpack_inbox, buildVars >>
  BY DEF Telecommand, chainConfig
<1>3. msg \in Messages
  BY TxChainAssumption
<1>4. /\ [AfskNext]_afskVars /\ [PduNext]_pduVars
      /\ Arrived' = Append(Arrived, msg) /\ origin' = Append(origin, "telecommand")
  BY <1>1, <1>2, <1>3, ModulateStep
<1>5. out_pdus' = out_pdus /\ Len(out_pdus) \in Nat
  BY <1>2, LenProperties DEF buildVars, BInv, BuildTypes
<1>6. PICK sent : sent = Packets(origin, Len(origin))
  OBVIOUS
<1>7. /\ origin' \in Seq({ "packet", "telecommand" }) /\ Len(origin') = Len(Arrived')
      /\ Packets(origin', Len(origin')) = sent
      /\ PacketsInTurn'
  <2>1. Arrived \in Seq(Messages)
    BY ArrivedTypes
  <2>2. /\ Len(out_pdus') \in Nat /\ Len(out_pdus) <= Len(out_pdus')
        /\ \A k \in 1..Len(out_pdus) : out_pdus'[k] = out_pdus[k]
    BY <1>5
  <2>3. /\ "telecommand" \in { "packet", "telecommand" } /\ "telecommand" # "packet"
        /\ unpacker' = unpacker
    BY <1>2
  <2>4. PICK next : next = sent + 1
    OBVIOUS
  <2> QED
    BY <1>3, <1>4, <1>5, <1>6, <2>1, <2>2, <2>3, <2>4, MessageArrives
<1>8. ChainTypes'
  BY <1>2, <1>7 DEF CInv, ChainTypes
<1>9. PacketsQueued'
  <2>1. /\ sent + Len(unpack_inbox') = Len(out_pdus')
        /\ \A k \in 1..Len(unpack_inbox') : unpack_inbox'[k] = out_pdus'[sent + k]
        /\ ~unpacker' => unpack_inbox' = << >>
    BY <1>2, <1>5, <1>6 DEF CInv, PacketsQueued
  <2> QED
    BY <1>7, <2>1 DEF PacketsQueued, Packets
<1> QED
  BY <1>2, <1>4, <1>7, <1>8, <1>9 DEF CInv

\* The steps of one block at either end of the chain.
LEMMA OwnSteps ==
  ASSUME CInv, BInv, AInv, PInv,
         FileStep \/ AfskStep \/ PduStep \/ RestartFlowgraph \/ UNCHANGED vars
  PROVE  CInv' /\ [BuildNext]_buildVars /\ [AfskNext]_afskVars /\ [PduNext]_pduVars
<1>1. UNCHANGED << modulator, unpacker, unpack_inbox, origin >>
  BY DEF FileStep, AfskStep, PduStep, RestartFlowgraph, vars, chainConfig
<1>2. out_pdus' = out_pdus /\ [BuildNext]_buildVars
  <2>1. CASE FileStep
    BY <2>1 DEF FileStep, FileChanges, Grow, Cut, BuildNext
  <2>2. CASE AfskStep \/ PduStep \/ RestartFlowgraph \/ UNCHANGED vars
    BY <2>2 DEF AfskStep, PduStep, RestartFlowgraph, vars, buildVars
  <2> QED
    BY <2>1, <2>2
<1>3. posted' = posted /\ [AfskNext]_afskVars
  <2>1. CASE AfskStep
    BY <2>1 DEF AfskStep, AfskNext, handle_msg, work, workNext, workOn, workIdle
  <2>2. CASE RestartFlowgraph
    BY <2>2 DEF RestartFlowgraph, AfskNext, Restart
  <2>3. CASE FileStep \/ PduStep \/ UNCHANGED vars
    BY <2>3 DEF FileStep, PduStep, vars, afskVars
  <2> QED
    BY <2>1, <2>2, <2>3
<1>4. pdu_posted' = pdu_posted /\ [PduNext]_pduVars
  <2>1. CASE PduStep
    BY <2>1 DEF PduStep, PduNext, handle_pdu
  <2>2. CASE FileStep \/ AfskStep \/ RestartFlowgraph \/ UNCHANGED vars
    BY <2>2 DEF FileStep, AfskStep, RestartFlowgraph, vars, pduVars
  <2> QED
    BY <2>1, <2>2
<1>5. Arrived' = Arrived
  BY <1>1, <1>3, <1>4, ArrivedStays
<1>6. out_pdus \in Seq(Seq(Bytes))
  BY DEF BInv, BuildTypes
<1>7. CInv'
  BY <1>1, <1>2, <1>5, <1>6, ChainStays
<1> QED
  BY <1>2, <1>3, <1>4, <1>7

\* Everything together.
TInv == BInv /\ AInv /\ SInv /\ PInv /\ CInv

LEMMA ChainInit == Init => TInv
<1> SUFFICES ASSUME Init PROVE TInv
  OBVIOUS
<1>1. BInv /\ AInv /\ PInv
  BY BuildInitInv, AfskInitInv, PduInitInv DEF Init
<1>2. SInv
  BY AfskInitSilent DEF Init
<1>3. /\ modulator \in { "afsk_basic", "afsk_basic_pdu" } /\ unpacker \in BOOLEAN
      /\ unpack_inbox = << >> /\ origin = << >> /\ out_pdus = << >>
      /\ posted = << >> /\ pdu_posted = << >>
  BY DEF Init, BuildInit, AfskInit, PduInit
<1>4. /\ unpack_inbox \in Seq(Seq(Bytes)) /\ origin \in Seq({ "packet", "telecommand" })
      /\ Len(unpack_inbox) = 0 /\ Len(origin) = 0 /\ Len(out_pdus) = 0
      /\ Len(Arrived) = 0
  BY <1>3 DEF Arrived
<1>5. Packets(origin, 0) = 0
  <2>1. { j \in 1..0 : origin[j] = "packet" } = {}
    OBVIOUS
  <2> QED
    BY <2>1, FS_EmptySet DEF Packets
<1>6. CInv
  BY <1>3, <1>4, <1>5 DEF CInv, ChainTypes, PacketsQueued, PacketsInTurn
<1> QED
  BY <1>1, <1>2, <1>6 DEF TInv

LEMMA ChainStep ==
  ASSUME Crc32IsFourBytes
  PROVE  TInv /\ [Next]_vars =>
           TInv' /\ [BuildNext]_buildVars /\ [AfskNext]_afskVars /\ [PduNext]_pduVars
<1> SUFFICES ASSUME TInv, [Next]_vars
             PROVE  TInv' /\ [BuildNext]_buildVars /\ [AfskNext]_afskVars /\ [PduNext]_pduVars
  OBVIOUS
<1> USE DEF TInv
<1>1. CInv' /\ [BuildNext]_buildVars /\ [AfskNext]_afskVars /\ [PduNext]_pduVars
  <2>1. CASE Strobe
    <3>1. [BuildNext]_buildVars
      BY <2>1 DEF Strobe, BuildNext
    <3>2. BInv'
      BY <3>1, BuildInductive
    <3> QED
      BY <2>1, <3>1, <3>2, StrobeStep
  <2> QED
    BY <2>1, UnpackStep, TelecommandStep, OwnSteps DEF Next
<1>2. BInv' /\ AInv' /\ SInv' /\ PInv'
  BY <1>1, BuildInductive, AfskInductive, SilenceInductive, PduInductive
<1> QED
  BY <1>1, <1>2

\* The invariants of the blocks hold in every transmitter.
LEMMA ChainInvariant ==
  ASSUME Crc32IsFourBytes
  PROVE  Spec => []TInv
<1>1. TInv /\ [Next]_vars => TInv'
  BY ChainStep
<1> QED
  BY <1>1, ChainInit, PTL DEF Spec

--------------------------------------------------------------------------------
\* From end to end.

\* A receiver of the samples of a message of bits gets the message behind the
\* preamble.
LEMMA MessageIsHeard ==
  ASSUME NEW pairs \in Nat, NEW msg \in Seq(0..1),
         NEW bits, bits = Heard(ax25_to_fsk(msg_bits(pairs, msg)))
  PROVE  SubSeq(bits, 2 * pairs + 1, Len(bits)) = msg
<1>1. PICK sent : sent = msg_bits(pairs, msg)
  OBVIOUS
<1>2. PICK n : n = 2 * pairs
  OBVIOUS
<1>3. PICK size : size = Len(msg)
  OBVIOUS
<1>4. n \in Nat /\ size \in Nat
  BY <1>2, <1>3, LenProperties
<1>5. /\ sent \in Seq(0..255) /\ Len(sent) = n + size
      /\ \A k \in 1..size : sent[n + k] = msg[k]
  BY <1>1, <1>2, <1>3, BitsAreBytes, PreambleFirst
<1>6. bits = [i \in 1..(n + size) |-> IF sent[i] = 1 THEN 1 ELSE 0]
  <2>1. bits = [i \in 1..Len(sent) |-> IF sent[i] = 1 THEN 1 ELSE 0]
    BY <1>1, <1>5, HeardBits
  <2> QED
    BY <1>5, <2>1
<1>7. Len(bits) = n + size
  <2>1. bits \in [1..(n + size) -> 0..1] /\ n + size \in Nat
    BY <1>4, <1>6
  <2> QED
    BY <2>1, FunctionIsSeq
<1>8. ASSUME NEW k \in 1..size PROVE bits[n + k] = msg[k]
  <2>1. n + k \in 1..(n + size)
    BY <1>4
  <2>2. bits[n + k] = IF sent[n + k] = 1 THEN 1 ELSE 0
    BY <1>6, <2>1
  <2>3. sent[n + k] = msg[k]
    BY <1>5
  <2>4. msg[k] \in 0..1
    BY <1>3, ElementOfSeq
  <2> QED
    BY <2>2, <2>3, <2>4
<1>9. \A k \in 1..Len(msg) : msg[k] = bits[n + 1 + k - 1]
  <2> TAKE k \in 1..Len(msg)
  <2>1. n + 1 + k - 1 = n + k
    BY <1>4
  <2> QED
    BY <1>3, <1>8, <2>1
<1>10. n + 1 \in Int /\ n + size \in Int /\ Len(msg) = (n + size) - (n + 1) + 1
  BY <1>3, <1>4
<1>11. SubSeq(bits, n + 1, n + size) = msg
  <2> DEFINE first == n + 1
             last  == n + size
  <2>1. first \in Int /\ last \in Int /\ Len(msg) = last - first + 1
    BY <1>10
  <2>2. \A k \in 1..Len(msg) : msg[k] = bits[first + k - 1]
    BY <1>9
  <2> HIDE DEF first, last
  <2>3. SubSeq(bits, first, last) = msg
    BY <2>1, <2>2, PartIs
  <2> QED
    BY <2>3 DEF first, last
<1> QED
  BY <1>2, <1>7, <1>11

\* The messages are begun in the order of their arrival.
LEMMA BegunInOrder ==
  ASSUME AInv, NEW n \in 1..Len(begun)
  PROVE  begun[n] = posted[n]
<1>1. /\ begun \in Seq(Messages) /\ outbox \in Seq(Messages) /\ inbox \in Seq(Messages)
      /\ posted = begun \o outbox \o inbox
  BY DEF AInv, TypesOK, AfskTypeOK, OrderKept
<1>2. PICK front : front = begun \o outbox
  OBVIOUS
<1>3. /\ front \in Seq(Messages) /\ Len(front) = Len(begun) + Len(outbox)
      /\ \A k \in 1..Len(begun) : front[k] = begun[k]
  BY <1>1, <1>2, Joined
<1>4. posted = front \o inbox /\ \A k \in 1..Len(front) : (front \o inbox)[k] = front[k]
  BY <1>1, <1>2, <1>3, Joined
<1>5. n \in 1..Len(front)
  BY <1>1, <1>3, LenProperties
<1> QED
  BY <1>3, <1>4, <1>5

\* What is on the air of a message are its samples, from the first to the last.
LEMMA SamplesAreMessage ==
  ASSUME TInv, NEW n \in 1..Len(Arrived), IsOnAir(n),
         NEW pairs, pairs = IF modulator = "afsk_basic" THEN preamble_len_bits ELSE pdu_preamble_len_bits
  PROVE  /\ pairs \in Nat
         /\ SamplesOnAir(n) = ax25_to_fsk(msg_bits(pairs, Arrived[n]))
<1> USE DEF TInv
<1>1. CASE modulator = "afsk_basic"
  <2>1. PICK i : i = TagOf(n)
    OBVIOUS
  <2>2. i \in 1..Len(tags) /\ tags[i].offset + tags[i].value <= Len(out)
    BY <1>1, <2>1 DEF IsOnAir
  <2>3. /\ tags[i].offset \in Nat /\ tags[i].value \in Nat
        /\ Len(begun) - Len(tags) + i \in 1..Len(begun)
        /\ SamplesOf(Tagged(i)) \in Seq(Int)
    BY <2>2, TagTypes DEF AInv
  <2>4. Len(begun) \in Nat /\ Len(tags) \in Nat
    BY LenProperties DEF AInv, TypesOK, AfskTypeOK
  <2>5. Len(begun) - Len(tags) + i = n
    BY <2>1, <2>2, <2>4 DEF TagOf
  <2>6. Tagged(i) = posted[n]
    <3>1. begun[n] = posted[n]
      BY <2>3, <2>5, BegunInOrder
    <3> QED
      BY <2>5, <3>1 DEF Tagged
  <2>7. PICK samples : samples = SamplesOf(Tagged(i))
    OBVIOUS
  <2>8. PICK start : start = tags[i].offset
    OBVIOUS
  <2>9. /\ samples \in Seq(Int) /\ start \in Nat /\ Len(samples) \in Nat /\ Len(out) \in Nat
        /\ tags[i].value = Len(samples) /\ start + Len(samples) <= Len(out)
        /\ \A k \in 1..Len(samples) : start + k <= Len(out) => out[start + k] = samples[k]
    <3>1. Burst(i)
      BY <2>2, BurstsAre DEF AInv
    <3>2. tags[i].value = Len(samples)
      BY <2>7, <3>1 DEF Burst
    <3>3. start + Len(samples) <= Len(out)
      BY <2>2, <2>8, <3>2
    <3>4. \A k \in 1..Len(samples) : start + k <= Len(out) => out[start + k] = samples[k]
      BY <2>7, <2>8, <3>1 DEF Burst
    <3> QED
      BY <2>3, <2>7, <2>8, <3>2, <3>3, <3>4, LenProperties DEF AInv, TypesOK
  <2>10. PICK first : first = start + 1
    OBVIOUS
  <2>11. PICK last : last = start + Len(samples)
    OBVIOUS
  <2>12. /\ first \in Int /\ last \in Int /\ Len(samples) = last - first + 1
         /\ \A k \in 1..Len(samples) : samples[k] = out[first + k - 1]
    <3>1. first \in Int /\ last \in Int /\ Len(samples) = last - first + 1
      BY <2>9, <2>10, <2>11
    <3>2. ASSUME NEW k \in 1..Len(samples) PROVE samples[k] = out[first + k - 1]
      <4>1. start + k <= Len(out) /\ first + k - 1 = start + k
        BY <2>9, <2>10
      <4> QED
        BY <2>9, <4>1
    <3> QED
      BY <3>1, <3>2
  <2>13. SubSeq(out, first, last) = samples
    <3>1. samples \in Seq(Int)
      BY <2>9
    <3> QED
      BY <2>12, <3>1, PartIs
  <2>14. SamplesOnAir(n) = samples
    BY <1>1, <2>1, <2>8, <2>9, <2>10, <2>11, <2>13 DEF SamplesOnAir
  <2>15. pairs \in Nat
    BY <1>1, PairsNat, AfskBasicAssumption DEF AInv, TypesOK, AfskTypeOK
  <2> QED
    BY <1>1, <2>6, <2>7, <2>14, <2>15 DEF SamplesOf, Arrived
<1>2. CASE modulator # "afsk_basic"
  <2>1. n \in 1..Len(pdus)
    BY <1>2 DEF IsOnAir
  <2>2. pdus[n] = ax25_to_fsk(msg_bits(pdu_preamble_len_bits, pdu_posted[n]))
    BY <2>1 DEF PInv, PdusModulated
  <2>3. pairs \in Nat
    BY <1>2 DEF PInv, PduTypes
  <2> QED
    BY <1>2, <2>2, <2>3 DEF SamplesOnAir, Arrived
<1> QED
  BY <1>1, <1>2

LEMMA PacketIsOnAir ==
  ASSUME TInv, UnpackedOnce, NEW n \in 1..Len(Arrived), IsOnAir(n), origin[n] = "packet"
  PROVE  IsPacket(PacketNumber(n), Pack(BitsOnAir(n)))
<1> USE DEF TInv
<1>1. PICK k : k = PacketNumber(n)
  OBVIOUS
<1>2. PICK msg : msg = Arrived[n]
  OBVIOUS
<1>3. PICK pdu : pdu = out_pdus[k]
  OBVIOUS
<1>4. k \in 1..Len(out_pdus) /\ msg = Carried(pdu)
  <2>1. n \in 1..Len(origin) /\ k = Packets(origin, n)
    BY <1>1 DEF CInv, ChainTypes, PacketNumber, Packets
  <2> QED
    BY <1>2, <1>3, <2>1 DEF CInv, PacketsInTurn
<1>5. pdu \in Seq(Bytes)
  BY <1>3, <1>4, ElementOfSeq DEF BInv, BuildTypes
<1>6. m_dataType = DATA_PACKED \/ m_dataType = DATA_UNPACKED
  BY DEF BInv, BuildTypes
<1>7. DATA_PACKED # DATA_UNPACKED
  BY DEF DATA_PACKED, DATA_UNPACKED
<1>8. msg \in Seq(0..1) /\ Pack(msg) = BytesOf(pdu)
  <2>1. CASE unpacker
    <3>1. msg = Unpack(pdu) /\ m_dataType = DATA_PACKED
      BY <1>4, <2>1 DEF Carried, UnpackedOnce
    <3>2. Unpack(pdu) \in Seq(0..1) /\ Pack(Unpack(pdu)) = pdu
      BY <1>5, UnpackIsSeq, PackOfUnpack
    <3> QED
      BY <1>7, <3>1, <3>2 DEF BytesOf
  <2>2. CASE ~unpacker
    <3>1. msg = pdu /\ m_dataType = DATA_UNPACKED
      BY <1>4, <1>6, <2>2 DEF Carried, UnpackedOnce
    <3>2. pdu \in Seq(0..1)
      BY <1>3, <1>4, <3>1 DEF BInv, PdusFit
    <3> QED
      BY <3>1, <3>2 DEF BytesOf
  <2> QED
    BY <2>1, <2>2
<1>9. BitsOnAir(n) = msg
  <2>1. PICK pairs :
          pairs = IF modulator = "afsk_basic" THEN preamble_len_bits ELSE pdu_preamble_len_bits
    OBVIOUS
  <2>2. pairs \in Nat /\ SamplesOnAir(n) = ax25_to_fsk(msg_bits(pairs, msg))
    BY <1>2, <2>1, SamplesAreMessage
  <2>3. PICK bits : bits = Heard(SamplesOnAir(n))
    OBVIOUS
  <2>4. SubSeq(bits, 2 * pairs + 1, Len(bits)) = msg
    BY <1>8, <2>2, <2>3, MessageIsHeard
  <2> QED
    BY <2>1, <2>3, <2>4 DEF BitsOnAir
<1>10. IsPacket(k, BytesOf(pdu))
  BY <1>3, <1>4 DEF BInv, FileInOrder
<1> QED
  BY <1>1, <1>8, <1>9, <1>10

LEMMA PacketsOnAirFollows == TInv => PacketsOnAir
BY PacketIsOnAir DEF PacketsOnAir

\* From end to end: in every transmitter that unpacks its packets once, a receiver
\* of the bursts gets the packets whole, in order and with right checksums,
\* whatever telecommands are sent in between, however work() is called, and over
\* restarts of the flowgraph.
THEOREM EveryPacketOnAir ==
  ASSUME Crc32IsFourBytes
  PROVE  Spec => []PacketsOnAir
<1>1. Spec => []TInv
  BY ChainInvariant
<1> QED
  BY <1>1, PacketsOnAirFollows, PTL

\* What was shown of the blocks one by one holds in every transmitter.
THEOREM BlocksInChain ==
  ASSUME Crc32IsFourBytes
  PROVE  Spec => [](/\ BuildTypeOK /\ FileInOrder /\ AfskTypeOK /\ OrderKept
                    /\ BurstsIntact /\ SilenceBetween /\ PdusAreHeard)
<1>1. Spec => []TInv
  BY ChainInvariant
<1>2. TInv => /\ BuildTypeOK /\ FileInOrder /\ AfskTypeOK /\ OrderKept
              /\ BurstsIntact /\ SilenceBetween /\ PdusAreHeard
  BY BuildTypeFollows, PdusHeardFollows DEF TInv, BInv, AInv, TypesOK, SInv
<1> QED
  BY <1>1, <1>2, PTL

\* A transmitter is nothing but its blocks: each of them starts as it does by
\* itself, and does nothing that it would not do by itself.
THEOREM StepsOfBlocks ==
  ASSUME Crc32IsFourBytes
  PROVE  Spec => /\ BuildInit /\ [][BuildNext]_buildVars
                 /\ AfskSpec /\ PduSpec
<1>1. Spec => []TInv
  BY ChainInvariant
<1>2. TInv /\ [Next]_vars => [BuildNext]_buildVars /\ [AfskNext]_afskVars /\ [PduNext]_pduVars
  BY ChainStep
<1>3. Init => BuildInit /\ AfskInit /\ PduInit
  BY DEF Init
<1> QED
  BY <1>1, <1>2, <1>3, PTL DEF Spec, AfskSpec, PduSpec
================================================================================
