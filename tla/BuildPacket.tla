------------------------------ MODULE BuildPacket ------------------------------
(* lib/build_packet_1_impl.cc: at every trigger the block builds one packet,   *)
(* of random bytes, of the next bytes of a file or of bytes it was given, and  *)
(* publishes it.  A file is handed out packet by packet; the last packet is    *)
(* shorter than the others, and its header has to say so.                      *)
(*                                                                             *)
(* The handler is one action: its calls do not overlap.  The file is external  *)
(* and may grow or be cut while it is handed out.                              *)
EXTENDS Integers, Sequences, SequencesExt

CONSTANTS crc32(_),      \* gr::digital::crc32, as four bytes
          PacketLengths, \* values of the parameter packetLength
          CmdLines,      \* values of packet_bytes
          RandomBytes,   \* what rand() % 256 may give
          Files,         \* contents of the file when the block is made
          Growth,        \* what may be appended to it later
          MaxTriggers    \* bound on the triggers

DATA_FROM_RANDOM_GENERATOR == 0
DATA_FROM_FILE             == 1
DATA_CMD_LINE              == 2

DATA_PACKED   == 0
DATA_UNPACKED == 1

TRANSFER_IN_PROGRESS == 0
TRANSFER_READY       == 1

ASSUME BuildPacketAssumption ==
  /\ PacketLengths \subseteq Nat
  /\ CmdLines \subseteq Seq(0..255)
  /\ RandomBytes \subseteq 0..255
  /\ Files \subseteq Seq(0..255) /\ Growth \subseteq Seq(0..255)
  /\ MaxTriggers \in Nat

\* The length field of a header has 16 bits, and 12 bytes are not counted in it.
ASSUME LengthFieldAssumption == \A length \in PacketLengths : length < 65536 + 12

VARIABLES m_appendHeader, m_packetLength, m_dataType, m_dataFrom, packet_bytes,
          m_fileSize,      \* size of the file when the block was made
          m_fileIncrement, \* bytes of the file handed out
          is_open,         \* the file could be opened for reading
          file             \* the content of the file

VARIABLES stat_pdus, out_pdus, \* what is published, f_transfer of the status only
          triggers

\* History: the longest content the file has had.
VARIABLE whole

buildConfig == << m_appendHeader, m_dataType, m_dataFrom, packet_bytes, m_fileSize, is_open >>
buildVars   == << m_appendHeader, m_packetLength, m_dataType, m_dataFrom, packet_bytes,
                  m_fileSize, m_fileIncrement, is_open, file, stat_pdus, out_pdus, triggers,
                  whole >>

HasHeader == m_appendHeader /\ m_dataFrom # DATA_CMD_LINE

\* A file that is not there throws: such a block is never made.  A header needs
\* room for itself and for the second checksum: the code writes it without looking.
BuildInit ==
  /\ m_appendHeader \in BOOLEAN
  /\ m_packetLength \in PacketLengths
  /\ m_dataType \in { DATA_PACKED, DATA_UNPACKED }
  /\ m_dataFrom \in { DATA_FROM_RANDOM_GENERATOR, DATA_FROM_FILE, DATA_CMD_LINE }
  /\ packet_bytes \in CmdLines
  /\ HasHeader => m_packetLength >= 12
  /\ file \in Files
  /\ m_fileSize = IF m_dataFrom = DATA_FROM_FILE THEN Len(file) ELSE 0
  /\ m_fileIncrement = 0
  /\ is_open \in IF m_dataFrom = DATA_FROM_FILE THEN BOOLEAN ELSE { FALSE }
  /\ stat_pdus = << >>
  /\ out_pdus = << >>
  /\ triggers = 0
  /\ whole = file

--------------------------------------------------------------------------------
\* Packets.

offset         == IF HasHeader THEN 8 ELSE 0
payload_length == IF HasHeader THEN m_packetLength - 4 ELSE m_packetLength

\* Bytes of payload a full packet has.
Room == payload_length - offset

Zeros(n) == [i \in 1..n |-> 0]

\* A uint16_t in memory.
U16(n) == << n % 256, (n \div 256) % 256 >>

\* A slip: the checksum of the header is that of a full packet.
HeaderStale(extraOffset) ==
  << 55, 19 >> \o U16(Room - extraOffset) \o crc32(<< 55, 19 >> \o U16(Room))

\* The header of a packet whose payload is extraOffset bytes short of Room.
Header(extraOffset) ==
  LET head == << 55, 19 >> \o U16(Room - extraOffset) IN head \o crc32(head)

data_packet(payload) ==
  LET extraOffset == Room - Len(payload)
  IN  IF HasHeader
      THEN Header(extraOffset) \o payload \o crc32(payload) \o Zeros(extraOffset)
      ELSE payload \o Zeros(extraOffset)

Bit(byte, n) == (byte \div 2^n) % 2

\* A slip: the lowest bit first.
UnpackLowFirst(bytes) ==
  [i \in 1..(8 * Len(bytes)) |-> Bit(bytes[((i - 1) \div 8) + 1], (i - 1) % 8)]

\* One byte per bit, the highest bit of every byte first.
Unpack(bytes) ==
  [i \in 1..(8 * Len(bytes)) |-> Bit(bytes[((i - 1) \div 8) + 1], 7 - ((i - 1) % 8))]

Publish(packet) ==
  \E data \in { packet } :
    out_pdus' = Append(out_pdus, IF m_dataType = DATA_UNPACKED THEN Unpack(data) ELSE data)

--------------------------------------------------------------------------------
\* The handler, by the source of the payload.

fromRandom ==
  /\ m_dataFrom = DATA_FROM_RANDOM_GENERATOR
  /\ \E payload \in [1..Room -> RandomBytes] : Publish(data_packet(payload))
  /\ UNCHANGED << m_packetLength, m_fileIncrement, stat_pdus >>

\* What read() gets behind the cursor.
ReadFile ==
  SubSeq(file, m_fileIncrement + 1,
         IF m_fileIncrement + Room < Len(file) THEN m_fileIncrement + Room ELSE Len(file))

\* A slip: at the end of the file one more packet is read.
MoreToReadAtEnd == m_fileIncrement <= m_fileSize /\ is_open

MoreToRead == m_fileIncrement < m_fileSize /\ is_open

\* A slip: the cursor moves by a full packet.
fromFileFull ==
  /\ m_dataFrom = DATA_FROM_FILE
  /\ MoreToRead
  /\ \E payload \in { ReadFile } : Publish(data_packet(payload))
  /\ m_fileIncrement' = m_fileIncrement + Room
  /\ stat_pdus' = Append(stat_pdus, TRANSFER_IN_PROGRESS)
  /\ UNCHANGED m_packetLength

fromFile ==
  /\ m_dataFrom = DATA_FROM_FILE
  /\ MoreToRead
  /\ \E payload \in { ReadFile } :
       Publish(data_packet(payload)) /\ m_fileIncrement' = m_fileIncrement + Len(payload)
  /\ stat_pdus' = Append(stat_pdus, TRANSFER_IN_PROGRESS)
  /\ UNCHANGED m_packetLength

\* A file that could not be opened counts as handed out.
transferReady ==
  /\ m_dataFrom = DATA_FROM_FILE
  /\ ~MoreToRead
  /\ stat_pdus' = Append(stat_pdus, TRANSFER_READY)
  /\ UNCHANGED << m_packetLength, m_fileIncrement, out_pdus >>

fromCmdLine ==
  /\ m_dataFrom = DATA_CMD_LINE
  /\ m_packetLength' = Len(packet_bytes)
  /\ Publish(packet_bytes)
  /\ UNCHANGED << m_fileIncrement, stat_pdus >>

packet_handler ==
  /\ triggers < MaxTriggers
  /\ triggers' = triggers + 1
  /\ fromRandom \/ fromFile \/ transferReady \/ fromCmdLine
  /\ UNCHANGED << buildConfig, file, whole >>

\* The file is appended to, or cut to its first n bytes, once.
Grow(more) ==
  /\ file = whole /\ Len(file) = m_fileSize
  /\ file' = file \o more
  /\ whole' = file'
  /\ UNCHANGED << buildConfig, m_packetLength, m_fileIncrement, stat_pdus, out_pdus, triggers >>

Cut(n) ==
  /\ file = whole
  /\ n < Len(file)
  /\ file' = SubSeq(file, 1, n)
  /\ UNCHANGED << buildConfig, m_packetLength, m_fileIncrement, stat_pdus, out_pdus, triggers,
                  whole >>

FileChanges ==
  /\ m_dataFrom = DATA_FROM_FILE
  /\ \/ \E more \in Growth : Grow(more)
     \/ \E n \in 0..Len(file) : Cut(n)

BuildNext == packet_handler \/ FileChanges

\* The strobe triggers again and again.
BuildSpec == BuildInit /\ [][BuildNext]_buildVars /\ WF_buildVars(packet_handler)

--------------------------------------------------------------------------------
\* Properties.

BuildTypeOK ==
  /\ m_packetLength \in PacketLengths \cup { Len(packet_bytes) }
  /\ HasHeader => m_packetLength >= 12
  /\ m_fileIncrement \in 0..Len(whole)
  /\ IsPrefix(file, whole)
  /\ Len(stat_pdus) <= triggers /\ Len(out_pdus) <= triggers
  /\ \A k \in 1..Len(out_pdus) :
       /\ Len(out_pdus[k]) = m_packetLength * (IF m_dataType = DATA_UNPACKED THEN 8 ELSE 1)
       /\ out_pdus[k] \in Seq(0..255)

\* Bytes of bits, the highest bit first.
Pack(bits) ==
  [i \in 1..(Len(bits) \div 8) |->
    LET b(n) == bits[8 * (i - 1) + n]
    IN  128 * b(1) + 64 * b(2) + 32 * b(3) + 16 * b(4) + 8 * b(5) + 4 * b(6) + 2 * b(7) + b(8)]

\* The k-th part of the file, as far as it has been handed out.
Part(k) ==
  SubSeq(whole, (k - 1) * Room + 1, IF k * Room < m_fileIncrement THEN k * Room ELSE m_fileIncrement)

\* What a receiver that knows the format finds in a packet: a header whose
\* checksum is right, as many bytes as the header says, and their checksum.
Carries(packet, payload) ==
  LET size == packet[3] + 256 * packet[4]
  IN  /\ SubSeq(packet, 1, 2) = << 55, 19 >>
      /\ SubSeq(packet, 5, 8) = crc32(SubSeq(packet, 1, 4))
      /\ SubSeq(packet, 9, 8 + size) = payload
      /\ SubSeq(packet, 9 + size, 12 + size) = crc32(payload)

\* What the k-th packet is to a receiver: the k-th part of the file with zeros
\* behind it, the bytes of the command line, or any bytes in the right format.
IsPacket(k, packet) ==
  /\ m_dataFrom = DATA_CMD_LINE => packet = packet_bytes
  /\ HasHeader =>
       Carries(packet, IF m_dataFrom = DATA_FROM_FILE THEN Part(k) ELSE SubSeq(packet, 9, 8 + Room))
  /\ m_dataFrom = DATA_FROM_FILE /\ ~HasHeader =>
       packet = Part(k) \o Zeros(m_packetLength - Len(Part(k)))

BytesOf(pdu) == IF m_dataType = DATA_UNPACKED THEN Pack(pdu) ELSE pdu

\* The packets of a file have it from its beginning to the cursor, in order and
\* every byte once, whether the file keeps its size, grows or is cut.  A packet
\* with a header says how much it has, with the right checksums, also if that is
\* less than usual; unpacking loses nothing.
FileInOrder == \A k \in 1..Len(out_pdus) : IsPacket(k, BytesOf(out_pdus[k]))

\* If the strobe goes on and the file is not cut, all bytes of the file are handed
\* out and the status says so from then on.
TransferEnds ==
  m_dataFrom = DATA_FROM_FILE /\ is_open /\ Room > 0
    ~> \/ Len(file) < m_fileSize
       \/ [](/\ m_fileIncrement >= m_fileSize
             /\ stat_pdus # << >> /\ Last(stat_pdus) = TRANSFER_READY)

\* A block made with packetLength 0 builds packets of 64 bytes, as "Set default
\* vector [ packet size ]..." says, and none that are empty (the bytes of a
\* command line have a length of their own).
LengthHasDefault ==
  m_dataFrom # DATA_CMD_LINE => \A k \in 1..Len(out_pdus) : out_pdus[k] # << >>
================================================================================
