-------------------------------- MODULE TxChain --------------------------------
(* The transmitters of grc_tx/: packets of build_packet_1 and telecommands of  *)
(* http_transfer_source go to an AFSK modulator, the packets of some           *)
(* transmitters through packed_to_unpacked.  Every block has a thread of its   *)
(* own and an inbox, in which what is published is put.                        *)
EXTENDS BuildPacket, AfskBasic, AfskBasicPdu

CONSTANTS Telecommands,   \* payloads http_transfer_source publishes
          MaxTelecommands \* bound on their number

ASSUME TxChainAssumption ==
  /\ Telecommands \subseteq Messages \ {<< >>}
  /\ MaxTelecommands \in Nat
  /\ MaxTriggers + MaxTelecommands <= MaxMessages
  /\ MaxTriggers + MaxTelecommands <= MaxPduMessages

VARIABLES modulator,    \* the modulator of the transmitter
          unpacker,     \* packed_to_unpacked is in front of it
          unpack_inbox, \* its packets still to be handled
          commands      \* number of telecommands so far

\* History: of every message that went to the modulator, what it is.
VARIABLE origin

chainConfig == << modulator, unpacker >>
vars == << chainConfig, unpack_inbox, commands, origin, buildVars, afskVars, pduVars >>

Init ==
  /\ BuildInit /\ AfskInit /\ PduInit
  /\ modulator \in { "afsk_basic", "afsk_basic_pdu" }
  /\ unpacker \in BOOLEAN
  /\ unpack_inbox = << >>
  /\ commands = 0
  /\ origin = << >>

\* A message on its way to the modulator.
Modulate(msg, from) ==
  /\ \/ modulator = "afsk_basic" /\ Post(msg) /\ UNCHANGED pduVars
     \/ modulator = "afsk_basic_pdu" /\ PostPdu(msg) /\ UNCHANGED afskVars
  /\ origin' = Append(origin, from)

Send(packet) ==
  \/ /\ unpacker
     /\ unpack_inbox' = Append(unpack_inbox, packet)
     /\ UNCHANGED << origin, afskVars, pduVars >>
  \/ ~unpacker /\ Modulate(packet, "packet") /\ UNCHANGED unpack_inbox

\* The strobe.
Strobe ==
  /\ packet_handler
  /\ \/ Len(out_pdus') > Len(out_pdus) /\ Send(Last(out_pdus'))
     \/ out_pdus' = out_pdus /\ UNCHANGED << unpack_inbox, origin, afskVars, pduVars >>
  /\ UNCHANGED << chainConfig, commands >>

packed_to_unpacked ==
  /\ unpack_inbox # << >>
  /\ unpack_inbox' = Tail(unpack_inbox)
  /\ Modulate(Unpack(Head(unpack_inbox)), "packet")
  /\ UNCHANGED << chainConfig, commands, buildVars >>

Telecommand ==
  /\ commands < MaxTelecommands
  /\ commands' = commands + 1
  /\ \E msg \in Telecommands : Modulate(msg, "telecommand")
  /\ UNCHANGED << chainConfig, unpack_inbox, buildVars >>

FileStep ==
  FileChanges /\ UNCHANGED << chainConfig, unpack_inbox, commands, origin, afskVars, pduVars >>

AfskStep ==
  /\ modulator = "afsk_basic"
  /\ handle_msg \/ work
  /\ UNCHANGED << chainConfig, unpack_inbox, commands, origin, buildVars, pduVars >>

PduStep ==
  handle_pdu /\ UNCHANGED << chainConfig, unpack_inbox, commands, origin, buildVars, afskVars >>

RestartFlowgraph ==
  /\ modulator = "afsk_basic"
  /\ Restart
  /\ UNCHANGED << chainConfig, unpack_inbox, commands, origin, buildVars, pduVars >>

Next ==
  \/ Strobe \/ packed_to_unpacked \/ Telecommand \/ FileStep
  \/ AfskStep \/ PduStep \/ RestartFlowgraph

\* The threads of the blocks are scheduled, there is room for the samples, and
\* the strobe triggers again and again.  Weak fairness of work is that of the
\* calls that copy: they are what it does while there is something to copy.
Fairness ==
  /\ WF_vars(Strobe) /\ WF_vars(packed_to_unpacked) /\ WF_vars(PduStep)
  /\ WF_vars(AfskStep /\ handle_msg) /\ WF_vars(AfskStep /\ work)

Spec     == Init /\ [][Next]_vars
FairSpec == Spec /\ Fairness

--------------------------------------------------------------------------------
\* Properties.

\* All messages that went to the modulator, and how many of the first n are packets.
Arrived         == IF modulator = "afsk_basic" THEN posted ELSE pdu_posted
PacketNumber(n) == Cardinality({ j \in 1..n : origin[j] = "packet" })

\* The tag of message n, counted from the last start.
TagOf(n) == n - (Len(begun) - Len(tags))

\* Message n is sent to its last sample, and its tag was not lost in a restart.
IsOnAir(n) ==
  IF modulator = "afsk_basic"
  THEN TagOf(n) \in 1..Len(tags) /\ tags[TagOf(n)].offset + tags[TagOf(n)].value <= Len(out)
  ELSE n \in 1..Len(pdus)

SamplesOnAir(n) ==
  IF modulator = "afsk_basic"
  THEN LET tag == tags[TagOf(n)] IN SubSeq(out, tag.offset + 1, tag.offset + tag.value)
  ELSE pdus[n]

\* The bits behind the preamble.
BitsOnAir(n) ==
  LET bits  == Heard(SamplesOnAir(n))
      pairs == IF modulator = "afsk_basic" THEN preamble_len_bits ELSE pdu_preamble_len_bits
  IN  SubSeq(bits, 2 * pairs + 1, Len(bits))

\* The packets are unpacked once: bit by bit on the air.
UnpackedOnce == unpacker <=> m_dataType = DATA_PACKED

\* From end to end: a receiver of the tagged bursts gets, burst by burst and in
\* order, the parts of the file or the bytes of the command line with its
\* headers and checksums, whatever telecommands are sent in between, however
\* the scheduler cuts the samples, and over a restart of the flowgraph.
PacketsOnAir ==
  UnpackedOnce =>
    \A n \in 1..Len(Arrived) :
      IsOnAir(n) /\ origin[n] = "packet" => IsPacket(PacketNumber(n), Pack(BitsOnAir(n)))
================================================================================
