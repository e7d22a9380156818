------------------------------- MODULE MCTxChain -------------------------------
(* The transmitters TLC looks at.                                              *)
EXTENDS TxChain, MCBuildPacket

OneOrTwo     == { << 1 >>, << 1, 0 >> }

SendsFile    == m_dataFrom = DATA_FROM_FILE
SendsCmdLine == m_dataFrom = DATA_CMD_LINE

\* The transmitters that are looked at: what is not unpacked, or unpacked once.
\* Samples are copied in every way for one byte of a command line or of a file;
\* the longer packets go to the modulator that sends them in one pdu.
ByPieces ==
  /\ modulator = "afsk_basic" /\ UnpackedOnce
  /\ m_packetLength = 1 /\ ~m_appendHeader
  /\ \/ SendsCmdLine /\ file = << >>
        /\ (stream_tag = "" <=> preamble_len_bits = 0) /\ (stream_tag = "" => ~unpacker)
     \/ SendsFile /\ file = << 200 >> /\ is_open /\ unpacker
        /\ stream_tag # "" /\ preamble_len_bits = 0

InOnePdu ==
  /\ modulator = "afsk_basic_pdu"
  /\ preamble_len_bits = 0 /\ stream_tag = ""
  /\ HasHeader <=> m_packetLength = 14
  /\ m_packetLength # 1
  /\ \/ SendsFile /\ file # << 200 >> /\ UnpackedOnce
     \/ ~SendsFile /\ ~SendsCmdLine /\ file = << >> /\ m_dataType = DATA_PACKED /\ ~unpacker

MCInit == Init /\ (ByPieces \/ InOnePdu)
MCSpec == MCInit /\ [][Next]_vars /\ Fairness
================================================================================
