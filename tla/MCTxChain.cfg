CONSTANTS
  samp_rate = 5
  baud_rate = 2
  mark_freq = 3
  space_freq = 5
  PreambleMs = {0, 1000}
  StreamTags = {"", "packet_len"}
  OutSizes = {9, 30}
  MaxMessages = 4
  MaxIdle = 2
  MaxRestarts = 1
  PduPreambleMs = {1000}
  MaxPduMessages = 4
  crc32 <- Checksum
  PacketLengths = {1, 2, 14}
  CmdLines <- OneCmdLine
  RandomBytes = {0, 255}
  Files <- ThreeFiles
  Growth <- OneMore
  MaxTriggers = 3
  Telecommands <- OneOrTwo
  MaxTelecommands = 1
SPECIFICATION MCSpec
INVARIANTS BuildTypeOK FileInOrder AfskTypeOK OrderKept BurstsIntact SilenceBetween PdusAreHeard PacketsOnAir
PROPERTIES TransferEnds EveryMessageIsSent
CHECK_DEADLOCK FALSE
