CONSTANTS
  crc32 <- Checksum
  PacketLengths = {0, 2}
  CmdLines <- OneCmdLine
  RandomBytes = {0, 255}
  Files <- ThreeFiles
  Growth <- OneMore
  MaxTriggers = 3
SPECIFICATION BuildSpec
INVARIANT LengthHasDefault
CHECK_DEADLOCK FALSE
