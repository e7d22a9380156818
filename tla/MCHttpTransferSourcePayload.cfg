\* Whether the radio gets the whole payload.
CONSTANTS
  MaxPackets = 2
  MaxListed = 1
  Objects <- PlainObjects
  Bytes <- MoreBytes
  Prefixed <- Commands
SPECIFICATION Spec
INVARIANT PayloadIsSent
CHECK_DEADLOCK FALSE
