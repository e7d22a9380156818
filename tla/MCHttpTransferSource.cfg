\* Every interleaving, every order of the listed packets, objects that lack
\* properties, and every outcome of every network call.  The process may end.
CONSTANTS
  MaxPackets = 2
  MaxListed = 2
  Objects <- SomeObjects
  Bytes <- SomeBytes
  Prefixed <- SomePrefixed
SPECIFICATION FairSpec
INVARIANTS TypeOK OneCommandAtATime RepeatsExplained AckedIsPublished
PROPERTIES StopReturns EveryCommandIsSent
CHECK_DEADLOCK FALSE
