\* Every interleaving of handler, worker and flowgraph, and every outcome of
\* every network call; the destructor if network calls return, and delivery if
\* the server also recovers.  The block ends destroyed.
CONSTANTS
  Capacity = 2
  MaxPackets = 4
SPECIFICATION FairSpec
INVARIANTS TypeOK RepeatsExplained
PROPERTIES RefinesChannel DestructorReturns EveryPacketArrives
CHECK_DEADLOCK FALSE
