\* Every interleaving of handler, worker, stop and restart, and every outcome
\* of every network call; stop() returns if network calls do, however the server
\* answers, and the queue drains if the server also recovers.
CONSTANTS
  Capacity = 2
  BatchSize = 2
  MaxPackets = 3
SPECIFICATION FairSpec
INVARIANTS TypeOK LossesExplained RepeatsExplained
PROPERTIES SilentAfterStop RefinesChannel StopReturns QueueDrains
