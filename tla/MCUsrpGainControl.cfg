\* Handler, setters, flowgraph and worker in every interleaving.
CONSTANTS
  OnGains = {80, 90}
  OffGains = {0, 10}
  NoGain = NoGain
SPECIFICATION FairSpec
INVARIANTS TypeOK OnIsTimed
PROPERTIES GainDrops StopReturns
