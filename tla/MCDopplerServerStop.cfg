\* Whether stop() always returns.
CONSTANTS
  Clients = {c1}
  Freqs = {0, 1}
  NoFreq = NoFreq
SPECIFICATION FairSpec
PROPERTY StopReturns
