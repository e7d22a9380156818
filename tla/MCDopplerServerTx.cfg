\* Whether a TX frequency that was acknowledged is applied.
CONSTANTS
  Clients = {c1}
  Freqs = {0, 1}
  NoFreq = NoFreq
SPECIFICATION Spec
INVARIANT TxIsApplied
