\* Whether the radio is told the low gain at the start.
CONSTANTS
  OnGains = {90}
  OffGains = {0}
  NoGain = NoGain
SPECIFICATION Spec
INVARIANT RadioStartsOff
