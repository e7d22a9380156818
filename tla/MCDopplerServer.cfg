\* Two clients, both protocols, every order of the handlers, and stop().
CONSTANTS
  Clients = {c1, c2}
  Freqs = {0, 1}
  NoFreq = NoFreq
SPECIFICATION FairSpec
INVARIANTS TypeOK CountExact ChangesAreShown
PROPERTY StopReturnsIfWatched
