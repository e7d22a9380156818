-------------------------------- MODULE AfskOps --------------------------------
(* The audio frequency shift keying both AFSK blocks compute: ax25_to_fsk of   *)
(* python/afsk_basic.py, which python/afsk_basic_pdu.py repeats.               *)
(*                                                                             *)
(* A message is a u8 vector.  A sample is the phase of its sine, in units of   *)
(* 2 pi / samp_rate: the phase increments are then the two frequencies, and no *)
(* sample of a tone is 0, which stands for silence.                            *)
EXTENDS Integers, Sequences, FiniteSets

CONSTANTS samp_rate, baud_rate, \* parameters of the blocks
          mark_freq, space_freq

ASSUME AfskAssumption ==
  /\ baud_rate \in Nat \ {0}
  /\ samp_rate \in Nat /\ samp_rate >= baud_rate
  /\ mark_freq \in Nat \ {0}
  /\ space_freq \in Nat \ {0}

\* Otherwise nothing is keyed.
ASSUME TonesAssumption == mark_freq # space_freq

Messages == Seq(0..255)

\* Samples per symbol: a fraction is cut off.
sps == samp_rate \div baud_rate

\* The pairs 0, 1 that take preamble_len_ms milliseconds, in exact arithmetic: the
\* quotient of the code is a float, which may fall just short of a whole number.
PreamblePairs(preamble_len_ms) == (preamble_len_ms * baud_rate) \div 2000

\* [0, 1] * preamble_len_bits, and the message.
msg_bits(pairs, msg) == [n \in 1..(2 * pairs) |-> (n - 1) % 2] \o msg

\* A byte that is not 1 is a space, also when it is not 0.
pinc(bit) == IF bit = 1 THEN mark_freq ELSE space_freq

\* A slip: the phase starts anew with every bit.
PhaseBeforeReset(bits, i) == 0

\* The phase the loop carries into bit i: every bit before it adds sps increments.
PhaseBefore(bits, i) ==
  LET marks == Cardinality({ j \in 1..(i - 1) : bits[j] = 1 })
  IN  sps * (marks * mark_freq + (i - 1 - marks) * space_freq)

\* The bit of a sample, and which of the samples of that bit it is.
BitOf(n)    == ((n - 1) \div sps) + 1
SampleOf(n) == ((n - 1) % sps) + 1

\* ax25_to_fsk behind its first lines, which make the bits of a message.
ax25_to_fsk(bits) ==
  [n \in 1..(Len(bits) * sps) |->
    PhaseBefore(bits, BitOf(n)) + SampleOf(n) * pinc(bits[BitOf(n)])]

\* What a receiver makes of it: a symbol is a mark if the phase has advanced by
\* as much as a mark does between its end and the end of the symbol before it.
Heard(samples) ==
  [i \in 1..(Len(samples) \div sps) |->
    LET before == IF i = 1 THEN 0 ELSE samples[(i - 1) * sps]
    IN  IF samples[i * sps] - before = sps * mark_freq THEN 1 ELSE 0]
================================================================================
