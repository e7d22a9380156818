----------------------------- MODULE AfskBasicPdu ------------------------------
(* python/afsk_basic_pdu.py: the modulator of afsk_basic with the samples of a *)
(* message in one pdu.  handle_msg puts the message into its queue and takes   *)
(* it out in the same call, so the queue is empty between two calls.           *)
EXTENDS AfskOps

CONSTANTS PduPreambleMs,  \* values of preamble_len_ms
          MaxPduMessages  \* bound on the messages that arrive

ASSUME AfskBasicPduAssumption ==
  PduPreambleMs \subseteq Nat /\ MaxPduMessages \in Nat

VARIABLES pdu_preamble_len_bits, \* set by the constructor
          pdu_inbox,             \* messages of the port `in' still to be handled
          pdus                   \* what is published

\* History: all messages that arrived.
VARIABLE pdu_posted

pduVars == << pdu_preamble_len_bits, pdu_inbox, pdus, pdu_posted >>

PduInit ==
  /\ pdu_preamble_len_bits \in { PreamblePairs(ms) : ms \in PduPreambleMs }
  /\ pdu_inbox = << >>
  /\ pdus = << >>
  /\ pdu_posted = << >>

\* Another block publishes a message.
PostPdu(msg) ==
  /\ Len(pdu_posted) < MaxPduMessages
  /\ pdu_inbox' = Append(pdu_inbox, msg)
  /\ pdu_posted' = Append(pdu_posted, msg)
  /\ UNCHANGED << pdu_preamble_len_bits, pdus >>

\* A slip: the message stays in the queue, and the next call takes it again.
handle_pduQueued ==
  /\ pdu_inbox # << >>
  /\ \E bits \in { msg_bits(pdu_preamble_len_bits, Head(pdu_posted)) } :
       pdus' = Append(pdus, ax25_to_fsk(bits))
  /\ pdu_inbox' = Tail(pdu_inbox)
  /\ UNCHANGED << pdu_preamble_len_bits, pdu_posted >>

handle_pdu ==
  /\ pdu_inbox # << >>
  /\ \E bits \in { msg_bits(pdu_preamble_len_bits, Head(pdu_inbox)) } :
       pdus' = Append(pdus, ax25_to_fsk(bits))
  /\ pdu_inbox' = Tail(pdu_inbox)
  /\ UNCHANGED << pdu_preamble_len_bits, pdu_posted >>

PduNext == (\E msg \in Messages : PostPdu(msg)) \/ handle_pdu

PduSpec == PduInit /\ [][PduNext]_pduVars

--------------------------------------------------------------------------------
\* Properties.

\* Marks and spaces: what is left of a message on the air.
Keyed(pairs, msg) ==
  LET bits == msg_bits(pairs, msg)
  IN  [i \in 1..Len(bits) |-> IF bits[i] = 1 THEN 1 ELSE 0]

\* A receiver of the pdus hears every message once and in the order of arrival,
\* each of them with its preamble, whatever was sent before it.
PdusAreHeard ==
  /\ Len(pdus) + Len(pdu_inbox) = Len(pdu_posted)
  /\ \A k \in 1..Len(pdus) : Heard(pdus[k]) = Keyed(pdu_preamble_len_bits, pdu_posted[k])
================================================================================
