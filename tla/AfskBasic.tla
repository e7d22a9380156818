------------------------------- MODULE AfskBasic -------------------------------
(* python/afsk_basic.py: a source block that modulates the messages it is      *)
(* handed.  The scheduler calls handle_msg for every message and work, in      *)
(* between, with an output buffer of any length; a message is copied to the    *)
(* output over as many calls as it takes.                                      *)
(*                                                                             *)
(* The block is one thread: handle_msg and work do not overlap, and get() does *)
(* not wait.  Between two calls an output_buffer of None and an exhausted one  *)
(* are the same, << >> here.  What the scheduler does is modelled from how the *)
(* block uses it: the inbox of messages, nitems_written as the number of items *)
(* written since the flowgraph was started, and the flowgraph's restarts.      *)
EXTENDS AfskOps

CONSTANTS PreambleMs,  \* values of preamble_len_ms
          StreamTags,  \* values of stream_tag, "" for a stream without gaps
          OutSizes,    \* lengths of the output buffers work is called with
          MaxMessages, \* bound on the messages that arrive
          MaxIdle,     \* bound on the items written, for the calls that write silence
          MaxRestarts  \* bound on the restarts of the flowgraph

ASSUME AfskBasicAssumption ==
  /\ PreambleMs \subseteq Nat
  /\ OutSizes \subseteq Nat \ {0}
  /\ MaxMessages \in Nat /\ MaxIdle \in Nat /\ MaxRestarts \in Nat

VARIABLES preamble_len_bits, stream_tag, \* set by the constructor
          inbox,         \* messages of the port `in' still to be handled
          outbox,        \* messages handled and not begun
          output_buffer, \* the samples of the message that is being copied
          opb_idx,       \* how many of them are copied
          out            \* the items written since the start

\* History, read by properties only.
VARIABLES tags,    \* where messages begin in out: the tags added since the start
          begun,   \* all messages begun so far
          posted,  \* all messages that arrived
          carried, \* the samples a restart found not copied yet
          restarts

afskConfig == << preamble_len_bits, stream_tag >>
afskVars == << preamble_len_bits, stream_tag, inbox, outbox, output_buffer, opb_idx, out,
             tags, begun, posted, carried, restarts >>

AfskInit ==
  /\ preamble_len_bits \in { PreamblePairs(ms) : ms \in PreambleMs }
  /\ stream_tag \in StreamTags
  /\ inbox = << >>
  /\ outbox = << >>
  /\ output_buffer = << >>
  /\ opb_idx = 0
  /\ out = << >>
  /\ tags = << >>
  /\ begun = << >>
  /\ posted = << >>
  /\ carried = << >>
  /\ restarts = 0

\* Another block publishes a message.
Post(msg) ==
  /\ Len(posted) < MaxMessages
  /\ inbox' = Append(inbox, msg)
  /\ posted' = Append(posted, msg)
  /\ UNCHANGED << afskConfig, outbox, output_buffer, opb_idx, out, tags, begun, carried,
                  restarts >>

\* A slip: the message that arrived last is sent first.
handle_msgFirst ==
  /\ inbox # << >>
  /\ outbox' = << Head(inbox) >> \o outbox
  /\ inbox' = Tail(inbox)
  /\ UNCHANGED << afskConfig, output_buffer, opb_idx, out, tags, begun, posted, carried,
                  restarts >>

handle_msg ==
  /\ inbox # << >>
  /\ outbox' = Append(outbox, Head(inbox))
  /\ inbox' = Tail(inbox)
  /\ UNCHANGED << afskConfig, output_buffer, opb_idx, out, tags, begun, posted, carried,
                  restarts >>

--------------------------------------------------------------------------------
\* work, with an output buffer of length n.

Silence(n) == [k \in 1..n |-> 0]

\* A slip: the rest of the output buffer is filled, and returned, in either case.
FillingAlways(n) == Silence(n)

\* Without a stream tag the rest of the output buffer is filled.
Filling(n) == IF stream_tag = "" THEN Silence(n) ELSE << >>

\* A slip: every call copies from the beginning of the buffer.
CopyFromStart(buffer, from, n) ==
  LET left == Len(buffer) - from
      cnt  == IF left < n THEN left ELSE n
  IN  /\ out' = out \o SubSeq(buffer, 1, cnt) \o Filling(n - cnt)
      /\ opb_idx' = from + cnt
      /\ output_buffer' = IF from + cnt >= Len(buffer) THEN << >> ELSE buffer

\* A slip: the buffer is not given up with its last sample.
CopyNotDone(buffer, from, n) ==
  LET left == Len(buffer) - from
      cnt  == IF left < n THEN left ELSE n
  IN  /\ out' = out \o SubSeq(buffer, from + 1, from + cnt) \o Filling(n - cnt)
      /\ opb_idx' = from + cnt
      /\ output_buffer' = IF from + cnt > Len(buffer) THEN << >> ELSE buffer

\* The minimum of what is left and of what fits is copied.
Copy(buffer, from, n) ==
  LET left == Len(buffer) - from
      cnt  == IF left < n THEN left ELSE n
  IN  /\ out' = out \o SubSeq(buffer, from + 1, from + cnt) \o Filling(n - cnt)
      /\ opb_idx' = from + cnt
      /\ output_buffer' = IF from + cnt >= Len(buffer) THEN << >> ELSE buffer

\* A message of length 0 is begun, tagged and done in one call.
workNext(n) ==
  /\ output_buffer = << >>
  /\ outbox # << >>
  /\ \E bits \in { msg_bits(preamble_len_bits, Head(outbox)) } :
     \E buffer \in { ax25_to_fsk(bits) } :
       /\ Copy(buffer, 0, n)
       /\ tags' = Append(tags, [offset |-> Len(out), value |-> Len(buffer)])
  /\ begun' = Append(begun, Head(outbox))
  /\ outbox' = Tail(outbox)
  /\ UNCHANGED << afskConfig, inbox, posted, carried, restarts >>

workOn(n) ==
  /\ output_buffer # << >>
  /\ Copy(output_buffer, opb_idx, n)
  /\ UNCHANGED << afskConfig, inbox, outbox, tags, begun, posted, carried, restarts >>

\* Nothing to send: silence, or nothing at all if there is a stream tag.
workIdle(n) ==
  /\ output_buffer = << >>
  /\ outbox = << >>
  /\ stream_tag = ""
  /\ Len(out) < MaxIdle
  /\ out' = out \o Silence(n)
  /\ UNCHANGED << afskConfig, inbox, outbox, output_buffer, opb_idx, tags, begun, posted,
                  carried, restarts >>

work == \E n \in OutSizes : workNext(n) \/ workOn(n) \/ workIdle(n)

\* The flowgraph is stopped and started again: the scheduler counts from 0, and
\* the block, which has no start(), goes on where it was.
Restart ==
  /\ restarts < MaxRestarts
  /\ restarts' = restarts + 1
  /\ out' = << >>
  /\ tags' = << >>
  /\ carried' = SubSeq(output_buffer, opb_idx + 1, Len(output_buffer))
  /\ UNCHANGED << afskConfig, inbox, outbox, output_buffer, opb_idx, begun, posted >>

AfskNext ==
  \/ \E msg \in Messages : Post(msg)
  \/ handle_msg \/ work \/ Restart

AfskSpec == AfskInit /\ [][AfskNext]_afskVars

--------------------------------------------------------------------------------
\* Properties.

SamplesOf(msg) == ax25_to_fsk(msg_bits(preamble_len_bits, msg))

\* The message that tag i announces.
Tagged(i) == begun[Len(begun) - Len(tags) + i]

InBurst(k) == \E i \in 1..Len(tags) : k - tags[i].offset \in 1..tags[i].value

AfskTypeOK ==
  /\ preamble_len_bits \in { PreamblePairs(ms) : ms \in PreambleMs }
  /\ stream_tag \in StreamTags
  /\ inbox \in Seq(Messages) /\ outbox \in Seq(Messages)
  /\ begun \in Seq(Messages) /\ posted \in Seq(Messages)
  /\ opb_idx \in Nat
  /\ output_buffer # << >> =>
       begun # << >> /\ output_buffer = SamplesOf(begun[Len(begun)]) /\ opb_idx < Len(output_buffer)
  /\ Len(tags) <= Len(begun)

\* Messages are sent in the order of their arrival, each of them once, also over
\* a restart of the flowgraph.
OrderKept == begun \o outbox \o inbox = posted

\* Behind every tag the output has, without a gap, the samples of its message,
\* as many as the tag says, however the scheduler has cut them into calls of
\* work, and the next burst begins behind them.
BurstsIntact ==
  \A i \in 1..Len(tags) :
    LET tag     == tags[i]
        samples == SamplesOf(Tagged(i))
    IN  /\ tag.value = Len(samples)
        /\ \A k \in 1..Len(samples) :
             tag.offset + k <= Len(out) => out[tag.offset + k] = samples[k]
        /\ i < Len(tags) => tag.offset + tag.value <= tags[i + 1].offset

\* Outside the bursts, and the rest of the burst that a restart has interrupted,
\* there is silence, and with a stream tag there is nothing.
SilenceBetween ==
  \A k \in 1..Len(out) :
    \/ InBurst(k)
    \/ k <= Len(carried) /\ out[k] = carried[k]
    \/ k > Len(carried) /\ out[k] = 0 /\ stream_tag = ""

\* Again and again everything that has arrived is sent to its last sample: once
\* no more messages arrive, all of them are.
EveryMessageIsSent == []<>(Len(begun) = Len(posted) /\ output_buffer = << >>)
================================================================================
