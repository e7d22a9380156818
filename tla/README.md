# gr-gsSDR in TLA+

gr-gsSDR is a GNU Radio module for satellite ground stations. Its blocks take
received packets to a server, bring telecommands to the radio, correct the
Doppler shift and switch the gain of the radio. Nearly every block pairs the
GNU Radio scheduler thread, which calls its message handler, `start()` and
`stop()`, with a worker thread of its own that talks to the network. The
repository has no tests. These modules model the blocks, check them with TLC and
prove what holds for every size with TLAPS.

## The system

| component | state | operations | how it meets the others | what is hard |
|---|---|---|---|---|
| `fifo_buffer` | slots, head, tail, size, mutex | write, read, change size | static member of both sinks; handler writes, worker reads | interleaving, wrap, full against empty |
| `http_transfer_sink` | queue, exit flag, batch, success of the last response | handler, worker pass, `stop()` | PDUs in, HTTP POST out | partial failure of a batch, retry, loss of responses, restart |
| `websocket_transfer_sink` | queue, packet counter, exit flag, connection, batch | handler, worker pass, destructor | PDUs in, websocket messages out | reconnection and resending |
| `http_transfer_source` | connection, properties read last, exit flag | worker pass, `stop()` | HTTP GET in, acknowledgement back, PDU out | properties that outlive a pass, acknowledgement before publication, sleep with the mutex |
| `gs_doppler_correction` | acceptor, sessions, timers, count, frequencies, exit flag | the handlers of asio, `stop()` | TCP from the tracking program, frequency messages out | which handler is left to see the exit flag |
| `usrp_gain_control` | gains, trigger flag, exit flag | trigger, setters, worker, `stop()` | trigger in, gain commands out | handler against worker, commands before the start |
| `build_packet_1` | file cursor, packet length | handler | a strobe triggers it, PDU out, status out | last packet of a file, a file that changes, header fields |
| `packed_to_unpacked` | none | handler | PDU in, PDU out | |
| `afsk_basic` | message queue, output buffer, index | handler, `work()` | PDU in, samples and tags out | a message spread over many calls, restart in a burst |
| `afsk_basic_pdu` | none between two calls | handler | PDU in, PDU out | |
| transmitters in `grc_tx/` | inboxes of the blocks | the scheduler | `build_packet_1` and `http_transfer_source` to one modulator | packets and telecommands interleave |

What makes them correct: the ring is an atomic bounded queue; a sink loses and
repeats packets only for a reason and in a bounded window; a telecommand is
published once, whole, and not without being issued; every change of frequency
is published; a raised gain is lowered; `stop()` returns; a file goes on the air
byte by byte, and a burst is sent whole, in order and under its tag. PROJECT.json lists
the hazards behind these properties, line by line.

## Modules

| module | models |
|---|---|
| `FifoOps` | what one call on the buffer moves, used by both sinks |
| `FifoQueue` | abstract: the atomic bounded queue |
| `FifoBuffer` | `fifo_buffer.cc`: mutex, both loops one iteration at a time, `fifo_changeSize` |
| `PacketChannel` | abstract: an ordered, bounded channel, lossy or reliable |
| `HttpTransferSink` | `http_transfer_sink_impl.cc` |
| `WebsocketTransferSink` | `websocket_transfer_sink_impl.cc` |
| `HttpTransferSource` | `http_transfer_source_impl.cc` |
| `UsrpGainControl` | `usrp_gain_control_impl.cc` |
| `DopplerServer` | `gs_doppler_correction_impl.cc` |
| `BuildPacket` | `build_packet_1_impl.cc` |
| `AfskOps` | `ax25_to_fsk`, which both AFSK blocks have, and what a receiver hears |
| `AfskBasic` | `afsk_basic.py`, with the scheduler that calls it |
| `AfskBasicPdu` | `afsk_basic_pdu.py` |
| `TxChain` | the transmitters: the three above, `packed_to_unpacked_impl.cc`, telecommands |
| `FifoLemmas`, `FifoBufferProofs`, `HttpTransferSinkProofs`, `WebsocketTransferSinkProofs`, `UsrpGainControlProofs`, `DopplerServerProofs`, `HttpTransferSourceProofs`, `TxChainProofs` | proofs, the last one of the four transmit modules |
| `MCFifoBuffer`, `MCHttpTransferSource`, `MCBuildPacket`, `MCTxChain` | definitions for TLC |

Variables and actions keep the names of the source where it has one. A variable
`graph` follows the flowgraph, `worker` (or `pc`) the place of the worker
thread. What only properties read is declared apart, as history.

**FifoBuffer.** A call takes the mutex, makes one step per iteration and
releases it at its return. `fifo_changeSize` takes no lock; the blocks call it in
their constructors before a handler or a worker exists, so its guard is that no
call is in progress. `QueueSeen`, the refinement mapping, shows the queue as it
was before the call inside the mutex. The sinks use the atomic operators of
`FifoOps`, which `FifoBuffer` is proved to implement.

**HttpTransferSink.** A pass of the worker is `ReadQueue`, `Connect`, one step per
packet posted, and `CheckExit`. A post is answered 200, answered otherwise, or
ends in an exception, with or without the server having taken the packet.
Whatever ends a batch, `data_sent_success` is what the last response said; so a
refusal can be hidden and an accepted packet repeated. `LossesExplained` and
`RepeatsExplained` say exactly when. The shutdown of the socket may throw too,
which changes no state.

**WebsocketTransferSink.** One packet at a time, and no new one is read while the
connection is down: the sink is a reliable channel behind its queue. `stop()`
is commented out, so the worker lives from constructor to destructor. It ends
destroyed, which is why its configuration does not check deadlock.

**HttpTransferSource.** The server lists any packets it still has, in any order,
among them telemetry, which the worker must ignore. `Objects` is what it may
list: a packet, and the properties its object has in their order, so an object
may lack some. The worker's four local variables outlive a pass; `FieldsAfter`
says what they hold after `n` objects of a response and `i` properties of the
next, whether the response was read to its end or a number failed to parse
(`radioId` is read for that reason only). A missing property replaces nothing.
So the code mixes packets: a telecommand without payload, behind telemetry that
has one, is published with the payload of the telemetry, in the same pass or a
later one. `OneCommandAtATime` says that this happens only if the last object of
a response lacks a property or the response is garbled, and that what is mixed
then is still listed, never of a telecommand the server was told is done. It is
the payload in hand, not the one that belongs to the timestamp, that
`AckedIsPublished` follows.
The mutex is the worker's exactly while it sleeps. A name that does not resolve
ends the process (`Abort`), and so does a payload for which the vector would have
to be of fewer than 0 bytes: none, or one too short. With the prefix, the loop
writes one byte behind the vector: if the vector is empty, for a payload of one
byte, that ends the process too; otherwise C++ does not define its effect, and
the payload is published or the process ends.

**UsrpGainControl.** The handler's two halves and the worker's steps interleave;
commands reach the radio while the flowgraph runs, may be lost while it stops,
and are lost before its start.

**DopplerServer.** The handlers run one at a time. A command is what the two
protocols make of it: a new pair, a query, a TX frequency alone, an unknown
word. A frequency may be 0, which is also what a session starts with. When a session is deleted with a wait pending, its handler still runs, on
freed memory: the model chooses what it finds there.

**BuildPacket.** One action per trigger, since the calls of a handler do not
overlap. A packet is put together as the code leaves it: header, payload,
checksum, zeros. `crc32` is GNU Radio's and a constant operator; for TLC it is a
sum that tells apart the packets of the instance. The file is external: it may
grow, or be cut, between two triggers. `IsPacket` is the receiver's view: it
reads the length from the header and compares both checksums.

**AfskBasic.** `work()` is called with an output buffer of any length; `workNext`,
`workOn` and `workIdle` are its three ways through. A sample is the phase of its
sine in whole units of `2 pi / samp_rate`, so that the continuity of the phase is
exact and silence is told from a tone. A restart of the flowgraph counts items
from zero again; the block has no `start()` and sends what was left of a burst
without its tag.

**TxChain.** The three blocks side by side, each with its inbox: a strobe triggers
`build_packet_1`, `http_transfer_source` publishes telecommands, and both go to
the same modulator, packets through `packed_to_unpacked` where a transmitter has
it. `PacketsOnAir` is the end-to-end property: it demodulates the samples
(`Heard`), cuts off the preamble, packs the bits and asks `IsPacket` of the
result. Which messages of the modulator are packets is in the history `origin`;
their bytes alone would not tell, for a telecommand may equal a packet.

Definitions introduced by "A slip" are the likely mistakes against which each
property was tried: the definition below such a slip, replaced by it, must
violate the property.

## Runs

| run | shows | bounds |
|---|---|---|
| `fifo` | the ring refines the queue, no unwritten slot is read, every call returns | 1 writer, 1 reader, 2 items, rings of 2 and 4 slots, batches up to 2: empty, full and wrapped at every offset |
| `http_sink` | losses, repetitions, silence after `stop()`, channel; `stop()` returns, the queue drains | capacity 2, batches of 2, 3 packets: a full batch, a full queue and a drop |
| `websocket_sink` | reliable channel, repetitions, destructor, delivery | capacity 2, 4 packets: a drop, and packets behind it |
| `http_source` | one command at a time, repetitions, losses, `stop()`, delivery | 2 telecommands, telemetry, 2 objects per response, one telecommand also without its payload or without its timestamp, one with a payload of one byte |
| `http_source_payload` | finding: the payload loses its last byte | payloads of 2 and 3 bytes, 1 object per response |
| `gain_control` | a raised gain is timed and lowered, `stop()` returns | 2 values of each gain |
| `gain_control_start` | finding: the first command is lost | 1 value of each gain |
| `doppler` | count, publication, `stop()` while a timer watches | 2 clients, 2 frequencies, one of them 0, both protocols |
| `doppler_stop` | finding: an idle client blocks `stop()` | 1 client |
| `doppler_tx` | finding: TX alone is not applied | 1 client |
| `tx_chain` | a file or a command line from the block to the air, bursts and tags, end of a transfer | 3 triggers, 1 telecommand, 1 restart, files of 0, 1 and 3 bytes, payloads of 1 and 2 bytes, bursts of 2 to 20 samples in output buffers of 9 and 30 |
| `build_default` | finding: the default length is not used | lengths 0 and 2 |

The capacity is 31 in the code and the batch of the HTTP sink 10. The guards
compare lengths with these two numbers only, so small values reach each
relation between them; the proofs hold for all of them. `MaxPackets` and
`MaxBatch` bound what arrives, `MaxListed` a response.

`MCTxChain` selects the initial states of `tx_chain`. A payload of two bytes has a
file of three end in the middle of a packet, with and without a header, packed
and unpacked; three triggers are two packets and the end of the transfer, or
three packets of a command line. The burst of one byte takes one call of
`work()` with 30 items, two or three with 9, and leaves a rest to fill. The
telecommands are not empty, as `http_transfer_source` publishes none without a
byte. `MaxIdle` bounds
the silence written before the first burst.

## Fairness

The threads are scheduled: weak fairness of the steps a thread takes by itself,
and of the join. A mutex that becomes free again and again is got in the end:
strong fairness of `Lock` and of `threadTransferDeInit` in `HttpTransferSource`.
Timers run out. The strobe triggers again and
again, and there is room behind the modulator: weak fairness of `Strobe`, of the
handlers and of `work`. No network call has a timeout, so that calls return is no
fairness of the specification: `NetworkReturns`, `ServerRecovers` and
`ServerListsLast` are hypotheses inside the liveness properties that need them,
`stop()` of the sinks and of the source only the first. Clients of
`DopplerServer` owe nothing. `EveryCommandIsSent` needs a server that goes on
listing the telecommand last and as a whole (`ServerListsLast`), because the
source passes over the others; an object behind it in an earlier pass that lacks
its timestamp may take its acknowledgement, which the property allows for.

## Proofs

TLAPS checks, from the named assumptions on the constants alone, that they are
as small or as large as they may be:

- `FifoBufferProofs`. The invariant adds to `TypeOK` that the mutex belongs to
  the one thread inside a call, and what that thread has moved: the stored items
  of a writer are the newest of the ring, and a prefix of its batch. From it
  `TypeCorrect`, `ReadsAreWritten` and `Refinement`: an iteration maps to a
  stutter and the return to the atomic step. `FifoLemmas` has the facts about
  sequences.
- `HttpTransferSinkProofs`. The invariant says that packets in queue and batch are
  apart and in order of arrival, that every packet has arrived and has gone into
  the queue, a batch, or was dropped, and what has become of the packets before
  `i` in the batch. From it `TypeCorrect`, `LossesHaveCauses`,
  `RepeatsHaveCauses`, `SilenceHolds` and `Refinement`.
- `WebsocketTransferSinkProofs`. The invariant says that the packet being sent and
  the queue are apart, and that a packet of the batch the server knows already is
  `unanswered` while it may be sent again. From it `TypeCorrect`,
  `RepeatsHaveCauses` and `Refinement`.
- `HttpTransferSourceProofs`. The invariant says where the payload in the local
  variables comes from: between two passes it is none or one that the server
  still lists (`StillListed`, `Forgotten`), and at the acknowledgement timestamp
  and payload are still listed and, if the last object lacked nothing, of one
  command. `ReadFields` and `ReadAll` say what reading does to the variables for
  every response, whatever its objects lack, from `LatestIs`: a property is that
  of the last object that has it, which there is because `<` on the naturals is
  well-founded (`LargestIs`). What is published and still listed was sent
  without an acknowledgement (`ListedAgain`). From it `TypeCorrect`, `OneCommand`,
  `RepeatsHaveCauses` and `AckedArePublished`; none of these four is inductive by
  itself.
- `TxChainProofs`. One invariant per block, and one of what is between them.
  - `BInv`, of `BuildPacket`. `FileInOrder` is not inductive: it says where the
    bytes of a packet come from, but not that the next packet begins where this
    one ended. `CursorBehind` does: either all packets so far are full and the
    cursor is behind the last of them, or the file came to an end in one and
    what follows is empty. `FileIsWhole` keeps this true while the file grows or
    is cut, `PdusFit` has the length of what is published. From it
    `BuildTypeCorrect` and `FileStaysInOrder`. `PackOfUnpack`: packing undoes
    unpacking.
  - `AInv`, of `AfskBasic`, follows the message that is being copied: the items
    since its tag are as many as `opb_idx` has counted, and the bursts before it
    are in the output as a whole (`LastBurst`). From it `AfskTypeCorrect`,
    `MessagesInOrder` and `BurstsStayIntact`. `SInv` adds `CarriedFirst`, the same
    of the rest a restart has found, which has no tag; with it
    `SilenceElsewhere`.
  - `PInv`, of `AfskBasicPdu`: the pdus are the messages so far, modulated, and the
    rest waits in the inbox. `PdusHeard` is that a receiver gets them back. The
    lemmas behind it are about `ax25_to_fsk`, which both modulators have: the
    phase advances by the frequency of the bit (`PhaseAdvances`) over the whole of
    a symbol (`SymbolEnds`), so `Heard` has the bits (`HeardBits`), the preamble
    first (`PreambleFirst`), for all rates with a sample per symbol or more.
  - `CInv`, of `TxChain`: what was published and has not reached the modulator
    waits for the unpacker (`PacketsQueued`), and the packets the modulator has
    are those published, in their order, between any telecommands
    (`PacketsInTurn`). The chain takes no step that is not one of its blocks'
    (`ChainStep`), so it implements the specification of each
    (`StepsOfBlocks`), and what holds of them holds in it (`BlocksInChain`).
    From all four together `EveryPacketOnAir`, for every file, packet length,
    rate, preamble, output buffer and number of restarts.
- `UsrpGainControlProofs`. `TypeOK` and `OnIsTimed` are inductive together, for
  any gains that keep high and low apart.
- `DopplerServerProofs`. To the properties the invariant adds `AnswersAreShown`: a
  session that answers a command which changed nothing has shown its pair. From
  it `CountIsExact`, for any finite set of clients, so that the test for zero in
  `decrement_active_connection` never fails, and `EveryChangeIsShown`.

The theorems about packets have a hypothesis, `Crc32IsFourBytes`: the checksum of
any bytes is four bytes, as `build_packet_1_impl.cc` takes from GNU Radio's
`crc32`. It quantifies over all sequences, which TLC cannot, so it is no `ASSUME`;
the checksum of the instance (`Checksum` in `MCBuildPacket`) satisfies it. Two
assumptions on constants are limits of what is true. `LengthFieldAssumption`: no
packet is longer than the length field can say. `TonesAssumption`: the two
frequencies differ; equal ones could not be told apart.

Every safety property of the passing runs is proved. Only model-checked are the
liveness properties (`CallsReturn`, `QueueDrains`, `StopReturns`,
`DestructorReturns`, `EveryPacketArrives`, `EveryCommandIsSent`, `GainDrops`,
`StopReturnsIfWatched`, `TransferEnds`, `EveryMessageIsSent`): liveness under
fairness is beyond this prover.

## Disagreements with the source's words

- `http_transfer_source_impl.cc:429`: the payload is published without its last
  byte (`PayloadIsSent`).
- `usrp_gain_control_impl.cc:157`: the low gain of the start is sent to nobody
  (`RadioStartsOff`).
- `gs_doppler_correction_impl.cc:300`: nobody is left to see the exit flag while
  a client is connected and idle (`StopReturns`).
- `build_packet_1_impl.cc:102`: the default length is given to the parameter, not
  to the member (`LengthHasDefault`).
- `gs_doppler_correction_impl.cc:216`: a TX frequency alone is acknowledged and
  dropped (`TxIsApplied`).

## Not modelled

JSON text, HTTP parsing, float arithmetic and real time. A listed `timestamp` or
`spacecraftId` of 0, which the source takes for none. Response bytes left in
the parser's buffer by an exception in the HTTP sink. `set_timer_wait`. A port
that cannot be bound. Headers, block descriptions, bindings, build files, receiver
flowgraphs and recordings have no behaviour of their own.

Two instances of one sink share the static flag and ring: the second replaces the
ring under the first one's worker without a lock, so what follows is undefined,
and no flowgraph of the repository has two.

A header in a packet of less than 12 bytes is written behind the vector; the model
has no such block (`BuildInit`). The length field has 16 bits, so a packet of more
than 65547 bytes says too little; `LengthFieldAssumption` excludes it, and without
it `FileStaysInOrder` would be false.

Most of the repository's Python, about nine lines in ten, is `docs/doxygen`:
GNU Radio's scripts that turn Doxygen's XML into docstrings at build time, most of
them generated. They are not part of the program, and nothing is claimed of them.
Of the Python that runs, `afsk_basic.py` and `afsk_basic_pdu.py` are modelled in
full and the rest is windows.

## Plan

A composition of sink, channel and buffer: `HttpTransferSink` over `FifoBuffer` in
place of its atomic operators, by the refinement that is proved.
