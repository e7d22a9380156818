---------------------------- MODULE HttpTransferSink ----------------------------
(* lib/http_transfer_sink_impl.cc: a block whose message handler queues every  *)
(* PDU, as a JSON string, for a worker thread that posts the queue to an HTTP  *)
(* server in batches, and whose stop() ends the worker.                        *)
(*                                                                             *)
(* The queue is fifo_buffer, whose calls are atomic (FifoBuffer implements     *)
(* FifoQueue).  A packet is the number of its arrival.  The server and the     *)
(* network are the outcomes of the worker's calls: a request is answered 200,  *)
(* answered something else, or ends in an exception before or after the server *)
(* took the packet.                                                            *)
EXTENDS FifoOps, Integers

CONSTANTS Capacity,   \* packets m_fifo holds, 31 in the code
          BatchSize,  \* CONST_WRITE_BUFFER_SIZE
          MaxPackets  \* bound on the packets that arrive

ASSUME SinkAssumption ==
  /\ Capacity \in Nat \ {0}
  /\ BatchSize \in Nat \ {0}
  /\ MaxPackets \in Nat

VARIABLES m_fifo,            \* queued packets, oldest first
          m_exit_requested,  \* set by stop(), read by the worker
          graph,             \* "running", "stopping" inside stop(), "stopped"
          worker,            \* where http_transfer_sink_wait is
          buffer_write_storage, \* the batch; its length is niutput_items_real
          i,                 \* the packet of the batch to post next
          data_sent_success  \* what the latest response said

\* History, read by properties only.
VARIABLES arrived,   \* number of PDUs handed to packet_handler
          dropped,   \* packets that found the queue full
          delivered, \* packets the server accepted
          batches,   \* the batches read from the queue, as sets of packets
          refused,   \* packets answered with another status than 200
          cut,       \* packets of a batch that an exception cut short
          repeated   \* packets the server accepted more than once

wvars   == << worker, buffer_write_storage, i, data_sent_success >>
history == << arrived, dropped, batches, delivered, refused, cut, repeated >>
vars    == << m_fifo, m_exit_requested, graph, worker, buffer_write_storage, i,
              data_sent_success, arrived, dropped, batches, delivered, refused, cut,
              repeated >>

Packets == 1..MaxPackets
InQueue == { m_fifo[k] : k \in 1..Len(m_fifo) }
InBatch == { buffer_write_storage[k] : k \in 1..Len(buffer_write_storage) }

\* The constructor: an empty queue, the handler registered, the worker started.
Init ==
  /\ m_fifo = << >>
  /\ m_exit_requested = FALSE
  /\ graph = "running"
  /\ worker = "start"
  /\ buffer_write_storage = << >>
  /\ i = 1
  /\ data_sent_success = TRUE
  /\ arrived = 0
  /\ dropped = {}
  /\ batches = {}
  /\ delivered = {}
  /\ refused = {}
  /\ cut = {}
  /\ repeated = {}

--------------------------------------------------------------------------------
\* The scheduler thread of the block: handler calls, stop() and start().

\* The return value of fifo_write_storage is ignored: a full queue drops the
\* packet.
packet_handler ==
  /\ graph = "running"
  /\ arrived < MaxPackets
  /\ arrived' = arrived + 1
  /\ m_fifo' = m_fifo \o Accepted(m_fifo, << arrived + 1 >>, Capacity)
  /\ dropped' = IF Len(m_fifo) < Capacity THEN dropped ELSE dropped \cup {arrived + 1}
  /\ UNCHANGED << m_exit_requested, graph, wvars, batches, delivered, refused, cut,
                  repeated >>

\* stop(): threadTransferDeInit up to the join.
threadTransferDeInit ==
  /\ graph = "running"
  /\ graph' = "stopping"
  /\ m_exit_requested' = TRUE
  /\ UNCHANGED << m_fifo, wvars, history >>

\* A slip: stop() does not wait for the worker.
JoinAtOnce ==
  /\ graph = "stopping"
  /\ graph' = "stopped"
  /\ UNCHANGED << m_fifo, m_exit_requested, wvars, history >>

\* The join: the thread has ended, or had been joined by an earlier stop().
Join ==
  /\ graph = "stopping"
  /\ worker = "done"
  /\ graph' = "stopped"
  /\ UNCHANGED << m_fifo, m_exit_requested, wvars, history >>

\* The flowgraph is started again.  The block has no start(): its handler is
\* called again, but no new worker is created.
Restart ==
  /\ graph = "stopped"
  /\ graph' = "running"
  /\ UNCHANGED << m_fifo, m_exit_requested, wvars, history >>

--------------------------------------------------------------------------------
\* The worker, http_transfer_sink_wait.

Start ==
  /\ worker = "start"
  /\ worker' = IF m_exit_requested THEN "done" ELSE "read"
  /\ UNCHANGED << m_fifo, m_exit_requested, graph, buffer_write_storage, i,
                  data_sent_success, history >>

\* A slip: a refused batch is replaced like an accepted one.
ReadQueueAlways ==
  /\ worker = "read"
  /\ buffer_write_storage' = Taken(m_fifo, BatchSize)
  /\ m_fifo' = Left(m_fifo, BatchSize)
  /\ batches' = batches \cup {InBatch'}
  /\ worker' = IF buffer_write_storage' = << >> THEN "check" ELSE "connect"
  /\ UNCHANGED << m_exit_requested, graph, i, data_sent_success, arrived, dropped,
                  delivered, refused, cut, repeated >>

\* A slip: a refused batch is put back behind the queue.
ReadQueueRequeues ==
  /\ worker = "read"
  /\ LET queue == IF data_sent_success THEN m_fifo ELSE m_fifo \o buffer_write_storage
     IN  /\ buffer_write_storage' = Taken(queue, BatchSize)
         /\ m_fifo' = Left(queue, BatchSize)
  /\ batches' = batches \cup {InBatch'}
  /\ worker' = IF buffer_write_storage' = << >> THEN "check" ELSE "connect"
  /\ UNCHANGED << m_exit_requested, graph, i, data_sent_success, arrived, dropped,
                  delivered, refused, cut, repeated >>

\* A new batch is read only after a success; otherwise the old one is retried.
ReadQueue ==
  /\ worker = "read"
  /\ IF data_sent_success
       THEN /\ buffer_write_storage' = Taken(m_fifo, BatchSize)
            /\ m_fifo' = Left(m_fifo, BatchSize)
            /\ batches' = batches \cup {InBatch'}
       ELSE UNCHANGED << buffer_write_storage, m_fifo, batches >>
  /\ worker' = IF buffer_write_storage' = << >> THEN "check" ELSE "connect"
  /\ UNCHANGED << m_exit_requested, graph, i, data_sent_success, arrived, dropped,
                  delivered, refused, cut, repeated >>

Connect ==
  /\ worker = "connect"
  /\ worker' = "post"
  /\ i' = 1
  /\ UNCHANGED << m_fifo, m_exit_requested, graph, buffer_write_storage,
                  data_sent_success, history >>

\* A slip: an exception asks for a retry of the whole batch.
ThrowRetries ==
  /\ worker' = "check"
  /\ cut' = cut \cup InBatch
  /\ data_sent_success' = FALSE
  /\ UNCHANGED << m_fifo, m_exit_requested, graph, buffer_write_storage, i,
                  arrived, dropped, batches, refused >>

\* An exception leaves the pass and data_sent_success as it was.
Throw ==
  /\ worker' = "check"
  /\ cut' = cut \cup InBatch
  /\ UNCHANGED << m_fifo, m_exit_requested, graph, buffer_write_storage, i,
                  data_sent_success, arrived, dropped, batches, refused >>

\* resolve or connect fails.
ConnectFails ==
  /\ worker = "connect"
  /\ Throw
  /\ UNCHANGED << delivered, repeated >>

\* The server takes the packet being posted.
Deliver ==
  /\ delivered' = delivered \cup {buffer_write_storage[i]}
  /\ repeated' = IF buffer_write_storage[i] \in delivered
                   THEN repeated \cup {buffer_write_storage[i]} ELSE repeated

\* A slip: the index is moved behind the last packet, too.
NextPacketTooFar ==
  /\ worker = "post"
  /\ i' = i + 1
  /\ IF i < Len(buffer_write_storage) THEN UNCHANGED worker ELSE worker' = "check"
  /\ UNCHANGED << m_fifo, m_exit_requested, graph, buffer_write_storage,
                  arrived, dropped, batches, cut >>

\* A response was read: on to the next packet, or out of the loop.
NextPacket ==
  /\ worker = "post"
  /\ IF i < Len(buffer_write_storage)
       THEN i' = i + 1 /\ UNCHANGED worker
       ELSE worker' = "check" /\ UNCHANGED i
  /\ UNCHANGED << m_fifo, m_exit_requested, graph, buffer_write_storage,
                  arrived, dropped, batches, cut >>

\* A slip: a success does not clear an earlier refusal.
PostAcceptedKeepsRefusal ==
  /\ NextPacket
  /\ UNCHANGED data_sent_success
  /\ Deliver
  /\ UNCHANGED refused

PostAccepted ==
  /\ NextPacket
  /\ data_sent_success' = TRUE
  /\ Deliver
  /\ UNCHANGED refused

PostRefused ==
  /\ NextPacket
  /\ data_sent_success' = FALSE
  /\ refused' = refused \cup {buffer_write_storage[i]}
  /\ UNCHANGED << delivered, repeated >>

\* write fails, or the server never takes the request.
RequestLost ==
  /\ worker = "post"
  /\ Throw
  /\ UNCHANGED << delivered, repeated >>

\* The server takes the packet and read fails.
ResponseLost ==
  /\ worker = "post"
  /\ Throw
  /\ Deliver

\* A slip: the worker exits only once its batch is empty.
CheckExitWhenEmpty ==
  /\ worker = "check"
  /\ worker' = IF m_exit_requested /\ buffer_write_storage = << >> THEN "done" ELSE "read"
  /\ UNCHANGED << m_fifo, m_exit_requested, graph, buffer_write_storage, i,
                  data_sent_success, history >>

\* The sleep between passes, and the test of the exit flag after it.
CheckExit ==
  /\ worker = "check"
  /\ worker' = IF m_exit_requested THEN "done" ELSE "read"
  /\ UNCHANGED << m_fifo, m_exit_requested, graph, buffer_write_storage, i,
                  data_sent_success, history >>

Post == PostAccepted \/ PostRefused \/ RequestLost \/ ResponseLost

Network == Connect \/ ConnectFails \/ Post

Worker == Start \/ ReadQueue \/ Network \/ CheckExit

Next ==
  \/ packet_handler \/ threadTransferDeInit \/ Join \/ Restart
  \/ Worker

Spec == Init /\ [][Next]_vars

\* The worker and the thread in stop() are scheduled.  The network calls have no
\* timeout: that they return is not the program's to promise.
FairSpec == Spec /\ WF_vars(Start \/ ReadQueue \/ CheckExit) /\ WF_vars(Join)

\* Assumptions about the network, hypotheses of the liveness properties.

\* Every network call returns or throws.
NetworkReturns == WF_vars(Network)

\* The server is not away for ever: a connection tried again and again is
\* accepted, and so is a packet posted again and again.
ServerRecovers ==
  /\ SF_vars(Connect)
  /\ \A p \in Packets : SF_vars(PostAccepted /\ buffer_write_storage[i] = p)

--------------------------------------------------------------------------------
\* Properties.

TypeOK ==
  /\ m_fifo \in Seq(Packets) /\ Len(m_fifo) <= Capacity
  /\ m_exit_requested \in BOOLEAN
  /\ graph \in {"running", "stopping", "stopped"}
  /\ worker \in {"start", "read", "connect", "post", "check", "done"}
  /\ buffer_write_storage \in Seq(Packets)
  /\ Len(buffer_write_storage) <= BatchSize
  /\ i \in 1..BatchSize
  /\ data_sent_success \in BOOLEAN
  /\ arrived \in 0..MaxPackets
  /\ dropped \in SUBSET Packets /\ delivered \in SUBSET Packets
  /\ refused \in SUBSET Packets /\ cut \in SUBSET Packets
  /\ repeated \in SUBSET Packets /\ batches \in SUBSET SUBSET Packets

SameBatch(p, q) == \E batch \in batches : {p, q} \subseteq batch

\* Packets that arrived, were never delivered and are nowhere in the block.  What is
\* still queued or in the batch when stop() returns is held: nothing posts it, but
\* nothing has thrown it away.
Lost == (1..arrived) \ (dropped \cup delivered \cup InQueue \cup InBatch)

\* A packet is lost on its way only through an exception in a pass over its
\* batch, or because the server refused it and accepted a later packet of the
\* same batch, whose success hides the refusal.  In particular nothing is lost
\* while the server accepts everything, and the newest packet of a batch is
\* never given up because of a refusal.
LossesExplained ==
  \A p \in Lost :
    \/ p \in cut
    \/ p \in refused /\ \E q \in delivered : p < q /\ SameBatch(p, q)

\* A packet is delivered twice only if a packet of its batch was refused:
\* exceptions alone, even a response lost after the server took the packet,
\* never make the worker post again what was accepted.
RepeatsExplained ==
  \A p \in repeated : \E q \in refused : SameBatch(p, q)

\* Once stop() has returned the worker touches neither the server nor the queue,
\* also after the flowgraph is started again, when the exit flag is still set.
SilentAfterStop ==
  [][m_exit_requested /\ graph # "stopping"
       => UNCHANGED << delivered, refused, cut, buffer_write_storage, worker >>]_vars

\* The channel of the packets in the batch and in the queue: delivery in order
\* up to a window of one batch, and no packet dropped on arrival while fewer
\* packets wait than the queue holds.
Channel == INSTANCE PacketChannel WITH
  Window   <- BatchSize,
  Reliable <- FALSE,
  waiting  <- buffer_write_storage \o m_fifo

RefinesChannel == Channel!Spec

\* stop() returns if every network call does, however the server answers.
StopReturns == NetworkReturns => (graph = "stopping" ~> graph = "stopped")

\* Unless the flowgraph stops, every queued packet leaves the queue: a refused
\* batch does not block the packets behind it for ever if the server recovers.
QueueDrains ==
  NetworkReturns /\ ServerRecovers =>
    \A p \in Packets : p \in InQueue ~> (p \notin InQueue \/ m_exit_requested)
================================================================================
