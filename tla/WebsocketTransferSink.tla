------------------------- MODULE WebsocketTransferSink --------------------------
(* lib/websocket_transfer_sink_impl.cc: a block whose message handler queues   *)
(* every PDU for a worker thread that writes the queue, one packet at a time,  *)
(* to a websocket it keeps open, and reads one message back for each.          *)
(*                                                                             *)
(* The queue is fifo_buffer, whose calls are atomic (FifoBuffer implements     *)
(* FifoQueue).  A packet is its packetNumber.  stop() is commented out in the  *)
(* source: the worker lives from the constructor to the destructor, whether    *)
(* the flowgraph runs or not.                                                  *)
EXTENDS FifoOps, Integers

CONSTANTS Capacity,   \* packets m_fifo holds, 31 in the code
          MaxPackets  \* bound on the packets that arrive

ASSUME WebsocketAssumption ==
  /\ Capacity \in Nat \ {0}
  /\ MaxPackets \in Nat

VARIABLES m_fifo,              \* queued packets, oldest first
          m_packetCounter,     \* packetNumber of the next PDU
          m_exit_requested,    \* set by the destructor, read by the worker
          graph,               \* "running", "stopped", "destroying", "gone"
          worker,              \* where websocket_transfer_sink_wait is
          buffer_write_storage, \* the packet being sent, if any
          websocket_connected

\* History, read by properties only.
VARIABLES dropped,    \* packets that found the queue full
          delivered,  \* packets the server received
          unanswered, \* packets the server received without the worker knowing
          repeated    \* packets the server received more than once

wvars   == << worker, buffer_write_storage, websocket_connected >>
history == << dropped, delivered, unanswered, repeated >>
vars    == << m_fifo, m_packetCounter, m_exit_requested, graph, worker,
              buffer_write_storage, websocket_connected, dropped, delivered,
              unanswered, repeated >>

Packets == 0..(MaxPackets - 1)
InQueue == { m_fifo[k] : k \in 1..Len(m_fifo) }
InBatch == { buffer_write_storage[k] : k \in 1..Len(buffer_write_storage) }

\* The constructor: an empty queue, the handler registered, the worker started.
Init ==
  /\ m_fifo = << >>
  /\ m_packetCounter = 0
  /\ m_exit_requested = FALSE
  /\ graph = "running"
  /\ worker = "start"
  /\ buffer_write_storage = << >>
  /\ websocket_connected = FALSE
  /\ dropped = {}
  /\ delivered = {}
  /\ unanswered = {}
  /\ repeated = {}

--------------------------------------------------------------------------------
\* The flowgraph and the handler its scheduler thread calls.

\* The return value of fifo_write_storage is ignored: a full queue drops the
\* packet, whose number is used up.
packet_handler ==
  /\ graph = "running"
  /\ m_packetCounter < MaxPackets
  /\ m_packetCounter' = m_packetCounter + 1
  /\ m_fifo' = m_fifo \o Accepted(m_fifo, << m_packetCounter >>, Capacity)
  /\ dropped' = IF Len(m_fifo) < Capacity THEN dropped ELSE dropped \cup {m_packetCounter}
  /\ UNCHANGED << m_exit_requested, graph, wvars, delivered, unanswered, repeated >>

\* The block overrides neither start() nor stop().
StartStop ==
  /\ graph \in {"running", "stopped"}
  /\ graph' = IF graph = "running" THEN "stopped" ELSE "running"
  /\ UNCHANGED << m_fifo, m_packetCounter, m_exit_requested, wvars, history >>

\* The destructor: threadTransferDeInit up to the join, and the join.
threadTransferDeInit ==
  /\ graph = "stopped"
  /\ graph' = "destroying"
  /\ m_exit_requested' = TRUE
  /\ UNCHANGED << m_fifo, m_packetCounter, wvars, history >>

Join ==
  /\ graph = "destroying"
  /\ worker = "done"
  /\ graph' = "gone"
  /\ UNCHANGED << m_fifo, m_packetCounter, m_exit_requested, wvars, history >>

--------------------------------------------------------------------------------
\* The worker, websocket_transfer_sink_wait.

Start ==
  /\ worker = "start"
  /\ worker' = IF m_exit_requested THEN "done" ELSE "open"
  /\ UNCHANGED << m_fifo, m_packetCounter, m_exit_requested, graph,
                  buffer_write_storage, websocket_connected, history >>

\* The connection and handshake before the loop, which may throw.
Open(connected) ==
  /\ worker = "open"
  /\ worker' = "loop"
  /\ websocket_connected' = connected
  /\ UNCHANGED << m_fifo, m_packetCounter, m_exit_requested, graph,
                  buffer_write_storage, history >>

\* A slip: two packets are read, as the other sink does.
ReadQueueTwo ==
  /\ worker = "loop"
  /\ websocket_connected
  /\ buffer_write_storage' = Taken(m_fifo, 2)
  /\ m_fifo' = Left(m_fifo, 2)
  /\ worker' = IF buffer_write_storage' = << >> THEN "check" ELSE "send"
  /\ UNCHANGED << m_packetCounter, m_exit_requested, graph, websocket_connected, history >>

\* A slip: an empty queue leaves the packet that was sent in the buffer.
ReadQueueKeeps ==
  /\ worker = "loop"
  /\ websocket_connected
  /\ buffer_write_storage' = IF m_fifo = << >> THEN buffer_write_storage ELSE Taken(m_fifo, 1)
  /\ m_fifo' = Left(m_fifo, 1)
  /\ worker' = IF buffer_write_storage' = << >> THEN "check" ELSE "send"
  /\ UNCHANGED << m_packetCounter, m_exit_requested, graph, websocket_connected, history >>

\* Connected: the next packet replaces the one that was sent.
ReadQueue ==
  /\ worker = "loop"
  /\ websocket_connected
  /\ buffer_write_storage' = Taken(m_fifo, 1)
  /\ m_fifo' = Left(m_fifo, 1)
  /\ worker' = IF buffer_write_storage' = << >> THEN "check" ELSE "send"
  /\ UNCHANGED << m_packetCounter, m_exit_requested, graph, websocket_connected, history >>

\* A slip: what failed is not sent again after the reconnection.
ReconnectOnly(connected) ==
  /\ worker = "loop"
  /\ ~websocket_connected
  /\ websocket_connected' = connected
  /\ worker' = "check"
  /\ UNCHANGED << m_fifo, m_packetCounter, m_exit_requested, graph,
                  buffer_write_storage, history >>

\* Not connected: connect again, and send again what failed before.
Reconnect(connected) ==
  /\ worker = "loop"
  /\ ~websocket_connected
  /\ websocket_connected' = connected
  /\ worker' = IF connected /\ buffer_write_storage # << >> THEN "send" ELSE "check"
  /\ UNCHANGED << m_fifo, m_packetCounter, m_exit_requested, graph,
                  buffer_write_storage, history >>

\* The server receives the packet being sent.
Receive ==
  /\ delivered' = delivered \cup InBatch
  /\ repeated' = repeated \cup (delivered \cap InBatch)

Finish ==
  /\ worker = "send"
  /\ worker' = "check"
  /\ UNCHANGED << m_fifo, m_packetCounter, m_exit_requested, graph,
                  buffer_write_storage, dropped >>

\* write and read succeed.
Answered ==
  /\ Finish
  /\ Receive
  /\ UNCHANGED << websocket_connected, unanswered >>

\* A slip: the exception does not mark the connection as broken.
WriteFailsUnnoticed ==
  /\ Finish
  /\ UNCHANGED << websocket_connected, delivered, repeated, unanswered >>

\* write throws, or the server never receives the packet and read throws.
WriteFails ==
  /\ Finish
  /\ websocket_connected' = FALSE
  /\ UNCHANGED << delivered, repeated, unanswered >>

\* The server receives the packet and read throws.
ReadFails ==
  /\ Finish
  /\ websocket_connected' = FALSE
  /\ Receive
  /\ unanswered' = unanswered \cup InBatch

\* A slip: the exit flag is tested only while the connection is open.
CheckExitConnected ==
  /\ worker = "check"
  /\ worker' = IF m_exit_requested /\ websocket_connected THEN "close" ELSE "loop"
  /\ UNCHANGED << m_fifo, m_packetCounter, m_exit_requested, graph,
                  buffer_write_storage, websocket_connected, history >>

\* The sleep, and the test of the exit flag after it.
CheckExit ==
  /\ worker = "check"
  /\ worker' = IF m_exit_requested THEN "close" ELSE "loop"
  /\ UNCHANGED << m_fifo, m_packetCounter, m_exit_requested, graph,
                  buffer_write_storage, websocket_connected, history >>

\* ws.close, whose exceptions are caught.
Close ==
  /\ worker = "close"
  /\ worker' = "done"
  /\ UNCHANGED << m_fifo, m_packetCounter, m_exit_requested, graph,
                  buffer_write_storage, websocket_connected, history >>

Network ==
  \/ Answered \/ WriteFails \/ ReadFails \/ Close
  \/ \E connected \in BOOLEAN : Open(connected) \/ Reconnect(connected)

Worker == Start \/ ReadQueue \/ Network \/ CheckExit

Next ==
  \/ packet_handler \/ StartStop \/ threadTransferDeInit \/ Join
  \/ Worker

Spec == Init /\ [][Next]_vars

\* The worker and the thread in the destructor are scheduled.  The network calls
\* have no timeout: that they return is not the program's to promise.
FairSpec == Spec /\ WF_vars(Start \/ ReadQueue \/ CheckExit) /\ WF_vars(Join)

\* Assumptions about the network, hypotheses of the liveness properties.

\* Every network call returns or throws.
NetworkReturns == WF_vars(Network)

\* A connection tried again and again is accepted, and so is a packet sent
\* again and again.
ServerRecovers ==
  /\ SF_vars(Reconnect(TRUE))
  /\ \A p \in Packets : SF_vars(Answered /\ InBatch = {p})

--------------------------------------------------------------------------------
\* Properties.

TypeOK ==
  /\ m_fifo \in Seq(Packets) /\ Len(m_fifo) <= Capacity
  /\ m_packetCounter \in 0..MaxPackets
  /\ m_exit_requested \in BOOLEAN
  /\ graph \in {"running", "stopped", "destroying", "gone"}
  /\ worker \in {"start", "open", "loop", "send", "check", "close", "done"}
  /\ buffer_write_storage \in Seq(Packets) /\ Len(buffer_write_storage) <= 1
  /\ websocket_connected \in BOOLEAN
  /\ dropped \in SUBSET Packets /\ delivered \in SUBSET Packets
  /\ unanswered \in SUBSET Packets /\ repeated \in SUBSET Packets

\* The server receives a packet twice only if it had received it before a
\* connection failed: packets are not sent again while the connection holds.
RepeatsExplained == repeated \subseteq unanswered

\* The channel of the packet being sent and the queue: whatever the network
\* does, a packet that entered the queue is given up only after the server
\* received it, packets are received in the order they arrived, and none is
\* dropped on arrival while fewer wait than the queue holds.
Channel == INSTANCE PacketChannel WITH
  Window   <- 1,
  Reliable <- TRUE,
  waiting  <- buffer_write_storage \o m_fifo

RefinesChannel == Channel!Spec

\* The destructor returns if every network call does, however the server answers.
DestructorReturns == NetworkReturns => (graph = "destroying" ~> graph = "gone")

\* Unless the block is destroyed, every packet that entered the queue is
\* received if the server recovers, also while the flowgraph is stopped.
EveryPacketArrives ==
  NetworkReturns /\ ServerRecovers =>
    \A p \in Packets : p \in InQueue ~> (p \in delivered \/ m_exit_requested)
================================================================================
