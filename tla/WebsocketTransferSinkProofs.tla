---------------------- MODULE WebsocketTransferSinkProofs ----------------------
(* Theorems about WebsocketTransferSink, for every queue capacity and every    *)
(* number of packets.                                                          *)
EXTENDS WebsocketTransferSink, FifoLemmas

\* Every packet is in one place: those of the queue differ from one another,
\* from the one being sent and from those the server received.
Apart ==
  /\ \A k \in 1..Len(m_fifo) :
       m_fifo[k] < m_packetCounter /\ m_fifo[k] \notin delivered \cup InBatch
  /\ \A j, k \in 1..Len(m_fifo) : j # k => m_fifo[j] # m_fifo[k]
  /\ \A p \in delivered \cup InBatch : p < m_packetCounter

\* What the worker knows of the packet it holds.
Known ==
  /\ worker \in {"start", "open"} => buffer_write_storage = << >>
  /\ worker = "send" => websocket_connected /\ buffer_write_storage # << >>
  /\ websocket_connected /\ worker # "send" => InBatch \subseteq delivered
  /\ ~websocket_connected \/ worker = "send" => InBatch \cap delivered \subseteq unanswered

IInv ==
  /\ TypeOK
  /\ Apart
  /\ Known
  /\ RepeatsExplained

LEMMA Contents ==
  ASSUME TypeOK
  PROVE  /\ m_fifo \in Seq(Packets) /\ Len(m_fifo) \in Nat /\ Len(m_fifo) <= Capacity
         /\ buffer_write_storage \in Seq(Packets) /\ Len(buffer_write_storage) \in Nat
         /\ Len(buffer_write_storage) <= 1
         /\ \A k \in 1..Len(m_fifo) : m_fifo[k] \in Packets
         /\ Len(buffer_write_storage \o m_fifo) = Len(buffer_write_storage) + Len(m_fifo)
         /\ m_packetCounter \in Nat /\ Capacity \in Nat
         /\ InBatch \subseteq Packets
<1>1. m_fifo \in Seq(Packets) /\ buffer_write_storage \in Seq(Packets)
  BY DEF TypeOK
<1>2. \A k \in 1..Len(buffer_write_storage) : buffer_write_storage[k] \in Packets
  BY <1>1, ElementOfSeq
<1>3. \A k \in 1..Len(m_fifo) : m_fifo[k] \in Packets
  BY <1>1, ElementOfSeq
<1>4. m_packetCounter \in Nat /\ Capacity \in Nat
  BY WebsocketAssumption DEF TypeOK
<1>5. Len(buffer_write_storage \o m_fifo) = Len(buffer_write_storage) + Len(m_fifo)
  BY <1>1, BatchAndQueue
<1>6. QED
  BY <1>1, <1>2, <1>3, <1>4, <1>5, LenProperties DEF TypeOK, InBatch

LEMMA InitIInv == Init => IInv
<1> SUFFICES ASSUME Init PROVE IInv
  OBVIOUS
<1>1. << >> \in Seq(Packets) /\ Len(<< >>) = 0
  BY EmptySeq
<1>2. 0 <= Capacity /\ 0 \in 0..MaxPackets
  BY WebsocketAssumption
<1>3. TypeOK
  <2>1. m_fifo \in Seq(Packets) /\ Len(m_fifo) <= Capacity
    BY <1>1, <1>2 DEF Init
  <2>2. buffer_write_storage \in Seq(Packets) /\ Len(buffer_write_storage) <= 1
    BY <1>1 DEF Init
  <2>3. QED
    BY <1>2, <2>1, <2>2 DEF Init, TypeOK
<1>4. InBatch = {}
  BY <1>1 DEF Init, InBatch
<1>5. Apart /\ Known /\ RepeatsExplained
  BY <1>1, <1>4 DEF Init, Apart, Known, RepeatsExplained
<1>6. QED
  BY <1>3, <1>5 DEF IInv

\* A step that moves no packet.
LEMMA ControlStep ==
  ASSUME IInv,
         UNCHANGED << m_fifo, m_packetCounter, buffer_write_storage, history >>
  PROVE  /\ InBatch' = InBatch /\ Apart' /\ RepeatsExplained'
         /\ UNCHANGED << dropped, delivered, unanswered, repeated >>
<1>1. UNCHANGED << dropped, delivered, unanswered, repeated >>
  BY DEF history
<1>2. InBatch' = InBatch
  BY DEF InBatch
<1>3. QED
  BY <1>1, <1>2 DEF IInv, Apart, RepeatsExplained

LEMMA FlowgraphStep ==
  ASSUME IInv, StartStop \/ threadTransferDeInit \/ Join PROVE IInv'
<1>1. /\ UNCHANGED << m_fifo, m_packetCounter, buffer_write_storage, history >>
      /\ UNCHANGED << worker, websocket_connected >>
  BY DEF StartStop, threadTransferDeInit, Join, wvars
<1>2. /\ InBatch' = InBatch /\ Apart' /\ RepeatsExplained'
      /\ UNCHANGED << dropped, delivered, unanswered, repeated >>
  BY <1>1, ControlStep
<1>3. TypeOK'
  BY <1>1, <1>2 DEF IInv, TypeOK, StartStop, threadTransferDeInit, Join
<1>4. Known'
  BY <1>1, <1>2 DEF IInv, Known
<1>5. QED
  BY <1>2, <1>3, <1>4 DEF IInv

LEMMA WorkerControlStep ==
  ASSUME IInv,
         \/ Start \/ CheckExit \/ Close
         \/ \E connected \in BOOLEAN : Open(connected) \/ Reconnect(connected)
  PROVE  IInv'
<1>1. /\ UNCHANGED << m_fifo, m_packetCounter, buffer_write_storage, history >>
      /\ UNCHANGED << m_exit_requested, graph >>
  BY DEF Start, CheckExit, Close, Open, Reconnect
<1>2. /\ InBatch' = InBatch /\ Apart' /\ RepeatsExplained'
      /\ UNCHANGED << dropped, delivered, unanswered, repeated >>
  BY <1>1, ControlStep
<1>3. TypeOK'
  BY <1>1, <1>2 DEF IInv, TypeOK, Start, CheckExit, Close, Open, Reconnect
<1>4. Known'
  <2>1. buffer_write_storage = << >> => InBatch = {}
    BY EmptySeq DEF InBatch
  <2>2. CASE Start \/ CheckExit \/ Close
    BY <1>1, <1>2, <2>2 DEF IInv, Known, Start, CheckExit, Close
  <2>3. CASE \E connected \in BOOLEAN : Open(connected)
    BY <1>1, <1>2, <2>1, <2>3 DEF IInv, Known, Open
  <2>4. CASE \E connected \in BOOLEAN : Reconnect(connected)
    BY <1>1, <1>2, <2>1, <2>4 DEF IInv, Known, Reconnect
  <2>5. QED
    BY <2>2, <2>3, <2>4
<1>5. QED
  BY <1>2, <1>3, <1>4 DEF IInv

LEMMA HandlerStep == ASSUME IInv, packet_handler PROVE IInv'
<1> DEFINE p == m_packetCounter
           n == Len(m_fifo)
<1>1. /\ p < MaxPackets /\ m_packetCounter' = p + 1
      /\ m_fifo' = m_fifo \o Accepted(m_fifo, << p >>, Capacity)
      /\ dropped' = IF n < Capacity THEN dropped ELSE dropped \cup {p}
      /\ UNCHANGED << m_exit_requested, graph, worker, buffer_write_storage,
                      websocket_connected, delivered, unanswered, repeated >>
  BY DEF packet_handler, wvars
<1>2. p \in Nat /\ p \in Packets /\ n \in Nat /\ n <= Capacity /\ Capacity \in Nat
      /\ m_fifo \in Seq(Packets)
  BY <1>1, Contents, WebsocketAssumption DEF IInv, Packets
<1>3. \/ /\ n < Capacity /\ m_fifo' \in Seq(Packets) /\ Len(m_fifo') = n + 1
         /\ \A k \in 1..n : m_fifo'[k] = m_fifo[k]
         /\ m_fifo'[n + 1] = p /\ dropped' = dropped
      \/ m_fifo' = m_fifo /\ dropped' = dropped \cup {p}
  <2>1. Accepted(m_fifo, << p >>, Capacity) = IF n < Capacity THEN << p >> ELSE << >>
    BY <1>2, AcceptedOne
  <2>2. CASE n < Capacity
    <3>1. m_fifo' = Append(m_fifo, p) /\ dropped' = dropped
      BY <1>1, <1>2, <2>1, <2>2, AppendIsConcat
    <3>2. QED
      BY <1>2, <2>2, <3>1, AppendProperties
  <2>3. CASE ~(n < Capacity)
    BY <1>1, <1>2, <2>1, <2>3, ConcatEmptySeq
  <2>4. QED
    BY <2>2, <2>3
<1> HIDE DEF n
<1>4. TypeOK'
  <2>1. m_fifo' \in Seq(Packets) /\ Len(m_fifo') <= Capacity
    BY <1>2, <1>3 DEF n
  <2>2. dropped' \in SUBSET Packets
    BY <1>2, <1>3 DEF IInv, TypeOK
  <2>3. m_packetCounter' \in 0..MaxPackets
    BY <1>1, <1>2, WebsocketAssumption
  <2>4. QED
    BY <1>1, <2>1, <2>2, <2>3 DEF IInv, TypeOK
<1>5. InBatch' = InBatch
  BY <1>1 DEF InBatch
<1>6. Apart'
  <2>1. \A q \in Packets : q < p => q < p + 1
    BY <1>2 DEF Packets
  <2>2. delivered \cup InBatch \subseteq Packets
    BY Contents DEF IInv, TypeOK
  <2>3. \A q \in delivered \cup InBatch : q < p /\ q < p + 1
    BY <2>1, <2>2 DEF IInv, Apart
  <2>4. p < p + 1 /\ p \notin delivered \cup InBatch
    BY <1>2, <2>3
  <2>5. \A k \in 1..n : /\ m_fifo[k] < p /\ m_fifo[k] < p + 1 /\ m_fifo[k] # p
                        /\ m_fifo[k] \notin delivered \cup InBatch
    BY <1>2, <2>1, Contents DEF IInv, Apart, Packets, n
  <2>6. \A j, k \in 1..n : j # k => m_fifo[j] # m_fifo[k]
    BY DEF IInv, Apart, n
  <2>7. CASE m_fifo' = m_fifo
    BY <1>1, <1>5, <2>3, <2>5, <2>6, <2>7 DEF Apart, n
  <2>8. CASE /\ Len(m_fifo') = n + 1 /\ \A k \in 1..n : m_fifo'[k] = m_fifo[k]
             /\ m_fifo'[n + 1] = p
    <3>1. \A k \in 1..(n + 1) : k \in 1..n \/ k = n + 1
      BY <1>2
    <3>2. \A k \in 1..(n + 1) :
            m_fifo'[k] < p + 1 /\ m_fifo'[k] \notin delivered \cup InBatch
      BY <2>4, <2>5, <2>8, <3>1
    <3>3. \A j, k \in 1..(n + 1) : j # k => m_fifo'[j] # m_fifo'[k]
      BY <2>5, <2>6, <2>8, <3>1
    <3>4. QED
      BY <1>1, <1>5, <2>3, <2>8, <3>2, <3>3 DEF Apart
  <2>9. QED
    BY <1>3, <2>7, <2>8
<1>7. Known' /\ RepeatsExplained'
  BY <1>1, <1>5 DEF IInv, Known, RepeatsExplained
<1>8. QED
  BY <1>4, <1>6, <1>7 DEF IInv

LEMMA ReadQueueStep == ASSUME IInv, ReadQueue PROVE IInv'
<1>1. /\ worker = "loop" /\ websocket_connected
      /\ buffer_write_storage' = Taken(m_fifo, 1) /\ m_fifo' = Left(m_fifo, 1)
      /\ worker' = IF buffer_write_storage' = << >> THEN "check" ELSE "send"
      /\ UNCHANGED << m_packetCounter, m_exit_requested, graph, websocket_connected,
                      dropped, delivered, unanswered, repeated >>
  BY DEF ReadQueue, history
<1> DEFINE n == Len(buffer_write_storage')
           m == Len(m_fifo')
           l == Len(m_fifo)
<1>2. /\ buffer_write_storage' \in Seq(Packets) /\ m_fifo' \in Seq(Packets)
      /\ n = (IF 1 <= l THEN 1 ELSE l)
      /\ m = l - n
      /\ \A k \in 1..n : buffer_write_storage'[k] = m_fifo[k]
      /\ \A k \in 1..m : m_fifo'[k] = m_fifo[n + k]
  <2>1. m_fifo \in Seq(Packets) /\ 1 \in Nat
    BY Contents DEF IInv
  <2>2. /\ Taken(m_fifo, 1) \in Seq(Packets) /\ Left(m_fifo, 1) \in Seq(Packets)
        /\ Len(Taken(m_fifo, 1)) = (IF 1 <= Len(m_fifo) THEN 1 ELSE Len(m_fifo))
        /\ Len(Left(m_fifo, 1)) = Len(m_fifo) - Len(Taken(m_fifo, 1))
        /\ \A k \in 1..Len(Taken(m_fifo, 1)) : Taken(m_fifo, 1)[k] = m_fifo[k]
        /\ \A k \in 1..Len(Left(m_fifo, 1)) :
             Left(m_fifo, 1)[k] = m_fifo[Len(Taken(m_fifo, 1)) + k]
    BY <2>1, TakenLeft
  <2>3. QED
    BY <1>1, <2>2
<1>3. l \in Nat /\ l <= Capacity /\ Capacity \in Nat
  BY Contents DEF IInv
<1>4. n \in Nat /\ n <= 1 /\ n <= l /\ m \in Nat
  BY <1>2, <1>3
<1> HIDE DEF n, m, l
<1>5. /\ \A k \in 1..n : k \in 1..l
      /\ \A k \in 1..m : n + k \in 1..l
      /\ \A j \in 1..n, k \in 1..m : j # n + k
      /\ \A j, k \in 1..m : j # k => n + j # n + k
  BY <1>2, <1>3, <1>4
<1>6. TypeOK'
  <2>1. m <= Capacity
    BY <1>2, <1>3, <1>4
  <2>2. QED
    BY <1>1, <1>2, <1>4, <2>1 DEF IInv, TypeOK, n, m
<1>7. /\ InBatch' \cap delivered = {}
      /\ \A q \in InBatch' : q < m_packetCounter
  BY <1>2, <1>5 DEF IInv, Apart, InBatch, n, l
<1>8. Apart'
  <2>1. \A k \in 1..m : m_fifo'[k] < m_packetCounter /\ m_fifo'[k] \notin delivered
    BY <1>2, <1>5 DEF IInv, Apart, l
  <2>2. \A k \in 1..m : m_fifo'[k] \notin InBatch'
    <3>1. \A j \in 1..n, k \in 1..m : buffer_write_storage'[j] # m_fifo'[k]
      BY <1>2, <1>5 DEF IInv, Apart, l
    <3>2. QED
      BY <3>1 DEF InBatch, n
  <2>3. ASSUME NEW j \in 1..m, NEW k \in 1..m, j # k
        PROVE  m_fifo'[j] # m_fifo'[k]
    <3>1. n + j \in 1..l /\ n + k \in 1..l /\ n + j # n + k
      BY <1>5, <2>3
    <3>2. m_fifo[n + j] # m_fifo[n + k]
      BY <3>1 DEF IInv, Apart, l
    <3>3. m_fifo'[j] = m_fifo[n + j] /\ m_fifo'[k] = m_fifo[n + k]
      BY <1>2
    <3>4. QED
      BY <3>2, <3>3
  <2>4. \A k \in 1..m : m_fifo'[k] < m_packetCounter /\ m_fifo'[k] \notin delivered \cup InBatch'
    BY <2>1, <2>2
  <2>5. \A q \in delivered \cup InBatch' : q < m_packetCounter
    BY <1>7 DEF IInv, Apart
  <2>6. m_packetCounter' = m_packetCounter /\ delivered' = delivered
    BY <1>1
  <2>7. QED
    BY <2>3, <2>4, <2>5, <2>6 DEF Apart, m
<1>9. Known'
  <2>1. buffer_write_storage' = << >> => InBatch' = {}
    BY EmptySeq DEF InBatch
  <2>2. QED
    BY <1>1, <1>7, <2>1 DEF Known
<1>10. RepeatsExplained'
  BY <1>1 DEF IInv, RepeatsExplained
<1>11. QED
  BY <1>6, <1>8, <1>9, <1>10 DEF IInv

LEMMA SendStep == ASSUME IInv, Answered \/ WriteFails \/ ReadFails PROVE IInv'
<1>1. /\ worker = "send" /\ worker' = "check"
      /\ UNCHANGED << m_fifo, m_packetCounter, m_exit_requested, graph,
                      buffer_write_storage, dropped >>
      /\ \/ /\ delivered' = delivered /\ repeated' = repeated /\ unanswered' = unanswered
            /\ ~websocket_connected'
         \/ /\ delivered' = delivered \cup InBatch
            /\ repeated' = repeated \cup (delivered \cap InBatch)
            /\ \/ unanswered' = unanswered /\ websocket_connected' = websocket_connected
               \/ unanswered' = unanswered \cup InBatch /\ ~websocket_connected'
      /\ websocket_connected' \in BOOLEAN
  BY DEF Answered, WriteFails, ReadFails, Finish, Receive, IInv, TypeOK
<1>2. InBatch' = InBatch
  BY <1>1 DEF InBatch
<1>3. websocket_connected /\ InBatch \cap delivered \subseteq unanswered
  BY <1>1 DEF IInv, Known
<1>4. TypeOK'
  BY <1>1, Contents DEF IInv, TypeOK
<1>5. Apart'
  BY <1>1, <1>2 DEF IInv, Apart
<1>6. Known'
  BY <1>1, <1>2, <1>3 DEF Known
<1>7. RepeatsExplained'
  BY <1>1, <1>3 DEF IInv, RepeatsExplained
<1>8. QED
  BY <1>4, <1>5, <1>6, <1>7 DEF IInv

LEMMA NextIInv == IInv /\ [Next]_vars => IInv'
<1> SUFFICES ASSUME IInv, [Next]_vars PROVE IInv'
  OBVIOUS
<1>1. CASE UNCHANGED vars
  <2>1. /\ UNCHANGED << m_fifo, m_packetCounter, buffer_write_storage, history >>
        /\ UNCHANGED << m_exit_requested, graph, worker, websocket_connected >>
    BY <1>1 DEF vars, history
  <2>2. /\ InBatch' = InBatch /\ Apart' /\ RepeatsExplained'
        /\ UNCHANGED << dropped, delivered, unanswered, repeated >>
    BY <2>1, ControlStep
  <2>3. TypeOK' /\ Known'
    BY <2>1, <2>2 DEF IInv, TypeOK, Known
  <2>4. QED
    BY <2>2, <2>3 DEF IInv
<1>2. CASE Next
  BY <1>2, HandlerStep, FlowgraphStep, WorkerControlStep, ReadQueueStep, SendStep
     DEF Next, Worker, Network
<1>3. QED
  BY <1>1, <1>2

\* The inductive invariant holds in every reachable state.
THEOREM Invariance == Spec => []IInv
  BY InitIInv, NextIInv, PTL DEF Spec

\* Every variable of the sink keeps its type.
THEOREM TypeCorrect == Spec => []TypeOK
<1>1. IInv => TypeOK
  BY DEF IInv
<1>2. QED
  BY <1>1, Invariance, PTL

\* The server receives a packet twice only if it had received it before a
\* connection failed.
THEOREM RepeatsHaveCauses == Spec => []RepeatsExplained
<1>1. IInv => RepeatsExplained
  BY DEF IInv
<1>2. QED
  BY <1>1, Invariance, PTL

--------------------------------------------------------------------------------
(* The packet being sent and the queue form the reliable channel of            *)
(* PacketChannel.                                                              *)

SameChannel == UNCHANGED << m_fifo, buffer_write_storage, delivered, dropped >>

LEMMA HandlerMaps ==
  ASSUME IInv, packet_handler PROVE \E p \in Packets : Channel!Accept(p) \/ Channel!Drop(p)
<1> DEFINE p == m_packetCounter
<1>1. /\ m_fifo' = m_fifo \o Accepted(m_fifo, << p >>, Capacity)
      /\ dropped' = IF Len(m_fifo) < Capacity THEN dropped ELSE dropped \cup {p}
      /\ UNCHANGED << buffer_write_storage, delivered >>
  BY DEF packet_handler, wvars
<1>2. p \in Packets
  BY WebsocketAssumption DEF IInv, TypeOK, packet_handler, Packets
<1> HIDE DEF p
<1>3. Accepted(m_fifo, << p >>, Capacity) = IF Len(m_fifo) < Capacity THEN << p >> ELSE << >>
  BY Contents, AcceptedOne DEF IInv
<1>4. CASE Len(m_fifo) < Capacity
  <2>1. Len(buffer_write_storage \o m_fifo) < Capacity + 1
    BY <1>4, Contents DEF IInv
  <2>2. buffer_write_storage' \o m_fifo' = Append(buffer_write_storage \o m_fifo, p)
    <3>1. buffer_write_storage \o (m_fifo \o << p >>) = Append(buffer_write_storage \o m_fifo, p)
      BY <1>2, Contents, BatchAndQueue DEF IInv
    <3>2. m_fifo' = m_fifo \o << p >> /\ buffer_write_storage' = buffer_write_storage
      BY <1>1, <1>3, <1>4
    <3>3. QED
      BY <3>1, <3>2
  <2>3. Channel!Accept(p)
    BY <1>1, <1>4, <2>1, <2>2 DEF Channel!Accept
  <2>4. QED
    BY <1>2, <2>3
<1>5. CASE ~(Len(m_fifo) < Capacity)
  <2>1. Len(buffer_write_storage \o m_fifo) >= Capacity
    BY <1>5, Contents DEF IInv
  <2>2. m_fifo' = m_fifo
    BY <1>1, <1>3, <1>5, Contents, ConcatEmptySeq DEF IInv
  <2>3. Channel!Drop(p)
    BY <1>1, <1>5, <2>1, <2>2 DEF Channel!Drop
  <2>4. QED
    BY <1>2, <2>3
<1>6. QED
  BY <1>4, <1>5

LEMMA ReadQueueMaps ==
  ASSUME IInv, ReadQueue
  PROVE  UNCHANGED Channel!cvars \/ \E n \in Channel!InWindow : Channel!GiveUp(n)
<1> DEFINE n == Len(buffer_write_storage)
           s == buffer_write_storage \o m_fifo
<1>1. /\ worker = "loop" /\ websocket_connected
      /\ buffer_write_storage' = Taken(m_fifo, 1) /\ m_fifo' = Left(m_fifo, 1)
      /\ UNCHANGED << delivered, dropped >>
  BY DEF ReadQueue, history
<1>2. buffer_write_storage' \o m_fifo' = SubSeq(s, n + 1, Len(s))
  BY <1>1, Contents, BatchAndQueue DEF IInv
<1>3. n \in Nat /\ n <= 1 /\ n <= Len(s) /\ Len(s) \in Nat
  BY Contents DEF IInv
<1>4. \A k \in 1..n : s[k] \in delivered
  <2>1. InBatch \subseteq delivered
    BY <1>1 DEF IInv, Known
  <2>2. \A k \in 1..n : s[k] = buffer_write_storage[k]
    BY Contents, BatchAndQueue DEF IInv
  <2>3. QED
    BY <2>1, <2>2 DEF InBatch
<1>5. Channel!GiveUp(n)
  BY <1>1, <1>2, <1>4 DEF Channel!GiveUp
<1>6. CASE n = 0
  <2>1. buffer_write_storage = << >>
    BY <1>6, Contents, EmptySeq DEF IInv
  <2>2. s = m_fifo
    BY <2>1, Contents, ConcatEmptySeq DEF IInv
  <2>3. buffer_write_storage' \o m_fifo' = m_fifo
    BY <1>1, Contents, TakenLeft DEF IInv
  <2>4. QED
    BY <1>1, <2>2, <2>3 DEF Channel!cvars
<1>7. CASE n # 0
  <2>1. n \in 1..Len(s) /\ n <= 1
    BY <1>3, <1>7
  <2>2. n \in Channel!InWindow
    BY <2>1 DEF Channel!InWindow
  <2>3. QED
    BY <1>5, <2>2
<1>8. QED
  BY <1>6, <1>7

LEMMA ReceiveMaps ==
  ASSUME IInv, Answered \/ ReadFails
  PROVE  \E n \in Channel!InWindow : Channel!Deliver(n)
<1> DEFINE s == buffer_write_storage \o m_fifo
<1>1. /\ worker = "send"
      /\ delivered' = delivered \cup InBatch
      /\ UNCHANGED << m_fifo, buffer_write_storage, dropped >>
  BY DEF Answered, ReadFails, Finish, Receive
<1>2. buffer_write_storage # << >>
  BY <1>1 DEF IInv, Known
<1>3. Len(buffer_write_storage) = 1
  <2> DEFINE n == Len(buffer_write_storage)
  <2>1. /\ buffer_write_storage \in Seq(Packets)
        /\ n \in Nat /\ n <= 1
    BY Contents DEF IInv
  <2>2. n \in Nat \ {0}
    BY <1>2, <2>1, EmptySeq
  <2> HIDE DEF n
  <2>3. n = 1
    BY <2>1, <2>2
  <2>4. QED
    BY <2>3 DEF n
<1>4. InBatch = {buffer_write_storage[1]}
  BY <1>3 DEF InBatch
<1>5. s[1] = buffer_write_storage[1] /\ 1 \in 1..Len(s)
  BY <1>3, Contents, BatchAndQueue DEF IInv
<1>6. Channel!Deliver(1)
  BY <1>1, <1>4, <1>5 DEF Channel!Deliver
<1>7. 1 \in Channel!InWindow
  BY <1>5 DEF Channel!InWindow
<1>8. QED
  BY <1>6, <1>7

LEMMA NextMaps == IInv /\ [Next]_vars => [Channel!Next]_(Channel!cvars)
<1> SUFFICES ASSUME IInv, [Next]_vars PROVE [Channel!Next]_(Channel!cvars)
  OBVIOUS
<1>1. SameChannel => UNCHANGED Channel!cvars
  BY DEF SameChannel, Channel!cvars
<1>2. CASE UNCHANGED vars
  BY <1>1, <1>2 DEF vars, SameChannel
<1>3. CASE packet_handler
  BY <1>3, HandlerMaps DEF Channel!Next
<1>4. CASE ReadQueue
  BY <1>4, ReadQueueMaps DEF Channel!Next
<1>5. CASE Answered \/ ReadFails
  BY <1>5, ReceiveMaps DEF Channel!Next
<1>6. CASE StartStop \/ threadTransferDeInit \/ Join
  BY <1>1, <1>6 DEF StartStop, threadTransferDeInit, Join, SameChannel, wvars, history
<1>7. CASE Start \/ CheckExit \/ Close \/ WriteFails
  BY <1>1, <1>7 DEF Start, CheckExit, Close, WriteFails, Finish, SameChannel, history
<1>8. CASE \E connected \in BOOLEAN : Open(connected) \/ Reconnect(connected)
  BY <1>1, <1>8 DEF Open, Reconnect, SameChannel, history
<1>9. QED
  BY <1>2, <1>3, <1>4, <1>5, <1>6, <1>7, <1>8 DEF Next, Worker, Network

\* From the handler to the server the sink is an ordered, bounded channel that
\* gives up a packet only after the server received it.
THEOREM Refinement == Spec => RefinesChannel
<1>1. Init => Channel!Init
  <2> SUFFICES ASSUME Init PROVE Channel!Init
    OBVIOUS
  <2>1. << >> \o << >> = << >>
    BY ConcatEmptySeq, EmptySeq
  <2>2. QED
    BY <2>1 DEF Init, Channel!Init
<1>2. QED
  BY <1>1, NextMaps, Invariance, PTL DEF Spec, RefinesChannel, Channel!Spec
================================================================================
