------------------------- MODULE HttpTransferSinkProofs -------------------------
(* What holds of HttpTransferSink for every capacity, batch size and number of *)
(* packets: its types, that every loss and every repetition has its cause,     *)
(* that a stopped sink is silent, and that the sink implements PacketChannel.  *)
EXTENDS HttpTransferSink, FifoLemmas

\* Packets are numbered in the order they arrive, and are queued, read and
\* posted in that order; the queue holds nothing that was delivered.
InOrder ==
  /\ \A k \in 1..Len(m_fifo) : m_fifo[k] <= arrived /\ m_fifo[k] \notin delivered
  /\ \A k \in 1..Len(buffer_write_storage) : buffer_write_storage[k] <= arrived
  /\ \A j, k \in 1..Len(m_fifo) : j < k => m_fifo[j] < m_fifo[k]
  /\ \A j, k \in 1..Len(buffer_write_storage) :
       j < k => buffer_write_storage[j] < buffer_write_storage[k]
  /\ \A j \in 1..Len(buffer_write_storage), k \in 1..Len(m_fifo) :
       buffer_write_storage[j] < m_fifo[k]
  /\ \A p \in delivered : p <= arrived

\* The worker posts only from a batch it has, and remembers it.
Batched ==
  /\ worker = "start" => buffer_write_storage = << >>
  /\ worker \in {"connect", "post"} => buffer_write_storage # << >>
  /\ worker = "post" => i <= Len(buffer_write_storage)
  /\ buffer_write_storage # << >> => InBatch \in batches

BatchRefused == \E q \in InBatch : q \in refused

\* A batch that is posted again has seen a refusal.
Retried ==
  /\ ~data_sent_success => BatchRefused
  /\ worker = "connect" => \A p \in InBatch : p \in delivered => BatchRefused
  /\ worker = "post" =>
       \A k \in i..Len(buffer_write_storage) :
         buffer_write_storage[k] \in delivered => BatchRefused

Settled(p) ==
  \/ p \in delivered
  \/ p \in cut
  \/ p \in refused /\ \E q \in InBatch : q \in delivered /\ p < q

\* A pass answers the packets one by one, and one that ends with a success has
\* settled all of them.
Answered ==
  /\ worker = "post" =>
       \A k \in 1..(i - 1) : buffer_write_storage[k] \in delivered \cup refused
  /\ worker \in {"read", "check"} /\ data_sent_success => \A p \in InBatch : Settled(p)

\* Outside stop() the exit flag is set only after the worker has ended.
Silenced == m_exit_requested /\ graph # "stopping" => worker = "done"

IInv ==
  /\ TypeOK
  /\ InOrder
  /\ Batched
  /\ Retried
  /\ Answered
  /\ Silenced
  /\ LossesExplained
  /\ RepeatsExplained
--------------------------------------------------------------------------------

LEMMA Contents ==
  ASSUME TypeOK
  PROVE  /\ m_fifo \in Seq(Packets) /\ Len(m_fifo) \in Nat
         /\ buffer_write_storage \in Seq(Packets) /\ Len(buffer_write_storage) \in Nat
         /\ \A k \in 1..Len(m_fifo) : m_fifo[k] \in Packets
         /\ \A k \in 1..Len(buffer_write_storage) : buffer_write_storage[k] \in Packets
         /\ arrived \in Nat /\ i \in Nat \ {0}
         /\ InQueue \subseteq Packets /\ InBatch \subseteq Packets
  BY SinkAssumption, LenProperties, ElementOfSeq DEF TypeOK, InQueue, InBatch, Packets

LEMMA InitIInv == Init => IInv
<1> SUFFICES ASSUME Init PROVE IInv
  OBVIOUS
<1>1. TypeOK
  <2>1. << >> \in Seq(Packets) /\ Len(<< >>) = 0
    BY EmptySeq
  <2>2. 0 <= Capacity /\ 0 <= BatchSize /\ 1 \in 1..BatchSize /\ 0 \in 0..MaxPackets
    BY SinkAssumption
  <2>3. QED
    BY <2>1, <2>2 DEF Init, TypeOK
<1>2. InBatch = {} /\ InQueue = {} /\ Lost = {}
  BY DEF Init, InBatch, InQueue, Lost
<1>3. InOrder /\ Batched /\ Silenced
  BY DEF Init, InOrder, Batched, Silenced
<1>4. Retried /\ Answered
  BY <1>2 DEF Init, Retried, Answered
<1>5. LossesExplained /\ RepeatsExplained
  BY <1>2 DEF Init, LossesExplained, RepeatsExplained
<1>6. QED
  BY <1>1, <1>3, <1>4, <1>5 DEF IInv

\* A step of control alone: nothing moves and nothing is answered.
LEMMA ControlStep ==
  ASSUME IInv, UNCHANGED << m_fifo, buffer_write_storage, history >>
  PROVE  /\ InOrder' /\ LossesExplained' /\ RepeatsExplained'
         /\ InBatch' = InBatch
         /\ BatchRefused' = BatchRefused
         /\ \A p : Settled(p)' = Settled(p)
         /\ UNCHANGED << arrived, dropped, batches, delivered, refused, cut, repeated >>
<1>1. UNCHANGED << m_fifo, buffer_write_storage, arrived, dropped, batches, delivered,
                   refused, cut, repeated >>
  BY DEF history
<1>2. InBatch' = InBatch /\ InQueue' = InQueue
  BY <1>1 DEF InBatch, InQueue
<1>3. InOrder'
  BY <1>1 DEF IInv, InOrder
<1>4. Lost' = Lost /\ \A p, q : SameBatch(p, q)' = SameBatch(p, q)
  BY <1>1, <1>2 DEF Lost, SameBatch
<1>5. LossesExplained'
  BY <1>1, <1>4 DEF IInv, LossesExplained
<1>6. RepeatsExplained'
  BY <1>1, <1>4 DEF IInv, RepeatsExplained
<1>7. BatchRefused' = BatchRefused /\ \A p : Settled(p)' = Settled(p)
  BY <1>1, <1>2 DEF BatchRefused, Settled
<1>8. QED
  BY <1>1, <1>2, <1>3, <1>5, <1>6, <1>7

LEMMA SchedulerStep ==
  ASSUME IInv, threadTransferDeInit \/ Join \/ Restart PROVE IInv'
<1>1. UNCHANGED << m_fifo, wvars, history >>
  BY DEF threadTransferDeInit, Join, Restart
<1>2. UNCHANGED << worker, buffer_write_storage, i, data_sent_success >>
  BY <1>1 DEF wvars
<1>3. /\ InOrder' /\ LossesExplained' /\ RepeatsExplained'
      /\ InBatch' = InBatch /\ BatchRefused' = BatchRefused
      /\ \A p : Settled(p)' = Settled(p)
      /\ UNCHANGED << arrived, dropped, batches, delivered, refused, cut, repeated >>
  BY <1>1, <1>2, ControlStep
<1>4. TypeOK'
  BY <1>1, <1>2, <1>3 DEF IInv, TypeOK, threadTransferDeInit, Join, Restart
<1>5. Batched' /\ Retried' /\ Answered'
  BY <1>2, <1>3 DEF IInv, Batched, Retried, Answered
<1>6. Silenced'
  BY <1>2 DEF IInv, Silenced, threadTransferDeInit, Join, Restart
<1>7. QED
  BY <1>3, <1>4, <1>5, <1>6 DEF IInv

LEMMA StartStep == ASSUME IInv, Start PROVE IInv'
<1>1. /\ worker = "start" /\ worker' \in {"done", "read"}
      /\ UNCHANGED << m_fifo, m_exit_requested, graph, buffer_write_storage, i,
                      data_sent_success, history >>
  BY DEF Start
<1>2. /\ InOrder' /\ LossesExplained' /\ RepeatsExplained'
      /\ InBatch' = InBatch /\ BatchRefused' = BatchRefused
      /\ \A p : Settled(p)' = Settled(p)
      /\ UNCHANGED << arrived, dropped, batches, delivered, refused, cut, repeated >>
  BY <1>1, ControlStep
<1>3. TypeOK'
  BY <1>1, <1>2 DEF IInv, TypeOK
<1>4. InBatch = {}
  BY <1>1 DEF IInv, Batched, InBatch
<1>5. Batched' /\ Retried' /\ Answered'
  BY <1>1, <1>2, <1>4 DEF IInv, Batched, Retried, Answered
<1>6. Silenced'
  BY <1>1 DEF IInv, Silenced
<1>7. QED
  BY <1>2, <1>3, <1>5, <1>6 DEF IInv

LEMMA CheckExitStep == ASSUME IInv, CheckExit PROVE IInv'
<1>1. /\ worker = "check" /\ worker' \in {"done", "read"}
      /\ UNCHANGED << m_fifo, m_exit_requested, graph, buffer_write_storage, i,
                      data_sent_success, history >>
  BY DEF CheckExit
<1>2. /\ InOrder' /\ LossesExplained' /\ RepeatsExplained'
      /\ InBatch' = InBatch /\ BatchRefused' = BatchRefused
      /\ \A p : Settled(p)' = Settled(p)
      /\ UNCHANGED << arrived, dropped, batches, delivered, refused, cut, repeated >>
  BY <1>1, ControlStep
<1>3. TypeOK'
  BY <1>1, <1>2 DEF IInv, TypeOK
<1>4. Batched' /\ Retried' /\ Answered'
  BY <1>1, <1>2 DEF IInv, Batched, Retried, Answered
<1>5. Silenced'
  BY <1>1 DEF IInv, Silenced
<1>6. QED
  BY <1>2, <1>3, <1>4, <1>5 DEF IInv

LEMMA ConnectStep == ASSUME IInv, Connect PROVE IInv'
<1>1. /\ worker = "connect" /\ worker' = "post" /\ i' = 1
      /\ UNCHANGED << m_fifo, m_exit_requested, graph, buffer_write_storage,
                      data_sent_success, history >>
  BY DEF Connect
<1>2. /\ InOrder' /\ LossesExplained' /\ RepeatsExplained'
      /\ InBatch' = InBatch /\ BatchRefused' = BatchRefused
      /\ \A p : Settled(p)' = Settled(p)
      /\ UNCHANGED << arrived, dropped, batches, delivered, refused, cut, repeated >>
  BY <1>1, ControlStep
<1>3. TypeOK'
  BY <1>1, <1>2, SinkAssumption DEF IInv, TypeOK
<1>4. buffer_write_storage \in Seq(Packets) /\ buffer_write_storage # << >>
  BY <1>1 DEF IInv, TypeOK, Batched
<1>5. Len(buffer_write_storage) >= 1
  BY <1>4, EmptySeq
<1>6. Batched'
  BY <1>1, <1>2, <1>4, <1>5 DEF IInv, Batched
<1>7. \A k \in 1..Len(buffer_write_storage) : buffer_write_storage[k] \in InBatch
  BY DEF InBatch
<1>8. Retried'
  BY <1>1, <1>2, <1>7 DEF IInv, Retried
<1>9. Answered'
  BY <1>1, <1>2 DEF IInv, Answered
<1>10. Silenced'
  BY <1>1 DEF IInv, Silenced
<1>11. QED
  BY <1>2, <1>3, <1>6, <1>8, <1>9, <1>10 DEF IInv
\* Only what was in the batch and is not any more becomes lost, and a packet
\* that was lost with a cause keeps it.
LEMMA CausesStay ==
  ASSUME IInv,
         delivered \subseteq delivered', refused \subseteq refused',
         cut \subseteq cut', batches \subseteq batches',
         \A p \in Lost' :
           \/ p \in Lost
           \/ p \in cut'
           \/ /\ p \in refused'
              /\ \E q \in delivered', batch \in batches' : p < q /\ {p, q} \subseteq batch,
         \A p \in repeated' :
           \/ p \in repeated
           \/ \E q \in refused', batch \in batches' : {p, q} \subseteq batch
  PROVE  LossesExplained' /\ RepeatsExplained'
<1>2. LossesExplained'
  BY DEF IInv, LossesExplained, SameBatch
<1>3. RepeatsExplained'
  BY DEF IInv, RepeatsExplained, SameBatch
<1>4. QED
  BY <1>2, <1>3

LEMMA HandlerStep == ASSUME IInv, packet_handler PROVE IInv'
<1> DEFINE p == arrived + 1
<1>1. /\ graph = "running" /\ arrived < MaxPackets /\ arrived' = p
      /\ m_fifo' = m_fifo \o Accepted(m_fifo, << p >>, Capacity)
      /\ dropped' = IF Len(m_fifo) < Capacity THEN dropped ELSE dropped \cup {p}
      /\ UNCHANGED << m_exit_requested, graph, worker, buffer_write_storage, i,
                      data_sent_success, batches, delivered, refused, cut, repeated >>
  BY DEF packet_handler, wvars
<1>2. /\ m_fifo \in Seq(Packets) /\ Len(m_fifo) \in Nat /\ Len(m_fifo) <= Capacity
      /\ \A k \in 1..Len(m_fifo) : m_fifo[k] \in Packets
      /\ \A k \in 1..Len(buffer_write_storage) : buffer_write_storage[k] \in Packets
      /\ Len(buffer_write_storage) \in Nat
      /\ arrived \in Nat
  BY Contents DEF IInv, TypeOK
<1>3. p \in Packets /\ p \in Nat
  BY <1>1, <1>2, SinkAssumption DEF Packets
<1>4. \/ /\ Len(m_fifo) < Capacity
         /\ m_fifo' \in Seq(Packets)
         /\ Len(m_fifo') = Len(m_fifo) + 1
         /\ \A k \in 1..Len(m_fifo) : m_fifo'[k] = m_fifo[k]
         /\ m_fifo'[Len(m_fifo) + 1] = p
         /\ dropped' = dropped
      \/ m_fifo' = m_fifo /\ dropped' = dropped \cup {p}
  <2>1. Accepted(m_fifo, << p >>, Capacity) = IF Len(m_fifo) < Capacity THEN << p >> ELSE << >>
    BY <1>2, SinkAssumption, AcceptedOne
  <2>2. CASE Len(m_fifo) < Capacity
    <3>1. m_fifo' = m_fifo \o << p >> /\ dropped' = dropped
      BY <1>1, <2>1, <2>2
    <3>2. m_fifo \o << p >> = Append(m_fifo, p)
      BY <1>2, <1>3, AppendIsConcat
    <3>3. QED
      BY <1>2, <1>3, <2>2, <3>1, <3>2, AppendProperties
  <2>3. CASE ~(Len(m_fifo) < Capacity)
    BY <1>1, <1>2, <2>1, <2>3, ConcatEmptySeq
  <2>4. QED
    BY <2>2, <2>3
<1>5. TypeOK'
  <2>1. m_fifo' \in Seq(Packets) /\ Len(m_fifo') <= Capacity
    BY <1>2, <1>4, SinkAssumption
  <2>2. dropped' \in SUBSET Packets
    BY <1>3, <1>4 DEF IInv, TypeOK
  <2>3. arrived' \in 0..MaxPackets
    BY <1>1, <1>3 DEF Packets
  <2>4. QED
    BY <1>1, <2>1, <2>2, <2>3 DEF IInv, TypeOK
<1>6. /\ \A k \in 1..Len(m_fifo) : m_fifo[k] < p /\ m_fifo[k] \notin delivered
      /\ \A k \in 1..Len(buffer_write_storage) : buffer_write_storage[k] < p
      /\ \A q \in delivered : q < p /\ q <= p
  <2>1. \A q \in Packets : q \in Nat
    BY DEF Packets
  <2>2. delivered \subseteq Packets
    BY DEF IInv, TypeOK
  <2>3. \A q \in Nat : q <= arrived => q < p
    BY <1>2
  <2>4. QED
    BY <1>2, <1>3, <2>1, <2>2, <2>3 DEF IInv, InOrder
<1>7. InOrder'
  <2>0. \A q \in Packets : q < p => q <= p
    BY <1>3 DEF Packets
  <2>1. \A k \in 1..Len(m_fifo') : m_fifo'[k] <= p /\ m_fifo'[k] \notin delivered
    <3>1. p <= p /\ p \notin delivered
      BY <1>3, <1>6
    <3>2. \A k \in 1..Len(m_fifo) : m_fifo[k] <= p /\ m_fifo[k] \notin delivered
      BY <1>2, <1>6, <2>0
    <3>3. \A k \in 1..Len(m_fifo') : k \in 1..Len(m_fifo) \/ m_fifo'[k] = p \/ m_fifo' = m_fifo
      BY <1>2, <1>4
    <3>4. QED
      BY <1>4, <3>1, <3>2, <3>3
  <2>2. \A k \in 1..Len(buffer_write_storage) : buffer_write_storage[k] <= p
    BY <1>2, <1>6, <2>0
  <2>3. \A j, k \in 1..Len(m_fifo') : j < k => m_fifo'[j] < m_fifo'[k]
    BY <1>2, <1>3, <1>4, <1>6 DEF IInv, InOrder
  <2>4. \A j \in 1..Len(buffer_write_storage), k \in 1..Len(m_fifo') :
           buffer_write_storage[j] < m_fifo'[k]
    BY <1>2, <1>4, <1>6 DEF IInv, InOrder
  <2>5. QED
    BY <1>1, <1>6, <2>1, <2>2, <2>3, <2>4 DEF IInv, InOrder
<1>8. InBatch' = InBatch /\ BatchRefused' = BatchRefused /\ \A q : Settled(q)' = Settled(q)
  BY <1>1 DEF InBatch, BatchRefused, Settled
<1>9. Batched' /\ Retried' /\ Answered' /\ Silenced'
  BY <1>1, <1>8 DEF IInv, Batched, Retried, Answered, Silenced
<1>10. InQueue \subseteq InQueue' /\ (p \in InQueue' \/ p \in dropped') /\ dropped \subseteq dropped'
  BY <1>2, <1>4 DEF InQueue
<1>11. Lost' \subseteq Lost
  BY <1>1, <1>2, <1>8, <1>10 DEF Lost
<1>12. LossesExplained' /\ RepeatsExplained'
  <2>1. /\ delivered \subseteq delivered' /\ refused \subseteq refused'
        /\ cut \subseteq cut' /\ batches \subseteq batches'
    BY <1>1
  <2>2. \A q \in Lost' : q \in Lost
    BY <1>11
  <2>3. \A q \in repeated' : q \in repeated
    BY <1>1
  <2>4. QED
    BY <2>1, <2>2, <2>3, CausesStay
<1>13. QED
  BY <1>5, <1>7, <1>9, <1>12 DEF IInv

LEMMA ReadQueueStep == ASSUME IInv, ReadQueue PROVE IInv'
<1>1. /\ worker = "read"
      /\ worker' = IF buffer_write_storage' = << >> THEN "check" ELSE "connect"
      /\ UNCHANGED << m_exit_requested, graph, i, data_sent_success, arrived, dropped,
                      delivered, refused, cut, repeated >>
  BY DEF ReadQueue
<1>2. CASE ~data_sent_success
  <2>1. UNCHANGED << m_fifo, buffer_write_storage, batches >>
    BY <1>2 DEF ReadQueue
  <2>2. /\ InOrder' /\ LossesExplained' /\ RepeatsExplained'
        /\ InBatch' = InBatch /\ BatchRefused' = BatchRefused
        /\ \A p : Settled(p)' = Settled(p)
    BY <1>1, <2>1, ControlStep DEF history
  <2>3. buffer_write_storage # << >>
    BY <1>2 DEF IInv, Retried, BatchRefused, InBatch
  <2>4. TypeOK'
    BY <1>1, <2>1 DEF IInv, TypeOK
  <2>5. Batched' /\ Retried' /\ Answered' /\ Silenced'
    BY <1>1, <1>2, <2>1, <2>2, <2>3 DEF IInv, Batched, Retried, Answered, Silenced
  <2>6. QED
    BY <2>2, <2>4, <2>5 DEF IInv
<1>3. CASE data_sent_success
  <2>1. /\ buffer_write_storage' = Taken(m_fifo, BatchSize)
        /\ m_fifo' = Left(m_fifo, BatchSize)
        /\ batches' = batches \cup {InBatch'}
    BY <1>3 DEF ReadQueue
  <2>2. /\ m_fifo \in Seq(Packets) /\ Len(m_fifo) \in Nat /\ Len(m_fifo) <= Capacity
        /\ \A k \in 1..Len(m_fifo) : m_fifo[k] \in Packets
    BY Contents DEF IInv, TypeOK
  <2>3. /\ buffer_write_storage' \in Seq(Packets) /\ m_fifo' \in Seq(Packets)
        /\ Len(buffer_write_storage') = (IF BatchSize <= Len(m_fifo) THEN BatchSize ELSE Len(m_fifo))
        /\ Len(m_fifo') = Len(m_fifo) - Len(buffer_write_storage')
        /\ \A k \in 1..Len(buffer_write_storage') : buffer_write_storage'[k] = m_fifo[k]
        /\ \A k \in 1..Len(m_fifo') : m_fifo'[k] = m_fifo[Len(buffer_write_storage') + k]
    BY <2>1, <2>2, SinkAssumption, TakenLeft
  <2> DEFINE n == Len(buffer_write_storage')
  <2>4. n \in Nat /\ n <= Len(m_fifo) /\ n <= BatchSize /\ Len(m_fifo') = Len(m_fifo) - n
    BY <2>2, <2>3, SinkAssumption
  <2> HIDE DEF n
  <2>5. \A k \in 1..n : k \in 1..Len(m_fifo) /\ buffer_write_storage'[k] = m_fifo[k]
    BY <2>2, <2>3, <2>4 DEF n
  <2>6. \A k \in 1..(Len(m_fifo) - n) : n + k \in 1..Len(m_fifo) /\ m_fifo'[k] = m_fifo[n + k]
    BY <2>2, <2>3, <2>4 DEF n
  <2>7. TypeOK'
    <3>1. InBatch' \subseteq Packets
      BY <2>2, <2>5 DEF InBatch, n
    <3>2. batches' \in SUBSET SUBSET Packets
      BY <2>1, <3>1 DEF IInv, TypeOK
    <3>3. Len(m_fifo') <= Capacity /\ Len(buffer_write_storage') <= BatchSize
      BY <2>2, <2>4, SinkAssumption DEF n
    <3>4. QED
      BY <1>1, <2>3, <3>2, <3>3 DEF IInv, TypeOK
  <2>8. InOrder'
    <3>1. \A k \in 1..Len(m_fifo') : m_fifo'[k] <= arrived /\ m_fifo'[k] \notin delivered
      BY <2>4, <2>6 DEF IInv, InOrder
    <3>2. \A k \in 1..n : buffer_write_storage'[k] <= arrived
      BY <2>5 DEF IInv, InOrder
    <3>3. \A j, k \in 1..Len(m_fifo') : j < k => m_fifo'[j] < m_fifo'[k]
      <4>1. \A j, k \in 1..(Len(m_fifo) - n) : j < k => n + j < n + k
        BY <2>2, <2>4
      <4>2. QED
        BY <2>4, <2>6, <4>1 DEF IInv, InOrder
    <3>4. \A j, k \in 1..n : j < k => buffer_write_storage'[j] < buffer_write_storage'[k]
      BY <2>5 DEF IInv, InOrder
    <3>5. \A j \in 1..n, k \in 1..Len(m_fifo') : buffer_write_storage'[j] < m_fifo'[k]
      <4>1. \A j \in 1..n, k \in 1..(Len(m_fifo) - n) : j < n + k
        BY <2>2, <2>4
      <4>2. QED
        BY <2>4, <2>5, <2>6, <4>1 DEF IInv, InOrder
    <3>6. QED
      BY <1>1, <3>1, <3>2, <3>3, <3>4, <3>5 DEF IInv, InOrder, n
  <2>9. Batched'
    BY <1>1, <2>1 DEF Batched
  <2>10. \A p \in InBatch' : p \notin delivered
    BY <2>5 DEF IInv, InOrder, InBatch, n
  <2>11. Retried'
    BY <1>1, <1>3, <2>10 DEF Retried
  <2>12. Answered'
    <3>1. worker' = "check" => InBatch' = {}
      BY <1>1 DEF InBatch
    <3>2. QED
      BY <1>1, <3>1 DEF Answered
  <2>13. Silenced'
    BY <1>1 DEF IInv, Silenced
  <2>14. InQueue = InQueue' \cup InBatch'
    <3>1. \A k \in 1..Len(m_fifo) : k \in 1..n \/ (k - n \in 1..(Len(m_fifo) - n) /\ n + (k - n) = k)
      BY <2>2, <2>4
    <3>2. ASSUME NEW k \in 1..Len(m_fifo)
          PROVE  m_fifo[k] \in InQueue' \cup InBatch'
      <4>1. CASE k \in 1..n
        BY <2>5, <4>1 DEF InBatch, n
      <4>2. CASE k - n \in 1..(Len(m_fifo) - n) /\ n + (k - n) = k
        BY <2>4, <2>6, <4>2 DEF InQueue
      <4>3. QED
        BY <3>1, <4>1, <4>2
    <3>3. InQueue' \subseteq InQueue /\ InBatch' \subseteq InQueue
      BY <2>4, <2>5, <2>6 DEF InQueue, InBatch, n
    <3>4. QED
      BY <3>2, <3>3 DEF InQueue
  <2>15. \A p \in Lost' : p \in Lost \/ (p \in InBatch /\ p \notin delivered)
    BY <1>1, <2>14 DEF Lost
  <2>16. \A p \in InBatch : Settled(p) /\ InBatch \in batches
    <3>1. \A p \in InBatch : buffer_write_storage # << >>
      BY DEF InBatch
    <3>2. QED
      BY <1>1, <1>3, <3>1 DEF IInv, Answered, Batched
  <2>17. ASSUME NEW p \in Lost'
         PROVE  \/ p \in Lost \/ p \in cut'
                \/ /\ p \in refused'
                   /\ \E q \in delivered', batch \in batches' : p < q /\ {p, q} \subseteq batch
    <3>1. CASE p \in Lost
      BY <3>1
    <3>2. CASE p \in InBatch /\ p \notin delivered
      <4>1. p \in cut \/ (p \in refused /\ \E q \in InBatch : q \in delivered /\ p < q)
        BY <2>16, <3>2 DEF Settled
      <4>2. \A q \in InBatch : InBatch \in batches' /\ {p, q} \subseteq InBatch
        BY <2>1, <2>16, <3>2
      <4>3. QED
        BY <1>1, <4>1, <4>2
    <3>3. QED
      BY <2>15, <3>1, <3>2
  <2>18. LossesExplained' /\ RepeatsExplained'
    <3>1. /\ delivered \subseteq delivered' /\ refused \subseteq refused'
          /\ cut \subseteq cut' /\ batches \subseteq batches'
      BY <1>1, <2>1
    <3>2. \A p \in repeated' : p \in repeated
      BY <1>1
    <3>3. QED
      BY <2>17, <3>1, <3>2, CausesStay
  <2>19. QED
    BY <2>7, <2>8, <2>9, <2>11, <2>12, <2>13, <2>18 DEF IInv
<1>4. QED
  BY <1>2, <1>3
\* The packet being posted comes from the batch, after the packets posted
\* before it and before everything in the queue.
LEMMA Posting ==
  ASSUME IInv, worker = "post"
  PROVE  /\ i \in 1..Len(buffer_write_storage) /\ Len(buffer_write_storage) \in Nat
         /\ Len(buffer_write_storage) <= BatchSize
         /\ buffer_write_storage[i] \in InBatch
         /\ buffer_write_storage[i] \in Packets
         /\ buffer_write_storage[i] <= arrived
         /\ \A k \in 1..Len(m_fifo) : m_fifo[k] # buffer_write_storage[i]
         /\ \A k \in 1..Len(buffer_write_storage) :
              k # i => buffer_write_storage[k] # buffer_write_storage[i]
         /\ \A k \in 1..(i - 1) : buffer_write_storage[k] < buffer_write_storage[i]
         /\ InBatch \in batches
<1>1. /\ Len(buffer_write_storage) \in Nat /\ i \in Nat \ {0}
      /\ Len(m_fifo) \in Nat
      /\ \A k \in 1..Len(m_fifo) : m_fifo[k] \in Packets
      /\ \A k \in 1..Len(buffer_write_storage) : buffer_write_storage[k] \in Packets
  BY Contents DEF IInv
<1>2. /\ i \in 1..Len(buffer_write_storage) /\ InBatch \in batches
      /\ Len(buffer_write_storage) <= BatchSize
  BY <1>1 DEF IInv, Batched, TypeOK
<1>3. /\ buffer_write_storage[i] \in InBatch
      /\ buffer_write_storage[i] \in Packets
      /\ buffer_write_storage[i] <= arrived
  BY <1>1, <1>2 DEF InBatch, IInv, InOrder
<1>4. \A p, q \in Packets : p < q => p # q
  BY DEF Packets
<1>5. \A k \in 1..Len(m_fifo) : m_fifo[k] # buffer_write_storage[i]
  BY <1>1, <1>2, <1>4 DEF IInv, InOrder
<1>6. \A k \in 1..(i - 1) : buffer_write_storage[k] < buffer_write_storage[i]
  <2>1. \A k \in 1..(i - 1) : k \in 1..Len(buffer_write_storage) /\ k < i
    BY <1>1, <1>2
  <2>2. QED
    BY <1>2, <2>1 DEF IInv, InOrder
<1>7. ASSUME NEW k \in 1..Len(buffer_write_storage), k # i
      PROVE  buffer_write_storage[k] # buffer_write_storage[i]
  <2>1. k < i \/ i < k
    BY <1>1, <1>7
  <2>2. QED
    BY <1>1, <1>2, <1>4, <2>1 DEF IInv, InOrder
<1>8. QED
  BY <1>1, <1>2, <1>3, <1>5, <1>6, <1>7

\* A delivery, from a batch that stays as it is.
LEMMA DeliverFacts ==
  ASSUME IInv, worker = "post", Deliver,
         UNCHANGED << m_fifo, buffer_write_storage, arrived, dropped, batches >>
  PROVE  /\ delivered' = delivered \cup {buffer_write_storage[i]}
         /\ delivered' \in SUBSET Packets /\ repeated' \in SUBSET Packets
         /\ InOrder'
         /\ Lost' \subseteq Lost
         /\ \A p \in repeated' :
              \/ p \in repeated
              \/ \E q \in refused, batch \in batches : {p, q} \subseteq batch
<1> DEFINE b == buffer_write_storage[i]
<1>1. delivered' = delivered \cup {b} /\ repeated' = IF b \in delivered THEN repeated \cup {b} ELSE repeated
  BY DEF Deliver
<1>2. /\ b \in InBatch /\ b \in Packets /\ b <= arrived
      /\ \A k \in 1..Len(m_fifo) : m_fifo[k] # b
      /\ InBatch \in batches /\ i \in 1..Len(buffer_write_storage)
      /\ Len(buffer_write_storage) \in Nat
  BY Posting
<1>3. delivered' \in SUBSET Packets /\ repeated' \in SUBSET Packets
  BY <1>1, <1>2 DEF IInv, TypeOK
<1>4. InOrder'
  BY <1>1, <1>2 DEF IInv, InOrder
<1>5. InQueue' = InQueue /\ InBatch' = InBatch
  BY DEF InQueue, InBatch
<1>6. Lost' \subseteq Lost
  BY <1>1, <1>5 DEF Lost
<1>7. b \in delivered => \E q \in InBatch : q \in refused
  <2>1. i \in i..Len(buffer_write_storage)
    BY <1>2
  <2>2. QED
    BY <2>1 DEF IInv, Retried, BatchRefused
<1>8. QED
  BY <1>1, <1>2, <1>3, <1>4, <1>6, <1>7

\* An exception: the whole batch counts as cut short.
LEMMA ThrowStep == ASSUME IInv, ConnectFails \/ RequestLost \/ ResponseLost PROVE IInv'
<1>1. /\ worker \in {"connect", "post"} /\ worker' = "check"
      /\ cut' = cut \cup InBatch
      /\ UNCHANGED << m_fifo, m_exit_requested, graph, buffer_write_storage, i,
                      data_sent_success, arrived, dropped, batches, refused >>
  BY DEF ConnectFails, RequestLost, ResponseLost, Throw
<1>2. /\ delivered \subseteq delivered'
      /\ delivered' \in SUBSET Packets /\ repeated' \in SUBSET Packets
      /\ InOrder'
      /\ Lost' \subseteq Lost
      /\ \A p \in repeated' :
           \/ p \in repeated
           \/ \E q \in refused, batch \in batches : {p, q} \subseteq batch
  <2>1. CASE UNCHANGED << delivered, repeated >>
    <3>1. InQueue' = InQueue /\ InBatch' = InBatch
      BY <1>1 DEF InQueue, InBatch
    <3>2. InOrder'
      BY <1>1, <2>1 DEF IInv, InOrder
    <3>3. Lost' \subseteq Lost
      BY <1>1, <2>1, <3>1 DEF Lost
    <3>4. QED
      BY <2>1, <3>2, <3>3 DEF IInv, TypeOK
  <2>2. CASE worker = "post" /\ Deliver
    BY <1>1, <2>2, DeliverFacts
  <2>3. QED
    BY <2>1, <2>2 DEF ConnectFails, RequestLost, ResponseLost
<1>3. InBatch' = InBatch /\ BatchRefused' = BatchRefused
  BY <1>1 DEF InBatch, BatchRefused
<1>4. TypeOK'
  <2>1. InBatch \subseteq Packets
    BY Contents DEF IInv
  <2>2. QED
    BY <1>1, <1>2, <2>1 DEF IInv, TypeOK
<1>5. Batched' /\ Retried'
  BY <1>1, <1>3 DEF IInv, Batched, Retried
<1>6. Answered'
  BY <1>1, <1>3 DEF Answered, Settled
<1>7. Silenced'
  BY <1>1 DEF IInv, Silenced
<1>8. LossesExplained' /\ RepeatsExplained'
  <2>1. refused \subseteq refused' /\ cut \subseteq cut' /\ batches \subseteq batches'
    BY <1>1
  <2>2. \A p \in Lost' : p \in Lost
    BY <1>2
  <2>3. \A p \in repeated' :
           \/ p \in repeated
           \/ \E q \in refused', batch \in batches' : {p, q} \subseteq batch
    BY <1>1, <1>2
  <2>4. QED
    BY <1>2, <2>1, <2>2, <2>3, CausesStay
<1>9. QED
  BY <1>2, <1>4, <1>5, <1>6, <1>7, <1>8 DEF IInv

LEMMA PostAcceptedStep == ASSUME IInv, PostAccepted PROVE IInv'
<1> DEFINE b == buffer_write_storage[i]
           n == Len(buffer_write_storage)
<1>1. /\ worker = "post" /\ data_sent_success' = TRUE
      /\ \/ i < n /\ i' = i + 1 /\ worker' = "post"
         \/ ~(i < n) /\ i' = i /\ worker' = "check"
      /\ UNCHANGED << m_fifo, m_exit_requested, graph, buffer_write_storage,
                      arrived, dropped, batches, cut, refused >>
  BY DEF PostAccepted, NextPacket
<1>2. /\ i \in 1..n /\ n \in Nat /\ n <= BatchSize
      /\ \A k \in 1..n : k # i => buffer_write_storage[k] # b
      /\ \A k \in 1..(i - 1) : buffer_write_storage[k] < b
      /\ b \in InBatch /\ b \in Packets
  BY <1>1, Posting
<1>3. /\ delivered' = delivered \cup {b}
      /\ delivered' \in SUBSET Packets /\ repeated' \in SUBSET Packets
      /\ InOrder'
      /\ Lost' \subseteq Lost
      /\ \A p \in repeated' :
           \/ p \in repeated
           \/ \E q \in refused, batch \in batches : {p, q} \subseteq batch
  BY <1>1, DeliverFacts DEF PostAccepted
<1>4. InBatch' = InBatch /\ BatchRefused' = BatchRefused
  BY <1>1 DEF InBatch, BatchRefused
<1> HIDE DEF n, b
<1>5. i' \in 1..n /\ (worker' = "check" => i = n) /\ (worker' = "post" => i' = i + 1)
  BY <1>1, <1>2
<1>6. TypeOK'
  <2>1. i' \in 1..BatchSize
    BY <1>2, <1>5, SinkAssumption
  <2>2. QED
    BY <1>1, <1>3, <2>1 DEF IInv, TypeOK
<1>7. Batched'
  BY <1>1, <1>4, <1>5 DEF IInv, Batched, n
<1>8. Retried'
  <2>1. ASSUME worker' = "post", NEW k \in (i + 1)..n, buffer_write_storage[k] \in delivered'
        PROVE  BatchRefused
    <3>1. k \in 1..n /\ k \in i..n /\ k # i
      BY <1>2
    <3>2. buffer_write_storage[k] \in delivered
      BY <1>2, <1>3, <2>1, <3>1
    <3>3. QED
      BY <1>1, <3>1, <3>2 DEF IInv, Retried, n
  <2>2. QED
    BY <1>1, <1>4, <1>5, <2>1 DEF Retried, n
<1>9. \A k \in 1..i : k \in 1..(i - 1) \/ k = i
  BY <1>2
<1>10. \A k \in 1..i : buffer_write_storage[k] \in delivered' \cup refused
  BY <1>1, <1>3, <1>9 DEF IInv, Answered, b
<1>11. Answered'
  <2>1. worker' = "post" => \A k \in 1..(i' - 1) : buffer_write_storage[k] \in delivered' \cup refused
    <3>1. worker' = "post" => i' - 1 = i
      BY <1>2, <1>5
    <3>2. QED
      BY <1>10, <3>1
  <2>2. ASSUME worker' = "check", NEW p \in InBatch
        PROVE  Settled(p)'
    <3>1. PICK k \in 1..n : p = buffer_write_storage[k]
      BY DEF InBatch, n
    <3>2. k \in 1..i
      BY <1>5, <2>2
    <3>3. CASE k = i
      BY <1>3, <3>1, <3>3 DEF Settled, b
    <3>4. CASE k \in 1..(i - 1)
      BY <1>1, <1>2, <1>3, <1>4, <1>10, <3>1, <3>2, <3>4 DEF Settled
    <3>5. QED
      BY <1>9, <3>2, <3>3, <3>4
  <2>3. QED
    BY <1>1, <1>4, <2>1, <2>2 DEF Answered
<1>12. Silenced'
  BY <1>1 DEF IInv, Silenced
<1>13. LossesExplained' /\ RepeatsExplained'
  <2>1. /\ refused \subseteq refused' /\ cut \subseteq cut' /\ batches \subseteq batches'
        /\ delivered \subseteq delivered'
    BY <1>1, <1>3
  <2>2. \A p \in Lost' : p \in Lost
    BY <1>3
  <2>3. \A p \in repeated' :
           \/ p \in repeated
           \/ \E q \in refused', batch \in batches' : {p, q} \subseteq batch
    BY <1>1, <1>3
  <2>4. QED
    BY <2>1, <2>2, <2>3, CausesStay
<1>14. QED
  BY <1>3, <1>6, <1>7, <1>8, <1>11, <1>12, <1>13 DEF IInv

LEMMA PostRefusedStep == ASSUME IInv, PostRefused PROVE IInv'
<1> DEFINE b == buffer_write_storage[i]
           n == Len(buffer_write_storage)
<1>1. /\ worker = "post" /\ data_sent_success' = FALSE
      /\ \/ i < n /\ i' = i + 1 /\ worker' = "post"
         \/ ~(i < n) /\ i' = i /\ worker' = "check"
      /\ refused' = refused \cup {b}
      /\ UNCHANGED << m_fifo, m_exit_requested, graph, buffer_write_storage,
                      arrived, dropped, batches, cut, delivered, repeated >>
  BY DEF PostRefused, NextPacket
<1>2. i \in 1..n /\ n \in Nat /\ n <= BatchSize /\ b \in InBatch /\ b \in Packets
  BY <1>1, Posting
<1>3. InBatch' = InBatch /\ InQueue' = InQueue
  BY <1>1 DEF InBatch, InQueue
<1>4. InOrder'
  BY <1>1 DEF IInv, InOrder
<1>5. BatchRefused'
  BY <1>1, <1>2, <1>3 DEF BatchRefused
<1> HIDE DEF n, b
<1>6. i' \in 1..n /\ (worker' = "post" => i' = i + 1)
  BY <1>1, <1>2
<1>7. TypeOK'
  <2>1. i' \in 1..BatchSize
    BY <1>2, <1>6, SinkAssumption
  <2>2. QED
    BY <1>1, <1>2, <2>1 DEF IInv, TypeOK
<1>8. Batched'
  BY <1>1, <1>3, <1>6 DEF IInv, Batched, n
<1>9. Retried'
  BY <1>1, <1>5 DEF Retried
<1>10. Answered'
  <2>1. \A k \in 1..i : k \in 1..(i - 1) \/ k = i
    BY <1>2
  <2>2. \A k \in 1..i : buffer_write_storage[k] \in delivered \cup refused'
    BY <1>1, <2>1 DEF IInv, Answered, b
  <2>3. worker' = "post" => i' - 1 = i
    BY <1>2, <1>6
  <2>4. QED
    BY <1>1, <2>2, <2>3 DEF Answered
<1>11. Silenced'
  BY <1>1 DEF IInv, Silenced
<1>12. LossesExplained' /\ RepeatsExplained'
  <2>1. /\ refused \subseteq refused' /\ cut \subseteq cut' /\ batches \subseteq batches'
        /\ delivered \subseteq delivered'
    BY <1>1
  <2>2. \A p \in Lost' : p \in Lost
    BY <1>1, <1>3 DEF Lost
  <2>3. \A p \in repeated' : p \in repeated
    BY <1>1
  <2>4. QED
    BY <2>1, <2>2, <2>3, CausesStay
<1>13. QED
  BY <1>4, <1>7, <1>8, <1>9, <1>10, <1>11, <1>12 DEF IInv

LEMMA NextIInv == IInv /\ [Next]_vars => IInv'
<1> SUFFICES ASSUME IInv, [Next]_vars PROVE IInv'
  OBVIOUS
<1>1. CASE UNCHANGED vars
  <2>1. UNCHANGED << m_fifo, m_exit_requested, graph, worker, buffer_write_storage, i,
                     data_sent_success, history >>
    BY <1>1 DEF vars, history
  <2>2. /\ InOrder' /\ LossesExplained' /\ RepeatsExplained'
        /\ InBatch' = InBatch /\ BatchRefused' = BatchRefused
        /\ \A p : Settled(p)' = Settled(p)
        /\ UNCHANGED << arrived, dropped, batches, delivered, refused, cut, repeated >>
    BY <2>1, ControlStep
  <2>3. TypeOK'
    BY <2>1, <2>2 DEF IInv, TypeOK
  <2>4. Batched' /\ Retried' /\ Answered' /\ Silenced'
    BY <2>1, <2>2 DEF IInv, Batched, Retried, Answered, Silenced
  <2>5. QED
    BY <2>2, <2>3, <2>4 DEF IInv
<1>2. CASE Next
  BY <1>2, HandlerStep, SchedulerStep, StartStep, ReadQueueStep, ConnectStep, ThrowStep,
     PostAcceptedStep, PostRefusedStep, CheckExitStep DEF Next, Worker, Network, Post
<1>3. QED
  BY <1>1, <1>2

\* The inductive invariant holds in every reachable state.
THEOREM Invariance == Spec => []IInv
  BY InitIInv, NextIInv, PTL DEF Spec

\* Every variable of the sink keeps its type.
THEOREM TypeCorrect == Spec => []TypeOK
<1>1. IInv => TypeOK
  BY DEF IInv
<1>2. QED
  BY <1>1, Invariance, PTL

\* Whatever the server does, a packet is lost on its way only through an
\* exception or a refusal hidden by a later success in its batch.
THEOREM LossesHaveCauses == Spec => []LossesExplained
<1>1. IInv => LossesExplained
  BY DEF IInv
<1>2. QED
  BY <1>1, Invariance, PTL

\* Whatever the server does, a packet is delivered twice only if a packet of
\* its batch was refused.
THEOREM RepeatsHaveCauses == Spec => []RepeatsExplained
<1>1. IInv => RepeatsExplained
  BY DEF IInv
<1>2. QED
  BY <1>1, Invariance, PTL

--------------------------------------------------------------------------------
(* The worker never acts once stop() has returned. *)

\* After stop() has returned the worker posts nothing, takes nothing from the
\* queue and takes no step, also when the flowgraph is started again.
THEOREM SilenceHolds == Spec => SilentAfterStop
<1>1. ASSUME IInv, [Next]_vars, m_exit_requested /\ graph # "stopping"
      PROVE  UNCHANGED << delivered, refused, cut, buffer_write_storage, worker >>
  <2>1. worker = "done"
    BY <1>1 DEF IInv, Silenced
  <2>2. CASE UNCHANGED vars
    BY <2>2 DEF vars
  <2>3. CASE packet_handler \/ threadTransferDeInit \/ Join \/ Restart
    BY <2>3 DEF packet_handler, threadTransferDeInit, Join, Restart, wvars, history
  <2>4. ~Worker
    BY <2>1 DEF Worker, Network, Start, ReadQueue, Connect, ConnectFails, Post, PostAccepted,
                PostRefused, NextPacket, RequestLost, ResponseLost, CheckExit
  <2>5. QED
    BY <1>1, <2>2, <2>3, <2>4 DEF Next
<1>2. IInv /\ [Next]_vars =>
        [m_exit_requested /\ graph # "stopping"
           => UNCHANGED << delivered, refused, cut, buffer_write_storage, worker >>]_vars
  BY <1>1
<1>3. QED
  BY <1>2, Invariance, PTL DEF Spec, SilentAfterStop

--------------------------------------------------------------------------------
(* The packets of the batch and of the queue form the channel of PacketChannel. *)

SameChannel == UNCHANGED << m_fifo, buffer_write_storage, delivered, dropped >>

LEMMA ChannelContents ==
  ASSUME IInv
  PROVE  /\ m_fifo \in Seq(Packets) /\ Len(m_fifo) \in Nat /\ Len(m_fifo) <= Capacity
         /\ buffer_write_storage \in Seq(Packets) /\ Len(buffer_write_storage) \in Nat
         /\ Len(buffer_write_storage) <= BatchSize
         /\ Len(buffer_write_storage \o m_fifo) = Len(buffer_write_storage) + Len(m_fifo)
         /\ BatchSize \in Nat /\ Capacity \in Nat
  BY Contents, BatchAndQueue, SinkAssumption DEF IInv, TypeOK

LEMMA HandlerMaps ==
  ASSUME IInv, packet_handler PROVE \E p \in Packets : Channel!Accept(p) \/ Channel!Drop(p)
<1> DEFINE p == arrived + 1
<1>1. /\ m_fifo' = m_fifo \o Accepted(m_fifo, << p >>, Capacity)
      /\ dropped' = IF Len(m_fifo) < Capacity THEN dropped ELSE dropped \cup {p}
      /\ UNCHANGED << buffer_write_storage, delivered >>
  BY DEF packet_handler, wvars
<1>2. p \in Packets
  BY SinkAssumption DEF IInv, TypeOK, packet_handler, Packets
<1> HIDE DEF p
<1>3. Accepted(m_fifo, << p >>, Capacity) = IF Len(m_fifo) < Capacity THEN << p >> ELSE << >>
  BY ChannelContents, AcceptedOne
<1>4. CASE Len(m_fifo) < Capacity
  <2>1. Len(buffer_write_storage \o m_fifo) < Capacity + BatchSize
    BY <1>4, ChannelContents
  <2>2. buffer_write_storage' \o m_fifo' = Append(buffer_write_storage \o m_fifo, p)
    <3>1. buffer_write_storage \o (m_fifo \o << p >>) = Append(buffer_write_storage \o m_fifo, p)
      BY <1>2, ChannelContents, BatchAndQueue
    <3>2. m_fifo' = m_fifo \o << p >> /\ buffer_write_storage' = buffer_write_storage
      BY <1>1, <1>3, <1>4
    <3>3. QED
      BY <3>1, <3>2
  <2>3. Channel!Accept(p)
    BY <1>1, <1>4, <2>1, <2>2 DEF Channel!Accept
  <2>4. QED
    BY <1>2, <2>3
<1>5. CASE ~(Len(m_fifo) < Capacity)
  <2>1. Len(buffer_write_storage \o m_fifo) >= Capacity
    BY <1>5, ChannelContents
  <2>2. m_fifo' = m_fifo
    BY <1>1, <1>3, <1>5, ChannelContents, ConcatEmptySeq
  <2>3. Channel!Drop(p)
    BY <1>1, <1>5, <2>1, <2>2 DEF Channel!Drop
  <2>4. QED
    BY <1>2, <2>3
<1>6. QED
  BY <1>4, <1>5

LEMMA ReadQueueMaps ==
  ASSUME IInv, ReadQueue
  PROVE  SameChannel \/ UNCHANGED Channel!cvars \/ \E n \in Channel!InWindow : Channel!GiveUp(n)
<1>1. UNCHANGED << delivered, dropped >>
  BY DEF ReadQueue
<1>2. CASE ~data_sent_success
  BY <1>1, <1>2 DEF ReadQueue, SameChannel
<1>3. CASE data_sent_success
  <2> DEFINE n == Len(buffer_write_storage)
             s == buffer_write_storage \o m_fifo
  <2>1. buffer_write_storage' = Taken(m_fifo, BatchSize) /\ m_fifo' = Left(m_fifo, BatchSize)
    BY <1>3 DEF ReadQueue
  <2>2. buffer_write_storage' \o m_fifo' = SubSeq(s, n + 1, Len(s))
    BY <2>1, ChannelContents, BatchAndQueue
  <2>3. n \in Nat /\ n <= BatchSize /\ n <= Len(s) /\ Len(s) \in Nat
    BY ChannelContents
  <2>4. Channel!GiveUp(n)
    BY <1>1, <2>2 DEF Channel!GiveUp
  <2>5. CASE n = 0
    <3>1. buffer_write_storage = << >>
      BY <2>5, ChannelContents, EmptySeq
    <3>2. s = m_fifo
      BY <3>1, ChannelContents, ConcatEmptySeq
    <3>3. buffer_write_storage' \o m_fifo' = m_fifo
      BY <2>1, ChannelContents, TakenLeft
    <3>4. QED
      BY <1>1, <3>2, <3>3 DEF Channel!cvars
  <2>6. CASE n # 0
    <3>1. n \in 1..Len(s) /\ n <= BatchSize
      BY <2>3, <2>6
    <3>2. n \in Channel!InWindow
      BY <3>1 DEF Channel!InWindow
    <3>3. QED
      BY <2>4, <3>2
  <2>7. QED
    BY <2>5, <2>6
<1>4. QED
  BY <1>2, <1>3

LEMMA DeliverMaps ==
  ASSUME IInv, PostAccepted \/ ResponseLost
  PROVE  \E n \in Channel!InWindow : Channel!Deliver(n)
<1> DEFINE s == buffer_write_storage \o m_fifo
<1>1. /\ worker = "post"
      /\ delivered' = delivered \cup {buffer_write_storage[i]}
      /\ UNCHANGED << m_fifo, buffer_write_storage, dropped >>
  BY DEF PostAccepted, ResponseLost, NextPacket, Throw, Deliver
<1>2. i \in 1..Len(buffer_write_storage)
  BY <1>1, Posting
<1>3. s[i] = buffer_write_storage[i]
  BY <1>2, ChannelContents, BatchAndQueue
<1>4. Channel!Deliver(i)
  BY <1>1, <1>3 DEF Channel!Deliver
<1>5. i \in 1..Len(s) /\ i <= BatchSize
  BY <1>2, ChannelContents
<1>6. i \in Channel!InWindow
  BY <1>5 DEF Channel!InWindow
<1>7. QED
  BY <1>4, <1>6

LEMMA NextMaps == IInv /\ [Next]_vars => [Channel!Next]_(Channel!cvars)
<1> SUFFICES ASSUME IInv, [Next]_vars PROVE [Channel!Next]_(Channel!cvars)
  OBVIOUS
<1>1. SameChannel => UNCHANGED Channel!cvars
  BY DEF SameChannel, Channel!cvars
<1>2. CASE UNCHANGED vars
  BY <1>1, <1>2 DEF vars, SameChannel
<1>3. CASE packet_handler
  BY <1>3, HandlerMaps DEF Channel!Next
<1>4. CASE ReadQueue
  BY <1>1, <1>4, ReadQueueMaps DEF Channel!Next
<1>5. CASE PostAccepted \/ ResponseLost
  BY <1>5, DeliverMaps DEF Channel!Next
<1>6. CASE threadTransferDeInit \/ Join \/ Restart
  BY <1>1, <1>6 DEF threadTransferDeInit, Join, Restart, SameChannel, wvars, history
<1>7. CASE Start \/ Connect \/ CheckExit
  BY <1>1, <1>7 DEF Start, Connect, CheckExit, SameChannel, history
<1>8. CASE ConnectFails \/ RequestLost \/ PostRefused
  BY <1>1, <1>8 DEF ConnectFails, RequestLost, PostRefused, Throw, NextPacket, SameChannel
<1>9. QED
  BY <1>2, <1>3, <1>4, <1>5, <1>6, <1>7, <1>8 DEF Next, Worker, Network, Post

\* From the handler to the server the sink is an ordered, bounded channel:
\* packets reach the server in arrival order up to one batch, are given up from
\* the front only, and are dropped on arrival only when the queue is full.
THEOREM Refinement == Spec => RefinesChannel
<1>1. Init => Channel!Init
  <2> SUFFICES ASSUME Init PROVE Channel!Init
    OBVIOUS
  <2>1. << >> \o << >> = << >>
    BY ConcatEmptySeq, EmptySeq
  <2>2. QED
    BY <2>1 DEF Init, Channel!Init
<1>2. QED
  BY <1>1, NextMaps, Invariance, PTL DEF Spec, RefinesChannel, Channel!Spec
================================================================================
