---------------------------- MODULE FifoBufferProofs ----------------------------
(* What holds of FifoBuffer for every set of threads and packets, every ring   *)
(* size and every batch: its types, that a read returns only written slots,    *)
(* and that the ring implements the atomic queue of FifoQueue.                 *)
EXTENDS FifoBuffer, FifoLemmas

\* The mutex names the one thread that is inside a call.
Locked == \A t \in Threads : pc[t] = "inside" <=> fp_mutex = t

\* A call that waits for the mutex has moved nothing.
Untouched == \A t \in Threads : pc[t] = "waiting" => done[t] = << >>

\* What a writer has stored so far is a prefix of its batch, and it is still
\* the end of the ring.
Stored ==
  \A w \in Writers : pc[w] = "inside" =>
    /\ Len(done[w]) <= Len(src[w])
    /\ Len(done[w]) <= Count
    /\ \A i \in 1..Len(done[w]) :
         /\ done[w][i] = src[w][i]
         /\ done[w][i] = storage[Slot(Count - Len(done[w]) + i)]

\* A reader has taken no more than it asked for, all from a ring that still
\* has the room for it.
TakenInv ==
  \A r \in Readers : pc[r] = "inside" =>
    /\ Len(done[r]) <= want[r]
    /\ Len(done[r]) + Count <= fifoSize - 1

IInv ==
  /\ TypeOK
  /\ NoUnwrittenSlotIsRead
  /\ Locked
  /\ Untouched
  /\ Stored
  /\ TakenInv

--------------------------------------------------------------------------------
\* The ring.

\* The indices stay inside the storage.
LEMMA Indices ==
  TypeOK => /\ fifoSize \in Nat \ {0}
            /\ fifoHead \in Nat /\ fifoHead < fifoSize
            /\ fifoTail \in Nat /\ fifoTail < fifoSize
<1>1. TypeOK => fifoSize \in Nat \ {0}
  BY FifoAssumption DEF TypeOK
<1>2. TypeOK => fifoHead \in 0..(fifoSize - 1) /\ fifoTail \in 0..(fifoSize - 1)
  BY DEF TypeOK
<1>3. QED
  BY <1>1, <1>2

\* A ring of fifoSize slots holds at most fifoSize - 1 packets.
LEMMA CountBounds == TypeOK => Count \in 0..(fifoSize - 1)
  BY Indices DEF Count

\* The occupied slots lie inside the storage.
LEMMA SlotBounds ==
  ASSUME TypeOK, NEW i \in 1..Count
  PROVE  Slot(i) \in 0..(fifoSize - 1)
  BY Indices, CountBounds DEF Slot

\* The full test of fifo_write_storage holds exactly when no slot is to spare.
LEMMA FullMeansNoRoom == TypeOK => (Full <=> Count = fifoSize - 1)
  BY Indices DEF Full, Count

LEMMA EmptyMeansNone == TypeOK => (IsEmpty <=> Count = 0)
  BY Indices DEF IsEmpty, Count

\* Storing at fifoHead adds one packet at the end and touches no occupied slot.
LEMMA Push ==
  ASSUME TypeOK, ~Full, NEW x \in Items,
         storage' = [storage EXCEPT ![fifoHead] = x],
         fifoHead' = After(fifoHead),
         fifoTail' = fifoTail, fifoSize' = fifoSize
  PROVE  /\ storage' \in [0..(fifoSize - 1) -> Items \cup {Empty}]
         /\ fifoHead' \in 0..(fifoSize - 1)
         /\ Count' = Count + 1
         /\ \A i \in 1..Count' :
              storage'[Slot(i)'] = IF i <= Count THEN storage[Slot(i)] ELSE x
<1>1. /\ fifoSize \in Nat \ {0}
      /\ fifoHead \in Nat /\ fifoHead < fifoSize
      /\ fifoTail \in Nat /\ fifoTail < fifoSize
  BY Indices
<1>2. storage' \in [0..(fifoSize - 1) -> Items \cup {Empty}]
  BY DEF TypeOK
<1>3. fifoHead' \in 0..(fifoSize - 1) /\ Count' = Count + 1 /\ Count \in Nat
  BY <1>1 DEF Full, After, Count
<1>4. ASSUME NEW i \in 1..Count
      PROVE  storage'[Slot(i)'] = storage[Slot(i)]
  <2>1. Slot(i)' = Slot(i)
    BY DEF Slot
  <2>2. Slot(i) \in 0..(fifoSize - 1)
    BY SlotBounds
  <2>3. Slot(i) # fifoHead
    BY <1>1 DEF Full, Count, Slot
  <2>4. QED
    BY <2>1, <2>2, <2>3 DEF TypeOK
<1>5. ASSUME NEW i, i = Count + 1
      PROVE  storage'[Slot(i)'] = x
  <2>1. Slot(i)' = fifoHead
    BY <1>1, <1>5 DEF Full, Count, Slot
  <2>2. QED
    BY <2>1 DEF TypeOK
<1>6. QED
  BY <1>2, <1>3, <1>4, <1>5

\* Taking from fifoTail removes the oldest packet and shifts the others by one.
LEMMA Pop ==
  ASSUME TypeOK, ~IsEmpty,
         fifoTail' = After(fifoTail),
         storage' = storage, fifoHead' = fifoHead, fifoSize' = fifoSize
  PROVE  /\ fifoTail' \in 0..(fifoSize - 1)
         /\ Count' = Count - 1
         /\ Count \in Nat \ {0}
         /\ Slot(1) = fifoTail
         /\ \A i \in 1..(Count - 1) : Slot(i)' = Slot(i + 1)
<1>1. /\ fifoSize \in Nat \ {0}
      /\ fifoHead \in Nat /\ fifoHead < fifoSize
      /\ fifoTail \in Nat /\ fifoTail < fifoSize
  BY Indices
<1>2. fifoTail' \in 0..(fifoSize - 1) /\ Count' = Count - 1 /\ Count \in Nat \ {0}
  BY <1>1 DEF IsEmpty, After, Count
<1>3. Slot(1) = fifoTail
  BY <1>1 DEF Slot
<1>4. ASSUME NEW i \in 1..(Count - 1)
      PROVE  Slot(i)' = Slot(i + 1)
  <2>1. i \in Nat /\ Count <= fifoSize - 1 /\ i + 1 <= Count /\ Count \in Nat
    BY <1>2, CountBounds
  <2>2. QED
    BY <1>1, <2>1 DEF IsEmpty, After, Slot
<1>5. QED
  BY <1>2, <1>3, <1>4

--------------------------------------------------------------------------------
\* The invariant.

LEMMA BatchIsSeq == \A batch \in Batches : batch \in Seq(Items) /\ Len(batch) \in Nat
<1>1. SUFFICES ASSUME NEW n \in 0..MaxBatch, NEW batch \in [1..n -> Items]
               PROVE  batch \in Seq(Items)
  BY LenProperties DEF Batches
<1>2. n \in Nat
  BY FifoAssumption
<1>3. QED
  BY <1>2, SeqDef

LEMMA InitIInv == Init => IInv
<1> SUFFICES ASSUME Init PROVE IInv
  OBVIOUS
<1>1. fifoSize \in Nat \ {0} /\ Count = 0
  BY FifoAssumption DEF Init, Count
<1>2. << >> \in Batches /\ 0 \in 0..MaxBatch
  BY FifoAssumption DEF Batches
<1>3. TypeOK
  BY <1>1, <1>2 DEF Init, TypeOK, Fresh
<1>4. NoUnwrittenSlotIsRead
  BY <1>1 DEF NoUnwrittenSlotIsRead
<1>5. Locked /\ Untouched /\ Stored /\ TakenInv
  BY FifoAssumption DEF Init, Locked, Untouched, Stored, TakenInv, Threads
<1>6. QED
  BY <1>3, <1>4, <1>5 DEF IInv

\* A step that leaves the ring alone leaves alone what it holds.
LEMMA SameRing ==
  ASSUME UNCHANGED << storage, fifoHead, fifoTail, fifoSize >>
  PROVE  Count' = Count /\ \A i : Slot(i)' = Slot(i)
  BY DEF Count, Slot

\* A call neither takes the mutex nor touches the ring.
LEMMA CallStep ==
  ASSUME IInv, NEW t \in Threads, Call(t),
         \/ /\ t \in Writers
            /\ \E batch \in Batches : src' = [src EXCEPT ![t] = batch]
            /\ UNCHANGED want
         \/ /\ t \in Readers
            /\ \E n \in 0..MaxBatch : want' = [want EXCEPT ![t] = n]
            /\ UNCHANGED src
  PROVE  IInv'
<1>1. /\ pc' = [pc EXCEPT ![t] = "waiting"]
      /\ pc[t] = "idle"
      /\ done' = [done EXCEPT ![t] = << >>]
      /\ UNCHANGED << storage, fifoHead, fifoTail, fifoSize, fp_mutex >>
  BY DEF Call
<1>2. TypeOK'
  <2>1. src' \in [Writers -> Batches] /\ want' \in [Readers -> 0..MaxBatch]
    BY DEF IInv, TypeOK
  <2>2. pc' \in [Threads -> {"idle", "waiting", "inside"}]
    BY <1>1 DEF IInv, TypeOK
  <2>3. done' \in [Threads -> Seq(Items)]
    BY <1>1, EmptySeq DEF IInv, TypeOK
  <2>4. QED
    BY <1>1, <2>1, <2>2, <2>3 DEF IInv, TypeOK
<1>3. Count' = Count /\ \A i : Slot(i)' = Slot(i)
  BY <1>1, SameRing
<1>4. NoUnwrittenSlotIsRead'
  BY <1>1, <1>3 DEF IInv, NoUnwrittenSlotIsRead
<1>5. Locked' /\ Untouched'
  BY <1>1 DEF IInv, TypeOK, Locked, Untouched
<1>6. \A s \in Threads : s # t => pc'[s] = pc[s] /\ done'[s] = done[s]
  BY <1>1 DEF IInv, TypeOK
<1>7. pc'[t] # "inside"
  BY <1>1 DEF IInv, TypeOK
<1>8. \A w \in Writers : w # t => src'[w] = src[w]
  BY DEF IInv, TypeOK
<1>9. \A r \in Readers : r # t => want'[r] = want[r]
  BY DEF IInv, TypeOK
<1>10. Stored'
  BY <1>1, <1>3, <1>6, <1>7, <1>8 DEF IInv, Stored, Threads
<1>11. TakenInv'
  BY <1>1, <1>3, <1>6, <1>7, <1>9 DEF IInv, TakenInv, Threads
<1>12. QED
  BY <1>2, <1>4, <1>5, <1>10, <1>11 DEF IInv

LEMMA LockStep == ASSUME IInv, NEW t \in Threads, Lock(t) PROVE IInv'
<1>1. /\ pc[t] = "waiting" /\ pc' = [pc EXCEPT ![t] = "inside"]
      /\ fp_mutex = NoThread /\ fp_mutex' = t
      /\ UNCHANGED << storage, fifoHead, fifoTail, fifoSize, src, want, done >>
  BY DEF Lock
<1>2. TypeOK'
  BY <1>1 DEF IInv, TypeOK
<1>3. Count' = Count /\ \A i : Slot(i)' = Slot(i)
  BY <1>1, SameRing
<1>4. NoUnwrittenSlotIsRead'
  BY <1>1, <1>3 DEF IInv, NoUnwrittenSlotIsRead
<1>5. \A s \in Threads : pc[s] # "inside"
  BY <1>1, FifoAssumption DEF IInv, Locked
<1>6. Locked' /\ Untouched'
  BY <1>1, <1>5 DEF IInv, TypeOK, Locked, Untouched
<1>7. \A s \in Threads : pc'[s] = "inside" => s = t /\ done'[s] = << >>
  BY <1>1, <1>5 DEF IInv, TypeOK, Untouched
<1>8. Count \in 0..(fifoSize - 1) /\ fifoSize \in Nat
  BY CountBounds, Indices DEF IInv
<1>9. Stored'
  <2>1. ASSUME NEW w \in Writers, pc'[w] = "inside"
        PROVE  Len(done'[w]) = 0 /\ Len(src'[w]) \in Nat
    BY <1>1, <1>7, <2>1, BatchIsSeq DEF IInv, TypeOK, Threads
  <2>2. Count' \in Nat
    BY <1>3, <1>8
  <2>3. QED
    BY <2>1, <2>2 DEF Stored
<1>10. TakenInv'
  <2>1. ASSUME NEW r \in Readers, pc'[r] = "inside"
        PROVE  done'[r] = << >> /\ want'[r] \in Nat
    BY <1>1, <1>7, <2>1 DEF IInv, TypeOK, Threads
  <2>2. QED
    BY <1>1, <1>3, <1>8, <2>1 DEF TakenInv
<1>11. QED
  BY <1>2, <1>4, <1>6, <1>9, <1>10 DEF IInv

LEMMA ReturnStep ==
  ASSUME IInv, NEW t \in Threads, pc[t] = "inside", Return(t)
  PROVE  IInv'
<1>1. /\ pc' = [pc EXCEPT ![t] = "idle"] /\ fp_mutex' = NoThread
      /\ UNCHANGED << storage, fifoHead, fifoTail, fifoSize, src, want, done >>
  BY DEF Return
<1>2. TypeOK'
  BY <1>1 DEF IInv, TypeOK
<1>3. Count' = Count /\ \A i : Slot(i)' = Slot(i)
  BY <1>1, SameRing
<1>4. NoUnwrittenSlotIsRead'
  BY <1>1, <1>3 DEF IInv, NoUnwrittenSlotIsRead
<1>5. \A s \in Threads : pc'[s] # "inside"
  BY <1>1 DEF IInv, TypeOK, Locked
<1>6. Locked' /\ Untouched'
  BY <1>1, <1>5, FifoAssumption DEF IInv, TypeOK, Locked, Untouched
<1>7. Stored' /\ TakenInv'
  BY <1>5 DEF Stored, TakenInv, Threads
<1>8. QED
  BY <1>2, <1>4, <1>6, <1>7 DEF IInv

LEMMA WriteIterStep == ASSUME IInv, NEW w \in Writers, WriteIter(w) PROVE IInv'
<1> DEFINE n == Len(done[w])
           x == src[w][n + 1]
<1>1. /\ pc[w] = "inside" /\ n < Len(src[w]) /\ ~Full
      /\ storage' = [storage EXCEPT ![fifoHead] = x]
      /\ fifoHead' = After(fifoHead)
      /\ done' = [done EXCEPT ![w] = Append(done[w], x)]
      /\ UNCHANGED << fifoTail, fifoSize, fp_mutex, pc, src, want >>
  BY DEF WriteIter
<1>2. TypeOK /\ w \in Threads
  BY DEF IInv, Threads
<1>3. done[w] \in Seq(Items) /\ n \in Nat /\ src[w] \in Seq(Items) /\ Len(src[w]) \in Nat
  BY <1>2, BatchIsSeq, LenProperties DEF TypeOK
<1>4. x \in Items
  BY <1>1, <1>3, ElementOfSeq
<1>5. /\ storage' \in [0..(fifoSize - 1) -> Items \cup {Empty}]
      /\ fifoHead' \in 0..(fifoSize - 1)
      /\ Count' = Count + 1
      /\ \A i \in 1..Count' :
           storage'[Slot(i)'] = IF i <= Count THEN storage[Slot(i)] ELSE x
  BY <1>1, <1>2, <1>4, Push
<1>6. /\ done'[w] = Append(done[w], x) /\ done'[w] \in Seq(Items)
      /\ Len(done'[w]) = n + 1
      /\ \A i \in 1..n : done'[w][i] = done[w][i]
      /\ done'[w][n + 1] = x
  BY <1>1, <1>2, <1>3, <1>4 DEF TypeOK
<1>7. TypeOK'
  BY <1>1, <1>2, <1>5, <1>6 DEF TypeOK
<1>8. Count \in Nat
  BY <1>2, CountBounds, Indices
<1>9. NoUnwrittenSlotIsRead'
  BY <1>4, <1>5, <1>8 DEF IInv, NoUnwrittenSlotIsRead
<1>10. \A s \in Threads : pc'[s] = "inside" => s = w
  BY <1>1, <1>2 DEF IInv, Locked
<1>11. Locked' /\ Untouched'
  BY <1>1, <1>2 DEF IInv, TypeOK, Locked, Untouched
<1>12. Stored'
  <2>1. /\ n <= Count
        /\ \A i \in 1..n : /\ done[w][i] = src[w][i]
                           /\ done[w][i] = storage[Slot(Count - n + i)]
    BY <1>1 DEF IInv, Stored
  <2>2. ASSUME NEW i \in 1..(n + 1), NEW k, k = Count - n + i
        PROVE  done'[w][i] = src[w][i] /\ done'[w][i] = storage'[Slot(k)']
    <3>1. k \in 1..Count'
      <4>1. n \in Nat /\ n <= Count /\ Count' = Count + 1
        BY <1>3, <1>5, <2>1
      <4> HIDE DEF n
      <4>2. QED
        BY <1>8, <2>2, <4>1
    <3>2. CASE i = n + 1
      <4>1. k = Count + 1
        BY <1>3, <1>8, <2>2, <3>2
      <4>2. QED
        BY <1>5, <1>6, <1>8, <3>1, <3>2, <4>1
    <3>3. CASE i \in 1..n
      <4>1. k <= Count
        BY <1>3, <1>8, <2>2, <3>3
      <4>2. QED
        BY <1>5, <1>6, <2>1, <2>2, <3>1, <3>3, <4>1
    <3>4. QED
      BY <1>3, <3>2, <3>3
  <2>3. ASSUME NEW i \in 1..Len(done'[w])
        PROVE  /\ done'[w][i] = src'[w][i]
               /\ done'[w][i] = storage'[Slot(Count - Len(done[w]) + i)']
    <3>1. i \in 1..(n + 1) /\ Count' - Len(done'[w]) + i = Count - n + i
      BY <1>3, <1>5, <1>6, <1>8
    <3>2. QED
      BY <1>1, <2>2, <3>1
  <2>4. Len(done'[w]) <= Len(src'[w]) /\ Len(done'[w]) <= Count'
    BY <1>1, <1>3, <1>5, <1>6, <1>8, <2>1
  <2>5. \A v \in Writers : pc'[v] = "inside" => v = w
    BY <1>10 DEF Threads
  <2>6. QED
    BY <2>3, <2>4, <2>5 DEF Stored
<1>13. TakenInv'
  BY <1>10, FifoAssumption DEF TakenInv, Threads
<1>14. QED
  BY <1>7, <1>9, <1>11, <1>12, <1>13 DEF IInv

LEMMA ReadIterStep == ASSUME IInv, NEW r \in Readers, ReadIter(r) PROVE IInv'
<1> DEFINE n == Len(done[r])
<1>1. /\ pc[r] = "inside" /\ n < want[r] /\ ~IsEmpty
      /\ done' = [done EXCEPT ![r] = Append(done[r], storage[fifoTail])]
      /\ fifoTail' = After(fifoTail)
      /\ UNCHANGED << storage, fifoHead, fifoSize, fp_mutex, pc, src, want >>
  BY DEF ReadIter
<1>2. TypeOK /\ r \in Threads
  BY DEF IInv, Threads
<1>3. done[r] \in Seq(Items) /\ n \in Nat /\ want[r] \in Nat
  BY <1>2, LenProperties DEF TypeOK
<1>4. /\ fifoTail' \in 0..(fifoSize - 1)
      /\ Count' = Count - 1
      /\ Count \in Nat \ {0}
      /\ Slot(1) = fifoTail
      /\ \A i \in 1..(Count - 1) : Slot(i)' = Slot(i + 1)
  BY <1>1, <1>2, Pop
<1>5. storage[fifoTail] \in Items
  BY <1>4 DEF IInv, NoUnwrittenSlotIsRead
<1>6. done'[r] \in Seq(Items) /\ Len(done'[r]) = n + 1
  BY <1>1, <1>2, <1>3, <1>5 DEF TypeOK
<1>7. TypeOK'
  BY <1>1, <1>2, <1>4, <1>6 DEF TypeOK
<1>8. NoUnwrittenSlotIsRead'
  BY <1>1, <1>4 DEF IInv, NoUnwrittenSlotIsRead
<1>9. \A s \in Threads : pc'[s] = "inside" => s = r
  BY <1>1, <1>2 DEF IInv, Locked
<1>10. Locked' /\ Untouched'
  BY <1>1, <1>2 DEF IInv, TypeOK, Locked, Untouched
<1>11. Stored'
  BY <1>9, FifoAssumption DEF Stored, Threads
<1>12. TakenInv'
  <2>1. n <= want[r] /\ n + Count <= fifoSize - 1
    BY <1>1 DEF IInv, TakenInv
  <2>2. QED
    BY <1>1, <1>2, <1>3, <1>4, <1>6, <1>9, <2>1, Indices DEF TakenInv, Threads
<1>13. QED
  BY <1>7, <1>8, <1>10, <1>11, <1>12 DEF IInv

LEMMA ResizeStep == ASSUME IInv, NEW n \in Sizes, fifo_changeSize(n) PROVE IInv'
<1>1. /\ \A t \in Threads : pc[t] = "idle"
      /\ fifoSize' = n /\ storage' = Fresh(n) /\ fifoHead' = 0 /\ fifoTail' = 0
      /\ UNCHANGED << fp_mutex, pc, src, want, done >>
  BY DEF fifo_changeSize
<1>2. n \in Nat \ {0}
  BY FifoAssumption
<1>3. TypeOK'
  BY <1>1, <1>2 DEF IInv, TypeOK, Fresh
<1>4. Count' = 0
  BY <1>1, <1>2 DEF Count
<1>5. NoUnwrittenSlotIsRead'
  BY <1>4 DEF NoUnwrittenSlotIsRead
<1>6. Locked' /\ Untouched' /\ Stored' /\ TakenInv'
  BY <1>1 DEF IInv, Locked, Untouched, Stored, TakenInv, Threads
<1>7. QED
  BY <1>3, <1>5, <1>6 DEF IInv

LEMMA NextIInv == IInv /\ [Next]_vars => IInv'
<1> SUFFICES ASSUME IInv, [Next]_vars PROVE IInv'
  OBVIOUS
<1>1. CASE UNCHANGED vars
  BY <1>1 DEF vars, IInv, TypeOK, NoUnwrittenSlotIsRead, Locked, Untouched, Stored,
              TakenInv, Count, Slot, Batches
<1>2. ASSUME NEW w \in Writers, NEW batch \in Batches, WriteCall(w, batch) PROVE IInv'
  BY <1>2, CallStep DEF WriteCall, Threads
<1>3. ASSUME NEW r \in Readers, NEW n \in 0..MaxBatch, ReadCall(r, n) PROVE IInv'
  BY <1>3, CallStep DEF ReadCall, Threads
<1>4. ASSUME NEW t \in Threads, Lock(t) PROVE IInv'
  BY <1>4, LockStep
<1>5. ASSUME NEW w \in Writers, WriteReturn(w) PROVE IInv'
  BY <1>5, ReturnStep DEF WriteReturn, Threads
<1>6. ASSUME NEW r \in Readers, ReadReturn(r) PROVE IInv'
  BY <1>6, ReturnStep DEF ReadReturn, Threads
<1>7. ASSUME NEW w \in Writers, WriteIter(w) PROVE IInv'
  BY <1>7, WriteIterStep
<1>8. ASSUME NEW r \in Readers, ReadIter(r) PROVE IInv'
  BY <1>8, ReadIterStep
<1>9. ASSUME NEW n \in Sizes, fifo_changeSize(n) PROVE IInv'
  BY <1>9, ResizeStep
<1>10. QED
  BY <1>1, <1>2, <1>3, <1>4, <1>5, <1>6, <1>7, <1>8, <1>9 DEF Next, Threads

\* The inductive invariant holds in every reachable state.
THEOREM Invariance == Spec => []IInv
  BY InitIInv, NextIInv, PTL DEF Spec

\* Every variable of the ring and of its callers keeps its type.
THEOREM TypeCorrect == Spec => []TypeOK
<1>1. IInv => TypeOK
  BY DEF IInv
<1>2. QED
  BY <1>1, Invariance, PTL

\* fifo_read_storage never hands out a slot that fifo_write_storage has not
\* filled since the last resize.
THEOREM ReadsAreWritten == Spec => []NoUnwrittenSlotIsRead
<1>1. IInv => NoUnwrittenSlotIsRead
  BY DEF IInv
<1>2. QED
  BY <1>1, Invariance, PTL

--------------------------------------------------------------------------------
\* The ring implements the atomic queue.

LEMMA ContentIsSeq ==
  ASSUME IInv
  PROVE  /\ Count \in Nat /\ Count <= fifoSize - 1 /\ fifoSize \in Nat
         /\ Content \in Seq(Items) /\ Len(Content) = Count
<1>1. Count \in Nat /\ Count <= fifoSize - 1 /\ fifoSize \in Nat
  BY CountBounds, Indices DEF IInv
<1>2. Content \in [1..Count -> Items]
  BY DEF IInv, NoUnwrittenSlotIsRead, Content
<1>3. Content \in Seq(Items)
  BY <1>1, <1>2, SeqDef
<1>4. QED
  BY <1>1, <1>2, <1>3, LenProperties

\* What the queue is while nobody, a writer or a reader holds the mutex.
LEMMA SeenWhenFree ==
  ASSUME fp_mutex = NoThread PROVE QueueSeen = Content
  BY FifoAssumption DEF QueueSeen, Threads

LEMMA SeenByWriter ==
  ASSUME IInv, NEW w \in Writers, fp_mutex = w
  PROVE  /\ QueueSeen = SubSeq(Content, 1, Count - Len(done[w]))
         /\ QueueSeen \in Seq(Items)
         /\ Len(done[w]) \in 0..Count
         /\ Len(QueueSeen) = Count - Len(done[w])
         /\ Content = QueueSeen \o done[w]
<1>1. pc[w] = "inside" /\ w \in Threads
  BY DEF IInv, Locked, Threads
<1>2. QueueSeen = SubSeq(Content, 1, Count - Len(done[w]))
  BY DEF QueueSeen
<1>3. done[w] \in Seq(Items) /\ Len(done[w]) \in Nat
  BY <1>1, LenProperties DEF IInv, TypeOK
<1>4. /\ Len(done[w]) <= Count
      /\ \A i \in 1..Len(done[w]) :
           done[w][i] = storage[Slot(Count - Len(done[w]) + i)]
  BY <1>1 DEF IInv, Stored
<1>5. Content \in Seq(Items) /\ Len(Content) = Count /\ Count \in Nat
  BY ContentIsSeq
<1>6. /\ QueueSeen \in Seq(Items)
      /\ Len(QueueSeen) = Count - Len(done[w])
      /\ \A i \in 1..(Count - Len(done[w])) : QueueSeen[i] = Content[i]
  <2>1. Count - Len(done[w]) \in 0..Count
    BY <1>3, <1>4, <1>5
  <2>2. \A i \in 1..(Count - Len(done[w])) : Content[i] \in Items
    BY <1>5, <2>1, ElementOfSeq
  <2>3. QED
    BY <1>2, <2>1, <2>2, SubSeqProperties
<1>7. /\ QueueSeen \o done[w] \in Seq(Items)
      /\ Len(QueueSeen \o done[w]) = Count
      /\ \A i \in 1..Count : (QueueSeen \o done[w])[i] =
           IF i <= Count - Len(done[w]) THEN QueueSeen[i]
                                        ELSE done[w][i - (Count - Len(done[w]))]
  BY <1>3, <1>5, <1>6, ConcatProperties
<1>8. ASSUME NEW i \in 1..Count
      PROVE  Content[i] = (QueueSeen \o done[w])[i]
  <2>1. CASE i <= Count - Len(done[w])
    BY <1>3, <1>5, <1>6, <1>7, <2>1
  <2>2. CASE ~(i <= Count - Len(done[w]))
    <3> DEFINE k == i - (Count - Len(done[w]))
    <3>1. k \in 1..Len(done[w]) /\ Count - Len(done[w]) + k = i
      <4> DEFINE n == Len(done[w])
      <4>1. n \in Nat /\ n <= Count /\ ~(i <= Count - n)
        BY <1>3, <1>4, <2>2
      <4> HIDE DEF n
      <4>2. i - (Count - n) \in 1..n /\ Count - n + (i - (Count - n)) = i
        BY <1>5, <4>1
      <4>3. QED
        BY <4>2 DEF n
    <3>2. done[w][k] = storage[Slot(i)]
      BY <1>4, <3>1
    <3>3. QED
      BY <1>7, <2>2, <3>2 DEF Content
  <2>3. QED
    BY <2>1, <2>2
<1>9. Content = QueueSeen \o done[w]
  BY <1>5, <1>7, <1>8, SeqEqual
<1>10. Len(done[w]) \in 0..Count
  BY <1>3, <1>4, <1>5
<1>11. QED
  BY <1>2, <1>6, <1>9, <1>10

LEMMA SeenByReader ==
  ASSUME IInv, NEW r \in Readers, fp_mutex = r
  PROVE  /\ QueueSeen = done[r] \o Content
         /\ done[r] \in Seq(Items)
         /\ QueueSeen \in Seq(Items)
         /\ Len(QueueSeen) = Len(done[r]) + Count
<1>1. QueueSeen = done[r] \o Content
  BY FifoAssumption DEF QueueSeen
<1>2. done[r] \in Seq(Items)
  BY DEF IInv, TypeOK, Threads
<1>3. Content \in Seq(Items) /\ Len(Content) = Count
  BY ContentIsSeq
<1>4. /\ done[r] \o Content \in Seq(Items)
      /\ Len(done[r] \o Content) = Len(done[r]) + Len(Content)
  BY <1>2, <1>3, ConcatProperties
<1>5. QED
  BY <1>1, <1>2, <1>3, <1>4

\* A step that leaves the ring, the mutex and its holder's progress alone
\* leaves the queue alone.
LEMMA SameQueue ==
  ASSUME IInv, UNCHANGED << storage, fifoHead, fifoTail, fifoSize, fp_mutex >>,
         fp_mutex \in Threads => done'[fp_mutex] = done[fp_mutex]
  PROVE  QueueSeen' = QueueSeen
<1>1. Count' = Count /\ \A i : Slot(i)' = Slot(i)
  BY SameRing
<1>2. Content' = Content
  BY <1>1 DEF Content
<1>3. QED
  BY <1>1, <1>2 DEF QueueSeen, Threads

LEMMA InitRefines == Init => Abstract!Init
<1> SUFFICES ASSUME Init PROVE Abstract!Init
  OBVIOUS
<1>1. fifoSize \in Nat \ {0} /\ fp_mutex = NoThread /\ Count = 0
  BY FifoAssumption DEF Init, Count
<1>2. QueueSeen = << >>
  BY <1>1, SeenWhenFree DEF Content
<1>3. \A t \in Threads : pc[t] = "idle" /\ done[t] = << >>
  BY DEF Init
<1>4. Results = [t \in Threads |-> << >>]
  BY <1>3 DEF Results
<1>5. Calling = {}
  BY <1>3 DEF Calling
<1>6. fifoSize - 1 \in { n - 1 : n \in Sizes }
  BY DEF Init
<1>7. QED
  BY <1>2, <1>4, <1>5, <1>6 DEF Init, Abstract!Init, Threads

\* Calls and returns of the ring are calls and returns of the queue.
LEMMA CallMaps ==
  ASSUME IInv, NEW t \in Threads, Call(t)
  PROVE  Abstract!Call(t)
<1>1. /\ pc[t] = "idle" /\ pc' = [pc EXCEPT ![t] = "waiting"]
      /\ done' = [done EXCEPT ![t] = << >>]
      /\ UNCHANGED << storage, fifoHead, fifoTail, fifoSize, fp_mutex >>
  BY DEF Call
<1>2. fp_mutex # t
  BY <1>1 DEF IInv, Locked
<1>3. QueueSeen' = QueueSeen
  BY <1>1, <1>2, SameQueue DEF IInv, TypeOK
<1>4. t \notin Calling
  BY <1>1 DEF Calling
<1>5. Calling' = Calling \cup {t}
  BY <1>1 DEF IInv, TypeOK, Calling
<1>6. Results' = [Results EXCEPT ![t] = << >>]
  BY <1>1 DEF IInv, TypeOK, Results
<1>7. QED
  BY <1>1, <1>3, <1>4, <1>5, <1>6 DEF Abstract!Call

LEMMA ReturnMaps ==
  ASSUME IInv, NEW t \in Threads, pc[t] = "inside", Return(t)
  PROVE  /\ Abstract!Return(t)
         /\ Results' = [Results EXCEPT ![t] = done[t]]
         /\ QueueSeen' = Content
<1>1. /\ pc' = [pc EXCEPT ![t] = "idle"] /\ fp_mutex' = NoThread
      /\ UNCHANGED << storage, fifoHead, fifoTail, fifoSize, src, want, done >>
  BY DEF Return
<1>2. t \in Calling /\ Calling' = Calling \ {t}
  BY <1>1 DEF IInv, TypeOK, Calling
<1>3. Results' = [Results EXCEPT ![t] = done[t]]
  BY <1>1 DEF IInv, TypeOK, Results
<1>4. QueueSeen' = Content
  <2>1. Content' = Content
    BY <1>1, SameRing DEF Content
  <2>2. QueueSeen' = Content'
    BY <1>1, FifoAssumption DEF QueueSeen, Threads
  <2>3. QED
    BY <2>1, <2>2
<1>5. QED
  BY <1>1, <1>2, <1>3, <1>4 DEF Abstract!Return

\* A writer returns with exactly the prefix the queue had room for.
LEMMA WriteReturnMaps ==
  ASSUME IInv, NEW w \in Writers, WriteReturn(w)
  PROVE  Abstract!WriteReturn(w)
<1> DEFINE room == fifoSize - 1
<1>1. pc[w] = "inside" /\ w \in Threads /\ fp_mutex = w
  BY DEF WriteReturn, IInv, Locked, Threads
<1>2. /\ QueueSeen \in Seq(Items) /\ Content = QueueSeen \o done[w]
      /\ Len(done[w]) \in 0..Count /\ Len(QueueSeen) = Count - Len(done[w])
  BY <1>1, SeenByWriter
<1>3. /\ Count \in Nat /\ Count <= room /\ room \in Int
  BY ContentIsSeq
<1>4. done[w] \in Seq(Items) /\ src[w] \in Seq(Items) /\ Len(src[w]) \in Nat
  BY <1>1, BatchIsSeq DEF IInv, TypeOK
<1>5. /\ Len(done[w]) <= Len(src[w])
      /\ \A i \in 1..Len(done[w]) : done[w][i] = src[w][i]
  BY <1>1 DEF IInv, Stored
<1>6. Len(done[w]) = Len(src[w]) \/ Count = room
  BY FullMeansNoRoom DEF WriteReturn, IInv
<1>7. done[w] = Accepted(QueueSeen, src[w], room)
  <2>1. CASE Len(done[w]) = Len(src[w])
    <3>1. done[w] = src[w]
      BY <1>4, <1>5, <2>1, SeqEqual
    <3>2. Len(QueueSeen) + Len(src[w]) = Count
      BY <1>2, <1>3, <2>1
    <3>3. QED
      BY <1>3, <3>1, <3>2 DEF Accepted
  <2>2. CASE Len(done[w]) # Len(src[w])
    <3>1. room - Len(QueueSeen) = Len(done[w])
      BY <1>2, <1>3, <1>6, <2>2
    <3>2. ~(Len(QueueSeen) + Len(src[w]) <= room)
      <4> DEFINE a == Len(QueueSeen)
                 d == Len(done[w])
                 m == Len(src[w])
      <4>1. a = Count - d /\ d \in 0..Count /\ m \in Nat /\ d <= m /\ d # m /\ Count = room
        BY <1>2, <1>4, <1>5, <1>6, <2>2
      <4> HIDE DEF a, d, m
      <4>2. ~(a + m <= room)
        BY <1>3, <4>1
      <4>3. QED
        BY <4>2 DEF a, m
    <3>3. Len(done[w]) \in Nat
      BY <1>2
    <3>4. /\ SubSeq(src[w], 1, Len(done[w])) \in Seq(Items)
          /\ Len(SubSeq(src[w], 1, Len(done[w]))) = Len(done[w])
          /\ \A i \in 1..Len(done[w]) : SubSeq(src[w], 1, Len(done[w]))[i] = src[w][i]
      <4>1. \A i \in 1..Len(done[w]) : src[w][i] \in Items
        BY <1>4, <1>5, ElementOfSeq
      <4>2. QED
        BY <3>3, <4>1, SubSeqProperties
    <3>5. done[w] = SubSeq(src[w], 1, Len(done[w]))
      BY <1>4, <1>5, <3>4, SeqEqual
    <3>6. QED
      BY <3>1, <3>2, <3>5 DEF Accepted
  <2>3. QED
    BY <2>1, <2>2
<1>8. Return(w)
  BY DEF WriteReturn
<1>9. Abstract!Return(w) /\ Results' = [Results EXCEPT ![w] = done[w]] /\ QueueSeen' = Content
  BY <1>1, <1>8, ReturnMaps
<1>10. QED
  BY <1>2, <1>7, <1>9 DEF Abstract!WriteReturn, Accepted, Abstract!Accepted

\* A reader returns with the oldest items, as many as it asked for or all.
LEMMA ReadReturnMaps ==
  ASSUME IInv, NEW r \in Readers, ReadReturn(r)
  PROVE  Abstract!ReadReturn(r)
<1> DEFINE n == Len(done[r])
           q == done[r] \o Content
<1>1. pc[r] = "inside" /\ r \in Threads /\ fp_mutex = r
  BY DEF ReadReturn, IInv, Locked, Threads
<1>2. QueueSeen = q /\ done[r] \in Seq(Items)
  BY <1>1, SeenByReader
<1>3. /\ Content \in Seq(Items) /\ Len(Content) = Count /\ Count \in Nat
  BY ContentIsSeq
<1>4. n \in Nat /\ want[r] \in Nat /\ n <= want[r]
  BY <1>1, <1>2, LenProperties DEF IInv, TypeOK, TakenInv
<1>5. n = want[r] \/ Count = 0
  BY EmptyMeansNone DEF ReadReturn, IInv
<1>6. /\ q \in Seq(Items) /\ Len(q) = n + Count
      /\ \A i \in 1..(n + Count) : q[i] = IF i <= n THEN done[r][i] ELSE Content[i - n]
  BY <1>2, <1>3, ConcatProperties
<1>7. done[r] = Taken(q, want[r]) /\ Content = Left(q, want[r])
  <2>1. CASE n = want[r]
    <3>1. SubSeq(q, 1, n) = done[r] /\ SubSeq(q, n + 1, n + Count) = Content
      BY <1>2, <1>3, SplitConcat
    <3>2. want[r] = n /\ Len(q) = n + Count /\ n <= Len(q)
      BY <1>3, <1>4, <1>6, <2>1
    <3> HIDE DEF n, q
    <3>3. QED
      BY <3>1, <3>2 DEF Taken, Left
  <2>2. CASE n < want[r]
    <3>1. Content = << >>
      BY <1>3, <1>4, <1>5, <2>2, EmptySeq
    <3>2. q = done[r]
      BY <1>2, <3>1, ConcatEmptySeq
    <3>3. QED
      BY <1>4, <2>2, <3>1, <3>2 DEF Taken, Left
  <2>3. QED
    BY <1>4, <2>1, <2>2
<1>8. Return(r)
  BY DEF ReadReturn
<1>9. Abstract!Return(r) /\ Results' = [Results EXCEPT ![r] = done[r]] /\ QueueSeen' = Content
  BY <1>1, <1>8, ReturnMaps
<1>10. QED
  BY <1>2, <1>7, <1>9 DEF Abstract!ReadReturn, Taken, Left, Abstract!Taken, Abstract!Left

\* The queue's variables as the ring defines them.
SameAbstract == /\ QueueSeen' = QueueSeen /\ fifoSize' = fifoSize
                /\ Calling' = Calling /\ Results' = Results
                /\ UNCHANGED << src, want >>

\* Taking the mutex and moving one item are invisible to the other threads.
LEMMA LockMaps == ASSUME IInv, NEW t \in Threads, Lock(t) PROVE SameAbstract
<1>1. /\ pc[t] = "waiting" /\ pc' = [pc EXCEPT ![t] = "inside"]
      /\ fp_mutex = NoThread /\ fp_mutex' = t
      /\ UNCHANGED << storage, fifoHead, fifoTail, fifoSize, src, want, done >>
  BY DEF Lock
<1>2. Calling' = Calling /\ Results' = Results
  BY <1>1 DEF IInv, TypeOK, Calling, Results
<1>3. Count' = Count /\ Content' = Content
  BY <1>1, SameRing DEF Content
<1>4. done[t] = << >> /\ Len(done[t]) = 0
  BY <1>1 DEF IInv, Untouched
<1>5. Content \in Seq(Items) /\ Len(Content) = Count /\ Count \in Nat
  BY ContentIsSeq
<1>6. QueueSeen = Content
  BY <1>1, SeenWhenFree
<1>7. CASE t \in Writers
  <2>1. QueueSeen' = SubSeq(Content, 1, Count)
    BY <1>1, <1>3, <1>4, <1>5, <1>7 DEF QueueSeen
  <2>2. SubSeq(Content, 1, Count) = Content
    BY <1>5, SubSeqFull
  <2>3. QED
    BY <1>1, <1>2, <1>6, <2>1, <2>2 DEF SameAbstract
<1>8. CASE t \in Readers
  <2>1. QueueSeen' = << >> \o Content
    BY <1>1, <1>3, <1>4, <1>8, FifoAssumption DEF QueueSeen
  <2>2. << >> \o Content = Content
    BY <1>5, ConcatEmptySeq
  <2>3. QED
    BY <1>1, <1>2, <1>6, <2>1, <2>2 DEF SameAbstract
<1>9. QED
  BY <1>7, <1>8 DEF Threads

LEMMA WriteIterMaps == ASSUME IInv, NEW w \in Writers, WriteIter(w) PROVE SameAbstract
<1> DEFINE n == Len(done[w])
           x == src[w][n + 1]
<1>1. /\ pc[w] = "inside" /\ n < Len(src[w]) /\ ~Full
      /\ storage' = [storage EXCEPT ![fifoHead] = x]
      /\ fifoHead' = After(fifoHead)
      /\ done' = [done EXCEPT ![w] = Append(done[w], x)]
      /\ UNCHANGED << fifoTail, fifoSize, fp_mutex, pc, src, want >>
  BY DEF WriteIter
<1>2. w \in Threads /\ fp_mutex = w /\ TypeOK
  BY <1>1 DEF IInv, Locked, Threads
<1>3. Calling' = Calling /\ Results' = Results
  BY <1>1, <1>2 DEF TypeOK, Calling, Results
<1>4. QueueSeen = SubSeq(Content, 1, Count - n) /\ n \in 0..Count
  BY <1>2, SeenByWriter
<1>5. Content \in Seq(Items) /\ Len(Content) = Count /\ Count \in Nat
  BY ContentIsSeq
<1>6. done[w] \in Seq(Items) /\ src[w] \in Seq(Items) /\ n \in Nat
  BY <1>2, BatchIsSeq, LenProperties DEF TypeOK
<1>7. x \in Items
  BY <1>1, <1>6, ElementOfSeq
<1>8. /\ Count' = Count + 1
      /\ \A i \in 1..Count' :
           storage'[Slot(i)'] = IF i <= Count THEN storage[Slot(i)] ELSE x
  BY <1>1, <1>2, <1>7, Push
<1>9. Len(done'[w]) = n + 1
  BY <1>1, <1>2, <1>6, <1>7 DEF TypeOK
<1>10. \A i \in 1..Count : Content[i] \in Items /\ Content'[i] = Content[i]
  BY <1>5, <1>8, ElementOfSeq DEF Content
<1>11. Count - n \in Nat /\ \A i \in 1..(Count - n) : i \in 1..Count
  <2> HIDE DEF n
  <2>1. QED
    BY <1>4, <1>5, <1>6
<1>12. SubSeq(Content', 1, Count - n) = SubSeq(Content, 1, Count - n)
  BY <1>10, <1>11, SamePrefix
<1>13. Count' - Len(done'[w]) = Count - n
  <2>1. Count' = Count + 1 /\ Len(done'[w]) = n + 1 /\ Count \in Nat /\ n \in Nat
    BY <1>5, <1>6, <1>8, <1>9
  <2> HIDE DEF n
  <2>2. QED
    BY <2>1
<1>14. QueueSeen' = SubSeq(Content', 1, Count' - Len(done'[w]))
  BY <1>1, <1>2 DEF QueueSeen
<1>15. QED
  BY <1>1, <1>3, <1>4, <1>12, <1>13, <1>14 DEF SameAbstract

LEMMA ReadIterMaps == ASSUME IInv, NEW r \in Readers, ReadIter(r) PROVE SameAbstract
<1>1. /\ pc[r] = "inside" /\ ~IsEmpty
      /\ done' = [done EXCEPT ![r] = Append(done[r], storage[fifoTail])]
      /\ fifoTail' = After(fifoTail)
      /\ UNCHANGED << storage, fifoHead, fifoSize, fp_mutex, pc, src, want >>
  BY DEF ReadIter
<1>2. r \in Threads /\ fp_mutex = r /\ TypeOK
  BY <1>1 DEF IInv, Locked, Threads
<1>3. Calling' = Calling /\ Results' = Results
  BY <1>1, <1>2 DEF TypeOK, Calling, Results
<1>4. QueueSeen = done[r] \o Content /\ done[r] \in Seq(Items)
  BY <1>2, SeenByReader
<1>5. Content \in Seq(Items) /\ Len(Content) = Count
  BY ContentIsSeq
<1>6. /\ Count' = Count - 1 /\ Count \in Nat \ {0} /\ Slot(1) = fifoTail
      /\ \A i \in 1..(Count - 1) : Slot(i)' = Slot(i + 1)
  BY <1>1, <1>2, Pop
<1>7. Content[1] = storage[fifoTail]
  BY <1>6 DEF Content
<1>8. Content' = [i \in 1..(Count - 1) |-> Content[i + 1]]
  BY <1>1, <1>6 DEF Content
<1>9. /\ Content' \in Seq(Items)
      /\ Len(Content') = Count - 1
      /\ \A i \in 1..(Count - 1) : Content'[i] = Content[i + 1]
  <2>1. \A i \in 1..(Count - 1) : Content[i + 1] \in Items
    BY <1>5, <1>6, ElementOfSeq
  <2>2. Content' \in [1..(Count - 1) -> Items] /\ Count - 1 \in Nat
    BY <1>6, <1>8, <2>1
  <2>3. Content' \in Seq(Items)
    BY <2>2, SeqDef
  <2>4. QED
    BY <1>8, <2>2, <2>3, LenProperties
<1>10. Append(done[r], Content[1]) \o Content' = done[r] \o Content
  <2>1. Len(Content) = Len(Content') + 1
    BY <1>5, <1>6, <1>9
  <2>2. \A i \in 1..Len(Content') : Content'[i] = Content[i + 1]
    BY <1>9
  <2>3. QED
    BY <1>4, <1>5, <1>9, <2>1, <2>2, MoveOne
<1>11. done'[r] = Append(done[r], Content[1])
  BY <1>1, <1>2, <1>7 DEF TypeOK
<1>12. QueueSeen' = done'[r] \o Content'
  BY <1>1, <1>2, FifoAssumption DEF QueueSeen
<1>13. QED
  BY <1>1, <1>3, <1>4, <1>10, <1>11, <1>12 DEF SameAbstract

LEMMA ResizeMaps ==
  ASSUME IInv, NEW n \in Sizes, fifo_changeSize(n) PROVE Abstract!Resize
<1>1. /\ \A t \in Threads : pc[t] = "idle"
      /\ fifoSize' = n /\ fifoHead' = 0 /\ fifoTail' = 0
      /\ UNCHANGED << fp_mutex, pc, src, want, done >>
  BY DEF fifo_changeSize
<1>2. Calling = {} /\ Calling' = Calling /\ Results' = Results
  BY <1>1 DEF Calling, Results
<1>3. fp_mutex = NoThread
  BY <1>1 DEF IInv, Locked, TypeOK
<1>4. Count' = 0
  BY <1>1, FifoAssumption DEF Count
<1>5. Content' = << >>
  BY <1>4 DEF Content
<1>6. QueueSeen' = << >>
  BY <1>1, <1>3, <1>5, FifoAssumption DEF QueueSeen, Threads
<1>7. fifoSize' - 1 \in { k - 1 : k \in Sizes }
  BY <1>1
<1>8. QED
  BY <1>1, <1>2, <1>6, <1>7 DEF Abstract!Resize

LEMMA NextRefines == IInv /\ [Next]_vars => [Abstract!Next]_(Abstract!qvars)
<1> SUFFICES ASSUME IInv, [Next]_vars PROVE [Abstract!Next]_(Abstract!qvars)
  OBVIOUS
<1>1. SameAbstract => UNCHANGED Abstract!qvars
  BY DEF SameAbstract, Abstract!qvars
<1>2. CASE UNCHANGED vars
  <2>1. UNCHANGED << storage, fifoHead, fifoTail, fifoSize, fp_mutex, pc, src, want, done >>
    BY <1>2 DEF vars
  <2>2. QueueSeen' = QueueSeen
    BY <2>1, SameQueue
  <2>3. Calling' = Calling /\ Results' = Results
    BY <2>1 DEF Calling, Results
  <2>4. QED
    BY <1>1, <2>1, <2>2, <2>3 DEF SameAbstract
<1>3. ASSUME NEW w \in Writers, NEW batch \in Batches, WriteCall(w, batch)
      PROVE  Abstract!Next
  <2>1. Abstract!Call(w)
    BY <1>3, CallMaps DEF WriteCall, Threads
  <2>2. src' = [src EXCEPT ![w] = batch] /\ want' = want
    BY <1>3 DEF WriteCall
  <2>3. src'[w] = batch /\ batch \in Seq(Items)
    BY <2>2, BatchIsSeq DEF IInv, TypeOK
  <2>4. Abstract!WriteCall(w)
    BY <2>1, <2>2, <2>3 DEF Abstract!WriteCall
  <2>5. QED
    BY <2>4 DEF Abstract!Next
<1>4. ASSUME NEW r \in Readers, NEW n \in 0..MaxBatch, ReadCall(r, n)
      PROVE  Abstract!Next
  <2>1. Abstract!Call(r)
    BY <1>4, CallMaps DEF ReadCall, Threads
  <2>2. want' = [want EXCEPT ![r] = n] /\ src' = src
    BY <1>4 DEF ReadCall
  <2>3. want'[r] = n /\ n \in Nat
    BY <2>2, FifoAssumption DEF IInv, TypeOK
  <2>4. Abstract!ReadCall(r)
    BY <2>1, <2>2, <2>3 DEF Abstract!ReadCall
  <2>5. QED
    BY <2>4 DEF Abstract!Next
<1>5. ASSUME NEW t \in Threads, Lock(t) PROVE SameAbstract
  BY <1>5, LockMaps
<1>6. ASSUME NEW w \in Writers, WriteIter(w) PROVE SameAbstract
  BY <1>6, WriteIterMaps
<1>7. ASSUME NEW r \in Readers, ReadIter(r) PROVE SameAbstract
  BY <1>7, ReadIterMaps
<1>8. ASSUME NEW w \in Writers, WriteReturn(w) PROVE Abstract!Next
  BY <1>8, WriteReturnMaps DEF Abstract!Next
<1>9. ASSUME NEW r \in Readers, ReadReturn(r) PROVE Abstract!Next
  BY <1>9, ReadReturnMaps DEF Abstract!Next
<1>10. ASSUME NEW n \in Sizes, fifo_changeSize(n) PROVE Abstract!Next
  BY <1>10, ResizeMaps DEF Abstract!Next
<1>11. QED
  BY <1>1, <1>2, <1>3, <1>4, <1>5, <1>6, <1>7, <1>8, <1>9, <1>10 DEF Next, Threads

\* The ring with its mutex and loops is an atomic bounded queue: for every set
\* of threads, every ring size and every interleaving, a write appends exactly
\* the prefix that fits and a read takes exactly the oldest items.
THEOREM Refinement == Spec => RefinesQueue
<1>1. Spec => []IInv
  BY Invariance
<1>2. QED
  BY <1>1, InitRefines, NextRefines, PTL DEF Spec, RefinesQueue, Abstract!Spec
================================================================================
