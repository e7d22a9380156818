------------------------------- MODULE FifoBuffer -------------------------------
(* lib/fifo_buffer.cc: the ring of gr_storage_web slots that a message handler *)
(* (writer) shares with the worker thread of its block (reader).               *)
(*                                                                             *)
(* One call is a call, the acquisition of fp_mutex, one step per iteration of  *)
(* its loop and the return that releases the mutex.  The empty slot between    *)
(* fifoHead and fifoTail tells a full ring from an empty one, so a ring of     *)
(* fifoSize slots holds fifoSize - 1 items.                                    *)
EXTENDS FifoOps

CONSTANTS Items,    \* the packets
          Empty,    \* a default-constructed slot
          Writers,  \* threads that call fifo_write_storage
          Readers,  \* threads that call fifo_read_storage
          NoThread, \* the value of fp_mutex while it is free
          Sizes,    \* arguments of the constructor and of fifo_changeSize
          MaxBatch  \* bound on nStorage

Threads == Writers \cup Readers

ASSUME FifoAssumption ==
  /\ Empty \notin Items
  /\ Writers \cap Readers = {}
  /\ NoThread \notin Threads
  /\ Sizes \subseteq Nat \ {0}
  /\ MaxBatch \in Nat

VARIABLES storage,   \* fifoBufferStorage
          fifoHead,  \* next slot to write
          fifoTail,  \* next slot to read
          fifoSize,  \* number of slots
          fp_mutex,  \* the thread inside a call, or NoThread
          pc,        \* pc[t]: "idle", "waiting" for the mutex, or "inside"
          src,       \* src[w]: the batch writer w passed
          want,      \* want[r]: the nStorage reader r passed
          done       \* done[t]: the items moved so far, j = Len(done[t])

vars == << storage, fifoHead, fifoTail, fifoSize, fp_mutex, pc, src, want, done >>

Batches == UNION { [1..n -> Items] : n \in 0..MaxBatch }

\* The slots new gr_storage_web[n] makes.
Fresh(n) == [k \in 0..(n - 1) |-> Empty]

Init ==
  /\ fifoSize \in Sizes
  /\ storage = Fresh(fifoSize)
  /\ fifoHead = 0
  /\ fifoTail = 0
  /\ fp_mutex = NoThread
  /\ pc = [t \in Threads |-> "idle"]
  /\ src = [w \in Writers |-> << >>]
  /\ want = [r \in Readers |-> 0]
  /\ done = [t \in Threads |-> << >>]

--------------------------------------------------------------------------------
\* The ring, as its index arithmetic reads it.

\* A slip: the wrapped case of the full test is forgotten.
FullUnwrapped == fifoHead + 1 = fifoTail

Full    == \/ fifoHead + 1 = fifoTail
           \/ fifoHead + 1 = fifoSize /\ fifoTail = 0
IsEmpty == fifoHead = fifoTail

\* A slip: the wrap is forgotten.
AfterUnwrapped(k) == k + 1

\* The increment and wrap of an index.
After(k) == IF k + 1 = fifoSize THEN 0 ELSE k + 1

--------------------------------------------------------------------------------
\* Calls.

Call(t) ==
  /\ pc[t] = "idle"
  /\ pc' = [pc EXCEPT ![t] = "waiting"]
  /\ done' = [done EXCEPT ![t] = << >>]
  /\ UNCHANGED << storage, fifoHead, fifoTail, fifoSize, fp_mutex >>

WriteCall(w, batch) ==
  /\ Call(w)
  /\ src' = [src EXCEPT ![w] = batch]
  /\ UNCHANGED want

ReadCall(r, n) ==
  /\ Call(r)
  /\ want' = [want EXCEPT ![r] = n]
  /\ UNCHANGED src

\* A slip: the call takes no lock.
LockNothing(t) ==
  /\ pc[t] = "waiting"
  /\ fp_mutex' = t
  /\ pc' = [pc EXCEPT ![t] = "inside"]
  /\ UNCHANGED << storage, fifoHead, fifoTail, fifoSize, src, want, done >>

Lock(t) ==
  /\ pc[t] = "waiting"
  /\ fp_mutex = NoThread
  /\ fp_mutex' = t
  /\ pc' = [pc EXCEPT ![t] = "inside"]
  /\ UNCHANGED << storage, fifoHead, fifoTail, fifoSize, src, want, done >>

\* return, at which the scoped lock is released.
Return(t) ==
  /\ fp_mutex' = NoThread
  /\ pc' = [pc EXCEPT ![t] = "idle"]
  /\ UNCHANGED << storage, fifoHead, fifoTail, fifoSize, src, want, done >>

\* One iteration of fifo_write_storage.
WriteIter(w) ==
  /\ pc[w] = "inside"
  /\ Len(done[w]) < Len(src[w])
  /\ ~Full
  /\ storage' = [storage EXCEPT ![fifoHead] = src[w][Len(done[w]) + 1]]
  /\ fifoHead' = After(fifoHead)
  /\ done' = [done EXCEPT ![w] = Append(@, src[w][Len(done[w]) + 1])]
  /\ UNCHANGED << fifoTail, fifoSize, fp_mutex, pc, src, want >>

\* A slip: a writer that could not store everything tries again.
WriteReturnWhenStored(w) ==
  /\ pc[w] = "inside"
  /\ Len(done[w]) = Len(src[w]) \/ Full
  /\ fp_mutex' = NoThread
  /\ pc' = [pc EXCEPT ![w] = IF Len(done[w]) = Len(src[w]) THEN "idle" ELSE "waiting"]
  /\ UNCHANGED << storage, fifoHead, fifoTail, fifoSize, src, want, done >>

WriteReturn(w) ==
  /\ pc[w] = "inside"
  /\ Len(done[w]) = Len(src[w]) \/ Full
  /\ Return(w)

\* One iteration of fifo_read_storage.
ReadIter(r) ==
  /\ pc[r] = "inside"
  /\ Len(done[r]) < want[r]
  /\ ~IsEmpty
  /\ done' = [done EXCEPT ![r] = Append(@, storage[fifoTail])]
  /\ fifoTail' = After(fifoTail)
  /\ UNCHANGED << storage, fifoHead, fifoSize, fp_mutex, pc, src, want >>

ReadReturn(r) ==
  /\ pc[r] = "inside"
  /\ Len(done[r]) = want[r] \/ IsEmpty
  /\ Return(r)

\* A slip: the tail is not reset.
fifo_changeSizeKeepsTail(n) ==
  /\ \A t \in Threads : pc[t] = "idle"
  /\ fifoSize' = n
  /\ storage' = Fresh(n)
  /\ fifoHead' = 0
  /\ UNCHANGED << fifoTail, fp_mutex, pc, src, want, done >>

\* fifo_changeSize takes no lock.  A block calls it in its constructor, before
\* it registers its handler and starts its thread: no call is in progress.
fifo_changeSize(n) ==
  /\ \A t \in Threads : pc[t] = "idle"
  /\ fifoSize' = n
  /\ storage' = Fresh(n)
  /\ fifoHead' = 0
  /\ fifoTail' = 0
  /\ UNCHANGED << fp_mutex, pc, src, want, done >>

Next ==
  \/ \E w \in Writers : \/ \E batch \in Batches : WriteCall(w, batch)
                        \/ Lock(w)
                        \/ WriteIter(w)
                        \/ WriteReturn(w)
  \/ \E r \in Readers : \/ \E n \in 0..MaxBatch : ReadCall(r, n)
                        \/ Lock(r)
                        \/ ReadIter(r)
                        \/ ReadReturn(r)
  \/ \E n \in Sizes : fifo_changeSize(n)

Spec == Init /\ [][Next]_vars

\* A thread inside a call keeps running, and one that waits for the mutex gets
\* it if it becomes free again and again.
Fairness ==
  /\ \A t \in Threads : SF_vars(Lock(t))
  /\ \A w \in Writers : WF_vars(WriteIter(w) \/ WriteReturn(w))
  /\ \A r \in Readers : WF_vars(ReadIter(r) \/ ReadReturn(r))

FairSpec == Spec /\ Fairness

--------------------------------------------------------------------------------
\* What the ring stands for: the slots from fifoTail up to fifoHead.

Count == IF fifoHead >= fifoTail THEN fifoHead - fifoTail
                                 ELSE fifoHead + fifoSize - fifoTail
Slot(i) == IF fifoTail + i - 1 < fifoSize THEN fifoTail + i - 1
                                          ELSE fifoTail + i - 1 - fifoSize
Content == [i \in 1..Count |-> storage[Slot(i)]]

\* Until the call inside the mutex returns, the queue is what it found: without
\* the items a writer has stored so far, with those a reader has taken so far.
QueueSeen ==
  IF fp_mutex \in Writers
    THEN SubSeq(Content, 1, Count - Len(done[fp_mutex]))
    ELSE IF fp_mutex \in Readers THEN done[fp_mutex] \o Content
                                 ELSE Content

Calling == { t \in Threads : pc[t] # "idle" }
Results == [t \in Threads |-> IF pc[t] = "idle" THEN done[t] ELSE << >>]

Abstract == INSTANCE FifoQueue WITH
  Capacities <- { n - 1 : n \in Sizes },
  queue      <- QueueSeen,
  capacity   <- fifoSize - 1,
  calling    <- Calling,
  moved      <- Results

--------------------------------------------------------------------------------
\* Properties.

TypeOK ==
  /\ fifoSize \in Sizes
  /\ storage \in [0..(fifoSize - 1) -> Items \cup {Empty}]
  /\ fifoHead \in 0..(fifoSize - 1)
  /\ fifoTail \in 0..(fifoSize - 1)
  /\ fp_mutex \in Threads \cup {NoThread}
  /\ pc \in [Threads -> {"idle", "waiting", "inside"}]
  /\ src \in [Writers -> Batches]
  /\ want \in [Readers -> 0..MaxBatch]
  /\ done \in [Threads -> Seq(Items)]

\* Every slot between fifoTail and fifoHead holds a packet somebody wrote since
\* the ring was last resized: a read never returns a default-constructed slot.
NoUnwrittenSlotIsRead == \A i \in 1..Count : storage[Slot(i)] \in Items

\* Nothing a call stores or takes is lost, doubled or reordered, whatever the
\* interleaving of the calls, the fill level and the wrap position: the ring
\* behaves as the atomic bounded queue of FifoQueue.
RefinesQueue == Abstract!Spec

\* Every call of fifo_write_storage and fifo_read_storage returns.
CallsReturn == \A t \in Threads : pc[t] = "waiting" ~> pc[t] = "idle"
================================================================================
