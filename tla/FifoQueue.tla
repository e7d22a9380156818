------------------------------- MODULE FifoQueue -------------------------------
(* What fifo_buffer promises to the threads that share it: an atomic bounded   *)
(* queue.  A thread calls, and at one instant before the call returns the      *)
(* whole batch is moved: a write appends the prefix that fits, a read removes  *)
(* the oldest items.  FifoBuffer, the ring with its lock and its loops, is     *)
(* shown to implement this module.                                             *)
EXTENDS FifoOps

CONSTANTS Items,     \* what is stored (gr_storage_web values)
          Writers,   \* threads that call fifo_write_storage
          Readers,   \* threads that call fifo_read_storage
          Capacities \* capacities the buffer may be resized to

VARIABLES queue,     \* the stored items, oldest first
          capacity,  \* how many fit
          calling,   \* the threads between call and return
          src,       \* src[w]: the batch of writer w's latest call
          want,      \* want[r]: how many items reader r's latest call asks for
          moved      \* moved[t]: what t's latest returned call moved

qvars == << queue, capacity, calling, src, want, moved >>

Init ==
  /\ queue = << >>
  /\ capacity \in Capacities
  /\ calling = {}
  /\ src = [w \in Writers |-> << >>]
  /\ want = [r \in Readers |-> 0]
  /\ moved = [t \in Writers \cup Readers |-> << >>]

Call(t) ==
  /\ t \notin calling
  /\ calling' = calling \cup {t}
  /\ moved' = [moved EXCEPT ![t] = << >>]
  /\ UNCHANGED << queue, capacity >>

WriteCall(w) ==
  /\ Call(w)
  /\ src'[w] \in Seq(Items)
  /\ src' = [src EXCEPT ![w] = src'[w]]
  /\ UNCHANGED want

ReadCall(r) ==
  /\ Call(r)
  /\ want'[r] \in Nat
  /\ want' = [want EXCEPT ![r] = want'[r]]
  /\ UNCHANGED src

Return(t) ==
  /\ t \in calling
  /\ calling' = calling \ {t}
  /\ UNCHANGED << capacity, src, want >>

WriteReturn(w) ==
  /\ Return(w)
  /\ moved' = [moved EXCEPT ![w] = Accepted(queue, src[w], capacity)]
  /\ queue' = queue \o Accepted(queue, src[w], capacity)

ReadReturn(r) ==
  /\ Return(r)
  /\ moved' = [moved EXCEPT ![r] = Taken(queue, want[r])]
  /\ queue' = Left(queue, want[r])

\* A resize empties the queue, and happens only while nobody is calling.
Resize ==
  /\ calling = {}
  /\ queue' = << >>
  /\ capacity' \in Capacities
  /\ UNCHANGED << calling, src, want, moved >>

Next ==
  \/ \E w \in Writers : WriteCall(w) \/ WriteReturn(w)
  \/ \E r \in Readers : ReadCall(r) \/ ReadReturn(r)
  \/ Resize

Spec == Init /\ [][Next]_qvars
================================================================================
