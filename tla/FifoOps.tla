-------------------------------- MODULE FifoOps --------------------------------
(* What one call on a bounded first-in first-out buffer moves.                 *)
(*                                                                             *)
(* fifo_write_storage and fifo_read_storage (lib/fifo_buffer.cc) move items    *)
(* one at a time under a lock and return how many they moved.  These operators *)
(* say what the whole call amounts to: a write stores the longest prefix of    *)
(* its batch that still fits and drops the rest, a read takes the oldest items *)
(* up to the number asked for.                                                 *)
EXTENDS Naturals, Sequences

\* The part of batch s that fits behind queue q in a buffer of capacity cap.
Accepted(q, s, cap) ==
  IF Len(q) + Len(s) <= cap THEN s ELSE SubSeq(s, 1, cap - Len(q))

\* The items a read of at most n takes from queue q, and what it leaves there.
Taken(q, n) == IF n <= Len(q) THEN SubSeq(q, 1, n) ELSE q
Left(q, n)  == IF n <= Len(q) THEN SubSeq(q, n + 1, Len(q)) ELSE << >>
================================================================================
