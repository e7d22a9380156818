----------------------------- MODULE MCFifoBuffer ------------------------------
(* FifoBuffer for TLC: one handler and one worker, as in a block.              *)
EXTENDS FifoBuffer

CONSTANTS a, b, w1, r1

TwoItems  == {a, b}
OneWriter == {w1}
OneReader == {r1}
AnyRing   == {2, 4}
================================================================================
