-------------------------- MODULE MCSpscRingBuffer --------------------------
(* SpscRingBuffer on a small instance.  The state space is finite without  *)
(* any bound on the number of operations: the indices wrap at IndexRange,  *)
(* as they do at 2^64.                                                     *)
EXTENDS SpscRingBuffer

CONSTANTS a, b

ItemsAB == {a, b}
=============================================================================
