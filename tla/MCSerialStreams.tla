--------------------------- MODULE MCSerialStreams ---------------------------
(***************************************************************************)
(* SerialStreams for TLC: the threads are interchangeable.                 *)
(***************************************************************************)
EXTENDS SerialStreams, TLC

Symmetry == Permutations(Threads)
==============================================================================
