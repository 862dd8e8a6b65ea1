---------------------- MODULE MCTermiosSerialPortSocket ----------------------
(***************************************************************************)
(* TermiosSerialPortSocket for TLC: the threads are interchangeable.       *)
(***************************************************************************)
EXTENDS TermiosSerialPortSocket, TLC

Symmetry == Permutations(Threads)
==============================================================================
