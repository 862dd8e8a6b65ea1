---------------------- MODULE MCPosixSerialPortSocket ----------------------
(***************************************************************************)
(* PosixSerialPortSocket for TLC: the threads are interchangeable.         *)
(***************************************************************************)
EXTENDS PosixSerialPortSocket, TLC

Symmetry == Permutations(Threads)
=============================================================================
