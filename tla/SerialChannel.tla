---------------------------- MODULE SerialChannel ----------------------------
(***************************************************************************)
(* What a serial port socket promises the threads that share it:           *)
(*                                                                         *)
(*   - "Any read operations are synchronized as well as all write          *)
(*     operations": one operation at a time owns a direction of the line,  *)
(*     and only its owner moves bytes;                                     *)
(*   - once the port is detached no byte moves to or from it;              *)
(*   - "Closing an socket with pending IO operations will unblock said     *)
(*     operations": after the detachment every owner gives up.             *)
(*                                                                         *)
(* It knows nothing of file descriptors, polls, locks or exceptions.       *)
(***************************************************************************)
EXTENDS Naturals

CONSTANTS Threads,   \* the threads (or asynchronous calls) that use the socket
          NoThread   \* the owner of a direction nobody uses

VARIABLES attached,  \* the socket is connected to its device
          owner,     \* the thread that owns each direction of the line
          moved      \* the bytes the owner of a direction has moved

vars == <<attached, owner, moved>>

Dir == {"in", "out"}

Init == /\ attached = TRUE
        /\ owner = [d \in Dir |-> NoThread]
        /\ moved = [d \in Dir |-> 0]

Claim(t, d) == /\ owner[d] = NoThread
               /\ owner' = [owner EXCEPT ![d] = t]
               /\ UNCHANGED <<attached, moved>>

Move(t, d) == /\ attached
              /\ owner[d] = t
              /\ moved' = [moved EXCEPT ![d] = moved'[d]]
              /\ moved'[d] > moved[d]
              /\ UNCHANGED <<attached, owner>>

Yield(t, d) == /\ owner[d] = t
               /\ owner' = [owner EXCEPT ![d] = NoThread]
               /\ moved' = [moved EXCEPT ![d] = 0]
               /\ UNCHANGED attached

Detach == /\ attached
          /\ attached' = FALSE
          /\ UNCHANGED <<owner, moved>>

Next == \/ \E t \in Threads, d \in Dir : Claim(t, d) \/ Move(t, d) \/ Yield(t, d)
        \/ Detach

SafeSpec == Init /\ [][Next]_vars

GiveUp(d) == ~attached /\ \E t \in Threads : Yield(t, d)

Spec == SafeSpec /\ \A d \in Dir : WF_vars(GiveUp(d))
==============================================================================
