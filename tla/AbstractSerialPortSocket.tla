---------------------- MODULE AbstractSerialPortSocket ----------------------
(***************************************************************************)
(* What the POSIX and the Windows socket of the JNI provider share:        *)
(* AbstractSerialPortSocket.java takes the locks and calls begin() and     *)
(* end() around the native functions, and those of one or two device calls *)
(* (the break and the counts) are the same in both libraries but for the   *)
(* names of the calls.  The library adds readBuffer, writeBuffer and       *)
(* close0.                                                                 *)
(*                                                                         *)
(* Every native function copies the field fd once and uses its copy.       *)
(***************************************************************************)
EXTENDS InterruptiblePort

CONSTANTS MaxLength,  \* the longest buffer a call is given
          Lengths,    \* the lengths of buffers calls are given
          Offered,    \* the operations the threads call
          TimedDirs,  \* the directions that setTimeouts may give a timeout
          MaxInterrupts \* bound: threads whose interrupt status is set at a time

ReadOps  == {"read", "readStream", "readSingle"}
WriteOps == {"write", "writeStream"}
DrainOps == {"drain", "flush"}
BreakOps == {"sendBreak", "setBreak", "clearBreak"}
Ops      == ReadOps \cup WriteOps \cup DrainOps \cup BreakOps \cup {"count"}

ASSUME CallAssumption == /\ MaxLength \in Nat \ {0}
                         /\ Lengths \subseteq 0..MaxLength
                         /\ Offered \subseteq Ops
                         /\ TimedDirs \subseteq Dir
                         /\ MaxInterrupts \in Nat

VARIABLES fdCleaner,  \* the number the cleaner will close, or "ran"
          lock,       \* the thread inside synchronized (readLock), (writeLock)
          pc,         \* the next statement of each thread's call
          op,         \* the operation each thread is calling
          local,      \* the locals of each thread's call; the library says which
          result      \* what the native function returns or throws

callVars   == <<fdCleaner, lock, pc, op, local, result>>
socketVars == <<portVars, callVars>>

DirOf(o) == IF o \in ReadOps THEN "in" ELSE "out"

\* drainOutputBuffer() and the counts are native methods without a monitor.
LocksOf(o) == IF o \in {"drain", "count"} THEN {} ELSE {DirOf(o)}

\* The operations between begin() and end().
Interruptible == Ops \ {"drain", "count", "setBreak", "clearBreak"}

\* Bytes of the buffer; the duration of sendBreak, 0 standing for every illegal one.
Arguments(o) == CASE o \in {"read", "readStream", "write", "writeStream"} -> Lengths
                  [] o = "sendBreak" -> 0..1
                  [] OTHER           -> {1}

\* The exceptions of Exceptions.c, and those that AbstractInterruptibleChannel adds.
Exceptions == {"timeout", "asyncClose", "closedByInterrupt", "fdInvalid", "portClosed",
               "ioError", "interruptedIO", "signalled", "waitFailed", "tooFew",
               "runtime", "illegalArgument"}

NoResult == [outcome |-> "none", reported |-> 0]

SocketTypeOK ==
  /\ PortTypeOK
  /\ fdCleaner \in {PORT_FD, INVALID_FD, "ran"}
  /\ lock \in [Dir -> Threads \cup {NoThread}]
  /\ op \in [Threads -> Ops \cup {"none"}]
  /\ result \in [Threads -> [outcome : Exceptions \cup {"none", "ok", "eof"},
                             reported : 0..MaxLength]]

\* The constructor has returned: open0 succeeded and the cleaner is registered.
SocketInit(frame) ==
  /\ PortInit
  /\ fdCleaner = PORT_FD
  /\ lock = [d \in Dir |-> NoThread]
  /\ pc = [t \in Threads |-> "idle"]
  /\ op = [t \in Threads |-> "none"]
  /\ local = [t \in Threads |-> frame]
  /\ result = [t \in Threads |-> NoResult]

------------------------------------------------------------------------------
At(t, label)   == pc[t] = label
Goto(t, label) == pc' = [pc EXCEPT ![t] = label]
Touches(t)     == local[t].number = PORT_FD /\ file = "port"
Strays(t)      == IF local[t].number = PORT_FD /\ file = "other" THEN 1 ELSE 0

\* The input stream turns an AsynchronousCloseException into -1, readSingle a 0 too.
Caught(o, outcome, reported) ==
  IF \/ o \in {"readStream", "readSingle"} /\ outcome = "asyncClose"
     \/ o = "readSingle" /\ outcome = "ok" /\ reported = 0
    THEN "eof" ELSE outcome

\* The native function returns or throws.
Deliver(t, outcome, reported) ==
  /\ Goto(t, IF op[t] \in Interruptible THEN "end" ELSE "leave")
  /\ result' = [result EXCEPT ![t] = [outcome  |-> Caught(op[t], outcome, reported),
                                      reported |-> reported]]

\* throw_ClosedOrNativeException reads the field fd.
throw_ClosedOrNativeException == IF fd = INVALID_FD THEN "portClosed" ELSE "ioError"

\* A call arrives, with a buffer or an argument.
Call(t, frame) ==
  /\ At(t, "idle")
  /\ fdCleaner # "ran"
  /\ \E o \in Offered : \E n \in Arguments(o) :
       /\ op' = [op EXCEPT ![t] = o]
       /\ local' = [local EXCEPT ![t] = [frame EXCEPT !.rem = n]]
  /\ Goto(t, "enter")
  /\ UNCHANGED <<portVars, fdCleaner, lock, result>>

\* Faulty: the operation does not wait for the monitor.
AcquireAnyway(t) == lock' = [d \in Dir |-> IF d \in LocksOf(op[t]) THEN t ELSE lock[d]]

Acquire(t) ==
  /\ \A d \in LocksOf(op[t]) : lock[d] = NoThread
  /\ lock' = [d \in Dir |-> IF d \in LocksOf(op[t]) THEN t ELSE lock[d]]

(***************************************************************************)
(* synchronized, the test for an empty buffer, and begin().                *)
(***************************************************************************)
Enter(t) ==
  /\ At(t, "enter")
  /\ Acquire(t)
  /\ IF local[t].rem = 0 /\ op[t] # "sendBreak"
       THEN /\ Goto(t, "leave")
            /\ result' = [result EXCEPT ![t].outcome = "ok"]
            /\ UNCHANGED portVars
     ELSE IF op[t] \in Interruptible
       THEN /\ BeginBlocking(t)
            /\ Goto(t, IF t \in interrupts THEN "selfClose" ELSE "load")
            /\ UNCHANGED result
     ELSE Goto(t, "load") /\ UNCHANGED <<portVars, result>>
  /\ UNCHANGED <<fdCleaner, op, local>>

\* An interrupted caller is back from begin() when the channel is closed.
SelfClosed(t) ==
  /\ At(t, "selfClose")
  /\ closing = "done"
  /\ Goto(t, "load")
  /\ UNCHANGED <<portVars, fdCleaner, lock, op, local, result>>

\* sendBreak0 tests the duration first.
RefuseBreak(t) ==
  /\ At(t, "load")
  /\ op[t] = "sendBreak" /\ local[t].rem = 0
  /\ Deliver(t, "illegalArgument", 0)
  /\ UNCHANGED <<portVars, fdCleaner, lock, op, local>>

------------------------------------------------------------------------------
(* The functions of one or two device calls. *)

\* ioctl(fd, TIOCSBRK), SetCommBreak or their reverse, with the result r.
IoctlBreak(t, on, r) ==
  /\ break' = IF Touches(t) /\ r = 0 THEN on ELSE break
  /\ local' = [local EXCEPT ![t].strays = @ + Strays(t)]
  /\ UNCHANGED <<fileVars, inQueue, outQueue, hungUp, closeVars, fdCleaner, lock, op>>

\* setBreak0, and the first half of sendBreak0.
SetBreak(t) ==
  /\ At(t, "first")
  /\ op[t] \in BreakOps
  /\ \E r \in IoctlResults(local[t].number) :
       /\ IoctlBreak(t, op[t] # "clearBreak", r)
       /\ IF r = 0 /\ op[t] = "sendBreak"
            THEN Goto(t, "sleep") /\ UNCHANGED result
            ELSE Deliver(t, IF r = 0 THEN "ok" ELSE throw_ClosedOrNativeException, 0)

\* Faulty: the break is not ended.
SleepOnly(t) ==
  /\ At(t, "sleep")
  /\ Deliver(t, "ok", 0)
  /\ UNCHANGED <<portVars, fdCleaner, lock, op, local>>

\* usleep(), Sleep().
Sleep(t) ==
  /\ At(t, "sleep")
  /\ Goto(t, "again")
  /\ UNCHANGED <<portVars, fdCleaner, lock, op, local, result>>

\* The second half of sendBreak0, on the number the first half used.
ClearBreak(t) ==
  /\ At(t, "again")
  /\ op[t] = "sendBreak"
  /\ \E r \in IoctlResults(local[t].number) :
       /\ IoctlBreak(t, FALSE, r)
       /\ Deliver(t, IF r = 0 THEN "ok" ELSE throw_ClosedOrNativeException, 0)

\* getInBufferBytesCount and getOutBufferBytesCount: one ioctl(), ClearCommError.
CountBytes(t) ==
  /\ At(t, "first")
  /\ op[t] = "count"
  /\ \E r \in IoctlResults(local[t].number) :
       Deliver(t, IF r = 0 THEN "ok" ELSE throw_ClosedOrNativeException, 0)
  /\ local' = [local EXCEPT ![t].strays = @ + Strays(t)]
  /\ UNCHANGED <<portVars, fdCleaner, lock, op>>

------------------------------------------------------------------------------
\* The caller has its answer: the monitor is free and the frame is gone.
Return(t, frame) ==
  /\ lock' = [d \in Dir |-> IF d \in LocksOf(op[t]) THEN NoThread ELSE lock[d]]
  /\ Goto(t, "idle")
  /\ op' = [op EXCEPT ![t] = "none"]
  /\ local' = [local EXCEPT ![t] = frame]
  /\ result' = [result EXCEPT ![t] = NoResult]
  /\ UNCHANGED fdCleaner

\* end(completed) in the `finally`.
End(t, frame) == At(t, "end") /\ EndBlocking(t) /\ Return(t, frame)

\* The return from an operation outside begin() and end().
Leave(t, frame) == At(t, "leave") /\ Return(t, frame) /\ UNCHANGED portVars

\* The steps of a call that are the same in both libraries.
CommonStep(t, frame) ==
  \/ Enter(t) \/ SelfClosed(t) \/ RefuseBreak(t)
  \/ SetBreak(t) \/ Sleep(t) \/ ClearBreak(t) \/ CountBytes(t)
  \/ End(t, frame) \/ Leave(t, frame)

\* Nobody refers to the socket any more: FdCleaner.run closes what is left open.
closeFds ==
  /\ closing \in {"open", "done"}
  /\ \A t \in Threads : At(t, "idle")
  /\ fdCleaner # "ran"
  /\ fdCleaner' = "ran"
  /\ file' = IF fdCleaner = PORT_FD THEN "free" ELSE file
  /\ UNCHANGED <<fd, cancel, deviceVars, closeVars>>
  /\ UNCHANGED <<lock, pc, op, local, result>>

\* close() and interrupt() come from those who hold the socket.
Others == \/ fdCleaner # "ran" /\ Close
          \/ /\ fdCleaner # "ran"
             /\ Cardinality(interrupts) < MaxInterrupts
             /\ \E t \in Threads : Interrupt(t)
          \/ Environment

------------------------------------------------------------------------------
\* The call of t is decided: nothing but end() and the caller are left.
Decided(t) == At(t, "leave") \/ (At(t, "end") /\ t \notin held)

\* The handlers of IOException set `completed`; a RuntimeException passes them.
Completed(t) == result[t].outcome \notin {"runtime", "illegalArgument"}

Answer(t) == IF At(t, "leave") THEN result[t].outcome
             ELSE EndOutcome(t, result[t].outcome, Completed(t))

(***************************************************************************)
(* sendBreak holds the line in the break state while it sleeps and has     *)
(* ended the break when it returns normally.                               *)
(***************************************************************************)
BreakHeldAndEnded ==
  \A t \in Threads : op[t] = "sendBreak" /\ file = "port" =>
    /\ At(t, "sleep") /\ local[t].strays = 0 => break
    /\ Decided(t) /\ Answer(t) = "ok" => ~break

(***************************************************************************)
(* Between close0 and the cleaner the port is released once: the cleaner   *)
(* leaves no port open behind it, and nobody closes a number that has come *)
(* to name another file.                                                   *)
(***************************************************************************)
ReleasedOnce == [][/\ file = "other" => file' = "other"
                   /\ fdCleaner' = "ran" => file' # "port"]_socketVars

(***************************************************************************)
(* The threads in the monitors own the two directions of the line.         *)
(***************************************************************************)
Channel == INSTANCE SerialChannel
           WITH attached <- (file = "port"),
                owner    <- lock,
                moved    <- [d \in Dir |-> IF lock[d] = NoThread THEN 0
                                                                 ELSE local[lock[d]].got]

ChannelSafeSpec == Channel!SafeSpec
==============================================================================
