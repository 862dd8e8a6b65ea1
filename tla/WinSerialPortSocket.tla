------------------------- MODULE WinSerialPortSocket -------------------------
(***************************************************************************)
(* The Windows socket of the JNI provider: the Java side is that of the    *)
(* POSIX one, readBuffer and writeBuffer of WinApiIO.c and close0 of       *)
(* WinApiCommon.c do the work.                                             *)
(*                                                                         *)
(* A transfer is one overlapped request, which the driver completes and    *)
(* its thread waits for without a timeout and without a close event: only  *)
(* the driver wakes it, or the wait itself fails and leaves the request    *)
(* behind.  fd holds a HANDLE.                                             *)
(***************************************************************************)
EXTENDS AbstractSerialPortSocket

CONSTANT CloseFails  \* CloseHandle may report an error

ASSUME WinAssumption == CloseFails \in BOOLEAN

VARIABLES events,    \* the event objects that CreateEvent made and nobody closed
          abandoned  \* the directions in which the driver has a request nobody waits for

driverVars == <<events, abandoned>>
vars       == <<socketVars, driverVars>>

Labels   == {"idle", "enter", "selfClose", "load", "first", "wait", "sleep", "again",
             "end", "leave"}
Requests == {"none", "pending", "complete", "failed"}

NoLocals == [number  |-> INVALID_FD,  \* hFile, the copy of fd
             rem     |-> 0,           \* len
             request |-> "none",      \* what the driver has made of the OVERLAPPED
             named   |-> "port",      \* the file the request was made on
             got     |-> 0,           \* bytes really moved on the port
             other   |-> 0,           \* bytes moved on another file
             strays  |-> 0]           \* system calls made on another file

\* The OVERLAPPED and the buffer are in the frame of the call: a call that does not wait
\* has no request of its own with the driver.
TypeOK ==
  /\ SocketTypeOK
  /\ events \in Nat
  /\ abandoned \subseteq Dir
  /\ pc \in [Threads -> Labels]
  /\ local \in [Threads -> [number : {PORT_FD, INVALID_FD}, rem : 0..MaxLength,
                            request : Requests, named : {"port", "other"},
                            got : 0..MaxLength, other : 0..MaxLength, strays : Nat]]
  /\ \A t \in Threads : At(t, "wait") <=> local[t].request # "none"

Init == SocketInit(NoLocals) /\ events = 0 /\ abandoned = {}

------------------------------------------------------------------------------
IsTransfer(t) == op[t] \in ReadOps \cup WriteOps
Pending(t)    == local[t].request = "pending"

\* drainOutputBuffer of the Java class does nothing.
NoDrain(t) ==
  /\ At(t, "load")
  /\ op[t] \in DrainOps
  /\ Deliver(t, "ok", 0)
  /\ UNCHANGED <<portVars, driverVars, fdCleaner, lock, op, local>>

\* The native function copies fd.
LoadFd(t) ==
  /\ At(t, "load")
  /\ op[t] \notin DrainOps
  /\ ~(op[t] = "sendBreak" /\ local[t].rem = 0)
  /\ local' = [local EXCEPT ![t].number = fd]
  /\ Goto(t, "first")
  /\ UNCHANGED <<portVars, driverVars, fdCleaner, lock, op, result>>

\* CreateEvent, and ReadFile or WriteFile takes the request.
Issue(t) ==
  /\ At(t, "first")
  /\ IsTransfer(t)
  /\ ~Unopened(local[t].number)
  /\ file = "port" => ~hungUp
  /\ local' = [local EXCEPT ![t].request = "pending",
                            ![t].named   = file,
                            ![t].strays  = @ + Strays(t)]
  /\ events' = events + 1
  /\ Goto(t, "wait")
  /\ UNCHANGED <<portVars, abandoned, fdCleaner, lock, op, result>>

\* Faulty: the field fd is not read again.
FailureUnread(t, outcome) == outcome

\* An error handler reads the field fd again.
Failure(t, outcome) == IF fd = INVALID_FD THEN "asyncClose" ELSE outcome

\* Faulty: the handler of the error does not close the event.
IssueFailsKeepsEvent(t) ==
  /\ At(t, "first")
  /\ IsTransfer(t)
  /\ Unopened(local[t].number) \/ file = "other" \/ hungUp
  /\ Deliver(t, Failure(t, IF op[t] \in ReadOps THEN "ioError" ELSE "interruptedIO"), 0)
  /\ local' = [local EXCEPT ![t].strays = @ + Strays(t)]
  /\ events' = events + 1
  /\ UNCHANGED <<portVars, abandoned, fdCleaner, lock, op>>

\* ReadFile or WriteFile fails at once; the event is closed.
IssueFails(t) ==
  /\ At(t, "first")
  /\ IsTransfer(t)
  /\ Unopened(local[t].number) \/ file = "other" \/ hungUp
  /\ Deliver(t, Failure(t, IF op[t] \in ReadOps THEN "ioError" ELSE "interruptedIO"), 0)
  /\ local' = [local EXCEPT ![t].strays = @ + Strays(t)]
  /\ UNCHANGED <<portVars, driverVars, fdCleaner, lock, op>>

\* dwBytesRead, dwBytesWritten.
Moved(t) == IF local[t].named = "port" THEN local[t].got ELSE local[t].other

\* Faulty: what a timeout has cut short is not counted.
WriteOutcomesUncounted(t) ==
  IF Moved(t) = local[t].rem THEN {<<"ok", Moved(t)>>}
  ELSE {<<Failure(t, o), 0>> : o \in {"timeout", "tooFew"}}

\* Too few bytes are a timeout if GetLastError still is the ERROR_IO_PENDING of WriteFile:
\* no call in between has to leave it alone.
WriteOutcomes(t) ==
  IF Moved(t) = local[t].rem THEN {<<"ok", Moved(t)>>}
  ELSE {<<Failure(t, o), Moved(t)>> : o \in {"timeout", "tooFew"}}

ReadOutcome(t) ==
  IF Moved(t) > 0 THEN <<"ok", Moved(t)>> ELSE <<Failure(t, "timeout"), 0>>

\* What GetOverlappedResult and the handlers after it make of a request that has ended.
Outcomes(t) ==
  IF local[t].request = "failed"
    THEN {<<Failure(t, "interruptedIO"), IF op[t] \in ReadOps THEN Moved(t) ELSE 0>>}
  ELSE IF op[t] \in ReadOps THEN {ReadOutcome(t)} ELSE WriteOutcomes(t)

\* Faulty: the call does not wait, the driver goes on with its buffer.
AwaitUnfinished(t) ==
  /\ At(t, "wait")
  /\ Deliver(t, "ok", Moved(t))
  /\ events' = events - 1
  /\ UNCHANGED <<portVars, abandoned, fdCleaner, lock, op, local>>

\* WaitForSingleObject, GetOverlappedResult, and the event is closed.
Await(t) ==
  /\ At(t, "wait")
  /\ ~Pending(t)
  /\ \E outcome \in Outcomes(t) : Deliver(t, outcome[1], outcome[2])
  /\ local' = [local EXCEPT ![t].request = "none"]
  /\ events' = events - 1
  /\ UNCHANGED <<portVars, abandoned, fdCleaner, lock, op>>

\* WaitForSingleObject fails: the call closes the event and returns, whatever the driver
\* still does with the request.
WaitFails(t) ==
  /\ At(t, "wait")
  /\ Deliver(t, Failure(t, "waitFailed"), 0)
  /\ abandoned' = IF Pending(t) /\ local[t].named = "port"
                    THEN abandoned \cup {DirOf(op[t])} ELSE abandoned
  /\ local' = [local EXCEPT ![t].request = "none"]
  /\ events' = events - 1
  /\ UNCHANGED <<portVars, fdCleaner, lock, op>>

Step(t) == \/ CommonStep(t, NoLocals) /\ UNCHANGED driverVars
           \/ NoDrain(t) \/ LoadFd(t) \/ Issue(t) \/ IssueFails(t) \/ Await(t) \/ WaitFails(t)

------------------------------------------------------------------------------
(* The driver. *)

\* A byte goes between a queue of the port, as long as its handle is open, and a buffer.
Transfer(d) ==
  /\ file = "port" /\ ~hungUp
  /\ IF d = "in" THEN inQueue > 0 /\ inQueue' = inQueue - 1 /\ UNCHANGED outQueue
     ELSE outQueue < OutCapacity /\ outQueue' = outQueue + 1 /\ UNCHANGED inQueue
  /\ UNCHANGED <<fileVars, break, hungUp, closeVars, events, fdCleaner, lock, pc, op, result>>

\* The buffer is that of a request somebody waits for ...
Move(t) ==
  /\ Pending(t) /\ local[t].named = "port"
  /\ local[t].got < local[t].rem
  /\ Transfer(DirOf(op[t]))
  /\ local' = [local EXCEPT ![t].got = @ + 1]
  /\ UNCHANGED abandoned

\* ... or was: it may have been the last byte of that request.
MoveAbandoned(d) ==
  /\ d \in abandoned
  /\ Transfer(d)
  /\ abandoned' \in {abandoned, abandoned \ {d}}
  /\ UNCHANGED local

\* It completes a request whose buffer is done, or whose time is up: the inter-byte
\* timeout runs from the first byte read, the total ones from the beginning.  It fails
\* the requests of an unplugged adapter, and may fail those of a closed handle or leave
\* them pending.
Complete(t) ==
  /\ Pending(t)
  /\ \/ /\ local[t].named = "port" /\ ~hungUp
        /\ \/ local[t].got = local[t].rem
           \/ op[t] \in ReadOps /\ local[t].got > 0
           \/ DirOf(op[t]) \in TimedDirs
        /\ local' = [local EXCEPT ![t].request = "complete"]
     \/ /\ local[t].named = "port" => hungUp \/ file # "port"
        /\ local' = [local EXCEPT ![t].request = "failed"]
     \/ /\ local[t].named = "other"
        /\ \E n \in 0..local[t].rem :
             local' = [local EXCEPT ![t].request = "complete", ![t].other = n]
  /\ UNCHANGED <<portVars, driverVars, fdCleaner, lock, pc, op, result>>

------------------------------------------------------------------------------
(***************************************************************************)
(* implCloseChannel, after the Mark of InterruptiblePort.                  *)
(***************************************************************************)

\* CancelIo cancels what the closing thread itself has pending, that is nothing.
\* When it fails the field gets its handle back, and the channel is closed for good.
CancelIo ==
  /\ closing = "wakeWriters"
  /\ \/ closing' = "release" /\ UNCHANGED <<fd, held>>
     \/ closing' = "done" /\ fd' = PORT_FD /\ held' = {}
  /\ UNCHANGED <<file, cancel, deviceVars, closed, interrupted, interrupts, blocked>>
  /\ UNCHANGED <<callVars, driverVars>>

\* The requests that other threads have pending stay with the driver.  An error passes the
\* statement that resets the cleaner, whether the handle is closed or not.
CloseHandle ==
  /\ closing = "release"
  /\ closing' = "done"
  /\ held' = {}
  /\ \/ file' = "free" /\ fdCleaner' = INVALID_FD
     \/ CloseFails /\ file' \in {"free", file} /\ UNCHANGED fdCleaner
  /\ UNCHANGED <<fd, cancel, deviceVars, closed, interrupted, interrupts, blocked>>
  /\ UNCHANGED <<driverVars, lock, pc, op, local, result>>

close0 == (Mark /\ UNCHANGED <<callVars, driverVars>>) \/ CancelIo \/ CloseHandle

Next == \/ \E t \in Threads : Call(t, NoLocals) /\ UNCHANGED driverVars
        \/ \E t \in Threads : Step(t) \/ Move(t) \/ Complete(t)
        \/ \E d \in Dir : MoveAbandoned(d)
        \/ close0
        \/ closeFds /\ UNCHANGED driverVars
        \/ Others /\ UNCHANGED <<callVars, driverVars>>

\* No fairness: the driver owes a request nothing, and without it no transfer ends.
Spec == Init /\ [][Next]_vars

------------------------------------------------------------------------------
\* The channel is closed and the port is not.
CloseFailed == closing = "done" /\ fd = PORT_FD

(***************************************************************************)
(* No call reports a close that has succeeded as an error of the device,   *)
(* whatever the handle named by then: all error handlers read the field    *)
(* fd again.  (A handle copied while CancelIo fails is the exception, and  *)
(* a wait that fails or a short write is no error of the device.)          *)
(***************************************************************************)
CloseNotMisreported ==
  \A t \in Threads :
    Decided(t) /\ Answer(t) \in {"ioError", "interruptedIO"} => hungUp \/ CloseFailed

(***************************************************************************)
(* A transfer returns the number of bytes it moved, and a write that is    *)
(* cut short, by its timeout or not, reports how many it wrote.  (A write  *)
(* that the driver fails reports 0, and so does a wait that fails.)        *)
(***************************************************************************)
ReportedBytes ==
  \A t \in Threads :
    Decided(t) /\ IsTransfer(t) /\ local[t].strays = 0
       /\ Answer(t) \in {"ok", "timeout", "tooFew"} => result[t].reported = local[t].got

(***************************************************************************)
(* On every path a call closes the event object it has created: there are  *)
(* as many as there are calls that wait.                                   *)
(***************************************************************************)
EventsClosed == events = Cardinality({t \in Threads : At(t, "wait")})
=============================================================================
