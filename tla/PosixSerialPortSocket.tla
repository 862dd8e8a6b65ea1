------------------------ MODULE PosixSerialPortSocket ------------------------
(***************************************************************************)
(* The blocking POSIX socket: read, write, drainOutputBuffer and the break *)
(* operations, called by any number of threads while others close the      *)
(* socket, interrupt the callers and change the timeouts.                  *)
(*                                                                         *)
(* A call is a frame: its operation, its program counter pc, its locals    *)
(* and, once it is decided, its result.  The statements of an operation    *)
(* are separate steps wherever another thread can tell: taking the lock,   *)
(* loading the volatile field fd, the system call made with the loaded     *)
(* number, begin(), choosing the timeout of a poll, the poll, end().       *)
(***************************************************************************)
EXTENDS InterruptiblePort

CONSTANTS MaxLength,  \* the longest buffer a call is given
          Offered,    \* the operations the threads call
          TimedDirs   \* the directions whose timeout setTimeouts changes

Ops == {"read", "readByte",
        "write", "writeByte", "drain", "sendBreak", "setBreak", "clearBreak"}

ASSUME CallAssumption == /\ MaxLength \in Nat \ {0}
                         /\ Offered \subseteq Ops
                         /\ TimedDirs \subseteq Dir

VARIABLES lock,      \* the thread inside synchronized (readLock), (writeLock)
          timeouts,  \* the poll timeout of the direction is finite
          pc,        \* the next statement of each thread's call
          op,        \* the operation each thread is calling
          local,     \* the locals of each thread's call
          result     \* what the call will return or throw, before end() has its say

callVars == <<lock, timeouts, pc, op, local, result>>
vars     == <<portVars, callVars>>

ReadOps == {"read", "readByte"}

DirOf(o) == IF o \in ReadOps THEN "in" ELSE "out"

\* Bytes of the buffer; the duration of sendBreak, 0 standing for every illegal one.
Lengths(o) == CASE o \in {"read", "write"} -> 0..MaxLength
                [] o = "sendBreak"         -> 0..1
                [] OTHER                   -> {1}

Labels == {"idle", "enter", "load", "first", "begin", "selfClose", "arm", "poll",
           "reload", "again", "sleep", "end", "leave"}

Outcomes == {"none", "ok", "eof", "timeout", "asyncClose", "asyncCancel",
             "closedByInterrupt", "fdInvalid", "portClosed", "ioError", "waitFailed",
             "runtime", "nullPointer", "illegalArgument"}

(***************************************************************************)
(* The locals.  count is what the code counts (nread and overallRead,      *)
(* offset), initial is `written`; got and strays record what really        *)
(* happened: bytes moved on the port, system calls made on a number that   *)
(* had come to name another file.                                          *)
(***************************************************************************)
NoLocals == [number   |-> INVALID_FD,  \* fd as last loaded
             rem      |-> 0,           \* remaining() of the buffer
             count    |-> 0,
             initial  |-> 0,
             deadline |-> FALSE,       \* endTime is not null
             looping  |-> FALSE,       \* in the do ... while of read and write
             finite   |-> FALSE,       \* the next poll has a timeout
             named    |-> "port",      \* what the port's number named when it began
             got      |-> 0,
             strays   |-> 0]

NoResult == [outcome |-> "none", reported |-> 0, completed |-> FALSE]

TypeOK ==
  /\ PortTypeOK
  /\ lock \in [Dir -> Threads \cup {NoThread}]
  /\ timeouts \in [Dir -> BOOLEAN]
  /\ pc \in [Threads -> Labels]
  /\ op \in [Threads -> Ops \cup {"none"}]
  /\ local \in [Threads -> [number : {PORT_FD, INVALID_FD}, rem : 0..MaxLength,
                            count : Nat, initial : Nat, deadline : BOOLEAN,
                            looping : BOOLEAN, finite : BOOLEAN,
                            named : {"port", "free", "other"}, got : Nat, strays : Nat]]
  /\ result \in [Threads -> [outcome : Outcomes, reported : Nat, completed : BOOLEAN]]

Init ==
  /\ PortInit
  /\ lock = [d \in Dir |-> NoThread]
  /\ timeouts = [d \in Dir |-> FALSE]
  /\ pc = [t \in Threads |-> "idle"]
  /\ op = [t \in Threads |-> "none"]
  /\ local = [t \in Threads |-> NoLocals]
  /\ result = [t \in Threads |-> NoResult]

------------------------------------------------------------------------------
At(t, label)   == pc[t] = label
Goto(t, label) == pc' = [pc EXCEPT ![t] = label]
Touches(t)     == local[t].number = PORT_FD /\ file = "port"
Strays(t)      == IF local[t].number = PORT_FD /\ file = "other" THEN 1 ELSE 0

\* Leave the body of the operation for its `finally`, or for its caller.
Finish(t, label, outcome, reported, completed) ==
  /\ Goto(t, label)
  /\ result' = [result EXCEPT ![t] = [outcome |-> outcome, reported |-> reported,
                                      completed |-> completed]]

\* The handlers of NativeErrorException read fd once more.
ErrnoOutcome(errno) == IF fd = INVALID_FD THEN "asyncClose"
                       ELSE IF errno = EBADF THEN "fdInvalid"
                       ELSE "ioError"

CancelOutcome == IF fd = INVALID_FD THEN "asyncClose" ELSE "asyncCancel"

\* The IOExceptions whose text formatMsg chooses.
formatMsg == IF fd = INVALID_FD THEN "portClosed" ELSE "ioError"

\* A call arrives, with a buffer or an argument.
Call(t) ==
  /\ At(t, "idle")
  /\ \E o \in Offered : \E n \in Lengths(o) :
       /\ op' = [op EXCEPT ![t] = o]
       /\ local' = [local EXCEPT ![t] = [NoLocals EXCEPT !.rem = n]]
  /\ Goto(t, "enter")
  /\ UNCHANGED <<portVars, lock, timeouts, result>>

\* Faulty: the operation does not wait for the lock.
EnterUnlocked(t) ==
  /\ At(t, "enter")
  /\ lock' = [lock EXCEPT ![DirOf(op[t])] = t]
  /\ IF local[t].rem = 0
       THEN Finish(t, "leave", "ok", 0, TRUE)
       ELSE /\ Goto(t, IF op[t] \in {"drain", "sendBreak"} THEN "begin" ELSE "load")
            /\ UNCHANGED result
  /\ UNCHANGED <<portVars, timeouts, op, local>>

\* synchronized, and the test of the arguments.
Enter(t) ==
  /\ At(t, "enter")
  /\ lock[DirOf(op[t])] = NoThread
  /\ lock' = [lock EXCEPT ![DirOf(op[t])] = t]
  /\ IF local[t].rem = 0
       THEN Finish(t, "leave", IF op[t] = "sendBreak" THEN "illegalArgument" ELSE "ok", 0, TRUE)
       ELSE /\ Goto(t, IF op[t] \in {"drain", "sendBreak"} THEN "begin" ELSE "load")
            /\ UNCHANGED result
  /\ UNCHANGED <<portVars, timeouts, op, local>>

\* Faulty: the number loaded first serves the whole operation.
LoadFdOnce(t) ==
  /\ pc[t] \in {"load", "reload"}
  /\ local' = [local EXCEPT ![t].number = IF At(t, "load") THEN fd ELSE @]
  /\ Goto(t, IF At(t, "load") THEN "first" ELSE "again")
  /\ UNCHANGED <<portVars, lock, timeouts, op, result>>

\* The argument fd of a system call is evaluated before the call is made.
LoadFd(t) ==
  /\ pc[t] \in {"load", "reload"}
  /\ local' = [local EXCEPT ![t].number = fd]
  /\ Goto(t, IF At(t, "load") THEN "first" ELSE "again")
  /\ UNCHANGED <<portVars, lock, timeouts, op, result>>

\* Faulty: a negative result is taken for a number of bytes.
TransferUnchecked(t, r, count, looping, deadline) ==
  /\ IF op[t] \in ReadOps
       THEN inQueue' = (IF Touches(t) THEN inQueue - r ELSE inQueue) /\ UNCHANGED outQueue
       ELSE outQueue' = (IF Touches(t) THEN outQueue + r ELSE outQueue) /\ UNCHANGED inQueue
  /\ local' = [local EXCEPT ![t].rem = @ - r,
                            ![t].count = count,
                            ![t].initial = IF At(t, "first") THEN r ELSE @,
                            ![t].looping = looping,
                            ![t].deadline = deadline,
                            ![t].got = IF Touches(t) THEN @ + r ELSE @,
                            ![t].strays = @ + Strays(t)]
  /\ UNCHANGED <<fileVars, break, hungUp, closeVars, lock, timeouts, op>>

\* Unistd.read and Unistd.write with the result r: the driver's queue and the buffer.
Transfer(t, r, count, looping, deadline) ==
  /\ IF op[t] \in ReadOps
       THEN inQueue' = (IF Touches(t) THEN inQueue - Bytes(r) ELSE inQueue) /\ UNCHANGED outQueue
       ELSE outQueue' = (IF Touches(t) THEN outQueue + Bytes(r) ELSE outQueue) /\ UNCHANGED inQueue
  /\ local' = [local EXCEPT ![t].rem = @ - Bytes(r),
                            ![t].count = count,
                            ![t].initial = IF At(t, "first") THEN Bytes(r) ELSE @,
                            ![t].looping = looping,
                            ![t].deadline = deadline,
                            ![t].got = IF Touches(t) THEN @ + Bytes(r) ELSE @,
                            ![t].strays = @ + Strays(t)]
  /\ UNCHANGED <<fileVars, break, hungUp, closeVars, lock, timeouts, op>>

\* The first, non-blocking read and the choice of endTime.
FirstRead(t) ==
  /\ At(t, "first")
  /\ op[t] \in ReadOps
  /\ \E r \in ReadResults(local[t].number, local[t].rem) :
       /\ Transfer(t, r, Bytes(r), op[t] = "read" /\ r > 0, op[t] = "read" /\ timeouts["in"])
       /\ IF r < 0 /\ (fd = INVALID_FD \/ r # EAGAIN)
            THEN Finish(t, "leave", ErrnoOutcome(r), 0, TRUE)
            ELSE IF r = local[t].rem
                   THEN Finish(t, "leave", "ok", r, TRUE)
                   ELSE Goto(t, "begin") /\ UNCHANGED result

\* The first, non-blocking write; here EAGAIN is tested before fd.
FirstWrite(t) ==
  /\ At(t, "first")
  /\ op[t] \in {"write", "writeByte"}
  /\ \E r \in WriteResults(local[t].number, local[t].rem) :
       /\ Transfer(t, r, Bytes(r), op[t] = "write", op[t] = "write" /\ timeouts["out"])
       /\ IF r < 0 /\ r # EAGAIN
            THEN Finish(t, "leave", ErrnoOutcome(r), 0, TRUE)
            ELSE IF r = local[t].rem
                   THEN Finish(t, "leave", "ok", r, TRUE)
                   ELSE Goto(t, "begin") /\ UNCHANGED result

\* ioctl(fd, TIOCSBRK) or ioctl(fd, TIOCCBRK) with the result r.
IoctlBreak(t, on, r) ==
  /\ break' = IF Touches(t) /\ r = 0 THEN on ELSE break
  /\ local' = [local EXCEPT ![t].strays = @ + Strays(t)]
  /\ UNCHANGED <<fileVars, inQueue, outQueue, hungUp, closeVars, lock, timeouts, op>>

\* setBreak(enabled), and the first half of sendBreak.
SetBreak(t) ==
  /\ At(t, "first")
  /\ op[t] \in {"setBreak", "clearBreak", "sendBreak"}
  /\ \E r \in IoctlResults(local[t].number) :
       /\ IoctlBreak(t, op[t] # "clearBreak", r)
       /\ IF op[t] = "sendBreak"
            THEN IF r = 0 THEN Goto(t, "sleep") /\ UNCHANGED result
                          ELSE Finish(t, "end", formatMsg, 0, TRUE)
            ELSE Finish(t, "leave", IF r = 0 THEN "ok" ELSE formatMsg, 0, TRUE)

AfterBegin(t) == IF op[t] = "sendBreak" THEN "load" ELSE "arm"

Begin(t) ==
  /\ At(t, "begin")
  /\ BeginBlocking(t)
  /\ Goto(t, IF t \in interrupts THEN "selfClose" ELSE AfterBegin(t))
  /\ UNCHANGED <<lock, timeouts, op, local, result>>

\* An interrupted caller is back from begin() when the channel is closed.
SelfClosed(t) ==
  /\ At(t, "selfClose")
  /\ closing = "done"
  /\ Goto(t, AfterBegin(t))
  /\ UNCHANGED <<portVars, lock, timeouts, op, local, result>>

(***************************************************************************)
(* The timeout of the next poll.  The loops of read and write subtract the *)
(* time from endTime, which is null when the timeout was infinite at the   *)
(* start of the call; once endTime has passed write throws and read        *)
(* returns.  Inside its loop read always has the inter-byte timeout.       *)
(***************************************************************************)
Arm(t) ==
  /\ At(t, "arm")
  /\ LET d == DirOf(op[t])
         late == local[t].looping /\ timeouts[d]
     IN  \/ /\ ~(late /\ ~local[t].deadline)
            /\ local' = [local EXCEPT
                 ![t].finite = timeouts[d] \/ (op[t] = "read" /\ local[t].looping),
                 ![t].named  = file]
            /\ Goto(t, "poll")
            /\ UNCHANGED result
         \/ /\ late
            /\ IF ~local[t].deadline THEN Finish(t, "end", "nullPointer", 0, FALSE)
               ELSE IF op[t] = "read" THEN Finish(t, "end", "ok", local[t].count, TRUE)
               ELSE Finish(t, "end", "timeout", 0, FALSE)
            /\ UNCHANGED local
  /\ UNCHANGED <<portVars, lock, timeouts, op>>

\* bytesTransferred of an exception: offset where a write gives an error's text,
\* 0 where it names the close or the invalid fd.
ErrorReported(t, outcome) ==
  IF op[t] = "write" /\ outcome \in {"ioError", "waitFailed", "portClosed"}
    THEN local[t].count ELSE 0

\* The outcome of a poll that did not find the port ready.
PollOutcome(t, event) ==
  LET inLoop == op[t] = "read" /\ local[t].looping
  IN  CASE event = "timeout" -> IF inLoop THEN "ok" ELSE "timeout"
        [] event = "cancel"  -> IF op[t] = "drain" THEN "portClosed"
                                ELSE IF inLoop THEN "eof"
                                ELSE CancelOutcome
        [] event = "hangUp"  -> "fdInvalid"
        [] event = "invalid" -> CancelOutcome
        [] event = "unexpected" -> IF op[t] = "drain" THEN formatMsg ELSE "ioError"

\* What the exception or the return value says of the bytes transferred.
PollReported(t, event) ==
  CASE event = "timeout" /\ op[t] = "read"  -> local[t].count
    [] event = "timeout" /\ op[t] = "write" -> local[t].initial
    [] OTHER -> ErrorReported(t, PollOutcome(t, event))

PollPort(t) ==
  /\ At(t, "poll")
  /\ \E event \in PollReports(DirOf(op[t]), local[t].named, local[t].finite) :
       IF event = "ready"
         THEN Goto(t, "reload") /\ UNCHANGED result
         ELSE Finish(t, "end", PollOutcome(t, event), PollReported(t, event),
                     op[t] # "drain" \/ event = "invalid")
  /\ UNCHANGED <<portVars, lock, timeouts, op, local>>

\* Faulty: the call returns the size of its last piece.
AgainLastPiece(t, r) ==
  /\ Transfer(t, r, Bytes(r),
              op[t] \in {"read", "write"}, local[t].deadline)
  /\ IF r < 0
       THEN Finish(t, "end", ErrnoOutcome(r), ErrorReported(t, ErrnoOutcome(r)), TRUE)
     ELSE IF r = local[t].rem
       THEN Finish(t, "end", "ok", local'[t].count, TRUE)
     ELSE IF op[t] \in {"read", "write"}
       THEN Goto(t, "arm") /\ UNCHANGED result
     ELSE Finish(t, "end", "runtime", 0, TRUE)

\* The read or write after a poll that found the port ready.
Again(t, r) ==
  /\ Transfer(t, r, IF local[t].looping THEN local[t].count + Bytes(r) ELSE Bytes(r),
              op[t] \in {"read", "write"}, local[t].deadline)
  /\ IF r < 0
       THEN Finish(t, "end", ErrnoOutcome(r), ErrorReported(t, ErrnoOutcome(r)), TRUE)
     ELSE IF r = local[t].rem
       THEN Finish(t, "end", "ok", local'[t].count, TRUE)
     ELSE IF op[t] \in {"read", "write"}
       THEN Goto(t, "arm") /\ UNCHANGED result
     ELSE Finish(t, "end", "runtime", 0, TRUE)  \* "Should never ever happen!"

ReadAgain(t) ==
  /\ At(t, "again")
  /\ op[t] \in ReadOps
  /\ \E r \in ReadResults(local[t].number, local[t].rem) : Again(t, r)

WriteAgain(t) ==
  /\ At(t, "again")
  /\ op[t] \in {"write", "writeByte"}
  /\ \E r \in WriteResults(local[t].number, local[t].rem) : Again(t, r)

\* tcdrain(fd) blocks until the queue of the port is transmitted or the device is gone.
Drain(t) ==
  /\ At(t, "again")
  /\ op[t] = "drain"
  /\ Touches(t) => (outQueue = 0 \/ hungUp)
  /\ \E r \in IoctlResults(local[t].number) :
       Finish(t, "end", IF r = 0 THEN "ok" ELSE formatMsg, 0, TRUE)
  /\ local' = [local EXCEPT ![t].strays = @ + Strays(t)]
  /\ UNCHANGED <<portVars, lock, timeouts, op>>

(***************************************************************************)
(* The system call that blocks, poll() or tcdrain(), fails by itself, with *)
(* EINTR when a signal arrives.  The handlers of read do not look at fd;   *)
(* those of write and drainOutputBuffer leave it to formatMsg.             *)
(***************************************************************************)
WaitFails(t) ==
  /\ At(t, "poll") \/ (At(t, "again") /\ op[t] = "drain")
  /\ LET outcome == IF op[t] \notin ReadOps /\ fd = INVALID_FD THEN "portClosed" ELSE "waitFailed"
     IN  Finish(t, "end", outcome, ErrorReported(t, outcome), op[t] # "drain" \/ At(t, "again"))
  /\ local' = [local EXCEPT ![t].strays = IF At(t, "again") THEN @ + Strays(t) ELSE @]
  /\ UNCHANGED <<portVars, lock, timeouts, op>>

\* Thread.sleep(duration) ends in time, or with the InterruptedException that
\* clears the interrupt status and decides what the call throws.
Sleep(t) ==
  /\ At(t, "sleep")
  /\ Goto(t, "reload")
  /\ interrupts' = interrupts \ {t}
  /\ result' = [result EXCEPT ![t].outcome = IF t \in interrupts THEN "runtime" ELSE "ok"]
  /\ UNCHANGED <<fileVars, deviceVars, closed, closing, interrupted, blocked, held,
                 lock, timeouts, op, local>>

\* The second half of sendBreak.
ClearBreak(t) ==
  /\ At(t, "again")
  /\ op[t] = "sendBreak"
  /\ \E r \in IoctlResults(local[t].number) :
       /\ IoctlBreak(t, FALSE, r)
       /\ Finish(t, "end", IF r = 0 THEN result[t].outcome ELSE formatMsg, 0, TRUE)

\* The caller has its answer: the lock is free and the frame is gone.
Return(t) ==
  /\ lock' = [lock EXCEPT ![DirOf(op[t])] = NoThread]
  /\ Goto(t, "idle")
  /\ op' = [op EXCEPT ![t] = "none"]
  /\ local' = [local EXCEPT ![t] = NoLocals]
  /\ result' = [result EXCEPT ![t] = NoResult]
  /\ UNCHANGED timeouts

\* The `finally` of the operations between begin() and end().
End(t) == At(t, "end") /\ EndBlocking(t) /\ Return(t)

\* The operations that return or throw before begin().
Leave(t) == At(t, "leave") /\ Return(t) /\ UNCHANGED portVars

Run(t) == \/ Enter(t) \/ LoadFd(t) \/ Begin(t) \/ SelfClosed(t)
          \/ FirstRead(t) \/ FirstWrite(t) \/ SetBreak(t)
          \/ Arm(t) \/ PollPort(t) \/ ReadAgain(t) \/ WriteAgain(t) \/ Drain(t)
          \/ Sleep(t) \/ ClearBreak(t)
          \/ End(t) \/ Leave(t)

Step(t) == Run(t) \/ WaitFails(t)

\* setTimeouts() holds no lock.
SetTimeouts ==
  /\ timeouts' \in [Dir -> BOOLEAN]
  /\ timeouts' # timeouts
  /\ \A d \in Dir \ TimedDirs : timeouts'[d] = timeouts[d]
  /\ UNCHANGED <<portVars, lock, pc, op, local, result>>

PortStep == ImplCloseChannel \/ Close \/ Environment \/ \E t \in Threads : Interrupt(t)

Next == \/ \E t \in Threads : Call(t) \/ Step(t)
        \/ SetTimeouts
        \/ PortStep /\ UNCHANGED callVars

(***************************************************************************)
(* The scheduler runs every thread that can run, those inside              *)
(* implCloseChannel included.  Nothing is assumed of the callers, of the   *)
(* device or of the order in which threads get a contended monitor, and no *)
(* signal is relied on to end a wait.                                      *)
(***************************************************************************)
Spec     == Init /\ [][Next]_vars
FairSpec == /\ Spec
            /\ WF_vars(ImplCloseChannel /\ UNCHANGED callVars)
            /\ \A t \in Threads : WF_vars(Run(t))

------------------------------------------------------------------------------
\* The call of t is decided: nothing but end() and the caller are left.
Decided(t) == At(t, "leave") \/ (At(t, "end") /\ t \notin held)

Answer(t) == IF At(t, "leave") THEN result[t].outcome
             ELSE EndOutcome(t, result[t].outcome, result[t].completed)

(***************************************************************************)
(* After a poll that is cancelled and a system call that fails, an         *)
(* operation reads fd again to tell a close of the socket from an          *)
(* asynchronous cancellation and from the loss of the device.  A close is  *)
(* never reported as a cancellation, nor as a lost device: PORT_FD_INVALID *)
(* and the native errors are only for an adapter that was unplugged.  The  *)
(* errors of the wait itself are left out: an EINTR of poll() says the     *)
(* same of a socket that is open and of one that is closed.                *)
(***************************************************************************)
CloseNotMisreported ==
  \A t \in Threads : Decided(t) =>
    /\ Answer(t) # "asyncCancel"
    /\ Answer(t) \in {"fdInvalid", "ioError"} => hungUp

(***************************************************************************)
(* An operation may load fd just before the close and make its system call *)
(* after the number was given to another file.  It does so once at most:   *)
(* the next system call of the operation sees INVALID_FD.                  *)
(***************************************************************************)
AtMostOneStrayCall == \A t \in Threads : local[t].strays <= 1

(***************************************************************************)
(* A successful read or write, in one piece or in several, returns the     *)
(* number of bytes it moved; a read that times out has moved none, and a   *)
(* write that fails says how many bytes it had moved before.               *)
(***************************************************************************)
ReportedBytes ==
  \A t \in Threads :
    Decided(t) /\ local[t].strays = 0 =>
      /\ Answer(t) = "ok" => result[t].reported = local[t].got
      /\ Answer(t) = "timeout" /\ op[t] = "read" => local[t].got = 0
      /\ Answer(t) \in {"ioError", "waitFailed"} /\ op[t] = "write" =>
           result[t].reported = local[t].got

(***************************************************************************)
(* drainOutputBuffer returns normally only when the bytes written before   *)
(* it are transmitted, whoever wrote them.                                 *)
(***************************************************************************)
DrainedWhenReturned ==
  \A t \in Threads :
    Decided(t) /\ op[t] = "drain" /\ Answer(t) = "ok" /\ file = "port" => outQueue = 0

(***************************************************************************)
(* sendBreak holds the line in the break state while it sleeps, whatever   *)
(* other threads call, and has ended the break when it returns normally.   *)
(***************************************************************************)
BreakHeldAndEnded ==
  \A t \in Threads : op[t] = "sendBreak" /\ file = "port" =>
    /\ At(t, "sleep") /\ local[t].strays = 0 => break
    /\ Decided(t) /\ Answer(t) = "ok" => ~break

(***************************************************************************)
(* The socket keeps the promise of SerialChannel: the threads that hold    *)
(* readLock and writeLock own the two directions of the line, and all give *)
(* up once the number of the port is closed.                               *)
(***************************************************************************)
Channel == INSTANCE SerialChannel
           WITH attached <- (file = "port"),
                owner    <- lock,
                moved    <- [d \in Dir |-> IF lock[d] = NoThread THEN 0
                                                                 ELSE local[lock[d]].got]

ChannelSafeSpec == Channel!SafeSpec
ChannelSpec     == Channel!Spec
==============================================================================
