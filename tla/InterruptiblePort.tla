-------------------------- MODULE InterruptiblePort --------------------------
(***************************************************************************)
(* The part the blocking and the asynchronous POSIX socket share: the file *)
(* descriptor of the port, the two cancel events that wake its polls, the  *)
(* device behind the descriptor, and the close protocol of                 *)
(* java.nio.channels.spi.AbstractInterruptibleChannel that both extend.    *)
(*                                                                         *)
(* The number stored in the field fd names whatever file the kernel's      *)
(* table holds under it: the port, nothing once it is closed, and later    *)
(* perhaps a file that another part of the process opened.                 *)
(***************************************************************************)
EXTENDS Integers, FiniteSets

CONSTANTS Threads,     \* the threads that use the socket
          NoThread,    \* "no thread"
          InCapacity,  \* bytes the driver's input queue holds
          OutCapacity  \* bytes the driver's output queue holds

ASSUME PortAssumption == /\ NoThread \notin Threads
                         /\ InCapacity \in Nat \ {0}
                         /\ OutCapacity \in Nat \ {0}

VARIABLES fd,          \* the field fd: the number of the open port, or INVALID_FD
          file,        \* what that number names in the kernel's table of open files
          cancel,      \* the cancel event of each direction is readable
          inQueue,     \* bytes received and not yet read
          outQueue,    \* bytes written and not yet transmitted
          break,       \* the line is held in the break state
          hungUp,      \* the adapter was unplugged
          closed,      \* AbstractInterruptibleChannel.closed
          closing,     \* the next statement of implCloseChannel
          interrupted, \* AbstractInterruptibleChannel.interrupted
          interrupts,  \* threads whose interrupt status is set
          blocked,     \* threads between begin() and end()
          held         \* blocked threads whose interrupter is still in implCloseChannel

fileVars   == <<fd, file, cancel>>
deviceVars == <<inQueue, outQueue, break, hungUp>>
closeVars  == <<closed, closing, interrupted, interrupts, blocked, held>>
portVars   == <<fileVars, deviceVars, closeVars>>

Dir == {"in", "out"}
PORT_FD    == "PORT_FD"
INVALID_FD == "INVALID_FD"

PortTypeOK ==
  /\ fd \in {PORT_FD, INVALID_FD}
  /\ file \in {"port", "free", "other"}
  /\ cancel \in [Dir -> BOOLEAN]
  /\ inQueue \in 0..InCapacity
  /\ outQueue \in 0..OutCapacity
  /\ break \in BOOLEAN
  /\ hungUp \in BOOLEAN
  /\ closed \in BOOLEAN
  /\ closing \in {"open", "mark", "wakeWriters", "wakeReaders", "flush", "forget",
                 "release", "done"}
  /\ interrupted \in Threads \cup {NoThread}
  /\ interrupts \subseteq Threads
  /\ blocked \subseteq Threads
  /\ held \subseteq Threads

\* A port that open() has just returned.
PortInit ==
  /\ fd = PORT_FD
  /\ file = "port"
  /\ cancel = [d \in Dir |-> FALSE]
  /\ inQueue = 0
  /\ outQueue = 0
  /\ break = FALSE
  /\ hungUp = FALSE
  /\ closed = FALSE
  /\ closing = "open"
  /\ interrupted = NoThread
  /\ interrupts = {}
  /\ blocked = {}
  /\ held = {}

------------------------------------------------------------------------------
(***************************************************************************)
(* implCloseChannel, statement by statement.  closeLock and the flag       *)
(* closed let it run once; closing is its program counter.                 *)
(***************************************************************************)

\* Faulty: the field fd keeps the number.
MarkForgotten ==
  /\ closing = "mark"
  /\ closing' = "wakeWriters"
  /\ UNCHANGED <<fileVars, deviceVars, closed, interrupted, interrupts, blocked, held>>

\* The fields fd of the socket and of its PosixConfiguration become invalid.
Mark ==
  /\ closing = "mark"
  /\ fd' = INVALID_FD
  /\ closing' = "wakeWriters"
  /\ UNCHANGED <<file, cancel, deviceVars, closed, interrupted, interrupts, blocked, held>>

\* Faulty: the write to the cancel event fails and is only logged.
WakeWritersLost ==
  /\ closing = "wakeWriters"
  /\ closing' = "wakeReaders"
  /\ UNCHANGED <<fileVars, deviceVars, closed, interrupted, interrupts, blocked, held>>

WakeReadersLost ==
  /\ closing = "wakeReaders"
  /\ closing' = "flush"
  /\ UNCHANGED <<fileVars, deviceVars, closed, interrupted, interrupts, blocked, held>>

\* Nobody reads the event back: once written it stays readable.
WakeWriters ==
  /\ closing = "wakeWriters"
  /\ cancel' = [cancel EXCEPT !["out"] = TRUE]
  /\ closing' = "wakeReaders"
  /\ UNCHANGED <<fd, file, deviceVars, closed, interrupted, interrupts, blocked, held>>

WakeReaders ==
  /\ closing = "wakeReaders"
  /\ cancel' = [cancel EXCEPT !["in"] = TRUE]
  /\ closing' = "flush"
  /\ UNCHANGED <<fd, file, deviceVars, closed, interrupted, interrupts, blocked, held>>

\* tcflush(tempFd, TCIOFLUSH) drops both queues.
Flush ==
  /\ closing = "flush"
  /\ inQueue' = 0
  /\ outQueue' = 0
  /\ closing' = "release"
  /\ UNCHANGED <<fileVars, break, hungUp, closed, interrupted, interrupts, blocked, held>>

\* Unistd.close(tempFd): the number is free.  Closers and interrupters leave closeLock.
Release ==
  /\ closing = "release"
  /\ file' = "free"
  /\ closing' = "done"
  /\ held' = {}
  /\ UNCHANGED <<fd, cancel, deviceVars, closed, interrupted, interrupts, blocked>>

ImplCloseChannel == Mark \/ WakeWriters \/ WakeReaders \/ Flush \/ Release

------------------------------------------------------------------------------
(***************************************************************************)
(* AbstractInterruptibleChannel (java.base).                               *)
(***************************************************************************)

StartClosing == IF closed THEN UNCHANGED <<closed, closing>>
                          ELSE closed' = TRUE /\ closing' = "mark"

\* close() by a thread that is in no operation; a second call does nothing.
Close ==
  /\ ~closed
  /\ StartClosing
  /\ UNCHANGED <<fileVars, deviceVars, interrupted, interrupts, blocked, held>>

(***************************************************************************)
(* Thread.interrupt() on t.  When t is between begin() and end() the       *)
(* interrupter closes the channel on t's behalf and holds t's blockerLock, *)
(* which end() needs, until the channel is closed.                         *)
(***************************************************************************)
Interrupt(t) ==
  /\ t \notin interrupts
  /\ interrupts' = interrupts \cup {t}
  /\ IF t \in blocked
       THEN /\ StartClosing
            /\ interrupted' = IF closed THEN interrupted ELSE t
            /\ held' = IF closing = "done" THEN held ELSE held \cup {t}
       ELSE UNCHANGED <<closed, closing, interrupted, held>>
  /\ UNCHANGED <<fileVars, deviceVars, blocked>>

\* begin(): a thread that is already interrupted closes the channel itself.
BeginBlocking(t) ==
  /\ blocked' = blocked \cup {t}
  /\ IF t \in interrupts
       THEN StartClosing /\ interrupted' = IF closed THEN interrupted ELSE t
       ELSE UNCHANGED <<closed, closing, interrupted>>
  /\ UNCHANGED <<fileVars, deviceVars, interrupts, held>>

\* end(completed): what the caller of an operation that ends with `outcome` gets.
EndOutcome(t, outcome, completed) ==
  IF interrupted = t THEN "closedByInterrupt"
  ELSE IF ~completed /\ closed THEN "asyncClose"
  ELSE outcome

EndBlocking(t) ==
  /\ t \notin held
  /\ blocked' = blocked \ {t}
  /\ interrupted' = IF interrupted = t THEN NoThread ELSE interrupted
  /\ UNCHANGED <<fileVars, deviceVars, closed, closing, interrupts, held>>

------------------------------------------------------------------------------
(***************************************************************************)
(* The device and the rest of the process.                                 *)
(***************************************************************************)

Receive ==
  /\ file = "port" /\ ~hungUp
  /\ inQueue < InCapacity
  /\ inQueue' = inQueue + 1
  /\ UNCHANGED <<fileVars, outQueue, break, hungUp, closeVars>>

Transmit ==
  /\ outQueue > 0 /\ ~hungUp
  /\ outQueue' = outQueue - 1
  /\ UNCHANGED <<fileVars, inQueue, break, hungUp, closeVars>>

Unplug ==
  /\ ~hungUp
  /\ file = "port"
  /\ hungUp' = TRUE
  /\ UNCHANGED <<fileVars, inQueue, outQueue, break, closeVars>>

\* Another open() in the process gets the lowest free number: the one just closed.
ReuseNumber ==
  /\ file = "free"
  /\ file' = "other"
  /\ UNCHANGED <<fd, cancel, deviceVars, closeVars>>

Environment == Receive \/ Transmit \/ Unplug \/ ReuseNumber

------------------------------------------------------------------------------
(***************************************************************************)
(* System calls on a file number: the results the kernel may give.  A      *)
(* result >= 0 is a number of bytes, a negative one an errno.  The port is *)
(* opened with O_NONBLOCK, VMIN = 0 and VTIME = 0, so a read of an empty   *)
(* queue may return 0 as well as fail with EAGAIN.                         *)
(***************************************************************************)
EIO    == -5
EBADF  == -9
EAGAIN == -11

Least(a, b) == IF a < b THEN a ELSE b

Unopened(number) == number = INVALID_FD \/ file = "free"

ReadResults(number, room) ==
  IF Unopened(number) THEN {EBADF}
  ELSE IF file = "other" THEN {EAGAIN} \cup 0..room
  ELSE IF hungUp THEN {0, EIO}
  ELSE IF inQueue = 0 THEN {0, EAGAIN}
  ELSE 1..Least(inQueue, room)

WriteResults(number, length) ==
  IF Unopened(number) THEN {EBADF}
  ELSE IF file = "other" THEN {EAGAIN} \cup 1..length
  ELSE IF hungUp THEN {EIO}
  ELSE IF outQueue = OutCapacity THEN {EAGAIN}
  ELSE 1..Least(OutCapacity - outQueue, length)

\* ioctl(TIOCSBRK), ioctl(TIOCCBRK), and tcdrain() once nothing is left to transmit.
IoctlResults(number) ==
  IF Unopened(number) THEN {EBADF}
  ELSE IF file = "other" THEN {0, EIO}
  ELSE IF hungUp THEN {EIO}
  ELSE {0}

Bytes(result) == IF result > 0 THEN result ELSE 0

(***************************************************************************)
(* What poll() says of the port when it returns; named is what the port's  *)
(* number named when the poll began.  Closing the number under a poll does *)
(* not wake it.  Any other file may be ready, hung up (a pipe whose writer *)
(* is gone) or report what the callers do not expect (POLLERR), as may the *)
(* port of an unplugged adapter.                                           *)
(***************************************************************************)
PortReports(d, named, finite) ==
  IF named = "free" THEN {"invalid"}
  ELSE IF named = "other"
         THEN {"ready", "hangUp", "unexpected"} \cup (IF finite THEN {"timeout"} ELSE {})
  ELSE IF file = "port" /\ hungUp THEN {"hangUp", "unexpected"}
  ELSE IF file = "port" /\ (IF d = "in" THEN inQueue > 0 ELSE outQueue < OutCapacity)
         THEN {"ready"}
  ELSE IF finite THEN {"timeout"}
  ELSE {}

\* poll() on {the port, the cancel event of d}: the callers test the event first.
PollReports(d, named, finite) ==
  IF cancel[d] THEN {"cancel"} ELSE PortReports(d, named, finite)
==============================================================================
