----------------------- MODULE TermiosSerialPortSocket -----------------------
(***************************************************************************)
(* The POSIX socket of the JNI provider: AbstractSerialPortSocket.java     *)
(* takes the locks and calls begin() and end(), TermiosIO.c and            *)
(* TermiosCommon.c do the work.                                            *)
(*                                                                         *)
(* The native functions copy the fields fd and closeEventReadFd once and   *)
(* use the copies to their end, while close0 makes both fields invalid.    *)
(* One event wakes readers and writers.                                    *)
(***************************************************************************)
EXTENDS AbstractSerialPortSocket

CONSTANTS Signals,    \* poll(), tcdrain() and usleep() may be cut short by a signal
          CloseFails  \* close(fd) may report an error, having freed the number

ASSUME TermiosAssumption == Signals \in BOOLEAN /\ CloseFails \in BOOLEAN

VARIABLE closeEvent  \* the field closeEventReadFd is valid

vars == <<socketVars, closeEvent>>

Labels == {"idle", "enter", "selfClose", "load", "first", "watch", "arm",
           "poll", "again", "sleep", "end", "leave"}

NoLocals == [number   |-> INVALID_FD,  \* the copy of fd
             watches  |-> FALSE,       \* the copy of closeEventReadFd is valid
             rem      |-> 0,           \* len - overallRead, len - offset
             count    |-> 0,           \* overallRead, offset
             written  |-> 0,           \* the size of the last piece written
             deadline |-> FALSE,       \* the copy of the poll timeout is not -1
             looping  |-> FALSE,       \* in the do ... while of readBuffer
             pending  |-> FALSE,       \* an exception was thrown and the loop went on
             named    |-> "port",      \* what the port's number named when it began
             got      |-> 0,           \* bytes really moved on the port
             strays   |-> 0]           \* system calls made on another file

TypeOK ==
  /\ SocketTypeOK
  /\ closeEvent \in BOOLEAN
  /\ pc \in [Threads -> Labels]
  /\ local \in [Threads -> [number : {PORT_FD, INVALID_FD}, watches : BOOLEAN,
                            rem : 0..MaxLength, count : 0..MaxLength,
                            written : 0..MaxLength, deadline : BOOLEAN,
                            looping : BOOLEAN, pending : BOOLEAN,
                            named : {"port", "free", "other"}, got : 0..MaxLength,
                            strays : Nat]]

Init == SocketInit(NoLocals) /\ closeEvent = TRUE

------------------------------------------------------------------------------
(***************************************************************************)
(* Throwing while an exception is pending is undefined: either of the two  *)
(* arrives.                                                                *)
(***************************************************************************)
Thrown(t, outcome) ==
  IF ~local[t].pending THEN {outcome}
  ELSE {"interruptedIO"} \cup ({outcome} \cap Exceptions)

Finish(t, outcome, reported) == \E thrown \in Thrown(t, outcome) : Deliver(t, thrown, reported)

(***************************************************************************)
(* The fields pollReadTimeout and pollWriteTimeout are not -1.  Each call  *)
(* copies its field once and setTimeouts holds no monitor: where it is     *)
(* used at all, the copy may have any value.                               *)
(***************************************************************************)
Timed(d) == IF d \in TimedDirs THEN BOOLEAN ELSE {FALSE}

\* Faulty: the field fd is not read again.
ReadErrorUnread == "interruptedIO"

\* An errno of read(): the field fd is read again.
ReadError == IF fd = INVALID_FD THEN "asyncClose" ELSE "interruptedIO"

\* An errno of write(): the copy of fd is tested, which close0 does not change.
WriteError(t) == IF local[t].number = INVALID_FD THEN "asyncClose" ELSE "interruptedIO"

\* The native function copies fd; the writers and drainOutputBuffer their timeout too.
LoadFd(t) ==
  /\ At(t, "load")
  /\ ~(op[t] = "sendBreak" /\ local[t].rem = 0)
  /\ \E timed \in IF op[t] \in WriteOps \cup DrainOps THEN Timed("out") ELSE {FALSE} :
       local' = [local EXCEPT ![t].number = fd, ![t].deadline = timed]
  /\ Goto(t, IF op[t] \in ReadOps \cup DrainOps THEN "watch" ELSE "first")
  /\ UNCHANGED <<portVars, closeEvent, fdCleaner, lock, op, result>>

\* It copies closeEventReadFd: the readers before their first read(), the
\* writers after their first write().
LoadCloseEvent(t) ==
  /\ At(t, "watch")
  /\ local' = [local EXCEPT ![t].watches = closeEvent]
  /\ Goto(t, IF op[t] \in ReadOps THEN "first" ELSE "arm")
  /\ UNCHANGED <<portVars, closeEvent, fdCleaner, lock, op, result>>

\* read() and write() with the result r: the driver's queue and the locals.
Transfer(t, r, updated) ==
  /\ IF op[t] \in ReadOps
       THEN inQueue' = (IF Touches(t) THEN inQueue - Bytes(r) ELSE inQueue) /\ UNCHANGED outQueue
       ELSE outQueue' = (IF Touches(t) THEN outQueue + Bytes(r) ELSE outQueue) /\ UNCHANGED inQueue
  /\ local' = [local EXCEPT ![t] =
                 [updated EXCEPT !.rem    = @ - Bytes(r),
                                 !.count  = @ + Bytes(r),
                                 !.got    = IF Touches(t) THEN @ + Bytes(r) ELSE @,
                                 !.strays = @ + Strays(t)]]
  /\ UNCHANGED <<fileVars, break, hungUp, closeVars, closeEvent, fdCleaner, lock, op>>

\* readBuffer up to its first poll.  The timeout is copied after the read().
FirstRead(t) ==
  /\ At(t, "first")
  /\ op[t] \in ReadOps
  /\ \E r \in ReadResults(local[t].number, local[t].rem), timed \in Timed("in") :
       /\ Transfer(t, r, [local[t] EXCEPT !.deadline = timed, !.looping = r > 0])
       /\ IF r < 0 /\ (fd = INVALID_FD \/ r # EAGAIN)
            THEN Finish(t, ReadError, 0)
          ELSE IF r = local[t].rem
            THEN Finish(t, "ok", r)
          ELSE Goto(t, "arm") /\ UNCHANGED result

\* writeBuffer up to its loop; here EAGAIN is tested before fd.
FirstWrite(t) ==
  /\ At(t, "first")
  /\ op[t] \in WriteOps
  /\ \E r \in WriteResults(local[t].number, local[t].rem) :
       /\ Transfer(t, r, [local[t] EXCEPT !.written = Bytes(r)])
       /\ IF r < 0 /\ r # EAGAIN
            THEN Finish(t, WriteError(t), 0)
          ELSE IF r = local[t].rem
            THEN Finish(t, "ok", r)
          ELSE Goto(t, "watch") /\ UNCHANGED result

(***************************************************************************)
(* A poll begins, unless endTime has passed: then readBuffer, in its loop, *)
(* returns what it has, and writeBuffer throws with the size of its last   *)
(* piece.                                                                  *)
(***************************************************************************)
Arm(t) ==
  /\ At(t, "arm")
  /\ \/ /\ local' = [local EXCEPT ![t].named = file]
        /\ Goto(t, "poll")
        /\ UNCHANGED result
     \/ /\ local[t].deadline
        /\ \/ op[t] \in ReadOps /\ local[t].looping /\ Finish(t, "ok", local[t].count)
           \/ op[t] \in WriteOps /\ Finish(t, "timeout", local[t].written)
        /\ UNCHANGED local
  /\ UNCHANGED <<portVars, closeEvent, fdCleaner, lock, op>>

\* The poll has a timeout: in its loop readBuffer polls for the inter-byte timeout.
Finite(t) == local[t].deadline \/ local[t].looping

\* Faulty: the port is tested before the close event.
PollEventsPortFirst(t) ==
  LET events == PortReports(DirOf(op[t]), local[t].named, Finite(t))
  IN  IF "ready" \in events THEN {"ready"}
      ELSE IF local[t].watches /\ cancel["in"] THEN {"close"} ELSE events

\* poll() on {the port, the close event}; it ignores a negative number.
PollEvents(t) ==
  IF local[t].watches /\ cancel["in"] THEN {"close"}
  ELSE (IF Signals THEN {"signal"} ELSE {})
         \cup IF local[t].number = INVALID_FD
                THEN IF Finite(t) THEN {"timeout"} ELSE {}
                ELSE PortReports(DirOf(op[t]), local[t].named, Finite(t))

\* Other revents: drainOutputBuffer alone reads the field fd again.
Unexpected(t) ==
  IF op[t] \in DrainOps THEN throw_ClosedOrNativeException ELSE "interruptedIO"

\* Faulty: the inter-byte timeout throws away what was read.
PollOutcomeTimeout(t, event) ==
  CASE event = "timeout" -> "timeout"
    [] event = "signal"  -> "signalled"
    [] event = "hangUp"  -> "fdInvalid"
    [] event = "unexpected" -> Unexpected(t)
    [] event \in {"close", "invalid"} -> "asyncClose"

PollOutcome(t, event) ==
  CASE event = "timeout" -> IF op[t] \in ReadOps /\ local[t].looping THEN "ok" ELSE "timeout"
    [] event = "signal"  -> "signalled"
    [] event = "hangUp"  -> "fdInvalid"
    [] event = "unexpected" -> Unexpected(t)
    [] event \in {"close", "invalid"} -> "asyncClose"

\* bytesTransferred: a write that a poll ends reports its offset, but for a hang-up.
PollReported(t, event) ==
  IF \/ event = "timeout"
     \/ op[t] \in WriteOps /\ event \in {"signal", "unexpected"}
    THEN local[t].count ELSE 0

PollPort(t) ==
  /\ At(t, "poll")
  /\ \E event \in PollEvents(t) :
       IF event = "ready"
         THEN Goto(t, "again") /\ UNCHANGED result
         ELSE Finish(t, PollOutcome(t, event), PollReported(t, event))
  /\ local' = [local EXCEPT ![t].named = "port"]
  /\ UNCHANGED <<portVars, closeEvent, fdCleaner, lock, op>>

(***************************************************************************)
(* The read() after a poll that found the port ready.  In the loop a read  *)
(* of nothing throws and goes on polling with the exception pending.       *)
(***************************************************************************)
ReadAgain(t) ==
  /\ At(t, "again")
  /\ op[t] \in ReadOps
  /\ \E r \in ReadResults(local[t].number, local[t].rem) :
       LET empty == local[t].looping /\ r = 0
       IN  /\ Transfer(t, r, [local[t] EXCEPT !.looping = TRUE,
                                              !.pending = @ \/ (empty /\ fd # INVALID_FD)])
           /\ IF r < 0 \/ (empty /\ fd = INVALID_FD)
                THEN Finish(t, ReadError, 0)
              ELSE IF r = local[t].rem
                THEN Finish(t, "ok", local[t].count + r)
              ELSE Goto(t, "arm") /\ UNCHANGED result

\* The write() after a poll: writeBuffer returns `written`, its last piece.
WriteAgain(t) ==
  /\ At(t, "again")
  /\ op[t] \in WriteOps
  /\ \E r \in WriteResults(local[t].number, local[t].rem) :
       /\ Transfer(t, r, [local[t] EXCEPT !.written = Bytes(r)])
       /\ IF r < 0
            THEN Finish(t, WriteError(t), 0)
          ELSE IF r = local[t].rem
            THEN Finish(t, "ok", r)
          ELSE Goto(t, "arm") /\ UNCHANGED result

\* tcdrain(fd) blocks until the queue of the port is transmitted or the device is
\* gone; a signal ends it before.
Drain(t) ==
  /\ At(t, "again")
  /\ op[t] \in DrainOps
  /\ \/ /\ Touches(t) => (outQueue = 0 \/ hungUp)
        /\ \E r \in IoctlResults(local[t].number) :
             Finish(t, IF r = 0 THEN "ok" ELSE throw_ClosedOrNativeException, 0)
     \/ Signals /\ Finish(t, IF fd = INVALID_FD THEN "portClosed" ELSE "signalled", 0)
  /\ local' = [local EXCEPT ![t].strays = @ + Strays(t)]
  /\ UNCHANGED <<portVars, closeEvent, fdCleaner, lock, op>>

\* A signal ends usleep() and the call, with the break still held.
Awoken(t) ==
  /\ At(t, "sleep")
  /\ Signals
  /\ Finish(t, "runtime", 0)
  /\ UNCHANGED <<portVars, closeEvent, fdCleaner, lock, op, local>>

Step(t) == \/ CommonStep(t, NoLocals) /\ UNCHANGED closeEvent
           \/ LoadFd(t) \/ LoadCloseEvent(t)
           \/ FirstRead(t) \/ FirstWrite(t) \/ Arm(t) \/ PollPort(t)
           \/ ReadAgain(t) \/ WriteAgain(t) \/ Drain(t) \/ Awoken(t)

------------------------------------------------------------------------------
(***************************************************************************)
(* close0, statement by statement, after the Mark of InterruptiblePort.    *)
(***************************************************************************)

\* Faulty: the event is not written.
WakePollsLost ==
  /\ closing = "wakeWriters"
  /\ closing' = "flush"
  /\ UNCHANGED <<fileVars, deviceVars, closed, interrupted, interrupts, blocked, held>>
  /\ UNCHANGED <<callVars, closeEvent>>

\* write(close_event_write_fd): one event for both directions.
WakePolls ==
  /\ closing = "wakeWriters"
  /\ cancel' = [d \in Dir |-> TRUE]
  /\ closing' = "flush"
  /\ UNCHANGED <<fd, file, deviceVars, closed, interrupted, interrupts, blocked, held>>
  /\ UNCHANGED <<callVars, closeEvent>>

\* tcflush(fd, TCIOFLUSH) drops both queues.
FlushQueues ==
  /\ closing = "flush"
  /\ inQueue' = 0
  /\ outQueue' = 0
  /\ closing' = "forget"
  /\ UNCHANGED <<fileVars, break, hungUp, closed, interrupted, interrupts, blocked, held>>
  /\ UNCHANGED <<callVars, closeEvent>>

\* The fields of the event become invalid; the event itself stays open and readable.
ForgetEvent ==
  /\ closing = "forget"
  /\ closeEvent' = FALSE
  /\ closing' = "release"
  /\ UNCHANGED <<fileVars, deviceVars, closed, interrupted, interrupts, blocked, held>>
  /\ UNCHANGED <<fdCleaner, lock, pc, op, local, result>>

\* Faulty: the cleaner keeps the number.
CloseFdRemembered ==
  /\ Release
  /\ UNCHANGED <<callVars, closeEvent>>

\* close(fd); when it reports an error the exception skips fdCleaner.fd = INVALID_FD.
CloseFd ==
  /\ Release
  /\ fdCleaner' \in {INVALID_FD} \cup IF CloseFails THEN {fdCleaner} ELSE {}
  /\ UNCHANGED <<closeEvent, lock, pc, op, local, result>>

close0 == (Mark /\ UNCHANGED <<callVars, closeEvent>>) \/ WakePolls \/ FlushQueues \/ ForgetEvent \/ CloseFd

Next == \/ \E t \in Threads : Call(t, NoLocals) /\ UNCHANGED closeEvent
        \/ \E t \in Threads : Step(t)
        \/ close0
        \/ closeFds /\ UNCHANGED closeEvent
        \/ Others /\ UNCHANGED <<callVars, closeEvent>>

(***************************************************************************)
(* The scheduler runs every thread that can run, the closing one included. *)
(* Nothing is assumed of the callers, the device or the collector.         *)
(***************************************************************************)
Spec     == Init /\ [][Next]_vars
FairSpec == Spec /\ WF_vars(close0) /\ \A t \in Threads : WF_vars(Step(t))

------------------------------------------------------------------------------
(***************************************************************************)
(* Reads, drains and the ioctls do not report a close as an error of the   *)
(* device: they read the field fd again when a call on the number fails,   *)
(* and a poll that watches the close event says that the port is closed    *)
(* whatever the number names by then.  Only a poll without the event (see  *)
(* CloseUnblocks) takes the hang-up of another file that got the number    *)
(* for one of the port.  The writes test their copy of fd and do report    *)
(* a close as an error.                                                    *)
(***************************************************************************)
CloseNotMisreported ==
  \A t \in Threads :
    /\ Decided(t)
    /\ op[t] \notin WriteOps
    /\ Answer(t) \in {"fdInvalid", "ioError", "interruptedIO"}
    => hungUp \/ (file = "other" /\ op[t] \in ReadOps \cup DrainOps /\ ~local[t].watches)

(***************************************************************************)
(* A successful read, in one piece or in several, returns the number of    *)
(* bytes it moved, also when the deadline or the inter-byte timeout ended  *)
(* it; a read that times out moved none; a write that a signal ends        *)
(* reports all it had moved in its bytesTransferred.                       *)
(***************************************************************************)
ReportedBytes ==
  \A t \in Threads :
    Decided(t) /\ local[t].strays = 0 =>
      /\ op[t] \in ReadOps /\ Answer(t) = "ok" => result[t].reported = local[t].got
      /\ op[t] \in ReadOps /\ Answer(t) = "timeout" => local[t].got = 0
      /\ op[t] \in WriteOps /\ Answer(t) = "signalled" => result[t].reported = local[t].got

(***************************************************************************)
(* A call that holds the close event makes one system call at most on a    *)
(* number that has come to name another file.                              *)
(***************************************************************************)
AtMostOneStrayCall ==
  \A t \in Threads : local[t].watches => local[t].strays <= 1

(***************************************************************************)
(* A call that has copied the close event is not left in its poll by the   *)
(* close: the poll returns although close() does not end it, the number    *)
(* may name another file and nothing else happens on the line.             *)
(***************************************************************************)
WatchersWoken ==
  \A t \in Threads : closing = "done" /\ At(t, "poll") /\ local[t].watches
                       => PollEvents(t) \subseteq {"close"} /\ PollEvents(t) # {}

(***************************************************************************)
(* "Closing an socket with pending IO operations will unblock said         *)
(* operations": the code copies closeEventReadFd after fd, so that an      *)
(* operation between the two may poll for ever, lines 44-46 and 241-282.   *)
(***************************************************************************)
CloseUnblocks ==
  \A t \in Threads : closed /\ pc[t] \notin {"idle", "enter"} ~> At(t, "idle")

(***************************************************************************)
(* A successful write(ByteBuffer) returns the number of bytes written, by  *)
(* which it moves the buffer's position, as the conformance test expects   *)
(* (AbstractChannelTests.java:52-54).  The code returns the size of the    *)
(* last piece, line 346.                                                   *)
(***************************************************************************)
WrittenBytesReported ==
  \A t \in Threads :
    Decided(t) /\ op[t] = "write" /\ Answer(t) = "ok" /\ local[t].strays = 0
      => result[t].reported = local[t].got
==============================================================================
