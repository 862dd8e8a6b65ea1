-------------------- MODULE TermiosSerialPortSocketProofs --------------------
(***************************************************************************)
(* Theorems about the native POSIX socket, for any threads, capacities,    *)
(* buffers and timeouts: what close0 wakes, who closes the number, that    *)
(* the socket implements SerialChannel, and what the calls report of a     *)
(* transfer, of a close and of a number that names another file.           *)
(***************************************************************************)
EXTENDS TermiosSerialPortSocket, AbstractSerialPortSocketProofs

\* From the write to the event on both directions are cancelled.
WokenInv == closing \in {"flush", "forget", "release", "done"} => cancel["in"]

\* The native functions leave the file to the close.
LEMMA NativeSteps ==
  ASSUME NEW t \in Threads, Step(t)
  PROVE  pc[t] # "idle" /\ KeepsFile /\ Starts
<1>1. CASE CommonStep(t, NoLocals)
  BY <1>1, CommonSteps
<1>. USE DEF KeepsFile, Starts, At, portVars, fileVars, deviceVars, closeVars
<1>2. CASE LoadFd(t) \/ LoadCloseEvent(t)
  BY <1>2 DEF LoadFd, LoadCloseEvent
<1>3. CASE FirstRead(t)
  BY <1>3 DEF FirstRead, Transfer
<1>4. CASE FirstWrite(t)
  BY <1>4 DEF FirstWrite, Transfer
<1>5. CASE Arm(t) \/ PollPort(t)
  BY <1>5 DEF Arm, PollPort
<1>6. CASE ReadAgain(t)
  BY <1>6 DEF ReadAgain, Transfer
<1>7. CASE WriteAgain(t)
  BY <1>7 DEF WriteAgain, Transfer
<1>8. CASE Drain(t) \/ Awoken(t)
  BY <1>8 DEF Drain, Awoken
<1>. QED BY <1>1, <1>2, <1>3, <1>4, <1>5, <1>6, <1>7, <1>8 DEF Step

\* Nothing but close0 touches the event, and it sets it before it goes on.
LEMMA NextWoken == ASSUME WokenInv, [Next]_vars PROVE WokenInv'
<1>. USE DEF WokenInv, portVars, fileVars, deviceVars, closeVars, callVars, socketVars
<1>1. CASE UNCHANGED vars
  BY <1>1 DEF vars
<1>2. ASSUME NEW t \in Threads, Call(t, NoLocals) PROVE WokenInv'
  BY <1>2 DEF Call
<1>3. ASSUME NEW t \in Threads, Step(t) PROVE WokenInv'
  BY <1>3, NativeSteps DEF KeepsFile, Starts
<1>4. CASE Mark
  BY <1>4 DEF Mark
<1>5. CASE WakePolls
  BY <1>5 DEF WakePolls, Dir
<1>6. CASE FlushQueues \/ ForgetEvent
  BY <1>6 DEF FlushQueues, ForgetEvent
<1>7. CASE CloseFd
  BY <1>7 DEF CloseFd, Release
<1>8. CASE closeFds
  BY <1>8 DEF closeFds
<1>9. CASE Others
  <2>1. CASE Close
    BY <2>1 DEF Close, StartClosing
  <2>2. ASSUME NEW t \in Threads, Interrupt(t) PROVE WokenInv'
    BY <2>2 DEF Interrupt, StartClosing
  <2>3. CASE Environment
    BY <2>3 DEF Environment, Receive, Transmit, Unplug, ReuseNumber
  <2>. QED BY <1>9, <2>1, <2>2, <2>3 DEF Others
<1>. QED BY <1>1, <1>2, <1>3, <1>4, <1>5, <1>6, <1>7, <1>8, <1>9 DEF Next, close0

\* A call that has copied the close event is not left in its poll, whatever its number
\* names, however many threads wait, and although only one event is written.
THEOREM CloseWakesWatchers == Spec => []WatchersWoken
<1>1. Init => WokenInv
  BY DEF Init, SocketInit, PortInit, WokenInv
<1>2. WokenInv /\ [Next]_vars => WokenInv'
  BY NextWoken
<1>3. WokenInv => WatchersWoken
  BY DEF WokenInv, WatchersWoken, PollEvents
<1>. QED BY <1>1, <1>2, <1>3, PTL DEF Spec

------------------------------------------------------------------------------
\* close0 releases the file once, and the cleaner only if close0 did not.
LEMMA NextReleased ==
  ASSUME ~CloseFails, ReleaseInv, [Next]_vars
  PROVE  /\ ReleaseInv'
         /\ file = "other" => file' = "other"
<1>. USE DEF ReleaseInv, portVars, fileVars, deviceVars, closeVars, callVars, socketVars
<1>. DEFINE Kept == ReleaseInv' /\ (file = "other" => file' = "other")
<1>1. CASE UNCHANGED vars
  BY <1>1 DEF vars
<1>2. CASE \/ \E t \in Threads : Call(t, NoLocals)
           \/ Others /\ UNCHANGED callVars
           \/ closeFds
  BY <1>2, OthersRelease
<1>3. ASSUME NEW t \in Threads, Step(t) PROVE Kept
  BY <1>3, NativeSteps, StepRelease
<1>4. CASE Mark /\ UNCHANGED callVars
  BY <1>4 DEF Mark
<1>5. CASE WakePolls \/ FlushQueues \/ ForgetEvent
  BY <1>5 DEF WakePolls, FlushQueues, ForgetEvent
<1>6. CASE CloseFd
  BY <1>6 DEF CloseFd, Release, PORT_FD, INVALID_FD
<1>. QED BY <1>1, <1>2, <1>3, <1>4, <1>5, <1>6 DEF Next, close0

\* If close(fd) never reports an error the port is released once: neither close0 nor the
\* cleaner ever closes a number that has come to name another file, and the cleaner
\* leaves no port open.
THEOREM PortReleasedOnce == ASSUME ~CloseFails PROVE Spec => ReleasedOnce
<1>1. Init => ReleaseInv
  BY InitReleased DEF Init
<1>2. ReleaseInv /\ [Next]_vars => ReleaseInv'
  BY NextReleased
<1>3. ReleaseInv /\ ReleaseInv' /\ [Next]_vars
        => [/\ file = "other" => file' = "other"
            /\ fdCleaner' = "ran" => file' # "port"]_socketVars
  <2>. SUFFICES ASSUME ReleaseInv, ReleaseInv', [Next]_vars
                PROVE  /\ file = "other" => file' = "other"
                       /\ fdCleaner' = "ran" => file' # "port"
    OBVIOUS
  <2>. QED BY NextReleased DEF ReleaseInv, PORT_FD
<1>. QED BY <1>1, <1>2, <1>3, PTL DEF Spec, ReleasedOnce

------------------------------------------------------------------------------
(* The native socket implements SerialChannel. *)

LEMMA FinishInside ==
  ASSUME ShapeInv, NEW t \in Threads, NEW outcome, NEW reported, Finish(t, outcome, reported)
  PROVE  /\ Inside(t)'
         /\ DOMAIN pc' = Threads
         /\ \A u \in Threads \ {t} : pc'[u] = pc[u]
BY DeliverInside DEF Finish

\* read() and write() return numbers.
LEMMA ResultsAreNumbers ==
  ASSUME NEW number, NEW room,
         NEW r \in ReadResults(number, room) \cup WriteResults(number, room)
  PROVE  r \in Int /\ Bytes(r) \in Nat
<1>1. r \in Int
  BY DEF ReadResults, WriteResults, EIO, EBADF, EAGAIN
<1>. QED BY <1>1 DEF Bytes

\* A transfer counts the bytes it moves on the port.
LEMMA TransferMoves ==
  ASSUME ShapeInv, NEW t \in Threads, NEW r \in Int, op[t] \in ReadOps \cup WriteOps,
         NEW updated, DOMAIN updated = DOMAIN local[t], updated.got = local[t].got,
         Transfer(t, r, updated)
  PROVE  /\ \A u \in Threads \ {t} : local'[u] = local[u]
         /\ DOMAIN local' = Threads
         /\ "got" \in DOMAIN local'[t]
         /\ \/ local'[t].got = local[t].got
            \/ /\ local'[t].got \in Nat /\ local'[t].got > local[t].got
               /\ file = "port" /\ LocksOf(op[t]) = {DirOf(op[t])}
         /\ UNCHANGED <<lock, op, file>>
<1>. DEFINE new == [updated EXCEPT !.rem    = @ - Bytes(r),
                                   !.count  = @ + Bytes(r),
                                   !.got    = IF Touches(t) THEN @ + Bytes(r) ELSE @,
                                   !.strays = @ + Strays(t)]
<1>1. local' = [local EXCEPT ![t] = new]
  BY DEF Transfer
<1>2. "got" \in DOMAIN updated /\ updated.got \in Nat
  BY DEF ShapeInv
<1>3. /\ "got" \in DOMAIN new
      /\ new.got = IF Touches(t) THEN local[t].got + Bytes(r) ELSE local[t].got
  BY <1>2
<1>4. local'[t] = new /\ DOMAIN local' = Threads /\ \A u \in Threads \ {t} : local'[u] = local[u]
  BY <1>1 DEF ShapeInv
<1>5. LocksOf(op[t]) = {DirOf(op[t])}
  BY DEF LocksOf, ReadOps, WriteOps
<1>6. \/ new.got = local[t].got
      \/ new.got \in Nat /\ new.got > local[t].got /\ file = "port"
  <2>1. CASE Touches(t) /\ r > 0
    BY <1>3, <2>1 DEF Touches, Bytes, ShapeInv
  <2>2. CASE ~Touches(t)
    BY <1>3, <2>2
  <2>3. CASE ~(r > 0)
    BY <1>3, <2>3 DEF Bytes, ShapeInv
  <2>. QED BY <2>1, <2>2, <2>3
<1>7. UNCHANGED <<lock, op, file>>
  BY DEF Transfer, fileVars
<1>. QED BY <1>3, <1>4, <1>5, <1>6, <1>7

\* The steps of the native functions.
InnerStep(t) ==
  \/ LoadFd(t) \/ LoadCloseEvent(t) \/ FirstRead(t) \/ FirstWrite(t) \/ Arm(t) \/ PollPort(t)
  \/ ReadAgain(t) \/ WriteAgain(t) \/ Drain(t) \/ Awoken(t)

LEMMA InnerSteps ==
  ASSUME ShapeInv, NEW t \in Threads, InnerStep(t)
  PROVE  Inner(t)
<1>. DEFINE Moves == /\ Inside(t)'
                     /\ DOMAIN pc' = Threads
                     /\ \A u \in Threads \ {t} : pc'[u] = pc[u]
            Keeps == /\ \A u \in Threads \ {t} : local'[u] = local[u]
                     /\ DOMAIN local' = Threads
                     /\ "got" \in DOMAIN local'[t]
                     /\ local'[t].got = local[t].got
                     /\ UNCHANGED <<lock, op, file>>
<1>a. ASSUME NEW label, label \notin {"idle", "enter"}, Goto(t, label) PROVE Moves
  BY <1>a, GotoInside
<1>c. ASSUME NEW o, NEW n, Finish(t, o, n) PROVE Moves
  BY <1>c, FinishInside
<1>d. ASSUME UNCHANGED local, UNCHANGED <<lock, op, file>> PROVE Keeps
  BY <1>d DEF ShapeInv
<1>0. ASSUME Moves, Keeps, Inside(t) PROVE Inner(t)
  BY <1>0 DEF Inner
<1>z. ASSUME Moves, Inside(t), NEW r \in Int, NEW updated,
             op[t] \in ReadOps \cup WriteOps,
             DOMAIN updated = DOMAIN local[t], updated.got = local[t].got,
             Transfer(t, r, updated)
      PROVE  Inner(t)
  BY <1>z, TransferMoves DEF Inner
<1>. HIDE DEF Moves
<1>1. CASE Awoken(t)
  <2>1. Inside(t) /\ UNCHANGED local /\ UNCHANGED <<lock, op, file>>
    BY <1>1 DEF Awoken, At, Inside, portVars, fileVars
  <2>2. Moves
    BY <1>1, <1>c DEF Awoken
  <2>. QED BY <1>0, <1>d, <2>1, <2>2
<1>3. CASE LoadFd(t)
  <2>1. Inside(t)
    BY <1>3 DEF LoadFd, At, Inside
  <2>2. Moves
    BY <1>3, <1>a DEF LoadFd
  <2>3. PICK timed : local' = [local EXCEPT ![t].number = fd, ![t].deadline = timed]
    BY <1>3, Zenon DEF LoadFd
  <2>4. UNCHANGED <<lock, op, file>>
    BY <1>3 DEF LoadFd, portVars, fileVars
  <2>5. Keeps
    BY <2>3, <2>4 DEF ShapeInv
  <2>. QED BY <1>0, <2>1, <2>2, <2>5
<1>4. CASE LoadCloseEvent(t)
  <2>1. Inside(t)
    BY <1>4 DEF LoadCloseEvent, At, Inside
  <2>2. Moves
    BY <1>4, <1>a DEF LoadCloseEvent
  <2>3. local' = [local EXCEPT ![t].watches = closeEvent] /\ UNCHANGED <<lock, op, file>>
    BY <1>4 DEF LoadCloseEvent, portVars, fileVars
  <2>4. Keeps
    BY <2>3 DEF ShapeInv
  <2>. QED BY <1>0, <2>1, <2>2, <2>4
<1>5. CASE FirstRead(t)
  <2>1. Inside(t) /\ op[t] \in ReadOps \cup WriteOps
    BY <1>5 DEF FirstRead, At, Inside
  <2>2. PICK r \in ReadResults(local[t].number, local[t].rem), timed \in Timed("in") :
          /\ Transfer(t, r, [local[t] EXCEPT !.deadline = timed, !.looping = r > 0])
          /\ (\E o, n : Finish(t, o, n)) \/ Goto(t, "arm")
    BY <1>5, Zenon DEF FirstRead
  <2>3. Moves
    BY <1>a, <1>c, <2>2
  <2>4. r \in Int
    BY <2>2, ResultsAreNumbers
  <2>5. LET updated == [local[t] EXCEPT !.deadline = timed, !.looping = r > 0]
        IN  DOMAIN updated = DOMAIN local[t] /\ updated.got = local[t].got
    BY DEF ShapeInv
  <2>. QED BY <1>z, <2>1, <2>2, <2>3, <2>4, <2>5
<1>6. CASE FirstWrite(t) \/ WriteAgain(t)
  <2>1. Inside(t) /\ op[t] \in ReadOps \cup WriteOps
    BY <1>6 DEF FirstWrite, WriteAgain, At, Inside
  <2>2. PICK r \in WriteResults(local[t].number, local[t].rem) :
          /\ Transfer(t, r, [local[t] EXCEPT !.written = Bytes(r)])
          /\ (\E o, n : Finish(t, o, n)) \/ Goto(t, "watch") \/ Goto(t, "arm")
    BY <1>6, Zenon DEF FirstWrite, WriteAgain
  <2>3. Moves
    BY <1>a, <1>c, <2>2
  <2>4. r \in Int
    BY <2>2, ResultsAreNumbers
  <2>5. LET updated == [local[t] EXCEPT !.written = Bytes(r)]
        IN  DOMAIN updated = DOMAIN local[t] /\ updated.got = local[t].got
    BY DEF ShapeInv
  <2>. QED BY <1>z, <2>1, <2>2, <2>3, <2>4, <2>5
<1>7. CASE ReadAgain(t)
  <2>1. Inside(t) /\ op[t] \in ReadOps \cup WriteOps
    BY <1>7 DEF ReadAgain, At, Inside
  <2>2. PICK r \in ReadResults(local[t].number, local[t].rem) :
          /\ Transfer(t, r, [local[t] EXCEPT
                              !.looping = TRUE,
                              !.pending = @ \/ ((local[t].looping /\ r = 0) /\ fd # INVALID_FD)])
          /\ (\E o, n : Finish(t, o, n)) \/ Goto(t, "arm")
    BY <1>7, Zenon DEF ReadAgain
  <2>3. Moves
    BY <1>a, <1>c, <2>2
  <2>4. r \in Int
    BY <2>2, ResultsAreNumbers
  <2>5. LET updated == [local[t] EXCEPT
                        !.looping = TRUE,
                        !.pending = @ \/ ((local[t].looping /\ r = 0) /\ fd # INVALID_FD)]
        IN  DOMAIN updated = DOMAIN local[t] /\ updated.got = local[t].got
    BY DEF ShapeInv
  <2>. QED BY <1>z, <2>1, <2>2, <2>3, <2>4, <2>5
<1>8. CASE Arm(t)
  <2>1. Inside(t) /\ UNCHANGED <<lock, op, file>>
    BY <1>8 DEF Arm, At, Inside, portVars, fileVars
  <2>2. Moves
    BY <1>8, <1>a, <1>c, Zenon DEF Arm
  <2>3. local' = [local EXCEPT ![t].named = file] \/ UNCHANGED local
    BY <1>8 DEF Arm
  <2>4. Keeps
    BY <2>1, <2>3 DEF ShapeInv
  <2>. QED BY <1>0, <2>1, <2>2, <2>4
<1>9. CASE PollPort(t)
  <2>1. Inside(t) /\ UNCHANGED <<lock, op, file>>
    BY <1>9 DEF PollPort, At, Inside, portVars, fileVars
  <2>2. Moves
    BY <1>9, <1>a, <1>c, Zenon DEF PollPort
  <2>3. local' = [local EXCEPT ![t].named = "port"]
    BY <1>9 DEF PollPort
  <2>4. Keeps
    BY <2>1, <2>3 DEF ShapeInv
  <2>. QED BY <1>0, <2>1, <2>2, <2>4
<1>10. CASE Drain(t)
  <2>1. Inside(t) /\ UNCHANGED <<lock, op, file>>
    BY <1>10 DEF Drain, At, Inside, portVars, fileVars
  <2>2. Moves
    BY <1>10, <1>c, Zenon DEF Drain
  <2>3. local' = [local EXCEPT ![t].strays = @ + Strays(t)]
    BY <1>10 DEF Drain
  <2>4. Keeps
    BY <2>1, <2>3 DEF ShapeInv
  <2>. QED BY <1>0, <2>1, <2>2, <2>4
<1>. QED BY <1>1, <1>3, <1>4, <1>5, <1>6, <1>7, <1>8, <1>9, <1>10 DEF InnerStep

LEMMA NewFrame == "got" \in DOMAIN NoLocals /\ NoLocals.got = 0
BY DEF NoLocals

LEMMA NextChannel ==
  ASSUME MonitorInv, [Next]_vars
  PROVE  MonitorInv' /\ ChannelMoves
<1>1. ASSUME NEW t \in Threads, Step(t) PROVE MonitorInv' /\ ChannelMoves
  <2>1. CASE InnerStep(t)
    <3>1. ShapeInv
      BY DEF MonitorInv
    <3>. QED BY <2>1, <3>1, InnerSteps, InnerChannel
  <2>2. CASE CommonStep(t, NoLocals)
    BY <2>2, NewFrame, CommonChannel
  <2>. QED BY <1>1, <2>1, <2>2 DEF Step, InnerStep
<1>2. ASSUME NEW t \in Threads, Call(t, NoLocals) PROVE MonitorInv' /\ ChannelMoves
  BY <1>2, NewFrame, CallChannel
<1>3. CASE close0
  BY <1>3, OtherChannel
     DEF close0, Mark, WakePolls, FlushQueues, ForgetEvent, CloseFd, Release, callVars, fileVars
<1>4. CASE closeFds \/ (Others /\ UNCHANGED callVars)
  BY <1>4, OthersChannel
<1>5. CASE UNCHANGED vars
  BY <1>5, OtherChannel DEF vars, socketVars, callVars, portVars, fileVars
<1>. QED BY <1>1, <1>2, <1>3, <1>4, <1>5 DEF Next

\* The native socket implements the safety part of SerialChannel, as the socket written in
\* Java does: the operations of a direction exclude each other, and no byte moves to or
\* from a port that was detached.
THEOREM NativeImplementsChannel == Spec => ChannelSafeSpec
<1>1. Init => MonitorInv /\ Channel!Init
  BY NewFrame, InitChannel DEF Init
<1>2. MonitorInv /\ [Next]_vars => MonitorInv' /\ ChannelMoves
  BY NextChannel
<1>. QED BY <1>1, <1>2, PTL DEF Spec, ChannelSafeSpec, Channel!SafeSpec, ChannelMoves

------------------------------------------------------------------------------
(* What the calls report. *)

Frames == [number : {PORT_FD, INVALID_FD}, watches : BOOLEAN,
           rem : 0..MaxLength, count : 0..MaxLength,
           written : 0..MaxLength, deadline : BOOLEAN,
           looping : BOOLEAN, pending : BOOLEAN,
           named : {"port", "free", "other"}, got : 0..MaxLength,
           strays : Nat]

Results == [Threads -> [outcome : Exceptions \cup {"none", "ok", "eof"}, reported : 0..MaxLength]]

\* The operations that poll, and the errors that blame the device.
Moving == ReadOps \cup WriteOps \cup DrainOps
Errors == {"fdInvalid", "ioError", "interruptedIO"}

\* Where a call is: it polls only for a transfer or a drain, it has done nothing before its
\* first system call, and it has no close event before it copied one.
Placed(t) ==
  /\ pc[t] \in {"watch", "arm", "poll"} => op[t] \in Moving
  /\ At(t, "sleep") => op[t] = "sendBreak"
  /\ pc[t] \in {"idle", "enter", "selfClose", "load", "first"} \/ (At(t, "watch") /\ op[t] \notin WriteOps)
       => local[t].count = 0 /\ local[t].got = 0 /\ local[t].strays = 0
  /\ \/ pc[t] \in {"idle", "enter", "selfClose", "load", "watch"}
     \/ At(t, "first") /\ op[t] \in WriteOps
     \/ op[t] \notin Moving
     => ~local[t].watches

\* What it counts: without strays the bytes it really moved, and nothing outside the loop
\* of readBuffer.
Counted(t) ==
  /\ local[t].rem + local[t].count <= MaxLength
  /\ local[t].got <= local[t].count
  /\ local[t].strays = 0 => local[t].got = local[t].count
  /\ op[t] \in ReadOps /\ ~local[t].looping => local[t].count = 0
  /\ Ended(t) /\ op[t] \in ReadOps /\ local[t].strays = 0 =>
       /\ result[t].outcome = "ok" => result[t].reported = local[t].got
       /\ result[t].outcome = "timeout" => local[t].got = 0
  /\ Ended(t) /\ op[t] \in WriteOps /\ local[t].strays = 0 /\ result[t].outcome = "signalled"
       => result[t].reported = local[t].got

\* Another file has the number only after the close, when the event is long readable.
Watched(t) ==
  /\ local[t].strays > 0 => closing = "done"
  /\ local[t].watches => local[t].strays <= 1
  /\ local[t].watches /\ pc[t] \in {"first", "again"} => local[t].strays = 0

\* It polled without the close event a number that names another file.
Foreign(t) == file = "other" /\ op[t] \in ReadOps \cup DrainOps /\ ~local[t].watches

\* What it may blame on the device: whatever else fails, the field fd is invalid.  A poll
\* that finds the port ready leaves a reader something to read.
Excused(t) ==
  /\ pc[t] \in {"watch", "first", "arm", "poll", "again", "sleep"} /\ local[t].number = INVALID_FD
       => fd = INVALID_FD
  /\ At(t, "poll") /\ local[t].named = "other" => fd = INVALID_FD /\ file = "other"
  /\ At(t, "again") /\ op[t] \in ReadOps => fd = INVALID_FD \/ inQueue > 0 \/ hungUp
  /\ local[t].pending => hungUp
  /\ Ended(t) /\ op[t] \notin WriteOps /\ result[t].outcome \in Errors
       => hungUp \/ Foreign(t)

Good(t) == Placed(t) /\ Counted(t) /\ Watched(t) /\ Excused(t)

CallsInv == /\ TypeOK
            /\ ResultInv
            /\ FileInv
            /\ \A t \in Threads : Good(t)

\* The event is forgotten before the file is released.
EventInv == closing \in {"release", "done"} => ~closeEvent

NativeInv == CallsInv /\ EventInv /\ WokenInv /\ MonitorInv

------------------------------------------------------------------------------
\* The close, its end and an unplugged adapter stay so, and another file until the cleaner.
Stable == /\ fd = INVALID_FD => fd' = INVALID_FD
          /\ closing = "done" => closing' = "done"
          /\ hungUp => hungUp'
          /\ file = "other" => file' = "other" \/ \A u \in Threads : pc[u] = "idle"

LEMMA KeptFile == ASSUME FileInv, KeepsFile, Starts PROVE Stable
BY DEF FileInv, KeepsFile, Starts, Stable

\* Only the readers and the flush of the close take bytes from the input queue.
LEMMA KeptGood ==
  ASSUME NEW u \in Threads, Good(u), Stable,
         pc'[u] = pc[u], op'[u] = op[u], local'[u] = local[u], result'[u] = result[u],
         At(u, "again") /\ op[u] \in ReadOps /\ fd # INVALID_FD /\ inQueue > 0 => inQueue' > 0
  PROVE  Good(u)'
<1>1. Placed(u)' /\ Counted(u)'
  BY DEF Good, Placed, Counted, At, Ended
<1>2. Watched(u)' /\ Excused(u)'
  BY DEF Good, Watched, Excused, Foreign, Stable, At, Ended
<1>. QED BY <1>1, <1>2 DEF Good

\* What a step of t leaves alone.
OnlyBy(t) == \A u \in Threads \ {t} : /\ pc'[u] = pc[u] /\ op'[u] = op[u]
                                      /\ local'[u] = local[u] /\ result'[u] = result[u]

LEMMA Framed == CallsInv => /\ DOMAIN pc = Threads /\ DOMAIN local = Threads
                            /\ DOMAIN op = Threads /\ DOMAIN result = Threads
                            /\ local \in [Threads -> Frames] /\ result \in Results
                            /\ SocketTypeOK /\ PortTypeOK
BY DEF CallsInv, TypeOK, SocketTypeOK, Frames, Results

LEMMA FreshFrame == NoLocals \in Frames
BY CallAssumption DEF NoLocals, Frames

\* One reader at a time is past the monitor.
LEMMA ReadersExclude ==
  ASSUME MonitorInv, NEW t \in Threads, NEW u \in Threads, Inside(t), Inside(u),
         op[t] \in ReadOps, op[u] \in ReadOps
  PROVE  t = u
<1>1. ASSUME NEW v \in Threads, Inside(v), op[v] \in ReadOps PROVE lock["in"] = v
  <2>1. "in" \in LocksOf(op[v]) /\ "in" \in Dir
    BY <1>1 DEF LocksOf, DirOf, ReadOps, Dir
  <2>. QED BY <1>1, <2>1 DEF MonitorInv
<1>. QED BY <1>1

LEMMA CallsKept ==
  ASSUME CallsInv, MonitorInv, NEW t \in Threads, OnlyBy(t), Stable,
         inQueue' = inQueue \/ (Inside(t) /\ op[t] \in ReadOps),
         TypeOK', FileInv', ~Ended(t)' => result'[t] = NoResult, Good(t)'
  PROVE  CallsInv'
<1>1. ASSUME NEW u \in Threads \ {t} PROVE Good(u)'
  <2>1. At(u, "again") /\ op[u] \in ReadOps => inQueue' = inQueue
    BY <1>1, ReadersExclude DEF Inside, At
  <2>. QED BY <1>1, <2>1, KeptGood DEF OnlyBy, CallsInv
<1>2. ResultInv'
  BY DEF OnlyBy, CallsInv, ResultInv, Ended
<1>. QED BY <1>1, <1>2 DEF CallsInv

\* How the type is kept.
LEMMA TypeKept ==
  ASSUME TypeOK, NEW t \in Threads, SocketTypeOK', closeEvent' \in BOOLEAN,
         NEW l \in Labels, pc' = [pc EXCEPT ![t] = l],
         NEW f \in Frames, local' = [local EXCEPT ![t] = f]
  PROVE  TypeOK'
<1>1. pc' \in [Threads -> Labels]
  BY DEF TypeOK
<1>2. local' \in [Threads -> Frames]
  BY DEF TypeOK, Frames
<1>. QED BY <1>1, <1>2 DEF TypeOK, Frames

LEMMA CallGood ==
  ASSUME NativeInv, NEW t \in Threads, Call(t, NoLocals), UNCHANGED closeEvent
  PROVE  CallsInv'
<1>0. CallsInv /\ MonitorInv
  BY DEF NativeInv
<1>1. \E o \in Offered, n \in 0..MaxLength :
        /\ op' = [op EXCEPT ![t] = o]
        /\ local' = [local EXCEPT ![t] = [NoLocals EXCEPT !.rem = n]]
  <2>1. \A o \in Offered : Arguments(o) \subseteq 0..MaxLength
    BY CallAssumption DEF Arguments
  <2>. QED BY <2>1 DEF Call
<1>a. PICK o \in Offered, n \in 0..MaxLength :
        /\ op' = [op EXCEPT ![t] = o]
        /\ local' = [local EXCEPT ![t] = [NoLocals EXCEPT !.rem = n]]
  BY <1>1
<1>2. /\ pc[t] = "idle" /\ pc' = [pc EXCEPT ![t] = "enter"]
      /\ UNCHANGED <<portVars, fdCleaner, lock, result>>
  BY DEF Call, At, Goto
<1>. DEFINE f == [NoLocals EXCEPT !.rem = n]
<1>4. /\ f \in Frames /\ f.rem = n /\ f.count = 0 /\ f.got = 0 /\ f.strays = 0
      /\ ~f.watches /\ ~f.pending
  <2>1. NoLocals \in Frames /\ n \in 0..MaxLength
    BY <1>a, FreshFrame
  <2>2. f \in Frames
    BY <2>1 DEF Frames
  <2>. QED BY <2>2 DEF NoLocals
<1>5. local' = [local EXCEPT ![t] = f]
  BY <1>a
<1>. HIDE DEF f
<1>6. SocketTypeOK'
  <2>1. op' \in [Threads -> Ops \cup {"none"}]
    BY <1>a, <1>0, CallAssumption, Framed DEF SocketTypeOK
  <2>. QED BY <1>0, <1>2, <2>1, Framed DEF SocketTypeOK, PortTypeOK, portVars, fileVars, deviceVars, closeVars
<1>7. TypeOK'
  <2>1. "enter" \in Labels /\ closeEvent' \in BOOLEAN /\ TypeOK
    BY <1>0 DEF Labels, CallsInv, TypeOK
  <2>. QED BY <1>2, <1>4, <1>5, <1>6, <2>1, TypeKept
<1>8. FileInv' /\ Stable /\ inQueue' = inQueue
  <2>1. FileInv'
    BY <1>0, OthersFile DEF CallsInv
  <2>2. UNCHANGED <<fd, file, closing, hungUp, inQueue>>
    BY <1>2 DEF portVars, fileVars, deviceVars, closeVars
  <2>. QED BY <2>1, <2>2 DEF Stable
<1>9. OnlyBy(t) /\ pc'[t] = "enter" /\ local'[t] = f /\ result'[t] = result[t]
  BY <1>0, <1>a, <1>2, <1>5, Framed DEF OnlyBy
<1>10. Good(t)'
  <2>1. n <= MaxLength /\ n + 0 = n
    BY <1>a, CallAssumption
  <2>2. Placed(t)' /\ Counted(t)'
    BY <1>4, <1>9, <2>1 DEF Placed, Counted, At, Ended
  <2>3. Watched(t)' /\ Excused(t)'
    BY <1>4, <1>9 DEF Watched, Excused, At, Ended
  <2>. QED BY <2>2, <2>3 DEF Good
<1>11. ~Ended(t)' => result'[t] = NoResult
  BY <1>0, <1>2, <1>9 DEF CallsInv, ResultInv, Ended
<1>. QED BY <1>0, <1>7, <1>8, <1>9, <1>10, <1>11, CallsKept

\* A number that a call uses names the port as long as the field fd is valid.
LEMMA StillPort ==
  ASSUME FileInv, NEW t \in Threads, pc[t] # "idle"
  PROVE  /\ fd # INVALID_FD => file = "port"
         /\ Strays(t) > 0 => closing = "done"
         /\ Strays(t) \in {0, 1}
BY DEF FileInv, Strays

LEMMA CommonGood ==
  ASSUME NativeInv, NEW t \in Threads, CommonStep(t, NoLocals), UNCHANGED closeEvent
  PROVE  CallsInv'
<1>0. /\ CallsInv /\ MonitorInv /\ SocketTypeOK /\ ResultInv /\ FileInv /\ TypeOK
      /\ Placed(t) /\ Counted(t) /\ Watched(t) /\ Excused(t)
  BY Framed DEF NativeInv, CallsInv, Good
<1>1. PICK l \in CommonLabels \ {"enter"} : pc' = [pc EXCEPT ![t] = l]
  BY <1>0, CommonEffect
<1>2. /\ pc[t] \in CommonLabels \ {"idle"} /\ SocketTypeOK'
      /\ KeepsFile /\ Starts /\ UNCHANGED inQueue
      /\ \/ UNCHANGED <<local, op>>
         \/ /\ local' = [local EXCEPT ![t].strays = @ + Strays(t)] /\ op' = op
            /\ op[t] \in BreakOps \cup {"count"}
         \/ local' = [local EXCEPT ![t] = NoLocals] /\ Goto(t, "idle")
  BY <1>0, CommonEffect
<1>3. /\ OnlyBy(t)
      /\ pc'[t] \in {"selfClose", "load", "sleep", "again", "idle", "end", "leave"}
      /\ pc'[t] \in {"selfClose", "load"} =>
           pc[t] \in {"enter", "selfClose"} /\ UNCHANGED <<op, local>>
      /\ pc'[t] = "sleep" => pc[t] = "first" /\ op[t] = "sendBreak" /\ op' = op
      /\ pc'[t] = "again" => pc[t] = "sleep" /\ op' = op
      /\ pc'[t] = "idle" => local'[t] = NoLocals
  BY <1>0, CommonCourse, Framed DEF OnlyBy
<1>4. pc[t] # "idle" /\ local[t] \in Frames
  BY <1>0, <1>2, Framed
<1>5. \E f \in Frames :
        /\ local' = [local EXCEPT ![t] = f]
        /\ \/ pc'[t] = "idle" /\ f = NoLocals
           \/ f = local[t] /\ op' = op
           \/ /\ f = [local[t] EXCEPT !.strays = @ + Strays(t)] /\ op' = op
              /\ op[t] \in BreakOps \cup {"count"}
  <2>2. CASE UNCHANGED <<local, op>>
    BY <1>0, <1>4, <2>2, Framed
  <2>3. CASE /\ local' = [local EXCEPT ![t].strays = @ + Strays(t)] /\ op' = op
             /\ op[t] \in BreakOps \cup {"count"}
    <3>0. local[t].strays + Strays(t) \in Nat
      BY <1>4 DEF Frames, Strays
    <3>1. [local[t] EXCEPT !.strays = @ + Strays(t)] \in Frames
      BY <1>4, <3>0 DEF Frames
    <3>. QED BY <2>3, <3>1
  <2>4. CASE local' = [local EXCEPT ![t] = NoLocals] /\ Goto(t, "idle")
    BY <1>0, <2>4, FreshFrame, Framed DEF Goto
  <2>. QED BY <1>2, <2>2, <2>3, <2>4
<1>6. PICK f \in Frames :
        /\ local' = [local EXCEPT ![t] = f]
        /\ \/ pc'[t] = "idle" /\ f = NoLocals
           \/ f = local[t] /\ op' = op
           \/ /\ f = [local[t] EXCEPT !.strays = @ + Strays(t)] /\ op' = op
              /\ op[t] \in BreakOps \cup {"count"}
  BY <1>5
<1>7. local'[t] = f /\ pc'[t] = l
  BY <1>0, <1>1, <1>6, Framed
<1>8. TypeOK'
  <2>1. l \in Labels /\ closeEvent' \in BOOLEAN
    BY <1>0 DEF CommonLabels, Labels, TypeOK
  <2>. QED BY <1>0, <1>1, <1>2, <1>6, <2>1, TypeKept
<1>10. FileInv' /\ Stable
  BY <1>0, <1>2, <1>4, StepFile, KeptFile
<1>11. \/ ~Ended(t) /\ ~Ended(t)' /\ result' = result /\ op' = op
       \/ /\ Ended(t) /\ pc'[t] = "idle" /\ Return(t, NoLocals)
          /\ result' = [result EXCEPT ![t] = NoResult]
       \/ /\ ~Ended(t) /\ Ended(t)' /\ op' = op
          /\ CommonAnswer(t, result'[t])
          /\ result' = [result EXCEPT ![t] = result'[t]]
  BY <1>0, CommonResults, Framed
<1>12. ~Ended(t)' => result'[t] = NoResult
  BY <1>0, <1>11, Framed DEF ResultInv
<1>14. \/ /\ pc'[t] = "idle" /\ f.count = 0 /\ f.got = 0 /\ f.strays = 0 /\ f.rem = 0
          /\ ~f.watches /\ ~f.pending
       \/ /\ op' = op /\ f.rem = local[t].rem /\ f.count = local[t].count /\ f.got = local[t].got
          /\ f.number = local[t].number /\ f.watches = local[t].watches
          /\ f.pending = local[t].pending /\ f.looping = local[t].looping
          /\ \/ f.strays = local[t].strays
             \/ f.strays = local[t].strays + Strays(t) /\ op[t] \in BreakOps \cup {"count"}
  BY <1>4, <1>6 DEF NoLocals, Frames
<1>15. op[t] \in BreakOps \cup {"count"} => op[t] \notin Moving
  BY DEF BreakOps, Moving, ReadOps, WriteOps, DrainOps
<1>16. "sendBreak" \notin Moving /\ ReadOps \subseteq Moving /\ WriteOps \subseteq Moving
  BY DEF Moving, ReadOps, WriteOps, DrainOps
<1>a. CASE pc'[t] = "idle" /\ f.count = 0 /\ f.got = 0 /\ f.strays = 0 /\ f.rem = 0
           /\ ~f.watches /\ ~f.pending
  <2>1. Placed(t)' /\ Counted(t)'
    BY <1>7, <1>a, CallAssumption DEF Placed, Counted, At, Ended
  <2>2. Watched(t)' /\ Excused(t)'
    BY <1>7, <1>a DEF Watched, Excused, At, Ended
  <2>3. Good(t)'
    BY <2>1, <2>2 DEF Good
  <2>. QED BY <1>0, <1>2, <1>3, <1>8, <1>10, <1>12, <2>3, CallsKept
<1>b. CASE /\ op' = op /\ f.rem = local[t].rem /\ f.count = local[t].count /\ f.got = local[t].got
           /\ f.number = local[t].number /\ f.watches = local[t].watches
           /\ f.pending = local[t].pending /\ f.looping = local[t].looping
           /\ \/ f.strays = local[t].strays
              \/ f.strays = local[t].strays + Strays(t) /\ op[t] \in BreakOps \cup {"count"}
           /\ pc'[t] # "idle"
  <2>0. Strays(t) \in {0, 1} /\ local[t].strays \in Nat /\ (Strays(t) > 0 => closing = "done")
    BY <1>0, <1>4, StillPort DEF Frames
  <2>1. Placed(t)'
    BY <1>0, <1>3, <1>7, <1>b, <1>15, <1>16 DEF Placed, At
  <2>2. Counted(t)'
    <3>1. Ended(t)' /\ op[t] \in ReadOps \cup WriteOps
            => result'[t].reported = 0 /\ result'[t].outcome = "ok" /\ local[t].got = 0
      <4>. SUFFICES ASSUME Ended(t)', op[t] \in ReadOps \cup WriteOps
                    PROVE  result'[t].reported = 0 /\ result'[t].outcome = "ok" /\ local[t].got = 0
        OBVIOUS
      <4>1. CommonAnswer(t, result'[t])
        BY <1>11 DEF Ended
      <4>. QED BY <1>0, <1>15, <1>16, <4>1 DEF CommonAnswer, Placed
    <3>2. f.strays = 0 => local[t].strays = 0
      BY <1>b, <2>0
    <3>. QED BY <1>0, <1>7, <1>b, <3>1, <3>2 DEF Counted
  <2>3. Watched(t)'
    <3>1. f.strays > 0 => closing' = "done"
      BY <1>0, <1>10, <1>b, <2>0 DEF Watched, Stable
    <3>2. local[t].watches => f.strays = local[t].strays
      BY <1>0, <1>b, <1>15 DEF Placed
    <3>3. pc'[t] = "again" => ~local[t].watches
      BY <1>0, <1>3, <1>16 DEF Placed, At
    <3>. QED BY <1>0, <1>3, <1>7, <1>b, <3>1, <3>2, <3>3 DEF Watched
  <2>4. Excused(t)'
    <3>1. pc'[t] \in {"sleep", "again"} /\ f.number = INVALID_FD => fd' = INVALID_FD
      BY <1>0, <1>3, <1>10, <1>b DEF Excused, Stable
    <3>2. pc'[t] = "again" => op[t] \notin ReadOps
      BY <1>0, <1>3, <1>16 DEF Placed, At
    <3>3. f.pending => hungUp'
      BY <1>0, <1>10, <1>b DEF Excused, Stable
    <3>4. ASSUME Ended(t)', result'[t].outcome \in Errors
          PROVE  hungUp'
      <4>1. CommonAnswer(t, result'[t])
        BY <1>11, <3>4 DEF Ended
      <4>2. pc[t] \in {"first", "again"} /\ fd # INVALID_FD /\ Refused(local[t].number)
        BY <3>4, <4>1 DEF CommonAnswer, Errors
      <4>3. hungUp
        BY <1>0, <1>4, <4>2, StillPort DEF Refused, Unopened, Excused
      <4>. QED BY <1>10, <4>3 DEF Stable
    <3>. QED BY <1>3, <1>7, <1>b, <3>1, <3>2, <3>3, <3>4 DEF Excused, At
  <2>5. Good(t)'
    BY <2>1, <2>2, <2>3, <2>4 DEF Good
  <2>. QED BY <1>0, <1>2, <1>3, <1>8, <1>10, <1>12, <2>5, CallsKept
<1>. QED
  <2>1. pc'[t] = "idle" => f = NoLocals
    BY <1>3, <1>7
  <2>2. pc'[t] = "idle" => f.count = 0 /\ f.got = 0 /\ f.strays = 0 /\ f.rem = 0
                           /\ ~f.watches /\ ~f.pending
    BY <2>1 DEF NoLocals
  <2>. QED BY <1>14, <1>a, <1>b, <2>2

------------------------------------------------------------------------------
(* The steps of the native functions. *)

\* What they leave alone.
Untouched == UNCHANGED <<fileVars, break, hungUp, closeVars, fdCleaner, lock, op>>

\* How a step of a native function keeps the invariant: what matters is the call itself.
LEMMA StepKept ==
  ASSUME CallsInv, MonitorInv, NEW t \in Threads, pc[t] \notin {"idle", "enter"},
         NEW l \in Labels, pc' = [pc EXCEPT ![t] = l],
         NEW f \in Frames, local' = [local EXCEPT ![t] = f],
         Untouched, closeEvent' = closeEvent, outQueue' \in 0..OutCapacity,
         inQueue' \in 0..InCapacity, inQueue' = inQueue \/ op[t] \in ReadOps,
         result' \in Results, \A u \in Threads \ {t} : result'[u] = result[u],
         l \notin {"end", "leave"} => result'[t] = NoResult,
         Good(t)'
  PROVE  CallsInv'
<1>1. SocketTypeOK'
  BY Framed DEF Untouched, SocketTypeOK, PortTypeOK, fileVars, closeVars, Results
<1>2. TypeOK'
  <2>1. closeEvent' \in BOOLEAN /\ TypeOK
    BY DEF CallsInv, TypeOK
  <2>. QED BY <1>1, <2>1, TypeKept
<1>3. FileInv' /\ Stable
  <2>1. KeepsFile /\ Starts /\ FileInv
    BY DEF Untouched, KeepsFile, Starts, fileVars, closeVars, CallsInv
  <2>. QED BY <2>1, StepFile, KeptFile
<1>4. pc'[t] = l /\ OnlyBy(t)
  BY Framed DEF OnlyBy, Untouched
<1>5. ~Ended(t)' => result'[t] = NoResult
  BY <1>4 DEF Ended
<1>. QED BY <1>2, <1>3, <1>4, <1>5, CallsKept DEF Inside

\* How a native function ends.  With an exception pending either of the two arrives; the
\* pending one blames the device.
Answers(t, outcome, n) ==
  /\ \E l \in {"end", "leave"} : pc' = [pc EXCEPT ![t] = l]
  /\ result' \in Results
  /\ \A u \in Threads \ {t} : result'[u] = result[u]
  /\ result'[t].reported = n
  /\ result'[t].outcome = "ok" => outcome = "ok" /\ ~local[t].pending
  /\ result'[t].outcome = "timeout" => outcome = "timeout"
  /\ result'[t].outcome = "signalled" => outcome = "signalled"
  /\ result'[t].outcome \in Errors => outcome \in Errors \/ local[t].pending

LEMMA FinishAnswers ==
  ASSUME CallsInv, NEW t \in Threads, NEW outcome \in Exceptions \cup {"ok"},
         NEW n \in 0..MaxLength, Finish(t, outcome, n)
  PROVE  Answers(t, outcome, n)
<1>1. PICK o \in Thrown(t, outcome) : Deliver(t, o, n)
  BY DEF Finish
<1>2. /\ o \in Exceptions \cup {"ok"}
      /\ o = outcome \/ (local[t].pending /\ o = "interruptedIO")
      /\ o = "ok" => ~local[t].pending
  BY <1>1 DEF Thrown, Exceptions
<1>3. /\ result' \in Results
      /\ \E l \in {"end", "leave"} : pc' = [pc EXCEPT ![t] = l]
      /\ result' = [result EXCEPT ![t] = [outcome |-> Caught(op[t], o, n), reported |-> n]]
  BY <1>1, <1>2, DeliverTyped, Framed DEF Results
<1>4. Caught(op[t], o, n) \in {o, "eof"}
  BY DEF Caught
<1>5. result'[t] = [outcome |-> Caught(op[t], o, n), reported |-> n]
  BY <1>3, Framed
<1>6. \A u \in Threads \ {t} : result'[u] = result[u]
  BY <1>3, Framed
<1>7. result'[t].reported = n /\ result'[t].outcome \in {o, "eof"}
  BY <1>4, <1>5
<1>. QED BY <1>2, <1>3, <1>6, <1>7 DEF Answers, Errors

\* What read() and write() may return: no more than there is room or are bytes for; on a
\* number that names nothing, nothing.
LEMMA ResultsFit ==
  ASSUME PortTypeOK, NEW number, NEW room \in Nat,
         NEW r \in ReadResults(number, room) \cup WriteResults(number, room)
  PROVE  /\ r \in Int /\ Bytes(r) \in 0..room /\ (r >= 0 => Bytes(r) = r)
         /\ Unopened(number) => Bytes(r) = 0
<1>. USE PortAssumption DEF EIO, EBADF, EAGAIN, Bytes, Least, PortTypeOK
<1>1. CASE r \in ReadResults(number, room)
  <2>1. r \in {EBADF, EAGAIN, EIO, 0} \/ (r \in 0..room /\ ~Unopened(number))
    BY <1>1 DEF ReadResults
  <2>2. Unopened(number) => r = EBADF
    BY <1>1 DEF ReadResults
  <2>. QED BY <2>1, <2>2
<1>2. CASE r \in WriteResults(number, room)
  <2>1. r \in {EBADF, EAGAIN, EIO} \/ (r \in 0..room /\ ~Unopened(number))
    BY <1>2 DEF WriteResults
  <2>2. Unopened(number) => r = EBADF
    BY <1>2 DEF WriteResults
  <2>. QED BY <2>1, <2>2
<1>. QED BY <1>1, <1>2

LEMMA QueuesFit ==
  ASSUME PortTypeOK, NEW room \in Nat, file = "port"
  PROVE  /\ \A r \in ReadResults(PORT_FD, room)  : Bytes(r) \in 0..inQueue
         /\ \A r \in WriteResults(PORT_FD, room) : Bytes(r) \in 0..(OutCapacity - outQueue)
<1>. USE PortAssumption DEF EIO, EBADF, EAGAIN, Bytes, Least, PortTypeOK, Unopened, PORT_FD, INVALID_FD
<1>1. ASSUME NEW r \in ReadResults(PORT_FD, room) PROVE Bytes(r) \in 0..inQueue
  <2>1. r \in {EAGAIN, EIO, 0} \/ r \in 1..Least(inQueue, room)
    BY <1>1 DEF ReadResults
  <2>. QED BY <2>1
<1>2. ASSUME NEW r \in WriteResults(PORT_FD, room) PROVE Bytes(r) \in 0..(OutCapacity - outQueue)
  <2>1. r \in {EAGAIN, EIO} \/ r \in 1..Least(OutCapacity - outQueue, room)
    BY <1>2 DEF WriteResults
  <2>. QED BY <2>1
<1>. QED BY <1>1, <1>2

\* A transfer counts what it moves, and moves what it counts unless it strays.
Transferred(t, r, f) ==
  /\ f \in Frames /\ local' = [local EXCEPT ![t] = f]
  /\ f.rem + f.count <= MaxLength /\ f.got <= f.count
  /\ f.strays = 0 => f.got = f.count
  /\ f.count = local[t].count + Bytes(r)
  /\ f.strays = local[t].strays + Strays(t)

LEMMA TransferCounts ==
  ASSUME CallsInv, NEW t \in Threads, pc[t] # "idle", op[t] \in ReadOps \cup WriteOps,
         NEW r, op[t] \in ReadOps => r \in ReadResults(local[t].number, local[t].rem),
         op[t] \in WriteOps => r \in WriteResults(local[t].number, local[t].rem),
         NEW g \in Frames, g.rem = local[t].rem, g.count = local[t].count,
         g.got = local[t].got, g.strays = local[t].strays, g.number = local[t].number,
         Transfer(t, r, g)
  PROVE  \E f \in Frames :
           /\ Transferred(t, r, f)
           /\ f.number = g.number /\ f.watches = g.watches
           /\ f.looping = g.looping /\ f.pending = g.pending /\ f.named = g.named
           /\ inQueue' \in 0..InCapacity /\ outQueue' \in 0..OutCapacity
           /\ inQueue' = inQueue \/ op[t] \in ReadOps
           /\ Untouched /\ closeEvent' = closeEvent
<1>. DEFINE b == Bytes(r)
            f == [g EXCEPT !.rem    = @ - b,
                           !.count  = @ + b,
                           !.got    = IF Touches(t) THEN @ + b ELSE @,
                           !.strays = @ + Strays(t)]
<1>0. local[t] \in Frames /\ PortTypeOK /\ Counted(t) /\ FileInv
  BY Framed DEF CallsInv, Good
<1>1. local[t].rem \in Nat /\ local[t].count \in Nat /\ local[t].got \in Nat
      /\ local[t].strays \in Nat /\ local[t].number \in {PORT_FD, INVALID_FD}
  BY <1>0 DEF Frames
<1>2. /\ r \in Int /\ b \in 0..local[t].rem
      /\ Unopened(local[t].number) => b = 0
  BY <1>0, <1>1, ResultsFit
<1>3. Strays(t) \in {0, 1}
  BY DEF Strays
<1>4. local' = [local EXCEPT ![t] = f]
  BY DEF Transfer
<1>5. Touches(t) => /\ op[t] \in ReadOps => b \in 0..inQueue
                    /\ op[t] \in WriteOps => b \in 0..(OutCapacity - outQueue)
  BY <1>0, <1>1, QueuesFit DEF Touches
<1>6. ~Touches(t) /\ Strays(t) = 0 => b = 0
  BY <1>0, <1>1, <1>2 DEF Touches, Strays, Unopened, PortTypeOK
<1>7. b \in Nat
  BY <1>1, <1>2
<1>8. inQueue' \in 0..InCapacity /\ outQueue' \in 0..OutCapacity
      /\ (inQueue' = inQueue \/ op[t] \in ReadOps)
  <2>1. CASE op[t] \in ReadOps
    <3>1. inQueue' = (IF Touches(t) THEN inQueue - b ELSE inQueue) /\ outQueue' = outQueue
      BY <2>1 DEF Transfer
    <3>. HIDE DEF b
    <3>. QED BY <1>0, <1>5, <2>1, <3>1, PortAssumption DEF PortTypeOK
  <2>2. CASE op[t] \notin ReadOps
    <3>1. outQueue' = (IF Touches(t) THEN outQueue + b ELSE outQueue) /\ inQueue' = inQueue
      BY <2>2 DEF Transfer
    <3>. HIDE DEF b
    <3>. QED BY <1>0, <1>5, <2>2, <3>1, PortAssumption DEF PortTypeOK
  <2>. QED BY <2>1, <2>2
<1>9. Untouched /\ closeEvent' = closeEvent
  BY DEF Transfer, Untouched, fileVars, closeVars
<1>. HIDE DEF b
<1>10. /\ f.rem = local[t].rem - b /\ f.count = local[t].count + b
       /\ f.got = (IF Touches(t) THEN local[t].got + b ELSE local[t].got)
       /\ f.strays = local[t].strays + Strays(t)
       /\ f.number = g.number /\ f.watches = g.watches
       /\ f.looping = g.looping /\ f.pending = g.pending /\ f.named = g.named
       /\ f.written = g.written /\ f.deadline = g.deadline
  BY DEF Frames
<1>11. /\ local[t].rem - b \in 0..MaxLength /\ local[t].count + b \in 0..MaxLength
       /\ (local[t].rem - b) + (local[t].count + b) <= MaxLength
       /\ local[t].strays + Strays(t) \in Nat
       /\ local[t].got + b <= local[t].count + b /\ local[t].got <= local[t].count + b
       /\ local[t].got + b \in 0..MaxLength /\ local[t].got \in 0..MaxLength
  BY <1>0, <1>1, <1>2, <1>3, <1>7, CallAssumption DEF Counted
<1>12. f \in Frames
  BY <1>11 DEF Frames
<1>13. f.strays = 0 => f.got = f.count
  <2>1. f.strays = 0 => local[t].strays = 0 /\ Strays(t) = 0
    BY <1>1, <1>3, <1>10
  <2>. QED BY <1>0, <1>1, <1>6, <1>10, <2>1 DEF Counted
<1>. HIDE DEF f
<1>14. Transferred(t, r, f)
  BY <1>4, <1>10, <1>11, <1>12, <1>13 DEF Transferred, b
<1>. QED BY <1>8, <1>9, <1>10, <1>12, <1>14

\* The frame that a step of a native function leaves, and what it does beside.
Fine(t, f) ==
  /\ f \in Frames /\ local' = [local EXCEPT ![t] = f]
  /\ f.rem + f.count <= MaxLength /\ f.got <= f.count
  /\ f.strays = 0 => f.got = f.count
  /\ op[t] \in ReadOps /\ ~f.looping => f.count = 0
  /\ f.strays > 0 => closing = "done"
  /\ f.watches => f.strays <= 1 /\ op[t] \in Moving
  /\ f.pending => hungUp
  /\ Untouched /\ closeEvent' = closeEvent
  /\ inQueue' \in 0..InCapacity /\ outQueue' \in 0..OutCapacity
  /\ inQueue' = inQueue \/ op[t] \in ReadOps

\* A native function ends.
LEMMA EndKept ==
  ASSUME CallsInv, MonitorInv, NEW t \in Threads, pc[t] \notin {"idle", "enter"},
         NEW f, Fine(t, f), NEW outcome, NEW n, Answers(t, outcome, n),
         op[t] \notin WriteOps /\ (outcome \in Errors \/ local[t].pending)
           => hungUp \/ (file = "other" /\ op[t] \in ReadOps \cup DrainOps /\ ~f.watches),
         op[t] \in ReadOps /\ f.strays = 0 /\ outcome = "ok" /\ ~local[t].pending => n = f.got,
         op[t] \in ReadOps /\ f.strays = 0 /\ outcome = "timeout" => f.got = 0,
         op[t] \in WriteOps /\ f.strays = 0 /\ outcome = "signalled" => n = f.got
  PROVE  CallsInv'
<1>1. PICK l \in {"end", "leave"} : pc' = [pc EXCEPT ![t] = l]
  BY DEF Answers
<1>2. /\ pc'[t] = l /\ local'[t] = f /\ f \in Frames /\ local' = [local EXCEPT ![t] = f]
      /\ UNCHANGED <<op, closing, fd, file, hungUp>>
  BY <1>1, Framed DEF Fine, Untouched, fileVars, closeVars
<1>3. Placed(t)' /\ Watched(t)'
  BY <1>1, <1>2 DEF Fine, Placed, Watched, At
<1>4. Counted(t)'
  BY <1>1, <1>2 DEF Fine, Counted, Answers
<1>5. Excused(t)'
  BY <1>1, <1>2 DEF Fine, Excused, Foreign, Answers, At
<1>6. Good(t)'
  BY <1>3, <1>4, <1>5 DEF Good
<1>7. l \in Labels
  BY DEF Labels
<1>. QED BY <1>1, <1>2, <1>6, <1>7, StepKept DEF Fine, Answers

\* A native function goes on.
LEMMA GoKept ==
  ASSUME CallsInv, MonitorInv, NEW t \in Threads, pc[t] \notin {"idle", "enter", "end", "leave"},
         NEW f, Fine(t, f), NEW l \in {"first", "watch", "arm", "poll", "again"},
         Goto(t, l), result' = result,
         op[t] \in Moving \/ l = "first",
         l = "first" \/ (l = "watch" /\ op[t] \notin WriteOps)
           => f.count = 0 /\ f.got = 0 /\ f.strays = 0,
         l = "watch" \/ (l = "first" /\ op[t] \in WriteOps) => ~f.watches,
         f.watches /\ l = "again" => f.strays = 0,
         f.number = INVALID_FD => fd = INVALID_FD,
         l = "poll" /\ f.named = "other" => fd = INVALID_FD /\ file = "other",
         l = "again" /\ op[t] \in ReadOps
           => inQueue' = inQueue /\ (fd = INVALID_FD \/ inQueue > 0 \/ hungUp)
  PROVE  CallsInv'
<1>1. pc' = [pc EXCEPT ![t] = l] /\ l \in Labels
  BY DEF Goto, Labels
<1>2. /\ pc'[t] = l /\ local'[t] = f /\ f \in Frames /\ local' = [local EXCEPT ![t] = f]
      /\ UNCHANGED <<op, closing, fd, file, hungUp>>
  BY <1>1, Framed DEF Fine, Untouched, fileVars, closeVars
<1>3. Placed(t)'
  BY <1>1, <1>2 DEF Fine, Placed, At
<1>4. Counted(t)' /\ Watched(t)'
  BY <1>1, <1>2 DEF Fine, Counted, Watched, Ended
<1>5. Excused(t)'
  BY <1>1, <1>2 DEF Fine, Excused, At, Ended
<1>6. Good(t)'
  BY <1>3, <1>4, <1>5 DEF Good
<1>7. result' \in Results /\ result'[t] = NoResult /\ \A u \in Threads : result'[u] = result[u]
  BY Framed DEF CallsInv, ResultInv, Ended
<1>. QED BY <1>1, <1>2, <1>6, <1>7, StepKept DEF Fine

\* A frame that counts what the old one did.
LEMMA FineSame ==
  ASSUME CallsInv, NEW t \in Threads, NEW f \in Frames, local' = [local EXCEPT ![t] = f],
         f.rem = local[t].rem, f.count = local[t].count, f.got = local[t].got,
         f.strays = local[t].strays, f.looping = local[t].looping, f.pending = local[t].pending,
         f.watches => local[t].watches \/ (f.strays = 0 /\ op[t] \in Moving),
         UNCHANGED <<portVars, closeEvent, fdCleaner, lock, op>>
  PROVE  Fine(t, f)
<1>1. Good(t)
  BY DEF CallsInv
<1>2. Untouched /\ UNCHANGED <<closeEvent, inQueue, outQueue>>
  BY DEF Untouched, portVars, deviceVars
<1>3. inQueue' \in 0..InCapacity /\ outQueue' \in 0..OutCapacity
  BY <1>2, Framed DEF PortTypeOK
<1>. QED BY <1>1, <1>2, <1>3 DEF Fine, Good, Placed, Counted, Watched, Excused

LEMMA LoadFdGood == ASSUME NativeInv, NEW t \in Threads, LoadFd(t) PROVE CallsInv'
<1>0. CallsInv /\ MonitorInv /\ Good(t) /\ local[t] \in Frames /\ fd \in {PORT_FD, INVALID_FD}
  BY Framed DEF NativeInv, CallsInv, PortTypeOK
<1>1. PICK timed \in BOOLEAN : local' = [local EXCEPT ![t].number = fd, ![t].deadline = timed]
  <2>1. \A d \in Dir : Timed(d) \subseteq BOOLEAN
    BY DEF Timed
  <2>. QED BY <2>1 DEF LoadFd, Dir
<1>. DEFINE f == [local[t] EXCEPT !.number = fd, !.deadline = timed]
            l == IF op[t] \in ReadOps \cup DrainOps THEN "watch" ELSE "first"
<1>2. /\ pc[t] = "load" /\ Goto(t, l) /\ result' = result
      /\ UNCHANGED <<portVars, closeEvent, fdCleaner, lock, op>>
  BY DEF LoadFd, At
<1>3. /\ f \in Frames /\ local' = [local EXCEPT ![t] = f] /\ f.number = fd
      /\ f.rem = local[t].rem /\ f.count = local[t].count /\ f.got = local[t].got
      /\ f.strays = local[t].strays /\ f.looping = local[t].looping
      /\ f.pending = local[t].pending /\ f.watches = local[t].watches
  BY <1>0, <1>1 DEF Frames
<1>. HIDE DEF f
<1>4. Fine(t, f)
  BY <1>0, <1>2, <1>3, FineSame
<1>5. l \in {"first", "watch"} /\ (l = "watch" => op[t] \in Moving)
  BY DEF Moving
<1>6. f.count = 0 /\ f.got = 0 /\ f.strays = 0 /\ ~f.watches
  BY <1>0, <1>2, <1>3 DEF Good, Placed
<1>. HIDE DEF l
<1>. QED BY <1>0, <1>2, <1>3, <1>4, <1>5, <1>6, GoKept

LEMMA LoadCloseEventGood == ASSUME NativeInv, NEW t \in Threads, LoadCloseEvent(t) PROVE CallsInv'
<1>0. CallsInv /\ MonitorInv /\ Good(t) /\ local[t] \in Frames /\ closeEvent \in BOOLEAN
  BY Framed DEF NativeInv, CallsInv, TypeOK
<1>. DEFINE f == [local[t] EXCEPT !.watches = closeEvent]
            l == IF op[t] \in ReadOps THEN "first" ELSE "arm"
<1>1. /\ pc[t] = "watch" /\ Goto(t, l) /\ result' = result
      /\ UNCHANGED <<portVars, closeEvent, fdCleaner, lock, op>>
      /\ local' = [local EXCEPT ![t] = f]
  BY DEF LoadCloseEvent, At
<1>2. /\ f \in Frames /\ f.watches = closeEvent /\ f.number = local[t].number
      /\ f.rem = local[t].rem /\ f.count = local[t].count /\ f.got = local[t].got
      /\ f.strays = local[t].strays /\ f.looping = local[t].looping
      /\ f.pending = local[t].pending
  BY <1>0 DEF Frames
<1>. HIDE DEF f
<1>3. closeEvent => f.strays = 0
  <2>1. f.strays \in Nat /\ (f.strays > 0 => closing = "done")
    BY <1>0, <1>2 DEF Good, Watched, Frames
  <2>. QED BY <2>1 DEF NativeInv, EventInv
<1>4. op[t] \in Moving /\ l \in {"first", "arm"} /\ (l = "first" => op[t] \in ReadOps)
  BY <1>0, <1>1 DEF Good, Placed
<1>5. Fine(t, f)
  BY <1>0, <1>1, <1>2, <1>3, <1>4, FineSame
<1>6. op[t] \in ReadOps => op[t] \notin WriteOps
  BY DEF ReadOps, WriteOps
<1>7. l = "first" => f.count = 0 /\ f.got = 0 /\ f.strays = 0
  BY <1>0, <1>1, <1>2, <1>4, <1>6 DEF Good, Placed, At
<1>8. f.number = INVALID_FD => fd = INVALID_FD
  BY <1>0, <1>1, <1>2 DEF Good, Excused
<1>. HIDE DEF l
<1>. QED BY <1>0, <1>1, <1>4, <1>5, <1>6, <1>7, <1>8, GoKept

\* A transfer leaves a frame that counts it.
LEMMA FineTransfer ==
  ASSUME CallsInv, NEW t \in Threads, pc[t] \in {"first", "again"},
         op[t] \in ReadOps \cup WriteOps, NEW r, NEW f, Transferred(t, r, f),
         op[t] \in ReadOps /\ ~f.looping => f.count = 0,
         f.watches = local[t].watches, f.pending => hungUp,
         inQueue' \in 0..InCapacity, outQueue' \in 0..OutCapacity,
         inQueue' = inQueue \/ op[t] \in ReadOps, Untouched, closeEvent' = closeEvent
  PROVE  Fine(t, f)
<1>1. Good(t) /\ local[t].strays \in Nat /\ op[t] \in Moving
  BY Framed DEF CallsInv, Frames, Moving
<1>2. Strays(t) \in {0, 1} /\ (Strays(t) > 0 => closing = "done")
  BY StillPort DEF CallsInv
<1>3. f.strays = local[t].strays + Strays(t)
  BY DEF Transferred
<1>4. f.strays > 0 => closing = "done"
  BY <1>1, <1>2, <1>3 DEF Good, Watched
<1>5. f.watches => f.strays <= 1
  BY <1>1, <1>2, <1>3 DEF Good, Watched
<1>. QED BY <1>1, <1>4, <1>5 DEF Fine, Transferred

\* When read() fails or finds nothing while the field fd is valid, the device is to blame.
LEMMA ReadBlames ==
  ASSUME CallsInv, NEW t \in Threads, pc[t] \in {"first", "again"}, fd # INVALID_FD,
         NEW room, NEW r \in ReadResults(local[t].number, room)
  PROVE  /\ r < 0 /\ r # EAGAIN => hungUp
         /\ r <= 0 => hungUp \/ inQueue = 0
<1>1. local[t].number # INVALID_FD /\ file = "port"
  BY StillPort DEF CallsInv, Good, Excused
<1>. QED BY <1>1 DEF ReadResults, Unopened, EAGAIN, EIO

LEMMA ReadErrorIs == ReadError \in Exceptions /\ (ReadError \in Errors => fd # INVALID_FD)
                     /\ ReadError \notin {"timeout", "ok", "signalled"}
BY DEF ReadError, Exceptions, Errors

LEMMA WriteErrorIs ==
  ASSUME NEW t PROVE WriteError(t) \in Exceptions /\ WriteError(t) # "signalled"
BY DEF WriteError, Exceptions

LEMMA ReadsDoNotWrite == \A o \in ReadOps : o \notin WriteOps /\ o \in Moving
BY DEF ReadOps, WriteOps, Moving

LEMMA FirstReadGood == ASSUME NativeInv, NEW t \in Threads, FirstRead(t) PROVE CallsInv'
<1>0. /\ CallsInv /\ MonitorInv /\ Good(t) /\ local[t] \in Frames
      /\ pc[t] = "first" /\ op[t] \in ReadOps
  BY Framed DEF NativeInv, CallsInv, FirstRead, At
<1>1. PICK r \in ReadResults(local[t].number, local[t].rem), timed \in Timed("in") :
        /\ Transfer(t, r, [local[t] EXCEPT !.deadline = timed, !.looping = r > 0])
        /\ IF r < 0 /\ (fd = INVALID_FD \/ r # EAGAIN)
             THEN Finish(t, ReadError, 0)
           ELSE IF r = local[t].rem
             THEN Finish(t, "ok", r)
           ELSE Goto(t, "arm") /\ UNCHANGED result
  BY Zenon DEF FirstRead
<1>. DEFINE g == [local[t] EXCEPT !.deadline = timed, !.looping = r > 0]
<1>2. r \in Int /\ Bytes(r) \in 0..local[t].rem /\ (r >= 0 => Bytes(r) = r)
  BY <1>0, ResultsFit, Framed DEF Frames
<1>3. /\ g \in Frames /\ g.rem = local[t].rem /\ g.count = local[t].count
      /\ g.got = local[t].got /\ g.strays = local[t].strays /\ g.number = local[t].number
      /\ g.watches = local[t].watches /\ g.looping = (r > 0) /\ g.pending = local[t].pending
  <2>1. Timed("in") \subseteq BOOLEAN
    BY DEF Timed
  <2>2. timed \in BOOLEAN
    BY <2>1
  <2>3. (r > 0) \in BOOLEAN
    OBVIOUS
  <2>. QED BY <1>0, <2>2, <2>3 DEF Frames
<1>4. Transfer(t, r, g)
  BY <1>1
<1>. HIDE DEF g
<1>5. PICK f \in Frames :
        /\ Transferred(t, r, f)
        /\ f.number = g.number /\ f.watches = g.watches
        /\ f.looping = g.looping /\ f.pending = g.pending
        /\ inQueue' \in 0..InCapacity /\ outQueue' \in 0..OutCapacity
        /\ inQueue' = inQueue \/ op[t] \in ReadOps
        /\ Untouched /\ closeEvent' = closeEvent
  BY <1>0, <1>3, <1>4, TransferCounts, ReadsDoNotWrite
<1>6. local[t].count = 0 /\ local[t].rem \in 0..MaxLength /\ (local[t].pending => hungUp)
  BY <1>0 DEF Good, Placed, Excused, Frames
<1>7. f.count = Bytes(r) /\ (~f.looping => f.count = 0) /\ (f.strays = 0 => f.got = f.count)
  <2>1. f.looping = (r > 0)
    BY <1>3, <1>5
  <2>2. f.count = 0 + Bytes(r) /\ (f.strays = 0 => f.got = f.count)
    BY <1>5, <1>6 DEF Transferred
  <2>3. CASE r > 0
    <3>1. f.looping
      BY <2>1, <2>3, Zenon
    <3>. QED BY <1>2, <2>2, <3>1
  <2>4. CASE ~(r > 0)
    BY <1>2, <2>2, <2>4 DEF Bytes
  <2>. QED BY <2>3, <2>4
<1>8. Fine(t, f)
  BY <1>0, <1>3, <1>5, <1>6, <1>7, FineTransfer
<1>9. 0 \in 0..MaxLength
  BY CallAssumption
<1>10. CASE r < 0 /\ (fd = INVALID_FD \/ r # EAGAIN)
  <2>1. Answers(t, ReadError, 0)
    BY <1>0, <1>1, <1>9, <1>10, FinishAnswers, ReadErrorIs
  <2>2. ReadError \in Errors => hungUp
    BY <1>0, <1>10, ReadBlames, ReadErrorIs
  <2>. QED BY <1>0, <1>6, <1>8, <2>1, <2>2, EndKept, ReadErrorIs
<1>11. CASE ~(r < 0 /\ (fd = INVALID_FD \/ r # EAGAIN)) /\ r = local[t].rem
  <2>1. Answers(t, "ok", r)
    BY <1>0, <1>1, <1>6, <1>11, FinishAnswers
  <2>2. f.strays = 0 => r = f.got
    BY <1>2, <1>6, <1>7, <1>11
  <2>. QED BY <1>0, <1>6, <1>8, <2>1, <2>2, EndKept DEF Errors
<1>12. CASE ~(r < 0 /\ (fd = INVALID_FD \/ r # EAGAIN)) /\ r # local[t].rem
  <2>1. Goto(t, "arm") /\ result' = result
    BY <1>1, <1>12
  <2>2. f.number = INVALID_FD => fd = INVALID_FD
    BY <1>0, <1>3, <1>5 DEF Good, Excused
  <2>. QED BY <1>0, <1>8, <2>1, <2>2, GoKept, ReadsDoNotWrite
<1>. QED BY <1>10, <1>11, <1>12

LEMMA ReadAgainGood == ASSUME NativeInv, NEW t \in Threads, ReadAgain(t) PROVE CallsInv'
<1>0. /\ CallsInv /\ MonitorInv /\ Good(t) /\ local[t] \in Frames
      /\ pc[t] = "again" /\ op[t] \in ReadOps
  BY Framed DEF NativeInv, CallsInv, ReadAgain, At
<1>1. PICK r \in ReadResults(local[t].number, local[t].rem) :
        /\ Transfer(t, r, [local[t] EXCEPT
              !.looping = TRUE,
              !.pending = @ \/ ((local[t].looping /\ r = 0) /\ fd # INVALID_FD)])
        /\ IF r < 0 \/ ((local[t].looping /\ r = 0) /\ fd = INVALID_FD)
             THEN Finish(t, ReadError, 0)
           ELSE IF r = local[t].rem
             THEN Finish(t, "ok", local[t].count + r)
           ELSE Goto(t, "arm") /\ UNCHANGED result
  BY Zenon DEF ReadAgain
<1>. DEFINE pends == local[t].pending \/ ((local[t].looping /\ r = 0) /\ fd # INVALID_FD)
            g == [local[t] EXCEPT !.looping = TRUE, !.pending = pends]
<1>2. r \in Int /\ Bytes(r) \in 0..local[t].rem /\ (r >= 0 => Bytes(r) = r)
  BY <1>0, ResultsFit, Framed DEF Frames
<1>a. Transfer(t, r, g)
  BY <1>1
<1>b. (local[t].pending => hungUp) /\ (pends => hungUp) /\ pends \in BOOLEAN
  <2>1. r = 0 /\ fd # INVALID_FD => hungUp
    <3>1. r <= 0 /\ fd # INVALID_FD => hungUp \/ inQueue = 0
      BY <1>0, ReadBlames
    <3>2. fd # INVALID_FD => inQueue > 0 \/ hungUp
      BY <1>0 DEF Good, Excused, At
    <3>. QED BY <1>2, <3>1, <3>2
  <2>. QED BY <1>0, <2>1 DEF Good, Excused
<1>. HIDE DEF pends
<1>3. /\ g \in Frames /\ g.rem = local[t].rem /\ g.count = local[t].count
      /\ g.got = local[t].got /\ g.strays = local[t].strays /\ g.number = local[t].number
      /\ g.watches = local[t].watches /\ g.looping = TRUE /\ g.pending = pends
  BY <1>0, <1>b DEF Frames
<1>. HIDE DEF g
<1>5. PICK f \in Frames :
        /\ Transferred(t, r, f)
        /\ f.number = g.number /\ f.watches = g.watches
        /\ f.looping = g.looping /\ f.pending = g.pending
        /\ inQueue' \in 0..InCapacity /\ outQueue' \in 0..OutCapacity
        /\ inQueue' = inQueue \/ op[t] \in ReadOps
        /\ Untouched /\ closeEvent' = closeEvent
  BY <1>0, <1>3, <1>a, TransferCounts, ReadsDoNotWrite
<1>7. f.count = local[t].count + Bytes(r) /\ (f.strays = 0 => f.got = f.count)
  BY <1>5 DEF Transferred
<1>8. Fine(t, f)
  BY <1>0, <1>3, <1>5, <1>b, FineTransfer
<1>9. 0 \in 0..MaxLength /\ local[t].rem \in 0..MaxLength
  BY <1>0, CallAssumption DEF Frames
<1>10. CASE r < 0 \/ ((local[t].looping /\ r = 0) /\ fd = INVALID_FD)
  <2>1. Answers(t, ReadError, 0)
    BY <1>0, <1>1, <1>9, <1>10, FinishAnswers, ReadErrorIs
  <2>2. ReadError \in Errors => hungUp
    <3>1. r < 0 /\ fd # INVALID_FD => hungUp \/ inQueue = 0
      BY <1>0, <1>2, ReadBlames
    <3>2. fd # INVALID_FD => inQueue > 0 \/ hungUp
      BY <1>0 DEF Good, Excused, At
    <3>. QED BY <1>10, <3>1, <3>2, ReadErrorIs
  <2>. QED BY <1>0, <1>b, <1>8, <2>1, <2>2, EndKept, ReadErrorIs
<1>11. CASE ~(r < 0 \/ ((local[t].looping /\ r = 0) /\ fd = INVALID_FD)) /\ r = local[t].rem
  <2>0. Bytes(r) = r /\ local[t].count + r = f.count /\ f.count \in 0..MaxLength
    BY <1>2, <1>7, <1>11 DEF Frames
  <2>1. Answers(t, "ok", local[t].count + r)
    BY <1>0, <1>1, <1>11, <2>0, FinishAnswers
  <2>2. f.strays = 0 => local[t].count + r = f.got
    BY <1>7, <2>0
  <2>. QED BY <1>0, <1>b, <1>8, <2>1, <2>2, EndKept DEF Errors
<1>12. CASE ~(r < 0 \/ ((local[t].looping /\ r = 0) /\ fd = INVALID_FD)) /\ r # local[t].rem
  <2>1. Goto(t, "arm") /\ result' = result
    BY <1>1, <1>12
  <2>2. f.number = INVALID_FD => fd = INVALID_FD
    BY <1>0, <1>3, <1>5 DEF Good, Excused
  <2>. QED BY <1>0, <1>8, <2>1, <2>2, GoKept, ReadsDoNotWrite
<1>. QED BY <1>10, <1>11, <1>12

\* The two write()s differ in what they do after EAGAIN and after a part.
LEMMA WriteGood ==
  ASSUME NativeInv, NEW t \in Threads, FirstWrite(t) \/ WriteAgain(t)
  PROVE  CallsInv'
<1>0. /\ CallsInv /\ MonitorInv /\ Good(t) /\ local[t] \in Frames
      /\ pc[t] \in {"first", "again"} /\ op[t] \in WriteOps /\ op[t] \notin ReadOps
  BY Framed DEF NativeInv, CallsInv, FirstWrite, WriteAgain, At, ReadOps, WriteOps
<1>1. PICK r \in WriteResults(local[t].number, local[t].rem) :
        /\ Transfer(t, r, [local[t] EXCEPT !.written = Bytes(r)])
        /\ \/ Finish(t, WriteError(t), 0)
           \/ r = local[t].rem /\ Finish(t, "ok", r)
           \/ Goto(t, IF pc[t] = "first" THEN "watch" ELSE "arm") /\ UNCHANGED result
  <2>1. CASE FirstWrite(t)
    BY <2>1, Zenon DEF FirstWrite, At
  <2>2. CASE WriteAgain(t)
    <3>1. pc[t] = "again" /\ "again" # "first"
      BY <2>2 DEF WriteAgain, At
    <3>. QED BY <2>2, <3>1, Zenon DEF WriteAgain
  <2>. QED BY <2>1, <2>2
<1>. DEFINE g == [local[t] EXCEPT !.written = Bytes(r)]
<1>2. r \in Int /\ Bytes(r) \in 0..local[t].rem
  BY <1>0, ResultsFit, Framed DEF Frames
<1>a. Transfer(t, r, g)
  BY <1>1
<1>3. /\ g \in Frames /\ g.rem = local[t].rem /\ g.count = local[t].count
      /\ g.got = local[t].got /\ g.strays = local[t].strays /\ g.number = local[t].number
      /\ g.watches = local[t].watches /\ g.pending = local[t].pending
  <2>1. Bytes(r) \in 0..MaxLength
    BY <1>0, <1>2, CallAssumption DEF Frames
  <2>. QED BY <1>0, <2>1 DEF Frames
<1>. HIDE DEF g
<1>5. PICK f \in Frames :
        /\ Transferred(t, r, f)
        /\ f.number = g.number /\ f.watches = g.watches /\ f.pending = g.pending
        /\ inQueue' \in 0..InCapacity /\ outQueue' \in 0..OutCapacity
        /\ inQueue' = inQueue \/ op[t] \in ReadOps
        /\ Untouched /\ closeEvent' = closeEvent
  BY <1>0, <1>3, <1>a, TransferCounts
<1>6. local[t].pending => hungUp
  BY <1>0 DEF Good, Excused
<1>8. Fine(t, f)
  BY <1>0, <1>3, <1>5, <1>6, FineTransfer
<1>9. 0 \in 0..MaxLength /\ local[t].rem \in 0..MaxLength
  BY <1>0, CallAssumption DEF Frames
<1>10. CASE Finish(t, WriteError(t), 0)
  BY <1>0, <1>8, <1>9, <1>10, FinishAnswers, WriteErrorIs, EndKept
<1>11. CASE r = local[t].rem /\ Finish(t, "ok", r)
  BY <1>0, <1>8, <1>9, <1>11, FinishAnswers, EndKept
<1>12. CASE Goto(t, IF pc[t] = "first" THEN "watch" ELSE "arm") /\ UNCHANGED result
  <2>. DEFINE l == IF pc[t] = "first" THEN "watch" ELSE "arm"
  <2>1. Goto(t, l) /\ result' = result /\ l \in {"watch", "arm"} /\ (l = "watch" => pc[t] = "first")
    BY <1>12
  <2>. HIDE DEF l
  <2>2. f.number = INVALID_FD => fd = INVALID_FD
    BY <1>0, <1>3, <1>5 DEF Good, Excused
  <2>3. l = "watch" => ~f.watches
    BY <1>0, <1>3, <1>5, <2>1 DEF Good, Placed, At
  <2>4. op[t] \in Moving
    BY <1>0 DEF Moving
  <2>. QED BY <1>0, <1>8, <2>1, <2>2, <2>3, <2>4, GoKept
<1>. QED BY <1>1, <1>10, <1>11, <1>12

LEMMA ArmGood == ASSUME NativeInv, NEW t \in Threads, Arm(t) PROVE CallsInv'
<1>0. /\ CallsInv /\ MonitorInv /\ Good(t) /\ local \in [Threads -> Frames] /\ local[t] \in Frames
      /\ pc[t] = "arm" /\ op[t] \in Moving
      /\ UNCHANGED <<portVars, closeEvent, fdCleaner, lock, op>>
  BY Framed DEF NativeInv, CallsInv, Arm, At, Good, Placed
<1>1. local[t].pending => hungUp
  BY <1>0 DEF Good, Excused
<1>2. CASE local' = [local EXCEPT ![t].named = file] /\ Goto(t, "poll") /\ result' = result
  <2>. DEFINE f == [local[t] EXCEPT !.named = file]
  <2>1. file \in {"port", "free", "other"}
    BY <1>0, Framed DEF PortTypeOK
  <2>2. /\ f \in Frames /\ f.named = file /\ f.number = local[t].number
        /\ f.watches = local[t].watches
        /\ f.rem = local[t].rem /\ f.count = local[t].count /\ f.got = local[t].got
        /\ f.strays = local[t].strays /\ f.looping = local[t].looping
        /\ f.pending = local[t].pending
    BY <1>0, <2>1 DEF Frames
  <2>3. local' = [local EXCEPT ![t] = f]
    BY <1>2
  <2>. HIDE DEF f
  <2>4. Fine(t, f)
    BY <1>0, <2>2, <2>3, FineSame
  <2>5. f.named = "other" => fd = INVALID_FD /\ file = "other"
    BY <1>0, <2>2, StillPort DEF CallsInv
  <2>6. f.number = INVALID_FD => fd = INVALID_FD
    BY <1>0, <2>2 DEF Good, Excused
  <2>. QED BY <1>0, <1>2, <2>4, <2>5, <2>6, GoKept
<1>3. CASE /\ local' = local
           /\ \/ op[t] \in ReadOps /\ local[t].looping /\ Finish(t, "ok", local[t].count)
              \/ op[t] \in WriteOps /\ Finish(t, "timeout", local[t].written)
  <2>1. Fine(t, local[t])
    <3>1. local' = [local EXCEPT ![t] = local[t]]
      BY <1>0, <1>3
    <3>. QED BY <1>0, <3>1, FineSame
  <2>2. CASE op[t] \in ReadOps /\ Finish(t, "ok", local[t].count)
    <3>1. local[t].count \in 0..MaxLength
      BY <1>0 DEF Frames
    <3>2. Answers(t, "ok", local[t].count)
      BY <1>0, <2>2, <3>1, FinishAnswers
    <3>3. local[t].strays = 0 => local[t].count = local[t].got
      BY <1>0 DEF Good, Counted
    <3>. QED BY <1>0, <1>1, <2>1, <2>2, <3>2, <3>3, EndKept DEF Errors
  <2>3. CASE op[t] \in WriteOps /\ Finish(t, "timeout", local[t].written)
    <3>1. local[t].written \in 0..MaxLength /\ op[t] \notin ReadOps
      BY <1>0, <2>3 DEF Frames, ReadOps, WriteOps
    <3>2. Answers(t, "timeout", local[t].written)
      BY <1>0, <2>3, <3>1, FinishAnswers DEF Exceptions
    <3>. QED BY <1>0, <1>1, <2>1, <2>3, <3>1, <3>2, EndKept
  <2>. QED BY <1>3, <2>2, <2>3
<1>. QED BY <1>2, <1>3 DEF Arm

\* What a poll may find.
LEMMA PollFinds ==
  ASSUME NativeInv, NEW t \in Threads, pc[t] = "poll", NEW event \in PollEvents(t)
  PROVE  /\ event \in {"close", "signal", "timeout", "invalid", "hangUp", "unexpected", "ready"}
         /\ event \in {"hangUp", "unexpected"}
              => hungUp \/ (fd = INVALID_FD /\ file = "other" /\ ~local[t].watches)
         /\ event = "ready" => /\ local[t].watches => local[t].strays = 0
                               /\ op[t] \in ReadOps => fd = INVALID_FD \/ inQueue > 0
<1>0. Good(t) /\ local[t] \in Frames
  BY Framed DEF NativeInv, CallsInv
<1>. DEFINE finds == PortReports(DirOf(op[t]), local[t].named, Finite(t))
<1>1. event \in {"close", "signal", "timeout"} \/ (event \in finds /\ ~(local[t].watches /\ cancel["in"]))
  BY DEF PollEvents
<1>2. event \in finds => event \in {"timeout", "invalid", "hangUp", "unexpected", "ready"}
  BY DEF PortReports
<1>3. event \in finds /\ event \in {"hangUp", "unexpected"} => hungUp \/ local[t].named = "other"
  BY DEF PortReports
<1>4. event \in finds /\ event = "ready"
        => local[t].named = "other" \/ (op[t] \in ReadOps => inQueue > 0)
  BY DEF PortReports, DirOf
<1>. HIDE DEF finds
<1>5. local[t].watches /\ local[t].strays # 0 => cancel["in"]
  <2>1. local[t].strays \in Nat
    BY <1>0 DEF Frames
  <2>. QED BY <1>0, <2>1 DEF Good, Watched, NativeInv, WokenInv
<1>6. local[t].named = "other" => fd = INVALID_FD /\ file = "other"
  BY <1>0 DEF Good, Excused, At
<1>7. local[t].named = "other" /\ local[t].watches => cancel["in"]
  <2>1. file = "other" => closing = "done"
    BY <1>0, <1>6 DEF NativeInv, CallsInv, FileInv
  <2>. QED BY <1>6, <2>1 DEF NativeInv, WokenInv
<1>. QED BY <1>1, <1>2, <1>3, <1>4, <1>5, <1>6, <1>7

LEMMA PollPortGood == ASSUME NativeInv, NEW t \in Threads, PollPort(t) PROVE CallsInv'
<1>0. /\ CallsInv /\ MonitorInv /\ Good(t) /\ local[t] \in Frames
      /\ pc[t] = "poll" /\ op[t] \in Moving
      /\ UNCHANGED <<portVars, closeEvent, fdCleaner, lock, op>>
  BY Framed DEF NativeInv, CallsInv, PollPort, At, Good, Placed
<1>1. local[t].pending => hungUp
  BY <1>0 DEF Good, Excused
<1>2. PICK event \in PollEvents(t) :
        IF event = "ready"
          THEN Goto(t, "again") /\ UNCHANGED result
          ELSE Finish(t, PollOutcome(t, event), PollReported(t, event))
  BY Zenon DEF PollPort
<1>. DEFINE f == [local[t] EXCEPT !.named = "port"]
<1>3. local' = [local EXCEPT ![t] = f]
  BY DEF PollPort
<1>4. /\ f \in Frames /\ f.number = local[t].number /\ f.watches = local[t].watches
      /\ f.rem = local[t].rem /\ f.count = local[t].count /\ f.got = local[t].got
      /\ f.strays = local[t].strays /\ f.looping = local[t].looping
      /\ f.pending = local[t].pending
  BY <1>0 DEF Frames
<1>. HIDE DEF f
<1>5. Fine(t, f)
  BY <1>0, <1>3, <1>4, FineSame
<1>6. CASE event = "ready"
  <2>1. Goto(t, "again") /\ result' = result /\ inQueue' = inQueue
    BY <1>0, <1>2, <1>6 DEF portVars, deviceVars
  <2>2. f.watches => f.strays = 0
    BY <1>0, <1>4, <1>6, PollFinds
  <2>3. op[t] \in ReadOps => fd = INVALID_FD \/ inQueue > 0
    BY <1>0, <1>6, PollFinds
  <2>4. f.number = INVALID_FD => fd = INVALID_FD
    BY <1>0, <1>4 DEF Good, Excused
  <2>. QED BY <1>0, <1>5, <2>1, <2>2, <2>3, <2>4, GoKept
<1>7. CASE event # "ready"
  <2>. DEFINE o == PollOutcome(t, event)
              n == PollReported(t, event)
  <2>1. Finish(t, o, n)
    BY <1>2, <1>7
  <2>2. /\ event \in {"close", "signal", "timeout", "invalid", "hangUp", "unexpected"}
        /\ event \in {"hangUp", "unexpected"}
             => hungUp \/ (fd = INVALID_FD /\ file = "other" /\ ~f.watches)
    BY <1>0, <1>4, <1>7, PollFinds
  <2>3. /\ o \in Exceptions \cup {"ok"}
        /\ o \in Errors => event \in {"hangUp", "unexpected"}
        /\ o = "ok" => event = "timeout"
        /\ o = "timeout" => ~(op[t] \in ReadOps /\ local[t].looping)
        /\ o = "signalled" => event = "signal"
    BY <2>2 DEF PollOutcome, Unexpected, throw_ClosedOrNativeException, Exceptions, Errors
  <2>4. /\ n \in 0..MaxLength
        /\ event = "timeout" \/ (event = "signal" /\ op[t] \in WriteOps) => n = local[t].count
    BY <1>0, CallAssumption DEF Frames, PollReported
  <2>. HIDE DEF o, n
  <2>5. Answers(t, o, n)
    BY <1>0, <2>1, <2>3, <2>4, FinishAnswers
  <2>6. f.strays = 0 /\ o = "ok" => n = f.got
    BY <1>0, <1>4, <2>3, <2>4 DEF Good, Counted
  <2>7. op[t] \in ReadOps /\ f.strays = 0 /\ o = "timeout" => f.got = 0
    BY <1>0, <1>4, <2>3 DEF Good, Counted
  <2>8. op[t] \in WriteOps /\ f.strays = 0 /\ o = "signalled" => n = f.got
    BY <1>0, <1>4, <2>3, <2>4 DEF Good, Counted
  <2>9. op[t] \notin WriteOps => op[t] \in ReadOps \cup DrainOps
    BY <1>0 DEF Moving
  <2>. QED BY <1>0, <1>1, <1>5, <2>2, <2>3, <2>5, <2>6, <2>7, <2>8, <2>9, EndKept
<1>. QED BY <1>6, <1>7

LEMMA DrainGood == ASSUME NativeInv, NEW t \in Threads, Drain(t) PROVE CallsInv'
<1>0. /\ CallsInv /\ MonitorInv /\ Good(t) /\ local[t] \in Frames /\ PortTypeOK
      /\ pc[t] = "again" /\ op[t] \in Moving \ (ReadOps \cup WriteOps)
      /\ UNCHANGED <<portVars, closeEvent, fdCleaner, lock, op>>
  BY Framed DEF NativeInv, CallsInv, Drain, At, Moving, ReadOps, WriteOps, DrainOps
<1>. DEFINE f == [local[t] EXCEPT !.strays = @ + Strays(t)]
<1>2. local' = [local EXCEPT ![t] = f]
  BY DEF Drain
<1>3. /\ Strays(t) \in {0, 1} /\ local[t].strays \in Nat /\ (Strays(t) > 0 => closing = "done")
      /\ fd # INVALID_FD => file = "port"
  BY <1>0, StillPort DEF CallsInv, Frames
<1>4. /\ f \in Frames /\ f.watches = local[t].watches
      /\ f.rem = local[t].rem /\ f.count = local[t].count /\ f.got = local[t].got
      /\ f.strays = local[t].strays + Strays(t) /\ f.looping = local[t].looping
      /\ f.pending = local[t].pending
  <2>1. local[t].strays + Strays(t) \in Nat
    BY <1>3
  <2>. QED BY <1>0, <2>1 DEF Frames
<1>5. ASSUME NEW r \in IoctlResults(local[t].number), r # 0, fd # INVALID_FD PROVE hungUp
  <2>1. fd # INVALID_FD => local[t].number # INVALID_FD
    BY <1>0 DEF Good, Excused
  <2>. QED BY <1>3, <1>5, <2>1 DEF IoctlResults, Unopened
<1>6. PICK o \in Exceptions \cup {"ok"} : Finish(t, o, 0) /\ (o \in Errors => hungUp)
  <2>1. CASE Finish(t, IF fd = INVALID_FD THEN "portClosed" ELSE "signalled", 0)
    BY <2>1 DEF Errors, Exceptions
  <2>2. CASE \E r \in IoctlResults(local[t].number) :
               Finish(t, IF r = 0 THEN "ok" ELSE throw_ClosedOrNativeException, 0)
    <3>1. PICK r \in IoctlResults(local[t].number) :
            Finish(t, IF r = 0 THEN "ok" ELSE throw_ClosedOrNativeException, 0)
      BY <2>2
    <3>2. r # 0 /\ fd # INVALID_FD => hungUp
      BY <1>5
    <3>. QED BY <3>1, <3>2 DEF Errors, Exceptions, throw_ClosedOrNativeException
  <2>. QED BY <2>1, <2>2 DEF Drain
<1>. HIDE DEF f
<1>7. Fine(t, f)
  <2>1. Untouched /\ UNCHANGED <<closeEvent, inQueue, outQueue>>
    BY <1>0 DEF Untouched, portVars, deviceVars
  <2>2. inQueue' \in 0..InCapacity /\ outQueue' \in 0..OutCapacity
    BY <1>0, <2>1 DEF PortTypeOK
  <2>3. f.strays = 0 => local[t].strays = 0
    BY <1>3, <1>4
  <2>4. (f.strays > 0 => closing = "done") /\ (f.watches => f.strays <= 1)
    BY <1>0, <1>3, <1>4 DEF Good, Watched
  <2>. QED BY <1>0, <1>2, <1>4, <2>1, <2>2, <2>3, <2>4 DEF Fine, Good, Counted, Excused
<1>8. Answers(t, o, 0)
  <2>1. 0 \in 0..MaxLength
    BY CallAssumption
  <2>. QED BY <1>0, <1>6, <2>1, FinishAnswers
<1>9. local[t].pending => hungUp
  BY <1>0 DEF Good, Excused
<1>. QED BY <1>0, <1>6, <1>7, <1>8, <1>9, EndKept

LEMMA AwokenGood == ASSUME NativeInv, NEW t \in Threads, Awoken(t) PROVE CallsInv'
<1>0. /\ CallsInv /\ MonitorInv /\ Good(t) /\ local \in [Threads -> Frames] /\ local[t] \in Frames
      /\ pc[t] = "sleep" /\ op[t] = "sendBreak" /\ local' = local
      /\ UNCHANGED <<portVars, closeEvent, fdCleaner, lock, op>>
  BY Framed DEF NativeInv, CallsInv, Awoken, At, Good, Placed
<1>1. Fine(t, local[t])
  <2>1. local' = [local EXCEPT ![t] = local[t]]
    BY <1>0
  <2>. QED BY <1>0, <2>1, FineSame
<1>2. Answers(t, "runtime", 0)
  <2>1. 0 \in 0..MaxLength /\ Finish(t, "runtime", 0)
    BY CallAssumption DEF Awoken
  <2>. QED BY <1>0, <2>1, FinishAnswers DEF Exceptions
<1>3. (local[t].pending => hungUp) /\ op[t] \notin ReadOps
  BY <1>0 DEF Good, Excused, ReadOps
<1>. QED BY <1>0, <1>1, <1>2, <1>3, EndKept DEF Errors

\* Steps that touch no call; the queue is emptied only when the field fd is invalid.
LEMMA QuietGood ==
  ASSUME CallsInv, UNCHANGED <<pc, op, local, result>>, closeEvent' \in BOOLEAN,
         SocketTypeOK', FileInv', Stable,
         fd # INVALID_FD /\ inQueue > 0 => inQueue' > 0
  PROVE  CallsInv'
<1>1. TypeOK' /\ ResultInv'
  BY DEF CallsInv, TypeOK, ResultInv, Ended
<1>2. \A u \in Threads : Good(u)'
  BY KeptGood DEF CallsInv
<1>. QED BY <1>1, <1>2 DEF CallsInv

LEMMA CloseGood == ASSUME NativeInv, close0 PROVE CallsInv'
<1>. USE DEF fileVars, deviceVars, callVars
<1>0. CallsInv /\ SocketTypeOK /\ FileInv /\ closeEvent \in BOOLEAN
  BY Framed DEF NativeInv, CallsInv, TypeOK
<1>a. ASSUME UNCHANGED <<pc, op, local, result>>, closeEvent' \in BOOLEAN,
             SocketTypeOK', FileInv', Stable,
             inQueue' = inQueue \/ fd = INVALID_FD
      PROVE  CallsInv'
  BY <1>0, <1>a, QuietGood
<1>1. CASE Mark /\ UNCHANGED <<callVars, closeEvent>>
  <2>1. SocketTypeOK'
    BY <1>0, <1>1 DEF Mark, SocketTypeOK, PortTypeOK
  <2>2. FileInv' /\ Stable
    BY <1>0, <1>1 DEF Mark, FileInv, Stable
  <2>. QED BY <1>0, <1>1, <1>a, <2>1, <2>2 DEF Mark
<1>2. CASE WakePolls \/ ForgetEvent
  <2>1. SocketTypeOK'
    BY <1>0, <1>2 DEF WakePolls, ForgetEvent, SocketTypeOK, PortTypeOK
  <2>2. FileInv' /\ Stable
    BY <1>0, <1>2 DEF WakePolls, ForgetEvent, FileInv, Stable
  <2>3. UNCHANGED <<pc, op, local, result, inQueue>> /\ closeEvent' \in BOOLEAN
    BY <1>0, <1>2 DEF WakePolls, ForgetEvent
  <2>. QED BY <1>a, <2>1, <2>2, <2>3
<1>3. CASE FlushQueues
  <2>1. SocketTypeOK'
    BY <1>0, <1>3, PortAssumption DEF FlushQueues, SocketTypeOK, PortTypeOK
  <2>2. FileInv' /\ Stable /\ fd = INVALID_FD
    BY <1>0, <1>3 DEF FlushQueues, FileInv, Stable
  <2>. QED BY <1>0, <1>3, <1>a, <2>1, <2>2 DEF FlushQueues
<1>4. CASE CloseFd
  <2>1. SocketTypeOK'
    BY <1>0, <1>4 DEF CloseFd, Release, SocketTypeOK, PortTypeOK
  <2>2. FileInv' /\ Stable
    BY <1>0, <1>4 DEF CloseFd, Release, FileInv, Stable, PORT_FD, INVALID_FD
  <2>. QED BY <1>0, <1>4, <1>a, <2>1, <2>2 DEF CloseFd, Release
<1>. QED BY <1>1, <1>2, <1>3, <1>4 DEF close0

LEMMA RestGood ==
  ASSUME NativeInv, \/ closeFds /\ UNCHANGED closeEvent
                    \/ Others /\ UNCHANGED <<callVars, closeEvent>>
  PROVE  CallsInv'
<1>0. CallsInv /\ SocketTypeOK /\ FileInv /\ closeEvent \in BOOLEAN /\ PortTypeOK
  BY Framed DEF NativeInv, CallsInv, TypeOK
<1>1. FileInv'
  BY <1>0, OthersFile
<1>2. CASE closeFds /\ UNCHANGED closeEvent
  <2>1. SocketTypeOK'
    BY <1>0, <1>2 DEF closeFds, deviceVars, closeVars, SocketTypeOK, PortTypeOK
  <2>2. Stable
    BY <1>2 DEF closeFds, deviceVars, closeVars, Stable, At
  <2>. QED BY <1>0, <1>1, <1>2, <2>1, <2>2, QuietGood DEF closeFds, deviceVars
<1>3. CASE Others /\ UNCHANGED <<callVars, closeEvent>>
  <2>1. /\ PortTypeOK' /\ fd' = fd /\ Starts
        /\ hungUp => hungUp'
        /\ file = "other" => file' = "other"
    BY <1>0, <1>3, OthersTyped
  <2>2. SocketTypeOK'
    BY <1>0, <1>3, <2>1 DEF SocketTypeOK, callVars
  <2>3. Stable
    BY <1>0, <2>1 DEF FileInv, Starts, Stable
  <2>4. inQueue > 0 => inQueue' > 0
    <3>1. inQueue' = inQueue \/ inQueue' = inQueue + 1
      BY <1>3 DEF Others, Close, Interrupt, Environment, Receive, Transmit, Unplug, ReuseNumber, deviceVars
    <3>. QED BY <1>0, <3>1, PortAssumption DEF PortTypeOK
  <2>. QED BY <1>0, <1>1, <1>3, <2>2, <2>3, <2>4, QuietGood DEF callVars
<1>. QED BY <1>2, <1>3

LEMMA NextGood == ASSUME NativeInv, [Next]_vars PROVE CallsInv'
<1>1. ASSUME NEW t \in Threads, Call(t, NoLocals), UNCHANGED closeEvent PROVE CallsInv'
  BY <1>1, CallGood
<1>2. ASSUME NEW t \in Threads, Step(t) PROVE CallsInv'
  <2>1. CASE CommonStep(t, NoLocals) /\ UNCHANGED closeEvent
    BY <2>1, CommonGood
  <2>2. CASE LoadFd(t) \/ LoadCloseEvent(t) \/ FirstRead(t) \/ ReadAgain(t)
    BY <2>2, LoadFdGood, LoadCloseEventGood, FirstReadGood, ReadAgainGood
  <2>3. CASE FirstWrite(t) \/ WriteAgain(t) \/ Drain(t) \/ Awoken(t)
    BY <2>3, WriteGood, DrainGood, AwokenGood
  <2>4. CASE Arm(t) \/ PollPort(t)
    BY <2>4, ArmGood, PollPortGood
  <2>. QED BY <1>2, <2>1, <2>2, <2>3, <2>4 DEF Step
<1>3. CASE close0
  BY <1>3, CloseGood
<1>4. CASE (closeFds /\ UNCHANGED closeEvent) \/ (Others /\ UNCHANGED <<callVars, closeEvent>>)
  BY <1>4, RestGood
<1>5. CASE UNCHANGED vars
  <2>1. UNCHANGED <<portVars, callVars, closeEvent>>
    BY <1>5 DEF vars, socketVars
  <2>2. CallsInv /\ closeEvent \in BOOLEAN
    BY DEF NativeInv, CallsInv, TypeOK
  <2>3. SocketTypeOK'
    BY <2>1, <2>2, Framed DEF SocketTypeOK, PortTypeOK, portVars, fileVars, deviceVars, closeVars, callVars
  <2>4. FileInv' /\ Stable
    BY <2>1, <2>2 DEF CallsInv, FileInv, Stable, portVars, fileVars, deviceVars, closeVars, callVars
  <2>. QED BY <2>1, <2>2, <2>3, <2>4, QuietGood DEF callVars, portVars, deviceVars
<1>. QED BY <1>1, <1>2, <1>3, <1>4, <1>5 DEF Next

\* Only close0 forgets the event, and it does so before it goes on.
LEMMA NextEvent == ASSUME EventInv, [Next]_vars PROVE EventInv'
<1>. USE DEF EventInv, portVars, fileVars, deviceVars, closeVars, callVars, socketVars
<1>1. CASE UNCHANGED vars
  BY <1>1 DEF vars
<1>2. ASSUME NEW t \in Threads, Call(t, NoLocals), UNCHANGED closeEvent PROVE EventInv'
  BY <1>2 DEF Call
<1>3. ASSUME NEW t \in Threads, Step(t) PROVE EventInv'
  <2>1. Starts
    BY <1>3, NativeSteps
  <2>2. UNCHANGED closeEvent
    BY <1>3 DEF Step, LoadFd, LoadCloseEvent, FirstRead, FirstWrite, Arm, PollPort, ReadAgain,
                WriteAgain, Drain, Awoken, Transfer
  <2>. QED BY <2>1, <2>2 DEF Starts
<1>4. CASE close0
  BY <1>4 DEF close0, Mark, WakePolls, FlushQueues, ForgetEvent, CloseFd, Release
<1>5. CASE closeFds /\ UNCHANGED closeEvent
  BY <1>5 DEF closeFds
<1>6. CASE Others /\ UNCHANGED <<callVars, closeEvent>>
  <2>1. CASE Close
    BY <1>6, <2>1 DEF Close, StartClosing
  <2>2. ASSUME NEW t \in Threads, Interrupt(t) PROVE EventInv'
    BY <1>6, <2>2 DEF Interrupt, StartClosing
  <2>3. CASE Environment
    BY <1>6, <2>3 DEF Environment, Receive, Transmit, Unplug, ReuseNumber
  <2>. QED BY <1>6, <2>1, <2>2, <2>3 DEF Others
<1>. QED BY <1>1, <1>2, <1>3, <1>4, <1>5, <1>6 DEF Next

LEMMA NextNative == NativeInv /\ [Next]_vars => NativeInv'
BY NextGood, NextEvent, NextWoken, NextChannel DEF NativeInv

LEMMA InitNative == Init => NativeInv
<1>. SUFFICES ASSUME Init PROVE NativeInv
  OBVIOUS
<1>1. /\ SocketInit(NoLocals) /\ closeEvent = TRUE /\ closing = "open"
      /\ \A t \in Threads : pc[t] = "idle" /\ local[t] = NoLocals /\ result[t] = NoResult
  BY DEF Init, SocketInit, PortInit
<1>2. SocketTypeOK /\ MonitorInv /\ FileInv
  BY <1>1, NewFrame, InitTyped, InitChannel, InitFile
<1>3. pc \in [Threads -> Labels] /\ local \in [Threads -> Frames]
  BY FreshFrame DEF Init, SocketInit, Labels
<1>4. TypeOK
  BY <1>1, <1>2, <1>3 DEF TypeOK, Frames
<1>5. \A t \in Threads : Good(t)
  <2>. TAKE t \in Threads
  <2>1. /\ pc[t] = "idle" /\ local[t].count = 0 /\ local[t].got = 0 /\ local[t].strays = 0
        /\ local[t].rem = 0 /\ ~local[t].watches /\ ~local[t].pending
    BY <1>1 DEF NoLocals
  <2>2. Placed(t) /\ Counted(t)
    BY <2>1, CallAssumption DEF Placed, Counted, At, Ended
  <2>3. Watched(t) /\ Excused(t)
    BY <2>1 DEF Watched, Excused, At, Ended
  <2>. QED BY <2>2, <2>3 DEF Good
<1>6. ResultInv /\ EventInv /\ WokenInv
  BY <1>1 DEF ResultInv, EventInv, WokenInv
<1>. QED BY <1>2, <1>4, <1>5, <1>6 DEF NativeInv, CallsInv

LEMMA SpecNative == Spec => []NativeInv
BY InitNative, NextNative, PTL DEF Spec

\* Every variable keeps its type: no transfer counts more bytes than its buffer has room for.
THEOREM TypeCorrect == Spec => []TypeOK
<1>1. NativeInv => TypeOK
  BY DEF NativeInv, CallsInv
<1>. QED BY <1>1, SpecNative, PTL

\* A read, a drain, a break or a count reports a close as an error of the device only where
\* it polls, without the close event, a number that names another file: not when a call on
\* the number fails, whatever it names, and not from a poll that watches the event.
THEOREM CloseReported == Spec => []CloseNotMisreported
<1>1. NativeInv => CloseNotMisreported
  BY DEF NativeInv, CallsInv, Good, Excused, Foreign, Errors, CloseNotMisreported, Decided, Answer, EndOutcome, At, Ended
<1>. QED BY <1>1, SpecNative, PTL

\* A read returns the number of bytes it has moved, in however many pieces, and one that
\* times out has moved none; a write that a signal ends reports what it has moved.
THEOREM ReadsReported == Spec => []ReportedBytes
<1>1. NativeInv => ReportedBytes
  BY DEF NativeInv, CallsInv, Good, Counted, ReportedBytes, Decided, Answer, EndOutcome, At, Ended
<1>. QED BY <1>1, SpecNative, PTL

\* A call that has copied the close event makes at most one system call on a number that
\* names another file: the next poll sends it home.
THEOREM OneStrayCall == Spec => []AtMostOneStrayCall
<1>1. NativeInv => AtMostOneStrayCall
  BY DEF NativeInv, CallsInv, Good, Watched, AtMostOneStrayCall
<1>. QED BY <1>1, SpecNative, PTL

------------------------------------------------------------------------------
(* The break. *)

LEMMA NativeBreak == ASSUME NativeInv, BreakInv, NEW t \in Threads, Step(t) PROVE BreakInv'
<1>0. /\ CallsInv /\ MonitorInv /\ ShapeInv /\ SocketTypeOK /\ ResultInv
      /\ local \in [Threads -> Frames] /\ Good(t)
  BY Framed DEF NativeInv, CallsInv, MonitorInv
<1>1. CASE CommonStep(t, NoLocals)
  <2>1. FramesOK
    BY <1>0 DEF FramesOK, Frames
  <2>. QED BY <1>0, <1>1, <2>1, CommonBreak
<1>2. CASE InnerStep(t)
  <2>1. Inner(t)
    BY <1>0, <1>2, InnerSteps
  <2>2. UNCHANGED break
    BY <1>2 DEF InnerStep, LoadFd, LoadCloseEvent, FirstRead, FirstWrite, Arm, PollPort, ReadAgain,
                WriteAgain, Drain, Awoken, Transfer, portVars, deviceVars
  <2>3. \A u \in Threads \ {t} : result'[u] = result[u]
    <3>a. ASSUME NEW o, NEW n, Finish(t, o, n) PROVE \A u \in Threads \ {t} : result'[u] = result[u]
      BY <3>a, <1>0 DEF Finish, Deliver, SocketTypeOK
    <3>1. CASE LoadFd(t) \/ LoadCloseEvent(t)
      BY <3>1 DEF LoadFd, LoadCloseEvent
    <3>2. CASE FirstRead(t) \/ ReadAgain(t)
      BY <3>2, <3>a, Zenon DEF FirstRead, ReadAgain
    <3>3. CASE FirstWrite(t) \/ WriteAgain(t)
      BY <3>3, <3>a, Zenon DEF FirstWrite, WriteAgain
    <3>4. CASE Arm(t) \/ PollPort(t)
      BY <3>4, <3>a, Zenon DEF Arm, PollPort
    <3>5. CASE Drain(t) \/ Awoken(t)
      BY <3>5, <3>a, Zenon DEF Drain, Awoken
    <3>. QED BY <1>2, <3>1, <3>2, <3>3, <3>4, <3>5 DEF InnerStep
  <2>4. op[t] = "sendBreak" => pc'[t] \notin {"sleep", "again"} /\ (Ended(t)' => result'[t].outcome # "ok")
    <3>. SUFFICES ASSUME op[t] = "sendBreak"
                  PROVE  pc'[t] \notin {"sleep", "again"} /\ (Ended(t)' => result'[t].outcome # "ok")
      OBVIOUS
    <3>1. op[t] \notin Moving
      BY DEF Moving, ReadOps, WriteOps, DrainOps
    <3>2. LoadFd(t) \/ Awoken(t)
      BY <1>0, <1>2, <3>1 DEF InnerStep, LoadCloseEvent, FirstRead, FirstWrite, Arm, PollPort, ReadAgain,
                WriteAgain, Drain, Good, Placed, At, Moving
    <3>3. CASE LoadFd(t)
      BY <1>0, <3>1, <3>3 DEF LoadFd, Goto, Moving, ShapeInv, Ended
    <3>4. CASE Awoken(t)
      <4>1. 0 \in 0..MaxLength /\ Finish(t, "runtime", 0)
        BY <3>4, CallAssumption DEF Awoken
      <4>2. Answers(t, "runtime", 0)
        BY <1>0, <4>1, FinishAnswers DEF Exceptions
      <4>. QED BY <1>0, <4>2 DEF Answers, ShapeInv
    <3>. QED BY <3>2, <3>3, <3>4
  <2>. QED BY <2>1, <2>2, <2>3, <2>4, OtherBreak DEF Inner
<1>. QED BY <1>1, <1>2 DEF Step, InnerStep

LEMMA NextBreak == ASSUME NativeInv, BreakInv, [Next]_vars PROVE BreakInv'
<1>. USE DEF portVars, fileVars, deviceVars, callVars
<1>0. DOMAIN pc = Threads /\ SocketTypeOK
  BY Framed DEF NativeInv
<1>a. ASSUME UNCHANGED <<pc, op, local, result, break>>, file # "port" => file' # "port"
      PROVE  BreakInv'
  BY <1>a, OtherBreak
<1>1. ASSUME NEW t \in Threads, Call(t, NoLocals) PROVE BreakInv'
  BY <1>0, <1>1, CallBreak
<1>2. ASSUME NEW t \in Threads, Step(t) PROVE BreakInv'
  BY <1>2, NativeBreak
<1>3. CASE close0
  BY <1>3, <1>a DEF close0, Mark, WakePolls, FlushQueues, ForgetEvent, CloseFd, Release
<1>4. CASE closeFds
  BY <1>4, <1>a DEF closeFds
<1>5. CASE Others /\ UNCHANGED callVars
  <2>1. UNCHANGED break /\ (file' = file \/ (file = "free" /\ file' = "other"))
    BY <1>0, <1>5, OthersTyped DEF SocketTypeOK
  <2>. QED BY <1>5, <1>a, <2>1
<1>6. CASE UNCHANGED vars
  BY <1>6, <1>a DEF vars, socketVars
<1>. QED BY <1>1, <1>2, <1>3, <1>4, <1>5, <1>6 DEF Next

\* While sendBreak sleeps the line is in the break state, and when it returns normally the
\* break is over, whoever else sets or ends a break.  (A signal ends the sleep with an
\* exception, and leaves the break on.)
THEOREM BreakHeld == Spec => []BreakHeldAndEnded
<1>1. Init => BreakInv
  BY DEF Init, SocketInit, PortInit, BreakInv
<1>2. NativeInv /\ BreakInv /\ [Next]_vars => BreakInv'
  BY NextBreak
<1>3. BreakInv => BreakHeldAndEnded
  BY BreakIsHeld
<1>. QED BY <1>1, <1>2, <1>3, SpecNative, PTL DEF Spec
==============================================================================
