-------------------- MODULE AbstractSerialPortSocketProofs --------------------
(***************************************************************************)
(* What the proofs about the POSIX and the Windows socket of the JNI       *)
(* provider share: the types and the effects of the steps that both have,  *)
(* the monitors, and how these steps look to SerialChannel.                *)
(***************************************************************************)
EXTENDS AbstractSerialPortSocket, TLAPS

Ended(t) == pc[t] \in {"end", "leave"}

\* A native function has something to answer only at its end.
ResultInv == \A t \in Threads : ~Ended(t) => result[t] = NoResult

\* What the step of a call may do to the file and to the close: begin() may start it.
Starts == \/ UNCHANGED <<closed, closing>>
          \/ ~closed /\ closed' = TRUE /\ closing' = "mark"
KeepsFile == UNCHANGED <<fd, file, cancel, hungUp, fdCleaner>>

\* A device call on this number fails.
Refused(number) == Unopened(number) \/ file = "other" \/ hungUp

CommonLabels == {"idle", "enter", "selfClose", "load", "first", "sleep", "again", "end", "leave"}

------------------------------------------------------------------------------
(* Types. *)

LEMMA InitTyped == ASSUME NEW frame, SocketInit(frame) PROVE SocketTypeOK
<1>1. PortTypeOK
  <2>1. 0 \in 0..InCapacity /\ 0 \in 0..OutCapacity
    BY PortAssumption
  <2>2. PortInit
    BY DEF SocketInit
  <2>3. interrupts \subseteq Threads /\ blocked \subseteq Threads /\ held \subseteq Threads
    BY <2>2 DEF PortInit
  <2>4. cancel \in [Dir -> BOOLEAN]
    BY <2>2 DEF PortInit
  <2>. QED BY <2>1, <2>2, <2>3, <2>4 DEF PortInit, PortTypeOK
<1>2. NoResult \in [outcome : Exceptions \cup {"none", "ok", "eof"}, reported : 0..MaxLength]
  BY CallAssumption DEF NoResult
<1>3. /\ lock \in [Dir -> Threads \cup {NoThread}]
      /\ op \in [Threads -> Ops \cup {"none"}]
      /\ fdCleaner \in {PORT_FD, INVALID_FD, "ran"}
  BY DEF SocketInit
<1>4. result \in [Threads -> [outcome : Exceptions \cup {"none", "ok", "eof"},
                              reported : 0..MaxLength]]
  BY <1>2 DEF SocketInit
<1>. QED BY <1>1, <1>3, <1>4 DEF SocketTypeOK

LEMMA BeginTyped ==
  ASSUME PortTypeOK, NEW t \in Threads, BeginBlocking(t)
  PROVE  PortTypeOK' /\ Starts /\ UNCHANGED <<fileVars, deviceVars, held>>
BY DEF PortTypeOK, BeginBlocking, StartClosing, Starts, fileVars, deviceVars

LEMMA EndTyped ==
  ASSUME PortTypeOK, NEW t \in Threads, EndBlocking(t)
  PROVE  PortTypeOK' /\ Starts /\ UNCHANGED <<fileVars, deviceVars, held>>
BY DEF PortTypeOK, EndBlocking, Starts, fileVars, deviceVars

\* The callers, the device and the rest of the process.
LEMMA OthersTyped ==
  ASSUME PortTypeOK, Others
  PROVE  /\ PortTypeOK'
         /\ UNCHANGED <<fd, cancel>>
         /\ file' = file \/ (file = "free" /\ file' = "other")
         /\ hungUp => hungUp'
         /\ UNCHANGED break
         /\ Starts /\ (closing' # closing => fdCleaner # "ran")
<1>. USE DEF PortTypeOK, Starts, fileVars, deviceVars, closeVars
<1>1. CASE fdCleaner # "ran" /\ Close
  BY <1>1 DEF Close, StartClosing
<1>2. CASE fdCleaner # "ran" /\ \E t \in Threads : Interrupt(t)
  <2>1. PICK t \in Threads : Interrupt(t)
    BY <1>2
  <2>2. /\ UNCHANGED <<fileVars, deviceVars, blocked>> /\ interrupts' = interrupts \cup {t}
        /\ UNCHANGED <<closed, closing>> \/ (~closed /\ closed' = TRUE /\ closing' = "mark")
        /\ interrupted' \in {interrupted, t} /\ held' \in {held, held \cup {t}}
    BY <2>1 DEF Interrupt, StartClosing
  <2>3. PortTypeOK'
    BY <2>2
  <2>. QED BY <1>2, <2>2, <2>3
<1>3. CASE Receive
  <2>1. inQueue' \in 0..InCapacity
    BY <1>3, PortAssumption DEF Receive
  <2>. QED BY <1>3, <2>1 DEF Receive
<1>4. CASE Transmit
  <2>1. outQueue' \in 0..OutCapacity
    BY <1>4, PortAssumption DEF Transmit
  <2>. QED BY <1>4, <2>1 DEF Transmit
<1>5. CASE Unplug \/ ReuseNumber
  BY <1>5 DEF Unplug, ReuseNumber
<1>. QED BY <1>1, <1>2, <1>3, <1>4, <1>5 DEF Others, Environment

LEMMA DeliverTyped ==
  ASSUME SocketTypeOK, NEW t \in Threads,
         NEW outcome \in Exceptions \cup {"ok"}, NEW n \in 0..MaxLength,
         Deliver(t, outcome, n)
  PROVE  /\ result' \in [Threads -> [outcome : Exceptions \cup {"none", "ok", "eof"},
                                     reported : 0..MaxLength]]
         /\ \E l \in {"end", "leave"} : pc' = [pc EXCEPT ![t] = l]
         /\ result' = [result EXCEPT ![t] = [outcome  |-> Caught(op[t], outcome, n),
                                             reported |-> n]]
<1>1. Caught(op[t], outcome, n) \in Exceptions \cup {"none", "ok", "eof"}
  BY DEF Caught
<1>. QED BY <1>1 DEF Deliver, Goto, SocketTypeOK

\* The steps that both libraries have leave the file to the close.
LEMMA CommonSteps ==
  ASSUME NEW t \in Threads, NEW frame, CommonStep(t, frame)
  PROVE  pc[t] # "idle" /\ KeepsFile /\ Starts
<1>. USE DEF KeepsFile, Starts, At, portVars, fileVars, deviceVars, closeVars
<1>1. CASE Enter(t)
  BY <1>1 DEF Enter, BeginBlocking, StartClosing
<1>2. CASE SelfClosed(t) \/ RefuseBreak(t)
  BY <1>2 DEF SelfClosed, RefuseBreak
<1>3. CASE SetBreak(t) \/ ClearBreak(t)
  BY <1>3 DEF SetBreak, ClearBreak, IoctlBreak
<1>4. CASE Sleep(t) \/ CountBytes(t)
  BY <1>4 DEF Sleep, CountBytes
<1>5. CASE End(t, frame)
  BY <1>5 DEF End, EndBlocking, Return
<1>6. CASE Leave(t, frame)
  BY <1>6 DEF Leave, Return
<1>. QED BY <1>1, <1>2, <1>3, <1>4, <1>5, <1>6 DEF CommonStep

\* What the steps of both libraries do to the frame, the file and the close.
LEMMA CommonEffect ==
  ASSUME SocketTypeOK, NEW t \in Threads, NEW frame, CommonStep(t, frame)
  PROVE  /\ pc[t] \in CommonLabels \ {"idle"}
         /\ \E l \in CommonLabels \ {"enter"} : pc' = [pc EXCEPT ![t] = l]
         /\ \/ UNCHANGED <<local, op>>
            \/ /\ local' = [local EXCEPT ![t].strays = @ + Strays(t)] /\ op' = op
               /\ op[t] \in BreakOps \cup {"count"}
            \/ local' = [local EXCEPT ![t] = frame] /\ Goto(t, "idle")
         /\ SocketTypeOK'
         /\ KeepsFile /\ Starts /\ UNCHANGED <<inQueue, outQueue>>
<1>. USE DEF At, Goto, CommonLabels, KeepsFile, Starts, fileVars, deviceVars, closeVars
<1>0. 0 \in 0..MaxLength
  BY CallAssumption
<1>1. CASE Enter(t)
  <2>1. UNCHANGED portVars \/ BeginBlocking(t)
    BY <1>1 DEF Enter
  <2>2. PortTypeOK' /\ Starts /\ UNCHANGED <<fileVars, deviceVars>>
    BY <2>1, BeginTyped DEF SocketTypeOK, PortTypeOK, portVars
  <2>3. lock' \in [Dir -> Threads \cup {NoThread}]
    BY <1>1 DEF Enter, Acquire, SocketTypeOK
  <2>4. result' = result \/ result' = [result EXCEPT ![t].outcome = "ok"]
    BY <1>1 DEF Enter
  <2>5. result' \in [Threads -> [outcome : Exceptions \cup {"none", "ok", "eof"},
                                 reported : 0..MaxLength]]
    BY <2>4 DEF SocketTypeOK
  <2>6. UNCHANGED <<fdCleaner, op, local>>
    BY <1>1 DEF Enter
  <2>7. pc[t] = "enter" /\ \E l \in {"leave", "selfClose", "load"} : pc' = [pc EXCEPT ![t] = l]
    BY <1>1 DEF Enter
  <2>8. SocketTypeOK'
    BY <2>2, <2>3, <2>5, <2>6 DEF SocketTypeOK
  <2>. QED BY <2>2, <2>6, <2>7, <2>8
<1>2. CASE SelfClosed(t) \/ Sleep(t)
  <2>1. /\ pc[t] \in {"selfClose", "sleep"}
        /\ UNCHANGED <<portVars, fdCleaner, lock, op, local, result>>
    BY <1>2 DEF SelfClosed, Sleep
  <2>2. PICK l \in {"load", "again"} : pc' = [pc EXCEPT ![t] = l]
    BY <1>2 DEF SelfClosed, Sleep
  <2>3. SocketTypeOK'
    BY <2>1 DEF SocketTypeOK, PortTypeOK, portVars
  <2>. QED BY <2>1, <2>2, <2>3 DEF portVars
<1>3. CASE RefuseBreak(t)
  <2>1. pc[t] = "load" /\ UNCHANGED <<portVars, fdCleaner, lock, op, local>>
    BY <1>3 DEF RefuseBreak
  <2>2. Deliver(t, "illegalArgument", 0)
    BY <1>3 DEF RefuseBreak
  <2>3. /\ result' \in [Threads -> [outcome : Exceptions \cup {"none", "ok", "eof"},
                                    reported : 0..MaxLength]]
        /\ \E l \in {"end", "leave"} : pc' = [pc EXCEPT ![t] = l]
    BY <1>0, <2>2, DeliverTyped DEF Exceptions
  <2>4. PICK l \in {"end", "leave"} : pc' = [pc EXCEPT ![t] = l]
    BY <2>3
  <2>5. SocketTypeOK'
    BY <2>1, <2>3 DEF SocketTypeOK, PortTypeOK, portVars
  <2>. QED BY <2>1, <2>4, <2>5 DEF portVars
<1>4. CASE SetBreak(t) \/ ClearBreak(t) \/ CountBytes(t)
  <2>1. /\ pc[t] \in {"first", "again"}
        /\ UNCHANGED <<fileVars, inQueue, outQueue, hungUp, closeVars, fdCleaner, lock, op>>
        /\ local' = [local EXCEPT ![t].strays = @ + Strays(t)]
        /\ break' \in {TRUE, FALSE, break}
        /\ op[t] \in BreakOps \cup {"count"}
    BY <1>4 DEF SetBreak, ClearBreak, CountBytes, IoctlBreak, portVars, BreakOps
  <2>2. \/ Goto(t, "sleep") /\ result' = result
        \/ \E o \in {"ok", "portClosed", "ioError"} : Deliver(t, o, 0)
    BY <1>4 DEF SetBreak, ClearBreak, CountBytes, throw_ClosedOrNativeException
  <2>3. /\ result' \in [Threads -> [outcome : Exceptions \cup {"none", "ok", "eof"},
                                    reported : 0..MaxLength]]
        /\ \E l \in {"end", "leave", "sleep"} : pc' = [pc EXCEPT ![t] = l]
    <3>1. CASE Goto(t, "sleep") /\ result' = result
      BY <3>1 DEF SocketTypeOK
    <3>2. CASE \E o \in {"ok", "portClosed", "ioError"} : Deliver(t, o, 0)
      <4>1. {"ok", "portClosed", "ioError"} \subseteq Exceptions \cup {"ok"}
        BY DEF Exceptions
      <4>. QED BY <1>0, <3>2, <4>1, DeliverTyped
    <3>. QED BY <2>2, <3>1, <3>2
  <2>4. PICK l \in {"end", "leave", "sleep"} : pc' = [pc EXCEPT ![t] = l]
    BY <2>3
  <2>5. PortTypeOK'
    <3>1. break' \in BOOLEAN
      BY <2>1 DEF SocketTypeOK, PortTypeOK
    <3>. QED BY <2>1, <3>1 DEF SocketTypeOK, PortTypeOK
  <2>6. SocketTypeOK'
    BY <2>1, <2>3, <2>5 DEF SocketTypeOK
  <2>. QED BY <2>1, <2>4, <2>6
<1>5. CASE End(t, frame) \/ Leave(t, frame)
  <2>1. pc[t] \in {"end", "leave"} /\ Return(t, frame)
    BY <1>5 DEF End, Leave
  <2>2. PortTypeOK' /\ Starts /\ UNCHANGED <<fileVars, deviceVars>>
    BY <1>5, EndTyped DEF End, Leave, SocketTypeOK, PortTypeOK, portVars
  <2>3. /\ lock' \in [Dir -> Threads \cup {NoThread}]
        /\ op' \in [Threads -> Ops \cup {"none"}]
        /\ result' \in [Threads -> [outcome : Exceptions \cup {"none", "ok", "eof"},
                                    reported : 0..MaxLength]]
    BY <1>0, <2>1 DEF Return, SocketTypeOK, NoResult
  <2>. QED BY <2>1, <2>2, <2>3 DEF Return, SocketTypeOK
<1>. QED BY <1>1, <1>2, <1>3, <1>4, <1>5 DEF CommonStep
\* What they answer, and when: an error of the device only of a device call that fails
\* while the field fd is valid.
CommonAnswer(t, r) ==
  /\ r.reported = 0
  /\ \/ pc[t] = "enter" /\ r.outcome = "ok" /\ local' = local
     \/ op[t] \in BreakOps \cup {"count"} /\ r.outcome \in {"ok", "illegalArgument", "portClosed"}
     \/ /\ op[t] \in BreakOps \cup {"count"} /\ r.outcome = "ioError"
        /\ pc[t] \in {"first", "again"} /\ fd # INVALID_FD /\ Refused(local[t].number)

LEMMA CommonResults ==
  ASSUME SocketTypeOK, ResultInv, DOMAIN pc = Threads, NEW t \in Threads, NEW frame,
         CommonStep(t, frame)
  PROVE  \/ ~Ended(t) /\ ~Ended(t)' /\ result' = result /\ op' = op
         \/ /\ Ended(t) /\ pc'[t] = "idle" /\ Return(t, frame)
            /\ result' = [result EXCEPT ![t] = NoResult]
         \/ /\ ~Ended(t) /\ Ended(t)' /\ op' = op
            /\ CommonAnswer(t, result'[t])
            /\ result' = [result EXCEPT ![t] = result'[t]]
<1>. DEFINE Answers == /\ ~Ended(t) /\ Ended(t)' /\ op' = op
                       /\ CommonAnswer(t, result'[t])
                       /\ result' = [result EXCEPT ![t] = result'[t]]
<1>. USE DEF At, Goto, Ended
<1>1. CASE Enter(t)
  <2>1. pc[t] = "enter" /\ result[t] = NoResult /\ UNCHANGED <<op, local>>
    BY <1>1 DEF Enter, ResultInv
  <2>2. \/ pc' = [pc EXCEPT ![t] = "leave"] /\ result' = [result EXCEPT ![t].outcome = "ok"]
        \/ result' = result /\ \E l \in {"selfClose", "load"} : pc' = [pc EXCEPT ![t] = l]
    BY <1>1 DEF Enter
  <2>3. CASE pc' = [pc EXCEPT ![t] = "leave"] /\ result' = [result EXCEPT ![t].outcome = "ok"]
    <3>1. result'[t] = [outcome |-> "ok", reported |-> 0] /\ pc'[t] = "leave"
      BY <2>1, <2>3 DEF SocketTypeOK, NoResult
    <3>2. result' = [result EXCEPT ![t] = result'[t]]
      BY <2>3 DEF SocketTypeOK
    <3>. QED BY <2>1, <3>1, <3>2 DEF CommonAnswer
  <2>4. CASE result' = result /\ \E l \in {"selfClose", "load"} : pc' = [pc EXCEPT ![t] = l]
    BY <2>1, <2>4
  <2>. QED BY <2>2, <2>3, <2>4
<1>2. CASE SelfClosed(t) \/ Sleep(t)
  BY <1>2 DEF SelfClosed, Sleep
<1>a. ASSUME NEW o, Deliver(t, o, 0), op' = op, ~Ended(t), op[t] \in BreakOps \cup {"count"},
             \/ o \in {"ok", "illegalArgument", "portClosed"}
             \/ /\ o = "ioError" /\ pc[t] \in {"first", "again"}
                /\ fd # INVALID_FD /\ Refused(local[t].number)
      PROVE  Answers
  <2>1. Caught(op[t], o, 0) = o
    BY <1>a DEF Caught, BreakOps
  <2>2. /\ result' = [result EXCEPT ![t] = [outcome |-> o, reported |-> 0]]
        /\ \E l \in {"end", "leave"} : pc' = [pc EXCEPT ![t] = l]
    BY <1>a, <2>1 DEF Deliver
  <2>3. result'[t] = [outcome |-> o, reported |-> 0] /\ pc'[t] \in {"end", "leave"}
    BY <2>2 DEF SocketTypeOK
  <2>4. result' = [result EXCEPT ![t] = result'[t]]
    BY <2>2 DEF SocketTypeOK
  <2>. QED BY <1>a, <2>3, <2>4 DEF CommonAnswer
<1>3. CASE RefuseBreak(t)
  BY <1>3, <1>a DEF RefuseBreak, BreakOps
<1>b. ASSUME NEW r \in IoctlResults(local[t].number), r # 0 PROVE Refused(local[t].number)
  BY <1>b DEF IoctlResults, Refused, EBADF, EIO
<1>4. CASE SetBreak(t)
  <2>1. pc[t] = "first" /\ op[t] \in BreakOps /\ op' = op
    BY <1>4 DEF SetBreak, IoctlBreak
  <2>2. PICK r \in IoctlResults(local[t].number) :
          IF r = 0 /\ op[t] = "sendBreak" THEN Goto(t, "sleep") /\ UNCHANGED result
          ELSE Deliver(t, IF r = 0 THEN "ok" ELSE throw_ClosedOrNativeException, 0)
    BY <1>4 DEF SetBreak
  <2>3. CASE r = 0 /\ op[t] = "sendBreak"
    BY <2>1, <2>2, <2>3
  <2>4. CASE r = 0 /\ op[t] # "sendBreak"
    BY <1>a, <2>1, <2>2, <2>4
  <2>5. CASE r # 0
    <3>1. Deliver(t, throw_ClosedOrNativeException, 0)
      BY <2>2, <2>5
    <3>. QED BY <1>a, <1>b, <2>1, <2>5, <3>1 DEF throw_ClosedOrNativeException
  <2>. QED BY <2>3, <2>4, <2>5
<1>5. CASE ClearBreak(t) \/ CountBytes(t)
  <2>1. pc[t] \in {"first", "again"} /\ op[t] \in BreakOps \cup {"count"} /\ op' = op
    BY <1>5 DEF ClearBreak, CountBytes, IoctlBreak, BreakOps
  <2>2. PICK r \in IoctlResults(local[t].number) :
          Deliver(t, IF r = 0 THEN "ok" ELSE throw_ClosedOrNativeException, 0)
    BY <1>5 DEF ClearBreak, CountBytes
  <2>3. CASE r = 0
    BY <1>a, <2>1, <2>2, <2>3
  <2>4. CASE r # 0
    BY <1>a, <1>b, <2>1, <2>2, <2>4 DEF throw_ClosedOrNativeException
  <2>. QED BY <2>3, <2>4
<1>6. CASE End(t, frame) \/ Leave(t, frame)
  BY <1>6 DEF End, Leave, Return
<1>. QED BY <1>1, <1>2, <1>3, <1>4, <1>5, <1>6 DEF CommonStep

\* Where they go: a call that leaves begin() has the frame it came with, only sendBreak
\* sleeps, and a return gives the frame back.
LEMMA CommonCourse ==
  ASSUME SocketTypeOK, DOMAIN pc = Threads, DOMAIN local = Threads,
         NEW t \in Threads, NEW frame, CommonStep(t, frame)
  PROVE  /\ \A u \in Threads \ {t} : /\ pc'[u] = pc[u] /\ op'[u] = op[u]
                                     /\ local'[u] = local[u] /\ result'[u] = result[u]
         /\ pc'[t] \in {"selfClose", "load", "sleep", "again", "idle", "end", "leave"}
         /\ pc'[t] \in {"selfClose", "load"} =>
              pc[t] \in {"enter", "selfClose"} /\ UNCHANGED <<op, local>>
         /\ pc'[t] = "sleep" => pc[t] = "first" /\ op[t] = "sendBreak" /\ op' = op
         /\ pc'[t] = "again" => pc[t] = "sleep" /\ op' = op
         /\ pc'[t] = "idle" => local'[t] = frame
<1>0. DOMAIN op = Threads /\ DOMAIN result = Threads
  BY DEF SocketTypeOK
<1>. USE <1>0 DEF At, Goto, Deliver
<1>1. CASE Enter(t)
  BY <1>1 DEF Enter
<1>2. CASE SelfClosed(t) \/ RefuseBreak(t)
  BY <1>2 DEF SelfClosed, RefuseBreak
<1>3. CASE Sleep(t)
  BY <1>3 DEF Sleep
<1>4. CASE SetBreak(t)
  BY <1>4 DEF SetBreak, IoctlBreak
<1>5. CASE ClearBreak(t) \/ CountBytes(t)
  BY <1>5 DEF ClearBreak, CountBytes, IoctlBreak
<1>6. CASE End(t, frame) \/ Leave(t, frame)
  BY <1>6 DEF End, Leave, Return
<1>. QED BY <1>1, <1>2, <1>3, <1>4, <1>5, <1>6 DEF CommonStep

------------------------------------------------------------------------------
(* How the steps look to SerialChannel. *)

\* The call of t is past the monitor.
Inside(t) == pc[t] \notin {"idle", "enter"}

\* The frames have their types as far as the monitors and the bytes moved need it.
ShapeInv ==
  /\ lock \in [Dir -> Threads \cup {NoThread}]
  /\ DOMAIN pc = Threads
  /\ DOMAIN op = Threads
  /\ DOMAIN local = Threads
  /\ \A t \in Threads : "got" \in DOMAIN local[t] /\ local[t].got \in Nat

\* A thread has the monitor of its direction from enter to return, unless its operation
\* has none, and it has moved nothing before.
MonitorInv ==
  /\ ShapeInv
  /\ \A t \in Threads, d \in Dir : lock[d] = t <=> Inside(t) /\ d \in LocksOf(op[t])
  /\ \A t \in Threads : ~Inside(t) => local[t].got = 0

\* What a step inside a call may do: keep the monitors, and move bytes on the port if the
\* operation has a monitor.
Inner(t) ==
  /\ Inside(t) /\ Inside(t)'
  /\ DOMAIN pc' = Threads
  /\ \A u \in Threads \ {t} : pc'[u] = pc[u] /\ local'[u] = local[u]
  /\ DOMAIN local' = Threads
  /\ "got" \in DOMAIN local'[t]
  /\ \/ local'[t].got = local[t].got
     \/ /\ local'[t].got \in Nat /\ local'[t].got > local[t].got
        /\ file = "port" /\ LocksOf(op[t]) = {DirOf(op[t])}
  /\ UNCHANGED <<lock, op, file>>

\* A call goes on to another step inside the monitor.
LEMMA GotoInside ==
  ASSUME ShapeInv, NEW t \in Threads,
         NEW label, label \notin {"idle", "enter"}, Goto(t, label)
  PROVE  /\ Inside(t)'
         /\ DOMAIN pc' = Threads
         /\ \A u \in Threads \ {t} : pc'[u] = pc[u]
BY DEF ShapeInv, Inside, Goto

LEMMA DeliverInside ==
  ASSUME ShapeInv, NEW t \in Threads, NEW outcome, NEW reported, Deliver(t, outcome, reported)
  PROVE  /\ Inside(t)'
         /\ DOMAIN pc' = Threads
         /\ \A u \in Threads \ {t} : pc'[u] = pc[u]
<1>1. \E label \in {"end", "leave"} : Goto(t, label)
  BY DEF Deliver
<1>. QED BY <1>1, GotoInside

\* The steps between the monitor and the return that both libraries have.
LEMMA CommonInner ==
  ASSUME ShapeInv, NEW t \in Threads,
         \/ SelfClosed(t) \/ RefuseBreak(t) \/ SetBreak(t)
         \/ Sleep(t) \/ ClearBreak(t) \/ CountBytes(t)
  PROVE  Inner(t)
<1>. DEFINE Moves == /\ Inside(t)'
                     /\ DOMAIN pc' = Threads
                     /\ \A u \in Threads \ {t} : pc'[u] = pc[u]
            Keeps == /\ \A u \in Threads \ {t} : local'[u] = local[u]
                     /\ DOMAIN local' = Threads
                     /\ "got" \in DOMAIN local'[t]
                     /\ local'[t].got = local[t].got
                     /\ UNCHANGED <<lock, op, file>>
<1>a. ASSUME NEW label, label \notin {"idle", "enter"}, Goto(t, label) PROVE Moves
  BY <1>a, GotoInside
<1>b. ASSUME NEW o, NEW n, Deliver(t, o, n) PROVE Moves
  BY <1>b, DeliverInside
<1>0. ASSUME Moves, Keeps, Inside(t) PROVE Inner(t)
  BY <1>0 DEF Inner
<1>. HIDE DEF Moves
<1>1. CASE SelfClosed(t) \/ RefuseBreak(t) \/ Sleep(t)
  <2>1. Inside(t) /\ UNCHANGED local /\ UNCHANGED <<lock, op, file>>
    BY <1>1 DEF SelfClosed, RefuseBreak, Sleep, At, Inside, portVars, fileVars
  <2>2. Moves
    BY <1>1, <1>a, <1>b DEF SelfClosed, RefuseBreak, Sleep
  <2>3. Keeps
    BY <2>1 DEF ShapeInv
  <2>. QED BY <1>0, <2>1, <2>2, <2>3
<1>2. CASE SetBreak(t) \/ ClearBreak(t) \/ CountBytes(t)
  <2>1. Inside(t)
    BY <1>2 DEF SetBreak, ClearBreak, CountBytes, At, Inside
  <2>2. Moves
    BY <1>2, <1>a, <1>b, Zenon DEF SetBreak, ClearBreak, CountBytes
  <2>3. local' = [local EXCEPT ![t].strays = @ + Strays(t)] /\ UNCHANGED <<lock, op, file>>
    BY <1>2 DEF SetBreak, ClearBreak, CountBytes, IoctlBreak, portVars, fileVars
  <2>4. Keeps
    BY <2>3 DEF ShapeInv
  <2>. QED BY <1>0, <2>1, <2>2, <2>4
<1>. QED BY <1>1, <1>2

\* What SerialChannel calls moved.
Carried == [d \in Dir |-> IF lock[d] = NoThread THEN 0 ELSE local[lock[d]].got]

ChannelMoves == [Channel!Next]_(Channel!vars)

LEMMA ChannelStep ==
  ASSUME NEW t \in Threads, NEW d \in Dir,
         Channel!Claim(t, d) \/ Channel!Move(t, d) \/ Channel!Yield(t, d)
  PROVE  ChannelMoves
BY DEF ChannelMoves, Channel!Next, Channel!Dir, Dir

LEMMA ChannelStutters ==
  ASSUME (file' = "port") = (file = "port"), lock' = lock, Carried' = Carried
  PROVE  ChannelMoves
BY DEF ChannelMoves, Channel!vars, Carried

\* Every operation has one monitor or none.
LEMMA OneMonitor ==
  ASSUME NEW o
  PROVE  LocksOf(o) = {} \/ (LocksOf(o) = {DirOf(o)} /\ DirOf(o) \in Dir)
BY DEF LocksOf, DirOf, Dir

\* A step inside a call moves bytes, as the owner of its direction and on the port, or none.
LEMMA InnerChannel ==
  ASSUME MonitorInv, NEW t \in Threads, Inner(t)
  PROVE  MonitorInv' /\ ChannelMoves
<1>1. MonitorInv'
  <2>1. ShapeInv'
    BY DEF MonitorInv, ShapeInv, Inner
  <2>2. \A u \in Threads : Inside(u)' = Inside(u) /\ (~Inside(u)' => local'[u].got = local[u].got)
    BY DEF Inner, Inside
  <2>. QED BY <2>1, <2>2 DEF MonitorInv, Inner
<1>2. CASE local'[t].got = local[t].got
  <2>1. \A u \in Threads : local'[u].got = local[u].got
    BY <1>2 DEF Inner
  <2>2. Carried' = Carried
    BY <2>1 DEF Carried, MonitorInv, ShapeInv, Inner
  <2>. QED BY <1>1, <2>2, ChannelStutters DEF Inner
<1>3. CASE local'[t].got # local[t].got
  <2>0. PICK d \in Dir : d = DirOf(op[t])
    BY DEF DirOf, Dir
  <2>1. d \in LocksOf(op[t]) /\ file = "port" /\ file' = file /\ lock' = lock
        /\ local'[t].got > local[t].got
    BY <1>3, <2>0, OneMonitor DEF Inner
  <2>2. lock[d] = t
    BY <2>1 DEF MonitorInv, Inner
  <2>3. \A e \in Dir \ {d} : lock[e] # t
    BY <1>3, <2>0 DEF MonitorInv, Inner
  <2>4. t # NoThread
    BY PortAssumption
  <2>5. Carried'[d] = local'[t].got /\ Carried[d] = local[t].got
    BY <2>1, <2>2, <2>4 DEF Carried
  <2>6. \A e \in Dir \ {d} : Carried'[e] = Carried[e]
    BY <2>1, <2>3 DEF Carried, MonitorInv, ShapeInv, Inner
  <2>7. Carried' = [Carried EXCEPT ![d] = Carried'[d]]
    BY <2>6 DEF Carried
  <2>8. Channel!Move(t, d)
    BY <2>1, <2>2, <2>5, <2>7 DEF Channel!Move, Carried
  <2>. QED BY <1>1, <2>8, ChannelStep
<1>. QED BY <1>1, <1>2, <1>3

\* To enter a monitor is to claim its direction.
LEMMA EnterChannel ==
  ASSUME MonitorInv, NEW t \in Threads, Enter(t)
  PROVE  MonitorInv' /\ ChannelMoves
<1>1. /\ ~Inside(t) /\ Inside(t)' /\ DOMAIN pc' = Threads
      /\ \A u \in Threads \ {t} : pc'[u] = pc[u]
  <2>1. pc[t] = "enter" /\ \E label \in {"leave", "selfClose", "load"} : Goto(t, label)
    BY DEF Enter, At
  <2>. QED BY <2>1, GotoInside DEF MonitorInv, Inside
<1>2. UNCHANGED <<op, local, file>>
  BY DEF Enter, BeginBlocking, portVars, fileVars
<1>3. lock' = [d \in Dir |-> IF d \in LocksOf(op[t]) THEN t ELSE lock[d]]
      /\ \A d \in LocksOf(op[t]) : lock[d] = NoThread
  BY DEF Enter, Acquire
<1>4. local[t].got = 0 /\ t # NoThread
  BY <1>1, PortAssumption DEF MonitorInv
<1>5. MonitorInv'
  <2>1. ShapeInv'
    BY <1>1, <1>2, <1>3 DEF MonitorInv, ShapeInv
  <2>2. ASSUME NEW u \in Threads, NEW d \in Dir
        PROVE  lock'[d] = u <=> Inside(u)' /\ d \in LocksOf(op[u])
    <3>1. CASE u = t
      BY <1>1, <1>3, <3>1 DEF MonitorInv
    <3>2. CASE u # t
      BY <1>1, <1>3, <3>2, PortAssumption DEF MonitorInv, Inside
    <3>. QED BY <3>1, <3>2
  <2>3. \A u \in Threads : ~Inside(u)' => local[u].got = 0
    BY <1>1 DEF MonitorInv, Inside
  <2>. QED BY <1>2, <2>1, <2>2, <2>3 DEF MonitorInv
<1>6. CASE LocksOf(op[t]) = {}
  <2>1. lock' = lock
    BY <1>3, <1>6 DEF MonitorInv, ShapeInv
  <2>2. Carried' = Carried
    BY <1>2, <2>1 DEF Carried
  <2>. QED BY <1>2, <1>5, <2>1, <2>2, ChannelStutters
<1>7. CASE LocksOf(op[t]) # {}
  <2>. DEFINE d == DirOf(op[t])
  <2>1. d \in Dir /\ LocksOf(op[t]) = {d} /\ lock[d] = NoThread
    BY <1>3, <1>7, OneMonitor
  <2>2. lock' = [lock EXCEPT ![d] = t]
    BY <1>3, <2>1 DEF MonitorInv, ShapeInv
  <2>3. Carried' = Carried
    BY <1>2, <1>4, <2>1, <2>2 DEF Carried, MonitorInv, ShapeInv
  <2>. HIDE DEF d
  <2>4. Channel!Claim(t, d)
    BY <1>2, <2>1, <2>2, <2>3 DEF Channel!Claim, Carried
  <2>. QED BY <1>5, <2>1, <2>4, ChannelStep
<1>. QED BY <1>6, <1>7

\* To return is to yield it.
LEMMA ReturnChannel ==
  ASSUME MonitorInv, NEW t \in Threads, Inside(t), UNCHANGED file,
         NEW frame, "got" \in DOMAIN frame, frame.got = 0, Return(t, frame)
  PROVE  MonitorInv' /\ ChannelMoves
<1>1. /\ DOMAIN pc' = Threads /\ ~Inside(t)'
      /\ \A u \in Threads \ {t} : pc'[u] = pc[u] /\ op'[u] = op[u] /\ local'[u] = local[u]
      /\ DOMAIN op' = Threads /\ DOMAIN local' = Threads /\ local'[t] = frame
  BY DEF MonitorInv, ShapeInv, Return, Goto, Inside
<1>2. lock' = [d \in Dir |-> IF d \in LocksOf(op[t]) THEN NoThread ELSE lock[d]]
  BY DEF Return
<1>3. \A d \in Dir : lock[d] = t <=> d \in LocksOf(op[t])
  BY DEF MonitorInv
<1>4. t # NoThread
  BY PortAssumption
<1>5. MonitorInv'
  <2>1. ShapeInv'
    BY <1>1, <1>2 DEF MonitorInv, ShapeInv
  <2>2. ASSUME NEW u \in Threads, NEW d \in Dir
        PROVE  lock'[d] = u <=> Inside(u)' /\ d \in LocksOf(op'[u])
    <3>1. CASE u = t
      BY <1>1, <1>2, <1>3, <1>4, <3>1
    <3>2. CASE u # t
      BY <1>1, <1>2, <1>3, <3>2, PortAssumption DEF MonitorInv, Inside
    <3>. QED BY <3>1, <3>2
  <2>3. \A u \in Threads : ~Inside(u)' => local'[u].got = 0
    BY <1>1 DEF MonitorInv, Inside
  <2>. QED BY <2>1, <2>2, <2>3 DEF MonitorInv
<1>6. \A d \in Dir : lock[d] # t => Carried'[d] = Carried[d]
  BY <1>1, <1>2, <1>3 DEF Carried, MonitorInv, ShapeInv
<1>7. CASE LocksOf(op[t]) = {}
  <2>1. lock' = lock
    BY <1>2, <1>7 DEF MonitorInv, ShapeInv
  <2>2. Carried' = Carried
    BY <1>3, <1>6, <1>7 DEF Carried
  <2>. QED BY <1>5, <2>1, <2>2, ChannelStutters
<1>8. CASE LocksOf(op[t]) # {}
  <2>0. PICK d \in Dir : d = DirOf(op[t])
    BY DEF DirOf, Dir
  <2>1. LocksOf(op[t]) = {d} /\ lock[d] = t
    BY <1>3, <1>8, <2>0, OneMonitor
  <2>2. lock' = [lock EXCEPT ![d] = NoThread]
    BY <1>2, <2>1 DEF MonitorInv, ShapeInv
  <2>3. Carried' = [Carried EXCEPT ![d] = 0]
    <3>1. Carried'[d] = 0
      BY <2>1, <2>2 DEF Carried, MonitorInv, ShapeInv
    <3>2. \A e \in Dir \ {d} : Carried'[e] = Carried[e]
      BY <1>3, <1>6, <2>1
    <3>. QED BY <3>1, <3>2 DEF Carried
  <2>4. Channel!Yield(t, d)
    BY <2>1, <2>2, <2>3 DEF Channel!Yield, Carried
  <2>. QED BY <1>5, <2>4, ChannelStep
<1>. QED BY <1>7, <1>8

\* What the rest of the process does, and the close: the number is given up.
LEMMA OtherChannel ==
  ASSUME MonitorInv, UNCHANGED <<lock, pc, op, local>>, file # "port" => file' # "port"
  PROVE  MonitorInv' /\ ChannelMoves
<1>1. MonitorInv'
  BY DEF MonitorInv, ShapeInv, Inside
<1>2. Carried' = Carried
  BY DEF Carried
<1>3. CASE (file' = "port") = (file = "port")
  BY <1>1, <1>2, <1>3, ChannelStutters
<1>4. CASE (file' = "port") # (file = "port")
  <2>1. file = "port" /\ file' # "port"
    BY <1>4
  <2>2. Channel!Detach
    BY <1>2, <2>1 DEF Channel!Detach, Carried
  <2>. QED BY <1>1, <2>2 DEF ChannelMoves, Channel!Next
<1>. QED BY <1>3, <1>4

LEMMA CallChannel ==
  ASSUME MonitorInv, NEW t \in Threads,
         NEW frame, "got" \in DOMAIN frame, frame.got = 0, Call(t, frame)
  PROVE  MonitorInv' /\ ChannelMoves
<1>1. PICK n : local' = [local EXCEPT ![t] = [frame EXCEPT !.rem = n]]
  BY DEF Call
<1>2. "got" \in DOMAIN [frame EXCEPT !.rem = n] /\ [frame EXCEPT !.rem = n].got = 0
  OBVIOUS
<1>3. /\ DOMAIN local' = Threads /\ local'[t].got = 0 /\ "got" \in DOMAIN local'[t]
      /\ \A u \in Threads \ {t} : local'[u] = local[u]
  BY <1>1, <1>2 DEF MonitorInv, ShapeInv
<1>4. /\ ~Inside(t) /\ ~Inside(t)' /\ DOMAIN pc' = Threads
      /\ \A u \in Threads \ {t} : pc'[u] = pc[u] /\ op'[u] = op[u]
      /\ DOMAIN op' = Threads
  BY DEF Call, At, Goto, Inside, MonitorInv, ShapeInv
<1>5. UNCHANGED <<lock, file>>
  BY DEF Call, portVars, fileVars
<1>6. MonitorInv'
  <2>1. ShapeInv'
    BY <1>3, <1>4, <1>5 DEF MonitorInv, ShapeInv
  <2>2. \A u \in Threads : Inside(u)' = Inside(u) /\ (u # t => op'[u] = op[u] /\ local'[u] = local[u])
    BY <1>3, <1>4 DEF Inside
  <2>. QED BY <1>3, <1>4, <1>5, <2>1, <2>2 DEF MonitorInv
<1>7. Carried' = Carried
  <2>1. \A u \in Threads : local'[u].got = local[u].got
    BY <1>3, <1>4 DEF MonitorInv
  <2>. QED BY <1>5, <2>1 DEF Carried, MonitorInv, ShapeInv
<1>. QED BY <1>5, <1>6, <1>7, ChannelStutters

\* So every step that both libraries have is one of SerialChannel, or none.
LEMMA CommonChannel ==
  ASSUME MonitorInv, NEW t \in Threads,
         NEW frame, "got" \in DOMAIN frame, frame.got = 0, CommonStep(t, frame)
  PROVE  MonitorInv' /\ ChannelMoves
<1>0. ShapeInv
  BY DEF MonitorInv
<1>1. CASE \/ SelfClosed(t) \/ RefuseBreak(t) \/ SetBreak(t)
           \/ Sleep(t) \/ ClearBreak(t) \/ CountBytes(t)
  BY <1>0, <1>1, CommonInner, InnerChannel
<1>2. CASE Enter(t)
  BY <1>2, EnterChannel
<1>3. CASE End(t, frame)
  BY <1>3, ReturnChannel DEF End, EndBlocking, fileVars, At, Inside
<1>4. CASE Leave(t, frame)
  BY <1>4, ReturnChannel DEF Leave, portVars, fileVars, At, Inside
<1>. QED BY <1>1, <1>2, <1>3, <1>4 DEF CommonStep

LEMMA OthersChannel ==
  ASSUME MonitorInv, \/ Others /\ UNCHANGED callVars
                     \/ closeFds
  PROVE  MonitorInv' /\ ChannelMoves
<1>1. UNCHANGED <<lock, pc, op, local>>
  BY DEF closeFds, callVars
<1>2. file # "port" => file' # "port"
  BY DEF Others, closeFds, Close, Interrupt, Environment, Receive, Transmit, Unplug,
         ReuseNumber, fileVars
<1>. QED BY <1>1, <1>2, OtherChannel

LEMMA InitChannel ==
  ASSUME NEW frame, "got" \in DOMAIN frame, frame.got = 0, SocketInit(frame)
  PROVE  MonitorInv /\ Channel!Init
<1>1. MonitorInv
  BY PortAssumption DEF SocketInit, MonitorInv, ShapeInv, Inside
<1>2. Channel!Init
  BY PortAssumption DEF SocketInit, PortInit, Channel!Init, Channel!Dir, Dir
<1>. QED BY <1>1, <1>2

------------------------------------------------------------------------------
(* The break. *)

\* While sendBreak sleeps it holds the number of the port and the port is in the break,
\* unless the call came too late; when it has ended well, the break is over.
BreakInv ==
  \A t \in Threads : op[t] = "sendBreak" =>
    /\ pc[t] \in {"sleep", "again"} =>
         /\ local[t].number = PORT_FD
         /\ local[t].strays = 0 /\ file = "port" => break
    /\ Ended(t) /\ result[t].outcome = "ok" /\ file = "port" => ~break

\* Steps that leave the line alone.
LEMMA OtherBreak ==
  ASSUME BreakInv, UNCHANGED <<op, break>>, file # "port" => file' # "port",
         \A u \in Threads : op[u] = "sendBreak" =>
           \/ /\ pc'[u] = pc[u] /\ result'[u] = result[u]
              /\ local'[u].number = local[u].number
              /\ local'[u].strays = local[u].strays
           \/ /\ pc'[u] \notin {"sleep", "again"}
              /\ Ended(u)' => result'[u].outcome # "ok"
  PROVE  BreakInv'
BY DEF BreakInv, Ended

\* A call that begins has not reached the break.
LEMMA CallBreak ==
  ASSUME BreakInv, DOMAIN pc = Threads, NEW t \in Threads, NEW frame, Call(t, frame)
  PROVE  BreakInv'
<1>1. /\ pc'[t] = "enter" /\ UNCHANGED <<file, break, result>>
      /\ \A u \in Threads \ {t} : pc'[u] = pc[u] /\ op'[u] = op[u] /\ local'[u] = local[u]
  BY DEF Call, Goto, portVars, fileVars, deviceVars
<1>. QED BY <1>1 DEF BreakInv, Ended

\* Nobody else sets or ends the break while one thread is inside sendBreak: it has the
\* monitor of the writers.
LEMMA BreaksExclude ==
  ASSUME MonitorInv, NEW t \in Threads, NEW u \in Threads, Inside(t), Inside(u),
         op[t] \in BreakOps, op[u] \in BreakOps
  PROVE  t = u
<1>1. ASSUME NEW v \in Threads, Inside(v), op[v] \in BreakOps PROVE lock["out"] = v
  <2>1. "out" \in LocksOf(op[v]) /\ "out" \in Dir
    BY <1>1 DEF LocksOf, DirOf, BreakOps, ReadOps, Dir
  <2>. QED BY <1>1, <2>1 DEF MonitorInv
<1>. QED BY <1>1

\* The frames of both libraries have a number and count the strays.
FramesOK == \A t \in Threads : /\ {"number", "strays"} \subseteq DOMAIN local[t]
                               /\ local[t].number \in {PORT_FD, INVALID_FD}
                               /\ local[t].strays \in Nat

LEMMA CommonBreak ==
  ASSUME SocketTypeOK, ResultInv, MonitorInv, BreakInv,
         FramesOK,
         NEW t \in Threads, NEW frame, CommonStep(t, frame)
  PROVE  BreakInv'
<1>. USE DEF At, Goto, Ended
<1>0. DOMAIN pc = Threads /\ DOMAIN local = Threads /\ DOMAIN op = Threads /\ DOMAIN result = Threads
  BY DEF MonitorInv, ShapeInv, SocketTypeOK
<1>1. CASE Enter(t)
  <2>1. /\ pc[t] = "enter" /\ UNCHANGED <<op, local, file, break>>
        /\ \A u \in Threads \ {t} : pc'[u] = pc[u] /\ result'[u] = result[u]
    BY <1>0, <1>1 DEF Enter, BeginBlocking, portVars, fileVars, deviceVars
  <2>2. op[t] = "sendBreak" => pc'[t] \in {"selfClose", "load"}
    BY <1>0, <1>1 DEF Enter, Interruptible, Ops, BreakOps
  <2>. QED BY <2>1, <2>2, OtherBreak
<1>2. CASE SelfClosed(t)
  <2>1. /\ UNCHANGED <<op, local, file, break, result>> /\ pc'[t] = "load"
        /\ \A u \in Threads \ {t} : pc'[u] = pc[u]
    BY <1>0, <1>2 DEF SelfClosed, portVars, fileVars, deviceVars
  <2>. QED BY <2>1, OtherBreak
<1>3. CASE RefuseBreak(t)
  <2>1. UNCHANGED <<op, local, file, break>> /\ Deliver(t, "illegalArgument", 0)
    BY <1>3 DEF RefuseBreak, portVars, fileVars, deviceVars
  <2>2. /\ pc'[t] \in {"end", "leave"} /\ result'[t].outcome # "ok"
        /\ \A u \in Threads \ {t} : pc'[u] = pc[u] /\ result'[u] = result[u]
    BY <1>0, <2>1 DEF Deliver, Caught
  <2>. QED BY <2>1, <2>2, OtherBreak
<1>4. CASE Sleep(t)
  <2>1. /\ UNCHANGED <<op, local, file, break, result>> /\ pc[t] = "sleep" /\ pc'[t] = "again"
        /\ \A u \in Threads \ {t} : pc'[u] = pc[u]
    BY <1>0, <1>4 DEF Sleep, portVars, fileVars, deviceVars
  <2>. QED BY <2>1 DEF BreakInv
<1>5. CASE CountBytes(t)
  <2>1. /\ op[t] = "count" /\ UNCHANGED <<op, file, break>>
        /\ local' = [local EXCEPT ![t].strays = @ + Strays(t)]
        /\ \E o : Deliver(t, o, 0)
    BY <1>5 DEF CountBytes, portVars, fileVars, deviceVars
  <2>2. \A u \in Threads \ {t} : pc'[u] = pc[u] /\ result'[u] = result[u] /\ local'[u] = local[u]
    BY <1>0, <2>1 DEF Deliver
  <2>. QED BY <2>1, <2>2, OtherBreak
<1>6. CASE SetBreak(t) \/ ClearBreak(t)
  <2>1. /\ Inside(t) /\ op[t] \in BreakOps /\ UNCHANGED <<op, file>>
        /\ local' = [local EXCEPT ![t].strays = @ + Strays(t)]
    BY <1>6 DEF SetBreak, ClearBreak, IoctlBreak, Inside, BreakOps, fileVars
  <2>2. \A u \in Threads \ {t} : op[u] = "sendBreak" => ~Inside(u)
    BY <2>1, BreaksExclude DEF BreakOps
  <2>3. /\ local'[t].number = local[t].number
        /\ local'[t].strays = local[t].strays + Strays(t)
    BY <1>0, <2>1
  <2>4. \A u \in Threads \ {t} : pc'[u] = pc[u] /\ result'[u] = result[u]
    BY <1>0, <1>6 DEF SetBreak, ClearBreak, Deliver
  <2>5. \A u \in Threads \ {t} : op[u] = "sendBreak" => pc'[u] \in {"idle", "enter"}
    BY <2>2, <2>4 DEF Inside
  <2>6. CASE op[t] # "sendBreak"
    BY <2>1, <2>5, <2>6 DEF BreakInv
  <2>7. CASE op[t] = "sendBreak" /\ SetBreak(t)
    <3>1. PICK r \in IoctlResults(local[t].number) :
            /\ IoctlBreak(t, TRUE, r)
            /\ \/ r = 0 /\ Goto(t, "sleep") /\ result' = result
               \/ r # 0 /\ Deliver(t, throw_ClosedOrNativeException, 0)
      BY <2>7 DEF SetBreak
    <3>2. CASE r = 0
      <4>1. local[t].number = PORT_FD
        BY <3>1, <3>2 DEF IoctlResults, Unopened, EBADF, FramesOK
      <4>2. file = "port" => break' = TRUE
        BY <3>1, <3>2, <4>1 DEF IoctlBreak, Touches
      <4>3. pc'[t] = "sleep"
        BY <1>0, <3>1, <3>2
      <4>. QED BY <2>1, <2>3, <2>5, <4>1, <4>2, <4>3 DEF BreakInv
    <3>3. CASE r # 0
      <4>1. pc'[t] \in {"end", "leave"} /\ result'[t].outcome # "ok"
        BY <1>0, <3>1, <3>3 DEF Deliver, Caught, throw_ClosedOrNativeException
      <4>. QED BY <2>1, <2>5, <4>1 DEF BreakInv
    <3>. QED BY <3>1, <3>2, <3>3
  <2>8. CASE op[t] = "sendBreak" /\ ClearBreak(t)
    <3>1. PICK r \in IoctlResults(local[t].number) :
            /\ IoctlBreak(t, FALSE, r)
            /\ Deliver(t, IF r = 0 THEN "ok" ELSE throw_ClosedOrNativeException, 0)
      BY <2>8 DEF ClearBreak
    <3>2. local[t].number = PORT_FD
      BY <2>8 DEF ClearBreak, BreakInv
    <3>3. r = 0 /\ file = "port" => break' = FALSE
      BY <3>1, <3>2 DEF IoctlBreak, Touches
    <3>4. pc'[t] \in {"end", "leave"} /\ (r # 0 => result'[t].outcome # "ok")
      BY <1>0, <3>1 DEF Deliver, Caught, throw_ClosedOrNativeException
    <3>. QED BY <2>1, <2>5, <3>3, <3>4 DEF BreakInv
  <2>. QED BY <1>6, <2>6, <2>7, <2>8
<1>7. CASE End(t, frame) \/ Leave(t, frame)
  <2>1. /\ UNCHANGED <<file, break>> /\ op'[t] = "none"
        /\ \A u \in Threads \ {t} : /\ pc'[u] = pc[u] /\ op'[u] = op[u]
                                     /\ result'[u] = result[u] /\ local'[u] = local[u]
    BY <1>0, <1>7 DEF End, Leave, Return, EndBlocking, portVars, fileVars, deviceVars
  <2>. QED BY <2>1 DEF BreakInv
<1>. QED BY <1>1, <1>2, <1>3, <1>4, <1>5, <1>6, <1>7 DEF CommonStep

LEMMA BreakIsHeld == BreakInv => BreakHeldAndEnded
BY DEF BreakInv, BreakHeldAndEnded, Decided, Answer, EndOutcome, At, Ended

------------------------------------------------------------------------------
(* The close and the cleaner. *)

\* What the close and the cleaner have done to the number: it names the port until the last
\* statement of the close, and only a cleaner that ran leaves a field fd that names nothing.
FileInv ==
  /\ ~closed => closing = "open"
  /\ closing \in {"open", "mark"} => fd = PORT_FD
  /\ closing \notin {"open", "mark", "done"} => fd = INVALID_FD
  /\ closing \notin {"open", "done"} => file = "port" /\ fdCleaner # "ran"
  /\ closing = "open" => file = "port" \/ fdCleaner = "ran"
  /\ file # "port" => fd = INVALID_FD \/ fdCleaner = "ran"
  /\ fdCleaner = "ran" => \A t \in Threads : pc[t] = "idle"

LEMMA InitFile == ASSUME NEW frame, SocketInit(frame) PROVE FileInv
BY DEF SocketInit, PortInit, FileInv

LEMMA StepFile ==
  ASSUME FileInv, NEW t \in Threads, pc[t] # "idle", KeepsFile, Starts
  PROVE  FileInv'
BY DEF FileInv, KeepsFile, Starts

LEMMA OthersFile ==
  ASSUME FileInv, NEW frame,
         \/ \E t \in Threads : Call(t, frame)
         \/ Others /\ UNCHANGED callVars
         \/ closeFds
  PROVE  FileInv'
<1>. USE DEF FileInv, portVars, fileVars, deviceVars, closeVars, callVars
<1>1. ASSUME NEW t \in Threads, Call(t, frame) PROVE FileInv'
  BY <1>1 DEF Call
<1>2. CASE closeFds
  BY <1>2 DEF closeFds, At, PORT_FD, INVALID_FD
<1>3. CASE Others /\ UNCHANGED callVars
  <2>1. CASE fdCleaner # "ran" /\ Close
    BY <1>3, <2>1 DEF Close, StartClosing
  <2>2. ASSUME fdCleaner # "ran", NEW t \in Threads, Interrupt(t)
        PROVE  FileInv'
    BY <1>3, <2>2 DEF Interrupt, StartClosing
  <2>3. CASE Environment
    BY <1>3, <2>3 DEF Environment, Receive, Transmit, Unplug, ReuseNumber
  <2>. QED BY <1>3, <2>1, <2>2, <2>3 DEF Others
<1>. QED BY <1>1, <1>2, <1>3

\* The cleaner holds the number as long as it names the port; while close0 is under way
\* nobody else closes it, and when the cleaner has run there are no calls left.
ReleaseInv ==
  /\ fdCleaner \in {PORT_FD, INVALID_FD, "ran"}
  /\ fdCleaner = PORT_FD <=> file = "port"
  /\ ~closed => closing = "open"
  /\ closing = "open" => fdCleaner # INVALID_FD
  /\ closing \notin {"open", "done"} => fdCleaner = PORT_FD
  /\ fdCleaner = "ran" => \A t \in Threads : pc[t] = "idle"

LEMMA InitReleased == ASSUME NEW frame, SocketInit(frame) PROVE ReleaseInv
BY DEF SocketInit, PortInit, ReleaseInv, PORT_FD, INVALID_FD

LEMMA StepRelease ==
  ASSUME ReleaseInv, NEW t \in Threads, pc[t] # "idle", KeepsFile, Starts
  PROVE  ReleaseInv' /\ file' = file
BY DEF ReleaseInv, KeepsFile, Starts

LEMMA OthersRelease ==
  ASSUME ReleaseInv, NEW frame,
         \/ \E t \in Threads : Call(t, frame)
         \/ Others /\ UNCHANGED callVars
         \/ closeFds
  PROVE  ReleaseInv' /\ (file = "other" => file' = "other")
<1>. USE DEF ReleaseInv, portVars, fileVars, deviceVars, closeVars, callVars
<1>1. ASSUME NEW t \in Threads, Call(t, frame) PROVE ReleaseInv' /\ file' = file
  BY <1>1 DEF Call
<1>2. CASE closeFds
  BY <1>2 DEF closeFds, At, PORT_FD, INVALID_FD
<1>3. CASE Others /\ UNCHANGED callVars
  <2>1. CASE fdCleaner # "ran" /\ Close
    BY <1>3, <2>1 DEF Close, StartClosing
  <2>2. ASSUME fdCleaner # "ran", NEW t \in Threads, Interrupt(t)
        PROVE  ReleaseInv' /\ file' = file
    BY <1>3, <2>2 DEF Interrupt, StartClosing
  <2>3. CASE Environment
    BY <1>3, <2>3 DEF Environment, Receive, Transmit, Unplug, ReuseNumber
  <2>. QED BY <1>3, <2>1, <2>2, <2>3 DEF Others
<1>. QED BY <1>1, <1>2, <1>3
===============================================================================
