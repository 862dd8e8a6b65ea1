---------------------- MODULE WinSerialPortSocketProofs ----------------------
(***************************************************************************)
(* Theorems about the Windows socket, for any threads, capacities, buffers *)
(* and timeouts: what the calls report of a transfer and of a close, the   *)
(* event objects, the break, who closes the handle, and that the socket    *)
(* implements SerialChannel.                                               *)
(***************************************************************************)
EXTENDS WinSerialPortSocket, AbstractSerialPortSocketProofs, FiniteSetTheorems

Frames == [number : {PORT_FD, INVALID_FD}, rem : 0..MaxLength,
           request : Requests, named : {"port", "other"},
           got : 0..MaxLength, other : 0..MaxLength, strays : Nat]

Waiting == {t \in Threads : At(t, "wait")}

\* The waiting calls are finitely many, and each has its event.
EventsInv == IsFiniteSet(Waiting) /\ events = Cardinality(Waiting)

\* Bytes are counted from zero, while the request is with the driver; a request that went
\* to another file counts as a stray.
Counted(t) ==
  /\ pc[t] \in {"idle", "enter", "selfClose", "load"} \/ (At(t, "first") /\ IsTransfer(t))
       => local[t].got = 0 /\ local[t].strays = 0
  /\ At(t, "wait") => IsTransfer(t) /\ local[t].got <= local[t].rem
  /\ At(t, "wait") /\ local[t].named = "other" => local[t].strays > 0
  /\ pc[t] \in {"sleep", "again"} => op[t] = "sendBreak"
  /\ Ended(t) /\ IsTransfer(t) /\ local[t].strays = 0
       /\ result[t].outcome \in {"ok", "timeout", "tooFew"} => result[t].reported = local[t].got

\* The close has done its work on the field fd, or failed for good.
Forgotten == fd = INVALID_FD \/ CloseFailed

\* A call that meets an error of a handle that is closed finds the field fd invalid.
Excused(t) ==
  /\ pc[t] \in {"first", "wait", "sleep", "again"} /\ local[t].number = INVALID_FD
       => Forgotten
  /\ At(t, "wait") /\ local[t].named = "other" => Forgotten
  /\ local[t].request = "failed" => hungUp \/ Forgotten
  /\ Ended(t) /\ result[t].outcome \in {"ioError", "interruptedIO"} => hungUp \/ CloseFailed

Good(t) == Counted(t) /\ Excused(t)

CallsInv == /\ TypeOK
            /\ EventsInv
            /\ ResultInv
            /\ FileInv
            /\ \A t \in Threads : Good(t)

------------------------------------------------------------------------------
\* A failed or finished close and an unplugged adapter stay so.
Stable == (Forgotten => Forgotten') /\ (CloseFailed => CloseFailed') /\ (hungUp => hungUp')

LEMMA KeptFile == ASSUME FileInv, KeepsFile, Starts PROVE Stable
BY DEF FileInv, KeepsFile, Starts, Stable, Forgotten, CloseFailed

LEMMA KeptGood ==
  ASSUME NEW u \in Threads, Good(u), Stable,
         pc'[u] = pc[u], op'[u] = op[u], local'[u] = local[u], result'[u] = result[u]
  PROVE  Good(u)'
BY DEF Good, Counted, Excused, Stable, At, IsTransfer, Ended

\* A step that does not wait, before or after, leaves the events to the others.
LEMMA KeptEvents ==
  ASSUME EventsInv, DOMAIN pc = Threads, NEW t \in Threads, NEW l,
         pc' = [pc EXCEPT ![t] = l], ~At(t, "wait"), l # "wait", UNCHANGED events
  PROVE  EventsInv'
<1>1. Waiting' = Waiting
  BY DEF Waiting, At
<1>. QED BY <1>1 DEF EventsInv

\* What a step of t leaves alone.
OnlyBy(t) == \A u \in Threads \ {t} : /\ pc'[u] = pc[u] /\ op'[u] = op[u]
                                      /\ local'[u] = local[u] /\ result'[u] = result[u]

LEMMA CallsKept ==
  ASSUME CallsInv, NEW t \in Threads, OnlyBy(t), Stable,
         TypeOK', EventsInv', FileInv', ~Ended(t)' => result'[t] = NoResult, Good(t)'
  PROVE  CallsInv'
<1>1. \A u \in Threads : Good(u)'
  BY KeptGood DEF OnlyBy, CallsInv
<1>2. ResultInv'
  BY DEF OnlyBy, CallsInv, ResultInv, Ended
<1>. QED BY <1>1, <1>2 DEF CallsInv

LEMMA Framed == CallsInv => /\ DOMAIN pc = Threads /\ DOMAIN local = Threads
                            /\ DOMAIN op = Threads /\ DOMAIN result = Threads
                            /\ local \in [Threads -> Frames]
                            /\ SocketTypeOK
BY DEF CallsInv, TypeOK, SocketTypeOK, Frames

LEMMA FreshFrame == NoLocals \in Frames
BY CallAssumption DEF NoLocals, Frames, Requests

\* How the type of the frames is kept.
LEMMA TypeKept ==
  ASSUME TypeOK, NEW t \in Threads, SocketTypeOK', events' \in Nat, abandoned' \subseteq Dir,
         NEW l \in Labels, pc' = [pc EXCEPT ![t] = l],
         NEW f \in Frames, local' = [local EXCEPT ![t] = f],
         l = "wait" <=> f.request # "none"
  PROVE  TypeOK'
<1>1. pc' \in [Threads -> Labels]
  BY DEF TypeOK
<1>2. local' \in [Threads -> Frames]
  BY DEF TypeOK, Frames
<1>3. \A u \in Threads : pc'[u] = "wait" <=> local'[u].request # "none"
  BY DEF TypeOK, At
<1>. QED BY <1>1, <1>2, <1>3 DEF TypeOK, Frames, At

LEMMA CallGood ==
  ASSUME CallsInv, NEW t \in Threads, Call(t, NoLocals), UNCHANGED driverVars
  PROVE  CallsInv'
<1>1. \E o \in Offered, n \in 0..MaxLength :
        /\ op' = [op EXCEPT ![t] = o]
        /\ local' = [local EXCEPT ![t] = [NoLocals EXCEPT !.rem = n]]
  <2>1. \A o \in Offered : Arguments(o) \subseteq 0..MaxLength
    BY CallAssumption DEF Arguments
  <2>. QED BY <2>1 DEF Call
<1>a. PICK o \in Offered, n \in 0..MaxLength :
        /\ op' = [op EXCEPT ![t] = o]
        /\ local' = [local EXCEPT ![t] = [NoLocals EXCEPT !.rem = n]]
  BY <1>1
<1>2. /\ pc[t] = "idle" /\ pc' = [pc EXCEPT ![t] = "enter"]
      /\ UNCHANGED <<portVars, fdCleaner, lock, result>>
  BY DEF Call, At, Goto
<1>. DEFINE f == [NoLocals EXCEPT !.rem = n]
<1>4. f \in Frames /\ f.request = "none" /\ f.got = 0 /\ f.strays = 0
  BY <1>a, CallAssumption DEF NoLocals, Frames, Requests
<1>5. local' = [local EXCEPT ![t] = f]
  BY <1>a
<1>. HIDE DEF f
<1>6. SocketTypeOK'
  <2>1. op' \in [Threads -> Ops \cup {"none"}]
    BY <1>a, CallAssumption, Framed DEF SocketTypeOK
  <2>. QED BY <1>2, <2>1, Framed DEF SocketTypeOK, PortTypeOK, portVars, fileVars, deviceVars, closeVars
<1>7. TypeOK'
  <2>1. "enter" \in Labels /\ events' \in Nat /\ abandoned' \subseteq Dir /\ TypeOK
    BY DEF Labels, CallsInv, TypeOK, driverVars
  <2>. QED BY <1>2, <1>4, <1>5, <1>6, <2>1, TypeKept
<1>8. EventsInv'
  BY <1>2, KeptEvents, Framed DEF CallsInv, At, driverVars
<1>9. FileInv' /\ Stable
  <2>1. FileInv'
    BY OthersFile DEF CallsInv
  <2>2. UNCHANGED <<fd, closing, hungUp>>
    BY <1>2 DEF portVars, fileVars, deviceVars, closeVars
  <2>. QED BY <2>1, <2>2 DEF Stable, Forgotten, CloseFailed
<1>10. OnlyBy(t) /\ pc'[t] = "enter" /\ local'[t] = f /\ result'[t] = result[t]
  BY <1>a, <1>2, <1>5, Framed DEF OnlyBy
<1>11. Good(t)'
  BY <1>4, <1>10 DEF Good, Counted, Excused, At, Ended
<1>12. ~Ended(t)' => result'[t] = NoResult
  BY <1>2, <1>10 DEF CallsInv, ResultInv, Ended
<1>. QED BY <1>7, <1>8, <1>9, <1>10, <1>11, <1>12, CallsKept

LEMMA CommonGood ==
  ASSUME CallsInv, NEW t \in Threads, CommonStep(t, NoLocals), UNCHANGED driverVars
  PROVE  CallsInv'
<1>0. SocketTypeOK /\ ResultInv /\ FileInv /\ Good(t)
  BY Framed DEF CallsInv
<1>1. PICK l \in CommonLabels \ {"enter"} : pc' = [pc EXCEPT ![t] = l]
  BY <1>0, CommonEffect
<1>2. /\ pc[t] \in CommonLabels \ {"idle"} /\ SocketTypeOK'
      /\ KeepsFile /\ Starts
      /\ \/ UNCHANGED <<local, op>>
         \/ local' = [local EXCEPT ![t].strays = @ + Strays(t)] /\ op' = op
         \/ local' = [local EXCEPT ![t] = NoLocals] /\ Goto(t, "idle")
  BY <1>0, CommonEffect
<1>3. /\ OnlyBy(t)
      /\ pc'[t] \in {"selfClose", "load", "sleep", "again", "idle", "end", "leave"}
      /\ pc'[t] \in {"selfClose", "load"} =>
           pc[t] \in {"enter", "selfClose"} /\ UNCHANGED <<op, local>>
      /\ pc'[t] = "sleep" => pc[t] = "first" /\ op[t] = "sendBreak" /\ op' = op
      /\ pc'[t] = "again" => pc[t] = "sleep" /\ op' = op
      /\ pc'[t] = "idle" => local'[t] = NoLocals
  BY <1>0, CommonCourse, Framed DEF OnlyBy
<1>4. pc[t] # "idle" /\ pc[t] # "wait" /\ local[t].request = "none"
  BY <1>2 DEF CallsInv, TypeOK, At, CommonLabels
<1>5. \E f \in Frames : /\ local' = [local EXCEPT ![t] = f] /\ f.request = "none"
                        /\ pc'[t] = "idle" \/ f.number = local[t].number
  <2>1. local[t] \in Frames
    BY Framed
  <2>2. CASE UNCHANGED <<local, op>>
    BY <1>4, <2>1, <2>2, Framed
  <2>3. CASE local' = [local EXCEPT ![t].strays = @ + Strays(t)]
    <3>1. [local[t] EXCEPT !.strays = @ + Strays(t)] \in Frames
      BY <2>1 DEF Frames, Strays
    <3>. QED BY <1>4, <2>1, <2>3, <3>1 DEF Frames
  <2>4. CASE local' = [local EXCEPT ![t] = NoLocals] /\ Goto(t, "idle")
    BY <2>4, FreshFrame, Framed DEF Goto, NoLocals
  <2>. QED BY <1>2, <2>2, <2>3, <2>4
<1>6. PICK f \in Frames : /\ local' = [local EXCEPT ![t] = f] /\ f.request = "none"
                          /\ pc'[t] = "idle" \/ f.number = local[t].number
  BY <1>5
<1>7. local'[t] = f /\ pc'[t] = l /\ l # "wait"
  BY <1>1, <1>6, Framed DEF CommonLabels
<1>8. TypeOK'
  <2>1. l \in Labels /\ events' \in Nat /\ abandoned' \subseteq Dir /\ TypeOK
    BY DEF CommonLabels, Labels, CallsInv, TypeOK, driverVars
  <2>. QED BY <1>1, <1>2, <1>6, <1>7, <2>1, TypeKept
<1>9. EventsInv'
  BY <1>1, <1>4, <1>7, KeptEvents, Framed DEF CallsInv, At, driverVars
<1>10. FileInv' /\ Stable
  BY <1>0, <1>2, <1>4, StepFile, KeptFile
<1>11. \/ ~Ended(t) /\ ~Ended(t)' /\ result' = result /\ op' = op
       \/ /\ Ended(t) /\ pc'[t] = "idle" /\ Return(t, NoLocals)
          /\ result' = [result EXCEPT ![t] = NoResult]
       \/ /\ ~Ended(t) /\ Ended(t)' /\ op' = op
          /\ CommonAnswer(t, result'[t])
          /\ result' = [result EXCEPT ![t] = result'[t]]
  BY <1>0, CommonResults, Framed
<1>12. ~Ended(t)' => result'[t] = NoResult
  BY <1>0, <1>11, Framed DEF ResultInv
<1>13. Counted(t)'
  <2>1. Ended(t)' /\ IsTransfer(t)' => result'[t].reported = 0 /\ local'[t] = local[t] /\ local[t].got = 0
    <3>. SUFFICES ASSUME Ended(t)', IsTransfer(t)'
                  PROVE  result'[t].reported = 0 /\ local'[t] = local[t] /\ local[t].got = 0
      OBVIOUS
    <3>1. CommonAnswer(t, result'[t]) /\ op' = op
      BY <1>11 DEF Ended
    <3>2. op[t] \notin BreakOps \cup {"count"}
      BY <3>1 DEF IsTransfer, ReadOps, WriteOps, BreakOps
    <3>. QED BY <1>0, <3>1, <3>2 DEF CommonAnswer, Good, Counted
  <2>2. pc'[t] \in {"idle", "selfClose", "load"} => local'[t].got = 0 /\ local'[t].strays = 0
    BY <1>0, <1>3 DEF Good, Counted, NoLocals
  <2>3. pc'[t] \in {"sleep", "again"} => op'[t] = "sendBreak"
    BY <1>0, <1>3 DEF Good, Counted
  <2>. QED BY <1>3, <1>7, <2>1, <2>2, <2>3 DEF Counted, At
<1>14. Excused(t)'
  <2>1. pc'[t] \in {"sleep", "again"} /\ local'[t].number = INVALID_FD => Forgotten'
    BY <1>0, <1>3, <1>6, <1>7, <1>10 DEF Good, Excused, Stable
  <2>2. ASSUME Ended(t)', result'[t].outcome \in {"ioError", "interruptedIO"}
        PROVE  (hungUp \/ CloseFailed)'
    <3>1. CommonAnswer(t, result'[t])
      BY <1>11, <2>2 DEF Ended
    <3>2. pc[t] \in {"first", "again"} /\ fd # INVALID_FD /\ Refused(local[t].number)
      BY <2>2, <3>1 DEF CommonAnswer
    <3>3. hungUp \/ CloseFailed
      BY <1>0, <1>4, <3>2 DEF Refused, Unopened, FileInv, Good, Excused, Forgotten
    <3>. QED BY <1>10, <3>3 DEF Stable
  <2>. QED BY <1>3, <1>6, <1>7, <2>1, <2>2 DEF Excused, At
<1>. QED BY <1>3, <1>8, <1>9, <1>10, <1>12, <1>13, <1>14, CallsKept DEF Good

------------------------------------------------------------------------------
\* The steps of the native functions that leave the port and the field fd alone.
Untouched == UNCHANGED <<fileVars, break, hungUp, closeVars, fdCleaner, lock>>

LEMMA UntouchedKept ==
  ASSUME CallsInv, NEW t \in Threads, NEW l, pc' = [pc EXCEPT ![t] = l], pc[t] # "idle", Untouched
  PROVE  FileInv' /\ Stable
<1>1. KeepsFile /\ Starts
  BY DEF Untouched, KeepsFile, Starts, fileVars, closeVars
<1>. QED BY <1>1, StepFile, KeptFile DEF CallsInv

LEMMA UntouchedTyped ==
  ASSUME CallsInv, Untouched, UNCHANGED op, inQueue' \in 0..InCapacity, outQueue' \in 0..OutCapacity,
         result' \in [Threads -> [outcome : Exceptions \cup {"none", "ok", "eof"},
                                  reported : 0..MaxLength]]
  PROVE  SocketTypeOK'
BY Framed DEF Untouched, SocketTypeOK, PortTypeOK, fileVars, closeVars

LEMMA NoDrainGood == ASSUME CallsInv, NEW t \in Threads, NoDrain(t) PROVE CallsInv'
<1>1. /\ pc[t] = "load" /\ op[t] \in DrainOps
      /\ UNCHANGED <<portVars, events, abandoned, fdCleaner, lock, op, local>>
      /\ Deliver(t, "ok", 0)
  BY DEF NoDrain, At, driverVars
<1>2. /\ result' \in [Threads -> [outcome : Exceptions \cup {"none", "ok", "eof"},
                                  reported : 0..MaxLength]]
      /\ \E l \in {"end", "leave"} : pc' = [pc EXCEPT ![t] = l]
      /\ result' = [result EXCEPT ![t] = [outcome  |-> Caught(op[t], "ok", 0), reported |-> 0]]
  BY <1>1, DeliverTyped, Framed, CallAssumption DEF Exceptions
<1>3. PICK l \in {"end", "leave"} : pc' = [pc EXCEPT ![t] = l]
  BY <1>2
<1>4. Untouched
  BY <1>1 DEF Untouched, portVars, deviceVars
<1>5. SocketTypeOK'
  BY <1>1, <1>2, <1>4, UntouchedTyped, Framed DEF SocketTypeOK, PortTypeOK, portVars, deviceVars
<1>6. TypeOK'
  <2>1. l \in Labels /\ l # "wait" /\ events' \in Nat /\ abandoned' \subseteq Dir /\ TypeOK
    BY <1>1 DEF Labels, CallsInv, TypeOK
  <2>2. local' = [local EXCEPT ![t] = local[t]] /\ local[t] \in Frames
    BY <1>1, Framed
  <2>3. local[t].request = "none"
    BY <1>1, <2>1 DEF TypeOK, At
  <2>. QED BY <1>3, <1>5, <2>1, <2>2, <2>3, TypeKept
<1>7. EventsInv'
  BY <1>1, <1>3, KeptEvents, Framed DEF CallsInv, At
<1>8. FileInv' /\ Stable
  BY <1>1, <1>3, <1>4, UntouchedKept
<1>9. OnlyBy(t) /\ pc'[t] \in {"end", "leave"} /\ result'[t].outcome \in {"ok", "eof"}
  BY <1>1, <1>2, <1>3, Framed DEF OnlyBy, Caught
<1>10. Good(t)'
  <2>1. ~IsTransfer(t)' /\ local'[t].request = "none"
    BY <1>1, Framed DEF IsTransfer, DrainOps, ReadOps, WriteOps, CallsInv, TypeOK, At
  <2>. QED BY <1>9, <2>1 DEF Good, Counted, Excused, At, Ended
<1>. QED BY <1>6, <1>7, <1>8, <1>9, <1>10, CallsKept DEF Ended

LEMMA LoadFdGood == ASSUME CallsInv, NEW t \in Threads, LoadFd(t) PROVE CallsInv'
<1>1. /\ pc[t] = "load" /\ pc' = [pc EXCEPT ![t] = "first"]
      /\ local' = [local EXCEPT ![t].number = fd]
      /\ UNCHANGED <<portVars, events, abandoned, fdCleaner, lock, op, result>>
  BY DEF LoadFd, At, Goto, driverVars
<1>. DEFINE f == [local[t] EXCEPT !.number = fd]
<1>2. Untouched
  BY <1>1 DEF Untouched, portVars, deviceVars
<1>3. SocketTypeOK'
  BY <1>1, <1>2, UntouchedTyped, Framed DEF SocketTypeOK, PortTypeOK, portVars, deviceVars
<1>4. local[t] \in Frames /\ local[t].request = "none" /\ fd \in {PORT_FD, INVALID_FD}
  BY <1>1, Framed DEF CallsInv, TypeOK, SocketTypeOK, PortTypeOK, At
<1>5. /\ f \in Frames /\ f.request = "none" /\ f.number = fd
      /\ f.got = local[t].got /\ f.strays = local[t].strays
  BY <1>4 DEF Frames
<1>6. local' = [local EXCEPT ![t] = f]
  BY <1>1
<1>. HIDE DEF f
<1>7. TypeOK'
  <2>1. "first" \in Labels /\ events' \in Nat /\ abandoned' \subseteq Dir /\ TypeOK
    BY <1>1 DEF Labels, CallsInv, TypeOK
  <2>2. "first" = "wait" <=> f.request # "none"
    BY <1>5
  <2>3. pc' = [pc EXCEPT ![t] = "first"] /\ f \in Frames
    BY <1>1, <1>5
  <2>. QED BY <1>3, <1>6, <2>1, <2>2, <2>3, TypeKept, Zenon
<1>8. EventsInv'
  BY <1>1, KeptEvents, Framed DEF CallsInv, At
<1>9. FileInv' /\ Stable
  BY <1>1, <1>2, UntouchedKept
<1>10. OnlyBy(t) /\ pc'[t] = "first" /\ local'[t] = f /\ result'[t] = result[t]
  BY <1>1, <1>6, Framed DEF OnlyBy
<1>11. Good(t)'
  <2>1. local[t].got = 0 /\ local[t].strays = 0
    BY <1>1 DEF CallsInv, Good, Counted
  <2>2. fd' = fd
    BY <1>1 DEF portVars, fileVars
  <2>. QED BY <1>5, <1>10, <2>1, <2>2 DEF Good, Counted, Excused, Forgotten, At, Ended
<1>. QED BY <1>1, <1>7, <1>8, <1>9, <1>10, <1>11, CallsKept DEF CallsInv, ResultInv, Ended

\* The number of a call names another file only when the close has forgotten it.
LEMMA StrayForgotten ==
  ASSUME CallsInv, NEW t \in Threads, pc[t] # "idle", file # "port"
  PROVE  fd = INVALID_FD
BY DEF CallsInv, FileInv

LEMMA IssueGood == ASSUME CallsInv, NEW t \in Threads, Issue(t) PROVE CallsInv'
<1>1. /\ pc[t] = "first" /\ pc' = [pc EXCEPT ![t] = "wait"] /\ IsTransfer(t)
      /\ ~Unopened(local[t].number) /\ events' = events + 1
      /\ local' = [local EXCEPT ![t].request = "pending", ![t].named = file,
                                ![t].strays = @ + Strays(t)]
      /\ UNCHANGED <<portVars, abandoned, fdCleaner, lock, op, result>>
  BY DEF Issue, At, Goto
<1>. DEFINE f == [local[t] EXCEPT !.request = "pending", !.named = file, !.strays = @ + Strays(t)]
<1>2. Untouched
  BY <1>1 DEF Untouched, portVars, deviceVars
<1>3. SocketTypeOK'
  BY <1>1, <1>2, UntouchedTyped, Framed DEF SocketTypeOK, PortTypeOK, portVars, deviceVars
<1>4. /\ local[t] \in Frames /\ local[t].number = PORT_FD /\ file \in {"port", "other"}
      /\ local[t].got = 0 /\ local[t].strays = 0
  <2>1. local[t] \in Frames /\ file \in {"port", "free", "other"}
    BY Framed DEF SocketTypeOK, PortTypeOK
  <2>2. local[t].got = 0 /\ local[t].strays = 0
    BY <1>1 DEF CallsInv, Good, Counted, At
  <2>. QED BY <1>1, <2>1, <2>2 DEF Unopened, Frames
<1>a. Strays(t) \in Nat /\ 0 + Strays(t) = Strays(t)
  BY DEF Strays
<1>5. /\ f \in Frames /\ f.request = "pending" /\ f.number = PORT_FD /\ f.named = file
      /\ f.got = 0 /\ f.rem = local[t].rem /\ f.strays = Strays(t)
  BY <1>4, <1>a DEF Frames, Requests
<1>6. local' = [local EXCEPT ![t] = f]
  BY <1>1
<1>. HIDE DEF f
<1>7. TypeOK'
  <2>1. "wait" \in Labels /\ events' \in Nat /\ abandoned' \subseteq Dir /\ TypeOK
    BY <1>1 DEF Labels, CallsInv, TypeOK
  <2>. QED BY <1>1, <1>3, <1>5, <1>6, <2>1, TypeKept
<1>8. EventsInv'
  <2>1. Waiting' = Waiting \cup {t} /\ t \notin Waiting
    BY <1>1, Framed DEF Waiting, At
  <2>. QED BY <1>1, <2>1, FS_AddElement DEF CallsInv, EventsInv
<1>9. FileInv' /\ Stable
  BY <1>1, <1>2, UntouchedKept
<1>10. OnlyBy(t) /\ pc'[t] = "wait" /\ local'[t] = f /\ result'[t] = result[t]
  BY <1>1, <1>6, Framed DEF OnlyBy
<1>11. Good(t)'
  <2>1. file = "other" => Strays(t) = 1 /\ fd = INVALID_FD
    BY <1>1, <1>4, StrayForgotten DEF Strays
  <2>2. f.rem \in Nat /\ fd' = fd /\ op' = op
    BY <1>1, <1>5 DEF Frames, portVars, fileVars
  <2>3. Counted(t)'
    <3>a. IsTransfer(t)'
      BY <1>1, <2>2 DEF IsTransfer
    <3>b. 0 <= f.rem
      BY <2>2
    <3>1. local'[t].got <= local'[t].rem /\ IsTransfer(t)'
      BY <1>5, <1>10, <3>a, <3>b
    <3>2. local'[t].named = "other" => local'[t].strays > 0
      BY <1>5, <1>10, <2>1
    <3>. QED BY <1>10, <3>1, <3>2 DEF Counted, At, Ended
  <2>4. Excused(t)'
    BY <1>5, <1>10, <2>1, <2>2, <1>9 DEF Excused, Forgotten, At, Ended, PORT_FD, INVALID_FD
  <2>. QED BY <2>3, <2>4 DEF Good
<1>. QED BY <1>1, <1>7, <1>8, <1>9, <1>10, <1>11, CallsKept DEF CallsInv, ResultInv, Ended

\* A transfer ends, with the bytes it has moved or an error that is one.
LEMMA AnswerGood ==
  ASSUME CallsInv, NEW t \in Threads, pc[t] \in {"first", "wait"}, IsTransfer(t),
         Untouched, UNCHANGED <<op, inQueue, outQueue>>,
         EventsInv', events' \in Nat, abandoned' \subseteq Dir,
         NEW o \in Exceptions \cup {"ok"}, NEW n \in 0..MaxLength, Deliver(t, o, n),
         NEW f \in Frames, local' = [local EXCEPT ![t] = f], f.request = "none",
         f.strays = 0 /\ o \in {"ok", "timeout", "tooFew"} => n = f.got,
         o \in {"ioError", "interruptedIO"} => hungUp \/ CloseFailed
  PROVE  CallsInv'
<1>1. /\ result' \in [Threads -> [outcome : Exceptions \cup {"none", "ok", "eof"},
                                  reported : 0..MaxLength]]
      /\ \E l \in {"end", "leave"} : pc' = [pc EXCEPT ![t] = l]
      /\ result' = [result EXCEPT ![t] = [outcome  |-> Caught(op[t], o, n), reported |-> n]]
  BY DeliverTyped, Framed
<1>2. PICK l \in {"end", "leave"} : pc' = [pc EXCEPT ![t] = l]
  BY <1>1
<1>3. SocketTypeOK'
  BY <1>1, UntouchedTyped, Framed DEF SocketTypeOK, PortTypeOK
<1>4. TypeOK'
  <2>1. l \in Labels /\ l # "wait" /\ TypeOK
    BY DEF Labels, CallsInv, TypeOK
  <2>. QED BY <1>2, <1>3, <2>1, TypeKept
<1>5. FileInv' /\ Stable
  BY <1>2, UntouchedKept
<1>6. /\ OnlyBy(t) /\ pc'[t] \in {"end", "leave"} /\ local'[t] = f /\ op' = op
      /\ result'[t] = [outcome  |-> Caught(op[t], o, n), reported |-> n]
  BY <1>1, <1>2, Framed DEF OnlyBy
<1>7. /\ result'[t].reported = n
      /\ result'[t].outcome \in {o, "eof"}
  BY <1>6 DEF Caught
<1>8. Good(t)'
  BY <1>5, <1>6, <1>7 DEF Good, Counted, Excused, Stable, At, Ended
<1>. QED BY <1>4, <1>5, <1>6, <1>8, CallsKept DEF Ended

LEMMA IssueFailsGood == ASSUME CallsInv, NEW t \in Threads, IssueFails(t) PROVE CallsInv'
<1>1. /\ pc[t] = "first" /\ IsTransfer(t)
      /\ Refused(local[t].number)
      /\ local' = [local EXCEPT ![t].strays = @ + Strays(t)]
      /\ UNCHANGED <<portVars, events, abandoned, fdCleaner, lock, op>>
  BY DEF IssueFails, At, Refused, driverVars
<1>. DEFINE o == Failure(t, IF op[t] \in ReadOps THEN "ioError" ELSE "interruptedIO")
            f == [local[t] EXCEPT !.strays = @ + Strays(t)]
<1>2. Deliver(t, o, 0)
  BY DEF IssueFails
<1>3. /\ o \in {"asyncClose", "ioError", "interruptedIO"}
      /\ o \in {"ioError", "interruptedIO"} => fd # INVALID_FD
  BY DEF Failure
<1>4. f \in Frames /\ f.request = "none"
  <2>1. local[t] \in Frames /\ Strays(t) \in Nat
    BY Framed DEF Strays
  <2>2. local[t].request = "none"
    BY <1>1 DEF CallsInv, TypeOK, At
  <2>. QED BY <2>1, <2>2 DEF Frames
<1>5. local' = [local EXCEPT ![t] = f]
  BY <1>1
<1>. HIDE DEF o, f
<1>6. EventsInv' /\ events' \in Nat /\ abandoned' \subseteq Dir
  <2>1. PICK l \in {"end", "leave"} : pc' = [pc EXCEPT ![t] = l]
    BY <1>2 DEF Deliver, Goto
  <2>. QED BY <1>1, <2>1, KeptEvents, Framed DEF CallsInv, TypeOK, At
<1>7. o \in {"ioError", "interruptedIO"} => hungUp \/ CloseFailed
  <2>1. fd # INVALID_FD => file = "port"
    BY <1>1, StrayForgotten
  <2>2. local[t].number = INVALID_FD => Forgotten
    BY <1>1 DEF CallsInv, Good, Excused
  <2>. QED BY <1>1, <1>3, <2>1, <2>2 DEF Refused, Unopened, Forgotten
<1>8. Untouched /\ UNCHANGED <<op, inQueue, outQueue>>
  BY <1>1 DEF Untouched, portVars, deviceVars
<1>9. o \in Exceptions \cup {"ok"} /\ ~(o \in {"ok", "timeout", "tooFew"}) /\ 0 \in 0..MaxLength
  BY <1>3, CallAssumption DEF Exceptions
<1>. QED BY <1>1, <1>2, <1>4, <1>5, <1>6, <1>7, <1>8, <1>9, AnswerGood

\* A call that waits closes its event, and the OVERLAPPED is no longer its own.
Ends(t) == /\ pc[t] = "wait"
           /\ local' = [local EXCEPT ![t].request = "none"]
           /\ events' = events - 1
           /\ UNCHANGED <<portVars, fdCleaner, lock, op>>

LEMMA WaitEnds ==
  ASSUME CallsInv, NEW t \in Threads, Ends(t), abandoned' \subseteq Dir,
         NEW o \in Exceptions \cup {"ok"}, NEW n \in 0..MaxLength, Deliver(t, o, n),
         local[t].strays = 0 /\ o \in {"ok", "timeout", "tooFew"} => n = local[t].got,
         o \in {"ioError", "interruptedIO"} => hungUp \/ CloseFailed
  PROVE  CallsInv'
<1>1. local[t] \in Frames /\ IsTransfer(t) /\ pc[t] = "wait"
  BY Framed DEF Ends, CallsInv, Good, Counted, At
<1>2. \E f \in Frames : /\ local' = [local EXCEPT ![t] = f] /\ f.request = "none"
                        /\ f.got = local[t].got /\ f.strays = local[t].strays
  <2>. DEFINE g == [local[t] EXCEPT !.request = "none"]
  <2>1. /\ g \in Frames /\ g.request = "none" /\ g.got = local[t].got
        /\ g.strays = local[t].strays
    BY <1>1 DEF Frames, Requests
  <2>2. local' = [local EXCEPT ![t] = g]
    BY DEF Ends
  <2>. QED BY <2>1, <2>2
<1>3. PICK f \in Frames : /\ local' = [local EXCEPT ![t] = f] /\ f.request = "none"
                         /\ f.got = local[t].got /\ f.strays = local[t].strays
  BY <1>2
<1>4. EventsInv' /\ events' \in Nat
  <2>1. PICK l \in {"end", "leave"} : pc' = [pc EXCEPT ![t] = l]
    BY DEF Deliver, Goto
  <2>2. Waiting' = Waiting \ {t} /\ t \in Waiting
    BY <1>1, <2>1, Framed DEF Waiting, At
  <2>3. /\ IsFiniteSet(Waiting \ {t})
        /\ Cardinality(Waiting \ {t}) = Cardinality(Waiting) - 1
    BY <2>2, FS_RemoveElement DEF CallsInv, EventsInv
  <2>4. Cardinality(Waiting \ {t}) \in Nat
    BY <2>3, FS_CardinalityType
  <2>. QED BY <2>2, <2>3, <2>4 DEF Ends, CallsInv, EventsInv
<1>5. Untouched /\ UNCHANGED <<op, inQueue, outQueue>>
  BY DEF Ends, Untouched, portVars, deviceVars
<1>6. /\ pc[t] \in {"first", "wait"}
      /\ f.strays = 0 /\ o \in {"ok", "timeout", "tooFew"} => n = f.got
  BY <1>1, <1>3
<1>. QED BY <1>1, <1>3, <1>4, <1>5, <1>6, AnswerGood

LEMMA AwaitGood == ASSUME CallsInv, NEW t \in Threads, Await(t) PROVE CallsInv'
<1>1. pc[t] = "wait" /\ Ends(t) /\ abandoned' = abandoned
  BY DEF Await, Ends, At
<1>2. /\ local[t] \in Frames /\ abandoned' \subseteq Dir
      /\ local[t].named = "other" => local[t].strays > 0
      /\ local[t].request = "failed" => hungUp \/ Forgotten
  BY <1>1, Framed DEF CallsInv, TypeOK, Good, Counted, Excused, At
<1>3. Moved(t) \in 0..MaxLength /\ (local[t].strays = 0 => Moved(t) = local[t].got)
  BY <1>2 DEF Moved, Frames
<1>4. \A o : Failure(t, o) \in {o, "asyncClose"}
  BY DEF Failure
<1>5. 0 \in 0..MaxLength /\ {"ok", "timeout", "tooFew", "asyncClose", "interruptedIO"}
                                \subseteq Exceptions \cup {"ok"}
  BY CallAssumption DEF Exceptions
<1>6. PICK outcome \in Outcomes(t) : Deliver(t, outcome[1], outcome[2])
  BY DEF Await
<1>7. \E o \in Exceptions \cup {"ok"}, n \in 0..MaxLength :
        /\ outcome = <<o, n>>
        /\ local[t].strays = 0 /\ o \in {"ok", "timeout", "tooFew"} => n = local[t].got
        /\ o \in {"ioError", "interruptedIO"} => hungUp \/ CloseFailed
  <2>1. CASE local[t].request = "failed"
    <3>1. Failure(t, "interruptedIO") = "interruptedIO" => hungUp \/ CloseFailed
      BY <1>2, <2>1 DEF Failure, Forgotten
    <3>2. PICK n \in 0..MaxLength : outcome = <<Failure(t, "interruptedIO"), n>>
      BY <1>3, <1>5, <2>1 DEF Outcomes
    <3>. QED BY <1>4, <1>5, <3>1, <3>2
  <2>2. CASE local[t].request # "failed" /\ op[t] \in ReadOps
    <3>1. outcome = ReadOutcome(t)
      BY <2>2 DEF Outcomes
    <3>2. CASE Moved(t) > 0
      BY <1>3, <1>5, <3>1, <3>2 DEF ReadOutcome
    <3>3. CASE ~(Moved(t) > 0)
      <4>1. Moved(t) = 0 /\ outcome = <<Failure(t, "timeout"), 0>>
        BY <1>3, <3>1, <3>3 DEF ReadOutcome
      <4>. QED BY <1>3, <1>4, <1>5, <4>1
    <3>. QED BY <3>2, <3>3
  <2>3. CASE local[t].request # "failed" /\ op[t] \notin ReadOps
    <3>1. outcome \in WriteOutcomes(t)
      BY <2>3 DEF Outcomes
    <3>2. \E o \in {"ok", "timeout", "tooFew", "asyncClose"} : outcome = <<o, Moved(t)>>
      BY <1>4, <3>1 DEF WriteOutcomes
    <3>. QED BY <1>3, <1>5, <3>2
  <2>. QED BY <2>1, <2>2, <2>3
<1>8. PICK o \in Exceptions \cup {"ok"}, n \in 0..MaxLength :
        /\ outcome = <<o, n>>
        /\ local[t].strays = 0 /\ o \in {"ok", "timeout", "tooFew"} => n = local[t].got
        /\ o \in {"ioError", "interruptedIO"} => hungUp \/ CloseFailed
  BY <1>7
<1>9. Deliver(t, o, n)
  BY <1>6, <1>8
<1>. QED BY <1>1, <1>2, <1>8, <1>9, WaitEnds

LEMMA WaitFailsGood == ASSUME CallsInv, NEW t \in Threads, WaitFails(t) PROVE CallsInv'
<1>1. Ends(t)
  BY DEF WaitFails, Ends, At
<1>2. abandoned' \subseteq Dir
  BY DEF WaitFails, CallsInv, TypeOK, DirOf, Dir
<1>3. PICK o \in {"waitFailed", "asyncClose"} : Deliver(t, o, 0)
  BY DEF WaitFails, Failure
<1>4. o \in Exceptions \cup {"ok"} /\ 0 \in 0..MaxLength
  BY CallAssumption DEF Exceptions
<1>. QED BY <1>1, <1>2, <1>3, <1>4, WaitEnds

------------------------------------------------------------------------------
(* The driver, the close and the rest of the process. *)

LEMMA DriverGood ==
  ASSUME CallsInv, NEW t \in Threads, Pending(t),
         UNCHANGED <<pc, op, result, events, abandoned>>, Untouched,
         inQueue' \in 0..InCapacity, outQueue' \in 0..OutCapacity,
         NEW f \in Frames, local' = [local EXCEPT ![t] = f],
         f.number = local[t].number, f.named = local[t].named, f.rem = local[t].rem,
         f.strays = local[t].strays, f.got <= f.rem, f.request # "none",
         f.request = "failed" => hungUp \/ Forgotten
  PROVE  CallsInv'
<1>1. pc[t] = "wait"
  BY DEF CallsInv, TypeOK, Pending, At
<1>2. pc' = [pc EXCEPT ![t] = "wait"]
  BY <1>1 DEF CallsInv, TypeOK
<1>3. FileInv' /\ Stable
  BY <1>1, <1>2, UntouchedKept
<1>4. SocketTypeOK'
  BY UntouchedTyped, Framed DEF SocketTypeOK
<1>5. TypeOK'
  <2>1. "wait" \in Labels /\ events' \in Nat /\ abandoned' \subseteq Dir /\ TypeOK
    BY DEF Labels, CallsInv, TypeOK
  <2>2. "wait" = "wait" <=> f.request # "none"
    OBVIOUS
  <2>. QED BY <1>2, <1>4, <2>1, <2>2, TypeKept
<1>6. EventsInv'
  BY DEF CallsInv, EventsInv, Waiting, At
<1>7. OnlyBy(t) /\ pc'[t] = "wait" /\ local'[t] = f /\ op'[t] = op[t]
  BY <1>1, Framed DEF OnlyBy
<1>8. Good(t)'
  <2>1. Good(t) /\ IsTransfer(t)'
    BY <1>1, <1>7 DEF CallsInv, Good, Counted, IsTransfer, At
  <2>. QED BY <1>1, <1>3, <1>7, <2>1 DEF Good, Counted, Excused, Stable, At, Ended
<1>. QED BY <1>1, <1>3, <1>5, <1>6, <1>7, <1>8, CallsKept DEF CallsInv, ResultInv, Ended

LEMMA TransferTyped ==
  ASSUME inQueue \in 0..InCapacity, outQueue \in 0..OutCapacity, NEW d, Transfer(d)
  PROVE  inQueue' \in 0..InCapacity /\ outQueue' \in 0..OutCapacity
<1>1. \/ inQueue > 0 /\ inQueue' = inQueue - 1 /\ outQueue' = outQueue
      \/ outQueue < OutCapacity /\ outQueue' = outQueue + 1 /\ inQueue' = inQueue
  BY DEF Transfer
<1>. QED BY <1>1, PortAssumption

LEMMA MoveGood == ASSUME CallsInv, NEW t \in Threads, Move(t) PROVE CallsInv'
<1>1. /\ Pending(t) /\ local[t].got < local[t].rem
      /\ local' = [local EXCEPT ![t].got = @ + 1]
      /\ UNCHANGED <<fileVars, break, hungUp, closeVars, events, abandoned>>
      /\ UNCHANGED <<fdCleaner, lock, pc, op, result>>
  BY DEF Move, Transfer
<1>. DEFINE f == [local[t] EXCEPT !.got = @ + 1]
<1>2. local[t] \in Frames
  BY Framed
<1>3. local[t].got + 1 \in 0..MaxLength /\ local[t].got + 1 <= local[t].rem
  BY <1>1, <1>2, CallAssumption DEF Frames
<1>4. /\ f \in Frames /\ f.number = local[t].number /\ f.named = local[t].named
      /\ f.rem = local[t].rem /\ f.strays = local[t].strays /\ f.request = "pending"
      /\ f.got <= f.rem
  BY <1>1, <1>2, <1>3 DEF Frames, Pending
<1>5. local' = [local EXCEPT ![t] = f]
  BY <1>1
<1>. HIDE DEF f
<1>6. inQueue' \in 0..InCapacity /\ outQueue' \in 0..OutCapacity
  BY TransferTyped, Framed DEF Move, SocketTypeOK, PortTypeOK
<1>7. Untouched /\ UNCHANGED <<pc, op, result, events, abandoned>>
  BY <1>1 DEF Untouched
<1>. QED BY <1>1, <1>4, <1>5, <1>6, <1>7, DriverGood

LEMMA CompleteGood == ASSUME CallsInv, NEW t \in Threads, Complete(t) PROVE CallsInv'
<1>1. Pending(t) /\ UNCHANGED <<portVars, events, abandoned, fdCleaner, lock, pc, op, result>>
  BY DEF Complete, driverVars
<1>2. /\ local[t] \in Frames /\ local[t].got <= local[t].rem
      /\ local[t].named = "other" => Forgotten
      /\ file # "port" => Forgotten
  <2>1. pc[t] = "wait"
    BY <1>1 DEF CallsInv, TypeOK, Pending, At
  <2>. QED BY <2>1, StrayForgotten, Framed DEF CallsInv, Good, Counted, Excused, Forgotten, At
<1>3. \E f \in Frames :
        /\ local' = [local EXCEPT ![t] = f]
        /\ f.number = local[t].number /\ f.named = local[t].named /\ f.rem = local[t].rem
        /\ f.strays = local[t].strays /\ f.got = local[t].got /\ f.request # "none"
        /\ f.request = "failed" => hungUp \/ Forgotten
  <2>1. CASE local' = [local EXCEPT ![t].request = "complete"]
    <3>. DEFINE f == [local[t] EXCEPT !.request = "complete"]
    <3>1. f \in Frames
      BY <1>2 DEF Frames, Requests
    <3>. QED BY <1>2, <2>1, <3>1 DEF Frames
  <2>2. CASE /\ local[t].named = "port" => hungUp \/ file # "port"
             /\ local' = [local EXCEPT ![t].request = "failed"]
    <3>. DEFINE f == [local[t] EXCEPT !.request = "failed"]
    <3>1. f \in Frames
      BY <1>2 DEF Frames, Requests
    <3>2. hungUp \/ Forgotten
      BY <1>2, <2>2 DEF Frames
    <3>. QED BY <1>2, <2>2, <3>1, <3>2 DEF Frames
  <2>3. CASE \E n \in 0..local[t].rem :
               local' = [local EXCEPT ![t].request = "complete", ![t].other = n]
    <3>1. PICK n \in 0..local[t].rem :
            local' = [local EXCEPT ![t].request = "complete", ![t].other = n]
      BY <2>3
    <3>. DEFINE f == [local[t] EXCEPT !.request = "complete", !.other = n]
    <3>2. n \in 0..MaxLength
      BY <1>2, CallAssumption DEF Frames
    <3>3. f \in Frames
      BY <1>2, <3>2 DEF Frames, Requests
    <3>. QED BY <1>2, <3>1, <3>3 DEF Frames
  <2>. QED BY <2>1, <2>2, <2>3 DEF Complete
<1>4. PICK f \in Frames :
        /\ local' = [local EXCEPT ![t] = f]
        /\ f.number = local[t].number /\ f.named = local[t].named /\ f.rem = local[t].rem
        /\ f.strays = local[t].strays /\ f.got = local[t].got /\ f.request # "none"
        /\ f.request = "failed" => hungUp \/ Forgotten
  BY <1>3
<1>5. inQueue' \in 0..InCapacity /\ outQueue' \in 0..OutCapacity
  BY <1>1, Framed DEF SocketTypeOK, PortTypeOK, portVars, deviceVars
<1>6. Untouched /\ UNCHANGED <<pc, op, result, events, abandoned>>
  BY <1>1 DEF Untouched, portVars, deviceVars
<1>7. f.got <= f.rem
  BY <1>2, <1>4
<1>. QED BY <1>1, <1>4, <1>5, <1>6, <1>7, DriverGood

\* Steps that touch no call.
LEMMA QuietGood ==
  ASSUME CallsInv, UNCHANGED <<pc, op, local, result, events>>,
         abandoned' \subseteq Dir, SocketTypeOK', FileInv', Stable
  PROVE  CallsInv'
<1>1. TypeOK'
  BY DEF CallsInv, TypeOK, At
<1>2. EventsInv' /\ ResultInv'
  BY DEF CallsInv, EventsInv, ResultInv, Waiting, At, Ended
<1>3. \A u \in Threads : Good(u)'
  BY KeptGood DEF CallsInv
<1>. QED BY <1>1, <1>2, <1>3 DEF CallsInv

LEMMA AbandonedGood == ASSUME CallsInv, NEW d \in Dir, MoveAbandoned(d) PROVE CallsInv'
<1>1. /\ UNCHANGED <<fileVars, break, hungUp, closeVars, events, fdCleaner, lock, pc, op, result>>
      /\ abandoned' \subseteq Dir /\ local' = local
  BY DEF MoveAbandoned, Transfer, CallsInv, TypeOK
<1>2. SocketTypeOK'
  <2>1. inQueue' \in 0..InCapacity /\ outQueue' \in 0..OutCapacity
    BY TransferTyped, Framed DEF MoveAbandoned, SocketTypeOK, PortTypeOK
  <2>. QED BY <1>1, <2>1, Framed DEF SocketTypeOK, PortTypeOK, fileVars, closeVars
<1>3. FileInv' /\ Stable
  BY <1>1 DEF CallsInv, FileInv, Stable, Forgotten, CloseFailed, fileVars, closeVars
<1>. QED BY <1>1, <1>2, <1>3, QuietGood

LEMMA CloseGood == ASSUME CallsInv, close0 PROVE CallsInv'
<1>. USE DEF fileVars, deviceVars, callVars, driverVars
<1>0. SocketTypeOK /\ FileInv /\ abandoned \subseteq Dir
  BY Framed DEF CallsInv, TypeOK
<1>1. CASE Mark /\ UNCHANGED <<callVars, driverVars>>
  <2>1. SocketTypeOK'
    BY <1>0, <1>1 DEF Mark, SocketTypeOK, PortTypeOK
  <2>2. FileInv' /\ Stable
    BY <1>0, <1>1 DEF Mark, FileInv, Stable, Forgotten, CloseFailed, PORT_FD, INVALID_FD
  <2>. QED BY <1>0, <1>1, <2>1, <2>2, QuietGood
<1>2. CASE CancelIo
  <2>1. SocketTypeOK'
    BY <1>0, <1>2 DEF CancelIo, SocketTypeOK, PortTypeOK
  <2>2. FileInv' /\ Stable
    BY <1>0, <1>2 DEF CancelIo, FileInv, Stable, Forgotten, CloseFailed
  <2>. QED BY <1>0, <1>2, <2>1, <2>2, QuietGood DEF CancelIo
<1>3. CASE CloseHandle
  <2>1. SocketTypeOK'
    BY <1>0, <1>3 DEF CloseHandle, SocketTypeOK, PortTypeOK
  <2>2. FileInv' /\ Stable
    BY <1>0, <1>3 DEF CloseHandle, FileInv, Stable, Forgotten, CloseFailed, PORT_FD, INVALID_FD
  <2>. QED BY <1>0, <1>3, <2>1, <2>2, QuietGood DEF CloseHandle
<1>. QED BY <1>1, <1>2, <1>3 DEF close0

LEMMA RestGood ==
  ASSUME CallsInv, \/ closeFds /\ UNCHANGED driverVars
                   \/ Others /\ UNCHANGED <<callVars, driverVars>>
  PROVE  CallsInv'
<1>0. SocketTypeOK /\ FileInv /\ UNCHANGED <<events, abandoned>> /\ abandoned \subseteq Dir
  BY Framed DEF CallsInv, TypeOK, driverVars
<1>1. FileInv'
  BY <1>0, OthersFile
<1>2. CASE closeFds /\ UNCHANGED driverVars
  <2>1. SocketTypeOK'
    BY <1>0, <1>2 DEF closeFds, deviceVars, closeVars, SocketTypeOK, PortTypeOK
  <2>2. Stable
    BY <1>2 DEF closeFds, deviceVars, closeVars, Stable, Forgotten, CloseFailed
  <2>. QED BY <1>0, <1>1, <1>2, <2>1, <2>2, QuietGood DEF closeFds
<1>3. CASE Others /\ UNCHANGED <<callVars, driverVars>>
  <2>1. /\ PortTypeOK' /\ fd' = fd /\ Starts
        /\ hungUp => hungUp'
    BY <1>0, <1>3, OthersTyped DEF SocketTypeOK
  <2>2. SocketTypeOK'
    BY <1>0, <1>3, <2>1 DEF SocketTypeOK, callVars
  <2>3. Stable
    BY <1>0, <2>1 DEF FileInv, Starts, Stable, Forgotten, CloseFailed
  <2>. QED BY <1>0, <1>1, <1>3, <2>2, <2>3, QuietGood DEF callVars
<1>. QED BY <1>2, <1>3

LEMMA NextGood == ASSUME CallsInv, [Next]_vars PROVE CallsInv'
<1>1. ASSUME NEW t \in Threads, Call(t, NoLocals), UNCHANGED driverVars PROVE CallsInv'
  BY <1>1, CallGood
<1>2. ASSUME NEW t \in Threads, Step(t) PROVE CallsInv'
  <2>1. CASE CommonStep(t, NoLocals) /\ UNCHANGED driverVars
    BY <2>1, CommonGood
  <2>2. CASE NoDrain(t) \/ LoadFd(t) \/ Issue(t)
    BY <2>2, NoDrainGood, LoadFdGood, IssueGood
  <2>3. CASE IssueFails(t) \/ Await(t) \/ WaitFails(t)
    BY <2>3, IssueFailsGood, AwaitGood, WaitFailsGood
  <2>. QED BY <1>2, <2>1, <2>2, <2>3 DEF Step
<1>3. ASSUME NEW t \in Threads, Move(t) \/ Complete(t) PROVE CallsInv'
  BY <1>3, MoveGood, CompleteGood
<1>7. ASSUME NEW d \in Dir, MoveAbandoned(d) PROVE CallsInv'
  BY <1>7, AbandonedGood
<1>4. CASE close0
  BY <1>4, CloseGood
<1>5. CASE (closeFds /\ UNCHANGED driverVars) \/ (Others /\ UNCHANGED <<callVars, driverVars>>)
  BY <1>5, RestGood
<1>6. CASE UNCHANGED vars
  <2>1. UNCHANGED <<portVars, callVars, events, abandoned>> /\ abandoned \subseteq Dir
    BY <1>6 DEF vars, socketVars, driverVars, CallsInv, TypeOK
  <2>2. SocketTypeOK'
    BY <2>1, Framed DEF SocketTypeOK, PortTypeOK, portVars, fileVars, deviceVars, closeVars, callVars
  <2>3. FileInv' /\ Stable
    BY <2>1 DEF CallsInv, FileInv, Stable, Forgotten, CloseFailed,
                portVars, fileVars, deviceVars, closeVars, callVars
  <2>. QED BY <2>1, <2>2, <2>3, QuietGood DEF callVars
<1>. QED BY <1>1, <1>2, <1>3, <1>4, <1>5, <1>6, <1>7 DEF Next

LEMMA InitGood == Init => CallsInv
<1>. SUFFICES ASSUME Init PROVE CallsInv
  OBVIOUS
<1>1. /\ SocketInit(NoLocals) /\ events = 0 /\ abandoned = {}
      /\ \A t \in Threads : pc[t] = "idle" /\ local[t] = NoLocals /\ result[t] = NoResult
  BY DEF Init, SocketInit
<1>2. SocketTypeOK
  BY <1>1, InitTyped
<1>3. pc \in [Threads -> Labels] /\ local \in [Threads -> Frames]
  BY FreshFrame DEF Init, SocketInit, Labels
<1>4. TypeOK
  BY <1>1, <1>2, <1>3 DEF TypeOK, Frames, At, NoLocals
<1>5. EventsInv
  <2>1. Waiting = {}
    BY <1>1 DEF Waiting, At
  <2>. QED BY <1>1, <2>1, FS_EmptySet DEF EventsInv
<1>6. FileInv
  BY <1>1, InitFile
<1>7. ResultInv /\ \A t \in Threads : Good(t)
  BY <1>1 DEF ResultInv, Good, Counted, Excused, NoLocals, At, Ended
<1>. QED BY <1>4, <1>5, <1>6, <1>7 DEF CallsInv

LEMMA SpecGood == Spec => []CallsInv
BY InitGood, NextGood, PTL DEF Spec

\* Every variable keeps its type: an OVERLAPPED structure belongs to a request exactly while
\* its call waits, and the number of events never becomes negative.
THEOREM TypeCorrect == Spec => []TypeOK
<1>1. CallsInv => TypeOK
  BY DEF CallsInv
<1>. QED BY <1>1, SpecGood, PTL

\* On every path a call closes the event it has created, whatever fails.
THEOREM EventsAreClosed == Spec => []EventsClosed
<1>1. CallsInv => EventsClosed
  BY DEF CallsInv, EventsInv, EventsClosed, Waiting
<1>. QED BY <1>1, SpecGood, PTL

\* The number of bytes that a transfer reports is the number it has moved, for any interplay
\* of the driver, timeouts, other calls and the close.
THEOREM TransfersReported == Spec => []ReportedBytes
<1>1. CallsInv => ReportedBytes
  BY DEF CallsInv, Good, Counted, ReportedBytes, Decided, Answer, EndOutcome, At, Ended
<1>. QED BY <1>1, SpecGood, PTL

\* A close that succeeds is never reported as an error of the device, even when the handle
\* already names another file.
THEOREM CloseReported == Spec => []CloseNotMisreported
<1>1. CallsInv => CloseNotMisreported
  BY DEF CallsInv, Good, Excused, CloseNotMisreported, Decided, Answer, EndOutcome, At, Ended
<1>. QED BY <1>1, SpecGood, PTL

------------------------------------------------------------------------------
(* Who closes the handle. *)

LEMMA NextReleased ==
  ASSUME ~CloseFails, ReleaseInv, [Next]_vars
  PROVE  ReleaseInv' /\ (file = "other" => file' = "other")
<1>. DEFINE Kept == ReleaseInv' /\ (file = "other" => file' = "other")
<1>0. ASSUME UNCHANGED <<file, fdCleaner, pc, closed, closing>> PROVE Kept
  BY <1>0 DEF ReleaseInv
<1>. USE DEF portVars, fileVars, deviceVars, closeVars, callVars
<1>1. CASE UNCHANGED vars
  BY <1>0, <1>1 DEF vars, socketVars
<1>2. CASE \/ \E t \in Threads : Call(t, NoLocals)
           \/ Others /\ UNCHANGED callVars
           \/ closeFds
  BY <1>2, OthersRelease
<1>3. ASSUME NEW t \in Threads, CommonStep(t, NoLocals) PROVE Kept
  BY <1>3, CommonSteps, StepRelease
<1>4. ASSUME NEW t \in Threads, \/ NoDrain(t) \/ LoadFd(t) \/ Issue(t)
                               \/ IssueFails(t) \/ Await(t) \/ WaitFails(t)
      PROVE  Kept
  <2>1. pc[t] # "idle" /\ KeepsFile /\ Starts
    BY <1>4 DEF NoDrain, LoadFd, Issue, IssueFails, Await, WaitFails, At, KeepsFile, Starts
  <2>. QED BY <2>1, StepRelease
<1>5. ASSUME NEW t \in Threads, Move(t) \/ Complete(t) PROVE Kept
  BY <1>0, <1>5 DEF Move, Transfer, Complete
<1>9. ASSUME NEW d \in Dir, MoveAbandoned(d) PROVE Kept
  BY <1>0, <1>9 DEF MoveAbandoned, Transfer
<1>6. CASE Mark /\ UNCHANGED callVars
  BY <1>6 DEF Mark, ReleaseInv
<1>7. CASE CancelIo
  BY <1>7 DEF CancelIo, ReleaseInv
<1>8. CASE CloseHandle
  BY <1>8 DEF CloseHandle, ReleaseInv, PORT_FD, INVALID_FD
<1>. QED BY <1>1, <1>2, <1>3, <1>4, <1>5, <1>6, <1>7, <1>8, <1>9 DEF Next, Step, close0

\* If CloseHandle never reports an error the handle is closed once, also when CancelIo has
\* failed and the channel is closed with its port open: the cleaner closes that port.
THEOREM PortReleasedOnce == ASSUME ~CloseFails PROVE Spec => ReleasedOnce
<1>1. Init => ReleaseInv
  BY InitReleased DEF Init
<1>2. ReleaseInv /\ [Next]_vars => ReleaseInv'
  BY NextReleased
<1>3. ReleaseInv /\ ReleaseInv' /\ [Next]_vars
        => [/\ file = "other" => file' = "other"
            /\ fdCleaner' = "ran" => file' # "port"]_socketVars
  <2>. SUFFICES ASSUME ReleaseInv, ReleaseInv', [Next]_vars
                PROVE  /\ file = "other" => file' = "other"
                       /\ fdCleaner' = "ran" => file' # "port"
    OBVIOUS
  <2>. QED BY NextReleased DEF ReleaseInv, PORT_FD
<1>. QED BY <1>1, <1>2, <1>3, PTL DEF Spec, ReleasedOnce

------------------------------------------------------------------------------
(* The Windows socket implements SerialChannel. *)

\* The steps of the native functions and of the driver.
NativeStep(t) == \/ NoDrain(t) \/ LoadFd(t) \/ Issue(t) \/ IssueFails(t) \/ Await(t)
                 \/ WaitFails(t) \/ Move(t) \/ Complete(t)

LEMMA NativeInner ==
  ASSUME CallsInv, MonitorInv, NEW t \in Threads, NativeStep(t)
  PROVE  /\ Inner(t) /\ UNCHANGED <<break, file>> /\ OnlyBy(t)
         /\ op[t] = "sendBreak" => pc'[t] = "first"
<1>. DEFINE Shape == /\ Inner(t) /\ UNCHANGED <<break, file>> /\ OnlyBy(t)
                     /\ op[t] = "sendBreak" => pc'[t] = "first"
<1>. USE DEF At, Goto, Inside, portVars, fileVars, deviceVars
<1>0. ShapeInv /\ local \in [Threads -> Frames] /\ DOMAIN pc = Threads /\ DOMAIN result = Threads
  BY Framed DEF MonitorInv
<1>a. ASSUME NEW f \in Frames, local' = [local EXCEPT ![t] = f], f.got = local[t].got,
             Inside(t), NEW l \in Labels \ {"idle", "enter"}, pc' = [pc EXCEPT ![t] = l],
             UNCHANGED <<lock, op, file, break>>,
             op[t] = "sendBreak" => l = "first",
             \A u \in Threads \ {t} : result'[u] = result[u]
      PROVE  Shape
  <2>1. Inner(t)
    BY <1>0, <1>a DEF Inner, Frames, Labels
  <2>. QED BY <1>0, <1>a, <2>1 DEF OnlyBy
<1>b. local[t] \in Frames
  BY <1>0
<1>c. IsTransfer(t) => op[t] # "sendBreak"
  BY DEF IsTransfer, ReadOps, WriteOps
<1>d. Pending(t) => pc[t] = "wait" /\ IsTransfer(t)
  BY DEF Pending, CallsInv, TypeOK, Good, Counted
<1>1. Shape
  <2>1. CASE NoDrain(t)
    <3>1. /\ pc[t] = "load" /\ UNCHANGED <<lock, op, file, break, local>> /\ op[t] # "sendBreak"
          /\ \E l \in {"end", "leave"} : pc' = [pc EXCEPT ![t] = l]
          /\ \A u \in Threads \ {t} : result'[u] = result[u]
      BY <1>0, <2>1 DEF NoDrain, Deliver, DrainOps
    <3>2. local' = [local EXCEPT ![t] = local[t]]
      BY <1>0, <3>1
    <3>. QED BY <1>a, <1>b, <3>1, <3>2 DEF Labels
  <2>2. CASE LoadFd(t)
    <3>1. /\ pc[t] = "load" /\ UNCHANGED <<lock, op, file, break, result>>
          /\ pc' = [pc EXCEPT ![t] = "first"]
          /\ local' = [local EXCEPT ![t] = [local[t] EXCEPT !.number = fd]]
      BY <2>2 DEF LoadFd
    <3>2. [local[t] EXCEPT !.number = fd] \in Frames
      BY <1>b, Framed DEF Frames, SocketTypeOK, PortTypeOK
    <3>. QED BY <1>a, <1>b, <3>1, <3>2 DEF Labels, Frames
  <2>3. CASE Issue(t)
    <3>. DEFINE f == [local[t] EXCEPT !.request = "pending", !.named = file, !.strays = @ + Strays(t)]
    <3>1. /\ pc[t] = "first" /\ UNCHANGED <<lock, op, file, break, result>> /\ IsTransfer(t)
          /\ pc' = [pc EXCEPT ![t] = "wait"] /\ file \in {"port", "other"}
          /\ local' = [local EXCEPT ![t] = f]
      BY <2>3, Framed DEF Issue, Unopened, SocketTypeOK, PortTypeOK
    <3>2. local[t].strays + Strays(t) \in Nat
      BY <1>b DEF Frames, Strays
    <3>3. f \in Frames /\ f.got = local[t].got
      BY <1>b, <3>1, <3>2 DEF Frames, Requests
    <3>. HIDE DEF f
    <3>. QED BY <1>a, <1>c, <3>1, <3>3 DEF Labels
  <2>4. CASE IssueFails(t)
    <3>1. /\ pc[t] = "first" /\ UNCHANGED <<lock, op, file, break>> /\ IsTransfer(t)
          /\ \E l \in {"end", "leave"} : pc' = [pc EXCEPT ![t] = l]
          /\ \A u \in Threads \ {t} : result'[u] = result[u]
          /\ local' = [local EXCEPT ![t] = [local[t] EXCEPT !.strays = @ + Strays(t)]]
      BY <1>0, <2>4 DEF IssueFails, Deliver
    <3>2. local[t].strays + Strays(t) \in Nat
      BY <1>b DEF Frames, Strays
    <3>3. [local[t] EXCEPT !.strays = @ + Strays(t)] \in Frames
      BY <1>b, <3>2 DEF Frames
    <3>. QED BY <1>a, <1>b, <1>c, <3>1, <3>3 DEF Labels, Frames
  <2>5. CASE Await(t) \/ WaitFails(t)
    <3>1. /\ pc[t] = "wait" /\ UNCHANGED <<lock, op, file, break>>
          /\ \E l \in {"end", "leave"} : pc' = [pc EXCEPT ![t] = l]
          /\ \A u \in Threads \ {t} : result'[u] = result[u]
          /\ local' = [local EXCEPT ![t] = [local[t] EXCEPT !.request = "none"]]
      BY <1>0, <2>5 DEF Await, WaitFails, Deliver
    <3>2. [local[t] EXCEPT !.request = "none"] \in Frames
      BY <1>b DEF Frames, Requests
    <3>3. IsTransfer(t)
      BY <3>1 DEF CallsInv, Good, Counted
    <3>. QED BY <1>a, <1>b, <1>c, <3>1, <3>2, <3>3 DEF Labels, Frames
  <2>6. CASE Move(t)
    <3>1. /\ Pending(t) /\ file = "port"
          /\ local' = [local EXCEPT ![t].got = @ + 1]
          /\ UNCHANGED <<pc, lock, op, file, break, result>>
      BY <2>6 DEF Move, Transfer
    <3>2. IsTransfer(t) /\ Inside(t)
      BY <1>d, <3>1
    <3>3. LocksOf(op[t]) = {DirOf(op[t])}
      BY <3>2 DEF IsTransfer, LocksOf, ReadOps, WriteOps
    <3>4. local[t].got \in Nat
      BY <1>b DEF Frames
    <3>5. /\ \A u \in Threads \ {t} : local'[u] = local[u]
          /\ DOMAIN local' = Threads /\ "got" \in DOMAIN local'[t]
          /\ local'[t].got = local[t].got + 1
      BY <1>0, <1>b, <3>1 DEF Frames
    <3>6. Inner(t)
      BY <1>0, <3>1, <3>2, <3>3, <3>4, <3>5 DEF Inner
    <3>. QED BY <1>c, <3>1, <3>2, <3>5, <3>6 DEF OnlyBy
  <2>7. CASE Complete(t)
    <3>1. /\ Pending(t) /\ UNCHANGED <<pc, lock, op, file, break, result>>
          /\ \E r \in {"complete", "failed"} :
               \/ local' = [local EXCEPT ![t].request = r]
               \/ \E n : local' = [local EXCEPT ![t].request = r, ![t].other = n]
      BY <2>7 DEF Complete
    <3>2. /\ \A u \in Threads \ {t} : local'[u] = local[u]
          /\ DOMAIN local' = Threads /\ "got" \in DOMAIN local'[t]
          /\ local'[t].got = local[t].got
      BY <1>0, <1>b, <3>1 DEF Frames
    <3>3. Inner(t)
      BY <1>0, <1>d, <3>1, <3>2 DEF Inner
    <3>. QED BY <1>c, <1>d, <3>1, <3>2, <3>3 DEF OnlyBy
  <2>. QED BY <2>1, <2>2, <2>3, <2>4, <2>5, <2>6, <2>7 DEF NativeStep
<1>. QED BY <1>1

WinInv == CallsInv /\ MonitorInv /\ BreakInv

\* What a step keeps, and what SerialChannel sees of it.
WinKept == MonitorInv' /\ BreakInv' /\ ChannelMoves

LEMMA NewFrame == "got" \in DOMAIN NoLocals /\ NoLocals.got = 0
BY DEF NoLocals

LEMMA NativeKept == ASSUME WinInv, NEW t \in Threads, NativeStep(t) PROVE WinKept
<1>1. /\ Inner(t) /\ UNCHANGED <<break, file>> /\ OnlyBy(t)
      /\ op[t] = "sendBreak" => pc'[t] = "first"
  BY NativeInner DEF WinInv
<1>2. MonitorInv' /\ ChannelMoves
  BY <1>1, InnerChannel DEF WinInv
<1>3. BreakInv'
  <2>1. UNCHANGED <<op, break, file>>
    BY <1>1 DEF Inner
  <2>2. \A u \in Threads : op[u] = "sendBreak" =>
           \/ /\ pc'[u] = pc[u] /\ result'[u] = result[u]
              /\ local'[u].number = local[u].number
              /\ local'[u].strays = local[u].strays
           \/ pc'[u] \notin {"sleep", "again"} /\ ~Ended(u)'
    BY <1>1 DEF OnlyBy, Ended
  <2>. QED BY <2>1, <2>2, OtherBreak DEF WinInv
<1>. QED BY <1>2, <1>3 DEF WinKept

LEMMA CommonKept == ASSUME WinInv, NEW t \in Threads, CommonStep(t, NoLocals) PROVE WinKept
<1>0. SocketTypeOK /\ ResultInv /\ local \in [Threads -> Frames]
  BY Framed DEF WinInv, CallsInv
<1>1. MonitorInv' /\ ChannelMoves
  BY NewFrame, CommonChannel DEF WinInv
<1>2. FramesOK
  BY <1>0 DEF FramesOK, Frames
<1>3. BreakInv'
  BY <1>0, <1>2, CommonBreak DEF WinInv
<1>. QED BY <1>1, <1>3 DEF WinKept

LEMMA CallKept == ASSUME WinInv, NEW t \in Threads, Call(t, NoLocals) PROVE WinKept
<1>0. DOMAIN pc = Threads /\ local \in [Threads -> Frames]
  BY Framed DEF WinInv
<1>1. MonitorInv' /\ ChannelMoves
  BY NewFrame, CallChannel DEF WinInv
<1>2. BreakInv'
  BY <1>0, CallBreak DEF WinInv
<1>. QED BY <1>1, <1>2 DEF WinKept

\* Steps that touch no call.
LEMMA QuietKept ==
  ASSUME WinInv, UNCHANGED <<lock, pc, op, local, result, break>>,
         file # "port" => file' # "port"
  PROVE  WinKept
<1>1. MonitorInv' /\ ChannelMoves
  BY OtherChannel DEF WinInv
<1>2. BreakInv'
  BY OtherBreak DEF WinInv
<1>. QED BY <1>1, <1>2 DEF WinKept

LEMMA NextKept == ASSUME WinInv, [Next]_vars PROVE WinKept
<1>. USE DEF portVars, fileVars, deviceVars, callVars
<1>0. FileInv
  BY DEF WinInv, CallsInv
<1>1. ASSUME NEW t \in Threads, Call(t, NoLocals) PROVE WinKept
  BY <1>1, CallKept
<1>2. ASSUME NEW t \in Threads, Step(t) \/ Move(t) \/ Complete(t) PROVE WinKept
  BY <1>2, CommonKept, NativeKept DEF Step, NativeStep
<1>3. CASE (Mark /\ UNCHANGED callVars) \/ CancelIo \/ CloseHandle
  BY <1>3, QuietKept DEF Mark, CancelIo, CloseHandle
<1>4. ASSUME NEW d \in Dir, MoveAbandoned(d) PROVE WinKept
  BY <1>4, QuietKept DEF MoveAbandoned, Transfer
<1>5. CASE closeFds
  BY <1>5, QuietKept DEF closeFds
<1>6. CASE Others /\ UNCHANGED callVars
  <2>1. UNCHANGED break /\ (file' = file \/ (file = "free" /\ file' = "other"))
    BY <1>6, OthersTyped, Framed DEF WinInv, SocketTypeOK
  <2>. QED BY <1>6, <2>1, QuietKept
<1>7. CASE UNCHANGED vars
  BY <1>7, QuietKept DEF vars, socketVars
<1>. QED BY <1>1, <1>2, <1>3, <1>4, <1>5, <1>6, <1>7 DEF Next, close0

LEMMA InitKept == Init => WinInv /\ Channel!Init
<1>. SUFFICES ASSUME Init PROVE WinInv /\ Channel!Init
  OBVIOUS
<1>1. MonitorInv /\ Channel!Init
  BY NewFrame, InitChannel DEF Init
<1>2. CallsInv
  BY InitGood
<1>3. BreakInv
  BY DEF Init, SocketInit, PortInit, BreakInv
<1>. QED BY <1>1, <1>2, <1>3 DEF WinInv

LEMMA WinStep == WinInv /\ [Next]_vars => WinInv' /\ ChannelMoves
BY NextGood, NextKept DEF WinInv, WinKept

\* While sendBreak sleeps the line is in the break state, and when it returns normally the
\* break is over, whoever else calls setBreak and clearBreak.
THEOREM BreakHeld == Spec => []BreakHeldAndEnded
<1>1. WinInv => BreakHeldAndEnded
  BY BreakIsHeld DEF WinInv
<1>. QED BY <1>1, InitKept, WinStep, PTL DEF Spec

\* The Windows socket implements the safety part of SerialChannel, although it is the driver
\* that moves the bytes: it moves none for a waiting call whose port is closed.  (What it moves
\* for a request that a failed wait has left behind belongs to no thread.)
THEOREM WinImplementsChannel == Spec => ChannelSafeSpec
BY InitKept, WinStep, PTL DEF Spec, ChannelSafeSpec, Channel!SafeSpec, ChannelMoves
===============================================================================
