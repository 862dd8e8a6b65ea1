---------------------- MODULE NativeConfigurationProofs ----------------------
(***************************************************************************)
(* Theorems about the line settings of the JNI provider, for any threads,  *)
(* calls, drivers and settings found, on both platforms.                   *)
(***************************************************************************)
EXTENDS NativeConfiguration, TLAPS

\* Before open0 there is no file, and a failing step of open0 has closed it.
FailedInv == stage \in {"new", "failed"} => file \in {"none", "free"}

LEMMA FailFailed ==
  ASSUME FailedInv, NEW t \in Threads, NEW r, Fail(t, r)
  PROVE  FailedInv'
BY DEF FailedInv, Fail, socket

\* A call that keeps the socket keeps what is known of a failed open.
LEMMA SettingFailed ==
  ASSUME FailedInv, NEW t \in Threads, Setting(t)
  PROVE  FailedInv'
<1>1. CASE \E r : Fail(t, r)
  BY <1>1, FailFailed
<1>2. CASE UNCHANGED socket
  BY <1>2 DEF FailedInv, socket
<1>3. CASE Call(t) \/ Load(t) \/ Return(t) \/ Write(t) \/ ReadOnly(t)
  BY <1>2, <1>3 DEF Call, Load, Return, Write, ReadOnly, Draft
<1>4. CASE ReadFails(t) \/ WriteFails(t) \/ VerifyFails(t)
  <2>1. \E r : Fail(t, r)
    BY <1>4, Zenon DEF ReadFails, WriteFails, VerifyFails
  <2>. QED BY <1>1, <2>1
<1>5. CASE ReadParams(t) \/ ReadSpeed(t) \/ ReadTimeouts(t)
  BY <1>1, <1>2, <1>5 DEF ReadParams, ReadSpeed, ReadTimeouts, Apply, Draft
<1>6. CASE ReadChars(t) \/ ReadLines(t)
  BY <1>2, <1>6 DEF ReadChars, ReadLines, Draft
<1>7. CASE Verify(t)
  BY <1>1, <1>2, <1>7 DEF Verify, Accept, Draft
<1>. QED BY <1>3, <1>4, <1>5, <1>6, <1>7 DEF Setting, Reading

LEMMA NextFailed == ASSUME FailedInv, [Next]_vars PROVE FailedInv'
<1>1. CASE UNCHANGED vars
  BY <1>1 DEF FailedInv, vars, socket
<1>2. ASSUME NEW t \in Threads, Opening(t) PROVE FailedInv'
  <2>1. CASE \E r : Fail(t, r)
    BY <2>1, FailFailed
  <2>2. CASE Open(t)
    BY <2>2 DEF Open, FailedInv
  <2>3. CASE Attributes(t) \/ FlushDevice(t)
    BY <2>1, <2>3 DEF Attributes, FlushDevice, Apply, Draft, FailedInv, socket
  <2>4. CASE CreateEvents(t)
    BY <2>4 DEF CreateEvents, FailedInv
  <2>. QED BY <1>2, <2>2, <2>3, <2>4 DEF Opening
<1>3. ASSUME NEW t \in Threads, Setting(t) PROVE FailedInv'
  BY <1>3, SettingFailed
<1>4. ASSUME NEW t \in Threads, Closing(t) PROVE FailedInv'
  BY <1>4 DEF Closing, Mark, Release, CancelFails, FailedInv
<1>5. CASE ReuseNumber
  BY <1>5 DEF ReuseNumber, FailedInv
<1>. QED BY <1>1, <1>2, <1>3, <1>4, <1>5 DEF Next

\* When open0 fails, at any of its steps and on both platforms, nobody is left with the file.
THEOREM NativeFailedOpenIsClosed == Spec => []FailedOpenClosesPort
<1>1. Init => FailedInv
  BY DEF Init, FailedInv
<1>2. FailedInv /\ [Next]_vars => FailedInv'
  BY NextFailed
<1>3. FailedInv => FailedOpenClosesPort
  BY DEF FailedInv, FailedOpenClosesPort
<1>. QED BY <1>1, <1>2, <1>3, PTL DEF Spec

------------------------------------------------------------------------------
(* The phases of the socket and of the calls. *)

\* A thread that makes no call.
Resting == {"idle", "return", "close"}

\* The frames have their types as far as the phases depend on them.
ShapeInv ==
  /\ pc \in [Threads -> Labels]
  /\ request \in [Threads -> Requests \cup OpenRequests \cup {NoRequest}]
  /\ result \in [Threads -> Results]

\* How far a call may be: the thread in open0 is alone with the socket, and the others
\* are in their calls before and during the close only.
Phase(t) ==
  /\ pc[t] \in Resting <=> Op(t) = "none"
  /\ pc[t] \in {"attributes", "flush", "events"} => Op(t) = "open"
  /\ pc[t] = "close" => stage \in {"closing", "notClosed"}
  /\ Op(t) = "open" => stage = "opening" /\ \A u \in Threads \ {t} : Op(u) = "none"
  /\ Op(t) \in Ops => stage \in {"open", "closing", "notClosed"}

PhaseInv == /\ ShapeInv
            /\ stage = "closing" => fd = "INVALID_FD"
            /\ \A t \in Threads : Phase(t)

\* What a request may be.
LEMMA RequestFacts ==
  ASSUME ShapeInv, NEW t \in Threads
  PROVE  Op(t) \in Ops \cup {"open", "none"}
BY NativeAssumption DEF ShapeInv, Op, OpenRequests, NoRequest

LEMMA OpsApart == "none" \notin Ops /\ "open" \notin Ops
BY DEF Ops, SpeedOps, CharOps, LineOps, Getters, WindowsOnly

\* When a call ends without touching the socket, the phases are kept.
LEMMA FinishPhase ==
  ASSUME PhaseInv, NEW t \in Threads, NEW r \in Results, Finish(t, r), UNCHANGED socket
  PROVE  PhaseInv'
<1>1. /\ pc'[t] = "return" /\ Op(t)' = "none"
      /\ \A u \in Threads \ {t} : pc'[u] = pc[u] /\ Op(u)' = Op(u)
  BY DEF PhaseInv, ShapeInv, Finish, Goto, Op, NoRequest
<1>2. ShapeInv'
  BY DEF PhaseInv, ShapeInv, Finish, Goto, Labels
<1>3. Phase(t)'
  BY <1>1, OpsApart DEF Phase, Resting
<1>4. ASSUME NEW u \in Threads \ {t} PROVE Phase(u)'
  BY <1>1 DEF PhaseInv, Phase, socket
<1>. QED BY <1>2, <1>3, <1>4 DEF PhaseInv, socket

\* They are kept when a call goes on to its next step.
LEMMA GotoPhase ==
  ASSUME PhaseInv, NEW t \in Threads, NEW label \in Labels, Goto(t, label),
         UNCHANGED <<socket, request, result>>,
         pc[t] \notin Resting, label \notin Resting,
         label \in {"attributes", "flush", "events"} => Op(t) = "open"
  PROVE  PhaseInv'
<1>1. /\ pc'[t] = label
      /\ \A u \in Threads \ {t} : pc'[u] = pc[u]
      /\ \A u \in Threads : Op(u)' = Op(u)
  BY DEF PhaseInv, ShapeInv, Goto, Op
<1>2. ShapeInv'
  BY DEF PhaseInv, ShapeInv, Goto
<1>3. Phase(t)'
  BY <1>1 DEF PhaseInv, Phase, Resting, socket
<1>4. ASSUME NEW u \in Threads \ {t} PROVE Phase(u)'
  BY <1>1 DEF PhaseInv, Phase, socket
<1>. QED BY <1>2, <1>3, <1>4 DEF PhaseInv, socket

\* A failing open0 ends the stage of opening, any other call leaves the socket as it was.
LEMMA FailPhase ==
  ASSUME PhaseInv, NEW t \in Threads, NEW r \in Results, Fail(t, r)
  PROVE  PhaseInv'
<1>1. CASE Op(t) # "open"
  BY <1>1, FinishPhase DEF Fail
<1>2. CASE Op(t) = "open"
  <2>1. /\ pc'[t] = "return" /\ Op(t)' = "none"
        /\ \A u \in Threads \ {t} : pc'[u] = pc[u] /\ Op(u)' = Op(u)
    BY DEF PhaseInv, ShapeInv, Fail, Finish, Goto, Op, NoRequest
  <2>2. stage = "opening" /\ \A u \in Threads \ {t} : Op(u) = "none"
    BY <1>2 DEF PhaseInv, Phase
  <2>3. stage' = "failed"
    BY <1>2 DEF Fail
  <2>4. ShapeInv'
    BY DEF PhaseInv, ShapeInv, Fail, Finish, Goto, Labels
  <2>5. Phase(t)'
    BY <2>1, OpsApart DEF Phase, Resting
  <2>6. ASSUME NEW u \in Threads \ {t} PROVE Phase(u)'
    BY <2>1, <2>2, <2>3, OpsApart DEF PhaseInv, Phase, Resting
  <2>. QED BY <2>3, <2>4, <2>5, <2>6 DEF PhaseInv
<1>. QED BY <1>1, <1>2

\* The steps of open0 keep the phases.
LEMMA OpeningPhase ==
  ASSUME PhaseInv, NEW t \in Threads, Opening(t)
  PROVE  PhaseInv'
<1>1. CASE Open(t)
  <2>1. stage = "new" /\ \A u \in Threads : Op(u) = "none" /\ pc[u] \in Resting
    BY <1>1, RequestFacts DEF Open, PhaseInv, Phase
  <2>2. CASE /\ stage' = "opening"
             /\ Goto(t, "attributes")
             /\ UNCHANGED result
             /\ \E r \in OpenRequests : request' = [request EXCEPT ![t] = r]
    <3>1. /\ pc'[t] = "attributes" /\ Op(t)' = "open"
          /\ \A u \in Threads \ {t} : pc'[u] = pc[u] /\ Op(u)' = Op(u)
      BY <2>2 DEF PhaseInv, ShapeInv, Goto, Op, OpenRequests
    <3>2. ShapeInv'
      BY <2>2 DEF PhaseInv, ShapeInv, Goto, Labels
    <3>3. Phase(t)'
      BY <2>1, <2>2, <3>1, OpsApart DEF Phase, Resting
    <3>4. ASSUME NEW u \in Threads \ {t} PROVE Phase(u)'
      BY <2>1, <2>2, <3>1, OpsApart DEF PhaseInv, Phase, Resting
    <3>. QED BY <2>2, <3>2, <3>3, <3>4 DEF PhaseInv
  <2>3. CASE /\ stage' = "failed" /\ Goto(t, "return") /\ UNCHANGED request
             /\ result' = [result EXCEPT ![t] = "nativeError"]
    <3>1. /\ pc'[t] = "return"
          /\ \A u \in Threads \ {t} : pc'[u] = pc[u]
          /\ \A u \in Threads : Op(u)' = Op(u)
      BY <2>3 DEF PhaseInv, ShapeInv, Goto, Op
    <3>2. ShapeInv'
      BY <2>3 DEF PhaseInv, ShapeInv, Goto, Labels, Results
    <3>3. Phase(t)'
      BY <2>1, <3>1, OpsApart DEF Phase, Resting
    <3>4. ASSUME NEW u \in Threads \ {t} PROVE Phase(u)'
      BY <2>1, <3>1, OpsApart DEF PhaseInv, Phase, Resting
    <3>. QED BY <2>3, <3>2, <3>3, <3>4 DEF PhaseInv
  <2>. QED BY <1>1, <2>2, <2>3 DEF Open
<1>2. ASSUME pc[t] \in {"attributes", "flush", "events"}
      PROVE  Op(t) = "open" /\ stage = "opening" /\ pc[t] \notin Resting
  BY <1>2 DEF PhaseInv, Phase, Resting
<1>3. ASSUME pc[t] \in {"attributes", "flush", "events"},
             NEW label \in {"loadWrite", "flush", "events"}, NEW d, Draft(t, d, label)
      PROVE  PhaseInv'
  BY <1>2, <1>3, GotoPhase DEF Draft, Labels, Resting
<1>4. CASE Attributes(t)
  <2>1. CASE \E r \in Results : Fail(t, r)
    BY <2>1, FailPhase
  <2>2. CASE \E d : Draft(t, d, "loadWrite") \/ Draft(t, d, "flush")
    BY <1>3, <1>4, <2>2 DEF Attributes, At
  <2>. QED BY <1>4, <2>1, <2>2 DEF Attributes, Apply, Results
<1>5. CASE FlushDevice(t)
  <2>1. CASE Fail(t, "nativeError")
    BY <2>1, FailPhase DEF Results
  <2>2. CASE Draft(t, NoDraft, "events")
    BY <1>3, <1>5, <2>2 DEF FlushDevice, At
  <2>. HIDE DEF FlushDevice
  <2>3. CASE stage' = "open" /\ Finish(t, "ok")
    <3>1. /\ pc'[t] = "return" /\ Op(t)' = "none"
          /\ \A u \in Threads \ {t} : pc'[u] = pc[u] /\ Op(u)' = Op(u)
      BY <2>3 DEF PhaseInv, ShapeInv, Finish, Goto, Op, NoRequest
    <3>2. \A u \in Threads \ {t} : Op(u) = "none" /\ pc[u] # "close"
      BY <1>2, <1>5 DEF FlushDevice, At, PhaseInv, Phase
    <3>3. ShapeInv'
      BY <2>3 DEF PhaseInv, ShapeInv, Finish, Goto, Labels, Results
    <3>4. Phase(t)'
      BY <3>1, OpsApart DEF Phase, Resting
    <3>5. ASSUME NEW u \in Threads \ {t} PROVE Phase(u)'
      BY <3>1, <3>2, OpsApart DEF PhaseInv, Phase, Resting
    <3>. QED BY <2>3, <3>3, <3>4, <3>5 DEF PhaseInv
  <2>. QED BY <1>5, <2>1, <2>2, <2>3 DEF FlushDevice
<1>6. CASE CreateEvents(t)
  <2>1. PICK r \in {"ok", "nativeError"} : Finish(t, r)
    BY <1>6 DEF CreateEvents
  <2>2. /\ pc'[t] = "return" /\ Op(t)' = "none"
        /\ \A u \in Threads \ {t} : pc'[u] = pc[u] /\ Op(u)' = Op(u)
    BY <2>1 DEF PhaseInv, ShapeInv, Finish, Goto, Op, NoRequest
  <2>3. \A u \in Threads \ {t} : Op(u) = "none" /\ pc[u] # "close"
    BY <1>2, <1>6 DEF CreateEvents, At, PhaseInv, Phase
  <2>4. ShapeInv'
    BY <2>1 DEF PhaseInv, ShapeInv, Finish, Goto, Labels, Results
  <2>5. Phase(t)'
    BY <2>2, OpsApart DEF Phase, Resting
  <2>6. ASSUME NEW u \in Threads \ {t} PROVE Phase(u)'
    BY <2>2, <2>3, OpsApart DEF PhaseInv, Phase, Resting
  <2>7. stage' \in {"open", "failed"}
    BY <1>6 DEF CreateEvents
  <2>. QED BY <2>4, <2>5, <2>6, <2>7 DEF PhaseInv
<1>. QED BY <1>1, <1>4, <1>5, <1>6 DEF Opening

\* The errors a call may end with are results.
LEMMA ErrorsTyped ==
  ASSUME NEW t \in Threads
  PROVE  throw_ClosedOrNativeException(t) \in Results
BY DEF throw_ClosedOrNativeException, Results

\* So do the calls on the open port.
LEMMA SettingPhase ==
  ASSUME PhaseInv, NEW t \in Threads, Setting(t)
  PROVE  PhaseInv'
<1>1. CASE Call(t)
  <2>1. /\ pc[t] = "idle" /\ pc'[t] \in {"read", "write"} /\ Op(t)' \in Ops
        /\ \A u \in Threads \ {t} : pc'[u] = pc[u] /\ Op(u)' = Op(u)
        /\ UNCHANGED socket
    BY <1>1, NativeAssumption DEF PhaseInv, ShapeInv, Call, At, Goto, Op
  <2>2. stage \in {"open", "closing", "notClosed"} /\ stage' = stage /\ fd' = fd
    BY <1>1 DEF Call, socket
  <2>3. ShapeInv'
    BY <1>1 DEF PhaseInv, ShapeInv, Call, Goto, Labels
  <2>4. Phase(t)'
    BY <2>1, <2>2, OpsApart DEF Phase, Resting
  <2>5. ASSUME NEW u \in Threads \ {t} PROVE Phase(u)'
    BY <2>1, <2>2 DEF PhaseInv, Phase
  <2>. QED BY <2>2, <2>3, <2>4, <2>5 DEF PhaseInv
<1>2. CASE \E r \in Results : Fail(t, r)
  BY <1>2, FailPhase
<1>3. CASE \E r \in Results : Finish(t, r) /\ UNCHANGED socket
  BY <1>3, FinishPhase
<1>4. ASSUME pc[t] \in {"read", "loadWrite", "write", "loadVerify", "verify"},
             NEW label \in {"loadWrite", "write", "loadVerify", "verify"}, Goto(t, label),
             UNCHANGED <<socket, request, result>>
      PROVE  PhaseInv'
  BY <1>4, GotoPhase DEF Labels, Resting
<1>5. CASE At(t, "read") /\ \E d : Draft(t, d, "loadWrite") \/ Draft(t, d, "write")
  BY <1>4, <1>5 DEF At, Draft
<1>6. CASE Load(t)
  BY <1>4, <1>6 DEF Load, At, socket
<1>7. CASE ReadFails(t) \/ VerifyFails(t)
  BY <1>2, <1>7, ErrorsTyped DEF ReadFails, VerifyFails
<1>8. CASE WriteFails(t)
  BY <1>2, <1>8, ErrorsTyped DEF WriteFails, Results
<1>9. CASE ReadParams(t)
  BY <1>2, <1>5, <1>9 DEF ReadParams, Apply, Results
<1>10. CASE ReadSpeed(t)
  BY <1>2, <1>5, <1>10 DEF ReadSpeed, Results
<1>11. CASE ReadChars(t) \/ ReadLines(t)
  BY <1>5, <1>11 DEF ReadChars, ReadLines
<1>12. CASE ReadTimeouts(t)
  BY <1>2, <1>5, <1>12 DEF ReadTimeouts, Results
<1>13. CASE ReadOnly(t)
  BY <1>3, <1>13 DEF ReadOnly, Results, Misread
<1>14. CASE Write(t)
  <2>1. CASE Finish(t, "ok")
    BY <1>3, <1>14, <2>1 DEF Write, Results
  <2>2. CASE /\ AfterWrite(t) \in {"loadVerify", "verify"}
             /\ Goto(t, AfterWrite(t)) /\ UNCHANGED <<request, result>>
    BY <1>4, <1>14, <2>2 DEF Write, At
  <2>3. CASE /\ AfterWrite(t) = "flush" /\ Op(t) = "open"
             /\ Goto(t, "flush") /\ UNCHANGED <<request, result>>
    BY <1>14, <2>3, GotoPhase DEF Write, At, Labels, Resting
  <2>4. AfterWrite(t) \in {"loadVerify", "verify", "return"} \/ (AfterWrite(t) = "flush" /\ Op(t) = "open")
    BY DEF AfterWrite
  <2>. QED BY <1>14, <2>1, <2>2, <2>3, <2>4 DEF Write
<1>15. CASE Verify(t)
  <2>1. CASE Fail(t, "notSet") \/ Fail(t, "nativeError")
    BY <1>2, <2>1 DEF Results
  <2>2. CASE Op(t) = "open" /\ Draft(t, NoDraft, "flush")
    BY <1>15, <2>2, GotoPhase DEF Verify, At, Draft, Labels, Resting
  <2>3. CASE Finish(t, "ok") /\ UNCHANGED socket
    BY <1>3, <2>3 DEF Results
  <2>. QED BY <1>15, <2>1, <2>2, <2>3 DEF Verify, Accept
<1>16. CASE Return(t)
  <2>1. /\ pc[t] = "return" /\ pc'[t] = "idle"
        /\ \A u \in Threads \ {t} : pc'[u] = pc[u]
        /\ \A u \in Threads : Op(u)' = Op(u)
        /\ UNCHANGED socket
    BY <1>16 DEF PhaseInv, ShapeInv, Return, At, Goto, Op
  <2>2. ShapeInv'
    BY <1>16 DEF PhaseInv, ShapeInv, Return, Goto, Labels, Results
  <2>3. ASSUME NEW u \in Threads PROVE Phase(u)'
    BY <2>1 DEF PhaseInv, Phase, Resting, socket
  <2>. QED BY <2>1, <2>2, <2>3 DEF PhaseInv, socket
<1>. QED BY <1>1, <1>6, <1>7, <1>8, <1>9, <1>10, <1>11, <1>12, <1>13, <1>14, <1>15, <1>16
     DEF Setting, Reading

\* Nobody is in open0 when the close begins, and CancelIo sets the field of no closing socket.
LEMMA ClosingPhase ==
  ASSUME PhaseInv, NEW t \in Threads, Closing(t)
  PROVE  PhaseInv'
<1>1. /\ pc[t] \in {"idle", "close"} /\ pc'[t] \in {"idle", "close"}
      /\ \A u \in Threads \ {t} : pc'[u] = pc[u]
      /\ \A u \in Threads : Op(u)' = Op(u)
  BY DEF PhaseInv, ShapeInv, Closing, Mark, Release, CancelFails, At, Goto, Op
<1>2. ShapeInv'
  BY DEF PhaseInv, ShapeInv, Closing, Mark, Release, CancelFails, Goto, Labels
<1>3. /\ stage \in {"open", "closing", "notClosed"} /\ stage' \in {"closing", "notClosed"}
      /\ stage' = "closing" => fd' = "INVALID_FD"
  BY DEF PhaseInv, Phase, Closing, Mark, Release, CancelFails, At
<1>4. ASSUME NEW u \in Threads PROVE Phase(u)'
  BY <1>1, <1>3 DEF PhaseInv, Phase, Resting
<1>. QED BY <1>2, <1>3, <1>4 DEF PhaseInv

LEMMA NextPhase == ASSUME PhaseInv, [Next]_vars PROVE PhaseInv'
<1>1. CASE UNCHANGED <<fd, stage, pc, request, result>>
  BY <1>1 DEF PhaseInv, ShapeInv, Phase, Op
<1>2. ASSUME NEW t \in Threads, Opening(t) \/ Setting(t) \/ Closing(t) PROVE PhaseInv'
  BY <1>2, OpeningPhase, SettingPhase, ClosingPhase
<1>3. CASE UNCHANGED vars
  BY <1>1, <1>3 DEF vars, socket, frame
<1>4. CASE ReuseNumber
  BY <1>1, <1>4 DEF ReuseNumber, frame
<1>. QED BY <1>2, <1>3, <1>4 DEF Next

\* Which calls are possible at which stage of the socket; while it is closing the field
\* is invalid, and stays so.
THEOREM NativePhases == Spec => []PhaseInv
<1>1. Init => PhaseInv
  BY OpsApart DEF Init, PhaseInv, ShapeInv, Phase, Resting, Op, NoRequest, Labels, Results
<1>2. PhaseInv /\ [Next]_vars => PhaseInv'
  BY NextPhase
<1>. QED BY <1>1, <1>2, PTL DEF Spec

\* A call that copied the field after close0 had reset it reaches no device.
LEMMA DetachedFindsNothing ==
  ASSUME NEW t \in Threads, number[t] = "INVALID_FD"
  PROVE  Named(t) = "free" /\ Found(t) = {}
BY DEF Named, Found

\* What the calls that end during the close are told.
LEMMA EndsAsClosed ==
  ASSUME PhaseInv, stage = "closing", NEW t \in Threads, Setting(t), Ends(t)
  PROVE  /\ result'[t] = "nativeError" => ReadsTwoSpeeds(t)
         /\ number[t] = "INVALID_FD" => result'[t] = "PORT_IS_CLOSED"
<1>1. throw_ClosedOrNativeException(t) = "PORT_IS_CLOSED"
  BY DEF PhaseInv, throw_ClosedOrNativeException
<1>2. ASSUME NEW r, Finish(t, r) PROVE result'[t] = r
  BY <1>2 DEF PhaseInv, ShapeInv, Finish
<1>3. ASSUME NEW label, label # "return", Goto(t, label) PROVE FALSE
  BY <1>3 DEF PhaseInv, ShapeInv, Ends, Goto
<1>4. CASE Fail(t, "PORT_IS_CLOSED")
  BY <1>2, <1>4 DEF Fail
<1>5. CASE number[t] # "INVALID_FD" /\ \E r \in {"ok", "rejected", "notSet"} : Finish(t, r)
  BY <1>2, <1>5
<1>6. CASE Call(t) \/ Load(t) \/ Return(t)
  BY <1>3, <1>6 DEF Call, Load, Return
<1>7. CASE ReadFails(t) \/ VerifyFails(t)
  BY <1>1, <1>4, <1>7 DEF ReadFails, VerifyFails
<1>8. CASE WriteFails(t)
  BY <1>1, <1>4, <1>5, <1>8, DetachedFindsNothing DEF WriteFails, NotAcceptable, Fail
<1>9. ASSUME NEW d, NEW label \in {"loadWrite", "write", "flush"}, Draft(t, d, label) PROVE FALSE
  BY <1>3, <1>9 DEF Draft
<1>10. CASE ReadParams(t) \/ ReadSpeed(t) \/ ReadTimeouts(t)
  BY <1>5, <1>9, <1>10, DetachedFindsNothing DEF ReadParams, ReadSpeed, ReadTimeouts, Apply, Fail
<1>11. CASE ReadChars(t) \/ ReadLines(t)
  BY <1>9, <1>11 DEF ReadChars, ReadLines
<1>12. CASE ReadOnly(t)
  <2>1. PICK d \in Found(t) :
          Finish(t, "ok") \/ (Op(t) = "getParameters" /\ Unreadable(d) /\ Finish(t, Misread))
    BY <1>12 DEF ReadOnly
  <2>2. number[t] # "INVALID_FD"
    BY DetachedFindsNothing
  <2>3. CASE Finish(t, "ok")
    BY <1>5, <2>2, <2>3
  <2>4. CASE Op(t) = "getParameters" /\ Unreadable(d) /\ Finish(t, Misread)
    <3>1. result'[t] = Misread
      BY <1>2, <2>4
    <3>2. Misread = "nativeError" => ReadsTwoSpeeds(t)
      BY <1>12, <2>4 DEF ReadOnly, ReadsTwoSpeeds, Misread
    <3>. QED BY <2>2, <3>1, <3>2
  <2>. QED BY <2>1, <2>3, <2>4
<1>13. CASE Write(t)
  BY <1>3, <1>5, <1>13, DetachedFindsNothing DEF Write
<1>14. CASE Verify(t)
  <2>1. PICK d \in Found(t) :
          (Mismatch(t, d) /\ Fail(t, "nativeError")) \/ Accept(t) \/ Fail(t, "notSet")
    BY <1>14 DEF Verify
  <2>2. number[t] # "INVALID_FD"
    BY DetachedFindsNothing
  <2>3. CASE Mismatch(t, d) /\ Fail(t, "nativeError")
    BY <1>14, <2>2, <2>3 DEF Verify, ReadsTwoSpeeds
  <2>4. CASE Accept(t) \/ Fail(t, "notSet")
    BY <1>5, <1>9, <2>2, <2>4 DEF Accept, Fail
  <2>. QED BY <2>1, <2>3, <2>4
<1>. QED BY <1>6, <1>7, <1>8, <1>10, <1>11, <1>12, <1>13, <1>14 DEF Setting, Reading

\* A step of a thread moves no other.
LEMMA MovesItself ==
  ASSUME NEW t \in Threads, Opening(t) \/ Setting(t) \/ Closing(t)
  PROVE  \E label : Goto(t, label)
<1>1. ASSUME NEW r, Finish(t, r) PROVE Goto(t, "return")
  BY <1>1 DEF Finish
<1>2. ASSUME NEW r, Fail(t, r) PROVE Goto(t, "return")
  BY <1>1, <1>2 DEF Fail
<1>3. ASSUME NEW d, NEW label, Draft(t, d, label) PROVE Goto(t, label)
  BY <1>3 DEF Draft
<1>4. CASE Opening(t)
  BY <1>1, <1>2, <1>3, <1>4, Zenon
     DEF Opening, Open, Attributes, FlushDevice, CreateEvents, Apply
<1>5. CASE Closing(t)
  BY <1>5 DEF Closing, Mark, Release, CancelFails
<1>6. CASE Call(t) \/ Load(t) \/ Return(t)
  BY <1>6, Zenon DEF Call, Load, Return
<1>7. CASE ReadFails(t) \/ VerifyFails(t) \/ WriteFails(t)
  BY <1>2, <1>7, Zenon DEF ReadFails, VerifyFails, WriteFails
<1>8. CASE ReadParams(t) \/ ReadSpeed(t) \/ ReadTimeouts(t)
  BY <1>2, <1>3, <1>8, Zenon DEF ReadParams, ReadSpeed, ReadTimeouts, Apply
<1>9. CASE ReadChars(t) \/ ReadLines(t)
  BY <1>3, <1>9, Zenon DEF ReadChars, ReadLines
<1>10. CASE ReadOnly(t) \/ Write(t)
  BY <1>1, <1>10, Zenon DEF ReadOnly, Write
<1>11. CASE Verify(t)
  BY <1>1, <1>2, <1>3, <1>11, Zenon DEF Verify, Accept
<1>. QED BY <1>4, <1>5, <1>6, <1>7, <1>8, <1>9, <1>10, <1>11 DEF Setting, Reading

\* Once close0 has reset the field, no setter and no getter gets another native error than
\* that of the two speeds which it did read in a terminal, and one that copied the field
\* after the reset is told "closed", on both platforms and whatever its number names by now.
THEOREM NativeCloseIsReported == Spec => ClosedIsReported
<1>1. PhaseInv /\ [Next]_vars =>
        [\A t \in Threads :
           Ends(t) /\ stage = "closing"
           => /\ result'[t] = "nativeError" => ReadsTwoSpeeds(t)
              /\ number[t] = "INVALID_FD" => result'[t] = "PORT_IS_CLOSED"]_vars
  <2>. SUFFICES ASSUME PhaseInv, Next, NEW t \in Threads, Ends(t), stage = "closing"
                PROVE  /\ result'[t] = "nativeError" => ReadsTwoSpeeds(t)
                       /\ number[t] = "INVALID_FD" => result'[t] = "PORT_IS_CLOSED"
    BY DEF Ends
  <2>1. CASE Setting(t)
    BY <2>1, EndsAsClosed
  <2>2. CASE Opening(t)
    BY <2>2 DEF Opening, Open, Attributes, FlushDevice, CreateEvents, At, PhaseInv, Phase
  <2>3. CASE Closing(t)
    BY <2>3 DEF Closing, Mark, Release, CancelFails, Goto, Ends, PhaseInv, ShapeInv
  <2>4. ASSUME NEW u \in Threads \ {t}, Opening(u) \/ Setting(u) \/ Closing(u) PROVE pc'[t] = pc[t]
    <3>. PICK label : Goto(u, label)
      BY <2>4, MovesItself
    <3>. QED BY DEF Goto, PhaseInv, ShapeInv
  <2>5. CASE ReuseNumber
    BY <2>5 DEF ReuseNumber, frame, Ends
  <2>. QED BY <2>1, <2>2, <2>3, <2>4, <2>5 DEF Next, Ends
<1>. QED BY <1>1, NativePhases, PTL DEF Spec, ClosedIsReported

------------------------------------------------------------------------------
(* What can be sent: 5 data bits with 1 or 1.5 stop bits, more with 1 or 2. *)

Fits(dcb) ==
  /\ {"size", "stop"} \subseteq DOMAIN dcb
  /\ dcb.size \in DataBits
  /\ dcb.stop \in StopBits
  /\ dcb.stop = "SB_1" \/ (dcb.stop = "SB_1_5" <=> dcb.size = "DB_5")

\* The DCB fits, and so does every one that a setter is about to write: it may be
\* written after another setter has changed the device.
FitInv == platform = "windows" =>
  /\ Fits(device)
  /\ \A t \in Threads :
       pc[t] \in {"loadWrite", "write"} /\ Op(t) \notin LineOps \cup {"setTimeouts"}
         => Fits(draft[t])

\* The settings that open0 and the setters are called with.
Asks == OpenAsks \cup {r.ask : r \in Requests}

\* The arguments, one by one.
LEMMA AskFields ==
  ASSUME NEW ask, IsAsk(ask)
  PROVE  /\ ask.speed \subseteq Speeds
         /\ ask.inSpeed \subseteq Speeds
         /\ ask.outSpeed \subseteq Speeds
         /\ ask.dataBits \subseteq DataBits
         /\ ask.stopBits \subseteq StopBits
         /\ ask.parity \subseteq Parity
         /\ ask.flowControls \subseteq SUBSET FlowControl
         /\ ask.xon \subseteq Jchar
         /\ ask.xoff \subseteq Jchar
         /\ ask.RTS \subseteq BOOLEAN
         /\ ask.DTR \subseteq BOOLEAN
         /\ ask.timeouts \subseteq [1..3 -> Jint]
BY DEF IsAsk

\* setParams makes of a DCB that fits another one.
LEMMA ModifiedFits ==
  ASSUME NEW dcb, Fits(dcb), NEW ask \in Asks, ~RejectsDCB(ask, dcb)
  PROVE  Fits(ModifiedDCB(ask, dcb))
<1>. DEFINE size  == Chosen(ask.dataBits, dcb.size)
            fixed == IF ask.dataBits = {} THEN dcb.stop ELSE FixedStopBits(size, dcb.stop)
            stop  == Chosen(ask.stopBits, fixed)
            one   == ModifiedSize(ask, dcb)
            two   == [one EXCEPT !.stop = stop, !.parity = Chosen(ask.parity, @)]
<1>1. /\ DOMAIN one = DOMAIN dcb
      /\ one.size = size /\ one.stop = fixed
  BY DEF ModifiedSize, Fits
<1>2. /\ DOMAIN two = DOMAIN dcb
      /\ two.size = size /\ two.stop = stop
  BY <1>1 DEF Fits
<1>8. size \in DataBits
  BY NativeAssumption, AskFields DEF Asks, Fits, Chosen
<1>3. fixed \in StopBits /\ (fixed = "SB_1" \/ (fixed = "SB_1_5" <=> size = "DB_5"))
  BY DEF Fits, FixedStopBits, StopBits, Chosen
<1>4. stop \in StopBits /\ (stop = "SB_1" \/ (stop = "SB_1_5" <=> size = "DB_5"))
  <2>1. CASE ask.stopBits = {}
    BY <1>3, <2>1 DEF Chosen
  <2>2. CASE ask.stopBits # {}
    <3>1. stop \in ask.stopBits
      BY <2>2 DEF Chosen
    <3>2. stop \in StopBits
      BY <3>1, NativeAssumption, AskFields DEF Asks
    <3>3. /\ stop = "SB_1_5" => size = "DB_5"
          /\ stop = "SB_2" => size # "DB_5"
      BY <3>1 DEF RejectsDCB
    <3>. QED BY <3>2, <3>3 DEF StopBits
  <2>. QED BY <2>1, <2>2
<1>5. ModifiedDCB(ask, dcb) = ModifiedFlow(ask, two)
  BY <1>1 DEF ModifiedDCB
<1>6. Fits(two)
  BY <1>2, <1>4, <1>8 DEF Fits
<1>. HIDE DEF two
<1>7. ASSUME NEW d, Fits(d) PROVE Fits(ModifiedFlow(ask, d))
  BY <1>7 DEF Fits, ModifiedFlow
<1>. QED BY <1>5, <1>6, <1>7

\* A driver that takes the data bits and the stop bits it is given keeps what fits.
LEMMA AcceptedFits ==
  ASSUME Stuck \cap (DataBits \cup StopBits) = {}, NEW old, NEW new, Fits(new)
  PROVE  Fits(AcceptedDCB(old, new))
<1>1. new.size \notin Stuck /\ new.stop \notin Stuck
  BY DEF Fits
<1>. QED BY <1>1 DEF Fits, AcceptedDCB

\* Every thread has a draft.
DraftShape == DOMAIN draft = Threads

\* A step of a thread writes no other's draft.
LEMMA WritesItself ==
  ASSUME NEW t \in Threads, Opening(t) \/ Setting(t) \/ Closing(t)
  PROVE  UNCHANGED draft \/ \E d : draft' = [draft EXCEPT ![t] = d]
<1>. DEFINE Writes == UNCHANGED draft \/ \E d : draft' = [draft EXCEPT ![t] = d]
<1>. SUFFICES Writes
  OBVIOUS
<1>1. ASSUME NEW r, Finish(t, r) PROVE Writes
  BY <1>1 DEF Finish
<1>2. ASSUME NEW r, Fail(t, r) PROVE Writes
  BY <1>1, <1>2 DEF Fail
<1>3. ASSUME NEW d, NEW label, Draft(t, d, label) PROVE Writes
  BY <1>3 DEF Draft
<1>. HIDE DEF Writes
<1>4. CASE Opening(t)
  <2>1. CASE Open(t)
    BY <2>1 DEF Open, Writes
  <2>. QED BY <1>1, <1>2, <1>3, <1>4, <2>1, Zenon
          DEF Opening, Attributes, FlushDevice, CreateEvents, Apply
<1>5. CASE Closing(t)
  BY <1>5 DEF Closing, Mark, Release, CancelFails, Writes
<1>6. CASE Call(t) \/ Load(t) \/ Return(t)
  BY <1>6 DEF Call, Load, Return, Writes
<1>7. CASE ReadFails(t) \/ VerifyFails(t) \/ WriteFails(t)
  BY <1>2, <1>7, Zenon DEF ReadFails, VerifyFails, WriteFails
<1>8. CASE ReadParams(t) \/ ReadSpeed(t) \/ ReadTimeouts(t)
  BY <1>2, <1>3, <1>8, Zenon DEF ReadParams, ReadSpeed, ReadTimeouts, Apply
<1>9. CASE ReadChars(t) \/ ReadLines(t)
  BY <1>3, <1>9, Zenon DEF ReadChars, ReadLines
<1>10. CASE ReadOnly(t)
  BY <1>1, <1>10, Zenon DEF ReadOnly
<1>11. CASE Write(t)
  <2>1. CASE Finish(t, "ok")
    BY <1>1, <2>1
  <2>. QED BY <1>11, <2>1 DEF Write, Writes
<1>12. CASE Verify(t)
  BY <1>1, <1>2, <1>3, <1>12, Zenon DEF Verify, Accept
<1>. QED BY <1>4, <1>5, <1>6, <1>7, <1>8, <1>9, <1>10, <1>11, <1>12 DEF Setting, Reading

\* What a step of t has to do: leave a device that fits, and a draft of t that fits if
\* it is for the device.
LEMMA KeepsFit ==
  ASSUME FitInv, ShapeInv, UNCHANGED platform, NEW t \in Threads,
         platform = "windows" => Fits(device'),
         \A u \in Threads \ {t} : pc'[u] = pc[u] /\ Op(u)' = Op(u) /\ draft'[u] = draft[u],
         /\ platform = "windows"
         /\ pc'[t] \in {"loadWrite", "write"}
         /\ Op(t)' \notin LineOps \cup {"setTimeouts"}
         => Fits(draft'[t])
  PROVE  FitInv'
BY DEF FitInv

\* A call that ends has no draft.
LEMMA FinishFit ==
  ASSUME FitInv, ShapeInv, DraftShape, UNCHANGED platform, NEW t \in Threads, NEW r, Finish(t, r),
         platform = "windows" => Fits(device')
  PROVE  FitInv'
<1>1. /\ pc'[t] = "return"
      /\ \A u \in Threads \ {t} : pc'[u] = pc[u] /\ Op(u)' = Op(u) /\ draft'[u] = draft[u]
  BY DEF ShapeInv, DraftShape, Finish, Goto, Op
<1>. QED BY <1>1, KeepsFit

LEMMA FailFit ==
  ASSUME FitInv, ShapeInv, DraftShape, NEW t \in Threads, NEW r, Fail(t, r)
  PROVE  FitInv'
BY FinishFit DEF Fail, driver, FitInv

\* A draft that is made for the device fits.
LEMMA DraftFit ==
  ASSUME FitInv, ShapeInv, DraftShape, NEW t \in Threads, NEW d, NEW label, Draft(t, d, label),
         /\ platform = "windows" /\ label \in {"loadWrite", "write"}
         /\ Op(t) \notin LineOps \cup {"setTimeouts"}
         => Fits(d)
  PROVE  FitInv'
<1>1. /\ pc'[t] = label /\ draft'[t] = d
      /\ \A u \in Threads \ {t} : pc'[u] = pc[u] /\ draft'[u] = draft[u]
      /\ \A u \in Threads : Op(u)' = Op(u)
  BY DEF ShapeInv, DraftShape, Draft, Goto, Op
<1>. QED BY <1>1, KeepsFit DEF Draft, driver, FitInv

\* setParams from a DCB that fits.
LEMMA ApplyFit ==
  ASSUME FitInv, ShapeInv, DraftShape, NEW t \in Threads, NEW d, Apply(t, d),
         platform = "windows" => Fits(d) /\ Ask(t) \in Asks
  PROVE  FitInv'
<1>1. CASE Fail(t, "rejected")
  BY <1>1, FailFit
<1>2. CASE ~Rejected(Ask(t), d) /\ Draft(t, Changed(Ask(t), d), "loadWrite")
  <2>1. platform = "windows" => Fits(Changed(Ask(t), d))
    BY <1>2, ModifiedFits DEF Rejected, Changed
  <2>. QED BY <1>2, <2>1, DraftFit
<1>. QED BY <1>1, <1>2 DEF Apply

LEMMA NextDraftShape ==
  ASSUME DraftShape, [Next]_vars
  PROVE  DraftShape'
<1>1. CASE UNCHANGED draft
  BY <1>1 DEF DraftShape
<1>2. ASSUME NEW t \in Threads, Opening(t) \/ Setting(t) \/ Closing(t) PROVE DraftShape'
  <2>1. UNCHANGED draft \/ \E d : draft' = [draft EXCEPT ![t] = d]
    BY <1>2, WritesItself
  <2>. QED BY <1>1, <2>1 DEF DraftShape
<1>. QED BY <1>1, <1>2 DEF Next, ReuseNumber, vars, frame

\* A call has been asked for settings of their types.
LEMMA AsksTyped ==
  ASSUME PhaseInv, NEW t \in Threads, pc[t] \notin Resting
  PROVE  Ask(t) \in Asks
<1>1. Op(t) # "none"
  BY DEF PhaseInv, Phase
<1>2. request[t] \in Requests \cup OpenRequests
  BY <1>1 DEF PhaseInv, ShapeInv, Op, NoRequest
<1>. QED BY <1>2 DEF Ask, Asks, OpenRequests

\* The steps of open0 leave drafts that fit.
LEMMA OpeningFit ==
  ASSUME FitInv, PhaseInv, DraftShape, NEW t \in Threads, Opening(t)
  PROVE  FitInv'
<1>0. ShapeInv
  BY DEF PhaseInv
<1>1. CASE Open(t)
  <2>1. /\ pc'[t] \notin {"loadWrite", "write"}
        /\ \A u \in Threads \ {t} : pc'[u] = pc[u] /\ Op(u)' = Op(u) /\ draft'[u] = draft[u]
    BY <1>0, <1>1 DEF Open, ShapeInv, Goto, Op
  <2>. QED BY <1>0, <1>1, <2>1, KeepsFit DEF Open, driver, FitInv
<1>2. CASE Attributes(t)
  <2>1. Ask(t) \in Asks
    BY <1>2, AsksTyped DEF Attributes, At, Resting
  <2>2. CASE Apply(t, device) /\ platform = "windows"
    BY <1>0, <2>1, <2>2, ApplyFit DEF FitInv
  <2>3. CASE Apply(t, Raw(device)) /\ platform = "termios"
    BY <1>0, <2>3, ApplyFit
  <2>4. CASE Fail(t, "nativeError")
    BY <1>0, <2>4, FailFit
  <2>5. CASE Draft(t, NoDraft, "flush")
    BY <1>0, <2>5, DraftFit
  <2>. QED BY <1>2, <2>2, <2>3, <2>4, <2>5 DEF Attributes
<1>3. CASE FlushDevice(t)
  <2>1. CASE Fail(t, "nativeError")
    BY <1>0, <2>1, FailFit
  <2>2. CASE Draft(t, NoDraft, "events")
    BY <1>0, <2>2, DraftFit
  <2>3. CASE Finish(t, "ok") /\ UNCHANGED <<platform, device>>
    BY <1>0, <2>3, FinishFit DEF FitInv
  <2>. QED BY <1>3, <2>1, <2>2, <2>3 DEF FlushDevice
<1>4. CASE CreateEvents(t)
  <2>1. UNCHANGED <<platform, device>> /\ \E r : Finish(t, r)
    BY <1>4 DEF CreateEvents, driver
  <2>. QED BY <1>0, <2>1, FinishFit DEF FitInv
<1>. QED BY <1>1, <1>2, <1>3, <1>4 DEF Opening

\* So do the setters, whose drafts are of the port or of another device.
LEMMA SettingFit ==
  ASSUME \A d \in Previous["windows"] : Fits(d), Stuck \cap (DataBits \cup StopBits) = {},
         FitInv, PhaseInv, DraftShape, NEW t \in Threads, Setting(t)
  PROVE  FitInv'
<1>0. ShapeInv
  BY DEF PhaseInv
<1>1. platform = "windows" => \A d \in Found(t) : Fits(d)
  BY DEF Found, FitInv
<1>2. CASE \E r : Fail(t, r)
  BY <1>0, <1>2, FailFit
<1>3. CASE UNCHANGED <<platform, driver>> /\ \E r : Finish(t, r)
  BY <1>0, <1>3, FinishFit DEF driver, FitInv
<1>4. CASE Call(t)
  <2>1. /\ pc'[t] \in {"loadWrite", "write"} => Op(t)' \in LineOps
        /\ \A u \in Threads \ {t} : pc'[u] = pc[u] /\ Op(u)' = Op(u) /\ draft'[u] = draft[u]
    BY <1>0, <1>4 DEF Call, ShapeInv, Goto, Op
  <2>. QED BY <1>0, <1>4, <2>1, KeepsFit DEF Call, driver, FitInv
<1>5. CASE Load(t)
  <2>1. /\ pc[t] = "loadWrite" \/ pc'[t] = "verify"
        /\ Op(t)' = Op(t) /\ draft'[t] = draft[t]
        /\ \A u \in Threads \ {t} : pc'[u] = pc[u] /\ Op(u)' = Op(u) /\ draft'[u] = draft[u]
    BY <1>0, <1>5 DEF Load, ShapeInv, At, Goto, Op
  <2>2. /\ platform = "windows"
        /\ pc'[t] \in {"loadWrite", "write"}
        /\ Op(t)' \notin LineOps \cup {"setTimeouts"}
        => Fits(draft'[t])
    BY <2>1 DEF FitInv
  <2>. QED BY <1>0, <1>5, <2>1, <2>2, KeepsFit DEF Load, driver, FitInv
<1>6. CASE Return(t)
  <2>1. /\ pc'[t] = "idle"
        /\ \A u \in Threads \ {t} : pc'[u] = pc[u] /\ Op(u)' = Op(u) /\ draft'[u] = draft[u]
    BY <1>0, <1>6 DEF Return, ShapeInv, Goto, Op
  <2>. QED BY <1>0, <1>6, <2>1, KeepsFit DEF Return, driver, FitInv
<1>7. CASE ReadFails(t) \/ WriteFails(t) \/ VerifyFails(t)
  <2>1. \E r : Fail(t, r)
    BY <1>7, Zenon DEF ReadFails, WriteFails, VerifyFails
  <2>. QED BY <1>2, <2>1
<1>8. CASE ReadParams(t)
  <2>1. Ask(t) \in Asks
    BY <1>8, AsksTyped DEF ReadParams, At, Resting
  <2>. QED BY <1>0, <1>1, <1>8, <2>1, ApplyFit DEF ReadParams
<1>9. CASE ReadSpeed(t)
  <2>1. ASSUME NEW d \in Found(t),
               Draft(t, [d EXCEPT !.ispeed = Chosen(Ask(t).inSpeed, @),
                                  !.ospeed = Chosen(Ask(t).outSpeed, @)], "write")
        PROVE  FitInv'
    <3>1. platform = "windows" =>
            Fits([d EXCEPT !.ispeed = Chosen(Ask(t).inSpeed, @),
                           !.ospeed = Chosen(Ask(t).outSpeed, @)])
      BY <1>1 DEF Fits
    <3>. QED BY <1>0, <2>1, <3>1, DraftFit
  <2>. QED BY <1>2, <1>9, <2>1 DEF ReadSpeed
<1>10. CASE ReadChars(t)
  <2>1. ASSUME NEW d \in Found(t),
               Draft(t, [d EXCEPT !.vstart = ToByte(Chosen(Ask(t).xon, @)),
                                  !.vstop  = ToByte(Chosen(Ask(t).xoff, @))], "write")
        PROVE  FitInv'
    <3>1. platform = "windows" =>
            Fits([d EXCEPT !.vstart = ToByte(Chosen(Ask(t).xon, @)),
                           !.vstop  = ToByte(Chosen(Ask(t).xoff, @))])
      BY <1>1 DEF Fits
    <3>. QED BY <1>0, <2>1, <3>1, DraftFit
  <2>. QED BY <1>10, <2>1 DEF ReadChars
<1>11. CASE ReadLines(t) \/ ReadTimeouts(t)
  <2>1. /\ Op(t) \in LineOps \cup {"setTimeouts"}
        /\ (\E r : Fail(t, r)) \/ \E d : Draft(t, d, "write")
    BY <1>11 DEF ReadLines, ReadTimeouts
  <2>. QED BY <1>0, <1>2, <2>1, DraftFit
<1>12. CASE ReadOnly(t)
  BY <1>3, <1>12 DEF ReadOnly
<1>13. CASE Write(t)
  <2>1. platform = "windows" => Fits(device')
    <3>1. CASE Written(t)
      <4>1. CASE Op(t) \in LineOps \cup {"setTimeouts"}
        BY <3>1, <4>1 DEF Written, FitInv, LineOps
      <4>2. CASE Op(t) \notin LineOps \cup {"setTimeouts"}
        <5>1. device' = Kept(device, draft[t])
          BY <3>1, <4>2 DEF Written
        <5>2. platform = "windows" => Fits(draft[t])
          BY <1>13, <4>2 DEF Write, At, FitInv
        <5>. QED BY <5>1, <5>2, AcceptedFits DEF Kept
      <4>. QED BY <4>1, <4>2
    <3>2. CASE UNCHANGED driver
      BY <3>2 DEF driver, FitInv
    <3>. QED BY <1>13, <3>1, <3>2 DEF Write
  <2>2. CASE Finish(t, "ok")
    BY <1>0, <1>13, <2>1, <2>2, FinishFit DEF Write
  <2>3. CASE /\ Goto(t, AfterWrite(t)) /\ AfterWrite(t) # "return"
             /\ draft' = [draft EXCEPT ![t] = NoDraft] /\ UNCHANGED request
    <3>1. /\ pc'[t] \notin {"loadWrite", "write"}
          /\ \A u \in Threads \ {t} : pc'[u] = pc[u] /\ Op(u)' = Op(u) /\ draft'[u] = draft[u]
      BY <1>0, <2>3 DEF ShapeInv, DraftShape, Goto, Op, AfterWrite
    <3>. QED BY <1>0, <1>13, <2>1, <3>1, KeepsFit DEF Write
  <2>. QED BY <1>13, <2>2, <2>3 DEF Write
<1>14. CASE Verify(t)
  BY <1>0, <1>2, <1>3, <1>14, DraftFit DEF Verify, Accept
<1>. QED BY <1>4, <1>5, <1>6, <1>7, <1>8, <1>9, <1>10, <1>11, <1>12, <1>13, <1>14
     DEF Setting, Reading

LEMMA NextFit ==
  ASSUME \A d \in Previous["windows"] : Fits(d), Stuck \cap (DataBits \cup StopBits) = {},
         FitInv, PhaseInv, DraftShape, [Next]_vars
  PROVE  FitInv'
<1>0. ShapeInv
  BY DEF PhaseInv
<1>1. CASE UNCHANGED <<platform, device, pc, request, draft>>
  BY <1>1 DEF FitInv, Op
<1>2. ASSUME NEW t \in Threads, Opening(t) PROVE FitInv'
  BY <1>2, OpeningFit
<1>3. ASSUME NEW t \in Threads, Setting(t) PROVE FitInv'
  BY <1>3, SettingFit
<1>4. ASSUME NEW t \in Threads, Closing(t) PROVE FitInv'
  <2>1. /\ pc'[t] \notin {"loadWrite", "write"} /\ UNCHANGED <<platform, device, draft>>
        /\ \A u \in Threads \ {t} : pc'[u] = pc[u] /\ Op(u)' = Op(u)
    BY <1>0, <1>4 DEF Closing, Mark, Release, CancelFails, ShapeInv, Goto, Op, driver
  <2>. QED BY <1>0, <2>1, KeepsFit DEF FitInv
<1>5. CASE UNCHANGED vars
  BY <1>1, <1>5 DEF vars, frame, driver
<1>6. CASE ReuseNumber
  BY <1>1, <1>6 DEF ReuseNumber, frame, driver
<1>. QED BY <1>2, <1>3, <1>4, <1>5, <1>6 DEF Next

\* No UART is ever asked for 2 stop bits with 5 data bits or for 1.5 with more, however many
\* setters change the one and the other at the same time, if the driver takes the data
\* bits and the stop bits it is given and the programs before left a DCB that fits.
THEOREM StopBitsAlwaysFit ==
  ASSUME \A d \in Previous["windows"] : Fits(d), Stuck \cap (DataBits \cup StopBits) = {}
  PROVE  Spec => []StopBitsFit
<1>1. Init => FitInv /\ DraftShape
  BY DEF Init, FitInv, DraftShape
<1>2. FitInv /\ DraftShape /\ PhaseInv /\ [Next]_vars => FitInv' /\ DraftShape'
  BY NextFit, NextDraftShape
<1>3. FitInv => StopBitsFit
  BY DEF FitInv, StopBitsFit, Fits, StopBits
<1>. QED BY <1>1, <1>2, <1>3, NativePhases, PTL DEF Spec

------------------------------------------------------------------------------
\* An interval of 0 with a total timeout, the case that Windows encodes by MAXDWORD, and
\* every other combination of timeouts reads back as it was set, and no field overflows.
THEOREM TimeoutsReadBack ==
  ASSUME NEW inter \in 0..MaxInt, NEW overall \in 0..MaxInt, NEW write \in 0..MaxInt
  PROVE  LET ask == <<inter, overall, write>>
         IN  /\ ~RejectsTimeouts(ask)
             /\ CommTimeouts(ask) \in COMMTIMEOUTS
             /\ TimeoutsOf(CommTimeouts(ask)) = ask
<1>. DEFINE ask == <<inter, overall, write>>
            ct  == CommTimeouts(ask)
<1>1. ask[1] = inter /\ ask[2] = overall /\ ask[3] = write
  OBVIOUS
<1>2. ~RejectsTimeouts(ask)
  BY <1>1 DEF RejectsTimeouts
<1>3. MaxInt \in Nat /\ MAXDWORD = 2 * MaxInt + 1
  BY WidthAssumption DEF MAXDWORD
<1>4. /\ ct.interval = IF inter = 0 /\ overall > 0 THEN MAXDWORD ELSE inter
      /\ ct.multiplier = IF inter = 0 /\ overall > 0 THEN MAXDWORD ELSE 0
      /\ ct.constant = overall
      /\ ct.write = write
  BY <1>1 DEF CommTimeouts
<1>5. ct \in COMMTIMEOUTS
  BY <1>1, <1>3, <1>4 DEF COMMTIMEOUTS, CommTimeouts
<1>6. InterByte(ct) = inter
  BY <1>3, <1>4 DEF InterByte
<1>7. TimeoutsOf(ct) = ask
  BY <1>4, <1>6 DEF TimeoutsOf
<1>. QED BY <1>2, <1>5, <1>7

------------------------------------------------------------------------------
(* Every step keeps the types. *)

Steps(t) == Opening(t) \/ Setting(t) \/ Closing(t)

PortType ==
  /\ platform \in Platforms
  /\ fd \in {"number", "INVALID_FD"}
  /\ file \in {"none", "port", "free", "other"}
  /\ stage \in {"new", "opening", "open", "failed", "closing", "notClosed"}
  /\ device \in Devices
  /\ lines \subseteq Lines
  /\ timeouts \in COMMTIMEOUTS
  /\ number \in [Threads -> {"number", "INVALID_FD"}]

\* What a setter prepares for the driver.
DraftsOf(op) == CASE op \in LineOps     -> SUBSET Lines
                  [] op = "setTimeouts" -> COMMTIMEOUTS
                  [] OTHER              -> Devices

\* Only calls of the platform are made; the draft that is about to be written is of the
\* kind that the call writes.
Frame(t) ==
  /\ Op(t) \in OpsOf(platform) \cup {"open", "none"}
  /\ pc[t] = "loadWrite" => Op(t) \in ParamOps
  /\ pc[t] = "write" => Op(t) \notin Getters \cup {"getTimeouts"}
  /\ pc[t] \in {"loadWrite", "write"} /\ (platform = "termios" \/ Op(t) \notin LineOps)
       => draft[t] \in DraftsOf(Op(t))

TypeInv == PortType /\ DraftShape /\ \A t \in Threads : Frame(t)

\* What holds of the arguments of a call.
LEMMA AskFacts ==
  ASSUME ShapeInv, NEW t \in Threads
  PROVE  IsAsk(Ask(t))
<1>1. CASE request[t] = NoRequest
  BY <1>1 DEF Ask, NoRequest, NoAsk, IsAsk, Items
<1>2. CASE request[t] # NoRequest
  BY <1>2, NativeAssumption DEF ShapeInv, Ask, OpenRequests
<1>. QED BY <1>1, <1>2

LEMMA ChosenIn ==
  ASSUME NEW S, NEW arg, arg \subseteq S, NEW old \in S
  PROVE  Chosen(arg, old) \in S
BY DEF Chosen

LEMMA FlagsTyped ==
  ASSUME NEW ask, IsAsk(ask), NEW flags \in SUBSET Flags
  PROVE  ModifiedFlags(ask, flags) \in SUBSET Flags
<1>. DEFINE stop == Replaced(flags, ask.stopBits, {"CSTOPB"}, UNION {StopBitsBits(x) : x \in ask.stopBits})
            par  == Replaced(stop, ask.parity, ParityMask, UNION {ParityBits(x) : x \in ask.parity})
            flow == UNION {FlowBits(x) : x \in ask.flowControls}
<1>1. UNION {StopBitsBits(x) : x \in ask.stopBits} \subseteq Flags
  BY DEF StopBitsBits, Flags
<1>2. stop \subseteq Flags
  BY <1>1 DEF Replaced
<1>3. \A x \in Parity : ParityBits(x) \subseteq Flags
  BY DEF Parity, ParityBits, Flags
<1>4. UNION {ParityBits(x) : x \in ask.parity} \subseteq Flags
  BY <1>3, AskFields
<1>. HIDE DEF stop
<1>5. par \subseteq Flags
  BY <1>2, <1>4 DEF Replaced
<1>6. flow \subseteq Flags
  BY DEF FlowBits, Flags
<1>7. ModifiedFlags(ask, flags) = Replaced(par, ask.flowControls, FlowMask, flow)
  BY DEF ModifiedFlags, stop
<1>. HIDE DEF par, flow
<1>. QED BY <1>5, <1>6, <1>7 DEF Replaced

LEMMA TermiosFields ==
  ASSUME NEW flags \in SUBSET Flags, NEW size \in DataBits, NEW ispeed \in Speeds,
         NEW ospeed \in Speeds, NEW vstart \in 0..255, NEW vstop \in 0..255
  PROVE  [flags |-> flags, size |-> size, ispeed |-> ispeed, ospeed |-> ospeed,
          vstart |-> vstart, vstop |-> vstop] \in Termios
BY DEF Termios

\* setParams, the chars, the separate speeds and the driver make a termios of a termios.
LEMMA ModifiedTyped ==
  ASSUME NEW ask, IsAsk(ask), NEW tm \in Termios
  PROVE  Modified(ask, tm) \in Termios
<1>1. /\ tm.flags \in SUBSET Flags /\ tm.size \in DataBits
      /\ tm.ispeed \in Speeds /\ tm.ospeed \in Speeds
  BY DEF Termios
<1>2. ask.speed \subseteq Speeds /\ ask.dataBits \subseteq DataBits
  BY AskFields
<1>3. /\ ModifiedFlags(ask, tm.flags) \in SUBSET Flags
      /\ Chosen(ask.speed, tm.ispeed) \in Speeds
      /\ Chosen(ask.speed, tm.ospeed) \in Speeds
      /\ Chosen(ask.dataBits, tm.size) \in DataBits
  BY <1>1, <1>2, FlagsTyped, ChosenIn
<1>4. Modified(ask, tm) = [tm EXCEPT !.ispeed = Chosen(ask.speed, tm.ispeed),
                                     !.ospeed = Chosen(ask.speed, tm.ospeed),
                                     !.size   = Chosen(ask.dataBits, tm.size),
                                     !.flags  = ModifiedFlags(ask, tm.flags)]
  BY DEF Modified, Termios
<1>. QED BY <1>3, <1>4 DEF Termios

LEMMA AcceptedTyped ==
  ASSUME NEW old \in Termios, NEW new \in Termios
  PROVE  Accepted(old, new) \in Termios
<1>. DEFINE flags == (new.flags \ Stuck) \cup (old.flags \cap Stuck)
            size  == IF new.size \in Stuck THEN old.size ELSE new.size
            in    == IF new.ispeed \in Stuck THEN old.ispeed ELSE new.ispeed
            out   == IF new.ospeed \in Stuck THEN old.ospeed ELSE new.ospeed
<1>1. Accepted(old, new) =
        [new EXCEPT !.flags = flags, !.size = size, !.ispeed = in, !.ospeed = out]
  BY DEF Accepted, Termios
<1>2. flags \in SUBSET Flags /\ size \in DataBits /\ in \in Speeds /\ out \in Speeds
  BY DEF Termios
<1>. HIDE DEF flags, size, in, out
<1>. QED BY <1>1, <1>2 DEF Termios

\* So it is with the DCB.
LEMMA ModifiedDCBTyped ==
  ASSUME NEW ask, IsAsk(ask), NEW dcb \in DCB
  PROVE  ModifiedDCB(ask, dcb) \in DCB
<1>. DEFINE one == ModifiedSize(ask, dcb)
            two == [one EXCEPT !.stop = Chosen(ask.stopBits, @), !.parity = Chosen(ask.parity, @)]
<1>1. /\ ask.speed \subseteq Speeds \cup {"unlisted"} /\ ask.dataBits \subseteq DataBits
      /\ ask.stopBits \subseteq StopBits /\ ask.parity \subseteq Parity
  BY AskFields
<1>2. /\ dcb.speed \in Speeds \cup {"unlisted"} /\ dcb.size \in DataBits
      /\ dcb.stop \in StopBits
  BY DEF DCB
<1>3. /\ Chosen(ask.speed, dcb.speed) \in Speeds \cup {"unlisted"}
      /\ Chosen(ask.dataBits, dcb.size) \in DataBits
  BY <1>1, <1>2, ChosenIn
<1>4. \A size : FixedStopBits(size, dcb.stop) \in StopBits
  BY <1>2 DEF FixedStopBits, StopBits
<1>5. one \in DCB
  <2>. DEFINE speed == Chosen(ask.speed, dcb.speed)
              size  == Chosen(ask.dataBits, dcb.size)
              stop  == IF ask.dataBits = {} THEN dcb.stop ELSE FixedStopBits(size, dcb.stop)
  <2>1. one = [dcb EXCEPT !.speed = speed, !.size = size, !.stop = stop]
    BY DEF ModifiedSize, DCB
  <2>2. speed \in Speeds \cup {"unlisted"} /\ size \in DataBits /\ stop \in StopBits
    BY <1>2, <1>3, <1>4
  <2>. HIDE DEF one, speed, size, stop
  <2>3. [dcb EXCEPT !.speed = speed] \in DCB
    BY <2>2 DEF DCB
  <2>. DEFINE first  == [dcb EXCEPT !.speed = speed]
              second == [first EXCEPT !.size = size]
  <2>4. one = [second EXCEPT !.stop = stop]
    BY <2>1
  <2>. HIDE DEF first
  <2>5. second \in DCB
    BY <2>2, <2>3 DEF DCB, first
  <2>. HIDE DEF second
  <2>. QED BY <2>2, <2>4, <2>5 DEF DCB
<1>. HIDE DEF one
<1>6. Chosen(ask.stopBits, one.stop) \in StopBits /\ Chosen(ask.parity, one.parity) \in Parity
  BY <1>1, <1>5, ChosenIn DEF DCB
<1>7. two \in DCB
  BY <1>5, <1>6 DEF DCB
<1>8. ModifiedDCB(ask, dcb) = ModifiedFlow(ask, two)
  BY DEF ModifiedDCB, one
<1>. HIDE DEF two
<1>9. ASSUME NEW d \in DCB, NEW rts \in RtsControl,
             NEW cts \in BOOLEAN, NEW inX \in BOOLEAN, NEW outX \in BOOLEAN
      PROVE  [d EXCEPT !.rts = rts, !.cts = cts, !.inX = inX, !.outX = outX] \in DCB
  BY DEF DCB
<1>10. \A f : /\ (IF "RTS_CTS_IN" \in f THEN "HANDSHAKE" ELSE "DISABLE") \in RtsControl
              /\ ("RTS_CTS_OUT" \in f) \in BOOLEAN
              /\ ("XON_XOFF_IN" \in f) \in BOOLEAN
              /\ ("XON_XOFF_OUT" \in f) \in BOOLEAN
  BY DEF RtsControl
<1>11. ASSUME NEW f PROVE
        [two EXCEPT !.rts  = IF "RTS_CTS_IN" \in f THEN "HANDSHAKE" ELSE "DISABLE",
                    !.cts  = "RTS_CTS_OUT" \in f,
                    !.inX  = "XON_XOFF_IN" \in f,
                    !.outX = "XON_XOFF_OUT" \in f] \in DCB
  BY <1>7, <1>9, <1>10
<1>. QED BY <1>7, <1>8, <1>11 DEF ModifiedFlow

LEMMA AcceptedDCBTyped ==
  ASSUME NEW old \in DCB, NEW new \in DCB
  PROVE  AcceptedDCB(old, new) \in DCB
<1>. DEFINE speed  == IF new.speed \in Stuck THEN old.speed ELSE new.speed
            size   == IF new.size \in Stuck THEN old.size ELSE new.size
            stop   == IF new.stop \in Stuck THEN old.stop ELSE new.stop
            parity == IF new.parity \in Stuck THEN old.parity ELSE new.parity
            rts    == IF new.rts \in Stuck THEN old.rts ELSE new.rts
            cts    == IF "cts" \in Stuck THEN old.cts ELSE new.cts
            in     == IF "inX" \in Stuck THEN old.inX ELSE new.inX
            out    == IF "outX" \in Stuck THEN old.outX ELSE new.outX
            line   == [new EXCEPT !.speed = speed, !.size = size, !.stop = stop, !.parity = parity]
<1>1. AcceptedDCB(old, new) = [line EXCEPT !.rts = rts, !.cts = cts, !.inX = in, !.outX = out]
  BY DEF AcceptedDCB, DCB
<1>2. /\ speed \in Speeds \cup {"unlisted"} /\ size \in DataBits /\ stop \in StopBits
      /\ parity \in Parity /\ rts \in RtsControl
  BY DEF DCB
<1>3. cts \in BOOLEAN /\ in \in BOOLEAN /\ out \in BOOLEAN
  BY DEF DCB
<1>. HIDE DEF speed, size, stop, parity, rts, cts, in, out
<1>4. line \in DCB
  BY <1>2 DEF DCB
<1>. HIDE DEF line
<1>. DEFINE both == [line EXCEPT !.rts = rts, !.cts = cts]
<1>5. both \in DCB
  BY <1>2, <1>3, <1>4 DEF DCB
<1>6. AcceptedDCB(old, new) = [both EXCEPT !.inX = in, !.outX = out]
  BY <1>1, <1>4 DEF DCB
<1>. HIDE DEF both
<1>. QED BY <1>3, <1>5, <1>6 DEF DCB

LEMMA ChangedTyped ==
  ASSUME NEW ask, IsAsk(ask), NEW d \in Devices
  PROVE  Changed(ask, d) \in Devices
BY ModifiedTyped, ModifiedDCBTyped DEF Devices, Changed

LEMMA KeptTyped ==
  ASSUME NEW old \in Devices, NEW new \in Devices
  PROVE  Kept(old, new) \in Devices
BY AcceptedTyped, AcceptedDCBTyped DEF Devices, Kept

LEMMA ByteTyped == ASSUME NEW c \in Nat PROVE ToByte(c) \in 0..255
BY DEF ToByte

\* What open0 and the system calls find is of the platform.
LEMMA RawTyped ==
  ASSUME NEW tm \in Termios
  PROVE  Raw(tm) \in Termios
<1>1. tm.flags \ {"COOKED", "IXON", "PARENB"} \in SUBSET Flags /\ "DB_8" \in DataBits
  BY DEF Termios, DataBits
<1>2. Raw(tm) = [tm EXCEPT !.flags = tm.flags \ {"COOKED", "IXON", "PARENB"}, !.size = "DB_8"]
  BY DEF Raw, Termios
<1>. QED BY <1>1, <1>2 DEF Termios

LEMMA PreviousTyped == ASSUME platform \in Platforms PROVE Previous[platform] \subseteq Devices
BY NativeAssumption DEF Devices

LEMMA FoundTyped ==
  ASSUME PortType, NEW t \in Threads
  PROVE  Found(t) \subseteq Devices /\ (file = "port" => Found(t) \subseteq {device})
BY PreviousTyped DEF Found, Named, PortType

LEMMA OpenTimeoutsTyped == OpenTimeouts \in COMMTIMEOUTS
<1>1. MaxInt \in Nat /\ MAXDWORD = 2 * MaxInt + 1 /\ MaxInt >= 100
  BY WidthAssumption DEF MAXDWORD
<1>2. 100 \in 0..MAXDWORD /\ 0 \in 0..MAXDWORD
  BY <1>1
<1>. HIDE DEF MAXDWORD
<1>. QED BY <1>2 DEF OpenTimeouts, COMMTIMEOUTS

\* A thread writes its own frame, and nobody's history begins but its own.
HistoryShape == DOMAIN before = Threads

Others(t) ==
  /\ platform' = platform
  /\ \A u \in Threads \ {t} :
       /\ pc'[u] = pc[u] /\ request'[u] = request[u] /\ draft'[u] = draft[u]
       /\ before'[u] = before[u] \/ before'[u] = {}
  /\ HistoryShape' /\ DraftShape'

LEMMA FinishOthers ==
  ASSUME ShapeInv, DraftShape, HistoryShape, NEW t \in Threads, NEW r, Finish(t, r),
         UNCHANGED platform
  PROVE  Others(t)
BY DEF ShapeInv, DraftShape, HistoryShape, Others, Finish, Goto

LEMMA GotoOthers ==
  ASSUME ShapeInv, DraftShape, HistoryShape, NEW t \in Threads, NEW label, Goto(t, label),
         UNCHANGED <<platform, before>>,
         UNCHANGED request \/ \E r : request' = [request EXCEPT ![t] = r],
         UNCHANGED draft \/ \E d : draft' = [draft EXCEPT ![t] = d]
  PROVE  Others(t)
<1>1. \A u \in Threads \ {t} : pc'[u] = pc[u]
  BY DEF ShapeInv, Goto
<1>2. \A u \in Threads \ {t} : request'[u] = request[u]
  BY DEF ShapeInv
<1>3. DraftShape' /\ \A u \in Threads \ {t} : draft'[u] = draft[u]
  BY DEF DraftShape
<1>. QED BY <1>1, <1>2, <1>3 DEF HistoryShape, Others

LEMMA OthersKept ==
  ASSUME ShapeInv, DraftShape, HistoryShape, NEW t \in Threads, Steps(t)
  PROVE  Others(t)
<1>1. ASSUME NEW r, Finish(t, r), UNCHANGED platform PROVE Others(t)
  BY <1>1, FinishOthers
<1>2. ASSUME NEW r, Fail(t, r) PROVE Others(t)
  BY <1>1, <1>2 DEF Fail
<1>3. ASSUME NEW d, NEW label, Draft(t, d, label) PROVE Others(t)
  BY <1>3, GotoOthers DEF Draft
<1>4. ASSUME NEW d, Apply(t, d) PROVE Others(t)
  BY <1>2, <1>3, <1>4 DEF Apply
<1>5. CASE Opening(t)
  <2>1. CASE Open(t)
    BY <2>1, GotoOthers DEF Open
  <2>2. CASE Attributes(t)
    BY <1>2, <1>3, <1>4, <2>2 DEF Attributes
  <2>3. CASE FlushDevice(t)
    BY <1>1, <1>2, <1>3, <2>3 DEF FlushDevice
  <2>4. CASE CreateEvents(t)
    BY <1>1, <2>4 DEF CreateEvents
  <2>. QED BY <1>5, <2>1, <2>2, <2>3, <2>4 DEF Opening
<1>6. CASE Closing(t)
  BY <1>6, GotoOthers DEF Closing, Mark, Release, CancelFails
<1>7. CASE Call(t)
  <2>1. \A u \in Threads \ {t} :
          pc'[u] = pc[u] /\ request'[u] = request[u] /\ draft'[u] = draft[u]
    BY <1>7 DEF Call, Goto, ShapeInv
  <2>2. HistoryShape' /\ DraftShape' /\ \A u \in Threads \ {t} : before'[u] = {}
    BY <1>7 DEF Call, HistoryShape, DraftShape
  <2>. QED BY <1>7, <2>1, <2>2 DEF Others, Call
<1>8. CASE Load(t) \/ Return(t)
  BY <1>8, GotoOthers DEF Load, Return
<1>9. CASE ReadFails(t) \/ WriteFails(t) \/ VerifyFails(t)
  <2>1. \E r : Fail(t, r)
    BY <1>9, Zenon DEF ReadFails, WriteFails, VerifyFails
  <2>. QED BY <1>2, <2>1
<1>10. CASE ReadParams(t)
  BY <1>4, <1>10 DEF ReadParams
<1>11. CASE ReadSpeed(t) \/ ReadTimeouts(t)
  <2>1. (\E r : Fail(t, r)) \/ \E d, label : Draft(t, d, label)
    BY <1>11, Zenon DEF ReadSpeed, ReadTimeouts
  <2>. QED BY <1>2, <1>3, <2>1
<1>12. CASE ReadChars(t) \/ ReadLines(t)
  <2>1. \E d, label : Draft(t, d, label)
    BY <1>12, Zenon DEF ReadChars, ReadLines
  <2>. QED BY <1>3, <2>1
<1>13. CASE ReadOnly(t)
  BY <1>1, <1>13 DEF ReadOnly
<1>14. CASE Write(t)
  BY <1>1, <1>14, GotoOthers DEF Write
<1>15. CASE Verify(t)
  <2>1. \/ \E r : Fail(t, r)
        \/ \E d, label : Draft(t, d, label)
        \/ UNCHANGED platform /\ \E r : Finish(t, r)
    BY <1>15, Zenon DEF Verify, Accept
  <2>. QED BY <1>1, <1>2, <1>3, <2>1
<1>. QED BY <1>5, <1>6, <1>7, <1>8, <1>9, <1>10, <1>11, <1>12, <1>13, <1>14, <1>15
     DEF Steps, Setting, Reading

\* The thread that ends a call is the one that makes the step.
LEMMA EndsItself ==
  ASSUME ShapeInv, DraftShape, HistoryShape, Next, NEW t \in Threads, Ends(t)
  PROVE  Steps(t)
<1>1. ~ ReuseNumber
  BY DEF ReuseNumber, frame, Ends
<1>2. PICK u \in Threads : Steps(u)
  BY <1>1 DEF Next, Steps
<1>3. Others(u)
  BY <1>2, OthersKept
<1>. QED BY <1>2, <1>3 DEF Others, Ends

\* Only a system call that writes, and the timeouts of the opening port, change the driver.
LEMMA DriverKept ==
  ASSUME NEW t \in Threads, Steps(t), ~ Write(t)
  PROVE  UNCHANGED driver \/ (FlushDevice(t) /\ timeouts' = OpenTimeouts /\ UNCHANGED <<device, lines>>)
<1>1. ASSUME NEW r, Fail(t, r) PROVE UNCHANGED driver
  BY <1>1 DEF Fail
<1>2. ASSUME NEW d, NEW label, Draft(t, d, label) PROVE UNCHANGED driver
  BY <1>2 DEF Draft
<1>3. ASSUME NEW d, Apply(t, d) PROVE UNCHANGED driver
  BY <1>1, <1>2, <1>3 DEF Apply
<1>4. CASE Open(t) \/ CreateEvents(t) \/ Closing(t) \/ Call(t) \/ Load(t) \/ Return(t) \/ ReadOnly(t)
  BY <1>4 DEF Open, CreateEvents, Closing, Mark, Release, CancelFails, Call, Load, Return, ReadOnly
<1>5. CASE Attributes(t) \/ ReadParams(t)
  BY <1>1, <1>2, <1>3, <1>5 DEF Attributes, ReadParams
<1>6. CASE FlushDevice(t)
  BY <1>1, <1>2, <1>6 DEF FlushDevice
<1>7. CASE ReadFails(t) \/ WriteFails(t) \/ VerifyFails(t)
  <2>1. \E r : Fail(t, r)
    BY <1>7, Zenon DEF ReadFails, WriteFails, VerifyFails
  <2>. QED BY <1>1, <2>1
<1>8. CASE ReadSpeed(t) \/ ReadTimeouts(t) \/ ReadChars(t) \/ ReadLines(t)
  <2>1. (\E r : Fail(t, r)) \/ \E d, label : Draft(t, d, label)
    BY <1>8, Zenon DEF ReadSpeed, ReadTimeouts, ReadChars, ReadLines
  <2>. QED BY <1>1, <1>2, <2>1
<1>9. CASE Verify(t)
  <2>1. (\E r : Fail(t, r)) \/ (\E d, label : Draft(t, d, label)) \/ UNCHANGED driver
    BY <1>9, Zenon DEF Verify, Accept
  <2>. QED BY <1>1, <1>2, <2>1
<1>. QED BY <1>4, <1>5, <1>6, <1>7, <1>8, <1>9 DEF Steps, Opening, Setting, Reading

\* The socket keeps its types.
SocketType ==
  /\ fd \in {"number", "INVALID_FD"}
  /\ file \in {"none", "port", "free", "other"}
  /\ stage \in {"new", "opening", "open", "failed", "closing", "notClosed"}
  /\ number \in [Threads -> {"number", "INVALID_FD"}]

LEMMA SocketTyped ==
  ASSUME SocketType, NEW t \in Threads, Steps(t)
  PROVE  SocketType'
<1>1. ASSUME NEW r, Finish(t, r), UNCHANGED socket PROVE SocketType'
  BY <1>1 DEF Finish, SocketType, socket
<1>2. ASSUME NEW r, Fail(t, r) PROVE SocketType'
  BY <1>2 DEF Fail, Finish, SocketType, socket
<1>3. ASSUME NEW d, NEW label, Draft(t, d, label) PROVE SocketType'
  BY <1>3 DEF Draft, SocketType, socket
<1>4. ASSUME NEW d, Apply(t, d) PROVE SocketType'
  BY <1>2, <1>3, <1>4 DEF Apply
<1>5. CASE Open(t) \/ Closing(t)
  BY <1>5 DEF Open, Closing, Mark, Release, CancelFails, SocketType
<1>6. CASE Call(t) \/ Load(t) \/ Return(t)
  BY <1>6 DEF Call, Load, Return, SocketType, socket
<1>7. CASE Attributes(t) \/ ReadParams(t)
  BY <1>2, <1>3, <1>4, <1>7 DEF Attributes, ReadParams
<1>8. CASE FlushDevice(t)
  <2>1. CASE stage' = "open" /\ Finish(t, "ok") /\ UNCHANGED <<fd, file>>
    BY <2>1 DEF Finish, SocketType
  <2>. QED BY <1>2, <1>3, <1>8, <2>1 DEF FlushDevice
<1>9. CASE CreateEvents(t)
  BY <1>9 DEF CreateEvents, Finish, SocketType
<1>10. CASE ReadFails(t) \/ WriteFails(t) \/ VerifyFails(t)
  <2>1. \E r : Fail(t, r)
    BY <1>10, Zenon DEF ReadFails, WriteFails, VerifyFails
  <2>. QED BY <1>2, <2>1
<1>11. CASE ReadSpeed(t) \/ ReadTimeouts(t) \/ ReadChars(t) \/ ReadLines(t)
  <2>1. (\E r : Fail(t, r)) \/ \E d, label : Draft(t, d, label)
    BY <1>11, Zenon DEF ReadSpeed, ReadTimeouts, ReadChars, ReadLines
  <2>. QED BY <1>2, <1>3, <2>1
<1>12. CASE ReadOnly(t)
  BY <1>1, <1>12 DEF ReadOnly
<1>13. CASE Write(t)
  <2>1. CASE Finish(t, "ok")
    BY <1>1, <1>13, <2>1 DEF Write
  <2>. QED BY <1>13, <2>1 DEF Write, SocketType, socket
<1>14. CASE Verify(t)
  <2>1. \/ \E r : Fail(t, r)
        \/ \E d, label : Draft(t, d, label)
        \/ UNCHANGED socket /\ \E r : Finish(t, r)
    BY <1>14, Zenon DEF Verify, Accept
  <2>. QED BY <1>1, <1>2, <1>3, <2>1
<1>. QED BY <1>5, <1>6, <1>7, <1>8, <1>9, <1>10, <1>11, <1>12, <1>13, <1>14
     DEF Steps, Opening, Setting, Reading

\* What a write leaves in the driver.
LEMMA LinesAfterTyped ==
  ASSUME NEW ln \in SUBSET Lines, NEW old, NEW new, NEW after \in LinesAfter(old, new, ln)
  PROVE  after \subseteq Lines
<1>1. PICK rts \in RtsAfter(old, new, "RTS" \in ln) :
        after = (ln \ {"RTS"}) \cup (IF rts THEN {"RTS"} ELSE {})
  BY DEF LinesAfter
<1>. QED BY <1>1 DEF Lines

LEMMA WrittenTyped ==
  ASSUME TypeInv, NEW t \in Threads, Write(t)
  PROVE  device' \in Devices /\ lines' \subseteq Lines /\ timeouts' \in COMMTIMEOUTS
<1>. DEFINE Typed == device' \in Devices /\ lines' \subseteq Lines /\ timeouts' \in COMMTIMEOUTS
<1>0. device \in Devices /\ lines \subseteq Lines /\ timeouts \in COMMTIMEOUTS /\ platform' = platform
  BY DEF TypeInv, PortType, Write
<1>1. CASE UNCHANGED driver
  BY <1>0, <1>1 DEF driver, Devices
<1>2. CASE Written(t)
  <2>1. pc[t] = "write" /\ Frame(t)
    BY DEF Write, At, TypeInv
  <2>2. CASE Op(t) \in LineOps
    <3>0. Op(t) # "setTimeouts"
      BY <2>2 DEF LineOps
    <3>1. DraftsOf(Op(t)) = SUBSET Lines
      BY <2>2, <3>0 DEF DraftsOf
    <3>2. platform = "termios" => draft[t] \in SUBSET Lines
      BY <2>1, <3>1 DEF Frame
    <3>3. PICK off \in SUBSET Lines, on \in SUBSET Lines :
            lines' = IF platform = "termios" THEN draft[t] ELSE (lines \ off) \cup on
      <4>. DEFINE off == {l \in Lines : FALSE \in Ask(t)[l]}
                  on  == {l \in Lines : TRUE \in Ask(t)[l]}
      <4>1. off \in SUBSET Lines /\ on \in SUBSET Lines
        OBVIOUS
      <4>2. lines' = IF platform = "termios" THEN draft[t] ELSE (lines \ off) \cup on
        BY <1>2, <2>2, <3>0 DEF Written
      <4>. QED BY <4>1, <4>2
    <3>4. UNCHANGED <<device, timeouts>>
      BY <1>2, <2>2, <3>0 DEF Written
    <3>. QED BY <1>0, <3>2, <3>3, <3>4 DEF Devices
  <2>3. CASE Op(t) = "setTimeouts"
    <3>1. draft[t] \in COMMTIMEOUTS
      BY <2>1, <2>3 DEF Frame, DraftsOf, LineOps
    <3>2. timeouts' = draft[t] /\ UNCHANGED <<device, lines>>
      BY <1>2, <2>3 DEF Written, LineOps
    <3>. QED BY <1>0, <3>1, <3>2 DEF Devices
  <2>4. CASE Op(t) \notin LineOps \cup {"setTimeouts"}
    <3>1. draft[t] \in Devices
      BY <2>1, <2>4 DEF Frame, DraftsOf
    <3>2. /\ device' = Kept(device, draft[t]) /\ timeouts' = timeouts
          /\ lines' \in LinesAfter(device, Kept(device, draft[t]), lines)
      BY <1>2, <2>4 DEF Written
    <3>3. lines' \subseteq Lines
      BY <1>0, <3>2, LinesAfterTyped
    <3>. QED BY <1>0, <3>1, <3>2, <3>3, KeptTyped DEF Devices
  <2>. QED BY <2>2, <2>3, <2>4
<1>. QED BY <1>1, <1>2 DEF Write

LEMMA PortTyped ==
  ASSUME TypeInv, NEW t \in Threads, Steps(t), platform' = platform
  PROVE  PortType'
<1>1. SocketType'
  BY SocketTyped DEF TypeInv, PortType, SocketType
<1>2. device' \in Devices /\ lines' \subseteq Lines /\ timeouts' \in COMMTIMEOUTS
  <2>1. CASE Write(t)
    BY <2>1, WrittenTyped
  <2>2. CASE ~ Write(t)
    BY <2>2, DriverKept, OpenTimeoutsTyped DEF TypeInv, PortType, driver
  <2>. QED BY <2>1, <2>2
<1>. QED BY <1>1, <1>2 DEF TypeInv, PortType, SocketType, Devices

\* A step to a label at which nothing is prepared.
LEMMA GotoFrame ==
  ASSUME ShapeInv, NEW t \in Threads, NEW label, Goto(t, label), label \notin {"loadWrite", "write"},
         Op(t)' \in OpsOf(platform) \cup {"open", "none"}, platform' = platform
  PROVE  Frame(t)'
<1>1. pc'[t] = label
  BY DEF ShapeInv, Goto
<1>2. OpsOf(platform)' = OpsOf(platform)
  BY DEF OpsOf
<1>. QED BY <1>1, <1>2 DEF Frame

LEMMA FinishFrame ==
  ASSUME ShapeInv, NEW t \in Threads, NEW r, Finish(t, r), platform' = platform
  PROVE  Frame(t)'
<1>1. Op(t)' = "none"
  BY DEF Finish, ShapeInv, Op, NoRequest
<1>. QED BY <1>1, GotoFrame DEF Finish

LEMMA DraftFrame ==
  ASSUME ShapeInv, DraftShape, NEW t \in Threads, Frame(t), NEW d, NEW label, Draft(t, d, label),
         label = "loadWrite" => Op(t) \in ParamOps,
         label = "write" => Op(t) \notin Getters \cup {"getTimeouts"},
         label \in {"loadWrite", "write"} => d \in DraftsOf(Op(t))
  PROVE  Frame(t)'
<1>1. pc'[t] = label /\ draft'[t] = d /\ Op(t)' = Op(t) /\ platform' = platform
  BY DEF ShapeInv, DraftShape, Draft, Goto, Op
<1>2. OpsOf(platform)' = OpsOf(platform) /\ DraftsOf(Op(t))' = DraftsOf(Op(t))
  BY <1>1 DEF OpsOf, DraftsOf, Devices
<1>. QED BY <1>1, <1>2 DEF Frame

\* What each reading prepares.
LEMMA ApplyFrame ==
  ASSUME ShapeInv, DraftShape, NEW t \in Threads, Frame(t), NEW d \in Devices, Apply(t, d),
         Op(t) \in ParamOps
  PROVE  Frame(t)'
<1>1. CASE Fail(t, "rejected")
  BY <1>1, FinishFrame DEF Fail
<1>2. CASE Draft(t, Changed(Ask(t), d), "loadWrite")
  <2>1. Changed(Ask(t), d) \in Devices
    BY AskFacts, ChangedTyped
  <2>2. DraftsOf(Op(t)) = Devices
    BY DEF ParamOps, LineOps, DraftsOf
  <2>. QED BY <1>2, <2>1, <2>2, DraftFrame
<1>. QED BY <1>1, <1>2 DEF Apply

LEMMA SpeedTyped ==
  ASSUME NEW d \in Termios, NEW i \in Speeds, NEW o \in Speeds
  PROVE  [d EXCEPT !.ispeed = i, !.ospeed = o] \in Termios
BY DEF Termios

LEMMA CharsTyped ==
  ASSUME NEW d \in Devices, NEW start \in 0..255, NEW stop \in 0..255
  PROVE  [d EXCEPT !.vstart = start, !.vstop = stop] \in Devices
<1>1. CASE platform = "termios"
  BY <1>1 DEF Devices, Termios
<1>2. CASE platform # "termios"
  BY <1>2 DEF Devices, DCB
<1>. QED BY <1>1, <1>2

LEMMA JcharNat == Jchar \subseteq Nat
BY SMTT(60) DEF Jchar

LEMMA CommTimeoutsTyped ==
  ASSUME NEW ask \in [1..3 -> Jint], ~RejectsTimeouts(ask)
  PROVE  CommTimeouts(ask) \in COMMTIMEOUTS
<1>1. MaxInt \in Nat /\ MAXDWORD = 2 * MaxInt + 1
  BY WidthAssumption DEF MAXDWORD
<1>2. ask[1] \in Jint /\ ask[2] \in Jint /\ ask[3] \in Jint
  OBVIOUS
<1>3. ask[1] >= 0 /\ ask[2] >= 0 /\ ask[3] >= 0
  BY <1>1, <1>2 DEF RejectsTimeouts, Jint
<1>4. ask[1] \in 0..MaxInt /\ ask[2] \in 0..MaxInt /\ ask[3] \in 0..MaxInt
  BY <1>1, <1>2, <1>3 DEF Jint
<1>5. /\ {ask[1], ask[2], ask[3], 0, MAXDWORD} \subseteq 0..MAXDWORD
  BY <1>1, <1>4
<1>. HIDE DEF MAXDWORD
<1>. QED BY <1>5 DEF CommTimeouts, COMMTIMEOUTS

\* A thread keeps the types of its own frame.
LEMMA FrameOfItself ==
  ASSUME PhaseInv, TypeInv, HistoryShape, NEW t \in Threads, Steps(t)
  PROVE  Frame(t)'
<1>0. ShapeInv /\ DraftShape /\ Frame(t) /\ PortType
  BY DEF PhaseInv, TypeInv
<1>1. platform' = platform
  BY <1>0, OthersKept DEF Others
<1>2. ASSUME NEW r, Finish(t, r) PROVE Frame(t)'
  BY <1>0, <1>1, <1>2, FinishFrame
<1>3. ASSUME NEW r, Fail(t, r) PROVE Frame(t)'
  BY <1>2, <1>3 DEF Fail
<1>4. ASSUME NEW d, NEW label \in {"flush", "events"}, Draft(t, d, label) PROVE Frame(t)'
  BY <1>0, <1>4, DraftFrame
<1>5. ASSUME NEW label, Goto(t, label), label \notin {"loadWrite", "write"}, UNCHANGED request
      PROVE  Frame(t)'
  <2>1. Op(t)' \in OpsOf(platform) \cup {"open", "none"}
    BY <1>0, <1>5 DEF Op, Frame
  <2>. QED BY <1>0, <1>1, <1>5, <2>1, GotoFrame
<1>6. CASE Open(t)
  <2>1. CASE \E r \in OpenRequests : Goto(t, "attributes") /\ request' = [request EXCEPT ![t] = r]
    <3>1. Op(t)' = "open"
      BY <1>0, <2>1 DEF ShapeInv, Op, OpenRequests
    <3>. QED BY <1>0, <1>1, <2>1, <3>1, GotoFrame
  <2>. QED BY <1>5, <1>6, <2>1 DEF Open
<1>7. CASE Attributes(t)
  <2>1. Op(t) \in ParamOps
    BY <1>7 DEF Attributes, At, PhaseInv, Phase, ParamOps
  <2>2. platform = "termios" => Raw(device) \in Devices
    BY <1>0, RawTyped DEF PortType, Devices
  <2>3. device \in Devices
    BY <1>0 DEF PortType
  <2>. QED BY <1>0, <1>3, <1>4, <1>7, <2>1, <2>2, <2>3, ApplyFrame DEF Attributes
<1>8. CASE FlushDevice(t)
  BY <1>2, <1>3, <1>4, <1>8 DEF FlushDevice
<1>9. CASE CreateEvents(t)
  BY <1>2, <1>9 DEF CreateEvents
<1>10. CASE Closing(t) \/ Return(t)
  BY <1>5, <1>10 DEF Closing, Mark, Release, CancelFails, Return
<1>11. CASE Call(t)
  <2>1. PICK r \in Requests :
          /\ r.op \in OpsOf(platform)
          /\ request' = [request EXCEPT ![t] = r]
          /\ Goto(t, IF platform = "windows" /\ r.op \in LineOps THEN "write" ELSE "read")
    BY <1>11 DEF Call
  <2>2. Op(t)' = r.op /\ Op(t)' \in OpsOf(platform)
    BY <1>0, <2>1 DEF ShapeInv, Op
  <2>3. CASE ~(platform = "windows" /\ r.op \in LineOps)
    BY <1>0, <1>1, <2>1, <2>2, <2>3, GotoFrame
  <2>4. CASE platform = "windows" /\ r.op \in LineOps
    <3>1. pc'[t] = "write"
      BY <1>0, <2>1, <2>4 DEF ShapeInv, Goto
    <3>2. OpsOf(platform)' = OpsOf(platform)
      BY <1>1 DEF OpsOf
    <3>3. r.op \notin Getters \cup {"getTimeouts"}
      BY <2>4 DEF LineOps, Getters
    <3>. QED BY <1>1, <2>2, <2>4, <3>1, <3>2, <3>3 DEF Frame
  <2>. QED BY <2>3, <2>4
<1>12. CASE Load(t)
  <2>1. CASE At(t, "loadWrite") /\ Goto(t, "write")
    <3>1. pc[t] = "loadWrite" /\ pc'[t] = "write" /\ Op(t)' = Op(t) /\ draft' = draft
      BY <1>0, <1>12, <2>1 DEF Load, At, Goto, ShapeInv, Op
    <3>2. Op(t) \in ParamOps /\ OpsOf(platform)' = OpsOf(platform) /\ DraftsOf(Op(t))' = DraftsOf(Op(t))
      BY <1>0, <1>1, <3>1 DEF Frame, OpsOf, DraftsOf, Devices
    <3>3. Op(t) \notin LineOps \cup Getters \cup {"getTimeouts"}
      BY <3>2 DEF ParamOps, LineOps, Getters
    <3>. QED BY <1>0, <1>1, <3>1, <3>2, <3>3 DEF Frame
  <2>. QED BY <1>5, <1>12, <2>1 DEF Load
<1>13. CASE ReadFails(t) \/ WriteFails(t) \/ VerifyFails(t)
  <2>1. \E r : Fail(t, r)
    BY <1>13, Zenon DEF ReadFails, WriteFails, VerifyFails
  <2>. QED BY <1>3, <2>1
<1>14. Found(t) \subseteq Devices
  BY <1>0, FoundTyped
<1>15. CASE ReadParams(t)
  BY <1>0, <1>14, <1>15, ApplyFrame DEF ReadParams, ParamOps
<1>16. CASE ReadSpeed(t)
  <2>1. PICK d \in Found(t) :
          \/ Fail(t, "rejected")
          \/ Draft(t, [d EXCEPT !.ispeed = Chosen(Ask(t).inSpeed, @),
                                !.ospeed = Chosen(Ask(t).outSpeed, @)], "write")
    BY <1>16 DEF ReadSpeed
  <2>2. Op(t) \in SpeedOps /\ platform = "termios"
    BY <1>0, <1>16 DEF ReadSpeed, Frame, OpsOf, TermiosOnly, SpeedOps
  <2>3. d \in Termios
    BY <1>14, <2>2 DEF Devices
  <2>. DEFINE i == Chosen(Ask(t).inSpeed, d.ispeed)
              o == Chosen(Ask(t).outSpeed, d.ospeed)
  <2>4. i \in Speeds /\ o \in Speeds
    <3>1. Ask(t).inSpeed \subseteq Speeds /\ Ask(t).outSpeed \subseteq Speeds
      BY <1>0, AskFacts, AskFields
    <3>2. d.ispeed \in Speeds /\ d.ospeed \in Speeds
      BY <2>3 DEF Termios
    <3>. QED BY <3>1, <3>2, ChosenIn
  <2>5. [d EXCEPT !.ispeed = i, !.ospeed = o] \in Devices
    BY <2>2, <2>3, <2>4, SpeedTyped DEF Devices
  <2>6. DraftsOf(Op(t)) = Devices /\ Op(t) \notin Getters \cup {"getTimeouts"}
    BY <2>2 DEF DraftsOf, SpeedOps, LineOps, Getters
  <2>7. ASSUME Draft(t, [d EXCEPT !.ispeed = i, !.ospeed = o], "write") PROVE Frame(t)'
    BY <1>0, <2>5, <2>6, <2>7, DraftFrame
  <2>. QED BY <1>3, <2>1, <2>7
<1>17. CASE ReadChars(t)
  <2>1. PICK d \in Found(t) :
          Draft(t, [d EXCEPT !.vstart = ToByte(Chosen(Ask(t).xon, @)),
                             !.vstop  = ToByte(Chosen(Ask(t).xoff, @))], "write")
    BY <1>17 DEF ReadChars
  <2>2. d \in Devices
    BY <1>14
  <2>. DEFINE start == ToByte(Chosen(Ask(t).xon, d.vstart))
              stop  == ToByte(Chosen(Ask(t).xoff, d.vstop))
  <2>3. start \in 0..255 /\ stop \in 0..255
    <3>1. Ask(t).xon \subseteq Nat /\ Ask(t).xoff \subseteq Nat
      BY <1>0, AskFacts, AskFields, JcharNat
    <3>2. d.vstart \in Nat /\ d.vstop \in Nat
      BY <2>2 DEF Devices, Termios, DCB
    <3>. QED BY <3>1, <3>2, ChosenIn, ByteTyped
  <2>4. [d EXCEPT !.vstart = start, !.vstop = stop] \in Devices
    BY <2>2, <2>3, CharsTyped
  <2>5. DraftsOf(Op(t)) = Devices /\ Op(t) \notin Getters \cup {"getTimeouts"}
    BY <1>17 DEF ReadChars, DraftsOf, CharOps, LineOps, Getters
  <2>. QED BY <1>0, <2>1, <2>4, <2>5, DraftFrame
<1>18. CASE ReadLines(t)
  <2>1. PICK old \in SUBSET Lines, line \in Lines :
          Draft(t, IF TRUE \in Ask(t)[line] THEN old \cup {line} ELSE old \ {line}, "write")
    BY <1>0, <1>18 DEF ReadLines, PortType, Lines
  <2>2. DraftsOf(Op(t)) = SUBSET Lines /\ Op(t) \notin Getters \cup {"getTimeouts"}
    BY <1>18 DEF ReadLines, DraftsOf, LineOps, Getters
  <2>3. (IF TRUE \in Ask(t)[line] THEN old \cup {line} ELSE old \ {line}) \in SUBSET Lines
    OBVIOUS
  <2>. QED BY <1>0, <2>1, <2>2, <2>3, DraftFrame
<1>19. CASE ReadTimeouts(t)
  <2>. DEFINE ask == Chosen(Ask(t).timeouts, <<0, 0, 0>>)
  <2>1. Op(t) = "setTimeouts"
    BY <1>19 DEF ReadTimeouts
  <2>2. ask \in [1..3 -> Jint]
    <3>1. Ask(t).timeouts \subseteq [1..3 -> Jint]
      BY <1>0, AskFacts, AskFields
    <3>2. <<0, 0, 0>> \in [1..3 -> Jint]
      BY WidthAssumption DEF Jint
    <3>. QED BY <3>1, <3>2, ChosenIn
  <2>3. Fail(t, "rejected") \/ (~RejectsTimeouts(ask) /\ Draft(t, CommTimeouts(ask), "write"))
    BY <1>19 DEF ReadTimeouts
  <2>. HIDE DEF ask
  <2>4. DraftsOf(Op(t)) = COMMTIMEOUTS /\ Op(t) \notin Getters \cup {"getTimeouts"}
    BY <2>1 DEF DraftsOf, LineOps, Getters
  <2>5. CASE ~RejectsTimeouts(ask) /\ Draft(t, CommTimeouts(ask), "write")
    BY <1>0, <2>2, <2>4, <2>5, CommTimeoutsTyped, DraftFrame
  <2>. QED BY <1>3, <2>3, <2>5
<1>20. CASE ReadOnly(t)
  BY <1>2, <1>20 DEF ReadOnly
<1>21. CASE Write(t)
  <2>1. AfterWrite(t) \notin {"loadWrite", "write"}
    BY DEF AfterWrite
  <2>. QED BY <1>2, <1>5, <1>21, <2>1 DEF Write
<1>22. CASE Verify(t)
  BY <1>2, <1>3, <1>4, <1>22 DEF Verify, Accept
<1>. QED BY <1>6, <1>7, <1>8, <1>9, <1>10, <1>11, <1>12, <1>13, <1>15, <1>16, <1>17, <1>18,
            <1>19, <1>20, <1>21, <1>22 DEF Steps, Opening, Setting, Reading

LEMMA FrameOfOthers ==
  ASSUME NEW t \in Threads, Others(t), NEW u \in Threads \ {t}, Frame(u)
  PROVE  Frame(u)'
<1>1. pc'[u] = pc[u] /\ Op(u)' = Op(u) /\ draft'[u] = draft[u] /\ platform' = platform
  BY DEF Others, Op
<1>2. OpsOf(platform)' = OpsOf(platform) /\ DraftsOf(Op(u))' = DraftsOf(Op(u))
  BY <1>1 DEF OpsOf, DraftsOf, Devices
<1>. QED BY <1>1, <1>2 DEF Frame

LEMMA NextTyped ==
  ASSUME PhaseInv, TypeInv, HistoryShape, [Next]_vars
  PROVE  TypeInv' /\ HistoryShape'
<1>1. CASE UNCHANGED <<platform, fd, stage, driver, frame, before>> /\ file' \in {file, "other"}
  <2>1. PortType'
    BY <1>1 DEF TypeInv, PortType, driver, frame, Devices
  <2>2. ASSUME NEW t \in Threads PROVE Frame(t)'
    <3>1. Frame(t) /\ OpsOf(platform)' = OpsOf(platform) /\ DraftsOf(Op(t))' = DraftsOf(Op(t))
      BY <1>1 DEF TypeInv, OpsOf, DraftsOf, Devices, Op, frame
    <3>. QED BY <1>1, <3>1 DEF Frame, frame, Op
  <2>. QED BY <1>1, <2>1, <2>2 DEF TypeInv, DraftShape, HistoryShape, frame
<1>2. ASSUME NEW t \in Threads, Steps(t) PROVE TypeInv' /\ HistoryShape'
  <2>1. Others(t)
    BY <1>2, OthersKept DEF PhaseInv, TypeInv
  <2>2. PortType'
    BY <1>2, <2>1, PortTyped DEF Others
  <2>3. Frame(t)'
    BY <1>2, FrameOfItself
  <2>4. ASSUME NEW u \in Threads \ {t} PROVE Frame(u)'
    BY <2>1, FrameOfOthers DEF TypeInv
  <2>. QED BY <2>1, <2>2, <2>3, <2>4 DEF TypeInv, Others
<1>3. CASE UNCHANGED vars \/ ReuseNumber
  BY <1>1, <1>3 DEF vars, ReuseNumber, socket
<1>. QED BY <1>2, <1>3 DEF Next, Steps

LEMMA TypesKept == Spec => [](TypeInv /\ HistoryShape)
<1>1. ASSUME Init PROVE TypeInv /\ HistoryShape
  <2>1. device \in Devices
    BY <1>1, PreviousTyped DEF Init
  <2>2. PortType
    BY <1>1, <2>1, OpenTimeoutsTyped DEF Init, PortType, Lines
  <2>3. DraftShape /\ HistoryShape
    BY <1>1 DEF Init, DraftShape, HistoryShape
  <2>4. ASSUME NEW t \in Threads PROVE Frame(t)
    BY <1>1 DEF Init, Frame, Op, NoRequest
  <2>. QED BY <2>2, <2>3, <2>4 DEF TypeInv
<1>2. PhaseInv /\ TypeInv /\ HistoryShape /\ [Next]_vars => TypeInv' /\ HistoryShape'
  BY NextTyped
<1>. QED BY <1>1, <1>2, NativePhases, PTL DEF Spec

\* Every variable keeps its type on both platforms: what a setter hands to the driver is a
\* termios or a DCB, whatever of another device it has read, and what the driver keeps of
\* it is one, too.
THEOREM NativeSettingsTypeCorrect == Spec => []TypeOK
<1>1. PhaseInv /\ TypeInv => TypeOK
  <2>. SUFFICES ASSUME PhaseInv, TypeInv, NEW t \in Threads,
                       At(t, "write"), Op(t) \in ParamOps \cup SpeedOps \cup CharOps
                PROVE  draft[t] \in Devices
    BY DEF PhaseInv, ShapeInv, TypeInv, PortType, TypeOK
  <2>1. Op(t) \notin LineOps \cup {"setTimeouts"}
    BY DEF ParamOps, SpeedOps, CharOps, LineOps
  <2>2. draft[t] \in DraftsOf(Op(t))
    BY <2>1 DEF TypeInv, Frame, At
  <2>. QED BY <2>1, <2>2 DEF DraftsOf
<1>. QED BY <1>1, NativePhases, TypesKept, PTL

------------------------------------------------------------------------------
(* What is reported set. *)

\* A setter of one item has one argument for it and none for another.
LEMMA OneItem ==
  ASSUME ShapeInv, NEW t \in Threads, Op(t) \in DOMAIN ItemOf
  PROVE  /\ ItemOf[Op(t)] \in Items
         /\ \E a : Ask(t)[ItemOf[Op(t)]] = {a}
         /\ \A i \in Items \ {ItemOf[Op(t)]} : Ask(t)[i] = {}
<1>1. request[t] \in Requests
  BY DEF ShapeInv, Op, OpenRequests, NoRequest, ItemOf
<1>2. ItemOf[Op(t)] \in Items
  BY DEF ItemOf, Items
<1>3. \A i \in Items : Ask(t)[i] # {} <=> i = ItemOf[Op(t)]
  BY <1>1, NativeAssumption DEF Op, Ask
<1>4. \A a, b \in Ask(t)[ItemOf[Op(t)]] : a = b
  BY <1>2, AskFacts DEF IsAsk
<1>5. PICK a \in Ask(t)[ItemOf[Op(t)]] : TRUE
  BY <1>2, <1>3
<1>6. Ask(t)[ItemOf[Op(t)]] = {a}
  BY <1>4, <1>5
<1>. QED BY <1>2, <1>3, <1>6

\* A getter asks for nothing, setParameters and open for no char, line or timeout.
LEMMA ItemsOfOthers ==
  ASSUME ShapeInv, NEW t \in Threads
  PROVE  /\ Op(t) \in Getters \cup {"getTimeouts"} => Ask(t) = NoAsk
         /\ Op(t) \in ParamOps => \A i \in Items \ ParamItems : Ask(t)[i] = {}
<1>1. CASE request[t] \in Requests
  <2>1. Op(t) \in Ops
    BY <1>1, NativeAssumption DEF Op
  <2>2. Op(t) # "open"
    BY <2>1, OpsApart
  <2>. QED BY <1>1, <2>2, NativeAssumption DEF Op, Ask, ParamOps
<1>2. CASE request[t] \in OpenRequests
  BY <1>2, NativeAssumption DEF Op, Ask, OpenRequests, Getters
<1>3. CASE request[t] = NoRequest
  BY <1>3 DEF NoRequest, Op, Getters, ParamOps
<1>. QED BY <1>1, <1>2, <1>3 DEF ShapeInv

\* The settings, item by item.
LEMMA SettingsOf ==
  ASSUME NEW d, NEW ln, NEW ct
  PROVE  /\ Settings(d, ln, ct).dataBits = d.size
         /\ Settings(d, ln, ct).xon = d.vstart
         /\ Settings(d, ln, ct).xoff = d.vstop
         /\ Settings(d, ln, ct).RTS = ("RTS" \in ln)
         /\ Settings(d, ln, ct).DTR = ("DTR" \in ln)
         /\ Settings(d, ln, ct).timeouts = TimeoutsOf(ct)
BY DEF Settings

LEMMA LineOfSettings ==
  ASSUME NEW d, NEW ln, NEW ct, NEW l \in Lines
  PROVE  Settings(d, ln, ct)[l] = (l \in ln)
<1>1. CASE l = "RTS"
  BY <1>1, SettingsOf
<1>2. CASE l = "DTR"
  BY <1>2, SettingsOf
<1>. QED BY <1>1, <1>2 DEF Lines

LEMMA SettingsOfTermios ==
  ASSUME NEW d, NEW ln, NEW ct, platform = "termios"
  PROVE  /\ Settings(d, ln, ct).speed = getSpeed(d)
         /\ Settings(d, ln, ct).inSpeed = d.ispeed
         /\ Settings(d, ln, ct).outSpeed = d.ospeed
         /\ Settings(d, ln, ct).stopBits = getStopBits(d)
         /\ Settings(d, ln, ct).parity = getParity(d)
         /\ Settings(d, ln, ct).flowControls = getFlowControl(d)
BY DEF Settings

LEMMA SettingsOfDCB ==
  ASSUME NEW d, NEW ln, NEW ct, platform # "termios"
  PROVE  /\ Settings(d, ln, ct).speed = d.speed
         /\ Settings(d, ln, ct).inSpeed = d.speed
         /\ Settings(d, ln, ct).outSpeed = d.speed
         /\ Settings(d, ln, ct).stopBits = d.stop
         /\ Settings(d, ln, ct).parity = d.parity
         /\ Settings(d, ln, ct).flowControls = FlowOfDCB(d)
BY DEF Settings

LEMMA OtherTimeouts ==
  ASSUME NEW ask, NEW d, NEW ln, NEW ct, NEW ct2, ask.timeouts = {}, InForce(ask, Settings(d, ln, ct))
  PROVE  InForce(ask, Settings(d, ln, ct2))
<1>. DEFINE s == Settings(d, ln, ct)
            now == Settings(d, ln, ct2)
<1>1. /\ now.dataBits = s.dataBits /\ now.xon = s.xon /\ now.xoff = s.xoff
      /\ now.RTS = s.RTS /\ now.DTR = s.DTR
  BY SettingsOf
<1>2. /\ now.speed = s.speed /\ now.inSpeed = s.inSpeed /\ now.outSpeed = s.outSpeed
      /\ now.stopBits = s.stopBits /\ now.parity = s.parity /\ now.flowControls = s.flowControls
  BY SettingsOfTermios, SettingsOfDCB
<1>. HIDE DEF s, now
<1>3. \A i \in Items \ {"timeouts"} : now[i] = s[i]
  BY <1>1, <1>2 DEF Items
<1>4. InForce(ask, s)
  BY DEF s
<1>5. InForce(ask, now)
  BY <1>3, <1>4 DEF InForce
<1>. QED BY <1>5 DEF now

\* The driver takes every char.
LEMMA KeptChars ==
  ASSUME NEW old, NEW new \in Devices
  PROVE  Kept(old, new).vstart = new.vstart /\ Kept(old, new).vstop = new.vstop
<1>1. CASE platform = "termios"
  BY <1>1 DEF Kept, Accepted, Devices, Termios
<1>2. CASE platform # "termios"
  BY <1>2 DEF Kept, AcceptedDCB, Devices, DCB
<1>. QED BY <1>1, <1>2

\* What is about to be written for one item is what was asked for.
AsAsked(t) ==
  /\ Op(t) \in CharOps =>
       /\ \A c \in Ask(t).xon : c <= 255 => draft[t].vstart = c
       /\ \A c \in Ask(t).xoff : c <= 255 => draft[t].vstop = c
  /\ Op(t) \in LineOps /\ platform = "termios" =>
       \A l \in Lines : \A a \in Ask(t)[l] : a <=> l \in draft[t]
  /\ Op(t) = "setTimeouts" => \A a \in Ask(t).timeouts : TimeoutsOf(draft[t]) = a

\* What open has set stays in force until it returns.
Promise(t) ==
  /\ Op(t) = "open" /\ pc[t] \in {"flush", "events"}
       => InForce(Ask(t), Settings(device, lines, timeouts))
  /\ pc[t] = "write" => AsAsked(t)

PromiseInv == /\ stage = "opening" => file = "port"
              /\ \A t \in Threads : Promise(t)

LEMMA OpeningKeepsPort ==
  ASSUME PhaseInv, stage = "opening" => file = "port", NEW t \in Threads, Steps(t), stage' = "opening"
  PROVE  file' = "port"
<1>1. ASSUME NEW r, Fail(t, r) PROVE file' = "port"
  BY <1>1 DEF Fail, socket
<1>2. CASE UNCHANGED socket
  BY <1>2 DEF socket
<1>3. ASSUME NEW d, Apply(t, d) PROVE file' = "port"
  BY <1>1, <1>2, <1>3 DEF Apply, Draft
<1>4. CASE Open(t) \/ CreateEvents(t)
  BY <1>4 DEF Open, CreateEvents
<1>5. CASE Closing(t)
  BY <1>5 DEF Closing, Mark, Release, CancelFails, At, PhaseInv, Phase
<1>6. CASE Call(t) \/ Load(t) \/ Return(t) \/ Write(t) \/ ReadOnly(t)
  BY <1>2, <1>6 DEF Call, Load, Return, Write, ReadOnly
<1>7. CASE Attributes(t) \/ ReadParams(t)
  BY <1>1, <1>2, <1>3, <1>7 DEF Attributes, ReadParams, Draft
<1>8. CASE FlushDevice(t)
  BY <1>1, <1>2, <1>8 DEF FlushDevice, Draft
<1>9. CASE ReadFails(t) \/ WriteFails(t) \/ VerifyFails(t)
  <2>1. \E r : Fail(t, r)
    BY <1>9, Zenon DEF ReadFails, WriteFails, VerifyFails
  <2>. QED BY <1>1, <2>1
<1>10. CASE ReadSpeed(t) \/ ReadTimeouts(t) \/ ReadChars(t) \/ ReadLines(t)
  <2>1. (\E r : Fail(t, r)) \/ \E d, label : Draft(t, d, label)
    BY <1>10, Zenon DEF ReadSpeed, ReadTimeouts, ReadChars, ReadLines
  <2>. QED BY <1>1, <1>2, <2>1 DEF Draft
<1>11. CASE Verify(t)
  <2>1. (\E r : Fail(t, r)) \/ UNCHANGED socket
    BY <1>11, Zenon DEF Verify, Accept, Draft
  <2>. QED BY <1>1, <1>2, <2>1
<1>. QED BY <1>4, <1>5, <1>6, <1>7, <1>8, <1>9, <1>10, <1>11 DEF Steps, Opening, Setting, Reading

\* The other threads keep it: nobody writes while a thread is in open.
LEMMA PromiseOfOthers ==
  ASSUME PhaseInv, NEW t \in Threads, Steps(t), Others(t), NEW u \in Threads \ {t}, Promise(u)
  PROVE  Promise(u)'
<1>1. /\ pc'[u] = pc[u] /\ Op(u)' = Op(u) /\ Ask(u)' = Ask(u) /\ draft'[u] = draft[u]
      /\ platform' = platform
  BY DEF Others, Op, Ask
<1>2. AsAsked(u)' <=> AsAsked(u)
  BY <1>1 DEF AsAsked
<1>3. CASE Op(u) = "open"
  <2>1. pc[t] \in Resting
    BY <1>3 DEF PhaseInv, Phase
  <2>2. ~ Write(t) /\ ~ FlushDevice(t)
    BY <2>1 DEF Resting, Write, FlushDevice, At
  <2>3. UNCHANGED driver
    BY <2>2, DriverKept
  <2>. QED BY <1>1, <1>2, <2>3 DEF Promise, driver, Settings
<1>4. CASE Op(u) # "open"
  BY <1>1, <1>2, <1>4 DEF Promise
<1>. QED BY <1>3, <1>4

\* What each reading prepares is what was asked for.
LEMMA ByteOfChar ==
  ASSUME NEW c \in Nat, c <= 255
  PROVE  ToByte(c) = c
BY DEF ToByte

LEMMA ChosenOnly ==
  ASSUME NEW arg, \A a, b \in arg : a = b, NEW c \in arg, NEW old
  PROVE  Chosen(arg, old) = c
BY DEF Chosen

\* A modem line that a setter of a line is asked for.
LEMMA LineAsk ==
  ASSUME ShapeInv, NEW t \in Threads, Op(t) \in LineOps,
         NEW line, line = IF Op(t) = "setRTS" THEN "RTS" ELSE "DTR"
  PROVE  /\ Ask(t)[line] = {TRUE} \/ Ask(t)[line] = {FALSE}
         /\ \A i \in Items \ {line} : Ask(t)[i] = {}
<1>1. Op(t) \in DOMAIN ItemOf /\ ItemOf[Op(t)] = line
  BY DEF LineOps, ItemOf
<1>2. PICK a : Ask(t)[line] = {a}
  BY <1>1, OneItem
<1>3. Ask(t)[line] \subseteq BOOLEAN
  BY AskFacts, AskFields DEF LineOps
<1>4. a = TRUE \/ a = FALSE
  BY <1>2, <1>3
<1>. QED BY <1>1, <1>2, <1>4, OneItem

\* Timeouts that are not rejected read back as they were set.
LEMMA TimeoutsReturn ==
  ASSUME NEW ask \in [1..3 -> Jint], ~RejectsTimeouts(ask)
  PROVE  TimeoutsOf(CommTimeouts(ask)) = ask
<1>1. MaxInt \in Nat
  BY WidthAssumption
<1>2. ask[1] \in Jint /\ ask[2] \in Jint /\ ask[3] \in Jint
  OBVIOUS
<1>3. ask[1] >= 0 /\ ask[2] >= 0 /\ ask[3] >= 0
  BY <1>1, <1>2 DEF RejectsTimeouts, Jint
<1>4. ask[1] \in 0..MaxInt /\ ask[2] \in 0..MaxInt /\ ask[3] \in 0..MaxInt
  BY <1>1, <1>2, <1>3 DEF Jint
<1>5. ask = <<ask[1], ask[2], ask[3]>>
  OBVIOUS
<1>6. TimeoutsOf(CommTimeouts(<<ask[1], ask[2], ask[3]>>)) = <<ask[1], ask[2], ask[3]>>
  BY <1>4, TimeoutsReadBack
<1>. QED BY <1>5, <1>6

\* A thread keeps its own.
LEMMA PromiseOfItself ==
  ASSUME PhaseInv, TypeInv, HistoryShape, stage = "opening" => file = "port",
         NEW t \in Threads, Promise(t), Steps(t)
  PROVE  Promise(t)'
<1>0. ShapeInv /\ DraftShape /\ PortType
  BY DEF PhaseInv, TypeInv
<1>1. ASSUME NEW label, Goto(t, label), label \notin {"flush", "events", "write"} PROVE Promise(t)'
  <2>1. pc'[t] = label
    BY <1>0, <1>1 DEF ShapeInv, Goto
  <2>. QED BY <1>1, <2>1 DEF Promise
<1>2. platform' = platform
  BY <1>0, OthersKept DEF Others
<1>3. ASSUME Goto(t, "write"), UNCHANGED request, Op(t) \in ParamOps \cup SpeedOps PROVE Promise(t)'
  <2>1. pc'[t] = "write" /\ Op(t)' = Op(t)
    BY <1>0, <1>3 DEF ShapeInv, Goto, Op
  <2>2. AsAsked(t)'
    BY <1>3, <2>1 DEF AsAsked, ParamOps, SpeedOps, CharOps, LineOps
  <2>. QED BY <2>1, <2>2 DEF Promise
<1>4. ASSUME NEW label \in {"flush", "events"}, Goto(t, label), UNCHANGED <<request, driver>>,
             InForce(Ask(t), Settings(device, lines, timeouts))
      PROVE  Promise(t)'
  <2>1. pc'[t] = label /\ Ask(t)' = Ask(t)
    BY <1>0, <1>4 DEF ShapeInv, Goto, Ask
  <2>. QED BY <1>2, <1>4, <2>1 DEF Promise, driver, Settings
<1>5. ASSUME NEW d, Draft(t, d, "write"), AsAsked(t)' PROVE Promise(t)'
  <2>1. pc'[t] = "write"
    BY <1>0, <1>5 DEF ShapeInv, Draft, Goto
  <2>. QED BY <1>5, <2>1 DEF Promise
<1>6. ASSUME NEW d, NEW label, Draft(t, d, label)
      PROVE  Op(t)' = Op(t) /\ Ask(t)' = Ask(t) /\ draft'[t] = d
  BY <1>0, <1>6 DEF Draft, Op, Ask, DraftShape
<1>7. CASE \E r : Finish(t, r)
  BY <1>1, <1>7 DEF Finish
<1>8. CASE \E r : Fail(t, r)
  BY <1>7, <1>8 DEF Fail
<1>9. ASSUME NEW d, Apply(t, d) PROVE Promise(t)'
  BY <1>1, <1>8, <1>9 DEF Apply, Draft
<1>10. InForce(NoAsk, Settings(device, lines, timeouts))
  BY DEF InForce, NoAsk
<1>11. CASE Opening(t)
  <2>1. CASE Open(t)
    BY <1>1, <2>1 DEF Open
  <2>2. CASE Attributes(t)
    BY <1>4, <1>8, <1>9, <1>10, <2>2 DEF Attributes, Draft
  <2>3. CASE FlushDevice(t)
    <3>1. Op(t) = "open" /\ pc[t] = "flush"
      BY <2>3 DEF FlushDevice, At, PhaseInv, Phase
    <3>2. InForce(Ask(t), Settings(device, lines, timeouts))
      BY <3>1 DEF Promise
    <3>. QED BY <1>4, <1>7, <1>8, <2>3, <3>2 DEF FlushDevice, Draft
  <2>4. CASE CreateEvents(t)
    BY <1>7, <2>4 DEF CreateEvents
  <2>. QED BY <1>11, <2>1, <2>2, <2>3, <2>4 DEF Opening
<1>12. CASE Closing(t) \/ Return(t)
  BY <1>1, <1>12 DEF Closing, Mark, Release, CancelFails, Return
<1>13. CASE Call(t)
  <2>1. PICK r \in Requests :
          /\ request' = [request EXCEPT ![t] = r]
          /\ Goto(t, IF platform = "windows" /\ r.op \in LineOps THEN "write" ELSE "read")
    BY <1>13 DEF Call
  <2>2. CASE platform = "windows" /\ r.op \in LineOps
    <3>1. pc'[t] = "write" /\ Op(t)' = r.op
      BY <1>0, <2>1, <2>2 DEF ShapeInv, Goto, Op
    <3>2. AsAsked(t)'
      BY <1>2, <2>2, <3>1 DEF AsAsked, LineOps, CharOps
    <3>. QED BY <3>1, <3>2 DEF Promise
  <2>. QED BY <1>1, <2>1, <2>2
<1>14. CASE Load(t)
  <2>1. CASE At(t, "loadWrite")
    <3>1. Op(t) \in ParamOps
      BY <2>1 DEF At, TypeInv, Frame
    <3>. QED BY <1>1, <1>3, <1>14, <3>1 DEF Load
  <2>. QED BY <1>1, <1>14, <2>1 DEF Load
<1>15. CASE ReadFails(t) \/ WriteFails(t) \/ VerifyFails(t)
  <2>1. \E r : Fail(t, r)
    BY <1>15, Zenon DEF ReadFails, WriteFails, VerifyFails
  <2>. QED BY <1>8, <2>1
<1>16. CASE ReadParams(t)
  BY <1>9, <1>16 DEF ReadParams
<1>17. CASE ReadSpeed(t)
  BY <1>3, <1>8, <1>17 DEF ReadSpeed, Draft
<1>18. CASE ReadChars(t)
  <2>1. PICK d \in Found(t) : \E new :
          /\ new = [d EXCEPT !.vstart = ToByte(Chosen(Ask(t).xon, @)),
                             !.vstop  = ToByte(Chosen(Ask(t).xoff, @))]
          /\ Draft(t, new, "write")
    BY <1>18 DEF ReadChars
  <2>2. {"vstart", "vstop"} \subseteq DOMAIN d
    BY <1>0, FoundTyped DEF Devices, Termios, DCB
  <2>3. /\ Op(t)' = Op(t) /\ Ask(t)' = Ask(t)
        /\ draft'[t].vstart = ToByte(Chosen(Ask(t).xon, d.vstart))
        /\ draft'[t].vstop = ToByte(Chosen(Ask(t).xoff, d.vstop))
    <3>1. PICK new :
            /\ new = [d EXCEPT !.vstart = ToByte(Chosen(Ask(t).xon, @)),
                               !.vstop  = ToByte(Chosen(Ask(t).xoff, @))]
            /\ Draft(t, new, "write")
      BY <2>1
    <3>2. Op(t)' = Op(t) /\ Ask(t)' = Ask(t) /\ draft'[t] = new
      BY <1>6, <3>1
    <3>. QED BY <2>2, <3>1, <3>2
  <2>4. /\ \A a, b \in Ask(t).xon : a = b
        /\ \A a, b \in Ask(t).xoff : a = b
    BY <1>0, AskFacts DEF IsAsk, Items
  <2>5. Ask(t).xon \subseteq Nat /\ Ask(t).xoff \subseteq Nat
    BY <1>0, AskFacts, AskFields, JcharNat
  <2>6. ASSUME NEW c \in Ask(t).xon, c <= 255 PROVE draft'[t].vstart = c
    <3>1. Chosen(Ask(t).xon, d.vstart) = c
      BY <2>4, <2>6, ChosenOnly
    <3>. QED BY <2>3, <2>5, <2>6, <3>1, ByteOfChar
  <2>7. ASSUME NEW c \in Ask(t).xoff, c <= 255 PROVE draft'[t].vstop = c
    <3>1. Chosen(Ask(t).xoff, d.vstop) = c
      BY <2>4, <2>7, ChosenOnly
    <3>. QED BY <2>3, <2>5, <2>7, <3>1, ByteOfChar
  <2>8. Op(t) \in CharOps
    BY <1>18 DEF ReadChars
  <2>9. AsAsked(t)'
    BY <2>3, <2>6, <2>7, <2>8 DEF AsAsked, CharOps, LineOps
  <2>. QED BY <1>5, <2>1, <2>9
<1>19. CASE ReadLines(t)
  <2>. DEFINE line == IF Op(t) = "setRTS" THEN "RTS" ELSE "DTR"
  <2>1. PICK old : \E new : /\ new = IF TRUE \in Ask(t)[line] THEN old \cup {line} ELSE old \ {line}
                            /\ Draft(t, new, "write")
    BY <1>19 DEF ReadLines
  <2>. HIDE DEF line
  <2>2. Op(t) \in LineOps
    BY <1>19 DEF ReadLines
  <2>3. /\ Op(t)' = Op(t) /\ Ask(t)' = Ask(t)
        /\ draft'[t] = IF TRUE \in Ask(t)[line] THEN old \cup {line} ELSE old \ {line}
    <3>1. PICK new : /\ new = IF TRUE \in Ask(t)[line] THEN old \cup {line} ELSE old \ {line}
                     /\ Draft(t, new, "write")
      BY <2>1
    <3>2. Draft(t, new, "write")
      BY <3>1
    <3>3. Op(t)' = Op(t) /\ Ask(t)' = Ask(t) /\ draft'[t] = new
      BY <1>6, <3>2
    <3>. QED BY <3>1, <3>3
  <2>4. /\ Ask(t)[line] = {TRUE} \/ Ask(t)[line] = {FALSE}
        /\ \A i \in Items \ {line} : Ask(t)[i] = {}
    BY <1>0, <2>2, LineAsk DEF line
  <2>5. ASSUME NEW l \in Lines, NEW a \in Ask(t)[l] PROVE a <=> l \in draft'[t]
    <3>1. l = line
      BY <2>4, <2>5 DEF Lines, Items
    <3>2. CASE Ask(t)[line] = {TRUE}
      <4>1. line \in draft'[t]
        BY <2>3, <3>2
      <4>2. a = TRUE
        BY <2>5, <3>1, <3>2
      <4>. QED BY <3>1, <4>1, <4>2
    <3>3. CASE Ask(t)[line] = {FALSE}
      <4>1. TRUE \notin Ask(t)[line]
        BY <3>3
      <4>2. line \notin draft'[t]
        BY <2>3, <4>1
      <4>3. a = FALSE
        BY <2>5, <3>1, <3>3
      <4>. QED BY <3>1, <4>2, <4>3
    <3>. QED BY <2>4, <3>2, <3>3
  <2>6. ASSUME NEW l \in Lines, NEW a \in Ask(t)'[l] PROVE a <=> l \in draft'[t]
    <3>1. a \in Ask(t)[l]
      BY <2>3, <2>6
    <3>. QED BY <2>5, <3>1
  <2>7. Op(t) \notin CharOps \cup {"setTimeouts"}
    BY <2>2 DEF CharOps, LineOps
  <2>8. AsAsked(t)'
    BY <2>3, <2>6, <2>7, Zenon DEF AsAsked
  <2>. QED BY <1>5, <2>1, <2>8
<1>20. CASE ReadTimeouts(t)
  <2>. DEFINE ask == Chosen(Ask(t).timeouts, <<0, 0, 0>>)
  <2>1. Op(t) = "setTimeouts"
    BY <1>20 DEF ReadTimeouts
  <2>2. Fail(t, "rejected") \/ (~RejectsTimeouts(ask) /\ Draft(t, CommTimeouts(ask), "write"))
    BY <1>20 DEF ReadTimeouts
  <2>3. CASE ~RejectsTimeouts(ask) /\ Draft(t, CommTimeouts(ask), "write")
    <3>1. Op(t)' = Op(t) /\ Ask(t)' = Ask(t) /\ draft'[t] = CommTimeouts(ask)
      BY <1>6, <2>3
    <3>2. \A a, b \in Ask(t).timeouts : a = b
      BY <1>0, AskFacts DEF IsAsk, Items
    <3>3. Ask(t).timeouts \subseteq [1..3 -> Jint]
      BY <1>0, AskFacts, AskFields
    <3>4. ASSUME NEW a \in Ask(t).timeouts PROVE TimeoutsOf(CommTimeouts(a)) = a
      <4>1. ask = a
        BY <3>2, <3>4, ChosenOnly
      <4>. QED BY <2>3, <3>3, <3>4, <4>1, TimeoutsReturn
    <3>5. ASSUME NEW a \in Ask(t).timeouts PROVE TimeoutsOf(draft'[t]) = a
      BY <3>1, <3>2, <3>4, <3>5, ChosenOnly
    <3>6. AsAsked(t)'
      BY <2>1, <3>1, <3>5 DEF AsAsked, CharOps, LineOps
    <3>. QED BY <1>5, <2>3, <3>6
  <2>. QED BY <1>8, <2>2, <2>3
<1>21. CASE ReadOnly(t)
  BY <1>7, <1>21 DEF ReadOnly
<1>22. CASE Write(t)
  <2>1. CASE Finish(t, "ok")
    BY <1>7, <2>1
  <2>2. CASE Goto(t, AfterWrite(t)) /\ AfterWrite(t) # "return"
    <3>1. CASE AfterWrite(t) \in {"loadVerify", "verify"}
      BY <1>1, <2>2, <3>1
    <3>2. CASE AfterWrite(t) = "flush"
      <4>1. Ask(t) = NoAsk
        BY <3>2 DEF AfterWrite, SpeedOps
      <4>2. pc'[t] = "flush" /\ Ask(t)' = Ask(t)
        BY <1>0, <1>22, <2>1, <2>2, <3>2 DEF ShapeInv, Write, Goto, Ask
      <4>. QED BY <4>1, <4>2 DEF Promise, InForce, NoAsk
    <3>. QED BY <2>2, <3>1, <3>2 DEF AfterWrite
  <2>. QED BY <1>22, <2>1, <2>2 DEF Write
<1>23. CASE Verify(t)
  <2>1. PICK d \in Found(t) :
          \/ InForceAsRead(t, d) /\ Accept(t)
          \/ Fail(t, "notSet") \/ Fail(t, "nativeError")
    BY <1>23 DEF Verify
  <2>2. CASE Op(t) = "open" /\ InForceAsRead(t, d) /\ Draft(t, NoDraft, "flush")
    <3>1. file = "port"
      BY <2>2 DEF PhaseInv, Phase
    <3>2. d = device
      BY <1>0, <3>1, FoundTyped
    <3>3. InForce(Ask(t), Settings(device, lines, timeouts))
      BY <2>2, <3>2 DEF InForceAsRead, SpeedOps
    <3>. QED BY <1>4, <2>2, <3>3 DEF Draft
  <2>. QED BY <1>7, <1>8, <2>1, <2>2 DEF Accept
<1>. QED BY <1>11, <1>12, <1>13, <1>14, <1>15, <1>16, <1>17, <1>18, <1>19, <1>20, <1>21, <1>22, <1>23
     DEF Steps, Setting, Reading

LEMMA NextPromise ==
  ASSUME PhaseInv, TypeInv, HistoryShape, PromiseInv, [Next]_vars
  PROVE  PromiseInv'
<1>1. CASE /\ UNCHANGED <<platform, stage, driver, frame>>
           /\ file' = file \/ file = "free"
  <2>1. ASSUME NEW t \in Threads PROVE Promise(t)'
    BY <1>1 DEF PromiseInv, Promise, AsAsked, Settings, driver, frame, Op, Ask
  <2>. QED BY <1>1, <2>1 DEF PromiseInv
<1>2. ASSUME NEW t \in Threads, Steps(t) PROVE PromiseInv'
  <2>1. Others(t)
    BY <1>2, OthersKept DEF PhaseInv, TypeInv
  <2>2. ASSUME NEW u \in Threads \ {t} PROVE Promise(u)'
    BY <1>2, <2>1, PromiseOfOthers DEF PromiseInv
  <2>3. Promise(t)'
    BY <1>2, PromiseOfItself DEF PromiseInv
  <2>4. (stage = "opening" => file = "port")'
    BY <1>2, OpeningKeepsPort DEF PromiseInv
  <2>. QED BY <2>2, <2>3, <2>4 DEF PromiseInv
<1>3. CASE UNCHANGED vars \/ ReuseNumber
  BY <1>1, <1>3 DEF vars, ReuseNumber, socket
<1>. QED BY <1>2, <1>3 DEF Next, Steps

\* Only the item asked for counts.
LEMMA InForceOne ==
  ASSUME NEW ask, NEW item, \A i \in Items \ {item} : ask[i] = {}, NEW s, ask[item] \subseteq {s[item]}
  PROVE  InForce(ask, s)
BY DEF InForce

\* What a setter of one item writes to the port is in force when it is written.
LEMMA WrittenInForce ==
  ASSUME PhaseInv, TypeInv, NEW t \in Threads, Promise(t), Write(t), AfterWrite(t) = "return",
         file = "port", Promised(t)
  PROVE  InForce(Ask(t), Settings(device', lines', timeouts'))
<1>0. ShapeInv /\ PortType /\ pc[t] = "write" /\ Frame(t) /\ AsAsked(t)
  BY DEF PhaseInv, TypeInv, Write, At, Promise
<1>1. Written(t)
  BY DEF Write, Named
<1>2. CASE Op(t) \in LineOps
  <2>. DEFINE line == IF Op(t) = "setRTS" THEN "RTS" ELSE "DTR"
  <2>1. /\ Ask(t)[line] = {TRUE} \/ Ask(t)[line] = {FALSE}
        /\ \A i \in Items \ {line} : Ask(t)[i] = {}
    BY <1>0, <1>2, LineAsk
  <2>2. line \in Lines
    BY DEF Lines
  <2>3. Op(t) # "setTimeouts"
    BY <1>2 DEF LineOps
  <2>4. lines' = IF platform = "termios" THEN draft[t]
                 ELSE (lines \ {l \in Lines : FALSE \in Ask(t)[l]})
                      \cup {l \in Lines : TRUE \in Ask(t)[l]}
    BY <1>1, <1>2, <2>3 DEF Written
  <2>. HIDE DEF line
  <2>5. CASE Ask(t)[line] = {TRUE}
    <3>1. line \in lines'
      <4>1. CASE platform = "termios"
        <5>1. TRUE <=> line \in draft[t]
          BY <1>0, <1>2, <2>2, <2>5, <4>1 DEF AsAsked
        <5>. QED BY <2>4, <4>1, <5>1
      <4>2. CASE platform # "termios"
        BY <2>2, <2>4, <2>5, <4>2
      <4>. QED BY <4>1, <4>2
    <3>2. Settings(device', lines', timeouts')[line] = TRUE
      <4>1. (line \in lines') = TRUE
        BY <3>1
      <4>2. Settings(device', lines', timeouts')[line] = (line \in lines')
        BY <2>2, LineOfSettings
      <4>. QED BY <4>1, <4>2
    <3>. QED BY <2>1, <2>5, <3>2, InForceOne
  <2>6. CASE Ask(t)[line] = {FALSE}
    <3>0. TRUE \notin Ask(t)[line]
      BY <2>6
    <3>1. line \notin lines'
      <4>1. CASE platform = "termios"
        <5>1. FALSE <=> line \in draft[t]
          BY <1>0, <1>2, <2>2, <2>6, <4>1 DEF AsAsked
        <5>. QED BY <2>4, <4>1, <5>1
      <4>2. CASE platform # "termios"
        BY <2>2, <2>4, <2>6, <3>0, <4>2
      <4>. QED BY <4>1, <4>2
    <3>2. Settings(device', lines', timeouts')[line] = FALSE
      <4>1. (line \in lines') = FALSE
        BY <3>1
      <4>2. Settings(device', lines', timeouts')[line] = (line \in lines')
        BY <2>2, LineOfSettings
      <4>. QED BY <4>1, <4>2
    <3>. QED BY <2>1, <2>6, <3>2, InForceOne
  <2>. QED BY <2>1, <2>5, <2>6
<1>3. CASE Op(t) = "setTimeouts"
  <2>1. timeouts' = draft[t]
    BY <1>1, <1>3 DEF Written, LineOps
  <2>2. Op(t) \in DOMAIN ItemOf /\ ItemOf[Op(t)] = "timeouts"
    BY <1>3 DEF ItemOf
  <2>3. \A i \in Items \ {"timeouts"} : Ask(t)[i] = {}
    BY <1>0, <2>2, OneItem
  <2>4. Settings(device', lines', timeouts').timeouts = TimeoutsOf(draft[t])
    BY <2>1, SettingsOf
  <2>5. Ask(t).timeouts \subseteq {TimeoutsOf(draft[t])}
    BY <1>0, <1>3 DEF AsAsked
  <2>. QED BY <2>3, <2>4, <2>5, InForceOne
<1>4. CASE Op(t) \in CharOps
  <2>1. draft[t] \in Devices
    BY <1>0, <1>4 DEF Frame, DraftsOf, CharOps, LineOps
  <2>2. device' = Kept(device, draft[t])
    BY <1>1, <1>4 DEF Written, CharOps, LineOps
  <2>3. device'.vstart = draft[t].vstart /\ device'.vstop = draft[t].vstop
    BY <2>1, <2>2, KeptChars
  <2>4. /\ Settings(device', lines', timeouts').xon = draft[t].vstart
        /\ Settings(device', lines', timeouts').xoff = draft[t].vstop
    BY <2>3, SettingsOf
  <2>5. \A c \in Ask(t).xon \cup Ask(t).xoff : c <= 255
    BY DEF Promised
  <2>6. Ask(t).xon \subseteq {draft[t].vstart} /\ Ask(t).xoff \subseteq {draft[t].vstop}
    BY <1>0, <1>4, <2>5 DEF AsAsked
  <2>7. Op(t) \in DOMAIN ItemOf /\ ItemOf[Op(t)] \in {"xon", "xoff"}
    BY <1>4 DEF CharOps, ItemOf
  <2>8. \A i \in Items \ {ItemOf[Op(t)]} : Ask(t)[i] = {}
    BY <1>0, <2>7, OneItem
  <2>9. Ask(t)[ItemOf[Op(t)]] \subseteq {Settings(device', lines', timeouts')[ItemOf[Op(t)]]}
    BY <2>4, <2>6, <2>7
  <2>. QED BY <2>8, <2>9, InForceOne
<1>5. CASE Op(t) \notin LineOps \cup CharOps \cup {"setTimeouts"}
  <2>1. Op(t) \in ParamOps /\ Ask(t) = NoAsk
    <3>1. Op(t) \notin {"none"}
      BY <1>0 DEF PhaseInv, Phase, Resting
    <3>2. Op(t) \in ParamOps \cup SpeedOps
      BY <1>0, <1>5, <3>1 DEF Frame, OpsOf, Ops, ParamOps, WindowsOnly
    <3>3. Op(t) \notin SpeedOps
      BY <3>2 DEF AfterWrite, ParamOps, SpeedOps
    <3>. QED BY <3>2, <3>3 DEF AfterWrite
  <2>. QED BY <2>1 DEF InForce, NoAsk
<1>. QED BY <1>2, <1>3, <1>4, <1>5

\* How a setter, or open, comes to return normally.
LEMMA EndsInForce ==
  ASSUME PhaseInv, TypeInv, HistoryShape, NEW t \in Threads, Promise(t), Steps(t), Ends(t),
         result'[t] = "ok", file = "port", Promised(t)
  PROVE  InForce(Ask(t), Settings(device', lines', timeouts'))
<1>0. ShapeInv /\ DraftShape /\ PortType
  BY DEF PhaseInv, TypeInv
<1>1. ASSUME NEW r, Finish(t, r) PROVE r = "ok"
  BY <1>0, <1>1 DEF Finish, ShapeInv
<1>2. ASSUME NEW r, r # "ok", Fail(t, r) PROVE FALSE
  BY <1>1, <1>2 DEF Fail
<1>3. ASSUME NEW label, label # "return", Goto(t, label) PROVE FALSE
  BY <1>0, <1>3 DEF ShapeInv, Ends, Goto
<1>4. ASSUME NEW d, NEW label, label # "return", Draft(t, d, label) PROVE FALSE
  BY <1>3, <1>4 DEF Draft
<1>5. ASSUME NEW d, Apply(t, d) PROVE FALSE
  BY <1>2, <1>4, <1>5 DEF Apply
<1>6. throw_ClosedOrNativeException(t) # "ok"
  BY DEF throw_ClosedOrNativeException
<1>7. ~ ReadFails(t) /\ ~ VerifyFails(t) /\ ~ WriteFails(t)
  <2>1. ~ ReadFails(t)
    BY <1>2, <1>6 DEF ReadFails
  <2>2. ~ VerifyFails(t)
    BY <1>2, <1>6 DEF VerifyFails
  <2>3. ~ WriteFails(t)
    BY <1>2, <1>6 DEF WriteFails
  <2>. QED BY <2>1, <2>2, <2>3
<1>8. ~ Open(t)
  <2>1. CASE Open(t)
    <3>1. result' = [result EXCEPT ![t] = "nativeError"]
      BY <1>3, <2>1 DEF Open
    <3>. QED BY <1>0, <3>1 DEF ShapeInv
  <2>. QED BY <2>1
<1>9. ~ Attributes(t) /\ ~ ReadParams(t) /\ ~ ReadSpeed(t) /\ ~ ReadTimeouts(t) /\ ~ ReadChars(t) /\ ~ ReadLines(t)
  <2>1. ~ Attributes(t) /\ ~ ReadParams(t)
    BY <1>2, <1>4, <1>5 DEF Attributes, ReadParams
  <2>2. ~ ReadSpeed(t) /\ ~ ReadTimeouts(t)
    BY <1>2, <1>4 DEF ReadSpeed, ReadTimeouts
  <2>3. ~ ReadChars(t) /\ ~ ReadLines(t)
    BY <1>4 DEF ReadChars, ReadLines
  <2>. QED BY <2>1, <2>2, <2>3
<1>10. CASE FlushDevice(t) \/ CreateEvents(t)
  <2>1. Op(t) = "open" /\ pc[t] \in {"flush", "events"}
    BY <1>10 DEF FlushDevice, CreateEvents, At, PhaseInv, Phase
  <2>2. InForce(Ask(t), Settings(device, lines, timeouts))
    BY <2>1 DEF Promise
  <2>3. ~ Write(t)
    BY <2>1 DEF Write, At
  <2>4. device' = device /\ lines' = lines
    BY <2>3, DriverKept DEF driver
  <2>5. Ask(t).timeouts = {}
    BY <1>0, <2>1, ItemsOfOthers DEF ParamOps, Items, ParamItems
  <2>. QED BY <2>2, <2>4, <2>5, OtherTimeouts
<1>11. CASE Closing(t) \/ Call(t) \/ Load(t) \/ Return(t)
  BY <1>3, <1>11 DEF Closing, Mark, Release, CancelFails, Call, Load, Return
<1>12. CASE ReadOnly(t)
  <2>1. Ask(t) = NoAsk
    BY <1>0, <1>12, ItemsOfOthers DEF ReadOnly
  <2>. QED BY <2>1 DEF InForce, NoAsk
<1>13. CASE Write(t)
  <2>1. AfterWrite(t) = "return"
    BY <1>3, <1>13 DEF Write
  <2>. QED BY <1>13, <2>1, WrittenInForce
<1>14. CASE Verify(t)
  <2>1. PICK d \in Found(t) : InForceAsRead(t, d) /\ Accept(t)
    BY <1>2, <1>14 DEF Verify
  <2>2. d = device
    BY <1>0, <2>1, FoundTyped
  <2>3. UNCHANGED driver
    BY <1>4, <2>1 DEF Accept
  <2>4. CASE Op(t) \in SpeedOps
    <3>1. Op(t) = "setInSpeed"
      BY <2>4 DEF SpeedOps, Promised
    <3>2. Op(t) \in DOMAIN ItemOf /\ ItemOf[Op(t)] = "inSpeed"
      BY <3>1 DEF ItemOf
    <3>3. \A i \in Items \ {"inSpeed"} : Ask(t)[i] = {}
      BY <1>0, <3>2, OneItem
    <3>4. platform = "termios"
      BY <2>4 DEF TypeInv, Frame, OpsOf, TermiosOnly, SpeedOps
    <3>5. Ask(t).inSpeed \subseteq {device.ispeed}
      BY <2>1, <2>2, <2>4 DEF InForceAsRead
    <3>6. Settings(device', lines', timeouts').inSpeed = device.ispeed
      BY <2>3, <3>4, SettingsOfTermios DEF driver
    <3>. QED BY <3>3, <3>5, <3>6, InForceOne
  <2>5. CASE Op(t) \notin SpeedOps
    BY <2>1, <2>2, <2>3, <2>5 DEF InForceAsRead, driver
  <2>. QED BY <2>4, <2>5
<1>. QED BY <1>7, <1>8, <1>9, <1>10, <1>11, <1>12, <1>13, <1>14 DEF Steps, Opening, Setting, Reading

LEMMA PromiseKept == Spec => []PromiseInv
<1>1. Init => PromiseInv
  BY DEF Init, PromiseInv, Promise
<1>2. PhaseInv /\ TypeInv /\ HistoryShape /\ PromiseInv /\ [Next]_vars => PromiseInv'
  BY NextPromise
<1>. QED BY <1>1, <1>2, NativePhases, TypesKept, PTL DEF Spec

\* A setter of either library, and open0, that returns without an exception while the number
\* is the port's has what it was asked for in force at this moment, whatever the driver
\* ignores and the other threads write between its steps; timeouts read back as they were set.
THEOREM NativeReportedIsInForce == Spec => ReportedInForce
<1>. DEFINE InForceAtEnd ==
       \A t \in Threads :
         Ends(t) /\ result'[t] = "ok" /\ file = "port" /\ Promised(t)
         => InForce(Ask(t), Settings(device', lines', timeouts'))
<1>1. ASSUME PhaseInv, TypeInv, HistoryShape, PromiseInv, [Next]_vars PROVE [InForceAtEnd]_vars
  <2>. SUFFICES ASSUME Next, NEW t \in Threads,
                       Ends(t) /\ result'[t] = "ok" /\ file = "port" /\ Promised(t)
                PROVE  InForce(Ask(t), Settings(device', lines', timeouts'))
    BY <1>1
  <2>1. Steps(t)
    BY <1>1, EndsItself DEF PhaseInv, TypeInv
  <2>. QED BY <1>1, <2>1, EndsInForce DEF PromiseInv
<1>2. PhaseInv /\ TypeInv /\ HistoryShape /\ PromiseInv /\ [Next]_vars => [InForceAtEnd]_vars
  BY <1>1
<1>. HIDE DEF InForceAtEnd
<1>3. Spec => [][InForceAtEnd]_vars
  BY <1>2, NativePhases, TypesKept, PromiseKept, PTL DEF Spec
<1>. QED BY <1>3 DEF ReportedInForce, InForceAtEnd

------------------------------------------------------------------------------
(* What is left alone. *)

\* The settings now differ from s only where ask has an argument; new data bits rename
\* the stop bits.
Untouched(ask, s, now) ==
  \A i \in Items : \/ now[i] = s[i]
                   \/ Concerns(ask, i)
                   \/ i = "stopBits" /\ ask.dataBits # {} /\ {now[i], s[i]} = {"SB_1_5", "SB_2"}

\* The settings there may be once t has written d, and what it is about to write.
MadeOf(t, d) ==
  CASE Op(t) \in LineOps ->
         {Settings(device, IF platform = "termios" THEN d
                           ELSE (lines \ {l \in Lines : FALSE \in Ask(t)[l]})
                                \cup {l \in Lines : TRUE \in Ask(t)[l]}, timeouts)}
    [] Op(t) = "setTimeouts" -> {Settings(device, lines, d)}
    [] OTHER -> {Settings(Kept(device, d), ln, timeouts) :
                   ln \in LinesAfter(device, Kept(device, d), lines)}

NewSettings(t) == MadeOf(t, draft[t])

\* As long as no other call overlaps, the settings are those from before the call until it
\* writes, and differ from them afterwards as the write may make them differ.
Quiet(t) ==
  before[t] # {} =>
    /\ pc[t] \in {"read", "loadWrite", "write", "loadVerify", "verify"} /\ Op(t) \in Ops
    /\ \A u \in Threads \ {t} : pc[u] \in Resting
    /\ \A s \in before[t] :
         /\ pc[t] \in {"read", "loadWrite", "write"} => s = Settings(device, lines, timeouts)
         /\ pc[t] \in {"loadVerify", "verify"}
              => Untouched(Ask(t), s, Settings(device, lines, timeouts))
    /\ pc[t] \in {"loadWrite", "write"} /\ file = "port"
         => \A now \in NewSettings(t) : Untouched(Ask(t), Settings(device, lines, timeouts), now)

QuietInv == \A t \in Threads : Quiet(t)

LEMMA UntouchedItself == ASSUME NEW ask, NEW s PROVE Untouched(ask, s, s)
BY DEF Untouched

\* The items, one by one.
LEMMA UntouchedItems ==
  ASSUME NEW ask, NEW s, NEW now,
         ask.speed = {} /\ ask.inSpeed = {} /\ ask.outSpeed = {} => now.speed = s.speed,
         ask.speed = {} /\ ask.inSpeed = {} => now.inSpeed = s.inSpeed,
         ask.speed = {} /\ ask.outSpeed = {} => now.outSpeed = s.outSpeed,
         ask.dataBits = {} => now.dataBits = s.dataBits,
         ask.stopBits = {} => \/ now.stopBits = s.stopBits
                              \/ ask.dataBits # {} /\ {now.stopBits, s.stopBits} = {"SB_1_5", "SB_2"},
         ask.parity = {} => now.parity = s.parity,
         ask.flowControls = {} => now.flowControls = s.flowControls,
         ask.xon = {} => now.xon = s.xon,
         ask.xoff = {} => now.xoff = s.xoff,
         ask.RTS = {} /\ ask.flowControls = {} => now.RTS = s.RTS,
         ask.DTR = {} => now.DTR = s.DTR,
         ask.timeouts = {} => now.timeouts = s.timeouts
  PROVE  Untouched(ask, s, now)
<1>1. /\ now.speed = s.speed \/ Concerns(ask, "speed")
      /\ now.inSpeed = s.inSpeed \/ Concerns(ask, "inSpeed")
      /\ now.outSpeed = s.outSpeed \/ Concerns(ask, "outSpeed")
  BY DEF Concerns
<1>2. /\ now.dataBits = s.dataBits \/ Concerns(ask, "dataBits")
      /\ now.parity = s.parity \/ Concerns(ask, "parity")
      /\ now.flowControls = s.flowControls \/ Concerns(ask, "flowControls")
      /\ now.xon = s.xon \/ Concerns(ask, "xon")
      /\ now.xoff = s.xoff \/ Concerns(ask, "xoff")
      /\ now.RTS = s.RTS \/ Concerns(ask, "RTS")
      /\ now.DTR = s.DTR \/ Concerns(ask, "DTR")
      /\ now.timeouts = s.timeouts \/ Concerns(ask, "timeouts")
  BY DEF Concerns
<1>3. \/ now.stopBits = s.stopBits \/ Concerns(ask, "stopBits")
      \/ ask.dataBits # {} /\ {now.stopBits, s.stopBits} = {"SB_1_5", "SB_2"}
  BY DEF Concerns
<1>. QED BY <1>1, <1>2, <1>3 DEF Untouched, Items

\* The lines that a write may leave: RTS moves with its control only.
LEMMA LinesAfterFacts ==
  ASSUME NEW old, NEW new, NEW ln, NEW after \in LinesAfter(old, new, ln)
  PROVE  /\ ("DTR" \in after) = ("DTR" \in ln)
         /\ platform = "termios" /\ ("CRTSCTS" \in old.flags <=> "CRTSCTS" \in new.flags)
              => ("RTS" \in after) = ("RTS" \in ln)
         /\ platform # "termios" /\ new.rts = old.rts => ("RTS" \in after) = ("RTS" \in ln)
<1>1. PICK rts \in RtsAfter(old, new, "RTS" \in ln) :
        after = (ln \ {"RTS"}) \cup (IF rts THEN {"RTS"} ELSE {})
  BY DEF LinesAfter
<1>2. ("DTR" \in after) = ("DTR" \in ln)
  BY <1>1
<1>3. ASSUME \/ platform = "termios" /\ ("CRTSCTS" \in old.flags <=> "CRTSCTS" \in new.flags)
             \/ platform # "termios" /\ new.rts = old.rts
      PROVE  ("RTS" \in after) = ("RTS" \in ln)
  <2>1. rts = ("RTS" \in ln)
    BY <1>1, <1>3 DEF RtsAfter
  <2>. QED BY <1>1, <2>1
<1>. QED BY <1>2, <1>3

\* A driver of termios that ignores some bits leaves what the termios it is given leaves.
LEMMA TermiosUntouched ==
  ASSUME platform = "termios", NEW ask, NEW tm \in Termios, NEW d \in Termios, NEW ln, NEW ct,
         ask.speed = {} /\ ask.inSpeed = {} => d.ispeed = tm.ispeed,
         ask.speed = {} /\ ask.outSpeed = {} => d.ospeed = tm.ospeed,
         ask.dataBits = {} => d.size = tm.size,
         ask.stopBits = {} => ("CSTOPB" \in d.flags <=> "CSTOPB" \in tm.flags),
         ask.parity = {} => \A x \in ParityMask : x \in d.flags <=> x \in tm.flags,
         ask.flowControls = {} => \A x \in FlowMask : x \in d.flags <=> x \in tm.flags,
         ask.xon = {} => d.vstart = tm.vstart,
         ask.xoff = {} => d.vstop = tm.vstop,
         NEW after \in LinesAfter(tm, Kept(tm, d), ln)
  PROVE  Untouched(ask, Settings(tm, ln, ct), Settings(Kept(tm, d), after, ct))
<1>. DEFINE new == Kept(tm, d)
            s   == Settings(tm, ln, ct)
            now == Settings(new, after, ct)
<1>0. after \in LinesAfter(tm, new, ln)
  OBVIOUS
<1>1. /\ new.flags = (d.flags \ Stuck) \cup (tm.flags \cap Stuck)
      /\ new.size = d.size \/ new.size = tm.size
      /\ new.ispeed = d.ispeed \/ new.ispeed = tm.ispeed
      /\ new.ospeed = d.ospeed \/ new.ospeed = tm.ospeed
      /\ new.vstart = d.vstart /\ new.vstop = d.vstop
  BY DEF Kept, Accepted, Termios
<1>. HIDE DEF new
<1>2. \A x : (x \in d.flags <=> x \in tm.flags) => (x \in new.flags <=> x \in tm.flags)
  BY <1>1
<1>3. /\ ask.speed = {} /\ ask.inSpeed = {} => new.ispeed = tm.ispeed
      /\ ask.speed = {} /\ ask.outSpeed = {} => new.ospeed = tm.ospeed
      /\ ask.dataBits = {} => new.size = tm.size
      /\ ask.xon = {} => new.vstart = tm.vstart
      /\ ask.xoff = {} => new.vstop = tm.vstop
  BY <1>1
<1>4. ask.speed = {} /\ ask.inSpeed = {} /\ ask.outSpeed = {} => getSpeed(new) = getSpeed(tm)
  BY <1>3 DEF getSpeed
<1>5. ask.stopBits = {} => \/ getStopBits(new) = getStopBits(tm)
                           \/ ask.dataBits # {} /\ {getStopBits(new), getStopBits(tm)} = {"SB_1_5", "SB_2"}
  <2>1. CASE ask.stopBits = {}
    <3>1. "CSTOPB" \in new.flags <=> "CSTOPB" \in tm.flags
      BY <1>2, <2>1
    <3>. QED BY <1>3, <3>1 DEF getStopBits
  <2>. QED BY <2>1
<1>6. ask.parity = {} => getParity(new) = getParity(tm)
  <2>1. ask.parity = {} => \A x \in ParityMask : x \in new.flags <=> x \in tm.flags
    BY <1>2
  <2>. QED BY <2>1 DEF ParityMask, getParity
<1>7. ask.flowControls = {} => getFlowControl(new) = getFlowControl(tm)
  <2>1. ask.flowControls = {} => \A x \in FlowMask : x \in new.flags <=> x \in tm.flags
    BY <1>2
  <2>. QED BY <2>1 DEF FlowMask, getFlowControl
<1>12. /\ ("DTR" \in after) = ("DTR" \in ln)
       /\ ask.flowControls = {} => ("RTS" \in after) = ("RTS" \in ln)
  <2>1. ask.flowControls = {} => ("CRTSCTS" \in tm.flags <=> "CRTSCTS" \in new.flags)
    BY <1>2 DEF FlowMask
  <2>. QED BY <1>0, <2>1, LinesAfterFacts
<1>8. /\ s.dataBits = tm.size /\ s.xon = tm.vstart /\ s.xoff = tm.vstop
      /\ now.dataBits = new.size /\ now.xon = new.vstart /\ now.xoff = new.vstop
      /\ ask.flowControls = {} => now.RTS = s.RTS
      /\ now.DTR = s.DTR /\ now.timeouts = s.timeouts
  BY <1>12, SettingsOf
<1>9. /\ s.speed = getSpeed(tm) /\ s.inSpeed = tm.ispeed /\ s.outSpeed = tm.ospeed
      /\ s.stopBits = getStopBits(tm) /\ s.parity = getParity(tm)
      /\ s.flowControls = getFlowControl(tm)
  BY SettingsOfTermios
<1>10. /\ now.speed = getSpeed(new) /\ now.inSpeed = new.ispeed /\ now.outSpeed = new.ospeed
       /\ now.stopBits = getStopBits(new) /\ now.parity = getParity(new)
       /\ now.flowControls = getFlowControl(new)
  BY SettingsOfTermios
<1>. HIDE DEF s, now
<1>11. Untouched(ask, s, now)
  BY <1>3, <1>4, <1>5, <1>6, <1>7, <1>8, <1>9, <1>10, UntouchedItems
<1>. QED BY <1>11 DEF s, now, new

\* So does a driver of a DCB.
LEMMA DCBUntouched ==
  ASSUME platform # "termios", NEW ask, NEW dcb \in DCB, NEW d \in DCB, NEW ln, NEW ct,
         ask.speed = {} => d.speed = dcb.speed,
         ask.dataBits = {} => d.size = dcb.size,
         ask.stopBits = {} => \/ d.stop = dcb.stop
                              \/ ask.dataBits # {} /\ {d.stop, dcb.stop} = {"SB_1_5", "SB_2"},
         ask.parity = {} => d.parity = dcb.parity,
         ask.flowControls = {} =>
           d.rts = dcb.rts /\ d.cts = dcb.cts /\ d.inX = dcb.inX /\ d.outX = dcb.outX,
         ask.xon = {} => d.vstart = dcb.vstart,
         ask.xoff = {} => d.vstop = dcb.vstop,
         NEW after \in LinesAfter(dcb, Kept(dcb, d), ln)
  PROVE  Untouched(ask, Settings(dcb, ln, ct), Settings(Kept(dcb, d), after, ct))
<1>. DEFINE new == Kept(dcb, d)
            s   == Settings(dcb, ln, ct)
            now == Settings(new, after, ct)
<1>0. after \in LinesAfter(dcb, new, ln)
  OBVIOUS
<1>1. /\ new.speed = d.speed \/ new.speed = dcb.speed
      /\ new.size = d.size \/ new.size = dcb.size
      /\ new.stop = d.stop \/ new.stop = dcb.stop
      /\ new.parity = d.parity \/ new.parity = dcb.parity
      /\ new.rts = d.rts \/ new.rts = dcb.rts
      /\ new.cts = d.cts \/ new.cts = dcb.cts
      /\ new.inX = d.inX \/ new.inX = dcb.inX
      /\ new.outX = d.outX \/ new.outX = dcb.outX
      /\ new.vstart = d.vstart /\ new.vstop = d.vstop
  BY DEF Kept, AcceptedDCB, DCB
<1>. HIDE DEF new
<1>2. ask.flowControls = {} => FlowOfDCB(new) = FlowOfDCB(dcb)
  BY <1>1 DEF FlowOfDCB
<1>7. /\ ("DTR" \in after) = ("DTR" \in ln)
      /\ ask.flowControls = {} => ("RTS" \in after) = ("RTS" \in ln)
  <2>1. ask.flowControls = {} => new.rts = dcb.rts
    BY <1>1
  <2>. QED BY <1>0, <2>1, LinesAfterFacts
<1>3. /\ s.dataBits = dcb.size /\ s.xon = dcb.vstart /\ s.xoff = dcb.vstop
      /\ now.dataBits = new.size /\ now.xon = new.vstart /\ now.xoff = new.vstop
      /\ ask.flowControls = {} => now.RTS = s.RTS
      /\ now.DTR = s.DTR /\ now.timeouts = s.timeouts
  BY <1>7, SettingsOf
<1>4. /\ s.speed = dcb.speed /\ s.inSpeed = dcb.speed /\ s.outSpeed = dcb.speed
      /\ s.stopBits = dcb.stop /\ s.parity = dcb.parity /\ s.flowControls = FlowOfDCB(dcb)
  BY SettingsOfDCB
<1>5. /\ now.speed = new.speed /\ now.inSpeed = new.speed /\ now.outSpeed = new.speed
      /\ now.stopBits = new.stop /\ now.parity = new.parity /\ now.flowControls = FlowOfDCB(new)
  BY SettingsOfDCB
<1>. HIDE DEF s, now
<1>6. Untouched(ask, s, now)
  BY <1>1, <1>2, <1>3, <1>4, <1>5, UntouchedItems
<1>. QED BY <1>6 DEF s, now, new

\* Flags that are in no other group survive the replacement of one.
LEMMA ReplacedFacts ==
  ASSUME NEW flags, NEW arg, NEW mask, NEW bits \in SUBSET mask
  PROVE  /\ arg = {} => Replaced(flags, arg, mask, bits) = flags
         /\ \A x : x \notin mask => (x \in Replaced(flags, arg, mask, bits) <=> x \in flags)
BY DEF Replaced

\* setParams leaves the bits of a group that it has no argument for.
LEMMA GroupsKept ==
  ASSUME NEW ask, IsAsk(ask), NEW flags
  PROVE  LET new == ModifiedFlags(ask, flags) IN
         /\ ask.stopBits = {} => ("CSTOPB" \in new <=> "CSTOPB" \in flags)
         /\ ask.parity = {} => \A x \in ParityMask : x \in new <=> x \in flags
         /\ ask.flowControls = {} => \A x \in FlowMask : x \in new <=> x \in flags
<1>. DEFINE sb == UNION {StopBitsBits(x) : x \in ask.stopBits}
            pb == UNION {ParityBits(x) : x \in ask.parity}
            fb == UNION {FlowBits(x) : x \in ask.flowControls}
            stop == Replaced(flags, ask.stopBits, {"CSTOPB"}, sb)
            par == Replaced(stop, ask.parity, ParityMask, pb)
            flow == Replaced(par, ask.flowControls, FlowMask, fb)
<1>1. sb \in SUBSET {"CSTOPB"}
  BY DEF StopBitsBits
<1>2. pb \in SUBSET ParityMask
  <2>1. \A p \in Parity : ParityBits(p) \subseteq ParityMask
    BY DEF Parity, ParityBits, ParityMask
  <2>. QED BY <2>1, AskFields
<1>3. fb \in SUBSET FlowMask
  BY DEF FlowBits, FlowMask
<1>4. ModifiedFlags(ask, flags) = flow
  BY DEF ModifiedFlags
<1>5. /\ "CSTOPB" \notin ParityMask /\ "CSTOPB" \notin FlowMask
      /\ \A x \in ParityMask : x # "CSTOPB" /\ x \notin FlowMask
      /\ \A x \in FlowMask : x # "CSTOPB" /\ x \notin ParityMask
  BY DEF ParityMask, FlowMask
<1>. HIDE DEF sb, pb, fb
<1>6. /\ ask.stopBits = {} => stop = flags
      /\ \A x : x # "CSTOPB" => (x \in stop <=> x \in flags)
  BY <1>1 DEF Replaced
<1>. HIDE DEF stop
<1>7. /\ ask.parity = {} => par = stop
      /\ \A x : x \notin ParityMask => (x \in par <=> x \in stop)
  BY <1>2, ReplacedFacts
<1>. HIDE DEF par
<1>8. /\ ask.flowControls = {} => flow = par
      /\ \A x : x \notin FlowMask => (x \in flow <=> x \in par)
  BY <1>3, ReplacedFacts
<1>. HIDE DEF flow
<1>9. ask.stopBits = {} => ("CSTOPB" \in flow <=> "CSTOPB" \in flags)
  BY <1>5, <1>6, <1>7, <1>8
<1>10. ask.parity = {} => \A x \in ParityMask : x \in flow <=> x \in flags
  BY <1>5, <1>6, <1>7, <1>8
<1>11. ask.flowControls = {} => \A x \in FlowMask : x \in flow <=> x \in flags
  BY <1>5, <1>6, <1>7, <1>8
<1>. QED BY <1>4, <1>9, <1>10, <1>11

\* What setParameters is about to write, to a device that it has read, leaves the others.
LEMMA ParamsUntouched ==
  ASSUME NEW ask, IsAsk(ask), NEW d \in Devices, NEW ln, NEW ct,
         NEW after \in LinesAfter(d, Kept(d, Changed(ask, d)), ln)
  PROVE  Untouched(ask, Settings(d, ln, ct), Settings(Kept(d, Changed(ask, d)), after, ct))
<1>. DEFINE mod == Changed(ask, d)
<1>0. after \in LinesAfter(d, Kept(d, mod), ln)
  OBVIOUS
<1>1. mod \in Devices
  BY ChangedTyped
<1>2. CASE platform = "termios"
  <2>1. d \in Termios /\ mod \in Termios
    BY <1>1, <1>2 DEF Devices
  <2>2. /\ mod.flags = ModifiedFlags(ask, d.flags)
        /\ ask.dataBits = {} => mod.size = d.size
        /\ ask.speed = {} => mod.ispeed = d.ispeed /\ mod.ospeed = d.ospeed
        /\ mod.vstart = d.vstart /\ mod.vstop = d.vstop
    <3>1. PICK i, o, size, flags :
            /\ i = Chosen(ask.speed, d.ispeed) /\ o = Chosen(ask.speed, d.ospeed)
            /\ size = Chosen(ask.dataBits, d.size) /\ flags = ModifiedFlags(ask, d.flags)
      OBVIOUS
    <3>2. mod = [d EXCEPT !.ispeed = i, !.ospeed = o, !.size = size, !.flags = flags]
      BY <1>2, <2>1, <3>1 DEF Changed, Modified, Termios
    <3>. HIDE DEF mod
    <3>. QED BY <2>1, <3>1, <3>2 DEF Termios, Chosen
  <2>3. /\ ask.stopBits = {} => ("CSTOPB" \in mod.flags <=> "CSTOPB" \in d.flags)
        /\ ask.parity = {} => \A x \in ParityMask : x \in mod.flags <=> x \in d.flags
        /\ ask.flowControls = {} => \A x \in FlowMask : x \in mod.flags <=> x \in d.flags
    BY <2>2, GroupsKept
  <2>. HIDE DEF mod
  <2>4. Untouched(ask, Settings(d, ln, ct), Settings(Kept(d, mod), after, ct))
    BY <1>0, <1>2, <2>1, <2>2, <2>3, TermiosUntouched
  <2>. QED BY <2>4 DEF mod
<1>3. CASE platform # "termios"
  <2>1. d \in DCB /\ mod \in DCB
    BY <1>1, <1>3 DEF Devices
  <2>. DEFINE one == ModifiedSize(ask, d)
              two == [one EXCEPT !.stop = Chosen(ask.stopBits, @), !.parity = Chosen(ask.parity, @)]
              names == {"speed", "size", "stop", "parity", "rts", "cts", "inX", "outX", "vstart", "vstop"}
  <2>2. /\ DOMAIN one = names
        /\ ask.speed = {} => one.speed = d.speed
        /\ ask.dataBits = {} => one.size = d.size /\ one.stop = d.stop
        /\ one.stop = d.stop \/ {one.stop, d.stop} = {"SB_1_5", "SB_2"}
        /\ one.parity = d.parity
        /\ one.rts = d.rts /\ one.cts = d.cts /\ one.inX = d.inX /\ one.outX = d.outX
        /\ one.vstart = d.vstart /\ one.vstop = d.vstop
    <3>1. DOMAIN d = names
      BY <2>1 DEF DCB
    <3>2. ASSUME NEW size, NEW stop PROVE \/ FixedStopBits(size, stop) = stop
                                          \/ {FixedStopBits(size, stop), stop} = {"SB_1_5", "SB_2"}
      BY DEF FixedStopBits
    <3>3. one.stop = IF ask.dataBits = {} THEN d.stop ELSE FixedStopBits(Chosen(ask.dataBits, d.size), d.stop)
      BY <3>1 DEF ModifiedSize
    <3>4. one.stop = d.stop \/ {one.stop, d.stop} = {"SB_1_5", "SB_2"}
      BY <3>2, <3>3
    <3>. QED BY <3>1, <3>3, <3>4 DEF ModifiedSize, Chosen
  <2>. HIDE DEF one
  <2>3. /\ DOMAIN two = names
        /\ two.speed = one.speed /\ two.size = one.size
        /\ ask.stopBits = {} => two.stop = one.stop
        /\ ask.parity = {} => two.parity = one.parity
        /\ two.rts = one.rts /\ two.cts = one.cts /\ two.inX = one.inX /\ two.outX = one.outX
        /\ two.vstart = one.vstart /\ two.vstop = one.vstop
    BY <2>2 DEF Chosen
  <2>4. mod = ModifiedFlow(ask, two)
    BY <1>3 DEF Changed, ModifiedDCB, one
  <2>. HIDE DEF two
  <2>5. /\ mod.speed = two.speed /\ mod.size = two.size /\ mod.stop = two.stop /\ mod.parity = two.parity
        /\ mod.vstart = two.vstart /\ mod.vstop = two.vstop
        /\ ask.flowControls = {} => mod = two
    <3>. HIDE DEF mod
    <3>. QED BY <2>3, <2>4 DEF ModifiedFlow
  <2>. HIDE DEF mod
  <2>6. ask.stopBits = {} => \/ mod.stop = d.stop
                             \/ ask.dataBits # {} /\ {mod.stop, d.stop} = {"SB_1_5", "SB_2"}
    BY <2>2, <2>3, <2>5
  <2>7. ask.flowControls = {} =>
          mod.rts = d.rts /\ mod.cts = d.cts /\ mod.inX = d.inX /\ mod.outX = d.outX
    BY <2>2, <2>3, <2>5
  <2>8. Untouched(ask, Settings(d, ln, ct), Settings(Kept(d, mod), after, ct))
    BY <1>0, <1>3, <2>1, <2>2, <2>3, <2>5, <2>6, <2>7, DCBUntouched
  <2>. QED BY <2>8 DEF mod
<1>. QED BY <1>2, <1>3

\* The separate speeds and the chars.
LEMMA SpeedUntouched ==
  ASSUME platform = "termios", NEW ask, IsAsk(ask), NEW d \in Termios, NEW ln, NEW ct,
         NEW new, new = [d EXCEPT !.ispeed = Chosen(ask.inSpeed, @), !.ospeed = Chosen(ask.outSpeed, @)],
         NEW after \in LinesAfter(d, Kept(d, new), ln)
  PROVE  Untouched(ask, Settings(d, ln, ct), Settings(Kept(d, new), after, ct))
<1>1. d.ispeed \in Speeds /\ d.ospeed \in Speeds
  BY DEF Termios
<1>2. Chosen(ask.inSpeed, d.ispeed) \in Speeds /\ Chosen(ask.outSpeed, d.ospeed) \in Speeds
  BY <1>1, AskFields, ChosenIn
<1>3. new = [d EXCEPT !.ispeed = Chosen(ask.inSpeed, d.ispeed), !.ospeed = Chosen(ask.outSpeed, d.ospeed)]
  BY DEF Termios
<1>4. new \in Termios
  BY <1>2, <1>3, SpeedTyped
<1>5. /\ new.flags = d.flags /\ new.size = d.size /\ new.vstart = d.vstart /\ new.vstop = d.vstop
      /\ ask.inSpeed = {} => new.ispeed = d.ispeed
      /\ ask.outSpeed = {} => new.ospeed = d.ospeed
  BY <1>3 DEF Termios, Chosen
<1>. QED BY <1>4, <1>5, TermiosUntouched

LEMMA ByteKept == ASSUME NEW c \in 0..255 PROVE ToByte(c) = c
BY DEF ToByte

LEMMA CharsUntouched ==
  ASSUME NEW ask, IsAsk(ask), NEW d \in Devices, NEW ln, NEW ct,
         NEW new, new = [d EXCEPT !.vstart = ToByte(Chosen(ask.xon, @)), !.vstop = ToByte(Chosen(ask.xoff, @))],
         NEW after \in LinesAfter(d, Kept(d, new), ln)
  PROVE  Untouched(ask, Settings(d, ln, ct), Settings(Kept(d, new), after, ct))
<1>1. d.vstart \in 0..255 /\ d.vstop \in 0..255 /\ {"vstart", "vstop"} \subseteq DOMAIN d
  BY DEF Devices, Termios, DCB
<1>. DEFINE start == ToByte(Chosen(ask.xon, d.vstart))
            stop  == ToByte(Chosen(ask.xoff, d.vstop))
<1>2. start \in 0..255 /\ stop \in 0..255
  <2>1. ask.xon \subseteq Nat /\ ask.xoff \subseteq Nat
    BY AskFields, JcharNat
  <2>2. d.vstart \in Nat /\ d.vstop \in Nat
    BY <1>1
  <2>. QED BY <2>1, <2>2, ChosenIn, ByteTyped
<1>3. /\ ask.xon = {} => start = d.vstart
      /\ ask.xoff = {} => stop = d.vstop
  BY <1>1, ByteKept DEF Chosen
<1>4. new = [d EXCEPT !.vstart = start, !.vstop = stop]
  BY <1>1
<1>. HIDE DEF start, stop
<1>5. new \in Devices
  <2>1. [d EXCEPT !.vstart = start, !.vstop = stop] \in Devices
    BY <1>2, CharsTyped
  <2>. QED BY <1>4, <2>1
<1>6. new.vstart = start /\ new.vstop = stop
  BY <1>1, <1>4
<1>7. CASE platform = "termios"
  <2>1. d \in Termios /\ new \in Termios
    BY <1>5, <1>7 DEF Devices
  <2>2. /\ new.flags = d.flags /\ new.size = d.size
        /\ new.ispeed = d.ispeed /\ new.ospeed = d.ospeed
    BY <1>4, <2>1 DEF Termios
  <2>. QED BY <1>3, <1>6, <1>7, <2>1, <2>2, TermiosUntouched
<1>8. CASE platform # "termios"
  <2>1. d \in DCB /\ new \in DCB
    BY <1>5, <1>8 DEF Devices
  <2>2. /\ new.speed = d.speed /\ new.size = d.size /\ new.stop = d.stop /\ new.parity = d.parity
        /\ new.rts = d.rts /\ new.cts = d.cts /\ new.inX = d.inX /\ new.outX = d.outX
    BY <1>4, <2>1 DEF DCB
  <2>. QED BY <1>3, <1>6, <1>8, <2>1, <2>2, DCBUntouched
<1>. QED BY <1>7, <1>8

\* One modem line, the timeouts.
LEMMA LinesUntouched ==
  ASSUME NEW ask, NEW line \in Lines, ask[line] # {}, NEW ln, NEW new, NEW d, NEW ct,
         \A l \in Lines \ {line} : l \in new <=> l \in ln
  PROVE  Untouched(ask, Settings(d, ln, ct), Settings(d, new, ct))
<1>. DEFINE s   == Settings(d, ln, ct)
            now == Settings(d, new, ct)
<1>1. \A l \in Lines \ {line} : (l \in new) = (l \in ln)
  OBVIOUS
<1>2. \A l \in Lines : s[l] = (l \in ln) /\ now[l] = (l \in new)
  BY LineOfSettings
<1>3. now.timeouts = s.timeouts /\ now.dataBits = s.dataBits /\ now.xon = s.xon /\ now.xoff = s.xoff
  BY SettingsOf
<1>4. /\ now.speed = s.speed /\ now.inSpeed = s.inSpeed /\ now.outSpeed = s.outSpeed
      /\ now.stopBits = s.stopBits /\ now.parity = s.parity /\ now.flowControls = s.flowControls
  BY SettingsOfTermios, SettingsOfDCB
<1>. HIDE DEF s, now
<1>5. \A l \in Lines \ {line} : now[l] = s[l]
  BY <1>1, <1>2
<1>6. ask.RTS = {} => now.RTS = s.RTS
  BY <1>5 DEF Lines
<1>7. ask.DTR = {} => now.DTR = s.DTR
  BY <1>5 DEF Lines
<1>8. Untouched(ask, s, now)
  BY <1>3, <1>4, <1>6, <1>7, UntouchedItems
<1>. QED BY <1>8 DEF s, now

LEMMA TimeoutsUntouched ==
  ASSUME NEW ask, ask.timeouts # {}, NEW d, NEW ln, NEW ct, NEW ct2
  PROVE  Untouched(ask, Settings(d, ln, ct), Settings(d, ln, ct2))
<1>. DEFINE s   == Settings(d, ln, ct)
            now == Settings(d, ln, ct2)
<1>1. /\ now.dataBits = s.dataBits /\ now.xon = s.xon /\ now.xoff = s.xoff
      /\ now.RTS = s.RTS /\ now.DTR = s.DTR
  BY SettingsOf
<1>2. /\ now.speed = s.speed /\ now.inSpeed = s.inSpeed /\ now.outSpeed = s.outSpeed
      /\ now.stopBits = s.stopBits /\ now.parity = s.parity /\ now.flowControls = s.flowControls
  BY SettingsOfTermios, SettingsOfDCB
<1>. HIDE DEF s, now
<1>3. Untouched(ask, s, now)
  BY <1>1, <1>2, UntouchedItems
<1>. QED BY <1>3 DEF s, now

\* One modem line that the driver changes in one call.
LEMMA AskedLinesUntouched ==
  ASSUME NEW ask, NEW line \in Lines, ask[line] # {}, \A l \in Lines \ {line} : ask[l] = {},
         NEW d, NEW ln, NEW ct
  PROVE  Untouched(ask, Settings(d, ln, ct),
                   Settings(d, (ln \ {l \in Lines : FALSE \in ask[l]}) \cup {l \in Lines : TRUE \in ask[l]}, ct))
<1>. DEFINE off == {l \in Lines : FALSE \in ask[l]}
            on  == {l \in Lines : TRUE \in ask[l]}
<1>1. \A l \in Lines \ {line} : l \notin off /\ l \notin on
  OBVIOUS
<1>. HIDE DEF off, on
<1>2. \A l \in Lines \ {line} : l \in (ln \ off) \cup on <=> l \in ln
  BY <1>1
<1>. DEFINE new == (ln \ off) \cup on
<1>. HIDE DEF new
<1>3. \A l \in Lines \ {line} : l \in new <=> l \in ln
  BY <1>2 DEF new
<1>4. Untouched(ask, Settings(d, ln, ct), Settings(d, new, ct))
  BY <1>3, LinesUntouched
<1>. QED BY <1>4 DEF new, off, on

\* What is about to be made of the settings when d is the draft of t.
LEMMA NextSettings ==
  ASSUME UNCHANGED <<platform, driver>>, NEW t \in Threads, NEW d, draft'[t] = d,
         Op(t)' = Op(t), Ask(t)' = Ask(t)
  PROVE  /\ Settings(device, lines, timeouts)' = Settings(device, lines, timeouts)
         /\ NewSettings(t)' = MadeOf(t, d)
<1>1. platform' = platform /\ device' = device /\ lines' = lines /\ timeouts' = timeouts
  BY DEF driver
<1>2. Settings(device, lines, timeouts)' = Settings(device, lines, timeouts)
  BY <1>1 DEF Settings
<1>3. CASE Op(t) \in LineOps
  <2>. DEFINE ln == IF platform = "termios" THEN draft[t]
                    ELSE (lines \ {l \in Lines : FALSE \in Ask(t)[l]}) \cup {l \in Lines : TRUE \in Ask(t)[l]}
              made == IF platform = "termios" THEN d
                      ELSE (lines \ {l \in Lines : FALSE \in Ask(t)[l]}) \cup {l \in Lines : TRUE \in Ask(t)[l]}
  <2>1. ln' = made
    BY <1>1
  <2>2. NewSettings(t)' = {Settings(device, ln, timeouts)'}
    BY <1>3 DEF NewSettings, MadeOf, LineOps
  <2>3. MadeOf(t, d) = {Settings(device, made, timeouts)}
    BY <1>3 DEF MadeOf, LineOps
  <2>. HIDE DEF ln, made
  <2>4. Settings(device, ln, timeouts)' = Settings(device, made, timeouts)
    BY <1>1, <2>1 DEF Settings
  <2>. QED BY <1>2, <2>2, <2>3, <2>4
<1>4. CASE Op(t) = "setTimeouts"
  <2>1. NewSettings(t)' = {Settings(device, lines, d)}
    BY <1>1, <1>4 DEF NewSettings, MadeOf, Settings, LineOps
  <2>2. MadeOf(t, d) = {Settings(device, lines, d)}
    BY <1>4 DEF MadeOf, LineOps
  <2>. QED BY <1>2, <2>1, <2>2
<1>5. CASE Op(t) \notin LineOps \cup {"setTimeouts"}
  <2>1. Kept(device, draft[t])' = Kept(device, d)
    BY <1>1 DEF Kept
  <2>2. LinesAfter(device, Kept(device, draft[t]), lines)' = LinesAfter(device, Kept(device, d), lines)
    <3>1. RtsAfter(device, Kept(device, draft[t]), "RTS" \in lines)'
            = RtsAfter(device, Kept(device, d), "RTS" \in lines)
      BY <1>1, <2>1 DEF RtsAfter
    <3>. QED BY <1>1, <3>1 DEF LinesAfter
  <2>3. \A ln : Settings(Kept(device, draft[t]), ln, timeouts)' = Settings(Kept(device, d), ln, timeouts)
    BY <1>1, <2>1 DEF Settings
  <2>4. NewSettings(t)' = {Settings(Kept(device, draft[t]), ln, timeouts)' :
                             ln \in LinesAfter(device, Kept(device, draft[t]), lines)'}
    BY <1>5 DEF NewSettings, MadeOf
  <2>5. MadeOf(t, d) = {Settings(Kept(device, d), ln, timeouts) :
                          ln \in LinesAfter(device, Kept(device, d), lines)}
    BY <1>5 DEF MadeOf
  <2>. QED BY <1>2, <2>2, <2>3, <2>4, <2>5
<1>. QED BY <1>3, <1>4, <1>5

LEMMA SettingsKept ==
  ASSUME UNCHANGED <<platform, driver>>, NEW t \in Threads, draft'[t] = draft[t],
         Op(t)' = Op(t), Ask(t)' = Ask(t)
  PROVE  /\ Settings(device, lines, timeouts)' = Settings(device, lines, timeouts)
         /\ NewSettings(t)' = NewSettings(t)
BY NextSettings DEF NewSettings

\* The settings, and what is about to be made of them, once a draft is ready.
LEMMA DraftMade ==
  ASSUME ShapeInv, DraftShape, NEW t \in Threads, NEW d, NEW label, Draft(t, d, label)
  PROVE  /\ Settings(device, lines, timeouts)' = Settings(device, lines, timeouts)
         /\ Op(t) \in LineOps =>
              NewSettings(t)' = {Settings(device, IF platform = "termios" THEN d
                                                  ELSE (lines \ {l \in Lines : FALSE \in Ask(t)[l]})
                                                       \cup {l \in Lines : TRUE \in Ask(t)[l]}, timeouts)}
         /\ Op(t) = "setTimeouts" => NewSettings(t)' = {Settings(device, lines, d)}
         /\ Op(t) \notin LineOps \cup {"setTimeouts"}
              => NewSettings(t)' = {Settings(Kept(device, d), ln, timeouts) :
                                      ln \in LinesAfter(device, Kept(device, d), lines)}
<1>1. draft'[t] = d /\ Op(t)' = Op(t) /\ Ask(t)' = Ask(t) /\ UNCHANGED <<platform, driver>>
  BY DEF ShapeInv, DraftShape, Draft, Op, Ask
<1>2. /\ Settings(device, lines, timeouts)' = Settings(device, lines, timeouts)
      /\ NewSettings(t)' = MadeOf(t, d)
  BY <1>1, NextSettings
<1>3. /\ Op(t) \in LineOps =>
           MadeOf(t, d) = {Settings(device, IF platform = "termios" THEN d
                                            ELSE (lines \ {l \in Lines : FALSE \in Ask(t)[l]})
                                                 \cup {l \in Lines : TRUE \in Ask(t)[l]}, timeouts)}
      /\ Op(t) = "setTimeouts" => MadeOf(t, d) = {Settings(device, lines, d)}
  BY DEF MadeOf, LineOps
<1>4. Op(t) \notin LineOps \cup {"setTimeouts"}
        => MadeOf(t, d) = {Settings(Kept(device, d), ln, timeouts) :
                             ln \in LinesAfter(device, Kept(device, d), lines)}
  BY DEF MadeOf
<1>. QED BY <1>2, <1>3, <1>4

\* When a call goes on to write, it has prepared what leaves the others alone.
LEMMA PreparedQuiet ==
  ASSUME ShapeInv, DraftShape, HistoryShape, NEW t \in Threads, Quiet(t), At(t, "read"), Steps(t),
         NEW d, NEW label \in {"loadWrite", "write"}, Draft(t, d, label),
         file = "port" =>
           \A after \in NewSettings(t)' : Untouched(Ask(t), Settings(device, lines, timeouts), after)
  PROVE  Quiet(t)'
<1>1. /\ pc'[t] = label /\ pc[t] = "read" /\ \A u \in Threads \ {t} : pc'[u] = pc[u]
      /\ Op(t)' = Op(t) /\ Ask(t)' = Ask(t) /\ file' = file /\ before' = before
  BY OthersKept DEF ShapeInv, At, Draft, Goto, Others, Op, Ask, socket
<1>2. Settings(device, lines, timeouts)' = Settings(device, lines, timeouts)
  BY DraftMade
<1>. QED BY <1>1, <1>2 DEF Quiet

\* A call that has ended has no history.
LEMMA FinishQuiet ==
  ASSUME HistoryShape, NEW t \in Threads, NEW r, Finish(t, r)
  PROVE  Quiet(t)'
<1>1. before'[t] = {}
  BY DEF HistoryShape, Finish
<1>. QED BY <1>1 DEF Quiet

\* A call of a thread that has a history begins when the others rest; what the driver does
\* to a modem line in one call is known from its start.
LEMMA CallQuiet ==
  ASSUME ShapeInv, HistoryShape, NEW t \in Threads, Call(t)
  PROVE  Quiet(t)'
<1>1. PICK r \in Requests :
        /\ request' = [request EXCEPT ![t] = r]
        /\ Goto(t, IF platform = "windows" /\ r.op \in LineOps THEN "write" ELSE "read")
  BY DEF Call
<1>2. /\ Op(t)' = r.op /\ Ask(t)' = r.ask /\ r.op \in Ops
      /\ pc'[t] \in {"read", "write"} /\ \A u \in Threads \ {t} : pc'[u] = pc[u]
      /\ pc'[t] = "write" => platform = "windows" /\ r.op \in LineOps
  BY <1>1, NativeAssumption DEF ShapeInv, Op, Ask, Goto
<1>3. platform' = platform /\ device' = device /\ lines' = lines /\ timeouts' = timeouts
  BY DEF Call, driver
<1>4. Settings(device, lines, timeouts)' = Settings(device, lines, timeouts)
  BY <1>3 DEF Settings
<1>5. \/ before'[t] = {}
      \/ /\ before'[t] = {Settings(device, lines, timeouts)}
         /\ \A u \in Threads \ {t} : pc[u] \in Resting
  BY DEF Call, Resting
<1>6. ASSUME pc'[t] = "write"
      PROVE  \A after \in NewSettings(t)' : Untouched(Ask(t)', Settings(device, lines, timeouts), after)
  <2>. DEFINE line == IF r.op = "setRTS" THEN "RTS" ELSE "DTR"
  <2>1. platform = "windows" /\ r.op \in LineOps
    BY <1>2, <1>6
  <2>2. r.op \in DOMAIN ItemOf /\ ItemOf[r.op] = line /\ line \in Lines
    BY <2>1 DEF ItemOf, LineOps, Lines
  <2>3. \A i \in Items : r.ask[i] # {} <=> i = line
    BY <2>2, NativeAssumption
  <2>. HIDE DEF line
  <2>4. r.ask[line] # {} /\ \A l \in Lines \ {line} : r.ask[l] = {}
    BY <2>2, <2>3 DEF Lines, Items
  <2>5. NewSettings(t)' = {Settings(device, (lines \ {l \in Lines : FALSE \in r.ask[l]})
                                            \cup {l \in Lines : TRUE \in r.ask[l]}, timeouts)}
    <3>1. NewSettings(t)' = {Settings(device, (lines \ {l \in Lines : FALSE \in Ask(t)'[l]})
                                              \cup {l \in Lines : TRUE \in Ask(t)'[l]}, timeouts)}
      BY <1>2, <1>3, <2>1 DEF NewSettings, MadeOf, Settings, LineOps
    <3>. QED BY <1>2, <3>1
  <2>6. Untouched(r.ask, Settings(device, lines, timeouts),
                  Settings(device, (lines \ {l \in Lines : FALSE \in r.ask[l]})
                                   \cup {l \in Lines : TRUE \in r.ask[l]}, timeouts))
    BY <2>2, <2>4, AskedLinesUntouched
  <2>. QED BY <1>2, <2>5, <2>6
<1>. QED BY <1>2, <1>4, <1>5, <1>6 DEF Quiet

\* A step of a thread other than a call keeps or ends its history.
LEMMA HistoryKept ==
  ASSUME HistoryShape, NEW t \in Threads, Steps(t), ~ Call(t)
  PROVE  before'[t] \in {before[t], {}}
<1>1. ASSUME NEW r, Finish(t, r) PROVE before'[t] = {}
  BY <1>1 DEF HistoryShape, Finish
<1>2. ASSUME NEW r, Fail(t, r) PROVE before'[t] = {}
  BY <1>1, <1>2 DEF Fail
<1>3. ASSUME NEW d, NEW label, Draft(t, d, label) PROVE before'[t] = before[t]
  BY <1>3 DEF Draft
<1>4. ASSUME NEW d, Apply(t, d) PROVE before'[t] \in {before[t], {}}
  BY <1>2, <1>3, <1>4 DEF Apply
<1>5. CASE Open(t) \/ Closing(t) \/ Load(t) \/ Return(t)
  BY <1>5 DEF Open, Closing, Mark, Release, CancelFails, Load, Return
<1>6. CASE Attributes(t) \/ ReadParams(t)
  BY <1>2, <1>3, <1>4, <1>6 DEF Attributes, ReadParams
<1>7. CASE FlushDevice(t) \/ CreateEvents(t)
  BY <1>1, <1>2, <1>3, <1>7 DEF FlushDevice, CreateEvents
<1>8. CASE ReadFails(t) \/ WriteFails(t) \/ VerifyFails(t)
  <2>1. \E r : Fail(t, r)
    BY <1>8, Zenon DEF ReadFails, WriteFails, VerifyFails
  <2>. QED BY <1>2, <2>1
<1>9. CASE ReadSpeed(t) \/ ReadTimeouts(t) \/ ReadChars(t) \/ ReadLines(t)
  <2>1. (\E r : Fail(t, r)) \/ \E d, label : Draft(t, d, label)
    BY <1>9, Zenon DEF ReadSpeed, ReadTimeouts, ReadChars, ReadLines
  <2>. QED BY <1>2, <1>3, <2>1
<1>10. CASE ReadOnly(t)
  BY <1>1, <1>10 DEF ReadOnly
<1>11. CASE Write(t)
  BY <1>1, <1>11 DEF Write
<1>12. CASE Verify(t)
  <2>1. (\E r : Fail(t, r)) \/ (\E d, label : Draft(t, d, label)) \/ \E r : Finish(t, r)
    BY <1>12, Zenon DEF Verify, Accept
  <2>. QED BY <1>1, <1>2, <1>3, <2>1
<1>. QED BY <1>5, <1>6, <1>7, <1>8, <1>9, <1>10, <1>11, <1>12 DEF Steps, Opening, Setting, Reading

\* No call is possible before open.
LEMMA OpenIsFirst ==
  ASSUME PhaseInv, NEW t \in Threads, NEW u \in Threads, Op(u) \in Ops
  PROVE  ~ Open(t)
BY DEF PhaseInv, Phase, Open

\* A setter has read the port, if its number is the port's, and prepares what leaves the others.
LEMMA ReadingQuiet ==
  ASSUME PhaseInv, TypeInv, HistoryShape, NEW t \in Threads, Quiet(t), Reading(t)
  PROVE  Quiet(t)'
<1>0. /\ ShapeInv /\ DraftShape /\ PortType /\ IsAsk(Ask(t)) /\ device \in Devices
      /\ At(t, "read") /\ Steps(t)
  <2>1. ShapeInv /\ DraftShape /\ PortType /\ device \in Devices
    BY DEF PhaseInv, TypeInv, PortType
  <2>2. At(t, "read")
    BY DEF Reading, ReadFails, ReadParams, ReadSpeed, ReadChars, ReadLines, ReadTimeouts, ReadOnly
  <2>3. Steps(t)
    BY DEF Steps, Setting
  <2>. QED BY <2>1, <2>2, <2>3, AskFacts
<1>1. ASSUME NEW r, Finish(t, r) PROVE Quiet(t)'
  BY <1>1, FinishQuiet
<1>2. ASSUME NEW r, Fail(t, r) PROVE Quiet(t)'
  BY <1>1, <1>2 DEF Fail
<1>3. ASSUME NEW d \in Found(t), file = "port" PROVE d = device
  BY <1>0, <1>3, FoundTyped
<1>. DEFINE now == Settings(device, lines, timeouts)
<1>4. ASSUME NEW d, NEW label \in {"loadWrite", "write"}, Draft(t, d, label),
             file = "port" => \A after \in NewSettings(t)' : Untouched(Ask(t), now, after)
      PROVE  Quiet(t)'
  BY <1>0, <1>4, PreparedQuiet
<1>. HIDE DEF now
<1>5. CASE ReadFails(t)
  <2>1. \E r : Fail(t, r)
    BY <1>5, Zenon DEF ReadFails
  <2>. QED BY <1>2, <2>1
<1>6. CASE ReadParams(t)
  <2>1. PICK d \in Found(t) : Apply(t, d)
    BY <1>6 DEF ReadParams
  <2>2. CASE Draft(t, Changed(Ask(t), d), "loadWrite")
    <3>1. Op(t) \notin LineOps \cup {"setTimeouts"}
      BY <1>6 DEF ReadParams, LineOps
    <3>2. NewSettings(t)' = {Settings(Kept(device, Changed(Ask(t), d)), ln, timeouts) :
                               ln \in LinesAfter(device, Kept(device, Changed(Ask(t), d)), lines)}
      BY <1>0, <2>2, <3>1, DraftMade
    <3>3. \A ln \in LinesAfter(device, Kept(device, Changed(Ask(t), device)), lines) :
            Untouched(Ask(t), now, Settings(Kept(device, Changed(Ask(t), device)), ln, timeouts))
      BY <1>0, ParamsUntouched DEF now
    <3>4. file = "port" => \A after \in NewSettings(t)' : Untouched(Ask(t), now, after)
      BY <1>3, <3>2, <3>3
    <3>. QED BY <1>4, <2>2, <3>4
  <2>. QED BY <1>2, <2>1, <2>2 DEF Apply
<1>7. CASE ReadSpeed(t)
  <2>1. PICK d \in Found(t) :
          \/ Fail(t, "rejected")
          \/ \E new : /\ new = [d EXCEPT !.ispeed = Chosen(Ask(t).inSpeed, @),
                                         !.ospeed = Chosen(Ask(t).outSpeed, @)]
                      /\ Draft(t, new, "write")
    BY <1>7 DEF ReadSpeed
  <2>2. ASSUME NEW new, Draft(t, new, "write"),
               new = [d EXCEPT !.ispeed = Chosen(Ask(t).inSpeed, @), !.ospeed = Chosen(Ask(t).outSpeed, @)]
        PROVE  Quiet(t)'
    <3>1. Op(t) \in SpeedOps
      BY <1>7 DEF ReadSpeed
    <3>2. Op(t) \notin LineOps \cup {"setTimeouts"} /\ platform = "termios"
      BY <3>1 DEF SpeedOps, LineOps, TypeInv, Frame, OpsOf, TermiosOnly
    <3>3. Draft(t, new, "write")
      BY <2>2
    <3>4. NewSettings(t)' = {Settings(Kept(device, new), ln, timeouts) :
                                ln \in LinesAfter(device, Kept(device, new), lines)}
      BY <1>0, <3>2, <3>3, DraftMade
    <3>5. CASE file = "port"
      <4>1. d = device /\ device \in Termios
        BY <1>0, <1>3, <3>2, <3>5 DEF Devices
      <4>2. new = [device EXCEPT !.ispeed = Chosen(Ask(t).inSpeed, @), !.ospeed = Chosen(Ask(t).outSpeed, @)]
        BY <2>2, <4>1
      <4>3. \A ln \in LinesAfter(device, Kept(device, new), lines) :
              Untouched(Ask(t), now, Settings(Kept(device, new), ln, timeouts))
        BY <1>0, <3>2, <4>1, <4>2, SpeedUntouched DEF now
      <4>. QED BY <1>4, <3>3, <3>4, <4>3
    <3>. QED BY <1>4, <3>3, <3>5
  <2>. QED BY <1>2, <2>1, <2>2
<1>8. CASE ReadChars(t)
  <2>1. PICK d \in Found(t) :
          \E new : /\ new = [d EXCEPT !.vstart = ToByte(Chosen(Ask(t).xon, @)),
                                      !.vstop  = ToByte(Chosen(Ask(t).xoff, @))]
                   /\ Draft(t, new, "write")
    BY <1>8 DEF ReadChars
  <2>2. PICK new : /\ new = [d EXCEPT !.vstart = ToByte(Chosen(Ask(t).xon, @)),
                                      !.vstop  = ToByte(Chosen(Ask(t).xoff, @))]
                   /\ Draft(t, new, "write")
    BY <2>1
  <2>3. Draft(t, new, "write")
    BY <2>2
  <2>4. Op(t) \notin LineOps \cup {"setTimeouts"}
    BY <1>8 DEF ReadChars, CharOps, LineOps
  <2>5. NewSettings(t)' = {Settings(Kept(device, new), ln, timeouts) :
                                ln \in LinesAfter(device, Kept(device, new), lines)}
    BY <1>0, <2>3, <2>4, DraftMade
  <2>6. CASE file = "port"
    <3>1. d = device
      BY <1>3, <2>6
    <3>2. new = [device EXCEPT !.vstart = ToByte(Chosen(Ask(t).xon, @)), !.vstop = ToByte(Chosen(Ask(t).xoff, @))]
      BY <2>2, <3>1
    <3>3. \A ln \in LinesAfter(device, Kept(device, new), lines) :
              Untouched(Ask(t), now, Settings(Kept(device, new), ln, timeouts))
      BY <1>0, <3>2, CharsUntouched DEF now
    <3>. QED BY <1>4, <2>3, <2>5, <3>3
  <2>. QED BY <1>4, <2>3, <2>6
<1>9. CASE ReadLines(t)
  <2>. DEFINE line == IF Op(t) = "setRTS" THEN "RTS" ELSE "DTR"
  <2>1. /\ Op(t) \in LineOps
        /\ \E old : /\ file = "port" => old = lines
                    /\ \E new : /\ new = IF TRUE \in Ask(t)[line] THEN old \cup {line} ELSE old \ {line}
                                /\ Draft(t, new, "write")
    BY <1>9 DEF ReadLines, Named
  <2>2. line \in Lines
    BY DEF Lines
  <2>3. /\ Ask(t)[line] # {} /\ \A l \in Lines \ {line} : Ask(t)[l] = {}
    <3>1. /\ Ask(t)[line] = {TRUE} \/ Ask(t)[line] = {FALSE}
          /\ \A i \in Items \ {line} : Ask(t)[i] = {}
      BY <1>0, <2>1, LineAsk
    <3>2. Lines \subseteq Items
      BY DEF Lines, Items
    <3>. HIDE DEF line
    <3>. QED BY <3>1, <3>2
  <2>. HIDE DEF line
  <2>4. PICK old : /\ file = "port" => old = lines
                   /\ \E new : /\ new = IF TRUE \in Ask(t)[line] THEN old \cup {line} ELSE old \ {line}
                               /\ Draft(t, new, "write")
    BY <2>1
  <2>5. PICK new : /\ new = IF TRUE \in Ask(t)[line] THEN old \cup {line} ELSE old \ {line}
                   /\ Draft(t, new, "write")
    BY <2>4
  <2>6. Draft(t, new, "write")
    BY <2>5
  <2>7. CASE platform = "termios"
    <3>1. NewSettings(t)' = {Settings(device, new, timeouts)}
      BY <1>0, <2>1, <2>6, <2>7, DraftMade
    <3>2. \A l \in Lines \ {line} : l \in new <=> l \in old
      BY <2>5
    <3>3. CASE file = "port"
      <4>1. Untouched(Ask(t), now, Settings(device, new, timeouts))
        BY <2>2, <2>3, <2>4, <3>2, <3>3, LinesUntouched DEF now
      <4>. QED BY <1>4, <2>6, <3>1, <4>1
    <3>. QED BY <1>4, <2>6, <3>3
  <2>8. CASE platform # "termios"
    <3>1. NewSettings(t)' = {Settings(device, (lines \ {l \in Lines : FALSE \in Ask(t)[l]})
                                              \cup {l \in Lines : TRUE \in Ask(t)[l]}, timeouts)}
      BY <1>0, <2>1, <2>6, <2>8, DraftMade
    <3>2. Untouched(Ask(t), now, Settings(device, (lines \ {l \in Lines : FALSE \in Ask(t)[l]})
                                                  \cup {l \in Lines : TRUE \in Ask(t)[l]}, timeouts))
      BY <2>2, <2>3, AskedLinesUntouched DEF now
    <3>. QED BY <1>4, <2>6, <3>1, <3>2
  <2>. QED BY <2>7, <2>8
<1>10. CASE ReadTimeouts(t)
  <2>1. Op(t) = "setTimeouts"
    BY <1>10 DEF ReadTimeouts
  <2>2. (\E r : Fail(t, r)) \/ \E d : Draft(t, d, "write")
    BY <1>10, Zenon DEF ReadTimeouts
  <2>3. ASSUME NEW d, Draft(t, d, "write") PROVE Quiet(t)'
    <3>1. NewSettings(t)' = {Settings(device, lines, d)}
      BY <1>0, <2>1, <2>3, DraftMade
    <3>2. Op(t) \in DOMAIN ItemOf /\ ItemOf[Op(t)] = "timeouts"
      BY <2>1 DEF ItemOf
    <3>3. \E a : Ask(t)["timeouts"] = {a}
      BY <1>0, <3>2, OneItem
    <3>4. Ask(t).timeouts # {}
      BY <3>3
    <3>5. Untouched(Ask(t), now, Settings(device, lines, d))
      BY <3>4, TimeoutsUntouched DEF now
    <3>. QED BY <1>4, <2>3, <3>1, <3>5
  <2>. QED BY <1>2, <2>2, <2>3
<1>11. CASE ReadOnly(t)
  BY <1>1, <1>11 DEF ReadOnly
<1>. QED BY <1>5, <1>6, <1>7, <1>8, <1>9, <1>10, <1>11 DEF Reading

LEMMA SettingsNext ==
  ASSUME platform' = platform
  PROVE  Settings(device, lines, timeouts)' = Settings(device', lines', timeouts')
BY DEF Settings

\* The call that the driver has taken differs from before as its draft made it differ.
LEMMA WriteQuiet ==
  ASSUME PhaseInv, HistoryShape, NEW t \in Threads, Quiet(t), Write(t), before[t] # {}
  PROVE  /\ Quiet(t)'
         /\ \A s \in before[t] : Untouched(Ask(t), s, Settings(device', lines', timeouts'))
<1>1. /\ ShapeInv /\ pc[t] = "write" /\ Op(t) # "open" /\ platform' = platform
      /\ \A s \in before[t] : s = Settings(device, lines, timeouts)
  BY OpsApart DEF PhaseInv, Write, At, Quiet
<1>2. \A s \in before[t] : Untouched(Ask(t), s, Settings(device', lines', timeouts'))
  <2>1. CASE UNCHANGED driver
    <3>1. \A s \in before[t] : s = Settings(device', lines', timeouts')
      BY <1>1, <2>1 DEF driver
    <3>. QED BY <3>1, UntouchedItself
  <2>2. CASE file = "port" /\ Written(t)
    <3>1. Settings(device', lines', timeouts') \in NewSettings(t)
      <4>1. CASE Op(t) \in LineOps
        <5>1. Op(t) # "setTimeouts"
          BY <4>1 DEF LineOps
        <5>. QED BY <2>2, <4>1, <5>1 DEF Written, NewSettings, MadeOf
      <4>2. CASE Op(t) = "setTimeouts"
        BY <2>2, <4>2 DEF Written, NewSettings, MadeOf, LineOps
      <4>3. CASE Op(t) \notin LineOps \cup {"setTimeouts"}
        BY <2>2, <4>3 DEF Written, NewSettings, MadeOf
      <4>. QED BY <4>1, <4>2, <4>3
    <3>. QED BY <1>1, <2>2, <3>1 DEF Quiet
  <2>. QED BY <2>1, <2>2 DEF Write, Named
<1>3. CASE Finish(t, "ok")
  BY <1>2, <1>3, FinishQuiet
<1>4. CASE /\ Goto(t, AfterWrite(t)) /\ AfterWrite(t) # "return"
           /\ UNCHANGED <<request, before>>
  <2>1. AfterWrite(t) \in {"loadVerify", "verify"}
    BY <1>1, <1>4 DEF AfterWrite
  <2>2. /\ pc'[t] \in {"loadVerify", "verify"} /\ \A u \in Threads \ {t} : pc'[u] = pc[u]
        /\ Op(t)' = Op(t) /\ Ask(t)' = Ask(t) /\ before' = before
    BY <1>1, <1>4, <2>1 DEF ShapeInv, Goto, Op, Ask
  <2>3. Settings(device, lines, timeouts)' = Settings(device', lines', timeouts')
    BY <1>1, SettingsNext
  <2>. QED BY <1>2, <2>2, <2>3 DEF Quiet
<1>. QED BY <1>2, <1>3, <1>4 DEF Write

\* A thread keeps its own.
LEMMA QuietOfItself ==
  ASSUME PhaseInv, TypeInv, HistoryShape, NEW t \in Threads, Quiet(t), Steps(t)
  PROVE  Quiet(t)'
<1>0. ShapeInv
  BY DEF PhaseInv
<1>1. ASSUME NEW r, Finish(t, r) PROVE Quiet(t)'
  BY <1>1, FinishQuiet
<1>2. ASSUME NEW r, Fail(t, r) PROVE Quiet(t)'
  BY <1>1, <1>2 DEF Fail
<1>3. CASE Call(t)
  BY <1>0, <1>3, CallQuiet
<1>4. CASE before[t] = {} /\ ~ Call(t)
  <2>1. before'[t] = {}
    BY <1>4, HistoryKept
  <2>. QED BY <2>1 DEF Quiet
<1>5. CASE before[t] # {} /\ ~ Call(t)
  <2>1. /\ pc[t] \in {"read", "loadWrite", "write", "loadVerify", "verify"}
        /\ Op(t) \in Ops /\ Op(t) # "open"
    BY <1>5, OpsApart DEF Quiet
  <2>2. ~ Opening(t) /\ ~ Closing(t) /\ ~ Return(t)
    <3>1. ~ Open(t)
      BY <2>1, OpenIsFirst
    <3>. QED BY <2>1, <3>1
         DEF Opening, Attributes, FlushDevice, CreateEvents, Closing, Mark, Release, CancelFails, Return, At
  <2>3. CASE Load(t)
    <3>1. /\ \/ pc[t] = "loadWrite" /\ pc'[t] = "write"
             \/ pc[t] = "loadVerify" /\ pc'[t] = "verify"
          /\ \A u \in Threads \ {t} : pc'[u] = pc[u]
          /\ Op(t)' = Op(t) /\ Ask(t)' = Ask(t) /\ before' = before /\ file' = file
      BY <1>0, <2>3 DEF Load, At, Goto, ShapeInv, Op, Ask, socket
    <3>2. /\ Settings(device, lines, timeouts)' = Settings(device, lines, timeouts)
          /\ NewSettings(t)' = NewSettings(t)
      BY <2>3, <3>1, SettingsKept DEF Load
    <3>. QED BY <1>5, <3>1, <3>2 DEF Quiet
  <2>4. CASE Reading(t)
    BY <2>4, ReadingQuiet
  <2>5. CASE Write(t)
    BY <1>5, <2>5, WriteQuiet
  <2>6. CASE WriteFails(t) \/ VerifyFails(t)
    <3>1. \E r : Fail(t, r)
      BY <2>6, Zenon DEF WriteFails, VerifyFails
    <3>. QED BY <1>2, <3>1
  <2>7. CASE Verify(t)
    BY <1>1, <1>2, <2>1, <2>7 DEF Verify, Accept
  <2>. QED BY <1>5, <2>2, <2>3, <2>4, <2>5, <2>6, <2>7 DEF Steps, Setting
<1>. QED BY <1>3, <1>4, <1>5

\* The others keep it: they rest, or begin a call and end the history.
LEMMA QuietOfOthers ==
  ASSUME PhaseInv, TypeInv, HistoryShape, NEW t \in Threads, Steps(t),
         NEW u \in Threads \ {t}, Quiet(u)
  PROVE  Quiet(u)'
<1>1. Others(t) /\ ShapeInv
  BY OthersKept DEF PhaseInv, TypeInv
<1>2. CASE before'[u] = {}
  BY <1>2 DEF Quiet
<1>3. CASE before'[u] # {}
  <2>1. before[u] # {} /\ before'[u] = before[u] /\ pc[t] \in Resting /\ Op(u) \in Ops
    BY <1>1, <1>3 DEF Others, Quiet
  <2>2. ~ Call(t) /\ ~ Open(t)
    BY <1>3, <2>1, OpenIsFirst DEF Call
  <2>3. Return(t) \/ Closing(t)
    BY <2>1, <2>2
       DEF Steps, Opening, Attributes, FlushDevice, CreateEvents, Setting, Load, Reading, ReadFails,
           ReadParams, ReadSpeed, ReadChars, ReadOnly, ReadLines, ReadTimeouts, Write, WriteFails,
           Verify, VerifyFails, At, Resting
  <2>4. UNCHANGED driver /\ file' \in {file, "free"} /\ pc'[t] \in Resting
    BY <1>1, <2>1, <2>3
       DEF Return, Closing, Mark, Release, CancelFails, socket, Goto, ShapeInv, Resting
  <2>5. /\ pc'[u] = pc[u] /\ Op(u)' = Op(u) /\ Ask(u)' = Ask(u) /\ draft'[u] = draft[u]
        /\ \A v \in Threads \ {t} : pc'[v] = pc[v]
        /\ platform' = platform
    BY <1>1 DEF Others, Op, Ask
  <2>6. \A v \in Threads \ {u} : pc'[v] \in Resting
    BY <2>1, <2>4, <2>5 DEF Quiet
  <2>7. /\ Settings(device, lines, timeouts)' = Settings(device, lines, timeouts)
        /\ NewSettings(u)' = NewSettings(u)
    BY <2>4, <2>5, SettingsKept
  <2>. QED BY <2>1, <2>4, <2>5, <2>6, <2>7 DEF Quiet
<1>. QED BY <1>2, <1>3

LEMMA NextQuiet ==
  ASSUME PhaseInv, TypeInv, HistoryShape, QuietInv, [Next]_vars
  PROVE  QuietInv'
<1>1. CASE UNCHANGED <<platform, driver, frame, before>> /\ (file' = "port" => file = "port")
  <2>1. ASSUME NEW t \in Threads PROVE Quiet(t)'
    <3>1. /\ Settings(device, lines, timeouts)' = Settings(device, lines, timeouts)
          /\ NewSettings(t)' = NewSettings(t)
      BY <1>1, SettingsKept DEF frame, Op, Ask
    <3>. QED BY <1>1, <3>1 DEF QuietInv, Quiet, frame, Op, Ask
  <2>. QED BY <2>1 DEF QuietInv
<1>2. ASSUME NEW t \in Threads, Steps(t) PROVE QuietInv'
  BY <1>2, QuietOfItself, QuietOfOthers DEF QuietInv
<1>3. CASE UNCHANGED vars \/ ReuseNumber
  BY <1>1, <1>3 DEF vars, ReuseNumber, socket
<1>. QED BY <1>2, <1>3 DEF Next, Steps

\* How a call that no other overlapped ends.
LEMMA EndsUntouched ==
  ASSUME PhaseInv, TypeInv, HistoryShape, NEW t \in Threads, Quiet(t), Steps(t), Ends(t),
         NEW s \in before[t]
  PROVE  LET now == Settings(device', lines', timeouts')
         IN  now = s \/ (Untouched(Ask(t), s, now) /\ result'[t] # "rejected")
<1>0. /\ ShapeInv /\ before[t] # {} /\ Op(t) \in Ops /\ Op(t) # "open"
      /\ pc[t] \in {"read", "loadWrite", "write", "loadVerify", "verify"}
  BY OpsApart DEF PhaseInv, Quiet
<1>1. ASSUME NEW r, Finish(t, r) PROVE result'[t] = r
  BY <1>0, <1>1 DEF Finish, ShapeInv
<1>2. ASSUME NEW label, label # "return", Goto(t, label) PROVE FALSE
  BY <1>0, <1>2 DEF ShapeInv, Ends, Goto
<1>3. CASE Write(t)
  <2>1. Finish(t, "ok")
    BY <1>2, <1>3 DEF Write
  <2>2. result'[t] = "ok"
    BY <1>1, <2>1
  <2>. QED BY <1>0, <1>3, <2>2, WriteQuiet
<1>4. CASE ~ Write(t)
  <2>1. UNCHANGED driver
    BY <1>0, <1>4, DriverKept DEF FlushDevice, At
  <2>2. CASE pc[t] \in {"read", "loadWrite", "write"}
    BY <2>1, <2>2 DEF Quiet, driver
  <2>3. CASE pc[t] \in {"loadVerify", "verify"}
    <3>1. Untouched(Ask(t), s, Settings(device', lines', timeouts'))
      BY <2>1, <2>3 DEF Quiet, driver
    <3>2. ~ Open(t)
      BY <1>0, OpenIsFirst
    <3>3. Load(t) \/ Verify(t) \/ VerifyFails(t)
      BY <2>3, <3>2 DEF Steps, Opening, Attributes, FlushDevice, CreateEvents, Setting, Call, Reading,
            ReadFails, ReadParams, ReadSpeed, ReadChars, ReadOnly, ReadLines, ReadTimeouts, Write,
            WriteFails, Return, Closing, Mark, Release, CancelFails, At
    <3>4. ~ Load(t)
      BY <1>2 DEF Load
    <3>5. CASE Verify(t)
      <4>1. Finish(t, "notSet") \/ Finish(t, "nativeError") \/ Finish(t, "ok")
        BY <1>0, <3>5 DEF Verify, Accept, Fail
      <4>. QED BY <1>1, <3>1, <4>1
    <3>6. CASE VerifyFails(t)
      <4>1. Finish(t, throw_ClosedOrNativeException(t))
        BY <3>6 DEF VerifyFails, Fail
      <4>2. throw_ClosedOrNativeException(t) # "rejected"
        BY DEF throw_ClosedOrNativeException
      <4>. QED BY <1>1, <3>1, <4>1, <4>2
    <3>. QED BY <3>3, <3>4, <3>5, <3>6
  <2>. QED BY <1>0, <2>2, <2>3
<1>. QED BY <1>3, <1>4

LEMMA QuietKept == Spec => []QuietInv
<1>1. Init => QuietInv
  BY DEF Init, QuietInv, Quiet
<1>2. PhaseInv /\ TypeInv /\ HistoryShape /\ QuietInv /\ [Next]_vars => QuietInv'
  BY NextQuiet
<1>. QED BY <1>1, <1>2, NativePhases, TypesKept, PTL DEF Spec

\* A setter of either library that no other call overlaps changes nothing but what it was
\* asked for, whatever the driver ignores and however the call ends, and nothing at all if
\* its arguments are rejected; new data bits turn 2 stop bits into 1.5 and back, and a flow
\* control takes the RTS line along.
THEOREM NativeOthersAreUntouched == Spec => OthersUntouched
<1>. DEFINE Left ==
       \A t \in Threads : \A s \in before[t] :
         LET now == Settings(device', lines', timeouts') IN
         Ends(t) =>
           \A i \in Items :
             \/ now[i] = s[i]
             \/ Concerns(Ask(t), i) /\ result'[t] # "rejected"
             \/ /\ i = "stopBits" /\ Ask(t).dataBits # {} /\ result'[t] # "rejected"
                /\ {now[i], s[i]} = {"SB_1_5", "SB_2"}
<1>1. ASSUME PhaseInv, TypeInv, HistoryShape, QuietInv, [Next]_vars PROVE [Left]_vars
  <2>. SUFFICES ASSUME Next, NEW t \in Threads, NEW s \in before[t], Ends(t)
                PROVE  LET now == Settings(device', lines', timeouts') IN
                       \A i \in Items :
                         \/ now[i] = s[i]
                         \/ Concerns(Ask(t), i) /\ result'[t] # "rejected"
                         \/ /\ i = "stopBits" /\ Ask(t).dataBits # {} /\ result'[t] # "rejected"
                            /\ {now[i], s[i]} = {"SB_1_5", "SB_2"}
    BY <1>1
  <2>. DEFINE now == Settings(device', lines', timeouts')
  <2>1. Steps(t)
    BY <1>1, EndsItself DEF PhaseInv, TypeInv
  <2>2. now = s \/ (Untouched(Ask(t), s, now) /\ result'[t] # "rejected")
    BY <1>1, <2>1, EndsUntouched DEF QuietInv
  <2>. HIDE DEF now
  <2>3. \A i \in Items :
          \/ now[i] = s[i]
          \/ Concerns(Ask(t), i) /\ result'[t] # "rejected"
          \/ /\ i = "stopBits" /\ Ask(t).dataBits # {} /\ result'[t] # "rejected"
             /\ {now[i], s[i]} = {"SB_1_5", "SB_2"}
    BY <2>2 DEF Untouched
  <2>. QED BY <2>3 DEF now
<1>2. PhaseInv /\ TypeInv /\ HistoryShape /\ QuietInv /\ [Next]_vars => [Left]_vars
  BY <1>1
<1>. HIDE DEF Left
<1>3. Spec => [][Left]_vars
  BY <1>2, NativePhases, TypesKept, QuietKept, PTL DEF Spec
<1>. QED BY <1>3 DEF OthersUntouched, Left
==============================================================================
