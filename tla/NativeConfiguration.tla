------------------------ MODULE NativeConfiguration ------------------------
(***************************************************************************)
(* The line settings of the JNI provider: open0, close0 and the setters    *)
(* and getters of the two native libraries, TermiosCommon.c and            *)
(* TermiosSettings.c on POSIX, WinApiCommon.c and WinApiSettings.c on      *)
(* Windows.                                                                *)
(*                                                                         *)
(* fd is a volatile field.  A native function copies it before a system    *)
(* call, setParams and getParams each copy it for themselves; no monitor   *)
(* is held, and a close may come between any two of these steps.           *)
(***************************************************************************)
EXTENDS FiniteSets, TermiosSettings, WinApiSettings

CONSTANTS Threads,
          Platforms,  \* the libraries to look at
          Requests,   \* the calls the threads make on an open port
          OpenAsks,   \* the settings that open is called with
          Previous    \* Previous[p]: what another program may have left in a terminal

Items == {"speed", "inSpeed", "outSpeed", "dataBits", "stopBits", "parity", "flowControls",
          "xon", "xoff", "RTS", "DTR", "timeouts"}
NoAsk == [i \in Items |-> {}]

ParamOps    == {"setParameters", "open"}
SpeedOps    == {"setInSpeed", "setOutSpeed"}
CharOps     == {"setXONChar", "setXOFFChar"}
LineOps     == {"setRTS", "setDTR"}
Getters     == {"getParameters", "getXONChar", "getLineStatus"}
TermiosOnly == SpeedOps
WindowsOnly == {"setTimeouts", "getTimeouts"}
Ops == {"setParameters"} \cup SpeedOps \cup CharOps \cup LineOps \cup Getters \cup WindowsOnly

VARIABLES platform,
          fd,       \* the field fd of the socket: a file number or a HANDLE
          file,     \* what that number names
          stage,    \* how far the socket is
          device,   \* of the port, kept by the driver: a termios or a DCB
          lines, timeouts,  \* the modem lines and the COMMTIMEOUTS of the port
          pc, request, result,
          number,   \* the copy of fd that a thread's next system call is given
          draft,    \* what a thread is about to write
          before    \* history: the settings when the call began, as long as no other overlaps

driver == <<device, lines, timeouts>>
socket == <<fd, file, stage>>
frame  == <<pc, request, result, number, draft>>
vars   == <<platform, socket, driver, frame, before>>

Lines     == {"RTS", "DTR"}
NoDraft   == {}
NoRequest == [op |-> "none", ask |-> NoAsk]
OpenRequests == [op : {"open"}, ask : OpenAsks]

OpsOf(p) == Ops \ (IF p = "termios" THEN WindowsOnly ELSE TermiosOnly)

------------------------------------------------------------------------------
(* The two libraries. *)

\* Faulty: the char is stored without the cast.
ToByteUncast(c) == c

\* (uint8_t) c, (int8_t) c: a char is cut to 8 bits, and read back unsigned.
ToByte(c) == c % 256

Rejected(ask, d) == IF platform = "termios" THEN Rejects(ask, d) ELSE RejectsDCB(ask, d)
Changed(ask, d)  == IF platform = "termios" THEN Modified(ask, d) ELSE ModifiedDCB(ask, d)
Kept(old, new)   == IF platform = "termios" THEN Accepted(old, new) ELSE AcceptedDCB(old, new)

\* The RTS line follows its control when that changes: cleared, set, or left to the driver.
RtsAfter(old, new, rts) ==
  {r \in BOOLEAN :
     IF platform = "termios"
     THEN ("CRTSCTS" \in old.flags <=> "CRTSCTS" \in new.flags) => r = rts
     ELSE IF new.rts = old.rts THEN r = rts
     ELSE (new.rts = "DISABLE" => ~ r) /\ (new.rts = "ENABLE" => r)}

LinesAfter(old, new, ln) ==
  {(ln \ {"RTS"}) \cup (IF rts THEN {"RTS"} ELSE {}) : rts \in RtsAfter(old, new, "RTS" \in ln)}

\* getParams throws when no one constant stands for the speed: an IOException of its own
\* for the two speeds of a terminal, without a look at fd, else an IllegalArgumentException.
Unreadable(d) == IF platform = "termios" THEN getSpeed(d) = "mismatch" ELSE d.speed = "unlisted"
Misread       == IF platform = "termios" THEN "nativeError" ELSE "rejected"

Settings(d, ln, ct) ==
  LET termios == platform = "termios" IN
  [speed        |-> IF termios THEN getSpeed(d) ELSE d.speed,
   inSpeed      |-> IF termios THEN d.ispeed ELSE d.speed,
   outSpeed     |-> IF termios THEN d.ospeed ELSE d.speed,
   dataBits     |-> d.size,
   stopBits     |-> IF termios THEN getStopBits(d) ELSE d.stop,
   parity       |-> IF termios THEN getParity(d) ELSE d.parity,
   flowControls |-> IF termios THEN getFlowControl(d) ELSE FlowOfDCB(d),
   xon          |-> d.vstart,
   xoff         |-> d.vstop,
   RTS          |-> "RTS" \in ln,
   DTR          |-> "DTR" \in ln,
   timeouts     |-> TimeoutsOf(ct)]

InForce(ask, s) == \A i \in Items : ask[i] \subseteq {s[i]}

------------------------------------------------------------------------------
Termios == [flags : SUBSET Flags, size : DataBits, ispeed : Speeds, ospeed : Speeds,
            vstart : 0..255, vstop : 0..255]
Devices == IF platform = "termios" THEN Termios ELSE DCB

\* The item a setter of one item sets, and those of setParameters and open.
ItemOf == [setInSpeed |-> "inSpeed", setOutSpeed |-> "outSpeed", setXONChar |-> "xon",
           setXOFFChar |-> "xoff", setRTS |-> "RTS", setDTR |-> "DTR", setTimeouts |-> "timeouts"]
ParamItems == {"speed", "dataBits", "stopBits", "parity", "flowControls"}

Jchar == 0..65535
Jint  == (-MaxInt - 1)..MaxInt

\* The arguments have their types.
IsAsk(ask) ==
  /\ DOMAIN ask = Items
  /\ ask.speed \subseteq Speeds /\ ask.inSpeed \subseteq Speeds /\ ask.outSpeed \subseteq Speeds
  /\ ask.dataBits \subseteq DataBits
  /\ ask.stopBits \subseteq StopBits
  /\ ask.parity \subseteq Parity
  /\ ask.flowControls \subseteq SUBSET FlowControl
  /\ ask.xon \subseteq Jchar /\ ask.xoff \subseteq Jchar
  /\ ask.RTS \subseteq BOOLEAN /\ ask.DTR \subseteq BOOLEAN
  /\ ask.timeouts \subseteq [1..3 -> Jint]
  /\ \A i \in Items : \A a, b \in ask[i] : a = b

ASSUME NativeAssumption ==
  /\ Platforms \subseteq {"termios", "windows"}
  /\ SpeedsOfOS \subseteq Speeds
  /\ "COOKED" \notin Stuck
  /\ \A p \in Platforms : Previous[p] \subseteq IF p = "termios" THEN Termios ELSE DCB
  /\ \A ask \in OpenAsks \cup {r.ask : r \in Requests} : IsAsk(ask)
  /\ \A ask \in OpenAsks : \A i \in Items \ ParamItems : ask[i] = {}
  /\ \A r \in Requests :
       /\ r.op \in Ops
       /\ r.op = "setParameters" => \A i \in Items \ ParamItems : r.ask[i] = {}
       /\ r.op \in DOMAIN ItemOf => \A i \in Items : r.ask[i] # {} <=> i = ItemOf[r.op]
       /\ r.op \in Getters \cup {"getTimeouts"} => r.ask = NoAsk

Results == {"none", "ok", "rejected", "notSet", "nativeError", "PORT_IS_CLOSED"}
Labels  == {"idle", "read", "loadWrite", "write", "loadVerify", "verify",
            "attributes", "flush", "events", "close", "return"}

At(t, label)   == pc[t] = label
Op(t)          == request[t].op
Ask(t)         == request[t].ask
Goto(t, label) == pc' = [pc EXCEPT ![t] = label]

TypeOK ==
  /\ platform \in Platforms
  /\ fd \in {"number", "INVALID_FD"}
  /\ file \in {"none", "port", "free", "other"}
  /\ stage \in {"new", "opening", "open", "failed", "closing", "notClosed"}
  /\ device \in Devices
  /\ lines \subseteq Lines
  /\ timeouts \in COMMTIMEOUTS
  /\ pc \in [Threads -> Labels]
  /\ request \in [Threads -> Requests \cup OpenRequests \cup {NoRequest}]
  /\ result \in [Threads -> Results]
  /\ number \in [Threads -> {"number", "INVALID_FD"}]
  /\ \A t \in Threads : At(t, "write") /\ Op(t) \in ParamOps \cup SpeedOps \cup CharOps
                          => draft[t] \in Devices

Init ==
  /\ platform \in Platforms
  /\ fd = "INVALID_FD"
  /\ file = "none"
  /\ stage = "new"
  /\ device \in Previous[platform]
  /\ lines = Lines
  /\ timeouts = OpenTimeouts
  /\ pc = [t \in Threads |-> "idle"]
  /\ request = [t \in Threads |-> NoRequest]
  /\ result = [t \in Threads |-> "none"]
  /\ number = [t \in Threads |-> "INVALID_FD"]
  /\ draft = [t \in Threads |-> NoDraft]
  /\ before = [t \in Threads |-> {}]

\* What a system call of t reaches, and the settings that it can find there.
Named(t) == IF number[t] = "INVALID_FD" THEN "free" ELSE file
Found(t) == CASE Named(t) = "port"  -> {device}
              [] Named(t) = "other" -> Previous[platform]
              [] OTHER              -> {}

\* Faulty: the copy of the number is looked at.
throw_ClosedOrNativeExceptionStale(t) ==
  IF number[t] = "INVALID_FD" THEN "PORT_IS_CLOSED" ELSE "nativeError"

\* throw_ClosedOrNativeException reads the field fd again.
throw_ClosedOrNativeException(t) ==
  IF fd = "INVALID_FD" THEN "PORT_IS_CLOSED" ELSE "nativeError"

\* The call is over and r is its outcome.
Finish(t, r) ==
  /\ Goto(t, "return")
  /\ result' = [result EXCEPT ![t] = r]
  /\ request' = [request EXCEPT ![t] = NoRequest]
  /\ draft' = [draft EXCEPT ![t] = NoDraft]
  /\ number' = [number EXCEPT ![t] = "INVALID_FD"]
  /\ before' = [before EXCEPT ![t] = {}]

\* A call that fails; open0 closes the file and resets the field.
Fail(t, r) ==
  /\ Finish(t, r)
  /\ IF Op(t) = "open" THEN /\ fd' = "INVALID_FD"
                            /\ file' = "free"
                            /\ stage' = "failed"
                       ELSE UNCHANGED socket
  /\ UNCHANGED <<platform, driver>>

\* The call goes on with the draft d.
Draft(t, d, label) ==
  /\ draft' = [draft EXCEPT ![t] = d]
  /\ Goto(t, label)
  /\ UNCHANGED <<platform, socket, driver, request, result, number, before>>

------------------------------------------------------------------------------
(* Opening the port, in the constructor: no other thread has the socket. *)

\* open(2), CreateFile.
Open(t) ==
  /\ stage = "new"
  /\ \E r \in OpenRequests :
       \/ /\ fd' = "number"
          /\ file' = "port"
          /\ stage' = "opening"
          /\ Goto(t, "attributes")
          /\ request' = [request EXCEPT ![t] = r]
          /\ UNCHANGED result
       \/ /\ stage' = "failed"
          /\ Goto(t, "return")
          /\ result' = [result EXCEPT ![t] = "nativeError"]
          /\ UNCHANGED <<fd, file, request>>
  /\ UNCHANGED <<platform, driver, number, draft, before>>

\* The modes open0 asks for: data are neither echoed, edited nor translated.
Raw(tm) == [tm EXCEPT !.flags = @ \ {"COOKED", "IXON", "PARENB"},
                      !.size  = "DB_8"]

\* setParams up to its system call: the arguments are checked as they are applied.
Apply(t, d) ==
  \/ Rejected(Ask(t), d) /\ Fail(t, "rejected")
  \/ ~ Rejected(Ask(t), d) /\ Draft(t, Changed(Ask(t), d), "loadWrite")

\* tcgetattr, TIOCEXCL and the raw mode; GetCommState.  Windows sets nothing
\* when nothing is asked for.
Attributes(t) ==
  /\ At(t, "attributes")
  /\ \/ Fail(t, "nativeError")
     \/ platform = "termios" /\ Apply(t, Raw(device))
     \/ platform = "windows" /\ Ask(t) # NoAsk /\ Apply(t, device)
     \/ platform = "windows" /\ Ask(t) = NoAsk /\ Draft(t, NoDraft, "flush")

\* Faulty: the handle stays open when the timeouts cannot be set.
FlushDeviceKeepsFile(t) ==
  /\ At(t, "flush")
  /\ Finish(t, "nativeError")
  /\ stage' = "failed"
  /\ fd' = "INVALID_FD"
  /\ UNCHANGED <<platform, file, driver>>

\* tcflush; GetCommTimeouts and SetCommTimeouts, with which Windows has opened the port.
FlushDevice(t) ==
  /\ At(t, "flush")
  /\ \/ Fail(t, "nativeError")
     \/ platform = "termios" /\ Draft(t, NoDraft, "events")
     \/ /\ platform = "windows"
        /\ stage' = "open"
        /\ timeouts' = OpenTimeouts
        /\ Finish(t, "ok")
        /\ UNCHANGED <<platform, fd, file, device, lines>>

\* eventfd or pipe; when it fails the file is closed and the field keeps its number,
\* in a socket that nobody will ever hold.
CreateEvents(t) ==
  /\ At(t, "events")
  /\ \/ Finish(t, "ok") /\ stage' = "open" /\ UNCHANGED file
     \/ Finish(t, "nativeError") /\ stage' = "failed" /\ file' = "free"
  /\ UNCHANGED <<platform, fd, driver>>

------------------------------------------------------------------------------
(* The calls on the socket. *)

\* A native function starts with a copy of fd; on Windows the driver changes a
\* modem line in one call.
Call(t) ==
  /\ At(t, "idle")
  /\ stage \in {"open", "closing", "notClosed"}
  /\ \E r \in Requests :
       /\ r.op \in OpsOf(platform)
       /\ request' = [request EXCEPT ![t] = r]
       /\ Goto(t, IF platform = "windows" /\ r.op \in LineOps THEN "write" ELSE "read")
  /\ number' = [number EXCEPT ![t] = fd]
  /\ before' = [u \in Threads |->
                  IF u = t /\ \A v \in Threads \ {t} : pc[v] \in {"idle", "return", "close"}
                  THEN {Settings(device, lines, timeouts)} ELSE {}]
  /\ UNCHANGED <<platform, socket, driver, result, draft>>

\* setParams and getParams take a copy of their own.
Load(t) ==
  /\ \/ At(t, "loadWrite") /\ Goto(t, "write")
     \/ At(t, "loadVerify") /\ Goto(t, "verify")
  /\ number' = [number EXCEPT ![t] = fd]
  /\ UNCHANGED <<platform, socket, driver, request, result, draft, before>>

\* tcgetattr, TIOCMGET, GetCommState, GetCommTimeouts or GetCommModemStatus fails.
ReadFails(t) ==
  /\ At(t, "read")
  /\ Fail(t, throw_ClosedOrNativeException(t))

\* setParameters.
ReadParams(t) ==
  /\ At(t, "read")
  /\ Op(t) = "setParameters"
  /\ \E d \in Found(t) : Apply(t, d)

\* setInSpeed0, setOutSpeed0.
ReadSpeed(t) ==
  /\ At(t, "read")
  /\ Op(t) \in SpeedOps
  /\ \E d \in Found(t) :
       IF NotDefined(Ask(t).inSpeed \cup Ask(t).outSpeed)
       THEN Fail(t, "rejected")
       ELSE Draft(t, [d EXCEPT !.ispeed = Chosen(Ask(t).inSpeed, @),
                               !.ospeed = Chosen(Ask(t).outSpeed, @)], "write")

\* setXONChar, setXOFFChar.
ReadChars(t) ==
  /\ At(t, "read")
  /\ Op(t) \in CharOps
  /\ \E d \in Found(t) :
       Draft(t, [d EXCEPT !.vstart = ToByte(Chosen(Ask(t).xon, @)),
                          !.vstop  = ToByte(Chosen(Ask(t).xoff, @))], "write")

\* setLineStatus: TIOCMGET, one bit changed.
ReadLines(t) ==
  /\ At(t, "read")
  /\ Op(t) \in LineOps
  /\ LET line == IF Op(t) = "setRTS" THEN "RTS" ELSE "DTR" IN
     \E old \in CASE Named(t) = "port" -> {lines} [] Named(t) = "other" -> SUBSET Lines [] OTHER -> {} :
       Draft(t, IF TRUE \in Ask(t)[line] THEN old \cup {line} ELSE old \ {line}, "write")

\* setTimeouts of the Windows library.
ReadTimeouts(t) ==
  /\ At(t, "read")
  /\ Op(t) = "setTimeouts"
  /\ Found(t) # {}
  /\ LET ask == Chosen(Ask(t).timeouts, <<0, 0, 0>>) IN
     IF RejectsTimeouts(ask) THEN Fail(t, "rejected")
                             ELSE Draft(t, CommTimeouts(ask), "write")

\* A getter returns.  getXONChar is for all that read one field, getLineStatus for all
\* that ask the driver; getParameters may ask for the speed or not.
ReadOnly(t) ==
  /\ At(t, "read")
  /\ Op(t) \in Getters \cup {"getTimeouts"}
  /\ \E d \in Found(t) :
       \/ Finish(t, "ok")
       \/ Op(t) = "getParameters" /\ Unreadable(d) /\ Finish(t, Misread)
  /\ UNCHANGED <<platform, socket, driver>>

\* Where a call goes when the driver has taken its draft.
AfterWrite(t) == CASE Op(t) \in ParamOps /\ Ask(t) # NoAsk -> "loadVerify"
                   [] Op(t) = "open" /\ Ask(t) = NoAsk    -> "flush"
                   [] Op(t) \in SpeedOps                 -> "verify"
                   [] OTHER                              -> "return"

Written(t) ==
  CASE Op(t) \in LineOps ->
         /\ lines' = IF platform = "termios" THEN draft[t]
                     ELSE (lines \ {l \in Lines : FALSE \in Ask(t)[l]})
                          \cup {l \in Lines : TRUE \in Ask(t)[l]}
         /\ UNCHANGED <<device, timeouts>>
    [] Op(t) = "setTimeouts" -> timeouts' = draft[t] /\ UNCHANGED <<device, lines>>
    [] OTHER ->
         /\ device' = Kept(device, draft[t])
         /\ lines' \in LinesAfter(device, Kept(device, draft[t]), lines)
         /\ UNCHANGED timeouts

\* tcsetattr, TIOCMSET, SetCommState, EscapeCommFunction or SetCommTimeouts; what it
\* does to another device changes nothing of this port.
Write(t) ==
  /\ At(t, "write")
  /\ Named(t) \in {"port", "other"}
  /\ IF Named(t) = "port" THEN Written(t) ELSE UNCHANGED driver
  /\ IF AfterWrite(t) = "return"
     THEN Finish(t, "ok")
     ELSE /\ Goto(t, AfterWrite(t))
          /\ draft' = [draft EXCEPT ![t] = NoDraft]
          /\ UNCHANGED <<request, result, number, before>>
  /\ UNCHANGED <<platform, socket>>

\* ERANGE and EINVAL, or ERROR_INVALID_PARAMETER and ERROR_GEN_FAILURE, become
\* an IllegalArgumentException.
NotAcceptable(t) ==
  /\ Named(t) # "free"
  /\ platform = "windows" \/ (Op(t) \in ParamOps \cup SpeedOps /\ Ask(t) # NoAsk)

WriteFails(t) ==
  /\ At(t, "write")
  /\ \/ Fail(t, throw_ClosedOrNativeException(t))
     \/ NotAcceptable(t) /\ Fail(t, "rejected")

\* setInSpeed0 and setOutSpeed0 both compare with the speed of the input.
InForceAsRead(t, d) ==
  IF Op(t) \in SpeedOps THEN Ask(t).inSpeed \cup Ask(t).outSpeed \subseteq {d.ispeed}
                        ELSE InForce(Ask(t), Settings(d, lines, timeouts))

\* The end of the settings: open0 has more to do.
Accept(t) == IF Op(t) = "open" THEN Draft(t, NoDraft, "flush")
                               ELSE Finish(t, "ok") /\ UNCHANGED <<platform, socket, driver>>

\* Faulty: what the driver made of the settings is not looked at.
VerifyTrusts(t) == At(t, "verify") /\ Accept(t)

\* The two speeds differ where getParams is to read back the one that was set.
Mismatch(t, d) ==
  platform = "termios" /\ Op(t) \in ParamOps /\ Ask(t).speed # {} /\ Unreadable(d)

\* getParams and the comparison with what was asked for; an unlisted rate is one more
\* IllegalArgumentException of a setting that was not made.
Verify(t) ==
  /\ At(t, "verify")
  /\ \E d \in Found(t) :
       \/ Mismatch(t, d) /\ Fail(t, "nativeError")
       \/ ~ Mismatch(t, d) /\ InForceAsRead(t, d) /\ Accept(t)
       \/ ~ Mismatch(t, d) /\ ~ InForceAsRead(t, d) /\ Fail(t, "notSet")

VerifyFails(t) ==
  /\ At(t, "verify")
  /\ Fail(t, throw_ClosedOrNativeException(t))

Return(t) ==
  /\ At(t, "return")
  /\ Goto(t, "idle")
  /\ result' = [result EXCEPT ![t] = "none"]
  /\ UNCHANGED <<platform, socket, driver, request, number, draft, before>>

------------------------------------------------------------------------------
(* implCloseChannel, seen from the settings, and the rest of the process. *)

\* close0 resets the field first.
Mark(t) ==
  /\ At(t, "idle")
  /\ stage = "open"
  /\ stage' = "closing"
  /\ fd' = "INVALID_FD"
  /\ Goto(t, "close")
  /\ UNCHANGED <<platform, file, driver, request, result, number, draft, before>>

\* close(2), CloseHandle.
Release(t) ==
  /\ At(t, "close")
  /\ file' = "free"
  /\ Goto(t, "idle")
  /\ UNCHANGED <<platform, fd, stage, driver, request, result, number, draft, before>>

\* CancelIo fails: the field is set again, although the channel is closed for good.
CancelFails(t) ==
  /\ At(t, "close")
  /\ platform = "windows"
  /\ stage' = "notClosed"
  /\ fd' = "number"
  /\ Goto(t, "idle")
  /\ UNCHANGED <<platform, file, driver, request, result, number, draft, before>>

ReuseNumber ==
  /\ file = "free"
  /\ stage = "closing"
  /\ file' = "other"
  /\ UNCHANGED <<platform, fd, stage, driver, frame, before>>

Opening(t) == Open(t) \/ Attributes(t) \/ FlushDevice(t) \/ CreateEvents(t)
Reading(t) == \/ ReadFails(t) \/ ReadParams(t) \/ ReadSpeed(t) \/ ReadChars(t)
              \/ ReadLines(t) \/ ReadTimeouts(t) \/ ReadOnly(t)
Setting(t) == \/ Call(t) \/ Load(t) \/ Reading(t) \/ Write(t) \/ WriteFails(t)
              \/ Verify(t) \/ VerifyFails(t) \/ Return(t)
Closing(t) == Mark(t) \/ Release(t) \/ CancelFails(t)

Next == (\E t \in Threads : Opening(t) \/ Setting(t) \/ Closing(t)) \/ ReuseNumber

Spec == Init /\ [][Next]_vars

------------------------------------------------------------------------------
(* Properties. *)

Ends(t) == pc[t] # "return" /\ pc'[t] = "return"

\* A setter, or open, that returns without an exception has set what it was asked for,
\* whatever other setters, and drivers that ignore a setting, did meanwhile.  A char
\* above 255 is not read back and setOutSpeed0 looks at the wrong speed: they are apart.
Promised(t) == /\ Op(t) # "setOutSpeed"
               /\ Ask(t).xon \cup Ask(t).xoff \subseteq 0..255

ReportedInForce ==
  [][\A t \in Threads :
       Ends(t) /\ result'[t] = "ok" /\ file = "port" /\ Promised(t)
       => InForce(Ask(t), Settings(device', lines', timeouts'))]_vars

\* A setter that no other overlapped leaves what it was not asked for as it was,
\* whether it succeeds or not, and everything if its arguments were rejected.
\* Changing the data bits turns 2 stop bits into 1.5 and back, no more, and the flow
\* control may take RTS, no other line.
Concerns(ask, i) == \/ ask[i] # {}
                    \/ i \in {"inSpeed", "outSpeed"} /\ ask.speed # {}
                    \/ i = "speed" /\ ask.inSpeed \cup ask.outSpeed # {}
                    \/ i = "RTS" /\ ask.flowControls # {}

OthersUntouched ==
  [][\A t \in Threads : \A s \in before[t] :
       LET now == Settings(device', lines', timeouts') IN
       Ends(t) =>
         \A i \in Items :
           \/ now[i] = s[i]
           \/ Concerns(Ask(t), i) /\ result'[t] # "rejected"
           \/ /\ i = "stopBits" /\ Ask(t).dataBits # {} /\ result'[t] # "rejected"
              /\ {now[i], s[i]} = {"SB_1_5", "SB_2"}]_vars

\* The DCB never holds 2 stop bits with 5 data bits, nor 1.5 with more, which no UART can
\* send, in whatever order setters change the one and the other, also when they overlap.
StopBitsFit ==
  platform = "windows" => device.stop = "SB_1" \/ (device.stop = "SB_1_5" <=> device.size = "DB_5")

\* When open0 fails, at any of its steps, nobody is left with the file.
FailedOpenClosesPort == stage = "failed" => file \in {"none", "free"}

\* Once close0 has reset the field a call gets a native error only for what it did read:
\* two different speeds, of this terminal or of one that has its number by now.  A call
\* that copied the field after the reset is told "closed" and nothing else.
ReadsTwoSpeeds(t) ==
  \E d \in Found(t) :
    \/ At(t, "read") /\ Op(t) = "getParameters" /\ platform = "termios" /\ Unreadable(d)
    \/ At(t, "verify") /\ Mismatch(t, d)

ClosedIsReported ==
  [][\A t \in Threads :
       Ends(t) /\ stage = "closing"
       => /\ result'[t] = "nativeError" => ReadsTwoSpeeds(t)
          /\ number[t] = "INVALID_FD" => result'[t] = "PORT_IS_CLOSED"]_vars
=============================================================================
