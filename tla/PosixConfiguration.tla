------------------------- MODULE PosixConfiguration -------------------------
(***************************************************************************)
(* The line settings of a POSIX port.  They are kept by the kernel, and    *)
(* every setter reads them, changes its copy and writes the whole copy     *)
(* back, without a lock: threads that set different things may undo each   *)
(* other's work.  fd is a plain field which implCloseChannel of the socket *)
(* invalidates (PosixSerialPortSocket) or does not (PosixAsync-).          *)
(*                                                                         *)
(* An argument is the set of what the caller passes: null is {}.           *)
(***************************************************************************)
EXTENDS Naturals, FiniteSets, TermiosSettings

CONSTANTS Threads,
          Requests,   \* the calls the threads make on an open port
          OpenAsks,   \* the settings that open is called with
          Previous,   \* what another program may have left in the terminal
          Detaches    \* implCloseChannel calls setFd(INVALID_FD)

Items == {"speed", "dataBits", "stopBits", "parity", "flowControls", "xon", "xoff", "RTS", "DTR"}
NoAsk == [speed |-> {}, dataBits |-> {}, stopBits |-> {}, parity |-> {}, flowControls |-> {},
          xon |-> {}, xoff |-> {}, RTS |-> {}, DTR |-> {}]
Lines == {"RTS", "DTR"}

LineOps == {"setRTS", "setDTR"}
Setters == {"setParams", "setXONChar", "setXOFFChar"} \cup LineOps
Ops     == Setters \cup {"setInSpeed", "setOutSpeed", "getSpeed", "getParity", "getLineStatus"}

VARIABLES fd,       \* PosixConfiguration.fd
          file,     \* what the port's file number names
          stage,    \* how far the socket is: new, opening, open, failed, closing
          knows,    \* the threads that the close has happened before
          termios, lines,            \* of the port, kept by the kernel
          pc, request, result,        \* of the threads
          draft, lineStatus, \* what a thread is about to write: a StructTermios, lineStatusRef
          before    \* history: the settings when the call began, as long as no other overlaps

kernel   == <<termios, lines>>
socket   == <<fd, file, stage, knows>>
locals   == <<draft, lineStatus>>
frame    == <<pc, request, locals, result>>
vars     == <<socket, kernel, frame, before>>

NoTermios == [flags |-> {}, size |-> "none", ispeed |-> "none", ospeed |-> "none",
              vstart |-> 0, vstop |-> 0]
NoRequest == [op |-> "none", ask |-> NoAsk]
OpenRequests == [op : {"open"}, ask : OpenAsks]

------------------------------------------------------------------------------
(* What the settings are read from. *)

\* Faulty: the char is stored without the cast.
ToByteUncast(c) == c

\* c_cc holds signed bytes: a char is cut to 8 bits and sign extended to 16.
ToByte(c) == c % 256
ToChar(b) == IF b < 128 THEN b ELSE b + 65280

Settings(tm, ln) ==
  [speed |-> getSpeed(tm), dataBits |-> tm.size, stopBits |-> getStopBits(tm),
   parity |-> getParity(tm), flowControls |-> getFlowControl(tm),
   xon |-> ToChar(tm.vstart), xoff |-> ToChar(tm.vstop),
   RTS |-> "RTS" \in ln, DTR |-> "DTR" \in ln]

InForce(ask, s) == \A i \in Items : ask[i] \subseteq {s[i]}

------------------------------------------------------------------------------
Byte == 0..255
Char == 0..65535

Termios == [flags : SUBSET Flags, size : DataBits, ispeed : Speeds, ospeed : Speeds,
            vstart : Byte, vstop : Byte]

IsAsk(ask) ==
  /\ ask.speed \subseteq Speeds
  /\ ask.dataBits \subseteq DataBits
  /\ ask.stopBits \subseteq StopBits
  /\ ask.parity \subseteq Parity
  /\ ask.flowControls \subseteq SUBSET FlowControl
  /\ ask.xon \subseteq Char /\ ask.xoff \subseteq Char
  /\ ask.RTS \subseteq BOOLEAN /\ ask.DTR \subseteq BOOLEAN
  /\ \A i \in Items : \A a, b \in ask[i] : a = b

\* The setters of one item have an argument for that item.
ItemOf == [setXONChar |-> "xon", setXOFFChar |-> "xoff", setRTS |-> "RTS", setDTR |-> "DTR"]

ASSUME ConfigurationAssumption ==
  /\ Previous \subseteq Termios
  /\ SpeedsOfOS \subseteq Speeds
  /\ Detaches \in BOOLEAN
  /\ "COOKED" \notin Stuck
  /\ \A r \in Requests : r.op \in Ops /\ IsAsk(r.ask)
  /\ \A ask \in OpenAsks : IsAsk(ask)
  /\ \A r \in Requests : r.op \in DOMAIN ItemOf =>
       \A i \in Items : r.ask[i] # {} <=> i = ItemOf[r.op]

Results == {"none", "ok", "rejected", "notAccepted", "notSet", "mismatch",
            "nativeError", "PORT_IS_CLOSED", "PORT_FD_INVALID"}
Labels  == {"idle", "read", "write", "verify", "attributes", "flush", "events",
            "close", "return"}

Idle(t)        == pc[t] = "idle"
At(t, label)   == pc[t] = label
Op(t)          == request[t].op
Ask(t)         == request[t].ask
Goto(t, label) == pc' = [pc EXCEPT ![t] = label]

PortType ==
  /\ fd \in {"number", "INVALID_FD"}
  /\ file \in {"none", "port", "free", "other"}
  /\ stage \in {"new", "opening", "open", "failed", "closing"}
  /\ knows \subseteq Threads
  /\ termios \in Termios
  /\ lines \subseteq Lines

FrameType ==
  /\ pc \in [Threads -> Labels]
  /\ request \in [Threads -> Requests \cup OpenRequests \cup {NoRequest}]
  /\ draft \in [Threads -> Termios \cup {NoTermios}]
  /\ \A t \in Threads : At(t, "write") /\ Op(t) \notin LineOps => draft[t] \in Termios
  /\ lineStatus \in [Threads -> SUBSET Lines]
  /\ result \in [Threads -> Results]

TypeOK == PortType /\ FrameType

Init ==
  /\ fd = "INVALID_FD"
  /\ file = "none"
  /\ stage = "new"
  /\ knows = {}
  /\ termios \in Previous
  /\ lines = {"RTS", "DTR"}
  /\ pc = [t \in Threads |-> "idle"]
  /\ request = [t \in Threads |-> NoRequest]
  /\ draft = [t \in Threads |-> NoTermios]
  /\ lineStatus = [t \in Threads |-> {}]
  /\ result = [t \in Threads |-> "none"]
  /\ before = [t \in Threads |-> {}]

\* fd is not volatile: who is not ordered after the close may still see the number.
Loads(t) == IF t \in knows THEN {fd} ELSE {fd, "number"}
Names(n) == IF n = "INVALID_FD" THEN "free" ELSE file
Named(t) == {Names(n) : n \in Loads(t)}

\* What tcgetattr can find: the port's settings, or those of another terminal
\* that was given the number.  It fails as well, whatever the number names.
Terminals(t) == (IF "port" \in Named(t) THEN {termios} ELSE {})
                \cup (IF "other" \in Named(t) THEN Previous ELSE {})

\* Faulty: the number is asked for before fd is looked at.
formatMsgAsksFirst(t) == {IF file = "free" THEN "PORT_FD_INVALID" ELSE "PORT_IS_CLOSED"}

\* formatMsg loads fd again, and asks fcntl about the number.
formatMsg(t) == {CASE n = "INVALID_FD" -> "PORT_IS_CLOSED"
                   [] n = "number" /\ file = "free" -> "PORT_FD_INVALID"
                   [] OTHER -> "nativeError" : n \in Loads(t)}

\* tcsetattr reports its own errors in setParams, without formatMsg.
WriteErrors(t) == IF Op(t) \in {"setParams", "open"} THEN {"notAccepted", "nativeError"}
                                                     ELSE formatMsg(t)

\* The call is over and result is its outcome.
Finish(t, r) ==
  /\ Goto(t, "return")
  /\ result' = [result EXCEPT ![t] = r]
  /\ request' = [request EXCEPT ![t] = NoRequest]
  /\ draft' = [draft EXCEPT ![t] = NoTermios]
  /\ lineStatus' = [lineStatus EXCEPT ![t] = {}]
  /\ before' = [before EXCEPT ![t] = {}]

\* A call that fails; open closes the file before it lets the exception go.
Fail(t, r) ==
  /\ Finish(t, r)
  /\ IF Op(t) = "open" THEN /\ fd' = "INVALID_FD"
                            /\ file' = "free"
                            /\ stage' = "failed"
                            /\ UNCHANGED knows
                       ELSE UNCHANGED socket
  /\ UNCHANGED kernel

------------------------------------------------------------------------------
(* Opening the port, in the constructor: no other thread has the socket. *)

\* Fcntl.open; nothing is there to be closed when it fails.
Open(t) ==
  /\ stage = "new"
  /\ \E r \in OpenRequests :
       \/ /\ fd' = "number"
          /\ file' = "port"
          /\ stage' = "opening"
          /\ Goto(t, "attributes")
          /\ request' = [request EXCEPT ![t] = r]
          /\ UNCHANGED result
       \/ /\ stage' = "failed"
          /\ Goto(t, "return")
          /\ result' = [result EXCEPT ![t] = "nativeError"]
          /\ UNCHANGED <<fd, file, request>>
  /\ UNCHANGED <<knows, kernel, locals, before>>

\* Faulty: only the parity is reset.
RawForgotten(tm) == [tm EXCEPT !.flags = @ \ {"PARENB"}, !.size = "DB_8"]

\* The modes open asks for: data are neither echoed, edited nor translated.
Raw(tm) == [tm EXCEPT !.flags = @ \ {"COOKED", "IXON", "PARENB"},
                      !.size  = "DB_8"]

\* setParams(termios, ...) up to tcsetattr: the arguments are checked as they are applied.
Apply(t, tm) ==
  \/ /\ Rejects(Ask(t), tm)
     /\ Fail(t, "rejected")
  \/ /\ ~ Rejects(Ask(t), tm)
     /\ draft' = [draft EXCEPT ![t] = Modified(Ask(t), tm)]
     /\ Goto(t, "write")
     /\ UNCHANGED <<socket, kernel, request, lineStatus, result, before>>

\* tcgetattr, TIOCEXCL and the raw mode.
Attributes(t) ==
  /\ At(t, "attributes")
  /\ \/ Apply(t, Raw(termios))
     \/ Fail(t, "nativeError")

\* Faulty: the exception leaves the file open.
FlushDeviceKeepsFile(t) ==
  /\ At(t, "flush")
  /\ \/ /\ Goto(t, "events")
        /\ UNCHANGED <<socket, kernel, request, locals, result, before>>
     \/ /\ Finish(t, "nativeError")
        /\ stage' = "failed"
        /\ UNCHANGED <<fd, file, knows, kernel>>

\* tcflush.
FlushDevice(t) ==
  /\ At(t, "flush")
  /\ \/ /\ Goto(t, "events")
        /\ UNCHANGED <<socket, kernel, request, locals, result, before>>
     \/ Fail(t, "nativeError")

\* The rest of the socket's open: the cancel events.  When they cannot be had,
\* only PosixSerialPortSocket tells the configuration that the file is closed.
CreateEvents(t) ==
  /\ At(t, "events")
  /\ \/ /\ stage' = "open"
        /\ Finish(t, "ok")
        /\ UNCHANGED <<fd, file, knows>>
     \/ /\ stage' = "failed"
        /\ file' = "free"
        /\ fd' = IF Detaches THEN "INVALID_FD" ELSE fd
        /\ Finish(t, "nativeError")
        /\ UNCHANGED knows
  /\ UNCHANGED kernel

------------------------------------------------------------------------------
(* The calls on the open port. *)

Call(t) ==
  /\ Idle(t)
  /\ stage \in {"open", "closing"}
  /\ \E r \in Requests : request' = [request EXCEPT ![t] = r]
  /\ Goto(t, "read")
  /\ before' = [u \in Threads |->
                  IF u = t /\ \A v \in Threads \ {t} : pc[v] \in {"idle", "return", "close"}
                  THEN {Settings(termios, lines)} ELSE {}]
  /\ UNCHANGED <<socket, kernel, locals, result>>

\* getTermios or TIOCMGET fails.
ReadFails(t) ==
  /\ At(t, "read")
  /\ \E r \in formatMsg(t) : Fail(t, r)

\* setParams: the settings in force, with the arguments applied.
ReadParams(t) ==
  /\ At(t, "read")
  /\ Op(t) = "setParams"
  /\ \E tm \in Terminals(t) : Apply(t, tm)

\* setXONChar, setXOFFChar.
ReadChars(t) ==
  /\ At(t, "read")
  /\ \E tm \in Terminals(t) :
       draft' = [draft EXCEPT ![t] =
                   IF Op(t) = "setXONChar"
                   THEN [tm EXCEPT !.vstart = ToByte(Chosen(Ask(t).xon, 0))]
                   ELSE [tm EXCEPT !.vstop = ToByte(Chosen(Ask(t).xoff, 0))]]
  /\ Op(t) \in {"setXONChar", "setXOFFChar"}
  /\ Goto(t, "write")
  /\ UNCHANGED <<socket, kernel, request, lineStatus, result, before>>

\* A getter returns, getSpeed if there is one speed to return.  setInSpeed and
\* setOutSpeed change and check a copy that nobody writes back.  getParity is for
\* all that read the termios, getLineStatus for all that ask the driver directly.
ReadOnly(t) ==
  /\ At(t, "read")
  /\ Op(t) \in Ops \ Setters
  /\ \E tm \in Terminals(t) :
       \/ Op(t) = "getSpeed" /\ getSpeed(tm) = "mismatch" /\ Finish(t, "mismatch")
       \/ Op(t) # "getSpeed" /\ NotDefined(Ask(t).speed) /\ Finish(t, "rejected")
       \/ /\ ~ NotDefined(Ask(t).speed)
          /\ Op(t) = "getSpeed" => getSpeed(tm) # "mismatch"
          /\ Finish(t, "ok")
  /\ UNCHANGED <<socket, kernel>>

\* TIOCMGET: the modem lines.
LineOf(t) == IF Op(t) = "setRTS" THEN "RTS" ELSE "DTR"
NewLines(t, old) == IF TRUE \in Ask(t)[LineOf(t)] THEN old \cup {LineOf(t)} ELSE old \ {LineOf(t)}

ReadLines(t) ==
  /\ At(t, "read")
  /\ Op(t) \in LineOps
  /\ \E old \in (IF "port" \in Named(t) THEN {lines} ELSE {})
                \cup (IF "other" \in Named(t) THEN SUBSET Lines ELSE {}) :
       lineStatus' = [lineStatus EXCEPT ![t] = NewLines(t, old)]
  /\ Goto(t, "write")
  /\ UNCHANGED <<socket, kernel, request, draft, result, before>>

\* tcsetattr or TIOCMSET; on another terminal it changes nothing of this port.
Write(t) ==
  /\ At(t, "write")
  /\ \E name \in Named(t) \cap {"port", "other"} :
       IF Op(t) \in LineOps
       THEN /\ lines' = IF name = "port" THEN lineStatus[t] ELSE lines
            /\ Finish(t, "ok")
            /\ UNCHANGED termios
       ELSE /\ termios' = IF name = "port" THEN Accepted(termios, draft[t]) ELSE termios
            /\ Goto(t, "verify")
            /\ draft' = [draft EXCEPT ![t] = NoTermios]
            /\ UNCHANGED <<lines, lineStatus, request, result, before>>
  /\ UNCHANGED socket

WriteFails(t) ==
  /\ At(t, "write")
  /\ \E r \in WriteErrors(t) : Fail(t, r)

\* Faulty: what the driver made of the settings is not looked at.
VerifyTrusts(t) ==
  /\ At(t, "verify")
  /\ IF Op(t) = "open"
     THEN /\ Goto(t, "flush")
          /\ UNCHANGED <<socket, kernel, request, locals, result, before>>
     ELSE /\ Finish(t, "ok")
          /\ UNCHANGED <<socket, kernel>>

\* tcgetattr again, and each argument compared with what it finds.
Verify(t) ==
  /\ At(t, "verify")
  /\ \E tm \in Terminals(t) :
       IF ~ InForce(Ask(t), Settings(tm, lines))
       THEN Fail(t, "notSet")
       ELSE IF Op(t) = "open"
       THEN /\ Goto(t, "flush")
            /\ UNCHANGED <<socket, kernel, request, locals, result, before>>
       ELSE /\ Finish(t, "ok")
            /\ UNCHANGED <<socket, kernel>>

VerifyFails(t) ==
  /\ At(t, "verify")
  /\ \E r \in formatMsg(t) : Fail(t, r)

Return(t) ==
  /\ At(t, "return")
  /\ Goto(t, "idle")
  /\ result' = [result EXCEPT ![t] = "none"]
  /\ UNCHANGED <<socket, kernel, request, locals, before>>

------------------------------------------------------------------------------
(* implCloseChannel, seen from the configuration, and the rest of the process. *)

\* setFd(INVALID_FD).
Close(t) ==
  /\ Idle(t)
  /\ stage = "open"
  /\ stage' = "closing"
  /\ fd' = IF Detaches THEN "INVALID_FD" ELSE fd
  /\ Goto(t, "close")
  /\ UNCHANGED <<file, knows, kernel, request, locals, result, before>>

\* Unistd.close(tempFd) and the return from close.
Release(t) ==
  /\ At(t, "close")
  /\ file' = "free"
  /\ knows' = {t}
  /\ Goto(t, "idle")
  /\ UNCHANGED <<fd, stage, kernel, request, locals, result, before>>

\* The thread synchronizes with one that knows: it calls close too, or is told.
Learn(t) ==
  /\ Idle(t)
  /\ knows # {}
  /\ knows' = knows \cup {t}
  /\ UNCHANGED <<fd, file, stage, kernel, frame, before>>

ReuseNumber ==
  /\ file = "free"
  /\ stage = "closing"
  /\ file' = "other"
  /\ UNCHANGED <<fd, stage, knows, kernel, frame, before>>

Opening(t) == Open(t) \/ Attributes(t) \/ FlushDevice(t) \/ CreateEvents(t)

Setting(t) == \/ Call(t)
              \/ ReadFails(t) \/ ReadParams(t) \/ ReadChars(t) \/ ReadOnly(t) \/ ReadLines(t)
              \/ Write(t) \/ WriteFails(t)
              \/ Verify(t) \/ VerifyFails(t)
              \/ Return(t)

Next == \/ \E t \in Threads : Opening(t) \/ Setting(t) \/ Close(t) \/ Release(t) \/ Learn(t)
        \/ ReuseNumber

Spec == Init /\ [][Next]_vars

------------------------------------------------------------------------------
(* Properties. *)

Ends(t) == pc[t] # "return" /\ pc'[t] = "return"

\* A setter, or open, that returns without an exception has set what it was asked
\* for: the driver may ignore a setting silently, a char may not fit a byte, and
\* the settings are read back for that.  setInSpeed and setOutSpeed are apart.
ReportedInForce ==
  [][\A t \in Threads :
       Ends(t) /\ result'[t] = "ok" /\ Op(t) \in Setters \cup {"open"} /\ file = "port"
       => InForce(Ask(t), Settings(termios', lines'))]_vars

\* A setter that no other overlapped leaves what it was not asked for as it was,
\* whether it succeeds or not, and everything if its arguments were rejected.
\* Changing the data bits turns 2 stop bits into 1.5 and back, no more.
OthersUntouched ==
  [][\A t \in Threads : \A s \in before[t] :
       LET now == Settings(termios', lines') IN
       Ends(t)
       => /\ \A i \in Items \ {"stopBits"} :
               now[i] # s[i] => Ask(t)[i] # {} /\ result'[t] # "rejected"
          /\ now.stopBits # s.stopBits =>
               \/ Ask(t).stopBits # {} /\ result'[t] # "rejected"
               \/ Ask(t).dataBits # {} /\ {now.stopBits, s.stopBits} = {"SB_1_5", "SB_2"}]_vars

\* On an open port the terminal never interprets the data: read relies on it to tell
\* "no data yet" from bytes.  Every setter writes all the bits back.
RawMode == stage \in {"open", "closing"} => "COOKED" \notin termios.flags

\* Who knows that the port was closed is told so by every call it makes, whatever
\* its number names now.
ClosedIsReported ==
  [][\A t \in knows : Ends(t) => result'[t] = "PORT_IS_CLOSED"]_vars

\* When open fails, at any of its steps, nobody is left with the file: the next open
\* finds the port free.
FailedOpenClosesPort ==
  stage = "failed" => file \in {"none", "free"} /\ fd = "INVALID_FD"
=============================================================================
