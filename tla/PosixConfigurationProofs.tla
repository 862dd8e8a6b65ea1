---------------------- MODULE PosixConfigurationProofs ----------------------
(***************************************************************************)
(* Theorems about PosixConfiguration, for any threads, calls, drivers and  *)
(* settings left by other programs.                                        *)
(***************************************************************************)
EXTENDS PosixConfiguration, TLAPS

------------------------------------------------------------------------------
(* The settings and the bits. *)

\* The fields of the two structures.
LEMMA AskFields ==
  ASSUME NEW ask, IsAsk(ask)
  PROVE  /\ ask.speed \subseteq Speeds
         /\ ask.dataBits \subseteq DataBits
         /\ ask.stopBits \subseteq StopBits
         /\ ask.parity \subseteq Parity
         /\ ask.flowControls \subseteq SUBSET FlowControl
BY DEF IsAsk

LEMMA TermiosFields ==
  ASSUME NEW tm \in Termios
  PROVE  /\ tm.flags \in SUBSET Flags
         /\ tm.size \in DataBits
         /\ tm.ispeed \in Speeds
         /\ tm.ospeed \in Speeds
BY DEF Termios

\* An argument, or the old value, is a value of the type of the item.
LEMMA ChosenType ==
  ASSUME NEW S, NEW arg \in SUBSET S, NEW old \in S
  PROVE  Chosen(arg, old) \in S
BY DEF Chosen

\* The bits of a parity are bits of its group.
LEMMA BitsOfParity ==
  ASSUME NEW p \in Parity
  PROVE  ParityBits(p) \subseteq ParityMask
BY DEF Parity, ParityBits, ParityMask

\* setParams sets bits of the groups it has arguments for, and no other.
LEMMA ModifiedFlagsType ==
  ASSUME NEW ask, IsAsk(ask), NEW flags \in SUBSET Flags
  PROVE  /\ ModifiedFlags(ask, flags) \in SUBSET Flags
         /\ "COOKED" \in ModifiedFlags(ask, flags) => "COOKED" \in flags
<1>. DEFINE sb == UNION {StopBitsBits(x) : x \in ask.stopBits}
            pb == UNION {ParityBits(x) : x \in ask.parity}
            fb == UNION {FlowBits(x) : x \in ask.flowControls}
            stop == Replaced(flags, ask.stopBits, {"CSTOPB"}, sb)
            par == Replaced(stop, ask.parity, ParityMask, pb)
            flow == Replaced(par, ask.flowControls, FlowMask, fb)
<1>1. sb \in SUBSET {"CSTOPB"}
  <2>1. ASSUME NEW x PROVE StopBitsBits(x) \subseteq {"CSTOPB"}
    BY DEF StopBitsBits
  <2>. QED BY <2>1
<1>2. pb \in SUBSET ParityMask
  <2>1. ASSUME NEW x \in ask.parity PROVE ParityBits(x) \subseteq ParityMask
    BY AskFields, BitsOfParity
  <2>. QED BY <2>1
<1>3. fb \in SUBSET FlowMask
  <2>1. ASSUME NEW x PROVE FlowBits(x) \subseteq FlowMask
    BY DEF FlowBits, FlowMask
  <2>. QED BY <2>1
<1>4. ModifiedFlags(ask, flags) = flow
  BY DEF ModifiedFlags
<1>. HIDE DEF sb, pb, fb
<1>5. stop \subseteq flags \cup {"CSTOPB"}
  BY <1>1 DEF Replaced
<1>. HIDE DEF stop
<1>6. par \subseteq stop \cup ParityMask
  BY <1>2 DEF Replaced
<1>. HIDE DEF par
<1>7. flow \subseteq par \cup FlowMask
  BY <1>3 DEF Replaced
<1>. HIDE DEF flow
<1>8. flow \subseteq flags \cup (Flags \ {"COOKED"})
  BY <1>5, <1>6, <1>7 DEF ParityMask, FlowMask, Flags
<1>. QED BY <1>4, <1>8

\* It makes a termios of a termios, and never one that interprets the data of one that
\* does not.
LEMMA ModifiedType ==
  ASSUME NEW ask, IsAsk(ask), NEW tm \in Termios
  PROVE  /\ Modified(ask, tm) \in Termios
         /\ "COOKED" \in Modified(ask, tm).flags => "COOKED" \in tm.flags
<1>. DEFINE i == Chosen(ask.speed, tm.ispeed)
            o == Chosen(ask.speed, tm.ospeed)
            d == Chosen(ask.dataBits, tm.size)
            f == ModifiedFlags(ask, tm.flags)
<1>1. /\ ask.speed \in SUBSET Speeds /\ ask.dataBits \in SUBSET DataBits
      /\ tm.ispeed \in Speeds /\ tm.ospeed \in Speeds /\ tm.size \in DataBits
      /\ tm.flags \in SUBSET Flags
  BY AskFields, TermiosFields
<1>2. i \in Speeds /\ o \in Speeds /\ d \in DataBits
  BY <1>1, ChosenType
<1>3. f \in SUBSET Flags /\ ("COOKED" \in f => "COOKED" \in tm.flags)
  BY <1>1, ModifiedFlagsType
<1>4. Modified(ask, tm) = [tm EXCEPT !.ispeed = i, !.ospeed = o, !.size = d, !.flags = f]
  BY DEF Modified, Termios
<1>. HIDE DEF i, o, d, f
<1>5. Modified(ask, tm) \in Termios /\ Modified(ask, tm).flags = f
  BY <1>2, <1>3, <1>4 DEF Termios
<1>. QED BY <1>3, <1>5

\* Flags that are in no other group survive the replacement of one.
LEMMA ReplacedFacts ==
  ASSUME NEW flags, NEW arg, NEW mask, NEW bits \in SUBSET mask
  PROVE  /\ arg = {} => Replaced(flags, arg, mask, bits) = flags
         /\ arg # {} => \A x \in mask : x \in Replaced(flags, arg, mask, bits) <=> x \in bits
         /\ \A x : x \notin mask => (x \in Replaced(flags, arg, mask, bits) <=> x \in flags)
BY DEF Replaced

\* The groups do not overlap: which bits setParams makes of the ones it finds.
LEMMA ModifiedGroups ==
  ASSUME NEW ask, IsAsk(ask), NEW flags
  PROVE  LET new == ModifiedFlags(ask, flags) IN
         /\ \A s \in ask.stopBits : "CSTOPB" \in new <=> "CSTOPB" \in StopBitsBits(s)
         /\ ask.stopBits = {} => ("CSTOPB" \in new <=> "CSTOPB" \in flags)
         /\ \A p \in ask.parity : \A x \in ParityMask : x \in new <=> x \in ParityBits(p)
         /\ ask.parity = {} => \A x \in ParityMask : x \in new <=> x \in flags
         /\ \A f \in ask.flowControls : \A x \in FlowMask : x \in new <=> x \in FlowBits(f)
         /\ ask.flowControls = {} => \A x \in FlowMask : x \in new <=> x \in flags
<1>. DEFINE sb == UNION {StopBitsBits(x) : x \in ask.stopBits}
            pb == UNION {ParityBits(x) : x \in ask.parity}
            fb == UNION {FlowBits(x) : x \in ask.flowControls}
            stop == Replaced(flags, ask.stopBits, {"CSTOPB"}, sb)
            par == Replaced(stop, ask.parity, ParityMask, pb)
            flow == Replaced(par, ask.flowControls, FlowMask, fb)
<1>1. /\ \A a, b \in ask.stopBits : a = b
      /\ \A a, b \in ask.parity : a = b
      /\ \A a, b \in ask.flowControls : a = b
      /\ ask.parity \subseteq Parity
  BY DEF IsAsk, Items
<1>2. sb \in SUBSET {"CSTOPB"} /\ \A s \in ask.stopBits : sb = StopBitsBits(s)
  <2>1. ASSUME NEW s PROVE StopBitsBits(s) \subseteq {"CSTOPB"}
    BY DEF StopBitsBits
  <2>. QED BY <1>1, <2>1
<1>3. pb \in SUBSET ParityMask /\ \A p \in ask.parity : pb = ParityBits(p)
  <2>1. ASSUME NEW p \in ask.parity PROVE ParityBits(p) \subseteq ParityMask
    BY <1>1, BitsOfParity
  <2>. QED BY <1>1, <2>1
<1>4. fb \in SUBSET FlowMask /\ \A f \in ask.flowControls : fb = FlowBits(f)
  <2>1. ASSUME NEW f PROVE FlowBits(f) \subseteq FlowMask
    BY DEF FlowBits, FlowMask
  <2>. QED BY <1>1, <2>1
<1>5. ModifiedFlags(ask, flags) = flow
  BY DEF ModifiedFlags
<1>6. /\ "CSTOPB" \notin ParityMask /\ "CSTOPB" \notin FlowMask
      /\ \A x \in ParityMask : x # "CSTOPB" /\ x \notin FlowMask
      /\ \A x \in FlowMask : x # "CSTOPB" /\ x \notin ParityMask
  BY DEF ParityMask, FlowMask
<1>. HIDE DEF sb, pb, fb
<1>7. /\ ask.stopBits = {} => stop = flags
      /\ ask.stopBits # {} => ("CSTOPB" \in stop <=> "CSTOPB" \in sb)
      /\ \A x : x # "CSTOPB" => (x \in stop <=> x \in flags)
  BY <1>2 DEF Replaced
<1>. HIDE DEF stop
<1>8. /\ ask.parity = {} => par = stop
      /\ ask.parity # {} => \A x \in ParityMask : x \in par <=> x \in pb
      /\ \A x : x \notin ParityMask => (x \in par <=> x \in stop)
  BY <1>3, ReplacedFacts
<1>. HIDE DEF par
<1>9. /\ ask.flowControls = {} => flow = par
      /\ ask.flowControls # {} => \A x \in FlowMask : x \in flow <=> x \in fb
      /\ \A x : x \notin FlowMask => (x \in flow <=> x \in par)
  BY <1>4, ReplacedFacts
<1>. HIDE DEF flow
<1>10. "CSTOPB" \in flow <=> "CSTOPB" \in stop
  BY <1>6, <1>8, <1>9
<1>11. \A x \in ParityMask : x \in flow <=> x \in par
  BY <1>6, <1>9
<1>12. \A x \in ParityMask : x \in stop <=> x \in flags
  BY <1>6, <1>7
<1>13. \A x \in FlowMask : x \in par <=> x \in flags
  BY <1>6, <1>7, <1>8
<1>14. /\ \A s \in ask.stopBits : "CSTOPB" \in flow <=> "CSTOPB" \in StopBitsBits(s)
       /\ ask.stopBits = {} => ("CSTOPB" \in flow <=> "CSTOPB" \in flags)
  BY <1>2, <1>7, <1>10
<1>15. /\ \A p \in ask.parity : \A x \in ParityMask : x \in flow <=> x \in ParityBits(p)
       /\ ask.parity = {} => \A x \in ParityMask : x \in flow <=> x \in flags
  BY <1>3, <1>8, <1>11, <1>12
<1>16. /\ \A f \in ask.flowControls : \A x \in FlowMask : x \in flow <=> x \in FlowBits(f)
       /\ ask.flowControls = {} => \A x \in FlowMask : x \in flow <=> x \in flags
  BY <1>4, <1>9, <1>13
<1>. QED BY <1>5, <1>14, <1>15, <1>16

\* The settings that setParams makes read back as those it was given, if it does not reject
\* them, and those it was not given read back as they were, but for the name of 1.5 or 2
\* stop bits: no group of bits spills into another, and no two values are written alike.
THEOREM SettingsReadBack ==
  ASSUME NEW ask, IsAsk(ask), NEW tm \in Termios, ~ Rejects(ask, tm)
  PROVE  LET new == Modified(ask, tm) IN
         /\ ask.speed \subseteq {getSpeed(new)}
         /\ ask.dataBits \subseteq {new.size}
         /\ ask.stopBits \subseteq {getStopBits(new)}
         /\ ask.parity \subseteq {getParity(new)}
         /\ ask.flowControls \subseteq {getFlowControl(new)}
         /\ ask.speed = {} => getSpeed(new) = getSpeed(tm)
         /\ ask.dataBits = {} => new.size = tm.size
         /\ ask.stopBits = {} /\ ask.dataBits = {} => getStopBits(new) = getStopBits(tm)
         /\ ask.parity = {} => getParity(new) = getParity(tm)
         /\ ask.flowControls = {} => getFlowControl(new) = getFlowControl(tm)
<1>. DEFINE new == Modified(ask, tm)
            flags == ModifiedFlags(ask, tm.flags)
            size == Chosen(ask.dataBits, tm.size)
<1>1. /\ new.flags = flags
      /\ new.size = size
      /\ new.ispeed = Chosen(ask.speed, tm.ispeed)
      /\ new.ospeed = Chosen(ask.speed, tm.ospeed)
  BY DEF Modified, Termios
<1>2. /\ \A a, b \in ask.speed : a = b
      /\ \A a, b \in ask.dataBits : a = b
      /\ ask.stopBits \subseteq StopBits
      /\ ask.parity \subseteq Parity
      /\ ask.flowControls \subseteq SUBSET FlowControl
  BY DEF IsAsk, Items
<1>3. /\ \A s \in ask.stopBits : "CSTOPB" \in flags <=> "CSTOPB" \in StopBitsBits(s)
      /\ ask.stopBits = {} => ("CSTOPB" \in flags <=> "CSTOPB" \in tm.flags)
      /\ \A p \in ask.parity : \A x \in ParityMask : x \in flags <=> x \in ParityBits(p)
      /\ ask.parity = {} => \A x \in ParityMask : x \in flags <=> x \in tm.flags
      /\ \A f \in ask.flowControls : \A x \in FlowMask : x \in flags <=> x \in FlowBits(f)
      /\ ask.flowControls = {} => \A x \in FlowMask : x \in flags <=> x \in tm.flags
  BY ModifiedGroups
<1>. HIDE DEF new, flags
<1>4. ask.speed \subseteq {getSpeed(new)} /\ (ask.speed = {} => getSpeed(new) = getSpeed(tm))
  BY <1>1, <1>2 DEF Chosen, getSpeed
<1>5. /\ ask.dataBits \subseteq {size} /\ (ask.dataBits = {} => size = tm.size)
  BY <1>2 DEF Chosen
<1>6. /\ "SB_1_5" \in ask.stopBits => size = "DB_5"
      /\ "SB_2" \in ask.stopBits => size # "DB_5"
  BY DEF Rejects
<1>. HIDE DEF size
<1>7. ASSUME NEW s \in ask.stopBits PROVE s = getStopBits(new)
  <2>1. s \in {"SB_1", "SB_1_5", "SB_2"}
    BY <1>2 DEF StopBits
  <2>. QED BY <1>1, <1>3, <1>6, <2>1 DEF StopBitsBits, getStopBits
<1>8. ask.stopBits = {} /\ ask.dataBits = {} => getStopBits(new) = getStopBits(tm)
  BY <1>1, <1>3, <1>5 DEF getStopBits
<1>9. ASSUME NEW p \in ask.parity PROVE p = getParity(new)
  <2>1. p \in {"NONE", "ODD", "EVEN", "MARK", "SPACE"}
    BY <1>2 DEF Parity
  <2>2. \A x \in {"PARENB", "PARODD", "CMSPAR"} : x \in flags <=> x \in ParityBits(p)
    BY <1>3 DEF ParityMask
  <2>. QED BY <1>1, <2>1, <2>2 DEF ParityBits, getParity
<1>10. ask.parity = {} => getParity(new) = getParity(tm)
  BY <1>1, <1>3 DEF getParity, ParityMask
<1>11. ASSUME NEW f \in ask.flowControls PROVE f = getFlowControl(new)
  <2>1. f \subseteq {"RTS_CTS_IN", "RTS_CTS_OUT", "XON_XOFF_IN", "XON_XOFF_OUT"}
    BY <1>2 DEF FlowControl
  <2>2. "RTS_CTS_IN" \in f <=> "RTS_CTS_OUT" \in f
    BY DEF Rejects
  <2>3. /\ "CRTSCTS" \in flags <=> "RTS_CTS_IN" \in f /\ "RTS_CTS_OUT" \in f
        /\ "IXOFF" \in flags <=> "XON_XOFF_IN" \in f
        /\ "IXON" \in flags <=> "XON_XOFF_OUT" \in f
    BY <1>3 DEF FlowMask, FlowBits
  <2>. QED BY <1>1, <2>1, <2>2, <2>3 DEF getFlowControl
<1>12. ask.flowControls = {} => getFlowControl(new) = getFlowControl(tm)
  BY <1>1, <1>3 DEF getFlowControl, FlowMask
<1>. QED BY <1>1, <1>4, <1>5, <1>7, <1>8, <1>9, <1>10, <1>11, <1>12 DEF new

\* So does the driver.
LEMMA AcceptedType ==
  ASSUME NEW old \in Termios, NEW new \in Termios
  PROVE  /\ Accepted(old, new) \in Termios
         /\ "COOKED" \in Accepted(old, new).flags => "COOKED" \in new.flags
<1>. DEFINE f == (new.flags \ Stuck) \cup (old.flags \cap Stuck)
            d == IF new.size \in Stuck THEN old.size ELSE new.size
            i == IF new.ispeed \in Stuck THEN old.ispeed ELSE new.ispeed
            o == IF new.ospeed \in Stuck THEN old.ospeed ELSE new.ospeed
<1>1. i \in Speeds /\ o \in Speeds /\ d \in DataBits /\ f \in SUBSET Flags
  BY DEF Termios
<1>2. Accepted(old, new) = [new EXCEPT !.flags = f, !.size = d, !.ispeed = i, !.ospeed = o]
  BY DEF Accepted, Termios
<1>. HIDE DEF i, o, d
<1>3. Accepted(old, new) \in Termios /\ Accepted(old, new).flags = f
  BY <1>1, <1>2 DEF Termios
<1>. QED BY <1>3, ConfigurationAssumption

\* open's first settings are settings, and raw.
LEMMA RawType ==
  ASSUME NEW tm \in Termios
  PROVE  Raw(tm) \in Termios /\ "COOKED" \notin Raw(tm).flags
<1>1. "DB_8" \in DataBits
  BY DEF DataBits
<1>. QED BY <1>1 DEF Raw, Termios

------------------------------------------------------------------------------
(* Types. *)

\* The arguments of every call are arguments.
LEMMA RequestFacts ==
  ASSUME FrameType, NEW t \in Threads
  PROVE  /\ IsAsk(Ask(t))
         /\ Op(t) \in Ops \cup {"open", "none"}
         /\ Op(t) = "none" => request[t] = NoRequest
<1>1. IsAsk(NoAsk)
  BY DEF NoAsk, IsAsk, Items
<1>2. CASE request[t] \in Requests
  BY <1>2, ConfigurationAssumption DEF Ask, Op, Ops, Setters, LineOps
<1>3. CASE request[t] \in OpenRequests
  BY <1>3, ConfigurationAssumption DEF Ask, Op, OpenRequests
<1>4. CASE request[t] = NoRequest
  BY <1>1, <1>4 DEF Ask, Op, NoRequest
<1>. QED BY <1>2, <1>3, <1>4 DEF FrameType

\* A call that ends leaves a frame.
LEMMA FinishType ==
  ASSUME FrameType, NEW t \in Threads, NEW r \in Results, Finish(t, r)
  PROVE  FrameType'
<1>1. pc' \in [Threads -> Labels]
  BY DEF FrameType, Finish, Goto, Labels
<1>2. request' \in [Threads -> Requests \cup OpenRequests \cup {NoRequest}]
  BY DEF FrameType, Finish
<1>3. draft' \in [Threads -> Termios \cup {NoTermios}]
  BY DEF FrameType, Finish
<1>4. lineStatus' \in [Threads -> SUBSET Lines]
  BY DEF FrameType, Finish
<1>5. result' \in [Threads -> Results]
  BY DEF FrameType, Finish
<1>6. ASSUME NEW u \in Threads, At(u, "write")', Op(u)' \notin LineOps
      PROVE  draft'[u] \in Termios
  <2>1. u # t
    BY <1>6 DEF At, Finish, Goto, FrameType
  <2>2. At(u, "write") /\ Op(u) \notin LineOps /\ draft'[u] = draft[u]
    BY <1>6, <2>1 DEF At, Op, Finish, Goto, FrameType
  <2>. QED BY <2>2 DEF FrameType
<1>. QED BY <1>1, <1>2, <1>3, <1>4, <1>5, <1>6 DEF FrameType

\* A call that fails keeps the types, open included.
LEMMA FailType ==
  ASSUME TypeOK, NEW t \in Threads, NEW r \in Results, Fail(t, r)
  PROVE  TypeOK'
<1>1. FrameType'
  BY FinishType DEF TypeOK, Fail
<1>2. PortType'
  BY DEF TypeOK, PortType, Fail, socket, kernel
<1>. QED BY <1>1, <1>2 DEF TypeOK

\* formatMsg gives one of its messages, and PORT_IS_CLOSED to those who know.
LEMMA formatMsgType ==
  ASSUME PortType, NEW t \in Threads, NEW r \in formatMsg(t)
  PROVE  /\ r \in {"PORT_IS_CLOSED", "PORT_FD_INVALID", "nativeError"}
         /\ t \in knows /\ fd = "INVALID_FD" => r = "PORT_IS_CLOSED"
<1>1. PICK n \in Loads(t) : r = CASE n = "INVALID_FD" -> "PORT_IS_CLOSED"
                                 [] n = "number" /\ file = "free" -> "PORT_FD_INVALID"
                                 [] OTHER -> "nativeError"
  BY DEF formatMsg
<1>2. n = "INVALID_FD" \/ n = "number"
  BY DEF Loads, PortType
<1>3. t \in knows /\ fd = "INVALID_FD" => n = "INVALID_FD"
  BY DEF Loads
<1>. QED BY <1>1, <1>2, <1>3

\* What a thread can read is the settings of the port or of another terminal; one that
\* knows of the close reads nothing.
LEMMA TerminalsType ==
  ASSUME PortType, NEW t \in Threads
  PROVE  /\ Terminals(t) \subseteq Termios
         /\ file = "port" => Terminals(t) \subseteq {termios}
         /\ t \in knows /\ fd = "INVALID_FD" => /\ Named(t) = {"free"}
                                               /\ Terminals(t) = {}
<1>1. Named(t) \subseteq {"free", file}
  BY DEF Named, Names
<1>2. t \in knows /\ fd = "INVALID_FD" => Named(t) = {"free"}
  BY DEF Named, Names, Loads
<1>3. Terminals(t) \subseteq Termios
  BY ConfigurationAssumption DEF Terminals, PortType
<1>4. file = "port" => Terminals(t) \subseteq {termios}
  BY <1>1 DEF Terminals
<1>. QED BY <1>2, <1>3, <1>4 DEF Terminals

\* A thread that goes on without writing anything keeps the types.
LEMMA StepType ==
  ASSUME FrameType, NEW t \in Threads, NEW label \in Labels \ {"write"}, Goto(t, label),
         UNCHANGED <<request, locals, result>>
  PROVE  FrameType'
<1>1. pc' \in [Threads -> Labels] /\ pc' = [pc EXCEPT ![t] = label]
  BY DEF FrameType, Goto
<1>2. ASSUME NEW u \in Threads, At(u, "write")', Op(u)' \notin LineOps
      PROVE  draft'[u] \in Termios
  <2>1. u # t
    BY <1>1, <1>2 DEF At, FrameType
  <2>2. At(u, "write") /\ Op(u) \notin LineOps /\ draft' = draft
    BY <1>1, <1>2, <2>1 DEF At, Op, FrameType, locals
  <2>. QED BY <2>2 DEF FrameType
<1>. QED BY <1>1, <1>2 DEF FrameType, locals

\* A thread that is about to write keeps them if what it writes has its type.
LEMMA DraftType ==
  ASSUME FrameType, NEW t \in Threads, Goto(t, "write"), NEW tm \in Termios,
         draft' = [draft EXCEPT ![t] = tm], UNCHANGED <<request, lineStatus, result>>
  PROVE  FrameType'
<1>1. pc' \in [Threads -> Labels] /\ pc' = [pc EXCEPT ![t] = "write"]
  BY DEF FrameType, Goto, Labels
<1>2. draft' \in [Threads -> Termios \cup {NoTermios}] /\ draft'[t] = tm
  BY DEF FrameType
<1>3. ASSUME NEW u \in Threads, At(u, "write")', Op(u)' \notin LineOps, u # t
      PROVE  draft'[u] \in Termios
  <2>1. At(u, "write") /\ Op(u) \notin LineOps /\ draft'[u] = draft[u]
    BY <1>1, <1>3 DEF At, Op, FrameType
  <2>. QED BY <2>1 DEF FrameType
<1>. QED BY <1>1, <1>2, <1>3 DEF FrameType

\* Applying the arguments of a call to settings keeps the types.
LEMMA ApplyType ==
  ASSUME TypeOK, NEW t \in Threads, NEW tm \in Termios, Apply(t, tm)
  PROVE  TypeOK'
<1>1. CASE Fail(t, "rejected")
  BY <1>1, FailType DEF Results
<1>2. CASE /\ draft' = [draft EXCEPT ![t] = Modified(Ask(t), tm)]
           /\ Goto(t, "write")
           /\ UNCHANGED <<socket, kernel, request, lineStatus, result, before>>
  <2>1. FrameType
    BY DEF TypeOK
  <2>2. IsAsk(Ask(t))
    BY <2>1, RequestFacts
  <2>3. Modified(Ask(t), tm) \in Termios
    BY <2>2, ModifiedType
  <2>4. FrameType'
    BY <1>2, <2>1, <2>3, DraftType
  <2>5. PortType'
    BY <1>2 DEF TypeOK, PortType, socket, kernel
  <2>. QED BY <2>4, <2>5 DEF TypeOK
<1>. QED BY <1>1, <1>2 DEF Apply

\* The initial settings and frames are settings and frames.
LEMMA InitType == Init => TypeOK
<1>. SUFFICES ASSUME Init PROVE TypeOK
  OBVIOUS
<1>1. PortType
  BY ConfigurationAssumption DEF Init, PortType, Lines
<1>2. FrameType
  BY DEF Init, FrameType, Labels, Results, At
<1>. QED BY <1>1, <1>2 DEF TypeOK

\* Opening keeps the types.
LEMMA OpeningType ==
  ASSUME TypeOK, NEW t \in Threads, Opening(t)
  PROVE  TypeOK'
<1>1. PortType /\ FrameType
  BY DEF TypeOK
<1>2. CASE Open(t)
  <2>1. PortType'
    BY <1>1, <1>2 DEF PortType, Open, kernel
  <2>2. pc' \in [Threads -> Labels] /\ \A u \in Threads : At(u, "write")' => At(u, "write") /\ u # t
    BY <1>1, <1>2 DEF FrameType, Open, Goto, Labels, At
  <2>3. request' \in [Threads -> Requests \cup OpenRequests \cup {NoRequest}]
        /\ \A u \in Threads \ {t} : request'[u] = request[u]
    BY <1>1, <1>2 DEF FrameType, Open
  <2>4. result' \in [Threads -> Results]
    BY <1>1, <1>2 DEF FrameType, Open, Results
  <2>5. \A u \in Threads : At(u, "write")' /\ Op(u)' \notin LineOps => draft'[u] \in Termios
    BY <1>1, <1>2, <2>2, <2>3 DEF FrameType, Open, locals, Op
  <2>6. FrameType'
    BY <1>1, <1>2, <2>2, <2>3, <2>4, <2>5 DEF FrameType, Open, locals
  <2>. QED BY <2>1, <2>6 DEF TypeOK
<1>3. CASE Attributes(t)
  <2>1. Raw(termios) \in Termios
    BY <1>1, RawType DEF PortType
  <2>2. CASE Apply(t, Raw(termios))
    BY <2>1, <2>2, ApplyType
  <2>3. CASE Fail(t, "nativeError")
    BY <2>3, FailType DEF Results
  <2>. QED BY <1>3, <2>2, <2>3 DEF Attributes
<1>4. CASE FlushDevice(t)
  <2>1. CASE /\ Goto(t, "events")
             /\ UNCHANGED <<socket, kernel, request, locals, result, before>>
    <3>1. FrameType'
      BY <1>1, <2>1, StepType DEF Labels
    <3>2. PortType'
      BY <1>1, <2>1 DEF PortType, socket, kernel
    <3>. QED BY <3>1, <3>2 DEF TypeOK
  <2>2. CASE Fail(t, "nativeError")
    BY <2>2, FailType DEF Results
  <2>. QED BY <1>4, <2>1, <2>2 DEF FlushDevice
<1>5. CASE CreateEvents(t)
  <2>1. PortType'
    BY <1>1, <1>5 DEF PortType, CreateEvents, kernel
  <2>2. PICK r \in Results : Finish(t, r)
    BY <1>5 DEF CreateEvents, Results
  <2>3. FrameType'
    BY <1>1, <2>2, FinishType
  <2>. QED BY <2>1, <2>3 DEF TypeOK
<1>. QED BY <1>2, <1>3, <1>4, <1>5, Zenon DEF Opening

\* A char becomes a byte.
LEMMA ToByteType ==
  ASSUME NEW c \in Char
  PROVE  ToByte(c) \in Byte
BY SMTT(60) DEF ToByte, Char, Byte

\* Calling keeps the types.
LEMMA CallType ==
  ASSUME TypeOK, NEW t \in Threads, Call(t)
  PROVE  TypeOK'
<1>1. PortType'
  BY DEF TypeOK, PortType, Call, socket, kernel
<1>2. pc' = [pc EXCEPT ![t] = "read"] /\ pc' \in [Threads -> Labels]
  BY DEF TypeOK, FrameType, Call, Goto, Labels
<1>3. PICK r \in Requests : request' = [request EXCEPT ![t] = r]
  BY DEF Call
<1>4. request' \in [Threads -> Requests \cup OpenRequests \cup {NoRequest}]
  BY <1>3 DEF TypeOK, FrameType
<1>5. ASSUME NEW u \in Threads, At(u, "write")', Op(u)' \notin LineOps
      PROVE  draft'[u] \in Termios
  <2>1. u # t
    BY <1>2, <1>5 DEF At, TypeOK, FrameType
  <2>2. At(u, "write") /\ Op(u) \notin LineOps
    BY <1>2, <1>3, <1>5, <2>1 DEF At, Op, TypeOK, FrameType
  <2>. QED BY <2>2 DEF TypeOK, FrameType, Call, locals
<1>6. FrameType'
  BY <1>2, <1>4, <1>5 DEF TypeOK, FrameType, Call, locals
<1>. QED BY <1>1, <1>6 DEF TypeOK

\* The first system call of a call keeps the types.
LEMMA ReadType ==
  ASSUME TypeOK, NEW t \in Threads,
         ReadFails(t) \/ ReadParams(t) \/ ReadChars(t) \/ ReadOnly(t) \/ ReadLines(t)
  PROVE  TypeOK'
<1>1. PortType /\ FrameType
  BY DEF TypeOK
<1>2. CASE ReadFails(t)
  <2>1. PICK r \in formatMsg(t) : Fail(t, r)
    BY <1>2 DEF ReadFails
  <2>2. r \in Results
    BY <1>1, formatMsgType DEF Results
  <2>. QED BY <2>1, <2>2, FailType
<1>3. CASE ReadParams(t)
  <2>1. PICK tm \in Terminals(t) : Apply(t, tm)
    BY <1>3 DEF ReadParams
  <2>2. tm \in Termios
    BY <1>1, TerminalsType
  <2>. QED BY <2>1, <2>2, ApplyType
<1>4. CASE ReadChars(t)
  <2>. DEFINE v == ToByte(Chosen(Ask(t).xon, 0))
              w == ToByte(Chosen(Ask(t).xoff, 0))
  <2>1. PICK tm \in Terminals(t) :
          draft' = [draft EXCEPT ![t] = IF Op(t) = "setXONChar" THEN [tm EXCEPT !.vstart = v]
                                                                ELSE [tm EXCEPT !.vstop = w]]
    BY <1>4 DEF ReadChars
  <2>2. tm \in Termios
    BY <1>1, TerminalsType
  <2>3. IsAsk(Ask(t))
    BY <1>1, RequestFacts
  <2>4. Ask(t).xon \in SUBSET Char /\ Ask(t).xoff \in SUBSET Char
    BY <2>3 DEF IsAsk
  <2>5. 0 \in Char
    BY DEF Char
  <2>6. v \in Byte /\ w \in Byte
    BY <2>4, <2>5, ChosenType, ToByteType
  <2>. HIDE DEF v, w
  <2>7. [tm EXCEPT !.vstart = v] \in Termios /\ [tm EXCEPT !.vstop = w] \in Termios
    BY <2>2, <2>6 DEF Termios
  <2>8. FrameType'
    BY <1>1, <1>4, <2>1, <2>7, DraftType DEF ReadChars
  <2>9. PortType'
    BY <1>1, <1>4 DEF PortType, ReadChars, socket, kernel
  <2>. QED BY <2>8, <2>9 DEF TypeOK
<1>5. CASE ReadOnly(t)
  <2>1. PICK r \in Results : Finish(t, r)
    BY <1>5 DEF ReadOnly, Results
  <2>2. FrameType'
    BY <1>1, <2>1, FinishType
  <2>3. PortType'
    BY <1>1, <1>5 DEF PortType, ReadOnly, socket, kernel
  <2>. QED BY <2>2, <2>3 DEF TypeOK
<1>6. CASE ReadLines(t)
  <2>1. pc' = [pc EXCEPT ![t] = "write"] /\ pc' \in [Threads -> Labels]
    BY <1>1, <1>6 DEF FrameType, ReadLines, Goto, Labels
  <2>2. PICK old \in SUBSET Lines : lineStatus' = [lineStatus EXCEPT ![t] = NewLines(t, old)]
    BY <1>1, <1>6 DEF ReadLines, PortType
  <2>3. NewLines(t, old) \in SUBSET Lines
    BY <2>2 DEF NewLines, LineOf, Lines
  <2>4. lineStatus' \in [Threads -> SUBSET Lines]
    BY <1>1, <2>2, <2>3 DEF FrameType
  <2>5. ASSUME NEW u \in Threads, At(u, "write")', Op(u)' \notin LineOps
        PROVE  draft'[u] \in Termios
    <3>1. Op(u) \notin LineOps /\ u # t
      BY <1>6, <2>5 DEF ReadLines, Op
    <3>2. At(u, "write")
      BY <2>1, <2>5, <3>1 DEF At
    <3>. QED BY <1>1, <1>6, <3>1, <3>2 DEF FrameType, ReadLines
  <2>6. FrameType'
    BY <1>1, <1>6, <2>1, <2>4, <2>5 DEF FrameType, ReadLines
  <2>7. PortType'
    BY <1>1, <1>6 DEF PortType, ReadLines, socket, kernel
  <2>. QED BY <2>6, <2>7 DEF TypeOK
<1>. QED BY <1>2, <1>3, <1>4, <1>5, <1>6

\* So do the second and the third.
LEMMA WriteVerifyType ==
  ASSUME TypeOK, NEW t \in Threads,
         Write(t) \/ WriteFails(t) \/ Verify(t) \/ VerifyFails(t)
  PROVE  TypeOK'
<1>1. PortType /\ FrameType
  BY DEF TypeOK
<1>2. CASE Write(t) /\ Op(t) \in LineOps
  <2>1. Finish(t, "ok") /\ termios' = termios /\ lines' \in {lineStatus[t], lines} /\ UNCHANGED socket
    BY <1>2 DEF Write
  <2>2. FrameType'
    BY <1>1, <2>1, FinishType DEF Results
  <2>3. PortType'
    BY <1>1, <2>1 DEF PortType, FrameType, socket
  <2>. QED BY <2>2, <2>3 DEF TypeOK
<1>3. CASE Write(t) /\ Op(t) \notin LineOps
  <2>1. /\ termios' \in {Accepted(termios, draft[t]), termios}
        /\ Goto(t, "verify")
        /\ draft' = [draft EXCEPT ![t] = NoTermios]
        /\ UNCHANGED <<lines, lineStatus, request, result, socket>>
    BY <1>3 DEF Write
  <2>2. draft[t] \in Termios
    BY <1>1, <1>3 DEF Write, FrameType
  <2>3. termios' \in Termios
    BY <1>1, <2>1, <2>2, AcceptedType DEF PortType
  <2>4. PortType'
    BY <1>1, <2>1, <2>3 DEF PortType, socket
  <2>5. pc' = [pc EXCEPT ![t] = "verify"] /\ pc' \in [Threads -> Labels]
    BY <1>1, <2>1 DEF FrameType, Goto, Labels
  <2>6. draft' \in [Threads -> Termios \cup {NoTermios}]
    BY <1>1, <2>1 DEF FrameType
  <2>7. ASSUME NEW u \in Threads, At(u, "write")', Op(u)' \notin LineOps
        PROVE  draft'[u] \in Termios
    <3>1. u # t
      BY <1>1, <2>5, <2>7 DEF At, FrameType
    <3>2. At(u, "write") /\ Op(u) \notin LineOps /\ draft'[u] = draft[u]
      BY <1>1, <2>1, <2>5, <2>7, <3>1 DEF At, Op, FrameType
    <3>. QED BY <1>1, <3>2 DEF FrameType
  <2>8. FrameType'
    BY <1>1, <2>1, <2>5, <2>6, <2>7 DEF FrameType
  <2>. QED BY <2>4, <2>8 DEF TypeOK
<1>4. CASE WriteFails(t)
  <2>1. PICK r \in WriteErrors(t) : Fail(t, r)
    BY <1>4 DEF WriteFails
  <2>2. r \in Results
    BY <1>1, formatMsgType DEF WriteErrors, Results
  <2>. QED BY <2>1, <2>2, FailType
<1>5. CASE Verify(t)
  <2>1. CASE Fail(t, "notSet")
    BY <2>1, FailType DEF Results
  <2>2. CASE Goto(t, "flush") /\ UNCHANGED <<socket, kernel, request, locals, result, before>>
    <3>1. FrameType'
      BY <1>1, <2>2, StepType DEF Labels
    <3>2. PortType'
      BY <1>1, <2>2 DEF PortType, socket, kernel
    <3>. QED BY <3>1, <3>2 DEF TypeOK
  <2>3. CASE Finish(t, "ok") /\ UNCHANGED <<socket, kernel>>
    <3>1. FrameType'
      BY <1>1, <2>3, FinishType DEF Results
    <3>2. PortType'
      BY <1>1, <2>3 DEF PortType, socket, kernel
    <3>. QED BY <3>1, <3>2 DEF TypeOK
  <2>. QED BY <1>5, <2>1, <2>2, <2>3 DEF Verify
<1>6. CASE VerifyFails(t)
  <2>1. PICK r \in formatMsg(t) : Fail(t, r)
    BY <1>6 DEF VerifyFails
  <2>2. r \in Results
    BY <1>1, formatMsgType DEF Results
  <2>. QED BY <2>1, <2>2, FailType
<1>. QED BY <1>2, <1>3, <1>4, <1>5, <1>6

\* The steps of the threads keep the types,
LEMMA SettingType ==
  ASSUME TypeOK, NEW t \in Threads, Setting(t)
  PROVE  TypeOK'
<1>1. CASE Return(t)
  <2>1. pc' \in [Threads -> Labels] /\ \A u \in Threads : At(u, "write")' => At(u, "write")
    BY <1>1 DEF TypeOK, FrameType, Return, Goto, Labels, At
  <2>2. result' \in [Threads -> Results]
    BY <1>1 DEF TypeOK, FrameType, Return, Results
  <2>3. FrameType'
    BY <1>1, <2>1, <2>2 DEF TypeOK, FrameType, Return, locals, Op
  <2>4. PortType'
    BY <1>1 DEF TypeOK, PortType, Return, socket, kernel
  <2>. QED BY <2>3, <2>4 DEF TypeOK
<1>. QED BY <1>1, CallType, ReadType, WriteVerifyType DEF Setting

\* and so do the close and the rest of the process.
LEMMA ClosingType ==
  ASSUME TypeOK,
         ReuseNumber \/ \E t \in Threads : Close(t) \/ Release(t) \/ Learn(t)
  PROVE  TypeOK'
<1>1. ASSUME NEW t \in Threads, NEW label \in Labels \ {"write"},
             Goto(t, label), UNCHANGED <<request, locals, result>>
      PROVE  FrameType'
  BY <1>1, StepType DEF TypeOK
<1>2. ASSUME NEW t \in Threads, Close(t) PROVE TypeOK'
  <2>1. FrameType'
    BY <1>1, <1>2 DEF Close, Labels
  <2>2. PortType'
    BY <1>2 DEF TypeOK, PortType, Close, kernel
  <2>. QED BY <2>1, <2>2 DEF TypeOK
<1>3. ASSUME NEW t \in Threads, Release(t) PROVE TypeOK'
  <2>1. FrameType'
    BY <1>1, <1>3 DEF Release, Labels
  <2>2. PortType'
    BY <1>3 DEF TypeOK, PortType, Release, kernel
  <2>. QED BY <2>1, <2>2 DEF TypeOK
<1>4. ASSUME NEW t \in Threads, Learn(t) PROVE TypeOK'
  BY <1>4 DEF TypeOK, PortType, FrameType, Learn, kernel, frame, locals, At, Op
<1>5. CASE ReuseNumber
  BY <1>5 DEF TypeOK, PortType, FrameType, ReuseNumber, kernel, frame, locals, At, Op
<1>. QED BY <1>2, <1>3, <1>4, <1>5

LEMMA NextType ==
  ASSUME TypeOK, [Next]_vars
  PROVE  TypeOK'
<1>1. CASE UNCHANGED vars
  BY <1>1 DEF TypeOK, PortType, FrameType, vars, socket, kernel, frame, locals, At, Op
<1>2. ASSUME NEW t \in Threads, Opening(t) PROVE TypeOK'
  BY <1>2, OpeningType
<1>3. ASSUME NEW t \in Threads, Setting(t) PROVE TypeOK'
  BY <1>3, SettingType
<1>4. CASE ReuseNumber \/ \E t \in Threads : Close(t) \/ Release(t) \/ Learn(t)
  BY <1>4, ClosingType
<1>. QED BY <1>1, <1>2, <1>3, <1>4 DEF Next

\* The settings, the frames of the calls and what they are about to write have their
\* types, whatever is called by whom and whatever terminal the number names.
THEOREM SettingsTypeCorrect == Spec => []TypeOK
<1>1. Init => TypeOK
  BY InitType
<1>2. TypeOK /\ [Next]_vars => TypeOK'
  BY NextType
<1>. QED BY <1>1, <1>2, PTL DEF Spec

------------------------------------------------------------------------------
(* The phases of the socket and of the calls. *)

\* A thread that makes no call.
Resting == {"idle", "return", "close"}

\* How far a call may be, and what its thread may rely on: while open runs, the thread
\* that opens the port is alone with it.
Phase(t) ==
  /\ pc[t] \in Resting <=> Op(t) = "none"
  /\ pc[t] \in {"attributes", "flush", "events"} => Op(t) = "open"
  /\ pc[t] = "read" => Op(t) # "open"
  /\ pc[t] = "close" => stage = "closing"
  /\ Op(t) = "open" => /\ stage = "opening" /\ file = "port" /\ fd = "number"
                       /\ \A u \in Threads \ {t} : Op(u) = "none"
  /\ Op(t) \in Ops => stage \in {"open", "closing"}
  /\ Detaches /\ t \in knows => pc[t] \in {"idle", "read", "return"}

\* What the stage says of the file and its number.
Stages ==
  /\ stage = "new" => file = "none" /\ fd = "INVALID_FD"
  /\ stage = "failed" => file \in {"none", "free"} /\ (Detaches => fd = "INVALID_FD")
  /\ Detaches /\ stage = "closing" => fd = "INVALID_FD"
  /\ knows # {} => stage = "closing"

PhaseInv == Stages /\ \A t \in Threads : Phase(t)

\* What an invalid number says of a thread that makes a system call.
Unaware(t) == Detaches => t \notin knows

\* The steps that only open goes on to.
Proceeds(t, label) == label \in {"write", "verify"} \/ (label \in {"flush", "events"} /\ Op(t) = "open")

\* When a call ends without touching the socket, the phases are kept.
LEMMA FinishPhase ==
  ASSUME TypeOK, PhaseInv, NEW t \in Threads, NEW r, Finish(t, r), UNCHANGED socket
  PROVE  PhaseInv'
<1>1. /\ pc'[t] = "return" /\ Op(t)' = "none"
      /\ \A u \in Threads \ {t} : pc'[u] = pc[u] /\ Op(u)' = Op(u)
  BY DEF TypeOK, FrameType, Finish, Goto, Op, NoRequest
<1>2. Stages'
  BY DEF PhaseInv, Stages, socket
<1>3. Phase(t)'
  BY <1>1 DEF Phase, Resting, Ops, Setters, LineOps
<1>4. ASSUME NEW u \in Threads \ {t} PROVE Phase(u)'
  BY <1>1 DEF PhaseInv, Phase, socket
<1>. QED BY <1>2, <1>3, <1>4 DEF PhaseInv

\* They are kept when a call goes on to its next step.
LEMMA GotoPhase ==
  ASSUME TypeOK, PhaseInv, NEW t \in Threads, NEW label \in Labels, Goto(t, label),
         UNCHANGED <<socket, request>>,
         pc[t] \notin Resting,
         Proceeds(t, label),
         Unaware(t)
  PROVE  PhaseInv'
<1>1. /\ pc'[t] = label
      /\ \A u \in Threads \ {t} : pc'[u] = pc[u]
      /\ \A u \in Threads : Op(u)' = Op(u)
  BY DEF TypeOK, FrameType, Goto, Op
<1>2. Stages'
  BY DEF PhaseInv, Stages, socket
<1>3. Phase(t)'
  BY <1>1 DEF PhaseInv, Phase, Resting, Unaware, Proceeds, socket
<1>4. ASSUME NEW u \in Threads \ {t} PROVE Phase(u)'
  BY <1>1 DEF PhaseInv, Phase, socket
<1>. QED BY <1>2, <1>3, <1>4 DEF PhaseInv

\* A failing open leaves no file behind, any other call that fails the socket as it was.
LEMMA FailPhase ==
  ASSUME TypeOK, PhaseInv, NEW t \in Threads, NEW r, Fail(t, r)
  PROVE  PhaseInv'
<1>1. CASE Op(t) # "open"
  BY <1>1, FinishPhase DEF Fail
<1>2. CASE Op(t) = "open"
  <2>1. /\ pc'[t] = "return" /\ Op(t)' = "none"
        /\ \A u \in Threads \ {t} : pc'[u] = pc[u] /\ Op(u)' = Op(u)
    BY DEF TypeOK, FrameType, Fail, Finish, Goto, Op, NoRequest
  <2>2. stage = "opening" /\ knows = {} /\ \A u \in Threads \ {t} : Op(u) = "none"
    BY <1>2 DEF PhaseInv, Phase, Stages
  <2>3. /\ fd' = "INVALID_FD" /\ file' = "free" /\ stage' = "failed" /\ knows' = {}
    BY <1>2, <2>2 DEF Fail
  <2>4. Stages'
    BY <2>3 DEF Stages
  <2>5. Phase(t)'
    BY <2>1 DEF Phase, Resting, Ops, Setters, LineOps
  <2>6. ASSUME NEW u \in Threads \ {t} PROVE Phase(u)'
    BY <2>1, <2>2, <2>3 DEF PhaseInv, Phase, Resting, Ops, Setters, LineOps
  <2>. QED BY <2>4, <2>5, <2>6 DEF PhaseInv
<1>. QED BY <1>1, <1>2

\* The steps of open keep the phases.
LEMMA OpeningPhase ==
  ASSUME TypeOK, PhaseInv, NEW t \in Threads, Opening(t)
  PROVE  PhaseInv'
<1>1. CASE Open(t)
  <2>1. /\ stage = "new" /\ file = "none" /\ fd = "INVALID_FD" /\ knows = {} /\ knows' = {}
        /\ \A u \in Threads : Op(u) = "none" /\ pc[u] \in Resting
    <3>1. \A u \in Threads : Op(u) \notin Ops /\ Op(u) # "open"
      BY <1>1 DEF Open, PhaseInv, Phase
    <3>2. \A u \in Threads : Op(u) = "none"
      BY <3>1, RequestFacts DEF TypeOK
    <3>. QED BY <1>1, <3>2 DEF Open, PhaseInv, Phase, Stages
  <2>2. CASE /\ fd' = "number" /\ file' = "port" /\ stage' = "opening"
             /\ Goto(t, "attributes")
             /\ \E r \in OpenRequests : request' = [request EXCEPT ![t] = r]
    <3>1. /\ pc'[t] = "attributes" /\ Op(t)' = "open"
          /\ \A u \in Threads \ {t} : pc'[u] = pc[u] /\ Op(u)' = Op(u)
      BY <2>2 DEF TypeOK, FrameType, Goto, Op, OpenRequests
    <3>2. Stages'
      BY <2>1, <2>2 DEF Stages
    <3>3. Phase(t)'
      BY <2>1, <2>2, <3>1 DEF Phase, Resting, Ops, Setters, LineOps
    <3>4. ASSUME NEW u \in Threads \ {t} PROVE Phase(u)'
      BY <2>1, <2>2, <3>1 DEF PhaseInv, Phase, Resting, Ops, Setters, LineOps
    <3>. QED BY <3>2, <3>3, <3>4 DEF PhaseInv
  <2>3. CASE stage' = "failed" /\ Goto(t, "return") /\ UNCHANGED <<fd, file, request>>
    <3>1. /\ pc'[t] = "return"
          /\ \A u \in Threads \ {t} : pc'[u] = pc[u]
          /\ \A u \in Threads : Op(u)' = Op(u)
      BY <2>3 DEF TypeOK, FrameType, Goto, Op
    <3>2. Stages'
      BY <2>1, <2>3 DEF Stages
    <3>3. Phase(t)'
      BY <2>1, <3>1 DEF Phase, Resting, Ops, Setters, LineOps
    <3>4. ASSUME NEW u \in Threads \ {t} PROVE Phase(u)'
      BY <2>1, <3>1 DEF PhaseInv, Phase, Resting, Ops, Setters, LineOps
    <3>. QED BY <3>2, <3>3, <3>4 DEF PhaseInv
  <2>. QED BY <1>1, <2>2, <2>3 DEF Open
<1>2. ASSUME pc[t] \in {"attributes", "flush", "events"}
      PROVE  Op(t) = "open" /\ stage = "opening" /\ knows = {} /\ pc[t] \notin Resting /\ Unaware(t)
  BY <1>2 DEF PhaseInv, Phase, Stages, Resting, Unaware
<1>3. CASE Attributes(t)
  <2>1. CASE \E r \in Results : Fail(t, r)
    BY <2>1, FailPhase
  <2>2. CASE Goto(t, "write") /\ UNCHANGED <<socket, request>>
    BY <1>2, <1>3, <2>2, GotoPhase DEF Attributes, At, Labels, Proceeds
  <2>. QED BY <1>3, <2>1, <2>2 DEF Attributes, Apply, Results
<1>4. CASE FlushDevice(t)
  <2>1. CASE Fail(t, "nativeError")
    BY <2>1, FailPhase
  <2>2. CASE Goto(t, "events") /\ UNCHANGED <<socket, request>>
    BY <1>2, <1>4, <2>2, GotoPhase DEF FlushDevice, At, Labels, Proceeds
  <2>. QED BY <1>4, <2>1, <2>2 DEF FlushDevice
<1>5. CASE CreateEvents(t)
  <2>1. /\ pc'[t] = "return" /\ Op(t)' = "none"
        /\ \A u \in Threads \ {t} : pc'[u] = pc[u] /\ Op(u)' = Op(u)
    BY <1>5 DEF TypeOK, FrameType, CreateEvents, Finish, Goto, Op, NoRequest
  <2>2. knows = {} /\ knows' = {} /\ \A u \in Threads \ {t} : Op(u) = "none" /\ pc[u] \in Resting
    BY <1>2, <1>5 DEF CreateEvents, At, PhaseInv, Phase
  <2>3. \A u \in Threads \ {t} : pc[u] # "close"
    BY <1>2, <1>5 DEF CreateEvents, At, PhaseInv, Phase
  <2>4. Stages'
    BY <1>5, <2>2 DEF CreateEvents, PhaseInv, Stages
  <2>5. Phase(t)'
    BY <2>1 DEF Phase, Resting, Ops, Setters, LineOps
  <2>6. ASSUME NEW u \in Threads \ {t} PROVE Phase(u)'
    BY <2>1, <2>2, <2>3 DEF PhaseInv, Phase, Ops, Setters, LineOps
  <2>. QED BY <2>4, <2>5, <2>6 DEF PhaseInv
<1>. QED BY <1>1, <1>3, <1>4, <1>5 DEF Opening

\* So do the calls on the open port: one that knows of the close ends at once.
LEMMA KnowingReadsNothing ==
  ASSUME TypeOK, PhaseInv, NEW t \in Threads, Detaches, t \in knows
  PROVE  Named(t) = {"free"} /\ Terminals(t) = {}
<1>1. fd = "INVALID_FD"
  BY DEF PhaseInv, Stages
<1>. QED BY <1>1, TerminalsType DEF TypeOK

LEMMA SettingPhase ==
  ASSUME TypeOK, PhaseInv, NEW t \in Threads, Setting(t)
  PROVE  PhaseInv'
<1>0. /\ "write" \in Labels /\ "verify" \in Labels /\ "flush" \in Labels
      /\ Proceeds(t, "write") /\ Proceeds(t, "verify") /\ (Op(t) = "open" => Proceeds(t, "flush"))
  BY DEF Labels, Proceeds
<1>1. CASE Call(t)
  <2>1. /\ pc[t] = "idle" /\ pc'[t] = "read" /\ Op(t)' \in Ops
        /\ \A u \in Threads \ {t} : pc'[u] = pc[u] /\ Op(u)' = Op(u)
        /\ UNCHANGED socket
    BY <1>1, ConfigurationAssumption DEF TypeOK, FrameType, Call, Idle, Goto, Op
  <2>2. stage \in {"open", "closing"} /\ stage' = stage /\ knows' = knows
    BY <1>1 DEF Call, socket
  <2>3. Stages'
    BY <2>1 DEF PhaseInv, Stages, socket
  <2>4. Phase(t)'
    BY <2>1, <2>2 DEF Phase, Resting, Ops, Setters, LineOps
  <2>5. ASSUME NEW u \in Threads \ {t} PROVE Phase(u)'
    BY <2>1, <2>2 DEF PhaseInv, Phase, socket
  <2>. QED BY <2>3, <2>4, <2>5 DEF PhaseInv
<1>2. CASE \E r : Fail(t, r)
  BY <1>2, FailPhase
<1>3. CASE \E r : Finish(t, r) /\ UNCHANGED socket
  BY <1>3, FinishPhase
<1>4. CASE /\ Goto(t, "write") /\ UNCHANGED <<socket, request>>
           /\ At(t, "read") /\ (Terminals(t) # {} \/ Named(t) # {"free"})
  <2>1. pc[t] \notin Resting
    BY <1>4 DEF At, Resting
  <2>2. Unaware(t)
    BY <1>4, KnowingReadsNothing DEF Unaware
  <2>. QED BY <1>0, <1>4, <2>1, <2>2, GotoPhase
<1>5. CASE ReadParams(t)
  BY <1>2, <1>4, <1>5 DEF ReadParams, Apply
<1>6. CASE ReadChars(t)
  BY <1>4, <1>6 DEF ReadChars
<1>7. CASE ReadLines(t)
  BY <1>4, <1>7 DEF ReadLines
<1>8. ASSUME At(t, "write") \/ At(t, "verify")
      PROVE  pc[t] \notin Resting /\ Unaware(t)
  BY <1>8 DEF At, Resting, PhaseInv, Phase, Unaware
<1>9. CASE Write(t)
  <2>1. CASE Op(t) \in LineOps
    BY <1>3, <1>9, <2>1 DEF Write
  <2>2. CASE Op(t) \notin LineOps
    <3>1. At(t, "write") /\ Goto(t, "verify") /\ UNCHANGED <<socket, request>>
      BY <1>9, <2>2 DEF Write
    <3>2. pc[t] \notin Resting /\ Unaware(t)
      BY <1>8, <3>1
    <3>. QED BY <1>0, <3>1, <3>2, GotoPhase
  <2>. QED BY <2>1, <2>2
<1>10. CASE Verify(t)
  <2>1. CASE Op(t) = "open" /\ Goto(t, "flush") /\ UNCHANGED <<socket, request>>
    BY <1>0, <1>8, <1>10, <2>1, GotoPhase DEF Verify
  <2>2. CASE Fail(t, "notSet")
    BY <1>2, <2>2
  <2>3. CASE Finish(t, "ok") /\ UNCHANGED socket
    BY <1>3, <2>3
  <2>. QED BY <1>10, <2>1, <2>2, <2>3 DEF Verify
<1>11. CASE Return(t)
  <2>1. /\ pc[t] = "return" /\ pc'[t] = "idle"
        /\ \A u \in Threads \ {t} : pc'[u] = pc[u]
        /\ \A u \in Threads : Op(u)' = Op(u)
        /\ UNCHANGED socket
    BY <1>11 DEF TypeOK, FrameType, Return, At, Goto, Op
  <2>2. Stages'
    BY <2>1 DEF PhaseInv, Stages, socket
  <2>3. Phase(t)'
    BY <2>1 DEF PhaseInv, Phase, Resting, socket
  <2>4. ASSUME NEW u \in Threads \ {t} PROVE Phase(u)'
    BY <2>1 DEF PhaseInv, Phase, socket
  <2>. QED BY <2>2, <2>3, <2>4 DEF PhaseInv
<1>12. CASE ReadFails(t) \/ WriteFails(t) \/ VerifyFails(t)
  <2>1. \E r : Fail(t, r)
    BY <1>12, Zenon DEF ReadFails, WriteFails, VerifyFails
  <2>. QED BY <1>2, <2>1
<1>13. CASE ReadOnly(t)
  BY <1>3, <1>13 DEF ReadOnly
<1>. QED BY <1>1, <1>5, <1>6, <1>7, <1>9, <1>10, <1>11, <1>12, <1>13 DEF Setting

\* The close moves the socket to its last stage, where the number may be given away.
LEMMA ClosingPhase ==
  ASSUME TypeOK, PhaseInv,
         ReuseNumber \/ \E t \in Threads : Close(t) \/ Release(t) \/ Learn(t)
  PROVE  PhaseInv'
<1>1. stage \in {"open", "closing"} => \A u \in Threads : Op(u) # "open"
  BY DEF PhaseInv, Phase
<1>2. ASSUME NEW t \in Threads, Close(t) PROVE PhaseInv'
  <2>1. /\ pc[t] = "idle" /\ pc'[t] = "close"
        /\ \A u \in Threads \ {t} : pc'[u] = pc[u]
        /\ \A u \in Threads : Op(u)' = Op(u)
        /\ stage = "open" /\ stage' = "closing" /\ knows = {} /\ knows' = {}
        /\ file' = file /\ fd' = IF Detaches THEN "INVALID_FD" ELSE fd
    BY <1>2 DEF TypeOK, FrameType, Close, Idle, Goto, Op, PhaseInv, Stages
  <2>2. Stages'
    BY <2>1 DEF Stages
  <2>3. Phase(t)'
    BY <1>1, <2>1 DEF PhaseInv, Phase, Resting
  <2>4. ASSUME NEW u \in Threads \ {t} PROVE Phase(u)'
    BY <1>1, <2>1 DEF PhaseInv, Phase
  <2>. QED BY <2>2, <2>3, <2>4 DEF PhaseInv
<1>3. ASSUME NEW t \in Threads, Release(t) PROVE PhaseInv'
  <2>1. /\ pc[t] = "close" /\ pc'[t] = "idle"
        /\ \A u \in Threads \ {t} : pc'[u] = pc[u]
        /\ \A u \in Threads : Op(u)' = Op(u)
        /\ stage = "closing" /\ stage' = "closing" /\ knows' = {t} /\ fd' = fd
    BY <1>3 DEF TypeOK, FrameType, Release, At, Goto, Op, PhaseInv, Phase
  <2>2. Stages'
    BY <2>1 DEF PhaseInv, Stages
  <2>3. Phase(t)'
    BY <1>1, <2>1 DEF PhaseInv, Phase, Resting
  <2>4. ASSUME NEW u \in Threads \ {t} PROVE Phase(u)'
    BY <1>1, <2>1 DEF PhaseInv, Phase
  <2>. QED BY <2>2, <2>3, <2>4 DEF PhaseInv
<1>4. ASSUME NEW t \in Threads, Learn(t) PROVE PhaseInv'
  <2>1. /\ pc[t] = "idle" /\ pc' = pc
        /\ \A u \in Threads : Op(u)' = Op(u)
        /\ stage = "closing" /\ stage' = stage /\ knows' = knows \cup {t}
        /\ fd' = fd /\ file' = file
    BY <1>4 DEF Learn, Idle, Op, frame, PhaseInv, Stages
  <2>2. Stages'
    BY <2>1 DEF PhaseInv, Stages
  <2>3. ASSUME NEW u \in Threads PROVE Phase(u)'
    BY <1>1, <2>1 DEF PhaseInv, Phase
  <2>. QED BY <2>2, <2>3 DEF PhaseInv
<1>5. CASE ReuseNumber
  <2>1. /\ pc' = pc /\ \A u \in Threads : Op(u)' = Op(u)
        /\ stage = "closing" /\ stage' = stage /\ knows' = knows /\ fd' = fd
    BY <1>5 DEF ReuseNumber, Op, frame
  <2>2. Stages'
    BY <2>1 DEF PhaseInv, Stages
  <2>3. ASSUME NEW u \in Threads PROVE Phase(u)'
    BY <1>1, <2>1 DEF PhaseInv, Phase
  <2>. QED BY <2>2, <2>3 DEF PhaseInv
<1>. QED BY <1>2, <1>3, <1>4, <1>5

LEMMA NextPhase ==
  ASSUME TypeOK, PhaseInv, [Next]_vars
  PROVE  PhaseInv'
<1>1. CASE UNCHANGED vars
  BY <1>1 DEF PhaseInv, Stages, Phase, vars, socket, frame, Op
<1>2. ASSUME NEW t \in Threads, Opening(t) PROVE PhaseInv'
  BY <1>2, OpeningPhase
<1>3. ASSUME NEW t \in Threads, Setting(t) PROVE PhaseInv'
  BY <1>3, SettingPhase
<1>4. CASE ReuseNumber \/ \E t \in Threads : Close(t) \/ Release(t) \/ Learn(t)
  BY <1>4, ClosingPhase
<1>. QED BY <1>1, <1>2, <1>3, <1>4 DEF Next

\* The phases follow one another as the code has it: the thread that opens the port is
\* alone with it until open returns, and nobody knows of a close that has not been.
THEOREM PhasesInOrder == Spec => []PhaseInv
<1>1. Init => PhaseInv
  BY DEF Init, PhaseInv, Stages, Phase, Resting, Op, NoRequest, Ops, Setters, LineOps
<1>2. TypeOK /\ PhaseInv /\ [Next]_vars => PhaseInv'
  BY NextPhase
<1>. QED BY <1>1, <1>2, SettingsTypeCorrect, PTL DEF Spec

\* If implCloseChannel tells the configuration that the file is closed, then an open
\* that failed, at any of its steps, leaves neither the file nor its number behind.
THEOREM FailedOpenIsClosed ==
  ASSUME Detaches PROVE Spec => []FailedOpenClosesPort
<1>1. PhaseInv => FailedOpenClosesPort
  BY DEF PhaseInv, Stages, FailedOpenClosesPort
<1>. QED BY <1>1, PhasesInOrder, PTL

\* If it does, every call of a thread that knows of the close ends with PORT_IS_CLOSED,
\* also when the number is another terminal's by then: it reads and writes nothing.
THEOREM KnownCloseIsReported ==
  ASSUME Detaches PROVE Spec => ClosedIsReported
<1>. DEFINE Told == \A t \in knows : Ends(t) => result'[t] = "PORT_IS_CLOSED"
<1>1. ASSUME TypeOK, PhaseInv, [Next]_vars PROVE [Told]_vars
  <2>. SUFFICES ASSUME Next, NEW t \in knows, Ends(t)
                PROVE  result'[t] = "PORT_IS_CLOSED"
    BY <1>1
  <2>1. t \in Threads /\ stage = "closing" /\ fd = "INVALID_FD" /\ Op(t) # "open"
    BY <1>1 DEF TypeOK, PortType, PhaseInv, Phase, Stages
  <2>2. pc[t] \in {"idle", "read"} /\ pc'[t] = "return"
    BY <1>1, <2>1 DEF Ends, PhaseInv, Phase
  <2>3. Named(t) = {"free"} /\ Terminals(t) = {}
    BY <1>1, <2>1, KnowingReadsNothing
  <2>4. ASSUME NEW u \in Threads \ {t}, NEW label, Goto(u, label) PROVE FALSE
    BY <1>1, <2>1, <2>2, <2>4 DEF TypeOK, FrameType, Goto
  <2>5. ASSUME NEW label \in {"read", "idle", "write", "close"}, Goto(t, label) PROVE FALSE
    BY <1>1, <2>1, <2>2, <2>5 DEF TypeOK, FrameType, Goto
  <2>6. ReadFails(t)
    <3>1. ASSUME pc' = pc PROVE FALSE
      BY <2>2, <3>1
    <3>2. PICK u \in Threads : Opening(u) \/ Setting(u) \/ Close(u) \/ Release(u) \/ Learn(u)
      BY <3>1, <1>1 DEF Next, ReuseNumber, frame
    <3>3. u = t
      BY <2>4, <3>1, <3>2
         DEF Opening, Open, Attributes, FlushDevice, CreateEvents, Apply, Fail, Finish,
             Setting, Call, ReadFails, ReadParams, ReadChars, ReadOnly, ReadLines,
             Write, WriteFails, Verify, VerifyFails, Return, Close, Release, Learn, frame
    <3>4. CASE Opening(t)
      BY <2>1, <2>2, <3>4 DEF Opening, Open, Attributes, FlushDevice, CreateEvents, At
    <3>5. CASE Setting(t)
      BY <2>2, <2>3, <2>5, <3>5
         DEF Setting, Call, ReadParams, ReadChars, ReadOnly, ReadLines,
             Write, WriteFails, Verify, VerifyFails, Return, At
    <3>6. CASE Close(t) \/ Release(t) \/ Learn(t)
      BY <2>5, <3>1, <3>6 DEF Close, Release, Learn, frame
    <3>. QED BY <3>2, <3>3, <3>4, <3>5, <3>6
  <2>7. PICK r \in formatMsg(t) : Fail(t, r)
    BY <2>6 DEF ReadFails
  <2>8. r = "PORT_IS_CLOSED"
    BY <1>1, <2>1, formatMsgType DEF TypeOK
  <2>. QED BY <1>1, <2>1, <2>7, <2>8 DEF Fail, Finish, TypeOK, FrameType
<1>2. TypeOK /\ PhaseInv /\ [Next]_vars => [Told]_vars
  BY <1>1
<1>. HIDE DEF Told
<1>3. Spec => [][Told]_vars
  BY <1>2, SettingsTypeCorrect, PhasesInOrder, PTL DEF Spec
<1>. QED BY <1>3 DEF ClosedIsReported, Told

------------------------------------------------------------------------------
(* The raw mode. *)

\* What is on its way into the terminal is raw, too.
RawThread(t) ==
  /\ Op(t) = "open" /\ pc[t] \in {"verify", "flush", "events"} => "COOKED" \notin termios.flags
  /\ pc[t] = "write" /\ Op(t) \notin LineOps /\ file = "port" => "COOKED" \notin draft[t].flags

RawInv == RawMode /\ \A t \in Threads : RawThread(t)

\* A step that leaves the terminal and the file alone keeps what is raw, when a thread
\* that prepares to write, and open when it goes on, have raw settings.
LEMMA RawKept ==
  ASSUME TypeOK, RawInv, NEW t \in Threads,
         termios' = termios, file' \in {file, "free", "other"},
         stage' = stage \/ "COOKED" \notin termios.flags \/ stage' \notin {"open", "closing"},
         \A u \in Threads \ {t} : pc'[u] = pc[u] /\ Op(u)' = Op(u) /\ draft'[u] = draft[u],
         RawThread(t)'
  PROVE  RawInv'
<1>1. RawMode'
  BY DEF RawInv, RawMode
<1>2. file' = "port" => file = "port"
  OBVIOUS
<1>3. ASSUME NEW u \in Threads \ {t} PROVE RawThread(u)'
  BY <1>2 DEF RawInv, RawThread
<1>. QED BY <1>1, <1>3 DEF RawInv

\* A call that ends keeps it.
LEMMA FinishRaw ==
  ASSUME TypeOK, RawInv, NEW t \in Threads, NEW r, Finish(t, r),
         termios' = termios, file' \in {file, "free"},
         stage' = stage \/ "COOKED" \notin termios.flags \/ stage' \notin {"open", "closing"}
  PROVE  RawInv'
<1>1. /\ pc'[t] = "return"
      /\ \A u \in Threads \ {t} : pc'[u] = pc[u] /\ Op(u)' = Op(u) /\ draft'[u] = draft[u]
  BY DEF TypeOK, FrameType, Finish, Goto, Op
<1>2. RawThread(t)'
  BY <1>1 DEF RawThread
<1>. QED BY <1>1, <1>2, RawKept

LEMMA FailRaw ==
  ASSUME TypeOK, RawInv, NEW t \in Threads, NEW r, Fail(t, r)
  PROVE  RawInv'
<1>1. Finish(t, r) /\ termios' = termios /\ file' \in {file, "free"}
      /\ (stage' = stage \/ stage' = "failed")
  BY DEF Fail, socket, kernel
<1>. QED BY <1>1, FinishRaw

\* So does one that applies its arguments to raw settings.
LEMMA ApplyRaw ==
  ASSUME TypeOK, RawInv, NEW t \in Threads, NEW tm \in Termios, Apply(t, tm),
         file = "port" => "COOKED" \notin tm.flags
  PROVE  RawInv'
<1>1. CASE Fail(t, "rejected")
  BY <1>1, FailRaw
<1>2. CASE /\ draft' = [draft EXCEPT ![t] = Modified(Ask(t), tm)]
           /\ Goto(t, "write")
           /\ UNCHANGED <<socket, kernel, request, lineStatus, result, before>>
  <2>1. /\ pc'[t] = "write" /\ draft'[t] = Modified(Ask(t), tm)
        /\ \A u \in Threads \ {t} : pc'[u] = pc[u] /\ Op(u)' = Op(u) /\ draft'[u] = draft[u]
    BY <1>2 DEF TypeOK, FrameType, Goto, Op
  <2>2. IsAsk(Ask(t))
    BY RequestFacts DEF TypeOK
  <2>3. file = "port" => "COOKED" \notin draft'[t].flags
    BY <2>1, <2>2, ModifiedType
  <2>4. termios' = termios /\ file' = file /\ stage' = stage
    BY <1>2 DEF socket, kernel
  <2>5. RawThread(t)'
    BY <2>1, <2>3, <2>4 DEF RawThread
  <2>. QED BY <2>1, <2>4, <2>5, RawKept
<1>. QED BY <1>1, <1>2 DEF Apply

\* The steps of open keep it: what it writes first is raw.
LEMMA OpeningRaw ==
  ASSUME TypeOK, PhaseInv, RawInv, NEW t \in Threads, Opening(t)
  PROVE  RawInv'
<1>1. CASE Open(t)
  <2>1. stage' \in {"opening", "failed"} /\ UNCHANGED <<termios, draft>>
    BY <1>1 DEF Open, kernel, locals
  <2>2. \A u \in Threads : pc[u] \in Resting
    <3>1. \A u \in Threads : Op(u) \notin Ops /\ Op(u) # "open"
      BY <1>1 DEF Open, PhaseInv, Phase
    <3>2. \A u \in Threads : Op(u) = "none"
      BY <3>1, RequestFacts DEF TypeOK
    <3>. QED BY <3>2 DEF PhaseInv, Phase
  <2>3. \A u \in Threads : pc'[u] \in Resting \cup {"attributes"}
    BY <1>1, <2>2 DEF TypeOK, FrameType, Open, Goto, Resting
  <2>. QED BY <2>1, <2>3 DEF RawInv, RawMode, RawThread, Resting
<1>2. CASE Attributes(t)
  <2>1. Raw(termios) \in Termios /\ "COOKED" \notin Raw(termios).flags
    BY RawType DEF TypeOK, PortType
  <2>. QED BY <1>2, <2>1, ApplyRaw, FailRaw DEF Attributes
<1>3. CASE FlushDevice(t)
  <2>1. CASE /\ Goto(t, "events")
             /\ UNCHANGED <<socket, kernel, request, locals>>
    <3>1. /\ pc'[t] = "events" /\ pc[t] = "flush" /\ Op(t)' = Op(t)
          /\ \A u \in Threads \ {t} : pc'[u] = pc[u] /\ Op(u)' = Op(u) /\ draft'[u] = draft[u]
      BY <1>3, <2>1 DEF FlushDevice, At, TypeOK, FrameType, Goto, Op, locals
    <3>2. termios' = termios /\ file' = file /\ stage' = stage
      BY <2>1 DEF socket, kernel
    <3>3. RawThread(t)'
      BY <3>1, <3>2 DEF RawInv, RawThread
    <3>. QED BY <3>1, <3>2, <3>3, RawKept
  <2>. QED BY <1>3, <2>1, FailRaw DEF FlushDevice
<1>4. CASE CreateEvents(t)
  <2>1. pc[t] = "events" /\ Op(t) = "open"
    BY <1>4 DEF CreateEvents, At, PhaseInv, Phase
  <2>2. "COOKED" \notin termios.flags
    BY <2>1 DEF RawInv, RawThread
  <2>3. /\ termios' = termios /\ file' \in {file, "free"}
        /\ \E r : Finish(t, r)
    BY <1>4 DEF CreateEvents, kernel
  <2>. QED BY <2>2, <2>3, FinishRaw
<1>. QED BY <1>1, <1>2, <1>3, <1>4 DEF Opening

\* So do the calls: they write back what they read, but for the bits they change.
LEMMA SettingRaw ==
  ASSUME TypeOK, PhaseInv, RawInv, NEW t \in Threads, Setting(t)
  PROVE  RawInv'
<1>1. ASSUME NEW label \in Labels \ {"write", "verify", "flush", "events"},
             Goto(t, label), \A u \in Threads \ {t} : Op(u)' = Op(u),
             UNCHANGED <<socket, kernel, locals>>
      PROVE  RawInv'
  <2>1. /\ pc'[t] = label
        /\ \A u \in Threads \ {t} : pc'[u] = pc[u] /\ draft'[u] = draft[u]
    BY <1>1 DEF TypeOK, FrameType, Goto, locals
  <2>2. termios' = termios /\ file' = file /\ stage' = stage
    BY <1>1 DEF socket, kernel
  <2>3. RawThread(t)'
    BY <2>1 DEF RawThread
  <2>. QED BY <1>1, <2>1, <2>2, <2>3, RawKept
<1>2. CASE Call(t)
  <2>1. Goto(t, "read") /\ UNCHANGED <<socket, kernel, locals>>
        /\ \A u \in Threads \ {t} : Op(u)' = Op(u)
    BY <1>2 DEF Call, TypeOK, FrameType, Op
  <2>. QED BY <1>1, <2>1 DEF Labels
<1>3. CASE Return(t)
  <2>1. Goto(t, "idle") /\ UNCHANGED <<socket, kernel, locals>>
        /\ \A u \in Threads \ {t} : Op(u)' = Op(u)
    BY <1>3 DEF Return, Op
  <2>. QED BY <1>1, <2>1 DEF Labels
<1>4. CASE \E r : Fail(t, r)
  BY <1>4, FailRaw
<1>5. CASE \E r : Finish(t, r) /\ UNCHANGED <<socket, termios>>
  BY <1>5, FinishRaw DEF socket
<1>6. CASE ReadFails(t) \/ WriteFails(t) \/ VerifyFails(t)
  <2>1. \E r : Fail(t, r)
    BY <1>6, Zenon DEF ReadFails, WriteFails, VerifyFails
  <2>. QED BY <1>4, <2>1
<1>7. CASE ReadOnly(t)
  BY <1>5, <1>7 DEF ReadOnly, kernel
<1>8. ASSUME At(t, "read"), NEW tm \in Terminals(t), file = "port"
      PROVE  "COOKED" \notin tm.flags
  <2>1. tm = termios
    BY <1>8, TerminalsType DEF TypeOK
  <2>2. Op(t) # "open" /\ Op(t) # "none"
    BY <1>8 DEF At, PhaseInv, Phase, Resting
  <2>3. Op(t) \in Ops
    BY <2>2, RequestFacts DEF TypeOK
  <2>4. stage \in {"open", "closing"}
    BY <2>3 DEF PhaseInv, Phase
  <2>. QED BY <2>1, <2>4 DEF RawInv, RawMode
<1>9. CASE ReadParams(t)
  <2>1. PICK tm \in Terminals(t) : Apply(t, tm)
    BY <1>9 DEF ReadParams
  <2>2. tm \in Termios
    BY TerminalsType DEF TypeOK
  <2>3. file = "port" => "COOKED" \notin tm.flags
    BY <1>8, <1>9 DEF ReadParams
  <2>. QED BY <2>1, <2>2, <2>3, ApplyRaw
<1>10. CASE ReadChars(t)
  <2>1. PICK tm \in Terminals(t) :
          draft' = [draft EXCEPT ![t] =
                      IF Op(t) = "setXONChar"
                      THEN [tm EXCEPT !.vstart = ToByte(Chosen(Ask(t).xon, 0))]
                      ELSE [tm EXCEPT !.vstop = ToByte(Chosen(Ask(t).xoff, 0))]]
    BY <1>10 DEF ReadChars
  <2>2. tm \in Termios
    BY TerminalsType DEF TypeOK
  <2>3. draft'[t].flags = tm.flags
    BY <2>1, <2>2 DEF TypeOK, FrameType, Termios
  <2>4. file = "port" => "COOKED" \notin tm.flags
    BY <1>8, <1>10 DEF ReadChars
  <2>5. pc'[t] = "write"
        /\ \A u \in Threads \ {t} : pc'[u] = pc[u] /\ Op(u)' = Op(u) /\ draft'[u] = draft[u]
    BY <1>10, <2>1 DEF ReadChars, TypeOK, FrameType, Goto, Op
  <2>6. termios' = termios /\ file' = file /\ stage' = stage
    BY <1>10 DEF ReadChars, socket, kernel
  <2>7. RawThread(t)'
    BY <2>3, <2>4, <2>5, <2>6 DEF RawThread
  <2>. QED BY <2>5, <2>6, <2>7, RawKept
<1>11. CASE ReadLines(t)
  <2>1. /\ pc'[t] = "write" /\ Op(t)' \in LineOps
        /\ \A u \in Threads \ {t} : pc'[u] = pc[u] /\ Op(u)' = Op(u) /\ draft'[u] = draft[u]
    BY <1>11 DEF ReadLines, TypeOK, FrameType, Goto, Op
  <2>2. termios' = termios /\ file' = file /\ stage' = stage
    BY <1>11 DEF ReadLines, socket, kernel
  <2>3. RawThread(t)'
    BY <2>1 DEF RawThread
  <2>. QED BY <2>1, <2>2, <2>3, RawKept
<1>12. CASE Write(t) /\ Op(t) \in LineOps
  BY <1>5, <1>12 DEF Write
<1>13. CASE Write(t) /\ Op(t) \notin LineOps
  <2>1. PICK name \in Named(t) \cap {"port", "other"} :
          termios' = IF name = "port" THEN Accepted(termios, draft[t]) ELSE termios
    BY <1>13 DEF Write
  <2>2. /\ pc[t] = "write" /\ pc'[t] = "verify"
        /\ \A u \in Threads : Op(u)' = Op(u)
        /\ \A u \in Threads \ {t} : pc'[u] = pc[u] /\ draft'[u] = draft[u]
        /\ file' = file /\ stage' = stage
    BY <1>13 DEF Write, At, TypeOK, FrameType, Goto, Op, socket
  <2>3. CASE name = "port"
    <3>1. file = "port"
      BY <2>3 DEF Named, Names
    <3>2. draft[t] \in Termios /\ "COOKED" \notin draft[t].flags
      BY <1>13, <2>2, <3>1 DEF Write, TypeOK, FrameType, RawInv, RawThread
    <3>3. "COOKED" \notin termios'.flags
      BY <2>1, <2>3, <3>2, AcceptedType DEF TypeOK, PortType
    <3>4. ASSUME NEW u \in Threads PROVE RawThread(u)'
      BY <2>2, <3>3 DEF RawInv, RawThread
    <3>. QED BY <3>3, <3>4 DEF RawInv, RawMode
  <2>4. CASE name # "port"
    <3>1. termios' = termios
      BY <2>1, <2>4
    <3>2. Op(t) # "open"
      <4>1. Op(t) = "open" => file = "port"
        BY DEF PhaseInv, Phase
      <4>2. Op(t) = "open" => Named(t) \subseteq {"free", "port"}
        BY <4>1 DEF Named, Names
      <4>. QED BY <2>1, <2>4, <4>2
    <3>3. RawThread(t)'
      BY <2>2, <3>2 DEF RawThread
    <3>. QED BY <2>2, <3>1, <3>3, RawKept
  <2>. QED BY <2>3, <2>4
<1>14. CASE Verify(t)
  <2>1. CASE Op(t) = "open" /\ Goto(t, "flush") /\ UNCHANGED <<socket, kernel, request, locals>>
    <3>1. /\ pc'[t] = "flush" /\ pc[t] = "verify" /\ Op(t)' = Op(t)
          /\ \A u \in Threads \ {t} : pc'[u] = pc[u] /\ Op(u)' = Op(u) /\ draft'[u] = draft[u]
      BY <1>14, <2>1 DEF Verify, At, TypeOK, FrameType, Goto, Op, locals
    <3>2. termios' = termios /\ file' = file /\ stage' = stage
      BY <2>1 DEF socket, kernel
    <3>3. RawThread(t)'
      BY <2>1, <3>1, <3>2 DEF RawInv, RawThread
    <3>. QED BY <3>1, <3>2, <3>3, RawKept
  <2>2. CASE Fail(t, "notSet")
    BY <1>4, <2>2
  <2>3. CASE Finish(t, "ok") /\ UNCHANGED <<socket, kernel>>
    BY <1>5, <2>3 DEF kernel
  <2>. QED BY <1>14, <2>1, <2>2, <2>3 DEF Verify
<1>. QED BY <1>2, <1>3, <1>6, <1>7, <1>9, <1>10, <1>11, <1>12, <1>13, <1>14 DEF Setting

LEMMA NextRaw ==
  ASSUME TypeOK, PhaseInv, RawInv, [Next]_vars
  PROVE  RawInv'
<1>1. CASE UNCHANGED vars
  BY <1>1 DEF RawInv, RawMode, RawThread, vars, socket, kernel, frame, locals, Op
<1>2. ASSUME NEW t \in Threads, Opening(t) PROVE RawInv'
  BY <1>2, OpeningRaw
<1>3. ASSUME NEW t \in Threads, Setting(t) PROVE RawInv'
  BY <1>3, SettingRaw
<1>4. ASSUME NEW t \in Threads, Close(t) \/ Release(t) \/ Learn(t) PROVE RawInv'
  <2>1. /\ pc' \in {pc, [pc EXCEPT ![t] = "close"], [pc EXCEPT ![t] = "idle"]}
        /\ UNCHANGED <<termios, request, draft>> /\ file' \in {file, "free"}
        /\ stage \in {"open", "closing"}
    BY <1>4 DEF Close, Release, Learn, Goto, At, kernel, frame, locals, PhaseInv, Phase, Stages
  <2>2. pc'[t] \in {pc[t], "close", "idle"} /\ \A u \in Threads \ {t} : pc'[u] = pc[u]
    BY <2>1 DEF TypeOK, FrameType
  <2>3. "COOKED" \notin termios.flags
    BY <2>1 DEF RawInv, RawMode
  <2>4. \A u \in Threads : RawThread(u)'
    BY <2>1, <2>2, <2>3 DEF RawInv, RawThread, Op
  <2>. QED BY <2>1, <2>3, <2>4 DEF RawInv, RawMode
<1>5. CASE ReuseNumber
  BY <1>5 DEF ReuseNumber, RawInv, RawMode, RawThread, kernel, frame, locals, Op
<1>. QED BY <1>1, <1>2, <1>3, <1>4, <1>5 DEF Next

\* From the moment that open returns the terminal of the port passes the data through,
\* whatever settings are made of it, by how many threads, and whatever a failed call,
\* the driver or the close leave of them.
THEOREM StaysRaw == Spec => []RawMode
<1>1. Init => RawInv
  BY DEF Init, RawInv, RawMode, RawThread
<1>2. TypeOK /\ PhaseInv /\ RawInv /\ [Next]_vars => RawInv'
  BY NextRaw
<1>3. RawInv => RawMode
  BY DEF RawInv
<1>. QED BY <1>1, <1>2, <1>3, SettingsTypeCorrect, PhasesInOrder, PTL DEF Spec

------------------------------------------------------------------------------
(* What a step of a thread leaves to the others. *)

\* The history has an entry for every thread.
HistoryShape == DOMAIN before = Threads

Steps(t) == Opening(t) \/ Setting(t) \/ Close(t) \/ Release(t) \/ Learn(t)

\* The frames of all but t stay as they are, and nobody's history begins.
Others(t) ==
  /\ \A u \in Threads \ {t} :
       /\ pc'[u] = pc[u] /\ request'[u] = request[u]
       /\ draft'[u] = draft[u] /\ lineStatus'[u] = lineStatus[u]
       /\ before'[u] = before[u] \/ before'[u] = {}
  /\ HistoryShape'

LEMMA FinishOthers ==
  ASSUME TypeOK, HistoryShape, NEW t \in Threads, NEW r, Finish(t, r)
  PROVE  Others(t)
BY DEF TypeOK, FrameType, HistoryShape, Others, Finish, Goto

LEMMA GotoOthers ==
  ASSUME TypeOK, HistoryShape, NEW t \in Threads, NEW label, Goto(t, label), UNCHANGED before,
         UNCHANGED request \/ \E r : request' = [request EXCEPT ![t] = r],
         UNCHANGED draft \/ \E d : draft' = [draft EXCEPT ![t] = d],
         UNCHANGED lineStatus \/ \E s : lineStatus' = [lineStatus EXCEPT ![t] = s]
  PROVE  Others(t)
<1>1. \A u \in Threads \ {t} : pc'[u] = pc[u]
  BY DEF TypeOK, FrameType, Goto
<1>2. \A u \in Threads \ {t} : request'[u] = request[u]
  BY DEF TypeOK, FrameType
<1>3. \A u \in Threads \ {t} : draft'[u] = draft[u]
  BY DEF TypeOK, FrameType
<1>4. \A u \in Threads \ {t} : lineStatus'[u] = lineStatus[u]
  BY DEF TypeOK, FrameType
<1>. QED BY <1>1, <1>2, <1>3, <1>4 DEF HistoryShape, Others

\* A thread writes its own frame.
LEMMA OthersKept ==
  ASSUME TypeOK, HistoryShape, NEW t \in Threads, Steps(t)
  PROVE  Others(t)
<1>1. CASE \E r : Finish(t, r)
  BY <1>1, FinishOthers
<1>2. CASE \E r : Fail(t, r)
  BY <1>1, <1>2 DEF Fail
<1>3. CASE \E tm : Apply(t, tm)
  BY <1>2, <1>3, GotoOthers DEF Apply
<1>4. CASE Opening(t)
  <2>1. CASE Open(t)
    BY <2>1, GotoOthers DEF Open, locals
  <2>2. CASE Attributes(t)
    BY <1>2, <1>3, <2>2 DEF Attributes
  <2>3. CASE FlushDevice(t)
    BY <1>2, <2>3, GotoOthers DEF FlushDevice, locals
  <2>4. CASE CreateEvents(t)
    BY <1>1, <2>4 DEF CreateEvents
  <2>. QED BY <1>4, <2>1, <2>2, <2>3, <2>4 DEF Opening
<1>5. CASE Call(t)
  <2>1. \A u \in Threads \ {t} :
          /\ pc'[u] = pc[u] /\ request'[u] = request[u]
          /\ draft'[u] = draft[u] /\ lineStatus'[u] = lineStatus[u]
    BY <1>5 DEF Call, Goto, TypeOK, FrameType, locals
  <2>2. HistoryShape' /\ \A u \in Threads \ {t} : before'[u] = {}
    BY <1>5 DEF Call, HistoryShape
  <2>. QED BY <2>1, <2>2 DEF Others
<1>6. CASE ReadFails(t) \/ WriteFails(t) \/ VerifyFails(t)
  <2>1. \E r : Fail(t, r)
    BY <1>6, Zenon DEF ReadFails, WriteFails, VerifyFails
  <2>. QED BY <1>2, <2>1
<1>7. CASE ReadParams(t)
  BY <1>3, <1>7 DEF ReadParams
<1>8. CASE ReadChars(t)
  <2>1. /\ Goto(t, "write") /\ UNCHANGED <<request, lineStatus, before>>
        /\ \E d : draft' = [draft EXCEPT ![t] = d]
    BY <1>8, Zenon DEF ReadChars
  <2>. QED BY <2>1, GotoOthers
<1>9. CASE ReadOnly(t)
  BY <1>1, <1>9 DEF ReadOnly
<1>10. CASE ReadLines(t)
  <2>1. /\ Goto(t, "write") /\ UNCHANGED <<request, draft, before>>
        /\ \E s : lineStatus' = [lineStatus EXCEPT ![t] = s]
    BY <1>10, Zenon DEF ReadLines
  <2>. QED BY <2>1, GotoOthers
<1>11. CASE Write(t)
  BY <1>1, <1>11, GotoOthers DEF Write
<1>12. CASE Verify(t)
  BY <1>1, <1>2, <1>12, GotoOthers DEF Verify, locals
<1>13. CASE Return(t) \/ Close(t) \/ Release(t)
  BY <1>13, GotoOthers DEF Return, Close, Release, locals
<1>14. CASE Learn(t)
  BY <1>14 DEF Learn, Others, HistoryShape, frame, locals
<1>. QED BY <1>4, <1>5, <1>6, <1>7, <1>8, <1>9, <1>10, <1>11, <1>12, <1>13, <1>14 DEF Steps, Setting

\* Only a system call that writes changes the settings.
LEMMA KernelKept ==
  ASSUME NEW t \in Threads, Steps(t), ~ Write(t)
  PROVE  UNCHANGED kernel
<1>1. CASE \E r : Fail(t, r)
  BY <1>1 DEF Fail
<1>2. CASE \E tm : Apply(t, tm)
  BY <1>1, <1>2 DEF Apply
<1>3. CASE Opening(t)
  BY <1>1, <1>2, <1>3 DEF Opening, Open, Attributes, FlushDevice, CreateEvents
<1>4. CASE ReadFails(t) \/ WriteFails(t) \/ VerifyFails(t)
  <2>1. \E r : Fail(t, r)
    BY <1>4, Zenon DEF ReadFails, WriteFails, VerifyFails
  <2>. QED BY <1>1, <2>1
<1>5. CASE Call(t) \/ ReadParams(t) \/ ReadChars(t) \/ ReadOnly(t) \/ ReadLines(t) \/ Return(t)
  BY <1>2, <1>5 DEF Call, ReadParams, ReadChars, ReadOnly, ReadLines, Return
<1>6. CASE Verify(t)
  BY <1>1, <1>6 DEF Verify
<1>7. CASE Close(t) \/ Release(t) \/ Learn(t)
  BY <1>7 DEF Close, Release, Learn
<1>. QED BY <1>3, <1>4, <1>5, <1>6, <1>7 DEF Steps, Setting

------------------------------------------------------------------------------
(* What is reported set. *)

\* A setter of a modem line has an argument for this line and no other item.
LEMMA LineAsk ==
  ASSUME FrameType, NEW t \in Threads, Op(t) \in LineOps
  PROVE  /\ LineOf(t) \in Lines
         /\ Ask(t)[LineOf(t)] = {TRUE} \/ Ask(t)[LineOf(t)] = {FALSE}
         /\ \A i \in Items \ {LineOf(t)} : Ask(t)[i] = {}
<1>1. request[t] \in Requests
  BY DEF FrameType, Op, LineOps, OpenRequests, NoRequest
<1>2. Op(t) \in DOMAIN ItemOf /\ ItemOf[Op(t)] = LineOf(t) /\ LineOf(t) \in Lines
  BY DEF LineOps, ItemOf, LineOf, Lines
<1>3. \A i \in Items : Ask(t)[i] # {} <=> i = LineOf(t)
  BY <1>1, <1>2, ConfigurationAssumption DEF Op, Ask
<1>4. LineOf(t) \in Items
  BY <1>2 DEF Lines, Items
<1>5. IsAsk(Ask(t))
  BY RequestFacts
<1>6. Ask(t)[LineOf(t)] \subseteq BOOLEAN
  BY <1>2, <1>5 DEF IsAsk, Lines
<1>7. \A a, b \in Ask(t)[LineOf(t)] : a = b
  BY <1>4, <1>5, Zenon DEF IsAsk
<1>8. PICK a \in Ask(t)[LineOf(t)] : TRUE
  BY <1>3, <1>4
<1>9. a = TRUE \/ a = FALSE
  BY <1>6, <1>8
<1>10. Ask(t)[LineOf(t)] = {a}
  BY <1>7, <1>8
<1>. QED BY <1>2, <1>3, <1>9, <1>10

\* The modem lines among the settings.
LEMMA LinesOfSettings ==
  ASSUME NEW tm, NEW ln
  PROVE  /\ Settings(tm, ln).RTS = ("RTS" \in ln)
         /\ Settings(tm, ln).DTR = ("DTR" \in ln)
BY DEF Settings

\* What open has set stays in force until it returns, and what is about to be written to
\* the modem lines is what was asked for.
Promise(t) ==
  /\ Op(t) = "open" /\ pc[t] \in {"flush", "events"} => InForce(Ask(t), Settings(termios, lines))
  /\ Op(t) \in LineOps /\ pc[t] = "write" =>
       \A l \in Lines : \A a \in Ask(t)[l] : a <=> l \in lineStatus[t]

PromiseInv == \A t \in Threads : Promise(t)

\* The others keep it: nobody writes while a thread is in open.
LEMMA PromiseOfOthers ==
  ASSUME TypeOK, PhaseInv, NEW t \in Threads, Others(t), UNCHANGED kernel \/ pc[t] = "write",
         NEW u \in Threads \ {t}, Promise(u)
  PROVE  Promise(u)'
<1>1. /\ pc'[u] = pc[u] /\ Op(u)' = Op(u) /\ Ask(u)' = Ask(u)
      /\ lineStatus'[u] = lineStatus[u]
  BY DEF Others, Op, Ask
<1>2. CASE Op(u) = "open"
  <2>1. pc[t] \in Resting
    BY <1>2 DEF PhaseInv, Phase
  <2>2. UNCHANGED kernel
    BY <2>1 DEF Resting
  <2>. QED BY <1>1, <1>2, <2>2 DEF Promise, kernel, LineOps
<1>3. CASE Op(u) # "open"
  BY <1>1, <1>3 DEF Promise
<1>. QED BY <1>2, <1>3

\* A thread keeps its own.
LEMMA PromiseOfItself ==
  ASSUME TypeOK, PhaseInv, NEW t \in Threads, Promise(t), Steps(t)
  PROVE  Promise(t)'
<1>1. ASSUME NEW label \in {"idle", "read", "verify", "attributes", "close", "return"}, Goto(t, label)
      PROVE  Promise(t)'
  <2>1. pc'[t] = label
    BY <1>1 DEF TypeOK, FrameType, Goto
  <2>. QED BY <2>1 DEF Promise
<1>2. ASSUME Op(t) \notin LineOps, Goto(t, "write"), UNCHANGED request PROVE Promise(t)'
  <2>1. pc'[t] = "write" /\ Op(t)' = Op(t)
    BY <1>2 DEF TypeOK, FrameType, Goto, Op
  <2>. QED BY <1>2, <2>1 DEF Promise
<1>3. ASSUME NEW label \in {"flush", "events"}, Goto(t, label), UNCHANGED <<request, kernel>>,
             InForce(Ask(t), Settings(termios, lines))
      PROVE  Promise(t)'
  <2>1. pc'[t] = label /\ Ask(t)' = Ask(t)
    BY <1>3 DEF TypeOK, FrameType, Goto, Ask
  <2>. QED BY <1>3, <2>1 DEF Promise, kernel
<1>4. CASE \E r : Finish(t, r)
  BY <1>1, <1>4 DEF Finish
<1>5. CASE \E r : Fail(t, r)
  BY <1>4, <1>5 DEF Fail
<1>6. ASSUME NEW tm, Apply(t, tm), Op(t) \notin LineOps PROVE Promise(t)'
  BY <1>2, <1>5, <1>6 DEF Apply
<1>7. CASE Opening(t)
  <2>1. CASE Open(t)
    BY <1>1, <2>1 DEF Open
  <2>2. CASE Attributes(t)
    <3>1. Op(t) = "open"
      BY <2>2 DEF Attributes, At, PhaseInv, Phase
    <3>. QED BY <1>5, <1>6, <2>2, <3>1 DEF Attributes, LineOps
  <2>3. CASE FlushDevice(t)
    <3>1. Op(t) = "open" /\ pc[t] = "flush"
      BY <2>3 DEF FlushDevice, At, PhaseInv, Phase
    <3>2. InForce(Ask(t), Settings(termios, lines))
      BY <3>1 DEF Promise
    <3>. QED BY <1>3, <1>5, <2>3, <3>2 DEF FlushDevice
  <2>4. CASE CreateEvents(t)
    BY <1>4, <2>4 DEF CreateEvents
  <2>. QED BY <1>7, <2>1, <2>2, <2>3, <2>4 DEF Opening
<1>8. CASE Call(t) \/ Return(t) \/ Close(t) \/ Release(t)
  BY <1>1, <1>8 DEF Call, Return, Close, Release
<1>9. CASE ReadFails(t) \/ WriteFails(t) \/ VerifyFails(t)
  <2>1. \E r : Fail(t, r)
    BY <1>9, Zenon DEF ReadFails, WriteFails, VerifyFails
  <2>. QED BY <1>5, <2>1
<1>10. CASE ReadParams(t)
  BY <1>6, <1>10 DEF ReadParams, LineOps
<1>11. CASE ReadChars(t)
  BY <1>2, <1>11 DEF ReadChars, LineOps
<1>12. CASE ReadOnly(t)
  BY <1>4, <1>12 DEF ReadOnly
<1>13. CASE ReadLines(t)
  <2>1. PICK old : lineStatus' = [lineStatus EXCEPT ![t] = NewLines(t, old)]
    BY <1>13, Zenon DEF ReadLines
  <2>2. pc'[t] = "write" /\ Op(t)' = Op(t) /\ Ask(t)' = Ask(t) /\ lineStatus'[t] = NewLines(t, old)
    BY <1>13, <2>1 DEF ReadLines, TypeOK, FrameType, Goto, Op, Ask
  <2>3. Op(t) \in LineOps
    BY <1>13 DEF ReadLines
  <2>4. /\ Ask(t)[LineOf(t)] = {TRUE} \/ Ask(t)[LineOf(t)] = {FALSE}
        /\ \A i \in Items \ {LineOf(t)} : Ask(t)[i] = {}
    BY <2>3, LineAsk DEF TypeOK
  <2>5. \A l \in Lines : \A a \in Ask(t)[l] : a <=> l \in NewLines(t, old)
    <3>. TAKE l \in Lines
    <3>1. CASE l = LineOf(t)
      <4>1. CASE Ask(t)[l] = {TRUE}
        <5>1. l \in NewLines(t, old)
          BY <3>1, <4>1 DEF NewLines
        <5>. QED BY <4>1, <5>1
      <4>2. CASE Ask(t)[l] = {FALSE}
        <5>1. TRUE \notin Ask(t)[l]
          BY <4>2
        <5>2. l \notin NewLines(t, old)
          BY <3>1, <5>1 DEF NewLines
        <5>. QED BY <4>2, <5>2
      <4>. QED BY <2>4, <3>1, <4>1, <4>2
    <3>2. CASE l # LineOf(t)
      BY <2>4, <3>2 DEF Lines, Items
    <3>. QED BY <3>1, <3>2
  <2>6. Op(t) # "open"
    BY <2>3 DEF LineOps
  <2>. QED BY <2>2, <2>3, <2>5, <2>6 DEF Promise
<1>14. CASE Write(t)
  BY <1>1, <1>4, <1>14 DEF Write
<1>15. CASE Verify(t)
  <2>1. CASE Op(t) = "open" /\ Goto(t, "flush")
    <3>1. file = "port"
      BY <2>1 DEF PhaseInv, Phase
    <3>2. Terminals(t) \subseteq {termios}
      BY <3>1, TerminalsType DEF TypeOK
    <3>3. CASE \E r : Fail(t, r)
      BY <1>5, <3>3
    <3>4. CASE InForce(Ask(t), Settings(termios, lines)) /\ UNCHANGED <<request, kernel>>
      BY <1>3, <2>1, <3>4
    <3>. QED BY <1>15, <2>1, <3>2, <3>3, <3>4 DEF Verify
  <2>. QED BY <1>4, <1>5, <1>15, <2>1 DEF Verify
<1>16. CASE Learn(t)
  BY <1>16 DEF Learn, Promise, frame, locals, kernel, Op, Ask
<1>. QED BY <1>7, <1>8, <1>9, <1>10, <1>11, <1>12, <1>13, <1>14, <1>15, <1>16 DEF Steps, Setting

LEMMA NextPromise ==
  ASSUME TypeOK, PhaseInv, HistoryShape, PromiseInv, [Next]_vars
  PROVE  PromiseInv' /\ HistoryShape'
<1>1. CASE UNCHANGED <<kernel, frame, before>>
  BY <1>1 DEF PromiseInv, Promise, HistoryShape, kernel, frame, locals, Op, Ask
<1>2. ASSUME NEW t \in Threads, Steps(t) PROVE PromiseInv' /\ HistoryShape'
  <2>1. Others(t)
    BY <1>2, OthersKept
  <2>2. UNCHANGED kernel \/ pc[t] = "write"
    BY <1>2, KernelKept DEF Write, At
  <2>3. ASSUME NEW u \in Threads \ {t} PROVE Promise(u)'
    BY <2>1, <2>2, PromiseOfOthers DEF PromiseInv
  <2>4. Promise(t)'
    BY <1>2, PromiseOfItself DEF PromiseInv
  <2>. QED BY <2>1, <2>3, <2>4 DEF PromiseInv, Others
<1>3. CASE UNCHANGED vars \/ ReuseNumber
  BY <1>1, <1>3 DEF vars, ReuseNumber
<1>. QED BY <1>2, <1>3 DEF Next, Steps

\* How a setter, or open, comes to return normally.
LEMMA EndsInForce ==
  ASSUME TypeOK, PhaseInv, HistoryShape, PromiseInv, NEW t \in Threads, Steps(t), Ends(t),
         result'[t] = "ok", Op(t) \in Setters \cup {"open"}, file = "port"
  PROVE  InForce(Ask(t), Settings(termios', lines'))
<1>1. ASSUME NEW r, Finish(t, r) PROVE r = "ok"
  BY <1>1 DEF Finish, TypeOK, FrameType
<1>2. ASSUME NEW r, r # "ok", Fail(t, r) PROVE FALSE
  BY <1>1, <1>2 DEF Fail
<1>3. ASSUME NEW label, label # "return", Goto(t, label) PROVE FALSE
  BY <1>3 DEF TypeOK, FrameType, Ends, Goto
<1>4. ASSUME NEW r \in formatMsg(t) PROVE r # "ok"
  BY <1>4, formatMsgType DEF TypeOK
<1>5. CASE CreateEvents(t)
  <2>1. pc[t] = "events" /\ Op(t) = "open" /\ UNCHANGED kernel
    BY <1>5 DEF CreateEvents, At, PhaseInv, Phase
  <2>. QED BY <2>1 DEF PromiseInv, Promise, kernel
<1>6. CASE Opening(t) /\ ~ CreateEvents(t)
  <2>1. Fail(t, "rejected") \/ Fail(t, "nativeError") \/ pc'[t] # "return" \/ Open(t)
    BY <1>3, <1>6 DEF Opening, Attributes, FlushDevice, Apply
  <2>2. ~ Open(t)
    <3>1. CASE Open(t)
      <4>1. stage = "new"
        BY <3>1 DEF Open
      <4>. QED BY <4>1 DEF PhaseInv, Phase, Ops
    <3>. QED BY <3>1
  <2>. QED BY <1>2, <2>1, <2>2 DEF Ends
<1>7. CASE ReadFails(t) \/ VerifyFails(t)
  BY <1>2, <1>4, <1>7 DEF ReadFails, VerifyFails
<1>8. CASE WriteFails(t)
  <2>1. PICK r \in WriteErrors(t) : Fail(t, r)
    BY <1>8 DEF WriteFails
  <2>2. r # "ok"
    BY <1>4, <2>1 DEF WriteErrors
  <2>. QED BY <1>2, <2>1, <2>2
<1>9. CASE ReadParams(t) \/ ReadChars(t) \/ ReadLines(t)
  BY <1>2, <1>3, <1>9 DEF ReadParams, ReadChars, ReadLines, Apply
<1>10. CASE ReadOnly(t)
  BY <1>10 DEF ReadOnly, Ops, Setters, LineOps
<1>11. CASE Call(t) \/ Return(t) \/ Close(t) \/ Release(t)
  BY <1>3, <1>11 DEF Call, Return, Close, Release
<1>12. CASE Learn(t)
  BY <1>12 DEF Learn, frame, Ends
<1>13. CASE Write(t)
  <2>1. Op(t) \in LineOps /\ pc[t] = "write"
    BY <1>3, <1>13 DEF Write, At
  <2>2. Named(t) \cap {"port", "other"} \subseteq {"port"}
    BY DEF Named, Names
  <2>3. lines' = lineStatus[t]
    BY <1>13, <2>1, <2>2 DEF Write
  <2>4. \A l \in Lines : \A a \in Ask(t)[l] : a <=> l \in lines'
    BY <2>1, <2>3 DEF PromiseInv, Promise
  <2>5. \A i \in Items \ Lines : Ask(t)[i] = {}
    BY <2>1, LineAsk DEF TypeOK
  <2>6. ASSUME NEW l \in Lines, NEW a \in Ask(t)[l] PROVE a = Settings(termios', lines')[l]
    <3>1. a \in BOOLEAN
      BY <2>1, <2>6, LineAsk DEF TypeOK, Lines, Items
    <3>2. a = (l \in lines')
      BY <2>4, <2>6, <3>1
    <3>. QED BY <2>6, <3>2, LinesOfSettings DEF Lines
  <2>7. \A l \in Lines : Ask(t)[l] \subseteq {Settings(termios', lines')[l]}
    BY <2>6
  <2>. QED BY <2>5, <2>7 DEF InForce
<1>14. CASE Verify(t)
  <2>1. Terminals(t) \subseteq {termios}
    BY TerminalsType DEF TypeOK
  <2>2. InForce(Ask(t), Settings(termios, lines)) /\ UNCHANGED kernel
    BY <1>2, <1>3, <1>14, <2>1 DEF Verify
  <2>. QED BY <2>2 DEF kernel
<1>. QED BY <1>5, <1>6, <1>7, <1>8, <1>9, <1>10, <1>11, <1>12, <1>13, <1>14 DEF Steps, Setting

\* The thread that ends a call is the one that makes the step.
LEMMA EndsItself ==
  ASSUME TypeOK, HistoryShape, Next, NEW t \in Threads, Ends(t)
  PROVE  Steps(t)
<1>1. ~ ReuseNumber
  BY DEF ReuseNumber, frame, Ends
<1>2. PICK u \in Threads : Steps(u)
  BY <1>1 DEF Next, Steps
<1>3. Others(u)
  BY <1>2, OthersKept
<1>. QED BY <1>2, <1>3 DEF Others, Ends

LEMMA PromiseKept == Spec => [](HistoryShape /\ PromiseInv)
<1>1. Init => HistoryShape /\ PromiseInv
  BY DEF Init, HistoryShape, PromiseInv, Promise
<1>2. TypeOK /\ PhaseInv /\ HistoryShape /\ PromiseInv /\ [Next]_vars => HistoryShape' /\ PromiseInv'
  BY NextPromise
<1>. QED BY <1>1, <1>2, SettingsTypeCorrect, PhasesInOrder, PTL DEF Spec

\* A setter, and open, that returns without an exception while the number is the port's has
\* what it was asked for in force at this moment, whatever the driver ignores and the other
\* threads write between its steps.
THEOREM ReportedIsInForce == Spec => ReportedInForce
<1>. DEFINE Kept == \A t \in Threads :
                      Ends(t) /\ result'[t] = "ok" /\ Op(t) \in Setters \cup {"open"} /\ file = "port"
                      => InForce(Ask(t), Settings(termios', lines'))
<1>1. ASSUME TypeOK, PhaseInv, HistoryShape, PromiseInv, [Next]_vars PROVE [Kept]_vars
  BY <1>1, EndsItself, EndsInForce
<1>2. TypeOK /\ PhaseInv /\ HistoryShape /\ PromiseInv /\ [Next]_vars => [Kept]_vars
  BY <1>1
<1>. HIDE DEF Kept
<1>3. Spec => [][Kept]_vars
  BY <1>2, SettingsTypeCorrect, PhasesInOrder, PromiseKept, PTL DEF Spec
<1>. QED BY <1>3 DEF ReportedInForce, Kept

------------------------------------------------------------------------------
(* What is left alone. *)

\* The settings now differ from s only where ask has an argument; new data bits rename
\* the stop bits.
Untouched(ask, s, now) ==
  /\ \A i \in Items \ {"stopBits"} : now[i] # s[i] => ask[i] # {}
  /\ now.stopBits # s.stopBits =>
       \/ ask.stopBits # {}
       \/ ask.dataBits # {} /\ {now.stopBits, s.stopBits} = {"SB_1_5", "SB_2"}

\* The settings once what t is about to write is written.
Written(t) == IF Op(t) \in LineOps THEN Settings(termios, lineStatus[t])
                                   ELSE Settings(Accepted(termios, draft[t]), lines)

\* As long as no other call overlaps, the settings are those from before the call until it
\* writes, and differ from them afterwards as the write may make them differ.
Quiet(t) ==
  before[t] # {} =>
    /\ pc[t] \in {"read", "write", "verify"} /\ Op(t) \in Ops
    /\ \A u \in Threads \ {t} : pc[u] \in Resting
    /\ \A s \in before[t] :
         /\ pc[t] \in {"read", "write"} => s = Settings(termios, lines)
         /\ pc[t] = "verify" => Untouched(Ask(t), s, Settings(termios, lines))
    /\ pc[t] = "write" /\ file = "port" => Untouched(Ask(t), Settings(termios, lines), Written(t))

QuietInv == \A t \in Threads : Quiet(t)

LEMMA UntouchedItself == ASSUME NEW ask, NEW s PROVE Untouched(ask, s, s)
BY DEF Untouched

\* The items, one by one.
LEMMA UntouchedItems ==
  ASSUME NEW ask, NEW tm, NEW ln, NEW tm2, NEW ln2,
         ask.speed = {} => getSpeed(tm2) = getSpeed(tm),
         ask.dataBits = {} => tm2.size = tm.size,
         ask.stopBits = {} => \/ getStopBits(tm2) = getStopBits(tm)
                              \/ ask.dataBits # {} /\ {getStopBits(tm2), getStopBits(tm)} = {"SB_1_5", "SB_2"},
         ask.parity = {} => getParity(tm2) = getParity(tm),
         ask.flowControls = {} => getFlowControl(tm2) = getFlowControl(tm),
         ask.xon = {} => tm2.vstart = tm.vstart,
         ask.xoff = {} => tm2.vstop = tm.vstop,
         ask.RTS = {} => ("RTS" \in ln2 <=> "RTS" \in ln),
         ask.DTR = {} => ("DTR" \in ln2 <=> "DTR" \in ln)
  PROVE  Untouched(ask, Settings(tm, ln), Settings(tm2, ln2))
<1>. DEFINE s == Settings(tm, ln)
            now == Settings(tm2, ln2)
<1>1. /\ s.speed = getSpeed(tm) /\ now.speed = getSpeed(tm2)
      /\ s.dataBits = tm.size /\ now.dataBits = tm2.size
      /\ s.stopBits = getStopBits(tm) /\ now.stopBits = getStopBits(tm2)
      /\ s.parity = getParity(tm) /\ now.parity = getParity(tm2)
      /\ s.flowControls = getFlowControl(tm) /\ now.flowControls = getFlowControl(tm2)
      /\ s.xon = ToChar(tm.vstart) /\ now.xon = ToChar(tm2.vstart)
      /\ s.xoff = ToChar(tm.vstop) /\ now.xoff = ToChar(tm2.vstop)
  BY DEF Settings
<1>2. /\ s.RTS = ("RTS" \in ln) /\ now.RTS = ("RTS" \in ln2)
      /\ s.DTR = ("DTR" \in ln) /\ now.DTR = ("DTR" \in ln2)
  BY LinesOfSettings
<1>3. /\ ask.RTS = {} => now.RTS = s.RTS
      /\ ask.DTR = {} => now.DTR = s.DTR
  <2>1. /\ ask.RTS = {} => ("RTS" \in ln2) = ("RTS" \in ln)
        /\ ask.DTR = {} => ("DTR" \in ln2) = ("DTR" \in ln)
    OBVIOUS
  <2>. HIDE DEF s, now
  <2>. QED BY <1>2, <2>1
<1>. HIDE DEF s, now
<1>4. \A i \in Items \ {"stopBits"} : now[i] # s[i] => ask[i] # {}
  BY <1>1, <1>3 DEF Items
<1>5. Untouched(ask, s, now)
  BY <1>1, <1>4 DEF Untouched
<1>. QED BY <1>5 DEF s, now

\* A driver that ignores some bits leaves them, too.
LEMMA ApplyUntouched ==
  ASSUME NEW ask, IsAsk(ask), NEW tm \in Termios, NEW ln
  PROVE  Untouched(ask, Settings(tm, ln), Settings(Accepted(tm, Modified(ask, tm)), ln))
<1>. DEFINE mod == Modified(ask, tm)
            new == Accepted(tm, mod)
<1>1. /\ mod \in Termios
      /\ mod.flags = ModifiedFlags(ask, tm.flags)
      /\ ask.dataBits = {} => mod.size = tm.size
      /\ ask.speed = {} => mod.ispeed = tm.ispeed /\ mod.ospeed = tm.ospeed
      /\ mod.vstart = tm.vstart /\ mod.vstop = tm.vstop
  BY ModifiedType DEF Modified, Termios, Chosen
<1>2. /\ ask.stopBits = {} => ("CSTOPB" \in mod.flags <=> "CSTOPB" \in tm.flags)
      /\ ask.parity = {} => \A x \in ParityMask : x \in mod.flags <=> x \in tm.flags
      /\ ask.flowControls = {} => \A x \in FlowMask : x \in mod.flags <=> x \in tm.flags
  BY <1>1, ModifiedGroups
<1>. HIDE DEF mod
<1>3. /\ new.flags = (mod.flags \ Stuck) \cup (tm.flags \cap Stuck)
      /\ new.size = mod.size \/ new.size = tm.size
      /\ new.ispeed = mod.ispeed \/ new.ispeed = tm.ispeed
      /\ ask.speed = {} => new.ispeed = tm.ispeed /\ new.ospeed = tm.ospeed
      /\ new.vstart = mod.vstart /\ new.vstop = mod.vstop
  BY <1>1 DEF Accepted, Termios
<1>. HIDE DEF new
<1>4. \A x : (x \in mod.flags <=> x \in tm.flags) => (x \in new.flags <=> x \in tm.flags)
  BY <1>3
<1>5. ask.speed = {} => getSpeed(new) = getSpeed(tm)
  BY <1>3 DEF getSpeed
<1>6. ask.dataBits = {} => new.size = tm.size
  BY <1>1, <1>3
<1>7. ask.stopBits = {} => \/ getStopBits(new) = getStopBits(tm)
                           \/ ask.dataBits # {} /\ {getStopBits(new), getStopBits(tm)} = {"SB_1_5", "SB_2"}
  <2>1. CASE ask.stopBits = {}
    <3>1. "CSTOPB" \in new.flags <=> "CSTOPB" \in tm.flags
      BY <1>2, <1>4, <2>1
    <3>. QED BY <1>6, <3>1 DEF getStopBits
  <2>. QED BY <2>1
<1>8. ask.parity = {} => getParity(new) = getParity(tm)
  <2>1. ask.parity = {} => \A x \in ParityMask : x \in new.flags <=> x \in tm.flags
    BY <1>2, <1>4
  <2>. QED BY <2>1 DEF ParityMask, getParity
<1>9. ask.flowControls = {} => getFlowControl(new) = getFlowControl(tm)
  <2>1. ask.flowControls = {} => \A x \in FlowMask : x \in new.flags <=> x \in tm.flags
    BY <1>2, <1>4
  <2>. QED BY <2>1 DEF FlowMask, getFlowControl
<1>10. new.vstart = tm.vstart /\ new.vstop = tm.vstop
  BY <1>1, <1>3
<1>11. Untouched(ask, Settings(tm, ln), Settings(new, ln))
  BY <1>5, <1>6, <1>7, <1>8, <1>9, <1>10, UntouchedItems
<1>. QED BY <1>11 DEF new, mod

\* The setters of a char leave all but that char.
LEMMA CharUntouched ==
  ASSUME NEW ask, NEW tm \in Termios, NEW ln, NEW d, DOMAIN d = DOMAIN tm,
         d.flags = tm.flags, d.size = tm.size, d.ispeed = tm.ispeed, d.ospeed = tm.ospeed,
         ask.xon = {} => d.vstart = tm.vstart, ask.xoff = {} => d.vstop = tm.vstop
  PROVE  Untouched(ask, Settings(tm, ln), Settings(Accepted(tm, d), ln))
<1>. DEFINE new == Accepted(tm, d)
<1>2. DOMAIN tm = {"flags", "size", "ispeed", "ospeed", "vstart", "vstop"}
  BY DEF Termios
<1>3. /\ new.flags = (d.flags \ Stuck) \cup (tm.flags \cap Stuck)
      /\ new.size = tm.size /\ new.ispeed = tm.ispeed /\ new.ospeed = tm.ospeed
      /\ new.vstart = d.vstart /\ new.vstop = d.vstop
  BY <1>2 DEF Accepted
<1>4. new.flags = tm.flags
  BY <1>3
<1>. HIDE DEF new
<1>5. /\ ask.xon = {} => new.vstart = tm.vstart
      /\ ask.xoff = {} => new.vstop = tm.vstop
  BY <1>3
<1>6. /\ getSpeed(new) = getSpeed(tm) /\ getStopBits(new) = getStopBits(tm)
      /\ getParity(new) = getParity(tm) /\ getFlowControl(new) = getFlowControl(tm)
  BY <1>3, <1>4 DEF getSpeed, getStopBits, getParity, getFlowControl
<1>7. Untouched(ask, Settings(tm, ln), Settings(new, ln))
  BY <1>3, <1>5, <1>6, UntouchedItems
<1>. QED BY <1>7 DEF new

\* The setters prepare what leaves the others alone.
LEMMA LinesUntouched ==
  ASSUME FrameType, NEW t \in Threads, Op(t) \in LineOps
  PROVE  Untouched(Ask(t), Settings(termios, lines), Settings(termios, NewLines(t, lines)))
<1>. DEFINE new == NewLines(t, lines)
<1>1. LineOf(t) \in Lines /\ Ask(t)[LineOf(t)] # {}
  BY LineAsk
<1>2. \A l : l # LineOf(t) => (l \in new <=> l \in lines)
  BY DEF NewLines
<1>. HIDE DEF new
<1>3. /\ Ask(t).RTS = {} => ("RTS" \in new <=> "RTS" \in lines)
      /\ Ask(t).DTR = {} => ("DTR" \in new <=> "DTR" \in lines)
  BY <1>1, <1>2 DEF Lines
<1>4. Untouched(Ask(t), Settings(termios, lines), Settings(termios, new))
  BY <1>3, UntouchedItems
<1>. QED BY <1>4 DEF new

LEMMA DraftUntouched ==
  ASSUME TypeOK, NEW t \in Threads, Op(t) \in {"setXONChar", "setXOFFChar"},
         NEW d, d = IF Op(t) = "setXONChar"
                    THEN [termios EXCEPT !.vstart = ToByte(Chosen(Ask(t).xon, 0))]
                    ELSE [termios EXCEPT !.vstop = ToByte(Chosen(Ask(t).xoff, 0))]
  PROVE  Untouched(Ask(t), Settings(termios, lines), Settings(Accepted(termios, d), lines))
<1>1. request[t] \in Requests
  BY DEF TypeOK, FrameType, Op, OpenRequests, NoRequest
<1>2. /\ Op(t) \in DOMAIN ItemOf
      /\ Op(t) = "setXONChar" => ItemOf[Op(t)] = "xon"
      /\ Op(t) = "setXOFFChar" => ItemOf[Op(t)] = "xoff"
  BY DEF ItemOf
<1>3. \A i \in Items : Ask(t)[i] # {} <=> i = ItemOf[Op(t)]
  BY <1>1, <1>2, ConfigurationAssumption DEF Op, Ask
<1>4. termios \in Termios
  BY DEF TypeOK, PortType
<1>5. CASE Op(t) = "setXONChar"
  <2>1. Ask(t).xon # {}
    BY <1>2, <1>3, <1>5 DEF Items
  <2>2. PICK c : d = [termios EXCEPT !.vstart = c]
    BY <1>5
  <2>3. /\ DOMAIN d = DOMAIN termios /\ d.flags = termios.flags /\ d.size = termios.size
        /\ d.ispeed = termios.ispeed /\ d.ospeed = termios.ospeed /\ d.vstop = termios.vstop
    BY <1>4, <2>2 DEF Termios
  <2>. QED BY <1>4, <2>1, <2>3, CharUntouched
<1>6. CASE Op(t) = "setXOFFChar"
  <2>1. Ask(t).xoff # {}
    BY <1>2, <1>3, <1>6 DEF Items
  <2>2. PICK c : d = [termios EXCEPT !.vstop = c]
    BY <1>6
  <2>3. /\ DOMAIN d = DOMAIN termios /\ d.flags = termios.flags /\ d.size = termios.size
        /\ d.ispeed = termios.ispeed /\ d.ospeed = termios.ospeed /\ d.vstart = termios.vstart
    BY <1>4, <2>2 DEF Termios
  <2>. QED BY <1>4, <2>1, <2>3, CharUntouched
<1>. QED BY <1>5, <1>6

\* A call that has ended has no history.
LEMMA FinishQuiet ==
  ASSUME HistoryShape, NEW t \in Threads, NEW r, Finish(t, r)
  PROVE  Quiet(t)'
<1>1. before'[t] = {}
  BY DEF HistoryShape, Finish
<1>. QED BY <1>1 DEF Quiet

\* A call of a thread that has a history begins when the others rest.
LEMMA CallQuiet ==
  ASSUME TypeOK, HistoryShape, NEW t \in Threads, Call(t)
  PROVE  Quiet(t)'
<1>1. /\ pc'[t] = "read" /\ \A u \in Threads \ {t} : pc'[u] = pc[u]
      /\ UNCHANGED kernel
  BY DEF TypeOK, FrameType, Call, Goto
<1>2. Op(t)' \in Ops
  BY ConfigurationAssumption DEF TypeOK, FrameType, Call, Op
<1>3. \/ before'[t] = {}
      \/ /\ before'[t] = {Settings(termios, lines)}
         /\ \A u \in Threads \ {t} : pc[u] \in Resting
  BY DEF Call, Resting
<1>. QED BY <1>1, <1>2, <1>3 DEF Quiet, kernel

\* When it goes on to write, it has prepared what leaves the others alone.
LEMMA PreparedQuiet ==
  ASSUME TypeOK, NEW t \in Threads, Quiet(t), At(t, "read"), Goto(t, "write"), Others(t),
         UNCHANGED <<socket, kernel, request, before>>,
         file = "port" => Untouched(Ask(t), Settings(termios, lines), Written(t)')
  PROVE  Quiet(t)'
<1>1. /\ pc'[t] = "write" /\ pc[t] = "read" /\ \A u \in Threads \ {t} : pc'[u] = pc[u]
      /\ Op(t)' = Op(t) /\ Ask(t)' = Ask(t)
      /\ termios' = termios /\ lines' = lines /\ file' = file /\ before' = before
  BY DEF TypeOK, FrameType, At, Goto, Others, Op, Ask, socket, kernel
<1>. QED BY <1>1 DEF Quiet

\* A step of a thread other than a call gives it no history.
LEMMA HistoryKept ==
  ASSUME HistoryShape, NEW t \in Threads, Steps(t), ~ Call(t), before[t] = {}
  PROVE  before'[t] = {}
<1>1. CASE \E r : Finish(t, r)
  BY <1>1 DEF HistoryShape, Finish
<1>2. CASE \E r : Fail(t, r)
  BY <1>1, <1>2 DEF Fail
<1>3. CASE UNCHANGED before
  BY <1>3
<1>4. CASE \E tm : Apply(t, tm)
  BY <1>2, <1>3, <1>4 DEF Apply
<1>5. CASE Opening(t)
  BY <1>1, <1>2, <1>3, <1>4, <1>5 DEF Opening, Open, Attributes, FlushDevice, CreateEvents
<1>6. CASE ReadFails(t) \/ WriteFails(t) \/ VerifyFails(t)
  <2>1. \E r : Fail(t, r)
    BY <1>6, Zenon DEF ReadFails, WriteFails, VerifyFails
  <2>. QED BY <1>2, <2>1
<1>7. CASE ReadParams(t) \/ ReadChars(t) \/ ReadOnly(t) \/ ReadLines(t) \/ Write(t) \/ Return(t)
  BY <1>1, <1>3, <1>4, <1>7 DEF ReadParams, ReadChars, ReadOnly, ReadLines, Write, Return
<1>8. CASE Verify(t)
  BY <1>1, <1>2, <1>3, <1>8 DEF Verify
<1>9. CASE Close(t) \/ Release(t) \/ Learn(t)
  BY <1>3, <1>9 DEF Close, Release, Learn
<1>. QED BY <1>5, <1>6, <1>7, <1>8, <1>9 DEF Steps, Setting

\* No call is possible before open.
LEMMA OpenIsFirst ==
  ASSUME PhaseInv, NEW t \in Threads, NEW u \in Threads, Op(u) \in Ops
  PROVE  ~ Open(t)
BY DEF PhaseInv, Phase, Open

\* A thread keeps its own.
LEMMA QuietOfItself ==
  ASSUME TypeOK, PhaseInv, HistoryShape, NEW t \in Threads, Quiet(t), Steps(t)
  PROVE  Quiet(t)'
<1>1. CASE \E r : Finish(t, r)
  BY <1>1, FinishQuiet
<1>2. CASE \E r : Fail(t, r)
  BY <1>1, <1>2 DEF Fail
<1>3. CASE before'[t] = {}
  BY <1>3 DEF Quiet
<1>4. ASSUME At(t, "read"), NEW tm \in Terminals(t), file = "port"
      PROVE  tm = termios /\ termios \in Termios
  BY <1>4, TerminalsType DEF TypeOK, PortType
<1>5. Others(t)
  BY OthersKept
<1>6. CASE before[t] = {} /\ ~ Call(t)
  <2>1. before'[t] = {}
    BY <1>6, HistoryKept
  <2>. QED BY <1>3, <2>1
<1>7. CASE Call(t)
  BY <1>7, CallQuiet
<1>8. CASE ReadFails(t) \/ WriteFails(t) \/ VerifyFails(t)
  <2>1. \E r : Fail(t, r)
    BY <1>8, Zenon DEF ReadFails, WriteFails, VerifyFails
  <2>. QED BY <1>2, <2>1
<1>9. CASE ReadParams(t)
  <2>1. PICK tm \in Terminals(t) : Apply(t, tm)
    BY <1>9 DEF ReadParams
  <2>2. At(t, "read") /\ Op(t) = "setParams"
    BY <1>9 DEF ReadParams
  <2>3. CASE /\ draft' = [draft EXCEPT ![t] = Modified(Ask(t), tm)]
             /\ Goto(t, "write")
             /\ UNCHANGED <<socket, kernel, request, lineStatus, result, before>>
    <3>1. /\ draft'[t] = Modified(Ask(t), tm) /\ Op(t)' = Op(t)
          /\ termios' = termios /\ lines' = lines
      BY <2>3 DEF TypeOK, FrameType, Op, kernel
    <3>2. IsAsk(Ask(t))
      BY RequestFacts DEF TypeOK
    <3>3. Written(t)' = Settings(Accepted(termios, Modified(Ask(t), tm)), lines)
      BY <2>2, <3>1 DEF Written, LineOps
    <3>4. file = "port" => Untouched(Ask(t), Settings(termios, lines), Written(t)')
      BY <1>4, <2>2, <3>2, <3>3, ApplyUntouched
    <3>. QED BY <1>5, <2>2, <2>3, <3>4, PreparedQuiet
  <2>. QED BY <1>2, <2>1, <2>3 DEF Apply
<1>10. CASE ReadChars(t)
  <2>1. PICK tm \in Terminals(t) :
          draft' = [draft EXCEPT ![t] =
                      IF Op(t) = "setXONChar"
                      THEN [tm EXCEPT !.vstart = ToByte(Chosen(Ask(t).xon, 0))]
                      ELSE [tm EXCEPT !.vstop = ToByte(Chosen(Ask(t).xoff, 0))]]
    BY <1>10 DEF ReadChars
  <2>2. /\ At(t, "read") /\ Op(t) \in {"setXONChar", "setXOFFChar"} /\ Goto(t, "write")
        /\ UNCHANGED <<socket, kernel, request, lineStatus, result, before>>
    BY <1>10 DEF ReadChars
  <2>3. /\ Op(t)' = Op(t) /\ termios' = termios /\ lines' = lines
        /\ draft'[t] = IF Op(t) = "setXONChar"
                       THEN [tm EXCEPT !.vstart = ToByte(Chosen(Ask(t).xon, 0))]
                       ELSE [tm EXCEPT !.vstop = ToByte(Chosen(Ask(t).xoff, 0))]
    BY <2>1, <2>2 DEF TypeOK, FrameType, Op, kernel
  <2>4. Written(t)' = Settings(Accepted(termios, draft'[t]), lines)
    BY <2>2, <2>3 DEF Written, LineOps
  <2>5. file = "port" => Untouched(Ask(t), Settings(termios, lines), Written(t)')
    BY <1>4, <2>2, <2>3, <2>4, DraftUntouched
  <2>. QED BY <1>5, <2>2, <2>5, PreparedQuiet
<1>11. CASE ReadOnly(t)
  BY <1>1, <1>11 DEF ReadOnly
<1>12. CASE ReadLines(t)
  <2>1. PICK old \in (IF "port" \in Named(t) THEN {lines} ELSE {})
                     \cup (IF "other" \in Named(t) THEN SUBSET Lines ELSE {}) :
          lineStatus' = [lineStatus EXCEPT ![t] = NewLines(t, old)]
    BY <1>12 DEF ReadLines
  <2>2. /\ At(t, "read") /\ Op(t) \in LineOps /\ Goto(t, "write")
        /\ UNCHANGED <<socket, kernel, request, draft, result, before>>
    BY <1>12 DEF ReadLines
  <2>3. file = "port" => old = lines
    BY <2>1 DEF Named, Names
  <2>4. /\ Op(t)' = Op(t) /\ termios' = termios
        /\ lineStatus'[t] = NewLines(t, old)
    BY <2>1, <2>2 DEF TypeOK, FrameType, Op, kernel
  <2>5. Written(t)' = Settings(termios, NewLines(t, old))
    BY <2>2, <2>4 DEF Written
  <2>6. file = "port" => Untouched(Ask(t), Settings(termios, lines), Written(t)')
    BY <2>2, <2>3, <2>5, LinesUntouched DEF TypeOK
  <2>. QED BY <1>5, <2>2, <2>6, PreparedQuiet
<1>13. CASE Write(t) /\ before[t] # {}
  <2>1. CASE Op(t) \in LineOps
    BY <1>1, <1>13, <2>1 DEF Write
  <2>2. CASE Op(t) \notin LineOps
    <3>1. /\ pc[t] = "write" /\ pc'[t] = "verify" /\ \A u \in Threads \ {t} : pc'[u] = pc[u]
          /\ Op(t)' = Op(t) /\ Ask(t)' = Ask(t) /\ before' = before /\ lines' = lines
      BY <1>13, <2>2 DEF Write, At, Goto, TypeOK, FrameType, Op, Ask
    <3>2. \/ termios' = termios
          \/ file = "port" /\ termios' = Accepted(termios, draft[t])
      BY <1>13, <2>2 DEF Write, Named, Names
    <3>3. \A s \in before[t] : Untouched(Ask(t), s, Settings(termios', lines'))
      <4>1. CASE termios' = termios
        BY <1>13, <3>1, <4>1, UntouchedItself DEF Quiet
      <4>2. CASE file = "port" /\ termios' = Accepted(termios, draft[t])
        BY <1>13, <2>2, <3>1, <4>2 DEF Quiet, Written
      <4>. QED BY <3>2, <4>1, <4>2
    <3>. QED BY <1>13, <3>1, <3>3 DEF Quiet
  <2>. QED BY <2>1, <2>2
<1>14. CASE Verify(t) /\ before[t] # {}
  <2>1. Op(t) # "open"
    BY <1>14 DEF Quiet, Ops, Setters, LineOps
  <2>. QED BY <1>1, <1>2, <1>14, <2>1 DEF Verify
<1>15. CASE before[t] # {} /\ ~ Setting(t)
  <2>1. pc[t] \in {"read", "write", "verify"}
    BY <1>15 DEF Quiet
  <2>2. ~ Close(t) /\ ~ Release(t) /\ ~ Learn(t)
    BY <2>1 DEF Close, Release, Learn, Idle, At
  <2>3. Open(t)
    BY <1>15, <2>1, <2>2 DEF Steps, Opening, Attributes, FlushDevice, CreateEvents, At
  <2>. QED BY <1>15, <2>3, OpenIsFirst DEF Quiet
<1>16. CASE Return(t) /\ before[t] # {}
  BY <1>16 DEF Return, At, Quiet
<1>. QED BY <1>6, <1>7, <1>8, <1>9, <1>10, <1>11, <1>12, <1>13, <1>14, <1>15, <1>16 DEF Setting

\* The others keep it: they rest, or begin a call and end the history.
LEMMA QuietOfOthers ==
  ASSUME TypeOK, PhaseInv, HistoryShape, NEW t \in Threads, Steps(t),
         NEW u \in Threads \ {t}, Quiet(u)
  PROVE  Quiet(u)'
<1>1. Others(t)
  BY OthersKept
<1>2. CASE before'[u] = {}
  BY <1>2 DEF Quiet
<1>3. CASE before'[u] # {}
  <2>1. before[u] # {} /\ before'[u] = before[u] /\ pc[t] \in Resting /\ Op(u) \in Ops
    BY <1>1, <1>3 DEF Others, Quiet
  <2>2. ~ Call(t) /\ ~ Open(t)
    BY <1>3, <2>1, OpenIsFirst DEF Call
  <2>3. Return(t) \/ Close(t) \/ Release(t) \/ Learn(t)
    BY <2>1, <2>2
       DEF Steps, Opening, Attributes, FlushDevice, CreateEvents, Setting, ReadFails, ReadParams,
           ReadChars, ReadOnly, ReadLines, Write, WriteFails, Verify, VerifyFails, At, Resting
  <2>4. UNCHANGED <<termios, lines>> /\ file' \in {file, "free"} /\ pc'[t] \in Resting
    BY <2>1, <2>3 DEF Return, Close, Release, Learn, kernel, socket, frame, Goto, TypeOK, FrameType, Resting
  <2>5. /\ pc'[u] = pc[u] /\ Op(u)' = Op(u) /\ Ask(u)' = Ask(u)
        /\ draft'[u] = draft[u] /\ lineStatus'[u] = lineStatus[u]
        /\ \A v \in Threads \ {t} : pc'[v] = pc[v]
    BY <1>1 DEF Others, Op, Ask
  <2>6. \A v \in Threads \ {u} : pc'[v] \in Resting
    BY <2>1, <2>4, <2>5 DEF Quiet
  <2>7. Written(u)' = Written(u)
    BY <2>4, <2>5 DEF Written
  <2>. QED BY <2>1, <2>4, <2>5, <2>6, <2>7 DEF Quiet
<1>. QED BY <1>2, <1>3

LEMMA NextQuiet ==
  ASSUME TypeOK, PhaseInv, HistoryShape, QuietInv, [Next]_vars
  PROVE  QuietInv'
<1>1. CASE UNCHANGED <<kernel, frame, before>> /\ (file' = "port" => file = "port")
  BY <1>1 DEF QuietInv, Quiet, Written, kernel, frame, locals, Op, Ask
<1>2. ASSUME NEW t \in Threads, Steps(t) PROVE QuietInv'
  BY <1>2, QuietOfItself, QuietOfOthers DEF QuietInv
<1>3. CASE UNCHANGED vars \/ ReuseNumber
  BY <1>1, <1>3 DEF vars, ReuseNumber, socket
<1>. QED BY <1>2, <1>3 DEF Next, Steps

\* How a call that no other overlapped ends.
LEMMA EndsUntouched ==
  ASSUME TypeOK, PhaseInv, HistoryShape, NEW t \in Threads, Quiet(t), Steps(t), Ends(t),
         NEW s \in before[t]
  PROVE  LET now == Settings(termios', lines')
         IN  now = s \/ (Untouched(Ask(t), s, now) /\ result'[t] # "rejected")
<1>1. pc[t] \in {"read", "write", "verify"}
  BY DEF Quiet
<1>2. ASSUME NEW r, Finish(t, r) PROVE result'[t] = r
  BY <1>2 DEF Finish, TypeOK, FrameType
<1>3. ASSUME NEW label, label # "return", Goto(t, label) PROVE FALSE
  BY <1>3 DEF TypeOK, FrameType, Ends, Goto
<1>4. CASE Write(t)
  <2>1. Op(t) \in LineOps /\ pc[t] = "write" /\ Finish(t, "ok") /\ termios' = termios
    BY <1>3, <1>4 DEF Write, At
  <2>2. result'[t] = "ok"
    BY <1>2, <2>1
  <2>3. lines' = lines \/ (file = "port" /\ lines' = lineStatus[t])
    BY <1>4, <2>1 DEF Write, Named, Names
  <2>4. s = Settings(termios, lines)
    BY <2>1 DEF Quiet
  <2>. QED BY <2>1, <2>2, <2>3, <2>4 DEF Quiet, Written
<1>5. CASE pc[t] # "verify" /\ ~ Write(t)
  BY <1>1, <1>5, KernelKept DEF Quiet, kernel
<1>6. CASE pc[t] = "verify"
  <2>1. UNCHANGED kernel
    BY <1>6, KernelKept DEF Write, At
  <2>2. Untouched(Ask(t), s, Settings(termios, lines))
    BY <1>6 DEF Quiet
  <2>3. Verify(t) \/ VerifyFails(t) \/ Open(t)
    BY <1>6 DEF Steps, Opening, Attributes, FlushDevice, CreateEvents, Setting, Call, ReadFails, ReadParams,
                ReadChars, ReadOnly, ReadLines, Write, WriteFails, Return, Close, Release, Learn, At, Idle
  <2>4. CASE Verify(t)
    <3>1. Finish(t, "notSet") \/ Finish(t, "ok")
      BY <1>3, <2>4 DEF Verify, Fail
    <3>. QED BY <1>2, <2>1, <2>2, <3>1 DEF kernel
  <2>5. CASE VerifyFails(t)
    <3>1. PICK r \in formatMsg(t) : Finish(t, r)
      BY <2>5 DEF VerifyFails, Fail
    <3>2. r # "rejected"
      BY <3>1, formatMsgType DEF TypeOK
    <3>. QED BY <1>2, <2>1, <2>2, <3>1, <3>2 DEF kernel
  <2>6. ~ Open(t)
    BY OpenIsFirst DEF Quiet
  <2>. QED BY <2>3, <2>4, <2>5, <2>6
<1>. QED BY <1>4, <1>5, <1>6

LEMMA QuietKept == Spec => []QuietInv
<1>1. Init => QuietInv
  BY DEF Init, QuietInv, Quiet
<1>2. TypeOK /\ PhaseInv /\ HistoryShape /\ QuietInv /\ [Next]_vars => QuietInv'
  BY NextQuiet
<1>. QED BY <1>1, <1>2, SettingsTypeCorrect, PhasesInOrder, PromiseKept, PTL DEF Spec

\* A setter that no other call overlaps changes nothing but what it was asked for, whatever
\* bits the driver ignores and however the call ends, and nothing at all if its arguments
\* are rejected; new data bits turn 2 stop bits into 1.5 and back.
THEOREM OthersAreUntouched == Spec => OthersUntouched
<1>. DEFINE Kept ==
       \A t \in Threads : \A s \in before[t] :
         LET now == Settings(termios', lines') IN
         Ends(t)
         => /\ \A i \in Items \ {"stopBits"} :
                 now[i] # s[i] => Ask(t)[i] # {} /\ result'[t] # "rejected"
            /\ now.stopBits # s.stopBits =>
                 \/ Ask(t).stopBits # {} /\ result'[t] # "rejected"
                 \/ Ask(t).dataBits # {} /\ {now.stopBits, s.stopBits} = {"SB_1_5", "SB_2"}
<1>1. ASSUME TypeOK, PhaseInv, HistoryShape, QuietInv, [Next]_vars PROVE [Kept]_vars
  <2>. SUFFICES ASSUME Next, NEW t \in Threads, NEW s \in before[t], Ends(t)
                PROVE  LET now == Settings(termios', lines') IN
                       /\ \A i \in Items \ {"stopBits"} :
                            now[i] # s[i] => Ask(t)[i] # {} /\ result'[t] # "rejected"
                       /\ now.stopBits # s.stopBits =>
                            \/ Ask(t).stopBits # {} /\ result'[t] # "rejected"
                            \/ Ask(t).dataBits # {} /\ {now.stopBits, s.stopBits} = {"SB_1_5", "SB_2"}
    BY <1>1
  <2>. DEFINE now == Settings(termios', lines')
  <2>1. Steps(t)
    BY <1>1, EndsItself
  <2>2. now = s \/ (Untouched(Ask(t), s, now) /\ result'[t] # "rejected")
    BY <1>1, <2>1, EndsUntouched DEF QuietInv
  <2>. HIDE DEF now
  <2>3. /\ \A i \in Items \ {"stopBits"} :
             now[i] # s[i] => Ask(t)[i] # {} /\ result'[t] # "rejected"
        /\ now.stopBits # s.stopBits =>
             \/ Ask(t).stopBits # {} /\ result'[t] # "rejected"
             \/ Ask(t).dataBits # {} /\ {now.stopBits, s.stopBits} = {"SB_1_5", "SB_2"}
    BY <2>2 DEF Untouched
  <2>. QED BY <2>3 DEF now
<1>2. TypeOK /\ PhaseInv /\ HistoryShape /\ QuietInv /\ [Next]_vars => [Kept]_vars
  BY <1>1
<1>. HIDE DEF Kept
<1>3. Spec => [][Kept]_vars
  BY <1>2, SettingsTypeCorrect, PhasesInOrder, PromiseKept, QuietKept, PTL DEF Spec
<1>. QED BY <1>3 DEF OthersUntouched, Kept
==============================================================================
