--------------------------- MODULE WinApiSettings ---------------------------
(***************************************************************************)
(* The line settings as the fields of a DCB, and the timeouts as those of  *)
(* COMMTIMEOUTS: what setParams, getParams, setTimeouts and their getters  *)
(* in WinApiSettings.c compute.                                            *)
(***************************************************************************)
EXTENDS Integers, LineSettings

CONSTANT MaxInt  \* the largest jint, 2^31 - 1

ASSUME WidthAssumption == MaxInt \in Nat /\ MaxInt >= 100

\* The largest DWORD.
MAXDWORD == 2 * MaxInt + 1

\* The DCB may hold a rate that setDCB_Baudrate has no constant for.
RtsControl == {"DISABLE", "ENABLE", "HANDSHAKE", "TOGGLE"}
DCB == [speed : Speeds \cup {"unlisted"}, size : DataBits, stop : StopBits, parity : Parity,
        rts : RtsControl, cts : BOOLEAN, inX : BOOLEAN, outX : BOOLEAN,
        vstart : 0..255, vstop : 0..255]

------------------------------------------------------------------------------
\* New data bits turn 2 stop bits into 1.5 and back, before the stop bits asked for.
FixedStopBits(size, stop) ==
  CASE size = "DB_5" /\ stop = "SB_2"   -> "SB_1_5"
    [] size # "DB_5" /\ stop = "SB_1_5" -> "SB_2"
    [] OTHER                            -> stop

\* Faulty: the stop bits are left alone.
ModifiedSizeOnly(ask, dcb) ==
  [dcb EXCEPT !.speed = Chosen(ask.speed, @), !.size = Chosen(ask.dataBits, @)]

ModifiedSize(ask, dcb) ==
  [dcb EXCEPT !.speed = Chosen(ask.speed, @),
              !.size  = Chosen(ask.dataBits, @),
              !.stop  = IF ask.dataBits = {} THEN @
                        ELSE FixedStopBits(Chosen(ask.dataBits, dcb.size), @)]

ModifiedFlow(ask, dcb) ==
  IF ask.flowControls = {} THEN dcb
  ELSE LET f == Chosen(ask.flowControls, {})
       IN  [dcb EXCEPT !.rts  = IF "RTS_CTS_IN" \in f THEN "HANDSHAKE" ELSE "DISABLE",
                       !.cts  = "RTS_CTS_OUT" \in f,
                       !.inX  = "XON_XOFF_IN" \in f,
                       !.outX = "XON_XOFF_OUT" \in f]

ModifiedDCB(ask, dcb) ==
  ModifiedFlow(ask, [ModifiedSize(ask, dcb) EXCEPT !.stop   = Chosen(ask.stopBits, @),
                                                   !.parity = Chosen(ask.parity, @)])

\* The arguments setParams throws IllegalArgumentException for.
RejectsDCB(ask, dcb) ==
  \/ "SB_1_5" \in ask.stopBits /\ Chosen(ask.dataBits, dcb.size) # "DB_5"
  \/ "SB_2" \in ask.stopBits /\ Chosen(ask.dataBits, dcb.size) = "DB_5"

FlowOfDCB(dcb) ==
  (IF dcb.rts = "HANDSHAKE" THEN {"RTS_CTS_IN"} ELSE {})
  \cup (IF dcb.cts THEN {"RTS_CTS_OUT"} ELSE {})
  \cup (IF dcb.inX THEN {"XON_XOFF_IN"} ELSE {})
  \cup (IF dcb.outX THEN {"XON_XOFF_OUT"} ELSE {})

\* SetCommState succeeds when the driver has made some of the changes.  "cts", "inX"
\* and "outX" stand for both values of their field.
AcceptedDCB(old, new) ==
  [new EXCEPT !.speed  = IF @ \in Stuck THEN old.speed ELSE @,
              !.size   = IF @ \in Stuck THEN old.size ELSE @,
              !.stop   = IF @ \in Stuck THEN old.stop ELSE @,
              !.parity = IF @ \in Stuck THEN old.parity ELSE @,
              !.rts    = IF @ \in Stuck THEN old.rts ELSE @,
              !.cts    = IF "cts" \in Stuck THEN old.cts ELSE @,
              !.inX    = IF "inX" \in Stuck THEN old.inX ELSE @,
              !.outX   = IF "outX" \in Stuck THEN old.outX ELSE @]

------------------------------------------------------------------------------
(***************************************************************************)
(* The timeouts in ms, 0 standing for infinite: the argument of            *)
(* setTimeouts is <<interByteReadTimeout, overallReadTimeout,              *)
(* overallWriteTimeout>>.                                                  *)
(***************************************************************************)
COMMTIMEOUTS == [interval : 0..MAXDWORD, multiplier : 0..MAXDWORD,
                 constant : 0..MAXDWORD, write : 0..MAXDWORD]

\* What open0 sets.
OpenTimeouts == [interval |-> 100, multiplier |-> 0, constant |-> 0, write |-> 0]

RejectsTimeouts(ask) == \E i \in 1..3 : ask[i] < 0

\* A total timeout alone: ReadFile returns with the first byte, or after the constant.
CommTimeouts(ask) ==
  [interval   |-> IF ask[1] = 0 /\ ask[2] > 0 THEN MAXDWORD ELSE ask[1],
   multiplier |-> IF ask[1] = 0 /\ ask[2] > 0 THEN MAXDWORD ELSE 0,
   constant   |-> ask[2],
   write      |-> ask[3]]

\* getInterByteReadTimeout; the cast of a DWORD above MaxInt is negative.
InterByte(ct) == IF ct.interval = MAXDWORD /\ ct.multiplier = MAXDWORD THEN 0
                 ELSE IF ct.interval > MaxInt THEN ct.interval - MAXDWORD - 1
                 ELSE ct.interval

TimeoutsOf(ct) == <<InterByte(ct), ct.constant, ct.write>>
=============================================================================
