-------------------------- MODULE TermiosSettings --------------------------
(***************************************************************************)
(* The line settings as the bits of a termios structure.  setParams and    *)
(* getParams of TermiosSettings.c compute with them, and statement for     *)
(* statement so do setParams and the getters of PosixConfiguration.java.   *)
(***************************************************************************)
EXTENDS LineSettings

CONSTANT SpeedsOfOS \* the speeds whose Bxxx the platform defines

\* COOKED stands for the bits of c_iflag, c_oflag and c_lflag, and the non-zero
\* VMIN and VTIME, that make the terminal interpret what it transfers.
Flags == {"CSTOPB", "PARENB", "PARODD", "CMSPAR", "CRTSCTS",
          "INPCK", "IXON", "IXOFF", "COOKED"}

------------------------------------------------------------------------------

ParityBits(p) == CASE p = "NONE"  -> {}
                   [] p = "ODD"   -> {"PARENB", "PARODD", "INPCK"}
                   [] p = "EVEN"  -> {"PARENB", "INPCK"}
                   [] p = "MARK"  -> {"PARENB", "PARODD", "CMSPAR", "INPCK"}
                   [] p = "SPACE" -> {"PARENB", "CMSPAR", "INPCK"}

\* Faulty: the stop bit is taken for one of the parity bits.
ParityMaskTooWide == {"PARENB", "PARODD", "CMSPAR", "INPCK", "CSTOPB"}

\* Parity NONE clears INPCK, any other sets it, so all four bits are replaced.
ParityMask == {"PARENB", "PARODD", "CMSPAR", "INPCK"}

FlowBits(f) == (IF {"RTS_CTS_IN", "RTS_CTS_OUT"} \subseteq f THEN {"CRTSCTS"} ELSE {})
               \cup (IF "XON_XOFF_IN" \in f THEN {"IXOFF"} ELSE {})
               \cup (IF "XON_XOFF_OUT" \in f THEN {"IXON"} ELSE {})
FlowMask == {"CRTSCTS", "IXON", "IXOFF"}

StopBitsBits(s) == IF s = "SB_1" THEN {} ELSE {"CSTOPB"}

\* The bits of a group are replaced if there is an argument for it.
Replaced(flags, arg, mask, bits) == IF arg = {} THEN flags ELSE (flags \ mask) \cup bits

ModifiedFlags(ask, flags) ==
  LET stop == Replaced(flags, ask.stopBits, {"CSTOPB"}, UNION {StopBitsBits(x) : x \in ask.stopBits})
      par  == Replaced(stop, ask.parity, ParityMask, UNION {ParityBits(x) : x \in ask.parity})
  IN  Replaced(par, ask.flowControls, FlowMask, UNION {FlowBits(x) : x \in ask.flowControls})

Modified(ask, tm) == [tm EXCEPT !.ispeed = Chosen(ask.speed, @),
                                !.ospeed = Chosen(ask.speed, @),
                                !.size   = Chosen(ask.dataBits, @),
                                !.flags  = ModifiedFlags(ask, @)]

\* speed2speed_t throws for a speed that the platform does not define.
NotDefined(speed) == ~ speed \subseteq SpeedsOfOS

\* The arguments setParams throws IllegalArgumentException for.
Rejects(ask, tm) ==
  \/ NotDefined(ask.speed)
  \/ "SB_1_5" \in ask.stopBits /\ Chosen(ask.dataBits, tm.size) # "DB_5"
  \/ "SB_2" \in ask.stopBits /\ Chosen(ask.dataBits, tm.size) = "DB_5"
  \/ \E f \in ask.flowControls : ("RTS_CTS_IN" \in f) # ("RTS_CTS_OUT" \in f)

getSpeed(tm)    == IF tm.ispeed = tm.ospeed THEN tm.ispeed ELSE "mismatch"
getStopBits(tm) == IF "CSTOPB" \notin tm.flags THEN "SB_1"
                   ELSE IF tm.size = "DB_5" THEN "SB_1_5" ELSE "SB_2"
getParity(tm)   ==
  IF "PARENB" \notin tm.flags THEN "NONE"
  ELSE IF "PARODD" \notin tm.flags
       THEN IF "CMSPAR" \notin tm.flags THEN "EVEN" ELSE "SPACE"
       ELSE IF "CMSPAR" \notin tm.flags THEN "ODD" ELSE "MARK"
getFlowControl(tm) ==
  (IF "CRTSCTS" \in tm.flags THEN {"RTS_CTS_IN", "RTS_CTS_OUT"} ELSE {})
  \cup (IF "IXOFF" \in tm.flags THEN {"XON_XOFF_IN"} ELSE {})
  \cup (IF "IXON" \in tm.flags THEN {"XON_XOFF_OUT"} ELSE {})

\* tcsetattr(3) succeeds when the driver has made some of the changes.
Accepted(old, new) ==
  [new EXCEPT !.flags  = (@ \ Stuck) \cup (old.flags \cap Stuck),
              !.size   = IF @ \in Stuck THEN old.size ELSE @,
              !.ispeed = IF @ \in Stuck THEN old.ispeed ELSE @,
              !.ospeed = IF @ \in Stuck THEN old.ospeed ELSE @]
=============================================================================
