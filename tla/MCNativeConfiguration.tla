------------------------ MODULE MCNativeConfiguration ------------------------
(***************************************************************************)
(* NativeConfiguration for TLC: on each platform calls that touch every    *)
(* group of settings, a driver without mark parity, and a platform without *)
(* B4000000.  A jint is 7 bits and a sign wide.                            *)
(***************************************************************************)
EXTENDS NativeConfiguration, TLC

Symmetry == Permutations(Threads)

Set(op, item, value) == [op |-> op, ask |-> [NoAsk EXCEPT ![item] = {value}]]

\* 456 becomes 200 in a byte.
AllRequests ==
  {Set("setParameters", "dataBits", "DB_5"), Set("setParameters", "dataBits", "DB_8"),
   Set("setParameters", "stopBits", "SB_2"),
   Set("setParameters", "speed", "B4000000"),
   [op |-> "setParameters", ask |-> [NoAsk EXCEPT !.parity = {"MARK"},
                                                  !.flowControls = {{"XON_XOFF_IN"}}]],
   Set("setXONChar", "xon", 200), Set("setXONChar", "xon", 456),
   Set("setRTS", "RTS", FALSE),
   Set("setInSpeed", "inSpeed", "B9600"), Set("setOutSpeed", "outSpeed", "B9600"),
   Set("setTimeouts", "timeouts", <<0, 127, 0>>), Set("setTimeouts", "timeouts", <<127, 0, -1>>),
   [op |-> "getParameters", ask |-> NoAsk]}

\* open(portName), and open with everything.
AllOpenAsks == {NoAsk,
                [NoAsk EXCEPT !.speed = {"B9600"}, !.dataBits = {"DB_8"}, !.stopBits = {"SB_2"},
                              !.parity = {"EVEN"},
                              !.flowControls = {{"RTS_CTS_IN", "RTS_CTS_OUT"}}]}

\* Left by a program that used parity and, on POSIX, separate speeds.
LeftTermios == [flags |-> {"COOKED", "IXON", "PARENB", "INPCK"}, size |-> "DB_8",
                ispeed |-> "B9600", ospeed |-> "B115200", vstart |-> 17, vstop |-> 19]
LeftDCB     == [speed |-> "unlisted", size |-> "DB_8", stop |-> "SB_2", parity |-> "ODD",
                rts |-> "TOGGLE", cts |-> FALSE, inX |-> FALSE, outX |-> TRUE,
                vstart |-> 17, vstop |-> 19]

AllPrevious == [termios |-> {LeftTermios}, windows |-> {LeftDCB}]
=============================================================================
