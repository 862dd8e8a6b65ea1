------------------------ MODULE MCPosixConfiguration ------------------------
(***************************************************************************)
(* PosixConfiguration for TLC: a few calls that touch every group of bits, *)
(* a driver without mark and space parity, and a platform without B4000000.*)
(***************************************************************************)
EXTENDS PosixConfiguration, TLC

Symmetry == Permutations(Threads)

Set(op, item, value) == [op |-> op, ask |-> [NoAsk EXCEPT ![item] = {value}]]
Params(item, values) == {Set("setParams", item, v) : v \in values}

RtsCts == {"RTS_CTS_IN", "RTS_CTS_OUT"}

AllRequests ==
  Params("dataBits", {"DB_5", "DB_8"}) \cup Params("stopBits", {"SB_1_5", "SB_2"})
  \cup Params("parity", {"MARK"})
  \cup Params("speed", {"B9600", "B4000000"})
  \cup Params("flowControls", {{"RTS_CTS_OUT"}})
  \cup {Set("setXONChar", "xon", 456)}
  \cup {Set("setRTS", "RTS", FALSE), Set("setDTR", "DTR", FALSE)}
  \cup {Set("setInSpeed", "speed", "B9600"), Set("setOutSpeed", "speed", "B9600")}
  \cup {[op |-> o, ask |-> NoAsk] : o \in {"getSpeed", "getLineStatus"}}

\* open(portName), and open with everything.
AllOpenAsks == {NoAsk,
                [NoAsk EXCEPT !.speed = {"B115200"}, !.dataBits = {"DB_8"}, !.stopBits = {"SB_1"},
                              !.parity = {"EVEN"}, !.flowControls = {RtsCts}]}

\* Left by a program that used parity and separate speeds.
AllPrevious == {[flags |-> {"COOKED", "IXON", "PARENB", "INPCK"}, size |-> "DB_8",
                 ispeed |-> "B9600", ospeed |-> "B115200", vstart |-> 17, vstop |-> 19]}
=============================================================================
