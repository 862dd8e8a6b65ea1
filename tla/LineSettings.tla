---------------------------- MODULE LineSettings ----------------------------
(***************************************************************************)
(* The settings of a serial line, as the interface names them.             *)
(*                                                                         *)
(* An argument is the set of what the caller passes: the parts that its    *)
(* bit set, or its nulls, leave out are {}.                                *)
(***************************************************************************)

CONSTANTS Speeds,
          Stuck  \* values and bits that the driver silently leaves as they were

DataBits == {"DB_5", "DB_6", "DB_7", "DB_8"}
StopBits == {"SB_1", "SB_1_5", "SB_2"}
Parity   == {"NONE", "ODD", "EVEN", "MARK", "SPACE"}
FlowControl == {"RTS_CTS_IN", "RTS_CTS_OUT", "XON_XOFF_IN", "XON_XOFF_OUT"}

Chosen(arg, old) == IF arg = {} THEN old ELSE CHOOSE a \in arg : TRUE
=============================================================================
