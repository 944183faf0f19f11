---------------------------- MODULE MCLimitInputs ----------------------------
(***************************************************************************)
(* The limit switches of uno_q_cnc_map.h: X, Y and Z on the pins 6, 7, 8.  *)
(***************************************************************************)
EXTENDS LimitInputs

MCAxis == {"x", "y", "z"}
MCPin == [x |-> 6, y |-> 7, z |-> 8]
MCBit == [x |-> 0, y |-> 1, z |-> 2]
MCPullups == {{}}
=============================================================================
