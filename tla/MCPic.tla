------------------------------- MODULE MCPic -------------------------------
(* GoldfishPic with three lines: one to be masked, one to be asserted and   *)
(* one that stays out of it.  The registers are small enough that nothing   *)
(* has to be bounded.                                                       *)
EXTENDS GoldfishPic

============================================================================
