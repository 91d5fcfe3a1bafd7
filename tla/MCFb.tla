-------------------------------- MODULE MCFb --------------------------------
(* GoldfishFb with two buffers: the guest draws twice in each, is reset once *)
(* and blanks, refreshes and migrations come at any point.                   *)
EXTENDS GoldfishFb
=============================================================================
