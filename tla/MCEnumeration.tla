---------------------------- MODULE MCEnumeration ----------------------------
(* GoldfishEnumeration with the board's own list, with and without a network *)
(* card, and four addresses that differ in either half.                      *)
EXTENDS GoldfishEnumeration
==============================================================================
