------------------------------ MODULE MCEvents ------------------------------
(* GoldfishKeys with room for exactly two events, so that a third one fits  *)
(* only when a whole event has been read, and the ring wraps; like the      *)
(* code's 768 words, six are a multiple of three.  The host presses a       *)
(* mapped and an unmapped key and points inside, at both ends of and beyond *)
(* the range; the screen is wide enough for two bytes of a position.        *)
EXTENDS GoldfishKeys

MCAbsValues == {-1, 0, AbsLimit, AbsLimit + 1}
=============================================================================
