------------------------------ MODULE MCTtyDma ------------------------------
(* GoldfishTtyDma with an array of two bytes and buffers of up to five: no,   *)
(* one, two and three turns, the last of them full or not; four addresses,    *)
(* so that a buffer wraps and may overlap itself.                             *)
EXTENDS GoldfishTtyDma
=============================================================================
