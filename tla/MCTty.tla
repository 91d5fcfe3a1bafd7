------------------------------- MODULE MCTty -------------------------------
(* GoldfishTty with a buffer of three bytes and a host that sends seven: the *)
(* ring wraps twice, is empty, partly full and full, and a DATA_LEN above    *)
(* the buffer's size is among the guest's choices.                           *)
EXTENDS GoldfishTty

============================================================================
