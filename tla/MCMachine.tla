------------------------------ MODULE MCMachine ------------------------------
(* GoldfishMachine with a tty buffer of two bytes for a host that sends      *)
(* three, and an event queue of two events (one in MCMachineLive.cfg) for a  *)
(* host that sends twice as many, so that both fill up and wrap; resets at   *)
(* any point of the boot, of the handler or of an event.                     *)
EXTENDS GoldfishMachine
==============================================================================
