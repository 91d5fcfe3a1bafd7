------------------------------ MODULE MCTimer ------------------------------
(* GoldfishTimer with times of three bits, two of them in the low half: the *)
(* clock can carry from the low half into the high one, guest times wrap,   *)
(* and the upper half of the range holds the negative deadlines.  One       *)
(* snapshot is of a machine that has just started, one of a machine whose   *)
(* guest set the alarm to 2 when its clock stood at 1.                      *)
EXTENDS GoldfishTimer

MCSnapshots ==
  {[clock |-> 0, tick_offset |-> 0, alarm_next |-> 0, time_high |-> 0,
    alarm_running |-> FALSE, irq_pending |-> FALSE, irq_enabled |-> FALSE],
   [clock |-> 1, tick_offset |-> 0, alarm_next |-> 2, time_high |-> 0,
    alarm_running |-> TRUE, irq_pending |-> FALSE, irq_enabled |-> TRUE]}
=============================================================================
