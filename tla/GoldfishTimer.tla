--------------------------- MODULE GoldfishTimer ---------------------------
(***************************************************************************)
(* The goldfish clock and alarm, hw_timer_android_goldfish_timer.c: a      *)
(* 64-bit guest time, read and written in two halves over QEMU's virtual   *)
(* clock, and one alarm that a QEMU timer fires.                           *)
(*                                                                         *)
(* A register half counts modulo Low or High (both 2^32 in the code) and   *)
(* all arithmetic on whole times is modulo Low * High, as uint64_t is.     *)
(* timer_mod takes a signed deadline, so a deadline in the upper half of   *)
(* the range is negative, and QEMU runs it at once.                        *)
(*                                                                         *)
(* Handlers and the timer's callback are atomic under QEMU's big lock; the *)
(* clock runs between them, and the callback may come late.                *)
(*                                                                         *)
(* The guest reads a time in two accesses, and an interrupt handler that   *)
(* reads it too may run between them.  A snapshot may be loaded into a new *)
(* process or, with loadvm, into the one that runs.                        *)
(***************************************************************************)
EXTENDS Integers

CONSTANTS
  Low, High,  \* the number of values of the two halves of a time
  MaxClock,   \* bound on the virtual clock; it never reaches the sign bit
  Snapshots   \* snapshots made earlier, while no time was being read

Modulus == Low * High
HalfRange == Modulus \div 2

Times == 0 .. Modulus - 1

(* The clock and the fields of vmstate_android_goldfish_timer. *)
SavedStates ==
  [clock : 0 .. MaxClock, tick_offset : Times, alarm_next : Times,
   time_high : 0 .. High - 1, alarm_running : BOOLEAN,
   irq_pending : BOOLEAN, irq_enabled : BOOLEAN]

ASSUME TimerAssumption ==
  /\ Low \in Nat \ {0} /\ High \in Nat \ {0}
  /\ MaxClock \in Nat /\ MaxClock < HalfRange
  /\ Snapshots \subseteq SavedStates

VARIABLES
  clock,        \* qemu_clock_get_ns(QEMU_CLOCK_VIRTUAL)
  tick_offset,  \* s->tick_offset
  alarm_next,   \* s->alarm_next
  time_high,    \* s->time_high
  alarm_running,\* s->alarm_running
  irq_pending,  \* s->irq_pending
  irq_enabled,  \* s->irq_enabled
  irq,          \* the level of s->irq
  deadline,     \* the expiry of s->timer, or None
  capture,      \* history: the high half of the time whose low half the
                \*   guest has read, until it reads TIME_HIGH; or None
  outer,        \* history: the capture of the code that an interrupt handler
                \*   runs in the middle of, or None
  torn,         \* history: the handler read another high half than that
  due,          \* history: the clock at which the alarm is due, as armed
  moved,        \* history: TIME or ALARM_HIGH was written since it was armed
  stale         \* history: the QEMU timer is that of a machine that loadvm
                \*   has replaced

None == -1

registers == <<tick_offset, alarm_next, time_high, irq_enabled>>
alarm == <<alarm_running, deadline, due, moved, stale>>
line == <<irq_pending, irq>>
reader == <<capture, outer, torn>>
vars == <<clock, registers, alarm, line, reader>>

TypeOK ==
  /\ clock \in 0 .. MaxClock
  /\ tick_offset \in Times
  /\ alarm_next \in Times
  /\ time_high \in 0 .. High - 1
  /\ alarm_running \in BOOLEAN
  /\ irq_pending \in BOOLEAN
  /\ irq_enabled \in BOOLEAN
  /\ irq \in BOOLEAN
  /\ deadline \in {None} \cup 0 .. HalfRange - 1
  /\ capture \in {None} \cup 0 .. High - 1
  /\ outer \in {None} \cup 0 .. High - 1
  /\ torn \in BOOLEAN
  /\ due \in 0 .. MaxClock + Modulus
  /\ moved \in BOOLEAN /\ stale \in BOOLEAN

(* android_goldfish_timer_realize *)
Init ==
  /\ clock = 0
  /\ tick_offset = 0 /\ alarm_next = 0 /\ time_high = 0
  /\ alarm_running = FALSE /\ irq_pending = FALSE /\ irq_enabled = FALSE
  /\ irq = FALSE
  /\ deadline = None
  /\ capture = None /\ outer = None /\ torn = FALSE
  /\ due = 0 /\ moved = FALSE /\ stale = FALSE

----------------------------------------------------------------------------
LowOf(time) == time % Low
HighOf(time) == time \div Low
Join(high, low) == high * Low + low

(* A definition named Wrong... is a plausible slip in the code it precedes,  *)
(* kept to show which property notices it; no specification uses it.        *)

(* android_goldfish_timer_get_time *)
Now == (tick_offset + clock) % Modulus

WrongUpdateIrq == irq' = irq_pending'       \* ignores irq_enabled

UpdateIrq == irq' = (irq_pending' /\ irq_enabled')

(* timer_mod's expiry: a negative one is as good as 0. *)
Expiry(time) == IF time < HalfRange THEN time ELSE 0

(* android_goldfish_timer_interrupt; the line follows with UpdateIrq *)
Interrupt ==
  /\ alarm_running' = FALSE
  /\ irq_pending' = TRUE

WrongSetAlarm(next, offset, t, pending) ==  \* the guest's time, not the clock's
  /\ stale' = FALSE
  /\ IF next <= (offset + t) % Modulus
     THEN deadline' = None /\ Interrupt /\ UNCHANGED <<due, moved>>
     ELSE /\ deadline' = Expiry(next)
          /\ alarm_running' = TRUE
          /\ due' = t + next - ((offset + t) % Modulus)
          /\ moved' = FALSE
          /\ irq_pending' = pending

(* android_goldfish_timer_set_alarm: an alarm that is not in the future    *)
(* interrupts at once, any other is armed.  The parameters are alarm_next, *)
(* tick_offset, the clock and irq_pending at the call, which differ from   *)
(* the state's when a register is written or a snapshot is loaded.         *)
SetAlarm(next, offset, t, pending) ==
  LET now == (offset + t) % Modulus
  IN  /\ stale' = FALSE
      /\ IF next <= now
         THEN deadline' = None /\ Interrupt /\ UNCHANGED <<due, moved>>
         ELSE /\ deadline' = Expiry((next - offset) % Modulus)
              /\ alarm_running' = TRUE
              /\ due' = t + (next - now)
              /\ moved' = FALSE
              /\ irq_pending' = pending

----------------------------------------------------------------------------
(* The guest's accesses: android_goldfish_timer_read and _write. *)

WrongReadTimeLow ==                         \* does not latch the high half
  /\ capture' = HighOf(Now)
  /\ torn' = (outer # None /\ (torn \/ HighOf(Now) # outer))
  /\ UNCHANGED <<clock, registers, alarm, line, outer>>

ReadTimeLow ==
  /\ time_high' = HighOf(Now)
  /\ capture' = HighOf(Now)
  /\ torn' = (outer # None /\ (torn \/ HighOf(Now) # outer))
  /\ UNCHANGED <<clock, tick_offset, alarm_next, irq_enabled, alarm, line,
                 outer>>

ReadTimeHigh ==
  /\ capture' = None
  /\ UNCHANGED <<clock, registers, alarm, line, outer, torn>>

(* An interrupt handler begins while a time is being read, and returns.    *)
HandlerBegins ==
  /\ capture # None /\ outer = None
  /\ outer' = capture
  /\ capture' = None
  /\ UNCHANGED <<clock, registers, alarm, line, torn>>

HandlerReturns ==
  /\ capture = None /\ outer # None
  /\ capture' = outer
  /\ outer' = None
  /\ UNCHANGED <<clock, registers, alarm, line, torn>>

(* The offset moves by the difference; an armed alarm does not. *)
WriteTime(time) ==
  /\ tick_offset' = (tick_offset + time - Now) % Modulus
  /\ moved' = alarm_running
  /\ UNCHANGED <<clock, alarm_next, time_high, irq_enabled, alarm_running,
                 deadline, due, stale, line, reader>>

WriteTimeLow(value) == WriteTime(Join(HighOf(Now), value))
WriteTimeHigh(value) == WriteTime(Join(value, LowOf(Now)))

WriteAlarmLow(value) ==
  /\ alarm_next' = Join(HighOf(alarm_next), value)
  /\ UNCHANGED <<clock, tick_offset, time_high, irq_enabled, reader>>
  /\ SetAlarm(alarm_next', tick_offset, clock, irq_pending)
  /\ IF alarm_running' THEN UNCHANGED irq ELSE UpdateIrq

WriteAlarmHigh(value) ==
  /\ alarm_next' = Join(value, LowOf(alarm_next))
  /\ moved' = alarm_running
  /\ UNCHANGED <<clock, tick_offset, time_high, irq_enabled, alarm_running,
                 deadline, due, stale, line, reader>>

WriteIrqEnabled(value) ==
  /\ irq_enabled' = value
  /\ UNCHANGED <<clock, tick_offset, alarm_next, time_high, alarm,
                 irq_pending, reader>>
  /\ UpdateIrq

WrongClearAlarm ==                          \* without timer_del
  /\ alarm_running' = FALSE
  /\ UNCHANGED <<clock, registers, deadline, due, moved, stale, line, reader>>

ClearAlarm ==
  /\ deadline' = None
  /\ alarm_running' = FALSE
  /\ stale' = FALSE
  /\ UNCHANGED <<clock, registers, due, moved, line, reader>>

ClearInterrupt ==
  /\ irq_pending' = FALSE
  /\ UNCHANGED <<clock, registers, alarm, reader>>
  /\ UpdateIrq

Guest ==
  \/ ReadTimeLow \/ ReadTimeHigh \/ HandlerBegins \/ HandlerReturns
  \/ \E value \in 0 .. Low - 1 : WriteTimeLow(value) \/ WriteAlarmLow(value)
  \/ \E value \in 0 .. High - 1 : WriteTimeHigh(value) \/ WriteAlarmHigh(value)
  \/ \E value \in BOOLEAN : WriteIrqEnabled(value)
  \/ ClearAlarm
  \/ ClearInterrupt

----------------------------------------------------------------------------
(* QEMU. *)

Tick ==
  /\ clock < MaxClock
  /\ clock' = clock + 1
  /\ UNCHANGED <<registers, alarm, line, reader>>

Fire ==
  /\ deadline # None /\ deadline <= clock
  /\ deadline' = None
  /\ stale' = FALSE
  /\ UNCHANGED <<clock, registers, due, moved, reader>>
  /\ Interrupt
  /\ UpdateIrq

WrongLoadNoRearm(state, timer) ==           \* without post_load
  /\ clock' = state.clock
  /\ tick_offset' = state.tick_offset
  /\ alarm_next' = state.alarm_next
  /\ time_high' = state.time_high
  /\ alarm_running' = state.alarm_running
  /\ irq_pending' = state.irq_pending
  /\ irq_enabled' = state.irq_enabled
  /\ deadline' = timer
  /\ UNCHANGED <<due, moved, stale, irq>>

(* The fields of vmstate_android_goldfish_timer and the virtual clock come *)
(* back over a QEMU timer in the given state, and                          *)
(* android_goldfish_timer_post_load runs: it arms the alarm of the         *)
(* snapshot, but does not delete the timer when there is none.             *)
Load(state, timer) ==
  /\ clock' = state.clock
  /\ tick_offset' = state.tick_offset
  /\ alarm_next' = state.alarm_next
  /\ time_high' = state.time_high
  /\ irq_enabled' = state.irq_enabled
  /\ IF state.alarm_running
     THEN SetAlarm(state.alarm_next, state.tick_offset, state.clock,
                   state.irq_pending)
     ELSE /\ alarm_running' = FALSE
          /\ irq_pending' = state.irq_pending
          /\ deadline' = timer
          /\ stale' = (timer # None)
          /\ UNCHANGED <<due, moved>>
  /\ UpdateIrq

(* The machine is saved and restored in a new process, whose QEMU timer is *)
(* idle.                                                                   *)
Migrate ==
  /\ Load([clock |-> clock, tick_offset |-> tick_offset,
           alarm_next |-> alarm_next, time_high |-> time_high,
           alarm_running |-> alarm_running, irq_pending |-> irq_pending,
           irq_enabled |-> irq_enabled], None)
  /\ UNCHANGED reader

(* loadvm in the running process: its QEMU timer is as it is. *)
LoadVm ==
  /\ \E state \in Snapshots : Load(state, deadline)
  /\ capture' = None /\ outer' = None /\ torn' = FALSE

Next == Guest \/ Tick \/ Fire \/ Migrate \/ LoadVm

(* The virtual clock runs and QEMU's main loop calls expired timers. *)
Fairness == WF_vars(Tick) /\ WF_vars(Fire)

Spec == Init /\ [][Next]_vars
FairSpec == Spec /\ Fairness

----------------------------------------------------------------------------
(***************************************************************************)
(* Properties.                                                             *)
(***************************************************************************)

(* ALARM_STATUS tells the truth: the guest reads a running alarm exactly   *)
(* while a QEMU timer is set to fire it, through alarms armed, fired,      *)
(* cleared, overtaken by a TIME write and restored.  The exception is a    *)
(* loadvm over an armed alarm by a machine without one (post_load deletes  *)
(* nothing): then the old timer is left, for one interrupt at most.        *)
StatusMatchesTimer ==
  /\ ~stale => (alarm_running <=> deadline # None)
  /\ stale => deadline # None /\ ~alarm_running

(* The alarm's QEMU timer is set to the moment the guest's time reaches    *)
(* alarm_next, as the registers stood when it was armed (set_alarm), as    *)
(* long as that moment is within the signed range of timer_mod; and while  *)
(* neither TIME nor ALARM_HIGH was written after that, the registers still *)
(* name that moment.                                                       *)
DeadlineIsDue ==
  alarm_running =>
    /\ due < HalfRange => deadline = due
    /\ ~moved => (tick_offset + due) % Modulus = alarm_next

(* Reading TIME_LOW and then TIME_HIGH gives the two halves of one time,   *)
(* whatever runs between the two accesses: the clock, writes of TIME, the  *)
(* alarm, a migration (the comment on TIME_LOW in read), and an interrupt  *)
(* handler too, unless it reads the time itself and the high half has      *)
(* changed since (there is one time_high for all readers).                 *)
HalvesOfOneTime ==
  capture # None => time_high = capture \/ (torn /\ outer = None)

(* An armed alarm is never dropped silently: unless the guest clears it or *)
(* loadvm replaces the machine, it stops running only by leaving an        *)
(* interrupt pending, with the line up if the guest enabled it -- when the *)
(* QEMU timer fires, when ALARM_LOW is rewritten with a time already past, *)
(* and when a restore finds it past.                                       *)
AlarmRings ==
  [][ alarm_running /\ ~alarm_running'
        => \/ ClearAlarm \/ LoadVm
           \/ irq_pending' /\ irq' = irq_enabled' ]_vars

(* Migration neither loses nor moves an alarm: one that is not yet due     *)
(* keeps its deadline unless TIME or ALARM_HIGH was written after arming;  *)
(* any other either still runs or has fired.                               *)
MigrationKeepsAlarm ==
  [][ Migrate /\ alarm_running =>
        /\ alarm_running' \/ irq_pending'
        /\ ~moved /\ clock < due /\ due < HalfRange => deadline' = deadline ]_vars

(* A running alarm comes to an end: it fires or the guest clears it, unless *)
(* snapshots are loaded again and again.                                    *)
AlarmEnds == []<><<LoadVm>>_vars \/ (alarm_running ~> ~alarm_running)

============================================================================
