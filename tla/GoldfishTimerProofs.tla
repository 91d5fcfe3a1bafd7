------------------------ MODULE GoldfishTimerProofs ------------------------
(***************************************************************************)
(* Proofs about the clock and the alarm for every width of the two halves  *)
(* of a time, every bound of the clock and every set of snapshots: the     *)
(* status tells of a timer, the timer is set to the moment the registers   *)
(* name, a time is read whole, an armed alarm rings, and migration keeps   *)
(* it.                                                                     *)
(*                                                                         *)
(* Modulus is opaque except in the lemmas of the first part: sums of an    *)
(* offset and a clock wrap at most once.                                   *)
(***************************************************************************)
EXTENDS GoldfishTimer, TLAPS

(* While the alarm is ahead, the guest's time is as far from alarm_next as *)
(* the clock is from the moment due, without a wrap in between.            *)
InStep ==
  alarm_running /\ ~moved /\ clock <= due => Now + (due - clock) = alarm_next

(* What time_high holds for the two readers. *)
ReadersTime ==
  /\ capture # None /\ outer # None => time_high = capture
  /\ outer # None /\ ~torn => time_high = outer

AlarmInv == StatusMatchesTimer /\ DeadlineIsDue /\ InStep
ReaderInv == HalvesOfOneTime /\ ReadersTime

IInv == TypeOK /\ AlarmInv /\ ReaderInv

----------------------------------------------------------------------------
(* Arithmetic. *)

LEMMA JoinBelow ==
  ASSUME NEW L \in Nat, NEW H \in Nat, NEW h \in 0 .. H - 1, NEW l \in 0 .. L - 1
  PROVE  h * L + l \in 0 .. L * H - 1
<1>1. PICK d \in Nat : H = h + 1 + d
  <2>1. H - 1 - h \in Nat /\ H = h + 1 + (H - 1 - h)
    OBVIOUS
  <2> QED BY <2>1
<1>2. L * H = h * L + L + L * d
  BY <1>1
<1>3. L * d \in Nat /\ h * L \in Nat
  BY <1>1
<1> QED BY <1>2, <1>3

LEMMA HighBelow ==
  ASSUME NEW L \in Nat \ {0}, NEW H \in Nat, NEW t \in 0 .. L * H - 1
  PROVE  t \div L \in 0 .. H - 1
<1> DEFINE q == t \div L
<1>1. q \in Nat /\ q * L <= t
  OBVIOUS
<1> HIDE DEF q
<1>2. ASSUME q >= H PROVE FALSE
  <2>1. PICK d \in Nat : q = H + d
    <3>1. q - H \in Nat /\ q = H + (q - H)
      BY <1>1, <1>2
    <3> QED BY <3>1
  <2>2. q * L = L * H + L * d /\ L * d \in Nat
    BY <1>1, <2>1
  <2> QED BY <1>1, <2>2
<1>3. q \in 0 .. H - 1
  BY <1>1, <1>2
<1> QED BY <1>3 DEF q

LEMMA ModulusFacts ==
  /\ Modulus \in Nat \ {0}
  /\ HalfRange \in Nat \ {0} /\ HalfRange <= Modulus
  /\ MaxClock \in Nat /\ MaxClock < HalfRange
<1>1. Modulus \in Nat \ {0}
  BY TimerAssumption DEF Modulus
<1>2. Modulus \div 2 \in Nat /\ Modulus \div 2 <= Modulus
  BY <1>1
<1> QED BY <1>1, <1>2, TimerAssumption DEF HalfRange

LEMMA HighOfTime ==
  ASSUME NEW t \in Times
  PROVE  HighOf(t) \in 0 .. High - 1
  BY HighBelow, TimerAssumption DEF Times, Modulus, HighOf

LEMMA LowOfTime ==
  ASSUME NEW t \in Times
  PROVE  LowOf(t) \in 0 .. Low - 1
<1>1. t \in Int /\ Low \in Nat \ {0}
  BY TimerAssumption, ModulusFacts DEF Times
<1> QED BY <1>1 DEF LowOf

LEMMA JoinIsTime ==
  ASSUME NEW h \in 0 .. High - 1, NEW l \in 0 .. Low - 1
  PROVE  Join(h, l) \in Times
  BY JoinBelow, TimerAssumption DEF Times, Modulus, Join

LEMMA ModIsTime ==
  ASSUME NEW x \in Int
  PROVE  x % Modulus \in Times
  BY ModulusFacts DEF Times

(* Arming: the deadline on the clock and the moment on the guest's time    *)
(* are one.                                                                *)
Wrap(x) == x % Modulus

LEMMA ArmedMoment ==
  ASSUME NEW next \in Times, NEW o \in Times, NEW t \in 0 .. MaxClock,
         NEW now, now = Wrap(o + t), next > now,
         NEW d, d = t + (next - now)
  PROVE  /\ d \in 1 .. t + Modulus /\ Wrap(o + d) = next
         /\ d < Modulus => Wrap(next - o) = d
<1> USE ModulusFacts DEF Wrap, Times
<1>1. now \in 0 .. Modulus - 1
  OBVIOUS
<1>2. now = o + t \/ now = o + t - Modulus
  OBVIOUS
<1>3. d \in 1 .. t + Modulus
  BY <1>1
<1>4. o + d = next \/ o + d = next + Modulus
  BY <1>1, <1>2
<1>5. Wrap(o + d) = next
  BY <1>3, <1>4
<1>6. d < Modulus => Wrap(next - o) = d
  <2>1. next - o = d \/ next - o = d - Modulus
    BY <1>3, <1>4
  <2> QED BY <1>3, <2>1
<1> QED BY <1>3, <1>5, <1>6

----------------------------------------------------------------------------
(* What set_alarm leaves behind. *)

AlarmTypes ==
  /\ alarm_running \in BOOLEAN /\ irq_pending \in BOOLEAN
  /\ deadline \in {None} \cup 0 .. HalfRange - 1
  /\ due \in 0 .. MaxClock + Modulus
  /\ moved \in BOOLEAN /\ stale \in BOOLEAN

LEMMA ExpiryIsDeadline ==
  ASSUME NEW time \in Times
  PROVE  /\ Expiry(time) \in 0 .. HalfRange - 1
         /\ Expiry(time) # None
         /\ time < HalfRange => Expiry(time) = time
  BY ModulusFacts DEF Times, Expiry, None

LEMMA SetAlarmArms ==
  ASSUME NEW next \in Times, NEW offset \in Times, NEW t \in 0 .. MaxClock,
         NEW pending \in BOOLEAN, AlarmTypes, SetAlarm(next, offset, t, pending)
  PROVE  /\ AlarmTypes'
         /\ stale' = FALSE
         /\ alarm_running' <=> deadline' # None
         /\ alarm_running' =>
              /\ moved' = FALSE
              /\ due' < HalfRange => deadline' = due'
              /\ (offset + due') % Modulus = next
              /\ ((offset + t) % Modulus) + (due' - t) = next
         /\ ~alarm_running' => irq_pending' = TRUE
<1> DEFINE now == (offset + t) % Modulus
           at  == (next - offset) % Modulus
<1>1. /\ Modulus \in Nat \ {0} /\ next \in 0 .. Modulus - 1
      /\ offset \in 0 .. Modulus - 1 /\ t \in 0 .. Modulus - 1
      /\ HalfRange \in Nat \ {0} /\ HalfRange <= Modulus
      /\ MaxClock \in Nat /\ t <= MaxClock /\ t \in Nat
  BY ModulusFacts DEF Times
<1>2. now \in Times /\ at \in Times
  BY <1>1, ModIsTime
<1>3. CASE next <= now
  BY <1>3 DEF SetAlarm, Interrupt, AlarmTypes
<1>4. CASE ~(next <= now)
  <2>1. next > now
    BY <1>1, <1>2, <1>4 DEF Times
  <2>2. /\ stale' = FALSE /\ deadline' = Expiry(at) /\ alarm_running' = TRUE
        /\ due' = t + (next - now) /\ moved' = FALSE /\ irq_pending' = pending
    BY <1>4 DEF SetAlarm
  <2> DEFINE d == t + (next - now)
  <2>3. /\ d \in 1 .. t + Modulus /\ (offset + d) % Modulus = next
        /\ d < Modulus => at = d
    <3>1. now = Wrap(offset + t) /\ at = Wrap(next - offset)
          /\ Wrap(offset + d) = (offset + d) % Modulus
      BY DEF Wrap
    <3>2. d = t + (next - now)
      OBVIOUS
    <3> HIDE DEF now, at, d
    <3> QED BY <2>1, <3>1, <3>2, ArmedMoment
  <2>4. /\ Expiry(at) \in 0 .. HalfRange - 1 /\ Expiry(at) # None
        /\ at < HalfRange => Expiry(at) = at
    BY <1>2, ExpiryIsDeadline
  <2>5. now + (d - t) = next
    <3>1. now \in Int /\ next \in Int /\ t \in Int
      BY <1>1, <1>2 DEF Times
    <3> HIDE DEF now
    <3> QED BY <3>1
  <2> HIDE DEF at, d
  <2>6. due' = d
    BY <2>2 DEF d
  <2>7. d \in 0 .. MaxClock + Modulus /\ d \in Int
    BY <1>1, <2>3
  <2>8. d < HalfRange => Expiry(at) = d
    BY <1>1, <2>3, <2>4, <2>7
  <2>9. AlarmTypes'
    BY <2>2, <2>4, <2>6, <2>7 DEF AlarmTypes
  <2> QED BY <2>2, <2>3, <2>4, <2>5, <2>6, <2>8, <2>9
<1> QED BY <1>3, <1>4

(* An alarm just armed satisfies the invariant. *)
LEMMA ArmedKeeps ==
  ASSUME IInv, NEW next \in Times, NEW offset \in Times, NEW t \in 0 .. MaxClock,
         NEW pending \in BOOLEAN, SetAlarm(next, offset, t, pending),
         alarm_next' = next, tick_offset' = offset, clock' = t
  PROVE  AlarmTypes' /\ AlarmInv'
<1>1. AlarmTypes
  BY DEF IInv, TypeOK, AlarmTypes
<1>2. /\ AlarmTypes' /\ stale' = FALSE
      /\ alarm_running' <=> deadline' # None
      /\ alarm_running' =>
           /\ moved' = FALSE
           /\ due' < HalfRange => deadline' = due'
           /\ (offset + due') % Modulus = next
           /\ ((offset + t) % Modulus) + (due' - t) = next
  BY <1>1, SetAlarmArms
<1>3. StatusMatchesTimer'
  BY <1>2 DEF StatusMatchesTimer
<1>4. DeadlineIsDue'
  BY <1>2 DEF DeadlineIsDue
<1>5. InStep'
  BY <1>2 DEF InStep, Now
<1> QED BY <1>2, <1>3, <1>4, <1>5 DEF AlarmInv

----------------------------------------------------------------------------
(* One lemma per action, or per group of actions of one effect. *)

LEMMA InitEstablishes == Init => IInv
<1> SUFFICES ASSUME Init PROVE IInv
  OBVIOUS
<1>1. TypeOK
  <2>1. /\ 0 \in Times /\ 0 \in 0 .. MaxClock /\ 0 \in 0 .. High - 1
        /\ 0 \in 0 .. MaxClock + Modulus
    BY ModulusFacts, TimerAssumption DEF Times
  <2> QED BY <2>1 DEF Init, TypeOK
<1>2. AlarmInv
  BY DEF Init, AlarmInv, StatusMatchesTimer, DeadlineIsDue, InStep
<1>3. ReaderInv
  BY DEF Init, ReaderInv, HalvesOfOneTime, ReadersTime
<1> QED BY <1>1, <1>2, <1>3 DEF IInv

LEMMA NowIsTime ==
  ASSUME TypeOK
  PROVE  Now \in Times
<1>1. tick_offset + clock \in Int
  BY ModulusFacts DEF TypeOK, Times
<1> QED BY <1>1, ModIsTime DEF Now

(* Nothing that the alarm's invariant is about changes. *)
LEMMA AlarmUntouched ==
  ASSUME AlarmInv,
         clock' = clock, tick_offset' = tick_offset, alarm_next' = alarm_next,
         UNCHANGED alarm
  PROVE  AlarmInv'
  BY DEF AlarmInv, StatusMatchesTimer, DeadlineIsDue, InStep, Now, alarm

(* TIME or ALARM_HIGH is written over an alarm that may run. *)
LEMMA MovedKeeps ==
  ASSUME AlarmInv, clock' = clock, moved' = alarm_running,
         alarm_running' = alarm_running, deadline' = deadline,
         due' = due, stale' = stale
  PROVE  AlarmInv'
  BY DEF AlarmInv, StatusMatchesTimer, DeadlineIsDue, InStep

(* No alarm runs and the timer is idle. *)
LEMMA IdleKeeps ==
  ASSUME alarm_running' = FALSE, deadline' = None, stale' = FALSE
  PROVE  AlarmInv'
  BY DEF AlarmInv, StatusMatchesTimer, DeadlineIsDue, InStep

LEMMA ReaderUntouched ==
  ASSUME ReaderInv, UNCHANGED reader, time_high' = time_high
  PROVE  ReaderInv'
  BY DEF ReaderInv, HalvesOfOneTime, ReadersTime, reader

LEMMA ReadingKeeps ==
  ASSUME IInv, ReadTimeLow \/ ReadTimeHigh \/ HandlerBegins \/ HandlerReturns
  PROVE  IInv'
<1>1. HighOf(Now) \in 0 .. High - 1
  BY NowIsTime, HighOfTime DEF IInv
<1>2. /\ clock' = clock /\ tick_offset' = tick_offset /\ alarm_next' = alarm_next
      /\ irq_enabled' = irq_enabled /\ UNCHANGED alarm /\ UNCHANGED line
  BY DEF ReadTimeLow, ReadTimeHigh, HandlerBegins, HandlerReturns, registers
<1>3. AlarmInv'
  BY <1>2, AlarmUntouched DEF IInv
<1>4. CASE ReadTimeLow
  <2>1. /\ time_high' = HighOf(Now) /\ capture' = HighOf(Now) /\ outer' = outer
        /\ torn' = (outer # None /\ (torn \/ HighOf(Now) # outer))
    BY <1>4 DEF ReadTimeLow
  <2>2. TypeOK'
    BY <1>1, <1>2, <2>1 DEF IInv, TypeOK, alarm, line
  <2>3. ReaderInv'
    BY <2>1 DEF ReaderInv, HalvesOfOneTime, ReadersTime
  <2> QED BY <1>3, <2>2, <2>3 DEF IInv
<1>5. CASE ReadTimeHigh \/ HandlerBegins \/ HandlerReturns
  <2>1. /\ time_high' = time_high /\ torn' = torn
        /\ \/ capture' = None /\ outer' = outer
           \/ capture # None /\ outer = None /\ capture' = None /\ outer' = capture
           \/ capture = None /\ outer # None /\ capture' = outer /\ outer' = None
    BY <1>5 DEF ReadTimeHigh, HandlerBegins, HandlerReturns, registers
  <2>2. TypeOK'
    BY <1>2, <2>1 DEF IInv, TypeOK, alarm, line
  <2>3. ReaderInv'
    BY <2>1 DEF IInv, ReaderInv, HalvesOfOneTime, ReadersTime
  <2> QED BY <1>3, <2>2, <2>3 DEF IInv
<1> QED BY <1>4, <1>5

LEMMA WriteTimeKeeps ==
  ASSUME IInv, NEW time \in Times, WriteTime(time)
  PROVE  IInv'
<1>1. tick_offset + time - Now \in Int
  BY NowIsTime, ModulusFacts DEF IInv, TypeOK, Times
<1>2. tick_offset' \in Times
  BY <1>1, ModIsTime DEF WriteTime
<1>3. TypeOK'
  BY <1>2 DEF IInv, TypeOK, WriteTime, line, reader
<1>4. AlarmInv'
  BY MovedKeeps DEF IInv, WriteTime
<1>5. ReaderInv'
  BY ReaderUntouched DEF IInv, WriteTime
<1> QED BY <1>3, <1>4, <1>5 DEF IInv

LEMMA WriteAlarmHighKeeps ==
  ASSUME IInv, NEW value \in 0 .. High - 1, WriteAlarmHigh(value)
  PROVE  IInv'
<1>1. alarm_next' \in Times
  BY LowOfTime, JoinIsTime DEF IInv, TypeOK, WriteAlarmHigh
<1>2. TypeOK'
  BY <1>1 DEF IInv, TypeOK, WriteAlarmHigh, line, reader
<1>3. AlarmInv'
  BY MovedKeeps DEF IInv, WriteAlarmHigh
<1>4. ReaderInv'
  BY ReaderUntouched DEF IInv, WriteAlarmHigh
<1> QED BY <1>2, <1>3, <1>4 DEF IInv

LEMMA WriteAlarmLowKeeps ==
  ASSUME IInv, NEW value \in 0 .. Low - 1, WriteAlarmLow(value)
  PROVE  IInv'
<1>1. alarm_next' \in Times
  BY HighOfTime, JoinIsTime DEF IInv, TypeOK, WriteAlarmLow
<1>2. /\ clock' = clock /\ tick_offset' = tick_offset /\ time_high' = time_high
      /\ irq_enabled' = irq_enabled /\ UNCHANGED reader
      /\ SetAlarm(alarm_next', tick_offset, clock, irq_pending)
  BY DEF WriteAlarmLow
<1>3. tick_offset \in Times /\ clock \in 0 .. MaxClock /\ irq_pending \in BOOLEAN
  BY DEF IInv, TypeOK
<1>4. AlarmTypes' /\ AlarmInv'
  BY <1>1, <1>2, <1>3, ArmedKeeps
<1>5. irq' \in BOOLEAN
  BY DEF IInv, TypeOK, WriteAlarmLow, UpdateIrq
<1>6. TypeOK'
  BY <1>1, <1>2, <1>4, <1>5 DEF IInv, TypeOK, AlarmTypes, reader
<1>7. ReaderInv'
  BY <1>2, ReaderUntouched DEF IInv
<1> QED BY <1>4, <1>6, <1>7 DEF IInv

(* IRQ_ENABLED, CLEAR_ALARM, CLEAR_INTERRUPT and the timer's callback. *)
LEMMA InterruptStepsKeep ==
  ASSUME IInv,
         \/ \E value \in BOOLEAN : WriteIrqEnabled(value)
         \/ ClearAlarm \/ ClearInterrupt \/ Fire
  PROVE  IInv'
<1>1. CASE \E value \in BOOLEAN : WriteIrqEnabled(value)
  <2>1. TypeOK'
    BY <1>1 DEF IInv, TypeOK, WriteIrqEnabled, UpdateIrq, alarm, reader
  <2>2. AlarmInv' /\ ReaderInv'
    BY <1>1, AlarmUntouched, ReaderUntouched DEF IInv, WriteIrqEnabled
  <2> QED BY <2>1, <2>2 DEF IInv
<1>2. CASE ClearAlarm
  <2>1. TypeOK'
    BY <1>2 DEF IInv, TypeOK, ClearAlarm, registers, line, reader
  <2>2. AlarmInv' /\ ReaderInv'
    BY <1>2, IdleKeeps, ReaderUntouched DEF IInv, ClearAlarm, registers
  <2> QED BY <2>1, <2>2 DEF IInv
<1>3. CASE ClearInterrupt
  <2>1. TypeOK'
    BY <1>3 DEF IInv, TypeOK, ClearInterrupt, UpdateIrq, alarm, registers, reader
  <2>2. AlarmInv' /\ ReaderInv'
    BY <1>3, AlarmUntouched, ReaderUntouched DEF IInv, ClearInterrupt, registers
  <2> QED BY <2>1, <2>2 DEF IInv
<1>4. CASE Fire
  <2>1. TypeOK'
    BY <1>4 DEF IInv, TypeOK, Fire, Interrupt, UpdateIrq, registers, reader
  <2>2. AlarmInv' /\ ReaderInv'
    BY <1>4, IdleKeeps, ReaderUntouched DEF IInv, Fire, Interrupt, registers
  <2> QED BY <2>1, <2>2 DEF IInv
<1> QED BY <1>1, <1>2, <1>3, <1>4

(* The time the guest reads steps with the clock while the alarm is ahead. *)
LEMMA NextMoment ==
  ASSUME NEW M \in Nat \ {0}, NEW o \in 0 .. M - 1, NEW t \in Nat,
         NEW d \in Nat, t + 1 <= d, t < M,
         NEW next \in 0 .. M - 1, ((o + t) % M) + (d - t) = next
  PROVE  ((o + (t + 1)) % M) + (d - (t + 1)) = next
<1> DEFINE now == (o + t) % M
<1>1. /\ now \in 0 .. M - 1 /\ (now = o + t \/ now = o + t - M)
      /\ now + (d - t) = next
  OBVIOUS
<1> HIDE DEF now
<1>2. now + 1 \in 0 .. M - 1
  BY <1>1
<1>3. o + (t + 1) = now + 1 \/ o + (t + 1) = now + 1 + M
  BY <1>1
<1>4. (o + (t + 1)) % M = now + 1
  BY <1>2, <1>3
<1> QED BY <1>1, <1>4

LEMMA TickKeeps ==
  ASSUME IInv, Tick
  PROVE  IInv'
<1>1. /\ clock' = clock + 1 /\ clock \in 0 .. MaxClock /\ clock < MaxClock
      /\ tick_offset' = tick_offset /\ alarm_next' = alarm_next
      /\ time_high' = time_high /\ irq_enabled' = irq_enabled
      /\ UNCHANGED alarm /\ UNCHANGED line /\ UNCHANGED reader
  BY DEF Tick, IInv, TypeOK, registers
<1>2. TypeOK'
  <2>1. clock' \in 0 .. MaxClock
    BY <1>1, ModulusFacts
  <2> QED BY <1>1, <2>1 DEF IInv, TypeOK, alarm, line, reader
<1>3. StatusMatchesTimer' /\ DeadlineIsDue'
  BY <1>1 DEF IInv, AlarmInv, StatusMatchesTimer, DeadlineIsDue, alarm
<1>4. InStep'
  <2> SUFFICES ASSUME alarm_running', ~moved', clock' <= due'
               PROVE  Now' + (due' - clock') = alarm_next'
    BY DEF InStep
  <2>1. /\ alarm_running /\ ~moved /\ due' = due /\ clock + 1 <= due
        /\ Modulus \in Nat \ {0} /\ tick_offset \in 0 .. Modulus - 1
        /\ clock \in Nat /\ due \in Nat /\ clock < Modulus
        /\ alarm_next \in 0 .. Modulus - 1
    BY <1>1, ModulusFacts DEF alarm, IInv, TypeOK, Times
  <2>2. ((tick_offset + clock) % Modulus) + (due - clock) = alarm_next
    BY <2>1 DEF IInv, AlarmInv, InStep, Now
  <2>3. ((tick_offset + (clock + 1)) % Modulus) + (due - (clock + 1)) = alarm_next
    BY <2>1, <2>2, NextMoment
  <2> QED BY <1>1, <2>1, <2>3 DEF Now
<1>5. ReaderInv'
  BY <1>1, ReaderUntouched DEF IInv
<1> QED BY <1>2, <1>3, <1>4, <1>5 DEF IInv, AlarmInv

(* A snapshot comes back over a QEMU timer in any state. *)
LEMMA LoadKeeps ==
  ASSUME IInv, NEW state \in SavedStates,
         NEW timer \in {None} \cup 0 .. HalfRange - 1, Load(state, timer)
  PROVE  /\ AlarmTypes' /\ AlarmInv'
         /\ clock' \in 0 .. MaxClock /\ tick_offset' \in Times
         /\ alarm_next' \in Times /\ time_high' \in 0 .. High - 1
         /\ irq_enabled' \in BOOLEAN /\ irq' \in BOOLEAN
         /\ time_high' = state.time_high
<1>1. /\ clock' = state.clock /\ tick_offset' = state.tick_offset
      /\ alarm_next' = state.alarm_next /\ time_high' = state.time_high
      /\ irq_enabled' = state.irq_enabled
      /\ irq' = (irq_pending' /\ irq_enabled')
  BY DEF Load, UpdateIrq
<1>2. /\ state.clock \in 0 .. MaxClock /\ state.tick_offset \in Times
      /\ state.alarm_next \in Times /\ state.time_high \in 0 .. High - 1
      /\ state.alarm_running \in BOOLEAN /\ state.irq_pending \in BOOLEAN
      /\ state.irq_enabled \in BOOLEAN
  BY DEF SavedStates
<1>3. CASE state.alarm_running
  <2>1. SetAlarm(state.alarm_next, state.tick_offset, state.clock,
                 state.irq_pending)
    BY <1>3 DEF Load
  <2>2. AlarmTypes' /\ AlarmInv'
    BY <1>1, <1>2, <2>1, ArmedKeeps
  <2> QED BY <1>1, <1>2, <2>2 DEF AlarmTypes
<1>4. CASE ~state.alarm_running
  <2>1. /\ alarm_running' = FALSE /\ irq_pending' = state.irq_pending
        /\ deadline' = timer /\ stale' = (timer # None)
        /\ due' = due /\ moved' = moved
    BY <1>4 DEF Load
  <2>2. AlarmTypes'
    BY <1>2, <2>1 DEF IInv, TypeOK, AlarmTypes
  <2>3. AlarmInv'
    BY <2>1 DEF AlarmInv, StatusMatchesTimer, DeadlineIsDue, InStep
  <2> QED BY <1>1, <1>2, <2>2, <2>3 DEF AlarmTypes
<1> QED BY <1>2, <1>3, <1>4

Saved ==
  [clock |-> clock, tick_offset |-> tick_offset, alarm_next |-> alarm_next,
   time_high |-> time_high, alarm_running |-> alarm_running,
   irq_pending |-> irq_pending, irq_enabled |-> irq_enabled]

LEMMA RestoreKeeps ==
  ASSUME IInv, Migrate \/ LoadVm
  PROVE  IInv'
<1>1. CASE Migrate
  <2>1. Load(Saved, None) /\ UNCHANGED reader
    BY <1>1 DEF Migrate, Saved
  <2>2. Saved \in SavedStates /\ Saved.time_high = time_high
    BY DEF IInv, TypeOK, Saved, SavedStates
  <2>3. /\ AlarmTypes' /\ AlarmInv'
        /\ clock' \in 0 .. MaxClock /\ tick_offset' \in Times
        /\ alarm_next' \in Times /\ time_high' \in 0 .. High - 1
        /\ irq_enabled' \in BOOLEAN /\ irq' \in BOOLEAN
        /\ time_high' = time_high
    BY <2>1, <2>2, LoadKeeps
  <2>4. TypeOK'
    BY <2>1, <2>3 DEF IInv, TypeOK, AlarmTypes, reader
  <2>5. ReaderInv'
    BY <2>1, <2>3, ReaderUntouched DEF IInv
  <2> QED BY <2>3, <2>4, <2>5 DEF IInv
<1>2. CASE LoadVm
  <2>1. PICK state \in Snapshots : Load(state, deadline)
    BY <1>2 DEF LoadVm
  <2>2. state \in SavedStates /\ deadline \in {None} \cup 0 .. HalfRange - 1
    BY TimerAssumption DEF IInv, TypeOK
  <2>3. /\ AlarmTypes' /\ AlarmInv'
        /\ clock' \in 0 .. MaxClock /\ tick_offset' \in Times
        /\ alarm_next' \in Times /\ time_high' \in 0 .. High - 1
        /\ irq_enabled' \in BOOLEAN /\ irq' \in BOOLEAN
    BY <2>1, <2>2, LoadKeeps
  <2>4. capture' = None /\ outer' = None /\ torn' = FALSE
    BY <1>2 DEF LoadVm
  <2>5. TypeOK'
    BY <2>3, <2>4 DEF TypeOK, AlarmTypes
  <2>6. ReaderInv'
    BY <2>4 DEF ReaderInv, HalvesOfOneTime, ReadersTime
  <2> QED BY <2>3, <2>5, <2>6 DEF IInv
<1> QED BY <1>1, <1>2

LEMMA StepPreserves == IInv /\ [Next]_vars => IInv'
<1> SUFFICES ASSUME IInv, [Next]_vars PROVE IInv'
  OBVIOUS
<1>1. HighOf(Now) \in 0 .. High - 1 /\ LowOf(Now) \in 0 .. Low - 1
  BY NowIsTime, HighOfTime, LowOfTime DEF IInv
<1>2. ASSUME NEW value \in 0 .. Low - 1, WriteTimeLow(value) \/ WriteAlarmLow(value)
      PROVE  IInv'
  <2>1. Join(HighOf(Now), value) \in Times
    BY <1>1, JoinIsTime
  <2> QED BY <1>2, <2>1, WriteTimeKeeps, WriteAlarmLowKeeps DEF WriteTimeLow
<1>3. ASSUME NEW value \in 0 .. High - 1,
             WriteTimeHigh(value) \/ WriteAlarmHigh(value)
      PROVE  IInv'
  <2>1. Join(value, LowOf(Now)) \in Times
    BY <1>1, JoinIsTime
  <2> QED BY <1>3, <2>1, WriteTimeKeeps, WriteAlarmHighKeeps DEF WriteTimeHigh
<1>4. CASE Guest
  BY <1>2, <1>3, <1>4, ReadingKeeps, InterruptStepsKeep DEF Guest
<1>5. CASE Tick \/ Fire \/ Migrate \/ LoadVm
  BY <1>5, TickKeeps, InterruptStepsKeep, RestoreKeeps
<1>6. CASE UNCHANGED vars
  <2>1. TypeOK'
    BY <1>6 DEF IInv, TypeOK, vars, registers, alarm, line, reader
  <2>2. AlarmInv' /\ ReaderInv'
    BY <1>6, AlarmUntouched, ReaderUntouched DEF IInv, vars, registers
  <2> QED BY <2>1, <2>2 DEF IInv
<1> QED BY <1>4, <1>5, <1>6 DEF Next

(* Alarm, QEMU timer, clock and registers are in step in every state.      *)
THEOREM TimerInvariant == Spec => []IInv
  BY InitEstablishes, StepPreserves, PTL DEF Spec

----------------------------------------------------------------------------
(* Type correctness: every register stays a value of its width. *)
THEOREM TimerTypeCorrect == Spec => []TypeOK
<1>1. IInv => TypeOK
  BY DEF IInv
<1> QED BY <1>1, TimerInvariant, PTL

(* ALARM_STATUS and the QEMU timer agree, but for the old timer that       *)
(* loadvm may leave behind.                                                *)
THEOREM TimerStatusMatches == Spec => []StatusMatchesTimer
<1>1. IInv => StatusMatchesTimer
  BY DEF IInv, AlarmInv
<1> QED BY <1>1, TimerInvariant, PTL

(* The QEMU timer is set to the moment that the registers name. *)
THEOREM TimerDeadlineIsDue == Spec => []DeadlineIsDue
<1>1. IInv => DeadlineIsDue
  BY DEF IInv, AlarmInv
<1> QED BY <1>1, TimerInvariant, PTL

(* A time is read whole, but for the documented case of two readers. *)
THEOREM TimerHalvesOfOneTime == Spec => []HalvesOfOneTime
<1>1. IInv => HalvesOfOneTime
  BY DEF IInv, ReaderInv
<1> QED BY <1>1, TimerInvariant, PTL

(* An armed alarm stops only by ringing, by CLEAR_ALARM or by loadvm. *)
THEOREM TimerAlarmRings == Spec => AlarmRings
<1>1. ASSUME IInv, [Next]_vars
      PROVE  [ alarm_running /\ ~alarm_running'
                 => \/ ClearAlarm \/ LoadVm
                    \/ irq_pending' /\ irq' = irq_enabled' ]_vars
  <2> SUFFICES ASSUME alarm_running, ~alarm_running', ~ClearAlarm, ~LoadVm
               PROVE  irq_pending' /\ irq' = irq_enabled'
    OBVIOUS
  <2>1. AlarmTypes /\ IInv'
    BY <1>1, StepPreserves DEF IInv, TypeOK, AlarmTypes
  <2>2. irq_enabled' \in BOOLEAN
    BY <2>1 DEF IInv, TypeOK
  <2>3. CASE Fire
    BY <2>2, <2>3 DEF Fire, Interrupt, UpdateIrq
  <2>4. ASSUME NEW value \in 0 .. Low - 1, WriteAlarmLow(value)
        PROVE  irq_pending' /\ irq' = irq_enabled'
    BY <2>2, <2>4 DEF WriteAlarmLow, SetAlarm, Interrupt, UpdateIrq
  <2>5. CASE Migrate
    <3>1. Load(Saved, None) /\ Saved.alarm_running = alarm_running
      BY <2>5 DEF Migrate, Saved
    <3>2. SetAlarm(Saved.alarm_next, Saved.tick_offset, Saved.clock,
                   Saved.irq_pending) /\ UpdateIrq
      BY <3>1 DEF Load
    <3> QED BY <2>2, <3>2 DEF SetAlarm, Interrupt, UpdateIrq
  <2>6. ASSUME alarm_running' = alarm_running PROVE FALSE
    BY <2>6
  <2>7. CASE UNCHANGED vars
    BY <2>6, <2>7 DEF vars, alarm
  <2>8. CASE Guest
    <3>1. ASSUME \/ ReadTimeLow \/ ReadTimeHigh \/ HandlerBegins \/ HandlerReturns
                 \/ \E value \in 0 .. Low - 1 : WriteTimeLow(value)
                 \/ \E value \in 0 .. High - 1 :
                      WriteTimeHigh(value) \/ WriteAlarmHigh(value)
                 \/ \E value \in BOOLEAN : WriteIrqEnabled(value)
                 \/ ClearInterrupt
          PROVE  FALSE
      BY <2>6, <3>1 DEF ReadTimeLow, ReadTimeHigh, HandlerBegins, HandlerReturns,
         WriteTimeLow, WriteTimeHigh, WriteTime, WriteAlarmHigh,
         WriteIrqEnabled, ClearInterrupt, alarm
    <3> QED BY <2>4, <2>8, <3>1 DEF Guest
  <2>9. CASE Tick
    BY <2>6, <2>9 DEF Tick, alarm
  <2> QED BY <1>1, <2>3, <2>5, <2>7, <2>8, <2>9 DEF Next
<1> QED BY <1>1, TimerInvariant, PTL DEF Spec, AlarmRings

(* Migration neither loses an armed alarm nor moves one that is not due. *)
THEOREM TimerMigrationKeepsAlarm == Spec => MigrationKeepsAlarm
<1>1. ASSUME IInv, [Next]_vars
      PROVE  [ Migrate /\ alarm_running =>
                 /\ alarm_running' \/ irq_pending'
                 /\ ~moved /\ clock < due /\ due < HalfRange
                      => deadline' = deadline ]_vars
  <2> SUFFICES ASSUME Migrate, alarm_running
               PROVE  /\ alarm_running' \/ irq_pending'
                      /\ ~moved /\ clock < due /\ due < HalfRange
                           => deadline' = deadline
    OBVIOUS
  <2>1. /\ SetAlarm(alarm_next, tick_offset, clock, irq_pending)
        /\ clock' = clock /\ tick_offset' = tick_offset
        /\ alarm_next' = alarm_next
    BY DEF Migrate, Load
  <2>2. IInv'
    BY <1>1, StepPreserves
  <2>3. alarm_running' \/ irq_pending'
    BY <2>1 DEF SetAlarm, Interrupt
  <2>4. ASSUME ~moved, clock < due, due < HalfRange
        PROVE  deadline' = deadline
    <3>1. /\ clock \in Int /\ due \in Int /\ Now \in Int /\ alarm_next \in Int
          /\ Now + (due - clock) = alarm_next
      BY <1>1, <2>4, NowIsTime, ModulusFacts
         DEF IInv, TypeOK, AlarmInv, InStep, Times
    <3>2. ~(alarm_next <= Now) /\ clock + (alarm_next - Now) = due
      <4> HIDE DEF Now
      <4> QED BY <2>4, <3>1
    <3>3. alarm_running' /\ due' = due
      BY <2>1, <3>2 DEF SetAlarm, Now
    <3> QED BY <1>1, <2>2, <2>4, <3>3 DEF IInv, AlarmInv, DeadlineIsDue
  <2> QED BY <2>3, <2>4
<1> QED BY <1>1, TimerInvariant, PTL DEF Spec, MigrationKeepsAlarm

=============================================================================
