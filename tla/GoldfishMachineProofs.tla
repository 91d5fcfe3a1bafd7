------------------------ MODULE GoldfishMachineProofs ------------------------
(***************************************************************************)
(* Proofs about the interrupt path of the composed board, for every set of *)
(* lines, every size of the tty's buffer and of the event queue, and any   *)
(* number of events and resets.                                            *)
(*                                                                         *)
(* The argument follows a byte or an event to the CPU: a device's line is  *)
(* up exactly while it has something that the guest wants to hear of; the  *)
(* controller's latch is what the devices drive, less what DISABLE_ALL     *)
(* erased; and a guest that has booted has enabled both lines and, for the *)
(* tty, driven the line after its own DISABLE_ALL.  The handler's snapshot *)
(* stays true because only the handler itself lowers a line.               *)
(***************************************************************************)
EXTENDS GoldfishMachine, GoldfishTtyProofs

----------------------------------------------------------------------------
(* The controller alone, for every finite set of lines and whatever drives *)
(* them.  Its inductive invariant PicIInv says what the registers are in  *)
(* terms of the levels the devices drove: pending = lines \ erased, and    *)
(* the output is up exactly when pending and enabled have a line in common.*)

(* realize establishes the invariant. *)
LEMMA PicInitEstablishes == PicInit => PicIInv
  BY DEF PicInit, PicIInv, PicTypeOK, LatchFollowsLines,
         OutputFollowsLatch, PendingMask

(* Every handler, and doing nothing, keeps it: one step per handler. *)
LEMMA PicStepPreserves == PicIInv /\ [PicNext]_pic => PicIInv'
<1> USE DEF PicIInv, PicTypeOK, LatchFollowsLines,
            OutputFollowsLatch, PendingMask, Update
<1> SUFFICES ASSUME PicIInv, [PicNext]_pic PROVE PicIInv'
  OBVIOUS
<1>1. ASSUME NEW i \in Irqs, NEW level \in BOOLEAN, SetIrq(i, level)
      PROVE  PicIInv'
  <2>1. CASE level
    BY <1>1, <2>1 DEF SetIrq
  <2>2. CASE ~level
    BY <1>1, <2>2 DEF SetIrq
  <2> QED BY <2>1, <2>2
<1>2. CASE DisableAll
  BY <1>2 DEF DisableAll
<1>3. ASSUME NEW mask \in SUBSET Irqs, Disable(mask)
      PROVE  PicIInv'
  BY <1>3 DEF Disable
<1>4. ASSUME NEW mask \in SUBSET Irqs, Enable(mask)
      PROVE  PicIInv'
  BY <1>4 DEF Enable
<1>5. CASE UNCHANGED pic
  BY <1>5 DEF pic
<1> QED BY <1>1, <1>2, <1>3, <1>4, <1>5 DEF PicNext

(* The registers always are what the devices drove, DISABLE_ALL apart. *)
THEOREM PicInvariant == PicSpec => []PicIInv
  BY PicInitEstablishes, PicStepPreserves, PTL DEF PicSpec

(* The registers and the wires keep their types. *)
THEOREM PicTypeCorrect == PicSpec => []PicTypeOK
<1>1. PicIInv => PicTypeOK
  BY DEF PicIInv
<1> QED BY <1>1, PicInvariant, PTL

(* An asserted, enabled line that was driven since the last DISABLE_ALL    *)
(* interrupts the CPU.                                                     *)
THEOREM PicNoLostInterrupt == PicSpec => []NoLostInterrupt
<1>1. PicIInv => NoLostInterrupt
  BY DEF PicIInv, PicTypeOK, LatchFollowsLines,
         OutputFollowsLatch, PendingMask, NoLostInterrupt
<1> QED BY <1>1, PicInvariant, PTL

(* The CPU is never interrupted without an asserted, enabled line. *)
THEOREM PicNoSpuriousInterrupt == PicSpec => []NoSpuriousInterrupt
<1>1. PicIInv => NoSpuriousInterrupt
  BY DEF PicIInv, LatchFollowsLines, OutputFollowsLatch,
         PendingMask, NoSpuriousInterrupt
<1> QED BY <1>1, PicInvariant, PTL

(* Masking and unmasking never drop a latched line. *)
THEOREM PicMaskingKeepsPending == PicSpec => MaskingKeepsPending
<1>1. PicIInv /\ [PicNext]_pic =>
        [\A i \in pending \ pending' : i \notin lines' \/ i \in erased']_pic
  BY PicStepPreserves DEF PicIInv, LatchFollowsLines
<1> QED BY <1>1, PicInvariant, PTL DEF PicSpec, MaskingKeepsPending

----------------------------------------------------------------------------
(* The board.  *)

Wired == {TtyIrq, EventsIrq}
TtySteps == {"tty_count", "tty_len", "tty_read"}

(* The devices' counters, and their lines. *)
Counters ==
  /\ rx_count \in 0 .. BufferSize /\ credit \in 0 .. BufferSize
  /\ data_len \in Nat /\ announced \in Nat
  /\ qcount \in Nat

LinesAreDriven ==
  /\ lines \subseteq Wired
  /\ (tty_irq <=> int_enabled /\ rx_count # 0)
  /\ (ev_irq <=> qcount # 0)
  /\ (TtyIrq \in lines <=> tty_irq)
  /\ (EventsIrq \in lines <=> ev_irq)

(* The controller. *)
Latch ==
  /\ pending = lines \ erased
  /\ (irq <=> pending \cap enabled # {})

(* The chardev uses its answer only while it fits. *)
CreditFits ==
  /\ chr = "watching" => credit <= BufferSize - rx_count
  /\ ~aborted

(* What the guest's boot has done. *)
BootOrder ==
  /\ tasks \subseteq BootTasks
  /\ "pic" \in tasks => tasks = BootTasks
  /\ "tty_quiet" \in tasks => "tty_line" \in tasks
  /\ "tty_line" \in tasks => "tty_open" \in tasks

Booted ==
  /\ "events" \notin tasks => EventsIrq \in enabled
  /\ "tty_line" \notin tasks => TtyIrq \in enabled
  /\ "tty_open" \notin tasks => int_enabled /\ TtyIrq \notin erased
  /\ fresh => EventsIrq \notin erased

(* What its interrupt handler relies on. *)
Handler ==
  /\ isr = "none" => todo = {}
  /\ isr \in TtySteps => TtyIrq \notin todo
  /\ isr = "events" => EventsIrq \notin todo

IInv ==
  /\ Counters /\ LinesAreDriven /\ Latch /\ CreditFits
  /\ BootOrder /\ Booted /\ Handler /\ SnapshotHonest

----------------------------------------------------------------------------
(* The two lines are different inputs of the controller.                   *)
LEMMA Distinct == TtyIrq # EventsIrq
  BY DEF TtyIrq, EventsIrq

(* An answer of can_receive that fits still fits when the guest has read.  *)
LEMMA LessInMoreRoom ==
  ASSUME NEW x \in Nat, NEW y \in Nat, y <= x,
         NEW most \in Nat, NEW size \in Nat, most <= size - x
  PROVE  most <= size - y
  OBVIOUS

(* A device drives its line into the controller: the latch follows, and    *)
(* the other device's line is as it was (TtyDrives, EventsDrive).          *)
LEMMA TtyDriven ==
  ASSUME Latch, lines \subseteq Wired, TtyDrives
  PROVE  /\ Latch'
         /\ lines' \subseteq Wired
         /\ TtyIrq \in lines' <=> tty_irq'
         /\ EventsIrq \in lines' <=> EventsIrq \in lines
         /\ erased' = erased \ {TtyIrq} /\ enabled' = enabled
<1>1. /\ lines' = IF tty_irq' THEN lines \cup {TtyIrq} ELSE lines \ {TtyIrq}
      /\ pending' = IF tty_irq' THEN pending \cup {TtyIrq} ELSE pending \ {TtyIrq}
      /\ erased' = erased \ {TtyIrq} /\ enabled' = enabled
      /\ irq' = (pending' \cap enabled' # {})
  BY DEF TtyDrives, SetIrq, Update
<1>2. Latch'
  BY <1>1 DEF Latch
<1> QED BY <1>1, <1>2, Distinct DEF Wired

(* The same of the event device.                                           *)
LEMMA EventsDriven ==
  ASSUME Latch, lines \subseteq Wired, EventsDrive
  PROVE  /\ Latch'
         /\ lines' \subseteq Wired
         /\ EventsIrq \in lines' <=> ev_irq'
         /\ TtyIrq \in lines' <=> TtyIrq \in lines
         /\ erased' = erased \ {EventsIrq} /\ enabled' = enabled
<1>1. /\ lines' = IF ev_irq' THEN lines \cup {EventsIrq} ELSE lines \ {EventsIrq}
      /\ pending' = IF ev_irq' THEN pending \cup {EventsIrq}
                              ELSE pending \ {EventsIrq}
      /\ erased' = erased \ {EventsIrq} /\ enabled' = enabled
      /\ irq' = (pending' \cap enabled' # {})
  BY DEF EventsDrive, SetIrq, Update
<1>2. Latch'
  BY <1>1 DEF Latch
<1> QED BY <1>1, <1>2, Distinct DEF Wired

(* The inductive invariant holds in every state of the machine.            *)
THEOREM MachineInvariant == Spec => []IInv
<1>1. Init => IInv
  <2> SUFFICES ASSUME Init PROVE IInv
    OBVIOUS
  <2>1. Counters
    BY MachineAssumption, TtyAssumption DEF Init, TtyInit, Events!Init,
        Counters
  <2>2. LinesAreDriven
    BY DEF Init, PicInit, TtyInit, Events!Init, LinesAreDriven
  <2>3. Latch
    BY DEF Init, PicInit, Latch
  <2>4. CreditFits
    BY DEF Init, TtyInit, CreditFits
  <2>5. BootOrder /\ Booted
    BY DEF Init, BootOrder, Booted, BootTasks
  <2>6. Handler /\ SnapshotHonest
    BY DEF Init, Handler, SnapshotHonest, TtySteps
  <2> QED BY <2>1, <2>2, <2>3, <2>4, <2>5, <2>6 DEF IInv
<1>2. IInv /\ [Next]_vars => IInv'
  <2> SUFFICES ASSUME IInv, [Next]_vars PROVE IInv'
    OBVIOUS
  <2> USE Distinct, MachineAssumption, TtyAssumption
  <2>1. CASE HostChardev
    <3>1. /\ UNCHANGED pic
          /\ UNCHANGED <<int_enabled, rx_count, tty_irq, data_len, aborted, announced>>
          /\ UNCHANGED <<qcount, ev_irq, decoder>>
          /\ UNCHANGED <<tasks, isr, todo, fresh>>
          /\ credit' \in 0 .. BufferSize
          /\ chr' = "watching" => credit' <= BufferSize - rx_count
      BY <2>1 DEF IInv, Counters, CreditFits, HostChardev, ChrPoll,
          MainLoopWakes, rx_free, EventsUnchanged, PicUnchanged, pic, tty, rx,
          host, guest, events_device, cpu, history
    <3>2. Counters'
      BY <3>1 DEF IInv, Counters
    <3>3. CreditFits'
      BY <3>1 DEF IInv, CreditFits
    <3>4. LinesAreDriven' /\ Latch' /\ BootOrder' /\ Booted' /\ Handler' /\ SnapshotHonest'
      BY <3>1 DEF IInv, LinesAreDriven, Latch, BootOrder, Booted, Handler,
          SnapshotHonest, pic, TtySteps
    <3> QED BY <3>2, <3>3, <3>4 DEF IInv
  <2>2. CASE HostDelivers
    <3>1. /\ TtyDrives
          /\ rx_count' \in rx_count + 1 .. BufferSize
          /\ tty_irq' = (int_enabled /\ rx_count' # 0)
          /\ chr' = "idle" /\ ~aborted'
          /\ UNCHANGED <<int_enabled, data_len, announced, credit>>
          /\ UNCHANGED <<qcount, ev_irq, decoder>>
          /\ UNCHANGED <<tasks, isr, todo, fresh>>
      BY <2>2 DEF IInv, Counters, CreditFits, HostDelivers, ChrDeliver,
          Receive, UpdateIrq, rx_free, EventsUnchanged, pic, tty, rx, host,
          guest, events_device, cpu, history
    <3>2. Counters'
      BY <3>1 DEF IInv, Counters
    <3>3. LinesAreDriven'
      BY <3>1, TtyDriven DEF IInv, LinesAreDriven, Latch, Wired
    <3>4. Latch'
      BY <3>1, TtyDriven DEF IInv, Latch, LinesAreDriven, Wired
    <3>5. CreditFits'
      BY <3>1 DEF IInv, CreditFits
    <3>6. Booted'
      BY <3>1, TtyDriven DEF IInv, Booted, LinesAreDriven, Latch
    <3>7. SnapshotHonest'
      <4>1. rx_count' # 0 /\ rx_count' > 0
        BY <3>1 DEF IInv, Counters
      <4>2. TtyIrq \in lines => TtyIrq \in lines'
        BY <3>1, <4>1, TtyDriven DEF IInv, LinesAreDriven
      <4>3. lines \subseteq lines'
        BY <3>1, <4>2, TtyDriven DEF IInv, LinesAreDriven, Wired
      <4> QED BY <3>1, <4>1, <4>3 DEF IInv, SnapshotHonest
    <3>8. BootOrder' /\ Handler'
      BY <3>1 DEF IInv, BootOrder, Handler, TtySteps
    <3> QED BY <3>2, <3>3, <3>4, <3>5, <3>6, <3>7, <3>8 DEF IInv
  <2>3. CASE HostInput
    <3>1. /\ qcount' \in {qcount, qcount + 3}
          /\ ev_irq' <=> qcount' # 0
          /\ EventsDrive \/ UNCHANGED <<pic, qcount, fresh>>
          /\ UNCHANGED decoder
          /\ UNCHANGED <<int_enabled, rx_count, tty_irq, data_len, chr, credit, aborted, announced>>
          /\ UNCHANGED <<tasks, isr, todo>>
      <4> DEFINE Queued == \/ qcount' = qcount /\ (ev_irq' <=> ev_irq)
                           \/ qcount' = qcount + 3 /\ (ev_irq' <=> qcount' # 0)
      <4>1. ASSUME NEW type, NEW code, NEW value, Events!Push(type, code, value)
            PROVE  Queued /\ decoder' = decoder
        BY <4>1 DEF Events!Push, Events!UpdateIrq
      <4> HIDE DEF Queued
      <4>2. Queued /\ decoder' = decoder
        <5>1. CASE Events!InputKey("A", TRUE)
          BY <4>1, <5>1 DEF Events!InputKey, Events!vars, Events!ring, Queued
        <5>2. CASE Events!InputSync
          BY <4>1, <5>2 DEF Events!InputSync
        <5> QED BY <2>3, <5>1, <5>2 DEF HostInput
      <4>3. qcount \in Nat /\ (ev_irq <=> qcount # 0)
        BY DEF IInv, Counters, LinesAreDriven
      <4>4. qcount' \in {qcount, qcount + 3} /\ (ev_irq' <=> qcount' # 0)
        BY <4>2, <4>3 DEF Queued
      <4> QED
        BY <2>3, <4>2, <4>4
        DEF HostInput, TtyUnchanged, PicUnchanged, tty, rx, host, guest, cpu
    <3>2. Counters'
      BY <3>1 DEF IInv, Counters
    <3>3. LinesAreDriven'
      <4>1. CASE ~EventsDrive
        BY <3>1, <4>1 DEF IInv, LinesAreDriven, pic, Counters, Wired
      <4>2. CASE EventsDrive
        BY <3>1, <4>2, EventsDriven DEF IInv, LinesAreDriven, Latch,
            Counters, Wired
      <4> QED BY <4>1, <4>2
    <3>4. Latch'
      <4>1. CASE ~EventsDrive
        BY <3>1, <4>1 DEF IInv, Latch, pic
      <4>2. CASE EventsDrive
        BY <3>1, <4>2, EventsDriven DEF IInv, Latch, LinesAreDriven, Wired
      <4> QED BY <4>1, <4>2
    <3>5. Booted'
      <4>1. CASE ~EventsDrive
        BY <3>1, <4>1 DEF IInv, Booted, pic
      <4>2. CASE EventsDrive
        BY <3>1, <4>2, EventsDriven DEF IInv, Booted, LinesAreDriven, Latch
      <4> QED BY <4>1, <4>2
    <3>6. SnapshotHonest'
      <4>1. qcount > 0 => qcount' > 0 /\ qcount' # 0
        BY <3>1 DEF IInv, Counters
      <4>2. lines \subseteq lines'
        <5>1. CASE ~EventsDrive
          BY <3>1, <5>1 DEF pic
        <5>2. CASE EventsDrive
          <6>1. EventsIrq \in lines => qcount # 0
            BY DEF IInv, LinesAreDriven
          <6>2. EventsIrq \in lines => EventsIrq \in lines'
            BY <3>1, <4>1, <5>2, <6>1, EventsDriven
            DEF IInv, LinesAreDriven, Counters
          <6> QED BY <5>2, <6>2, EventsDriven DEF IInv, LinesAreDriven, Wired
        <5> QED BY <5>1, <5>2
      <4> QED BY <3>1, <4>1, <4>2 DEF IInv, SnapshotHonest
    <3>7. CreditFits' /\ BootOrder' /\ Handler'
      BY <3>1 DEF IInv, CreditFits, BootOrder, Handler, pic, TtySteps
    <3> QED BY <3>2, <3>3, <3>4, <3>5, <3>6, <3>7 DEF IInv
  <2>4. CASE BootPic
    <3>1. /\ DisableAll
          /\ fresh' = FALSE
          /\ isr = "none" /\ tasks = BootTasks /\ tasks' = BootTasks \ {"pic"}
          /\ UNCHANGED <<isr, todo>>
          /\ UNCHANGED <<int_enabled, rx_count, tty_irq, data_len, chr, credit, aborted, announced>>
          /\ UNCHANGED <<qcount, ev_irq, decoder>>
      BY <2>4 DEF IInv, BootOrder, BootPic, Boot, TtyUnchanged,
          EventsUnchanged, pic, tty, rx, host, guest, events_device, cpu,
          history
    <3>2. LinesAreDriven'
      BY <3>1 DEF IInv, LinesAreDriven, DisableAll, Update, Wired
    <3>3. Latch'
      BY <3>1 DEF IInv, Latch, DisableAll, Update, LinesAreDriven,
          Wired
    <3>4. BootOrder'
      BY <3>1 DEF IInv, BootOrder, BootTasks
    <3>5. Booted'
      BY <3>1 DEF IInv, Booted, BootTasks
    <3>6. SnapshotHonest'
      BY <3>1 DEF IInv, SnapshotHonest, DisableAll, Update
    <3>7. Counters' /\ CreditFits' /\ Handler'
      BY <3>1 DEF IInv, Counters, CreditFits, Handler, TtySteps
    <3> QED BY <3>2, <3>3, <3>4, <3>5, <3>6, <3>7 DEF IInv
  <2>5. CASE BootEventsLine
    <3>1. /\ Enable({EventsIrq})
          /\ "pic" \notin tasks /\ tasks' = tasks \ {"events"}
          /\ isr = "none" /\ UNCHANGED <<isr, todo, fresh>>
          /\ UNCHANGED <<int_enabled, rx_count, tty_irq, data_len, chr, credit, aborted, announced>>
          /\ UNCHANGED <<qcount, ev_irq, decoder>>
      BY <2>5 DEF BootEventsLine, Boot, TtyUnchanged, EventsUnchanged, pic,
          tty, rx, host, guest, events_device, cpu, history
    <3>2. LinesAreDriven'
      BY <3>1 DEF IInv, LinesAreDriven, Enable, Update, Wired
    <3>3. Latch'
      BY <3>1 DEF IInv, Latch, Enable, Update
    <3>4. BootOrder'
      BY <3>1 DEF IInv, BootOrder, BootTasks
    <3>5. Booted'
      BY <3>1 DEF IInv, Booted, Enable, Update
    <3>6. SnapshotHonest'
      BY <3>1 DEF IInv, SnapshotHonest, Enable, Update
    <3>7. Counters' /\ CreditFits' /\ Handler'
      BY <3>1 DEF IInv, Counters, CreditFits, Handler, TtySteps
    <3> QED BY <3>2, <3>3, <3>4, <3>5, <3>6, <3>7 DEF IInv
  <2>6. CASE BootTtyQuiet
    <3>1. /\ TtyDrives
          /\ ~int_enabled' /\ ~tty_irq'
          /\ "tty_quiet" \in tasks /\ "pic" \notin tasks
          /\ tasks' = tasks \ {"tty_quiet"}
          /\ isr = "none" /\ UNCHANGED <<isr, todo, fresh>>
          /\ UNCHANGED <<rx_count, data_len, announced, chr, credit, aborted>>
          /\ UNCHANGED <<qcount, ev_irq, decoder>>
      BY <2>6 DEF BootTtyQuiet, Boot, CmdInt, UpdateIrq, EventsUnchanged, pic,
          tty, rx, host, guest, events_device, cpu, history
    <3>2. LinesAreDriven'
      BY <3>1, TtyDriven DEF IInv, LinesAreDriven, Latch, Wired
    <3>3. Latch'
      BY <3>1, TtyDriven DEF IInv, Latch, LinesAreDriven, Wired
    <3>4. BootOrder'
      BY <3>1 DEF IInv, BootOrder, BootTasks
    <3>5. Booted'
      BY <3>1, TtyDriven DEF IInv, Booted, LinesAreDriven, Latch, BootOrder
    <3>6. SnapshotHonest'
      BY <3>1, TtyDriven DEF IInv, SnapshotHonest, LinesAreDriven, Latch,
          Handler, TtySteps
    <3>7. Counters' /\ CreditFits' /\ Handler'
      BY <3>1 DEF IInv, Counters, CreditFits, Handler, TtySteps
    <3> QED BY <3>2, <3>3, <3>4, <3>5, <3>6, <3>7 DEF IInv
  <2>7. CASE BootTtyLine
    <3>1. /\ Enable({TtyIrq})
          /\ "pic" \notin tasks /\ "tty_quiet" \notin tasks
          /\ tasks' = tasks \ {"tty_line"}
          /\ isr = "none" /\ UNCHANGED <<isr, todo, fresh>>
          /\ UNCHANGED <<int_enabled, rx_count, tty_irq, data_len, chr, credit, aborted, announced>>
          /\ UNCHANGED <<qcount, ev_irq, decoder>>
      BY <2>7 DEF BootTtyLine, Boot, TtyUnchanged, EventsUnchanged, pic,
          tty, rx, host, guest, events_device, cpu, history
    <3>2. LinesAreDriven'
      BY <3>1 DEF IInv, LinesAreDriven, Enable, Update, Wired
    <3>3. Latch'
      BY <3>1 DEF IInv, Latch, Enable, Update
    <3>4. BootOrder'
      BY <3>1 DEF IInv, BootOrder, BootTasks
    <3>5. Booted'
      BY <3>1 DEF IInv, Booted, Enable, Update
    <3>6. SnapshotHonest'
      BY <3>1 DEF IInv, SnapshotHonest, Enable, Update
    <3>7. Counters' /\ CreditFits' /\ Handler'
      BY <3>1 DEF IInv, Counters, CreditFits, Handler, TtySteps
    <3> QED BY <3>2, <3>3, <3>4, <3>5, <3>6, <3>7 DEF IInv
  <2>8. CASE BootTtyOpen
    <3>1. /\ TtyDrives
          /\ int_enabled' /\ tty_irq' = (rx_count # 0)
          /\ "pic" \notin tasks /\ "tty_quiet" \notin tasks /\ "tty_line" \notin tasks
          /\ tasks' = tasks \ {"tty_open"}
          /\ isr = "none" /\ UNCHANGED <<isr, todo, fresh>>
          /\ UNCHANGED <<rx_count, data_len, announced, chr, credit, aborted>>
          /\ UNCHANGED <<qcount, ev_irq, decoder>>
      BY <2>8 DEF BootTtyOpen, Boot, CmdInt, UpdateIrq, EventsUnchanged, pic,
          tty, rx, host, guest, events_device, cpu, history
    <3>2. LinesAreDriven'
      BY <3>1, TtyDriven DEF IInv, LinesAreDriven, Latch, Wired
    <3>3. Latch'
      BY <3>1, TtyDriven DEF IInv, Latch, LinesAreDriven, Wired
    <3>4. BootOrder'
      BY <3>1 DEF IInv, BootOrder, BootTasks
    <3>5. Booted'
      BY <3>1, TtyDriven DEF IInv, Booted, LinesAreDriven, Latch, BootOrder
    <3>6. SnapshotHonest'
      BY <3>1, TtyDriven DEF IInv, SnapshotHonest, LinesAreDriven, Latch,
          Handler, TtySteps
    <3>7. Counters' /\ CreditFits' /\ Handler'
      BY <3>1 DEF IInv, Counters, CreditFits, Handler, TtySteps
    <3> QED BY <3>2, <3>3, <3>4, <3>5, <3>6, <3>7 DEF IInv
  <2>9. CASE TakeInterrupt
    <3>1. /\ UNCHANGED pic
          /\ todo' = pending \cap enabled
          /\ isr' = "dispatch"
          /\ UNCHANGED <<tasks, fresh>>
          /\ UNCHANGED <<int_enabled, rx_count, tty_irq, data_len, chr, credit, aborted, announced>>
          /\ UNCHANGED <<qcount, ev_irq, decoder>>
      BY <2>9 DEF TakeInterrupt, PendingMask, PicUnchanged, TtyUnchanged,
          EventsUnchanged, pic, tty, rx, host, guest, events_device, cpu,
          history
    <3>2. Handler'
      BY <3>1 DEF IInv, Handler, TtySteps
    <3>3. SnapshotHonest'
      BY <3>1 DEF IInv, SnapshotHonest, Latch, pic
    <3>4. Counters' /\ LinesAreDriven' /\ Latch' /\ CreditFits' /\ BootOrder' /\ Booted'
      BY <3>1 DEF IInv, Counters, LinesAreDriven, Latch, CreditFits,
          BootOrder, Booted, pic
    <3> QED BY <3>2, <3>3, <3>4 DEF IInv
  <2>10. CASE Dispatch
    <3>1. /\ isr = "dispatch"
          /\ \/ todo = {} /\ isr' = "none" /\ todo' = todo
             \/ TtyIrq \in todo /\ todo' = todo \ {TtyIrq} /\ isr' = "tty_count"
             \/ EventsIrq \in todo /\ todo' = todo \ {EventsIrq} /\ isr' = "events"
          /\ UNCHANGED pic
          /\ UNCHANGED <<tasks, fresh>>
          /\ UNCHANGED <<int_enabled, rx_count, tty_irq, data_len, chr, credit, aborted, announced>>
          /\ UNCHANGED <<qcount, ev_irq, decoder>>
      BY <2>10 DEF IInv, SnapshotHonest, LinesAreDriven, Wired, Dispatch,
          PicUnchanged, TtyUnchanged, EventsUnchanged, pic, tty, rx, host,
          guest, events_device, cpu, history
    <3>2. Handler'
      BY <3>1 DEF IInv, Handler, TtySteps
    <3>3. SnapshotHonest'
      BY <3>1 DEF IInv, SnapshotHonest, LinesAreDriven, Counters, pic
    <3>4. Counters' /\ LinesAreDriven' /\ Latch' /\ CreditFits' /\ BootOrder' /\ Booted'
      BY <3>1 DEF IInv, Counters, LinesAreDriven, Latch, CreditFits,
          BootOrder, Booted, pic
    <3> QED BY <3>2, <3>3, <3>4 DEF IInv
  <2>11. CASE ServeEvents
    <3>1. /\ isr = "events" /\ isr' = IF decoder' = <<>> THEN "dispatch" ELSE "events"
          /\ qcount' = IF qcount = 0 THEN 0 ELSE qcount - 1
          /\ ev_irq' <=> qcount' # 0
          /\ EventsDrive \/ UNCHANGED <<pic, qcount>>
          /\ UNCHANGED <<tasks, todo, fresh>>
          /\ UNCHANGED <<int_enabled, rx_count, tty_irq, data_len, chr, credit, aborted, announced>>
      BY <2>11 DEF IInv, Counters, LinesAreDriven, ServeEvents,
          Events!ReadWord, Events!Pop, Events!UpdateIrq, TtyUnchanged,
          PicUnchanged, pic, tty, rx, host, guest, events_device, cpu, history
    <3>2. Counters'
      BY <3>1 DEF IInv, Counters
    <3>3. LinesAreDriven'
      <4>1. CASE ~EventsDrive
        BY <3>1, <4>1 DEF IInv, LinesAreDriven, pic, Counters, Wired
      <4>2. CASE EventsDrive
        BY <3>1, <4>2, EventsDriven DEF IInv, LinesAreDriven, Latch,
            Counters, Wired
      <4> QED BY <4>1, <4>2
    <3>4. Latch'
      <4>1. CASE ~EventsDrive
        BY <3>1, <4>1 DEF IInv, Latch, pic
      <4>2. CASE EventsDrive
        BY <3>1, <4>2, EventsDriven DEF IInv, Latch, LinesAreDriven, Wired
      <4> QED BY <4>1, <4>2
    <3>5. Booted'
      <4>1. CASE ~EventsDrive
        BY <3>1, <4>1 DEF IInv, Booted, pic
      <4>2. CASE EventsDrive
        BY <3>1, <4>2, EventsDriven DEF IInv, Booted, LinesAreDriven, Latch
      <4> QED BY <4>1, <4>2
    <3>6. Handler'
      BY <3>1 DEF IInv, Handler, TtySteps
    <3>7. SnapshotHonest'
      <4>1. todo \subseteq lines \ {EventsIrq}
        BY <3>1 DEF IInv, SnapshotHonest, Handler
      <4>2. lines \ {EventsIrq} \subseteq lines'
        <5>1. CASE ~EventsDrive
          BY <3>1, <5>1 DEF pic
        <5>2. CASE EventsDrive
          BY <5>2, EventsDriven DEF IInv, LinesAreDriven, Wired
        <5> QED BY <5>1, <5>2
      <4> QED BY <3>1, <4>1, <4>2 DEF IInv, SnapshotHonest
    <3>8. CreditFits' /\ BootOrder'
      BY <3>1 DEF IInv, CreditFits, BootOrder, pic
    <3> QED BY <3>2, <3>3, <3>4, <3>5, <3>6, <3>7, <3>8 DEF IInv
  <2>12. CASE ServeTtyCount
    <3>1. /\ isr = "tty_count" /\ isr' = "tty_len"
          /\ announced' = rx_count
          /\ UNCHANGED pic
          /\ UNCHANGED <<tasks, todo, fresh>>
          /\ UNCHANGED <<int_enabled, rx_count, tty_irq, data_len, chr, credit, aborted>>
          /\ UNCHANGED <<qcount, ev_irq, decoder>>
      BY <2>12 DEF ServeTtyCount, BytesReady, PicUnchanged, EventsUnchanged,
          pic, tty, rx, host, guest, events_device, cpu, history
    <3>2. Counters'
      BY <3>1 DEF IInv, Counters
    <3>3. Handler'
      BY <3>1 DEF IInv, Handler, TtySteps
    <3>4. SnapshotHonest'
      BY <3>1 DEF IInv, SnapshotHonest, pic
    <3>5. LinesAreDriven' /\ Latch' /\ CreditFits' /\ BootOrder' /\ Booted'
      BY <3>1 DEF IInv, LinesAreDriven, Latch, CreditFits, BootOrder, Booted,
          pic
    <3> QED BY <3>2, <3>3, <3>4, <3>5 DEF IInv
  <2>13. CASE ServeTtyLen
    <3>1. /\ isr = "tty_len" /\ isr' = "tty_read"
          /\ data_len' = announced
          /\ UNCHANGED pic
          /\ UNCHANGED <<tasks, todo, fresh>>
          /\ UNCHANGED <<int_enabled, rx_count, tty_irq, announced, chr, credit, aborted>>
          /\ UNCHANGED <<qcount, ev_irq, decoder>>
      BY <2>13 DEF ServeTtyLen, SetDataLen, PicUnchanged, EventsUnchanged,
          pic, tty, rx, host, guest, events_device, cpu, history
    <3>2. Counters'
      BY <3>1 DEF IInv, Counters
    <3>3. Handler'
      BY <3>1 DEF IInv, Handler, TtySteps
    <3>4. SnapshotHonest'
      BY <3>1 DEF IInv, SnapshotHonest, pic
    <3>5. LinesAreDriven' /\ Latch' /\ CreditFits' /\ BootOrder' /\ Booted'
      BY <3>1 DEF IInv, LinesAreDriven, Latch, CreditFits, BootOrder, Booted,
          pic
    <3> QED BY <3>2, <3>3, <3>4, <3>5 DEF IInv
  <2>14. CASE ServeTtyRead
    <3>1. /\ isr = "tty_read" /\ isr' = "dispatch"
          /\ TtyDrives
          /\ rx_count' \in Nat /\ rx_count' <= rx_count
          /\ tty_irq' = (int_enabled /\ rx_count' # 0)
          /\ announced' \in Nat
          /\ chr' = "watching" => chr = "watching"
          /\ UNCHANGED <<tasks, todo, fresh>>
          /\ UNCHANGED <<int_enabled, data_len, credit, aborted>>
          /\ UNCHANGED <<qcount, ev_irq, decoder>>
      BY <2>14 DEF IInv, Counters, ServeTtyRead, CmdReadBuffer,
          Least, UpdateIrq, AcceptInput, EventsUnchanged, pic,
          tty, rx, host, guest, events_device, cpu, history
    <3>2. Counters'
      BY <3>1 DEF IInv, Counters
    <3>3. LinesAreDriven'
      BY <3>1, TtyDriven DEF IInv, LinesAreDriven, Latch, Wired
    <3>4. Latch'
      BY <3>1, TtyDriven DEF IInv, Latch, LinesAreDriven, Wired
    <3>5. CreditFits'
      <4>1. /\ rx_count \in Nat /\ rx_count' \in Nat /\ rx_count' <= rx_count
            /\ credit \in Nat /\ BufferSize \in Nat
        BY <3>1 DEF IInv, Counters, MachineAssumption, TtyAssumption
      <4>2. ASSUME chr' = "watching" PROVE credit <= BufferSize - rx_count'
        <5>1. chr = "watching"
          BY <3>1, <4>2
        <5>2. credit <= BufferSize - rx_count
          BY <5>1 DEF IInv, CreditFits
        <5> QED BY <4>1, <5>2, LessInMoreRoom
      <4> QED BY <3>1, <4>2 DEF IInv, CreditFits
    <3>6. Booted'
      BY <3>1, TtyDriven DEF IInv, Booted, LinesAreDriven, Latch
    <3>7. Handler'
      BY <3>1 DEF IInv, Handler, TtySteps
    <3>8. SnapshotHonest'
      <4>1. todo \subseteq lines \ {TtyIrq}
        BY <3>1 DEF IInv, SnapshotHonest, Handler, TtySteps
      <4>2. lines \ {TtyIrq} \subseteq lines'
        BY <3>1, TtyDriven DEF IInv, LinesAreDriven, Wired
      <4> QED BY <3>1, <4>1, <4>2 DEF IInv, SnapshotHonest
    <3>9. BootOrder'
      BY <3>1 DEF IInv, BootOrder
    <3> QED BY <3>2, <3>3, <3>4, <3>5, <3>6, <3>7, <3>8, <3>9 DEF IInv
  <2>15. CASE Reset
    <3>1. /\ tasks' = BootTasks /\ isr' = "none" /\ todo' = {}
          /\ announced' = 0
          /\ UNCHANGED <<pic, fresh>>
          /\ UNCHANGED <<int_enabled, rx_count, tty_irq, data_len, chr, credit, aborted>>
          /\ UNCHANGED <<qcount, ev_irq>>
      BY <2>15 DEF Reset, GuestForgets, pic, tty, rx, host, guest,
          events_device, cpu, history
    <3>2. Counters'
      BY <3>1 DEF IInv, Counters
    <3>3. BootOrder'
      BY <3>1 DEF IInv, BootOrder, BootTasks
    <3>4. Booted'
      BY <3>1 DEF IInv, Booted, BootTasks, pic
    <3>5. Handler'
      BY <3>1 DEF IInv, Handler, TtySteps
    <3>6. SnapshotHonest'
      BY <3>1 DEF IInv, SnapshotHonest
    <3>7. LinesAreDriven' /\ Latch' /\ CreditFits'
      BY <3>1 DEF IInv, LinesAreDriven, Latch, CreditFits, pic
    <3> QED BY <3>2, <3>3, <3>4, <3>5, <3>6, <3>7 DEF IInv
  <2>16. CASE UNCHANGED vars
    BY <2>16 DEF vars, pic, tty, rx, host, guest, events_device, cpu, history,
        IInv, Counters, LinesAreDriven, Latch, CreditFits, BootOrder, Booted,
        Handler, SnapshotHonest
  <2> QED
    BY <2>1, <2>2, <2>3, <2>4, <2>5, <2>6, <2>7, <2>8, <2>9, <2>10, <2>11,
        <2>12, <2>13, <2>14, <2>15, <2>16 DEF Next, Host, Guest
<1> QED BY <1>1, <1>2, PTL DEF Spec

(* The handler's snapshot of IRQ_PENDING stays true: the handler is never  *)
(* entered for an empty device.                                            *)
THEOREM SnapshotsAreHonest == Spec => []SnapshotHonest
<1>1. IInv => SnapshotHonest
  BY DEF IInv
<1> QED BY <1>1, MachineInvariant, PTL

(* Bytes that wait in the tty of a guest that is up interrupt the CPU.     *)
THEOREM BytesAreNotStranded == Spec => []BytesNotStranded
<1>1. IInv => BytesNotStranded
  <2> SUFFICES ASSUME IInv, Up, rx_count # 0 PROVE irq
    BY MachineAssumption, TtyAssumption DEF BytesNotStranded, IInv, Counters
  <2>1. TtyIrq \in enabled /\ TtyIrq \notin erased /\ int_enabled
    BY DEF IInv, Booted, Up
  <2>2. TtyIrq \in lines
    BY <2>1 DEF IInv, LinesAreDriven
  <2> QED BY <2>1, <2>2 DEF IInv, Latch
<1> QED BY <1>1, MachineInvariant, PTL

(* Once an event was accepted after the guest's DISABLE_ALL, the events    *)
(* that wait interrupt the CPU of a guest that is up.                      *)
THEOREM EarlyEventsOnlyAreStranded == Spec => []OnlyEarlyEventsStranded
<1>1. IInv => OnlyEarlyEventsStranded
  <2> SUFFICES ASSUME IInv, Up, qcount # 0, fresh PROVE irq
    BY DEF OnlyEarlyEventsStranded, IInv, Counters
  <2>1. EventsIrq \in enabled /\ EventsIrq \notin erased
    BY DEF IInv, Booted, Up
  <2>2. EventsIrq \in lines
    BY DEF IInv, LinesAreDriven, Counters
  <2> QED BY <2>1, <2>2 DEF IInv, Latch
<1> QED BY <1>1, MachineInvariant, PTL

----------------------------------------------------------------------------
(***************************************************************************)
(* Framing.  Unless a reset cut an event, the words that the guest has     *)
(* read of an event and those that are queued are complete triples, each   *)
(* beginning with an event type.  A push keeps it because it adds three    *)
(* words behind the others, a read because it is begun only while there is *)
(* a word (SnapshotHonest) and hands on the first of them.                 *)
(***************************************************************************)

EventTypes == {Events!EV_SYN, Events!EV_KEY, Events!EV_ABS}
Place(i, k) == (i + k) % QueueWords
Word(j) == queue[Place(qhead, j)]

EventRing ==
  /\ queue \in [Events!Slots -> Nat]
  /\ qhead \in Events!Slots /\ qtail \in Events!Slots
  /\ qcount \in 0 .. QueueWords
  /\ qtail = Place(qhead, qcount)
  /\ decoder \in Seq(Nat) /\ Len(decoder) \in 0 .. 2

Framed ==
  /\ (Len(decoder) + qcount) % 3 = 0
  /\ \A j \in 0 .. qcount - 1 :
       (Len(decoder) + j) % 3 = 0 => Word(j) \in EventTypes
  /\ Len(decoder) > 0 => decoder[1] \in EventTypes

FramingInv == EventRing /\ (torn \/ Framed)

(* The three places that a push fills are none of those in use.            *)
LEMMA PushPlaces ==
  ASSUME NEW h \in Events!Slots, NEW c \in 0 .. QueueWords,
         c + 3 <= QueueWords, NEW t, t = Place(h, c)
  PROVE  /\ t \in Events!Slots
         /\ Place(t, 1) = Place(h, c + 1) /\ Place(t, 1) \in Events!Slots
         /\ Place(t, 2) = Place(h, c + 2) /\ Place(t, 2) \in Events!Slots
         /\ Place(t, 3) = Place(h, c + 3) /\ Place(t, 3) \in Events!Slots
         /\ t # Place(t, 1) /\ t # Place(t, 2)
         /\ Place(t, 1) # Place(t, 2)
<1> USE MachineAssumption DEF Place, Events!Slots
<1>1. t \in Events!Slots
  OBVIOUS
<1>2. Place(t, 1) = Place(h, c + 1) /\ Place(t, 1) \in Events!Slots
  OBVIOUS
<1>3. Place(t, 2) = Place(h, c + 2) /\ Place(t, 2) \in Events!Slots
  OBVIOUS
<1>4. Place(t, 3) = Place(h, c + 3) /\ Place(t, 3) \in Events!Slots
  OBVIOUS
<1>5. t # Place(t, 1) /\ t # Place(t, 2)
  OBVIOUS
<1>6. Place(t, 1) # Place(t, 2)
  OBVIOUS
<1> QED BY <1>1, <1>2, <1>3, <1>4, <1>5, <1>6

LEMMA PlaceInUse ==
  ASSUME NEW h \in Events!Slots, NEW c \in 0 .. QueueWords,
         c + 3 <= QueueWords, NEW j \in 0 .. c - 1
  PROVE  /\ Place(h, j) \in Events!Slots
         /\ Place(h, j) # Place(h, c)
         /\ Place(h, j) # Place(h, c + 1)
         /\ Place(h, j) # Place(h, c + 2)
<1> USE MachineAssumption DEF Place, Events!Slots
<1>1. Place(h, j) \in Events!Slots
  OBVIOUS
<1>2. Place(h, j) # Place(h, c)
  OBVIOUS
<1>3. Place(h, j) # Place(h, c + 1)
  OBVIOUS
<1>4. Place(h, j) # Place(h, c + 2)
  OBVIOUS
<1> QED BY <1>1, <1>2, <1>3, <1>4

(* Places counted from the next word of the queue. *)
LEMMA PopPlaces ==
  ASSUME NEW h \in Events!Slots, NEW c \in 1 .. QueueWords
  PROVE  /\ Place(h, 0) = h /\ Place(h, 1) \in Events!Slots
         /\ Place(Place(h, 1), c - 1) = Place(h, c)
         /\ \A j \in 0 .. c - 1 : Place(Place(h, 1), j) = Place(h, j + 1)
<1> USE MachineAssumption DEF Place, Events!Slots
<1>1. Place(h, 0) = h
  OBVIOUS
<1>2. Place(h, 1) \in Events!Slots
  OBVIOUS
<1>3. Place(Place(h, 1), c - 1) = Place(h, c)
  OBVIOUS
<1>4. ASSUME NEW j \in 0 .. c - 1
      PROVE  Place(Place(h, 1), j) = Place(h, j + 1)
  OBVIOUS
<1> QED BY <1>1, <1>2, <1>3, <1>4

(* A push puts its words behind those in use, or does nothing.             *)
LEMMA PushAppends ==
  ASSUME EventRing, NEW type \in Nat, NEW code \in Nat, NEW value \in Nat,
         Events!Push(type, code, value)
  PROVE  /\ EventRing' /\ decoder' = decoder
         /\ \/ UNCHANGED <<queue, qhead, qtail, qcount>>
            \/ /\ qcount' = qcount + 3
               /\ \A j \in 0 .. qcount - 1 : Word(j)' = Word(j)
               /\ \A j \in Nat : j = qcount => Word(j)' = type
<1>1. CASE qcount + 3 > QueueWords
  BY <1>1 DEF Events!Push, EventRing, Place, Events!Slots
<1>2. CASE ~(qcount + 3 > QueueWords)
  <2> DEFINE t1 == Place(qtail, 1)
             t2 == Place(qtail, 2)
             t3 == Place(qtail, 3)
  <2>1. /\ QueueWords \in Nat \ {0} /\ queue \in [Events!Slots -> Nat]
        /\ qhead \in Events!Slots /\ qtail = Place(qhead, qcount)
        /\ qcount \in 0 .. QueueWords /\ qcount \in Nat
    BY MachineAssumption, TtyAssumption DEF EventRing
  <2>2. qcount + 3 <= QueueWords
    BY <1>2, <2>1
  <2>3. /\ queue' = [queue EXCEPT ![qtail] = type, ![t1] = code, ![t2] = value]
        /\ qtail' = t3 /\ qcount' = qcount + 3
        /\ qhead' = qhead /\ decoder' = decoder
    BY <1>2 DEF Events!Push, Place
  <2>4. /\ qtail \in Events!Slots
        /\ t1 = Place(qhead, qcount + 1) /\ t1 \in Events!Slots
        /\ t2 = Place(qhead, qcount + 2) /\ t2 \in Events!Slots
        /\ t3 = Place(qhead, qcount + 3) /\ t3 \in Events!Slots
        /\ qtail # t1 /\ qtail # t2 /\ t1 # t2
    <3> HIDE DEF t1, t2, t3
    <3> QED BY <2>1, <2>2, PushPlaces DEF t1, t2, t3
  <2> HIDE DEF t1, t2, t3
  <2>5. qcount' \in 0 .. QueueWords
    BY <2>1, <2>2, <2>3
  <2>6. /\ queue' \in [Events!Slots -> Nat]
        /\ queue'[qtail] = type
        /\ \A i \in Events!Slots \ {qtail, t1, t2} : queue'[i] = queue[i]
    BY <2>1, <2>3, <2>4
  <2>7. EventRing'
    BY <2>3, <2>4, <2>5, <2>6 DEF EventRing, Place, Events!Slots
  <2>8. ASSUME NEW j \in 0 .. qcount - 1 PROVE Word(j)' = Word(j)
    <3>1. Place(qhead, j) \in Events!Slots \ {qtail, t1, t2}
      BY <2>1, <2>2, <2>4, PlaceInUse
    <3> QED BY <2>3, <2>6, <3>1 DEF Word, Place
  <2>9. \A j \in Nat : j = qcount => Word(j)' = type
    BY <2>1, <2>3, <2>6 DEF Word, Place
  <2> QED BY <2>3, <2>7, <2>8, <2>9
<1> QED BY <1>1, <1>2

LEMMA FramedStays ==
  ASSUME UNCHANGED <<queue, qhead, qtail, qcount, decoder>>
  PROVE  /\ EventRing => EventRing'
         /\ Framed => Framed'
  BY DEF EventRing, Framed, Word, Place

LEMMA PushFramed ==
  ASSUME EventRing, NEW type \in EventTypes, NEW code \in Nat,
         NEW value \in Nat, Events!Push(type, code, value)
  PROVE  EventRing' /\ (Framed => Framed')
<1> DEFINE d == Len(decoder)
<1>1. type \in Nat
  BY DEF EventTypes, Events!EV_SYN, Events!EV_KEY, Events!EV_ABS
<1>2. /\ EventRing' /\ decoder' = decoder
      /\ \/ UNCHANGED <<queue, qhead, qtail, qcount>>
         \/ /\ qcount' = qcount + 3
            /\ \A j \in 0 .. qcount - 1 : Word(j)' = Word(j)
            /\ \A j \in Nat : j = qcount => Word(j)' = type
  BY <1>1, PushAppends
<1>3. CASE UNCHANGED <<queue, qhead, qtail, qcount>>
  BY <1>2, <1>3, FramedStays
<1>4. CASE /\ qcount' = qcount + 3
           /\ \A j \in 0 .. qcount - 1 : Word(j)' = Word(j)
           /\ \A j \in Nat : j = qcount => Word(j)' = type
  <2> SUFFICES ASSUME Framed PROVE Framed'
    BY <1>2
  <2>1. d \in 0 .. 2 /\ qcount \in Nat /\ (d + qcount) % 3 = 0
    BY MachineAssumption, TtyAssumption DEF EventRing, Framed
  <2>2. \A j \in 0 .. qcount - 1 : (d + j) % 3 = 0 => Word(j) \in EventTypes
    BY DEF Framed
  <2>3. d > 0 => decoder'[1] \in EventTypes
    BY <1>2 DEF Framed
  <2> HIDE DEF d
  <2>4. (d + qcount') % 3 = 0
    BY <1>4, <2>1
  <2>5. \A j \in 0 .. qcount' - 1 :
          (d + j) % 3 = 0 => j \in 0 .. qcount - 1 \/ j = qcount
    BY <1>4, <2>1
  <2>6. \A j \in 0 .. qcount' - 1 : (d + j) % 3 = 0 => Word(j)' \in EventTypes
    BY <1>4, <2>1, <2>2, <2>5
  <2> QED BY <1>2, <2>3, <2>4, <2>6 DEF Framed, d, EventTypes
<1> QED BY <1>2, <1>3, <1>4

(* A read takes the first word; without one it hands on a 0.               *)
LEMMA ReadTakes ==
  ASSUME EventRing, Events!ReadWord
  PROVE  /\ EventRing'
         /\ qcount' = IF qcount = 0 THEN 0 ELSE qcount - 1
         /\ Len(decoder') = IF Len(decoder) = 2 THEN 0 ELSE Len(decoder) + 1
         /\ decoder' = <<>> <=> Len(decoder) = 2
         /\ Len(decoder) = 1 => decoder'[1] = decoder[1]
         /\ Len(decoder) = 0 /\ qcount > 0 => decoder'[1] = Word(0)
         /\ qcount > 0 =>
              \A j \in 0 .. qcount - 2 : Word(j)' = Word(j + 1)
<1> DEFINE word == Events!PoppedWord
<1>1. /\ QueueWords \in Nat \ {0} /\ queue \in [Events!Slots -> Nat]
      /\ qhead \in Events!Slots /\ qtail \in Events!Slots
      /\ qtail = Place(qhead, qcount)
      /\ qcount \in 0 .. QueueWords /\ qcount \in Nat
      /\ decoder \in Seq(Nat) /\ Len(decoder) \in 0 .. 2
  BY MachineAssumption, TtyAssumption DEF EventRing
<1>2. /\ queue' = queue /\ qtail' = qtail
      /\ decoder' = IF Len(decoder) = 2 THEN <<>> ELSE Append(decoder, word)
      /\ IF qcount = 0 THEN qhead' = qhead /\ qcount' = 0
         ELSE qhead' = Place(qhead, 1) /\ qcount' = qcount - 1
  BY DEF Events!ReadWord, Events!Pop, Place
<1>3. word \in Nat
  BY <1>1 DEF Events!PoppedWord
<1> HIDE DEF word
<1>4. /\ decoder' \in Seq(Nat)
      /\ Len(decoder') = IF Len(decoder) = 2 THEN 0 ELSE Len(decoder) + 1
      /\ decoder' = <<>> <=> Len(decoder) = 2
      /\ Len(decoder) = 1 => decoder'[1] = decoder[1]
      /\ Len(decoder) = 0 => decoder'[1] = word
  <2>1. CASE Len(decoder) = 2
    BY <1>2, <2>1
  <2>2. CASE Len(decoder) # 2
    <3>1. decoder' = Append(decoder, word)
      BY <1>2, <2>2
    <3>2. /\ Append(decoder, word) \in Seq(Nat)
          /\ Len(Append(decoder, word)) = Len(decoder) + 1
          /\ \A k \in 1 .. Len(decoder) : Append(decoder, word)[k] = decoder[k]
          /\ Append(decoder, word)[Len(decoder) + 1] = word
      BY <1>1, <1>3
    <3>3. Append(decoder, word) # <<>>
      BY <1>1, <3>2
    <3> QED BY <1>1, <2>2, <3>1, <3>2, <3>3
  <2> QED BY <2>1, <2>2
<1>5. Len(decoder') \in 0 .. 2
  <2> DEFINE d == Len(decoder)
             e == Len(decoder')
  <2>1. d \in 0 .. 2 /\ e = IF d = 2 THEN 0 ELSE d + 1
    BY <1>1, <1>4
  <2> HIDE DEF d, e
  <2>2. e \in 0 .. 2
    BY <2>1
  <2> QED BY <2>2 DEF e
<1>6. CASE qcount = 0
  BY <1>1, <1>2, <1>4, <1>5, <1>6 DEF EventRing, Place
<1>7. CASE qcount # 0
  <2>1. qcount \in 1 .. QueueWords /\ qcount > 0
    BY <1>1, <1>7
  <2>2. /\ Place(qhead, 0) = qhead /\ qhead' \in Events!Slots
        /\ Place(qhead', qcount - 1) = qtail
        /\ \A j \in 0 .. qcount - 1 : Place(qhead', j) = Place(qhead, j + 1)
    BY <1>1, <1>2, <1>7, <2>1, PopPlaces
  <2>3. qcount' \in 0 .. QueueWords
    BY <1>1, <1>2, <1>7
  <2>4. EventRing'
    BY <1>1, <1>2, <1>4, <1>5, <1>7, <2>2, <2>3
    DEF EventRing, Place, Events!Slots
  <2>5. ASSUME NEW j \in 0 .. qcount - 2 PROVE Word(j)' = Word(j + 1)
    <3>1. j \in 0 .. qcount - 1
      BY <1>1
    <3>2. Place(qhead', j) = Place(qhead, j + 1)
      BY <2>2, <3>1
    <3> QED BY <1>2, <3>2 DEF Word, Place
  <2>6. word = Word(0)
    BY <1>7, <2>2 DEF word, Word, Events!PoppedWord
  <2> QED BY <1>2, <1>4, <1>7, <2>4, <2>5, <2>6
<1> QED BY <1>6, <1>7

LEMMA ReadFramed ==
  ASSUME EventRing, Framed, Events!ReadWord,
         decoder = <<>> => qcount > 0
  PROVE  Framed'
<1> DEFINE d == Len(decoder)
           e == Len(decoder')
<1>1. /\ d \in 0 .. 2 /\ qcount \in Nat /\ (d + qcount) % 3 = 0
      /\ decoder \in Seq(Nat)
  BY MachineAssumption, TtyAssumption DEF EventRing, Framed
<1>2. d = 0 => qcount > 0
  BY <1>1
<1>3. \A j \in 0 .. qcount - 1 : (d + j) % 3 = 0 => Word(j) \in EventTypes
  BY DEF Framed
<1>4. d = 1 => decoder[1] \in EventTypes
  BY DEF Framed
<1>5. /\ qcount' = IF qcount = 0 THEN 0 ELSE qcount - 1
      /\ e = IF d = 2 THEN 0 ELSE d + 1
      /\ d = 1 => decoder'[1] = decoder[1]
      /\ d = 0 /\ qcount > 0 => decoder'[1] = Word(0)
      /\ qcount > 0 => \A j \in 0 .. qcount - 2 : Word(j)' = Word(j + 1)
  BY ReadTakes
<1> HIDE DEF d, e
<1>6. qcount > 0 /\ qcount' = qcount - 1
  BY <1>1, <1>2, <1>5
<1>7. (e + qcount') % 3 = 0
  <2>1. CASE d = 2
    <3>1. e + qcount' = (d + qcount) - 3
      BY <1>1, <1>5, <1>6, <2>1
    <3> QED BY <1>1, <3>1
  <2>2. CASE d # 2
    <3>1. e + qcount' = d + qcount
      BY <1>1, <1>5, <1>6, <2>2
    <3> QED BY <1>1, <3>1
  <2> QED BY <2>1, <2>2
<1>8. ASSUME NEW j \in 0 .. qcount' - 1, (e + j) % 3 = 0
      PROVE  Word(j)' \in EventTypes
  <2>1. j \in 0 .. qcount - 2 /\ j + 1 \in 0 .. qcount - 1
    BY <1>1, <1>6
  <2>2. (d + (j + 1)) % 3 = 0
    <3>1. CASE d = 2
      <4>1. e + j = (d + (j + 1)) - 3
        BY <1>5, <2>1, <3>1
      <4> QED BY <1>1, <1>8, <2>1, <4>1
    <3>2. CASE d # 2
      <4>1. e + j = d + (j + 1)
        BY <1>1, <1>5, <2>1, <3>2
      <4> QED BY <1>8, <4>1
    <3> QED BY <3>1, <3>2
  <2> QED BY <1>3, <1>5, <1>6, <2>1, <2>2
<1>9. e > 0 => decoder'[1] \in EventTypes
  <2>1. CASE d = 0
    <3>1. 0 \in 0 .. qcount - 1 /\ (d + 0) % 3 = 0
      BY <1>6, <2>1, <1>1
    <3> QED BY <1>3, <1>5, <1>6, <2>1, <3>1
  <2>2. CASE d = 1
    BY <1>4, <1>5, <2>2
  <2>3. CASE d = 2
    BY <1>5, <2>3
  <2> QED BY <1>1, <2>1, <2>2, <2>3
<1> QED BY <1>7, <1>8, <1>9 DEF Framed, e, EventTypes

(* Words and pieces of words that are not there are framed. *)
LEMMA NothingIsFramed ==
  ASSUME Len(decoder) = 0, qcount = 0
  PROVE  Framed
<1>1. (Len(decoder) + qcount) % 3 = 0 /\ 0 .. qcount - 1 = {}
      /\ ~(Len(decoder) > 0)
  OBVIOUS
<1> QED BY <1>1 DEF Framed

LEMMA FramingInit == Init => FramingInv
<1> SUFFICES ASSUME Init PROVE FramingInv
  OBVIOUS
<1>1. /\ queue = [i \in Events!Slots |-> 0] /\ qhead = 0 /\ qtail = 0
      /\ qcount = 0 /\ decoder = <<>> /\ Len(decoder) = 0
  BY DEF Init, Events!Init
<1>2. EventRing
  BY <1>1, MachineAssumption, TtyAssumption DEF EventRing, Events!Slots, Place
<1> QED BY <1>1, <1>2, NothingIsFramed DEF FramingInv

LEMMA FramingStep == IInv /\ FramingInv /\ [Next]_vars => FramingInv'
<1> SUFFICES ASSUME IInv, FramingInv, [Next]_vars PROVE FramingInv'
  OBVIOUS
<1>1. EventRing /\ (torn \/ Framed)
  BY DEF FramingInv
<1>2. ASSUME UNCHANGED <<queue, qhead, qtail, qcount, decoder>>, torn' = torn
      PROVE  FramingInv'
  BY <1>1, <1>2, FramedStays DEF FramingInv
<1>3. CASE HostInput
  <2>1. torn' = torn
    BY <1>3 DEF HostInput
  <2>2. ASSUME NEW type \in EventTypes, NEW code \in Nat, NEW value \in Nat,
               Events!Push(type, code, value)
        PROVE  FramingInv'
    BY <1>1, <2>1, <2>2, PushFramed DEF FramingInv
  <2>3. /\ Events!EV_SYN \in EventTypes /\ Events!EV_KEY \in EventTypes
        /\ Events!BoolWord(TRUE) \in Nat /\ 0 \in Nat
    BY DEF EventTypes, Events!BoolWord
  <2>4. CASE Events!InputKey("A", TRUE)
    <3>1. "A" \in DOMAIN Events!keymap /\ Events!keymap["A"] \in Nat
      BY DEF Events!keymap
    <3>2. Events!Push(Events!EV_KEY, Events!keymap["A"], Events!BoolWord(TRUE))
      BY <2>4, <3>1 DEF Events!InputKey
    <3> QED BY <2>2, <2>3, <3>1, <3>2
  <2>5. CASE Events!InputSync
    BY <2>2, <2>3, <2>5 DEF Events!InputSync
  <2> QED BY <1>3, <2>4, <2>5 DEF HostInput
<1>4. CASE ServeEvents
  <2>1. /\ Events!ReadWord
        /\ torn' = (torn /\ ~(decoder' = <<>> /\ qcount' = 0))
        /\ decoder = <<>> => qcount > 0
    BY <1>4 DEF ServeEvents, IInv, SnapshotHonest
  <2>2. EventRing'
    BY <1>1, <2>1, ReadTakes
  <2>3. CASE torn /\ ~torn'
    <3>1. Len(decoder') = 0 /\ qcount' = 0
      BY <2>1, <2>3
    <3>2. (Len(decoder) = 0 /\ qcount = 0 => Framed)'
      BY NothingIsFramed, PTL
    <3> QED BY <2>2, <3>1, <3>2 DEF FramingInv
  <2>4. CASE ~torn
    BY <1>1, <2>1, <2>2, <2>4, ReadFramed DEF FramingInv
  <2> QED BY <2>2, <2>3, <2>4 DEF FramingInv
<1>5. CASE Reset
  <2>1. /\ UNCHANGED <<queue, qhead, qtail, qcount>>
        /\ decoder' = <<>> /\ torn' = (torn \/ decoder # <<>>)
    BY <1>5 DEF Reset, events_device
  <2>2. EventRing'
    <3>1. decoder' \in Seq(Nat) /\ Len(decoder') = 0 /\ 0 \in 0 .. 2
      BY <2>1
    <3> QED BY <1>1, <2>1, <3>1 DEF EventRing, Place
  <2>3. CASE decoder = <<>>
    BY <1>1, <2>1, <2>2, <2>3, FramedStays DEF FramingInv
  <2> QED BY <2>1, <2>2, <2>3 DEF FramingInv
<1>6. CASE HostChardev \/ HostDelivers
  BY <1>2, <1>6 DEF HostChardev, HostDelivers, EventsUnchanged,
     events_device, history
<1>7. CASE BootPic \/ BootEventsLine \/ BootTtyQuiet \/ BootTtyLine \/ BootTtyOpen
  BY <1>2, <1>7 DEF BootPic, BootEventsLine, BootTtyQuiet, BootTtyLine,
     BootTtyOpen, Boot, EventsUnchanged, events_device
<1>8. CASE TakeInterrupt \/ Dispatch \/ ServeTtyCount \/ ServeTtyLen \/ ServeTtyRead
  BY <1>2, <1>8 DEF TakeInterrupt, Dispatch, ServeTtyCount, ServeTtyLen,
     ServeTtyRead, EventsUnchanged, events_device, history
<1>9. CASE UNCHANGED vars
  BY <1>2, <1>9 DEF vars, events_device, history
<1> QED BY <1>3, <1>4, <1>5, <1>6, <1>7, <1>8, <1>9 DEF Next, Host, Guest

(* The ring is well formed and, unless torn, framed, in every state.       *)
THEOREM FramingInvariant == Spec => []FramingInv
  BY FramingInit, FramingStep, MachineInvariant, PTL DEF Spec

(* What the guest sees, place by place. *)
WordsAreListed ==
  /\ Len(Events!Words) = Len(decoder) + qcount
  /\ \A k \in 1 .. Len(decoder) : Events!Words[k] = decoder[k]
  /\ \A j \in 0 .. qcount - 1 : Events!Words[Len(decoder) + 1 + j] = Word(j)

LEMMA WordsListed == EventRing => WordsAreListed
<1> SUFFICES ASSUME EventRing PROVE WordsAreListed
  OBVIOUS
<1> USE MachineAssumption, TtyAssumption
<1>1. /\ decoder \in Seq(Nat) /\ Len(decoder) \in 0 .. 2
      /\ qcount \in Nat /\ qhead \in Events!Slots
      /\ queue \in [Events!Slots -> Nat]
  BY DEF EventRing
<1>2. \A k \in 1 .. qcount : (qhead + k - 1) % QueueWords \in Events!Slots
  BY <1>1 DEF Events!Slots
<1>3. Events!Queue \in [1 .. qcount -> Nat]
  BY <1>1, <1>2 DEF Events!Queue
<1>4. Events!Queue \in Seq(Nat) /\ Len(Events!Queue) = qcount
  BY <1>1, <1>3
<1>5. /\ Len(Events!Words) = Len(decoder) + qcount
      /\ \A k \in 1 .. Len(decoder) : Events!Words[k] = decoder[k]
      /\ \A k \in Len(decoder) + 1 .. Len(decoder) + Len(Events!Queue) :
           Events!Words[k] = Events!Queue[k - Len(decoder)]
  BY <1>1, <1>4, ConcatFacts DEF Events!Words
<1>6. ASSUME NEW j \in 0 .. qcount - 1
      PROVE  Events!Words[Len(decoder) + 1 + j] = Word(j)
  <2>1. Len(decoder) + 1 + j \in Len(decoder) + 1 .. Len(decoder) + Len(Events!Queue)
    BY <1>1, <1>4
  <2>2. Events!Words[Len(decoder) + 1 + j]
          = Events!Queue[Len(decoder) + 1 + j - Len(decoder)]
    BY <1>5, <2>1
  <2>3. Len(decoder) + 1 + j - Len(decoder) = j + 1 /\ j + 1 \in 1 .. qcount
    BY <1>1
  <2>4. Events!Queue[j + 1] = queue[(qhead + (j + 1) - 1) % QueueWords]
    BY <2>3 DEF Events!Queue
  <2>5. qhead + (j + 1) - 1 = qhead + j
    BY <1>1 DEF Events!Slots
  <2> QED BY <2>2, <2>3, <2>4, <2>5 DEF Word, Place
<1> QED BY <1>5, <1>6 DEF WordsAreListed

(* The guest of the composed board reads whole events, through overflows   *)
(* of the queue and interrupts taken late, unless a reset fell inside an   *)
(* event, and then only until it has read the queue empty.                 *)
THEOREM EventsAreFramed == Spec => []FramedUnlessTorn
<1>1. FramingInv => FramedUnlessTorn
  <2> SUFFICES ASSUME EventRing, Framed PROVE Events!WholeEvents
    BY DEF FramingInv, FramedUnlessTorn
  <2> DEFINE d == Len(decoder)
  <2>1. /\ Len(Events!Words) = d + qcount
        /\ \A k \in 1 .. d : Events!Words[k] = decoder[k]
        /\ \A j \in 0 .. qcount - 1 : Events!Words[d + 1 + j] = Word(j)
    BY WordsListed DEF WordsAreListed
  <2>2. d \in 0 .. 2 /\ qcount \in Nat
    BY MachineAssumption, TtyAssumption DEF EventRing
  <2>3. /\ (d + qcount) % 3 = 0
        /\ \A j \in 0 .. qcount - 1 : (d + j) % 3 = 0 => Word(j) \in EventTypes
        /\ d > 0 => decoder[1] \in EventTypes
    BY DEF Framed
  <2> HIDE DEF d
  <2>4. ASSUME NEW k \in 1 .. Len(Events!Words), k % 3 = 1
        PROVE  Events!Words[k] \in EventTypes
    <3>1. k \in Nat /\ 1 <= k /\ k <= d + qcount
      BY <2>1, <2>2
    <3>2. CASE k <= d
      <4>1. k = 1
        BY <2>2, <2>4, <3>1, <3>2
      <4> QED BY <2>1, <2>2, <2>3, <3>2, <4>1
    <3>3. CASE k > d
      <4> DEFINE j == k - (d + 1)
      <4>1. j \in 0 .. qcount - 1 /\ d + 1 + j = k /\ (d + j) + 1 = k
        BY <2>2, <3>1, <3>3
      <4>2. (d + j) % 3 = 0
        BY <2>2, <2>4, <3>1, <4>1
      <4> QED BY <2>1, <2>3, <4>1, <4>2
    <3> QED BY <2>2, <3>1, <3>2, <3>3
  <2> QED BY <2>1, <2>3, <2>4 DEF Events!WholeEvents, Events!EventStarts, EventTypes
<1> QED BY <1>1, FramingInvariant, PTL

----------------------------------------------------------------------------
(***************************************************************************)
(* The board runs the controller of the first section: whatever the        *)
(* devices and the guest do, each step is one access to the controller or  *)
(* leaves it alone, so what is proved of the controller holds on the board.*)
(***************************************************************************)

LEMMA MachineStepIsPicStep == [Next]_vars => [PicNext]_pic
<1> SUFFICES ASSUME [Next]_vars PROVE [PicNext]_pic
  OBVIOUS
<1>1. TtyIrq \in Irqs /\ EventsIrq \in Irqs
  BY MachineAssumption, TtyAssumption
<1>2. ASSUME NEW i \in Irqs, NEW level \in BOOLEAN, SetIrq(i, level)
      PROVE  PicNext
  BY <1>2 DEF PicNext
<1>3. ASSUME TtyDrives, tty_irq' \in BOOLEAN PROVE PicNext
  BY <1>1, <1>2, <1>3 DEF TtyDrives
<1>4. ASSUME EventsDrive, ev_irq' \in BOOLEAN PROVE PicNext
  BY <1>1, <1>2, <1>4 DEF EventsDrive
<1>5. CASE HostDelivers
  <2>1. CASE aborted'
    BY <1>5, <2>1 DEF HostDelivers, PicUnchanged
  <2>2. CASE ~aborted'
    <3>1. tty_irq' \in BOOLEAN
      BY <1>5, <2>2 DEF HostDelivers, ChrDeliver, Receive, UpdateIrq
    <3> QED BY <1>3, <1>5, <2>2, <3>1 DEF HostDelivers
  <2> QED BY <2>1, <2>2
<1>6. CASE HostInput
  <2>1. CASE qcount' = qcount
    BY <1>6, <2>1 DEF HostInput, PicUnchanged
  <2>2. CASE qcount' # qcount
    <3>1. ASSUME NEW type, NEW code, NEW value, Events!Push(type, code, value)
          PROVE  ev_irq' \in BOOLEAN
      BY <2>2, <3>1 DEF Events!Push, Events!UpdateIrq
    <3>2. CASE Events!InputKey("A", TRUE)
      BY <1>4, <1>6, <2>2, <3>1, <3>2
         DEF HostInput, Events!InputKey, Events!vars, Events!ring
    <3>3. CASE Events!InputSync
      BY <1>4, <1>6, <2>2, <3>1, <3>3 DEF HostInput, Events!InputSync
    <3> QED BY <1>6, <3>2, <3>3 DEF HostInput
  <2> QED BY <2>1, <2>2
<1>7. CASE BootPic
  BY <1>7 DEF BootPic, PicNext
<1>8. CASE BootEventsLine \/ BootTtyLine
  BY <1>1, <1>8 DEF BootEventsLine, BootTtyLine, PicNext
<1>9. CASE BootTtyQuiet \/ BootTtyOpen
  BY <1>3, <1>9 DEF BootTtyQuiet, BootTtyOpen, CmdInt, UpdateIrq
<1>10. CASE ServeEvents
  <2>1. CASE qcount = 0
    BY <1>10, <2>1 DEF ServeEvents, PicUnchanged
  <2>2. CASE qcount # 0
    BY <1>4, <1>10, <2>2 DEF ServeEvents, Events!ReadWord, Events!Pop,
       Events!UpdateIrq
  <2> QED BY <2>1, <2>2
<1>11. CASE ServeTtyRead
  BY <1>3, <1>11 DEF ServeTtyRead, CmdReadBuffer, UpdateIrq
<1>12. CASE HostChardev \/ TakeInterrupt \/ Dispatch \/ ServeTtyCount \/ ServeTtyLen
  BY <1>12 DEF HostChardev, TakeInterrupt, Dispatch, ServeTtyCount,
     ServeTtyLen, PicUnchanged
<1>13. CASE Reset \/ UNCHANGED vars
  BY <1>13 DEF Reset, vars
<1> QED BY <1>5, <1>6, <1>7, <1>8, <1>9, <1>10, <1>11, <1>12, <1>13
        DEF Next, Host, Guest

(* The composed board implements the controller's specification, although  *)
(* its devices drive two lines only and its guest boots in a fixed order.  *)
THEOREM MachineRunsPic == Spec => PicSpec
<1>1. Init => PicInit
  BY DEF Init
<1> QED BY <1>1, MachineStepIsPicStep, PTL DEF Spec, PicSpec

(* On the board, too, a line that is asserted, enabled and was driven      *)
(* since the last DISABLE_ALL interrupts the CPU, and nothing else does.   *)
THEOREM MachineInterruptsExactly ==
  Spec => [](NoLostInterrupt /\ NoSpuriousInterrupt)
  BY MachineRunsPic, PicNoLostInterrupt, PicNoSpuriousInterrupt, PTL

----------------------------------------------------------------------------
(***************************************************************************)
(* The board runs the tty of GoldfishTty, which therefore keeps its        *)
(* promises under this guest, through its boots and resets: each step is   *)
(* one of the tty's, or leaves it alone.  A DATA_LEN that the handler      *)
(* writes is what BYTES_READY announced, hence within the buffer's size;   *)
(* that needs the tty's own invariant.                                     *)
(***************************************************************************)

LEMMA MachineStepIsTtyStep == TtyIInv /\ [Next]_vars => [TtyNext]_tty
<1> SUFFICES ASSUME TtyIInv, [Next]_vars PROVE [TtyNext]_tty
  OBVIOUS
<1>1. CASE UNCHANGED tty
  BY <1>1
<1>2. CASE ~aborted /\ TtyGuest
  BY <1>2 DEF TtyNext
<1>3. CASE ~aborted /\ Chardev
  BY <1>3 DEF TtyNext
<1>4. announced \in 0 .. MaxLen
  BY MachineAssumption, TtyAssumption DEF TtyIInv, TtyTypeOK, BytesReadyIsLowerBound
<1>5. CASE ~aborted /\ Host
  <2>1. Chardev \/ UNCHANGED tty
    BY <1>5 DEF Host, HostChardev, HostDelivers, HostInput, Chardev, TtyUnchanged
  <2> QED BY <1>1, <1>3, <1>5, <2>1
<1>6. CASE ~aborted /\ Guest
  <2>1. ASSUME BootTtyQuiet \/ BootTtyOpen PROVE TtyGuest
    BY <2>1 DEF BootTtyQuiet, BootTtyOpen, TtyGuest
  <2>2. ASSUME ServeTtyCount \/ ServeTtyLen \/ ServeTtyRead PROVE TtyGuest
    BY <1>4, <2>2 DEF ServeTtyCount, ServeTtyLen, ServeTtyRead, TtyGuest
  <2>3. ASSUME \/ BootPic \/ BootEventsLine \/ BootTtyLine
               \/ TakeInterrupt \/ Dispatch \/ ServeEvents
        PROVE  UNCHANGED tty
    BY <2>3 DEF BootPic, BootEventsLine, BootTtyLine, TakeInterrupt, Dispatch,
       ServeEvents, TtyUnchanged
  <2> QED BY <1>1, <1>2, <1>6, <2>1, <2>2, <2>3 DEF Guest
<1>7. CASE ~aborted /\ Reset
  BY <1>2, <1>7 DEF Reset, TtyGuest
<1>8. CASE UNCHANGED vars
  BY <1>1, <1>8 DEF vars
<1> QED BY <1>5, <1>6, <1>7, <1>8 DEF Next

(* The ring, the chardev's credit and the guest's memory fit together on   *)
(* the board.                                                              *)
THEOREM MachineTtyInvariant == Spec => []TtyIInv
<1>1. Init => TtyIInv
  BY InitEstablishes DEF Init
<1>2. TtyIInv /\ [Next]_vars => TtyIInv'
  BY MachineStepIsTtyStep, StepPreserves
<1> QED BY <1>1, <1>2, PTL DEF Spec

(* The composed board implements the tty's specification.                  *)
THEOREM MachineRunsTty == Spec => TtySpec
<1>1. Init => TtyInit
  BY DEF Init
<1> QED BY <1>1, MachineStepIsTtyStep, MachineTtyInvariant, PTL
        DEF Spec, TtySpec

(* Whatever the guest's resets, its interrupts and the other device's      *)
(* events: the bytes in the guest's memory are the beginning of the host's *)
(* stream, the rest of what was sent is in the buffer, and a host that     *)
(* stopped sending did so for a full buffer.                               *)
THEOREM MachineKeepsStream == Spec => [](StreamInOrder /\ NoLostWakeup)
  BY MachineRunsTty, TtyStreamInOrder, TtyNoLostWakeup, PTL

(* On the board, too, the tty is a bounded queue with a level-triggered    *)
(* line.                                                                   *)
THEOREM MachineTtyIsIrqFifo == Spec => ImplementsIrqFifo
  BY MachineRunsTty, TtyRefinesIrqFifo

(* Quiescence: nothing interrupts a guest that is up and outside of its    *)
(* handler.  Then all that the host has sent is in the guest's memory, and *)
(* the host is still being watched or about to be asked.                   *)
QuietIsDelivered ==
  Up /\ isr = "none" /\ ~irq => Len(got) = sent /\ chr # "parked"

(* A byte that is not yet delivered always has an interrupt on its way,    *)
(* after any number of resets: the tty never falls silent with bytes in    *)
(* its buffer or with a host that nobody asks any more.                    *)
THEOREM MachineQuietIsDelivered == Spec => []QuietIsDelivered
<1>1. IInv /\ BytesNotStranded /\ TtyIInv => QuietIsDelivered
  <2> SUFFICES ASSUME IInv, BytesNotStranded, TtyIInv, Up, isr = "none", ~irq
               PROVE  Len(got) = sent /\ chr # "parked"
    BY DEF QuietIsDelivered
  <2>1. rx_count = 0
    BY TtyAssumption DEF BytesNotStranded, TtyIInv, TtyTypeOK
  <2>2. chr # "parked"
    BY <2>1, TtyAssumption DEF TtyIInv, NoLostWakeup
  <2>3. Len(got) \in Nat /\ Len(got) + rx_count = sent
    BY DEF TtyIInv, TtyTypeOK, StreamInOrder
  <2> QED BY <2>1, <2>2, <2>3
<1> QED BY <1>1, MachineInvariant, BytesAreNotStranded, MachineTtyInvariant, PTL

----------------------------------------------------------------------------
(***************************************************************************)
(* The event queue on the board.  A reset loses the words that the guest   *)
(* had read, but the device's queue does not notice.                       *)
(***************************************************************************)

EventsListed ==
  /\ Events!Queue \in [1 .. qcount -> Nat]
  /\ Events!Queue \in Seq(Nat) /\ Len(Events!Queue) = qcount
  /\ Events!Queue = <<>> <=> qcount = 0
  /\ \A k \in 1 .. qcount : Events!Queue[k] = Word(k - 1)

LEMMA EventQueueListed == EventRing => EventsListed
<1> SUFFICES ASSUME EventRing PROVE EventsListed
  OBVIOUS
<1>1. qcount \in Nat /\ qhead \in Events!Slots /\ queue \in [Events!Slots -> Nat]
  BY MachineAssumption DEF EventRing
<1>2. \A k \in 1 .. qcount :
        /\ Place(qhead, k - 1) \in Events!Slots
        /\ (qhead + k - 1) % QueueWords = Place(qhead, k - 1)
  BY <1>1, MachineAssumption DEF Place, Events!Slots
<1>3. Events!Queue = [k \in 1 .. qcount |-> queue[Place(qhead, k - 1)]]
  BY <1>2 DEF Events!Queue
<1>4. Events!Queue \in [1 .. qcount -> Nat]
  BY <1>1, <1>2, <1>3
<1>5. Events!Queue \in Seq(Nat) /\ Len(Events!Queue) = qcount
  BY <1>1, <1>4
<1>6. Events!Queue = <<>> <=> qcount = 0
  BY <1>1, <1>5
<1> QED BY <1>3, <1>4, <1>5, <1>6 DEF EventsListed, Word

LEMMA TailOf ==
  ASSUME NEW n \in Nat \ {0}, NEW s \in [1 .. n -> Nat]
  PROVE  SubSeq(s, 2, n) = [k \in 1 .. n - 1 |-> s[k + 1]]
  OBVIOUS

LEMMA PushPuts ==
  ASSUME EventRing, NEW type \in Nat, NEW code \in Nat, NEW value \in Nat,
         Events!Push(type, code, value)
  PROVE  [Events!Fifo!Next]_(Events!Fifo!vars)
<1>1. /\ EventRing'
      /\ \/ UNCHANGED <<queue, qhead, qtail, qcount>>
         \/ /\ qcount' = qcount + 3
            /\ \A j \in 0 .. qcount - 1 : Word(j)' = Word(j)
  BY PushAppends
<1>2. EventsListed /\ EventsListed'
  <2>1. (EventRing => EventsListed)'
    BY EventQueueListed, PTL
  <2> QED BY <1>1, <2>1, EventQueueListed
<1>3. qcount \in Nat /\ qcount \in 0 .. QueueWords /\ qcount' \in 0 .. QueueWords
      /\ QueueWords \in Nat
  BY <1>1, MachineAssumption DEF EventRing
<1>4. CASE qcount + 3 > QueueWords
  BY <1>4 DEF Events!Push, Events!Fifo!vars, Events!Queue
<1>5. CASE ~(qcount + 3 > QueueWords)
  <2>1. ev_irq' = (qcount' # 0) /\ qcount' = qcount + 3
    BY <1>5 DEF Events!Push, Events!UpdateIrq
  <2>2. Events!Fifo!Follows
    BY <1>2, <2>1 DEF EventsListed, Events!Fifo!Follows
  <2>3. ASSUME NEW k \in 1 .. qcount PROVE Events!Queue'[k] = Events!Queue[k]
    <3>1. k - 1 \in 0 .. qcount - 1 /\ k \in 1 .. qcount'
      BY <1>3, <2>1
    <3>2. Word(k - 1)' = Word(k - 1)
      BY <1>1, <1>3, <2>1, <3>1
    <3> QED BY <1>2, <3>1, <3>2 DEF EventsListed
  <2>4. qcount' \in Len(Events!Queue) + 1 .. QueueWords
    BY <1>2, <1>3, <2>1 DEF EventsListed
  <2>5. Events!Fifo!Put
    BY <1>2, <2>2, <2>3, <2>4 DEF Events!Fifo!Put, EventsListed
  <2> QED BY <2>5 DEF Events!Fifo!Next
<1> QED BY <1>4, <1>5

LEMMA ReadTakesOne ==
  ASSUME EventRing, Events!ReadWord
  PROVE  [Events!Fifo!Next]_(Events!Fifo!vars)
<1>1. /\ EventRing'
      /\ qcount > 0 => \A j \in 0 .. qcount - 2 : Word(j)' = Word(j + 1)
  BY ReadTakes
<1>2. EventsListed /\ EventsListed'
  <2>1. (EventRing => EventsListed)'
    BY EventQueueListed, PTL
  <2> QED BY <1>1, <2>1, EventQueueListed
<1>3. qcount \in Nat
  BY MachineAssumption DEF EventRing
<1>4. CASE qcount = 0
  BY <1>4 DEF Events!ReadWord, Events!Pop, Events!Fifo!vars, Events!Queue
<1>5. CASE qcount # 0
  <2>1. ev_irq' = (qcount' # 0) /\ qcount' = qcount - 1
        /\ qcount > 0 /\ qcount \in Nat \ {0}
    BY <1>3, <1>5 DEF Events!ReadWord, Events!Pop, Events!UpdateIrq
  <2>2. Events!Fifo!Follows
    BY <1>2, <2>1 DEF EventsListed, Events!Fifo!Follows
  <2>3. ASSUME NEW k \in 1 .. qcount - 1
        PROVE  Events!Queue'[k] = Events!Queue[k + 1]
    <3>1. /\ k - 1 \in 0 .. qcount - 2 /\ (k - 1) + 1 = k /\ (k + 1) - 1 = k
          /\ k \in 1 .. qcount' /\ k + 1 \in 1 .. qcount
      BY <2>1
    <3>2. Word(k - 1)' = Word((k - 1) + 1)
      BY <1>1, <2>1, <3>1
    <3>3. Events!Queue'[k] = Word(k - 1)' /\ Events!Queue[k + 1] = Word((k + 1) - 1)
      BY <1>2, <3>1 DEF EventsListed
    <3> QED BY <3>1, <3>2, <3>3
  <2>4. /\ Events!Queue \in [1 .. qcount -> Nat] /\ Len(Events!Queue) = qcount
        /\ Events!Queue' \in [1 .. qcount - 1 -> Nat]
    BY <1>2, <2>1 DEF EventsListed
  <2>5. Events!Queue' = [k \in 1 .. qcount - 1 |-> Events!Queue[k + 1]]
    BY <2>3, <2>4
  <2>6. Events!Queue' = SubSeq(Events!Queue, 1 + 1, Len(Events!Queue))
    BY <2>1, <2>4, <2>5, TailOf
  <2>7. Events!Fifo!Take(1) /\ 1 \in 0 .. Len(Events!Queue)
    BY <2>1, <2>2, <2>4, <2>6 DEF Events!Fifo!Take
  <2> QED BY <2>7 DEF Events!Fifo!Next
<1> QED BY <1>4, <1>5

LEMMA MachineStepIsQueueStep ==
  FramingInv /\ [Next]_vars => [Events!Fifo!Next]_(Events!Fifo!vars)
<1> SUFFICES ASSUME FramingInv, [Next]_vars
             PROVE  [Events!Fifo!Next]_(Events!Fifo!vars)
  OBVIOUS
<1>1. EventRing
  BY DEF FramingInv
<1>2. ASSUME UNCHANGED events_device PROVE UNCHANGED Events!Fifo!vars
  BY <1>2 DEF events_device, Events!Fifo!vars, Events!Queue
<1>3. CASE HostInput
  <2>1. /\ Events!EV_SYN \in Nat /\ Events!EV_KEY \in Nat
        /\ Events!BoolWord(TRUE) \in Nat /\ 0 \in Nat
    BY DEF Events!EV_SYN, Events!EV_KEY, Events!BoolWord
  <2>2. CASE Events!InputKey("A", TRUE)
    <3>1. "A" \in DOMAIN Events!keymap /\ Events!keymap["A"] \in Nat
      BY DEF Events!keymap
    <3>2. Events!Push(Events!EV_KEY, Events!keymap["A"], Events!BoolWord(TRUE))
      BY <2>2, <3>1 DEF Events!InputKey
    <3> QED BY <1>1, <2>1, <3>1, <3>2, PushPuts
  <2>3. CASE Events!InputSync
    BY <1>1, <2>1, <2>3, PushPuts DEF Events!InputSync
  <2> QED BY <1>3, <2>2, <2>3 DEF HostInput
<1>4. CASE ServeEvents
  BY <1>1, <1>4, ReadTakesOne DEF ServeEvents
<1>5. CASE HostChardev \/ HostDelivers \/ Reset
  BY <1>2, <1>5 DEF HostChardev, HostDelivers, Reset, EventsUnchanged
<1>6. CASE BootPic \/ BootEventsLine \/ BootTtyQuiet \/ BootTtyLine \/ BootTtyOpen
  BY <1>2, <1>6 DEF BootPic, BootEventsLine, BootTtyQuiet, BootTtyLine,
     BootTtyOpen, EventsUnchanged
<1>7. CASE TakeInterrupt \/ Dispatch \/ ServeTtyCount \/ ServeTtyLen \/ ServeTtyRead
  BY <1>2, <1>7 DEF TakeInterrupt, Dispatch, ServeTtyCount, ServeTtyLen,
     ServeTtyRead, EventsUnchanged
<1>8. CASE UNCHANGED vars
  BY <1>2, <1>8 DEF vars
<1> QED BY <1>3, <1>4, <1>5, <1>6, <1>7, <1>8 DEF Next, Host, Guest

(* On the board the event queue, too, is a bounded first-in first-out      *)
(* queue with a level-triggered line, resets in mid-event included.        *)
THEOREM MachineEventsAreIrqFifo == Spec => Events!ImplementsIrqFifo
<1>1. Init => Events!Fifo!Init
  <2> SUFFICES ASSUME Init PROVE Events!Fifo!Init
    OBVIOUS
  <2>1. qcount = 0 /\ ev_irq = FALSE
    BY DEF Init, Events!Init
  <2>2. Events!Queue = <<>>
    BY <2>1, FramingInit, EventQueueListed DEF FramingInv, EventsListed
  <2> QED BY <2>1, <2>2 DEF Events!Fifo!Init
<1> QED BY <1>1, MachineStepIsQueueStep, FramingInvariant, PTL
        DEF Spec, Events!ImplementsIrqFifo, Events!Fifo!Spec

==============================================================================
