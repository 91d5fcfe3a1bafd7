------------------------- MODULE GoldfishEnumeration -------------------------
(***************************************************************************)
(* How the guest's kernel learns which devices the board has: the board    *)
(* registers them (hw_arm_android_goldfish.c, goldfish_init), the device   *)
(* bus interrupts through the interrupt controller, and the kernel's       *)
(* driver of the bus runs the protocol that the head of                    *)
(* hw_arm_android_goldfish_pdev_bus.c describes.                           *)
(*                                                                         *)
(* The devices are GoldfishPic and GoldfishPdevBus.  The guest is external *)
(* and may be reset at any point; the devices are not reset with it, so a  *)
(* new kernel finds the bus in the middle of the old one's enumeration.    *)
(***************************************************************************)
EXTENDS Integers, Sequences, FiniteSets

CONSTANTS MaxDevs, Halves, NoName       \* see GoldfishPdevBus

ASSUME EnumerationAssumption == MaxDevs \in Nat /\ 0 \in Halves

VARIABLES
  lines, pending, enabled, pic_irq, erased,                     \* GoldfishPic
  devs, pos, current, name_addr_high, name_addr_low, bus_irq, memory,
                                                                \* GoldfishPdevBus
  nic,        \* a network card was asked for: nd_table[0].used
  calls,      \* the calls of add_device so far
  tasks,      \* what the guest's boot still has to do
  isr,        \* what the bus driver's interrupt handler is doing, or "none"
  buffer,     \* the address of its buffer for a name
  found       \* the devices it has enumerated, as it knows them

PdevIrq == 1                            \* GOLDFISH_IRQ_PDEV_BUS

Pic == INSTANCE GoldfishPic WITH irq <- pic_irq, Irqs <- {PdevIrq}
Bus == INSTANCE GoldfishPdevBus WITH irq <- bus_irq

pic == <<lines, pending, enabled, pic_irq, erased>>
bus == <<devs, pos, current, name_addr_high, name_addr_low, bus_irq, memory>>
board == <<nic, calls>>
guest == <<tasks, isr, buffer, found>>
vars == <<pic, bus, board, guest>>

----------------------------------------------------------------------------
(* The devices of goldfish_init, in the order of its calls.  Devices of    *)
(* the dynamic area get the next base and the next line.                   *)

Fixed(name, io_base, line) == [name |-> name, io_base |-> io_base, irq |-> line]

DynBase == 16                           \* GOLDFISH_DYN_BASE, in steps of
DynIrqFirst == 5                        \*   GOLDFISH_DEV_SIZE; GOLDFISH_IRQ_DYN_FIRST

Dynamic(names) ==
  [k \in 1 .. Len(names) |->
     Fixed(names[k], DynBase + k - 1, DynIrqFirst + k - 1)]

BoardDevices ==
  <<Fixed("goldfish_tty", 2, 4), Fixed("goldfish_timer", 3, 3)>>
  \o Dynamic(<<"goldfish_fb", "goldfish_events", "goldfish_battery">>
             \o IF nic THEN <<"smc91x">> ELSE <<>>)

BootTasks == {"pic", "line", "init"}

Init ==
  /\ Pic!PicInit /\ Bus!Init
  /\ nic \in BOOLEAN
  /\ calls = 0
  /\ tasks = BootTasks
  /\ isr = "none"
  /\ buffer = <<0, 0>>
  /\ found = <<>>

(* The board registers its devices before the guest runs. *)
Register ==
  /\ calls < Len(BoardDevices)
  /\ calls' = calls + 1
  /\ Bus!AddDevice(BoardDevices[calls'])
  /\ UNCHANGED <<pic, nic, guest>>

Running == calls = Len(BoardDevices)

BusDrives == Pic!SetIrq(PdevIrq, bus_irq')

----------------------------------------------------------------------------
(* The guest boots: the controller first, then the bus's driver requests   *)
(* its line and starts the enumeration, in either order.                   *)

Boot(task, before) ==
  /\ Running
  /\ isr = "none"
  /\ task \in tasks
  /\ before \cap tasks = {}
  /\ tasks' = tasks \ {task}
  /\ UNCHANGED <<isr, buffer, found, board>>

BootPic == Boot("pic", {}) /\ Pic!DisableAll /\ UNCHANGED bus
BootLine == Boot("line", {"pic"}) /\ Pic!Enable({PdevIrq}) /\ UNCHANGED bus
BootInit == Boot("init", {"pic"}) /\ Bus!OpInit /\ BusDrives

(* The driver's interrupt handler: one access per step, the reads of the   *)
(* selected device's registers together.                                   *)

TakeInterrupt ==
  /\ isr = "none" /\ "pic" \notin tasks /\ pic_irq
  /\ isr' = "op"
  /\ UNCHANGED <<pic, bus, board, tasks, buffer, found>>

ServeOp ==
  /\ isr = "op"
  /\ isr' = IF Bus!MoreDevices THEN "regs" ELSE "none"
  /\ Bus!ReadOp
  /\ BusDrives
  /\ UNCHANGED <<board, tasks, buffer, found>>

ServeRegs ==
  /\ isr = "regs" /\ isr' = "high"
  /\ found' = Append(found, [Bus!SelectedDev EXCEPT !.name = NoName])
  /\ buffer' \in Bus!Addresses
  /\ UNCHANGED <<pic, bus, board, tasks>>

ServeNameHigh ==
  /\ isr = "high" /\ isr' = "name"
  /\ Bus!SetNameHigh(buffer[1])
  /\ UNCHANGED <<pic, board, tasks, buffer, found>>

ServeName ==
  /\ isr = "name" /\ isr' = "op"
  /\ Bus!GetName(buffer[2])
  /\ found' = [found EXCEPT ![Len(found)].name = memory'[buffer]]
  /\ UNCHANGED <<pic, board, tasks, buffer>>

Guest ==
  \/ BootPic \/ BootLine \/ BootInit
  \/ TakeInterrupt \/ ServeOp \/ ServeRegs \/ ServeNameHigh \/ ServeName

(* A reset of the CPU; the old kernel's memory is cleared for the new one. *)
Reset ==
  /\ Running
  /\ tasks' = BootTasks
  /\ isr' = "none"
  /\ found' = <<>>
  /\ buffer' = <<0, 0>>
  /\ memory' = [a \in Bus!Addresses |-> NoName]
  /\ UNCHANGED <<pic, devs, pos, current, name_addr_high, name_addr_low,
                 bus_irq, board>>

Next == Register \/ Guest \/ Reset

Spec == Init /\ [][Next]_vars

(* goldfish_init runs to its end, and then the CPU runs. *)
FairSpec == Spec /\ WF_vars(Register) /\ WF_vars(Guest)

----------------------------------------------------------------------------
(***************************************************************************)
(* Properties.                                                             *)
(***************************************************************************)

(* Each device once, in order, and with its own name: what the driver has  *)
(* enumerated is always the beginning of the board's list -- names copied  *)
(* by GET_NAME and registers read around them belong to the same device,   *)
(* and a kernel that boots into the middle of an old enumeration neither   *)
(* misses the first devices nor registers one twice.                       *)
Named == IF isr \in {"high", "name"} THEN Len(found) - 1 ELSE Len(found)

FoundInOrder ==
  \A k \in 1 .. Len(found) :
    /\ k <= Named => found[k] = BoardDevices[k]
    /\ [found[k] EXCEPT !.name = NoName] = [BoardDevices[k] EXCEPT !.name = NoName]

(* The interrupt always has a device behind it: a handler that is entered  *)
(* reads OP_ADD_DEV first, also when it is entered a second time or after  *)
(* a reset in the middle of a list.                                        *)
InterruptMeansDevice ==
  isr = "none" /\ "pic" \notin tasks /\ pic_irq => pos < Bus!count /\ "init" \notin tasks

(* A kernel that has booted knows every device the board registered,       *)
(* unless it is reset first.                                               *)
DevicesFound ==
  Running /\ tasks = {} ~> found = BoardDevices \/ tasks # {}

==============================================================================
