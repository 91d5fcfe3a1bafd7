--------------------------- MODULE GoldfishPdevBus ---------------------------
(***************************************************************************)
(* The goldfish platform device bus, hw_arm_android_goldfish_pdev_bus.c:   *)
(* the list of the board's devices, which the guest's kernel enumerates by *)
(* reading REG_OP until it gets OP_DONE, and the copy of each device's     *)
(* name to an address that the guest writes in two halves.                 *)
(*                                                                         *)
(* A name is one value; its characters and its length are left out.        *)
(***************************************************************************)
EXTENDS Integers, Sequences

CONSTANTS
  MaxDevs,    \* ANDROID_GOLDFISH_PDEV_BUS_MAX_DEVS, 32 in the code
  Halves,     \* the values of half an address
  NoName      \* what a buffer holds before a name is copied to it

VARIABLES
  devs,           \* s->devs up to s->count, each [name, io_base, irq]
  pos,            \* s->pos, the next device to be enumerated
  current,        \* s->current, the selected device, or -1
  name_addr_high, \* s->name_addr_high
  name_addr_low,  \* s->name_addr_low
  irq,            \* the level of s->irq
  memory          \* the guest's memory at each address <<high, low>>

name_addr == <<name_addr_high, name_addr_low>>
vars == <<devs, pos, current, name_addr, irq, memory>>

count == Len(devs)
Addresses == Halves \X Halves

(* android_goldfish_pdev_bus_realize *)
Init ==
  /\ devs = <<>>
  /\ pos = 0 /\ current = -1
  /\ name_addr_high = 0 /\ name_addr_low = 0
  /\ irq = FALSE
  /\ memory = [a \in Addresses |-> NoName]

----------------------------------------------------------------------------
(* android_goldfish_pdev_bus_add_device: a full list ignores the device *)
AddDevice(dev) ==
  /\ devs' = IF count < MaxDevs THEN Append(devs, dev) ELSE devs
  /\ UNCHANGED <<pos, current, name_addr, irq, memory>>

(* android_goldfish_pdev_bus_update_irq *)
UpdateIrq == irq' = (pos' < count)

(* The guest's reads: android_goldfish_pdev_bus_read. *)

Selected == 0 <= current /\ current < count

(* What IO_BASE, IRQ, ... read: the selected device's fields. *)
SelectedDev == devs[current + 1]

WrongReadOpNoUpdate ==                      \* the last device keeps the line up
  /\ IF pos < count
     THEN current' = pos /\ pos' = pos + 1
     ELSE current' = -1 /\ UNCHANGED pos
  /\ UNCHANGED <<devs, name_addr, irq, memory>>

MoreDevices == pos < count                  \* OP_ADD_DEV, otherwise OP_DONE

ReadOp ==
  /\ IF MoreDevices
     THEN current' = pos /\ pos' = pos + 1
     ELSE current' = -1 /\ UNCHANGED pos
  /\ UNCHANGED <<devs, name_addr, memory>>
  /\ UpdateIrq

(* The guest's writes: android_goldfish_pdev_bus_write. *)

WrongOpInitNoUpdate ==                      \* returns without an update
  /\ pos' = 0
  /\ current' = -1
  /\ UNCHANGED <<devs, name_addr, irq, memory>>

OpInit ==
  /\ pos' = 0
  /\ current' = -1
  /\ UNCHANGED <<devs, name_addr, memory>>
  /\ UpdateIrq

SetNameHigh(high) ==
  /\ name_addr_high' = high
  /\ UNCHANGED <<devs, pos, current, name_addr_low, irq, memory>>

GetName(low) ==
  /\ IF Selected
     THEN /\ name_addr_low' = low
          /\ memory' = [memory EXCEPT ![<<name_addr_high, low>>] = SelectedDev.name]
     ELSE UNCHANGED <<name_addr_low, memory>>
  /\ UNCHANGED <<devs, pos, current, name_addr_high, irq>>

Next ==
  \/ ReadOp \/ OpInit
  \/ \E half \in Halves : SetNameHigh(half) \/ GetName(half)

Spec == Init /\ [][Next]_vars

==============================================================================
