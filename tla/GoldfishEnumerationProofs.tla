---------------------- MODULE GoldfishEnumerationProofs ----------------------
(***************************************************************************)
(* Proofs about the enumeration of the board's devices, for every capacity *)
(* of the bus's list and every set of addresses: the kernel learns the     *)
(* devices in the board's order and under their own names, and is only     *)
(* interrupted when there is one to be read.                               *)
(*                                                                         *)
(* The argument: after the kernel has started the enumeration, the bus's   *)
(* position is what the driver has found, plus one while it has read an    *)
(* OP_ADD_DEV and not yet the device's registers; and the controller's     *)
(* latch is up exactly while the position is before the end of the list.   *)
(* Before that the latch is down, because the controller's driver writes   *)
(* DISABLE_ALL first, also when a reset left the bus with its line up.     *)
(***************************************************************************)
EXTENDS GoldfishEnumeration, TLAPS

Names == {"goldfish_tty", "goldfish_timer", "goldfish_fb", "goldfish_events",
          "goldfish_battery", "smc91x"}
Devices == [name : Names, io_base : Int, irq : Int]
Known == [name : Names \cup {NoName}, io_base : Int, irq : Int]

Anonymous(dev) == [dev EXCEPT !.name = NoName]

(* The bus holds the beginning of the board's list. *)
ListIsBoards ==
  /\ calls \in 0 .. Len(BoardDevices)
  /\ devs \in Seq(Devices) /\ Len(devs) <= calls
  /\ Len(devs) = calls \/ Len(devs) >= MaxDevs
  /\ \A k \in 1 .. Len(devs) : devs[k] = BoardDevices[k]
  /\ pos \in 0 .. Len(devs)
  /\ DOMAIN memory = Bus!Addresses

(* What the kernel has booted, and what its driver does. *)
BootOrder ==
  /\ tasks \subseteq BootTasks
  /\ isr \in {"none", "op", "regs", "high", "name"}
  /\ ~Running => "pic" \in tasks
  /\ "pic" \in tasks => "init" \in tasks
  /\ "init" \in tasks => isr = "none" /\ found = <<>>

LatchMeansDevice ==
  "pic" \notin tasks =>
    /\ pic_irq = (pending \cap enabled # {})
    /\ pending = IF "init" \notin tasks /\ pos < Len(devs) THEN {PdevIrq} ELSE {}

DriverFollowsBus ==
  "init" \notin tasks =>
    /\ pos = IF isr = "regs" THEN Len(found) + 1 ELSE Len(found)
    /\ isr \in {"regs", "high", "name"} => pos > 0 /\ current = pos - 1
    /\ isr = "name" => name_addr_high = buffer[1]

FoundRight ==
  /\ found \in Seq(Known) /\ Len(found) <= Len(devs)
  /\ buffer \in Bus!Addresses
  /\ \A k \in 1 .. Len(found) : Anonymous(found[k]) = Anonymous(BoardDevices[k])
  /\ \A k \in 1 .. Named : found[k] = BoardDevices[k]

IInv ==
  ListIsBoards /\ BootOrder /\ LatchMeansDevice /\ DriverFollowsBus /\ FoundRight

----------------------------------------------------------------------------
(* The board's list. *)

LEMMA BoardList == BoardDevices \in Seq(Devices)
<1> DEFINE names == <<"goldfish_fb", "goldfish_events", "goldfish_battery">>
                    \o IF nic THEN <<"smc91x">> ELSE <<>>
           fixed == <<Fixed("goldfish_tty", 2, 4), Fixed("goldfish_timer", 3, 3)>>
<1>1. names \in Seq(Names)
  <2>1. <<"goldfish_fb", "goldfish_events", "goldfish_battery">> \in Seq(Names)
    BY DEF Names
  <2>2. (IF nic THEN <<"smc91x">> ELSE <<>>) \in Seq(Names)
    <3>1. <<"smc91x">> \in Seq(Names) /\ <<>> \in Seq(Names)
      BY DEF Names
    <3> QED BY <3>1
  <2> QED BY <2>1, <2>2
<1> HIDE DEF names
<1>2. Len(names) \in Nat /\ \A k \in 1 .. Len(names) : names[k] \in Names
  BY <1>1
<1>3. \A k \in 1 .. Len(names) :
        Fixed(names[k], DynBase + k - 1, DynIrqFirst + k - 1) \in Devices
  BY <1>2 DEF Fixed, Devices, DynBase, DynIrqFirst
<1>4. Dynamic(names) \in Seq(Devices)
  BY <1>2, <1>3 DEF Dynamic
<1>5. fixed \in Seq(Devices)
  <2>1. Fixed("goldfish_tty", 2, 4) \in Devices /\ Fixed("goldfish_timer", 3, 3) \in Devices
    BY DEF Fixed, Devices, Names
  <2> QED BY <2>1
<1> HIDE DEF fixed
<1>6. BoardDevices = fixed \o Dynamic(names)
  BY DEF BoardDevices, fixed, names
<1> QED BY <1>4, <1>5, <1>6

LEMMA BoardFacts ==
  /\ Len(BoardDevices) \in Nat
  /\ \A k \in 1 .. Len(BoardDevices) : BoardDevices[k] \in Devices
  BY BoardList

(* A driver that knows all of a device but its name, and then the name.    *)
LEMMA NameCompletes ==
  ASSUME NEW dev \in Devices, NEW known \in Known,
         Anonymous(known) = Anonymous(dev)
  PROVE  /\ [known EXCEPT !.name = dev.name] = dev
         /\ Anonymous(dev) \in Known
         /\ Anonymous(Anonymous(dev)) = Anonymous(dev)
<1>1. /\ known.io_base = dev.io_base /\ known.irq = dev.irq
      /\ dev.name \in Names /\ dev.io_base \in Int /\ dev.irq \in Int
  <2>1. /\ Anonymous(known).io_base = known.io_base
        /\ Anonymous(known).irq = known.irq
        /\ Anonymous(dev).io_base = dev.io_base
        /\ Anonymous(dev).irq = dev.irq
    BY DEF Anonymous, Devices, Known
  <2> QED BY <2>1 DEF Devices
<1>2. [known EXCEPT !.name = dev.name] \in Devices
  BY <1>1 DEF Devices, Known
<1>3. [known EXCEPT !.name = dev.name] = dev
  BY <1>1, <1>2 DEF Devices, Known
<1>4. Anonymous(dev) \in Known
  BY DEF Anonymous, Devices, Known
<1>5. Anonymous(Anonymous(dev)) = Anonymous(dev)
  BY DEF Anonymous, Devices
<1> QED BY <1>3, <1>4, <1>5

LEMMA BoardFixed ==
  ASSUME nic' = nic
  PROVE  BoardDevices' = BoardDevices
  BY DEF BoardDevices

(* The bus drives the controller's line with what it still has to say.     *)
LEMMA LatchFollowsBus ==
  ASSUME BusDrives, Bus!UpdateIrq, pending \subseteq {PdevIrq}
  PROVE  /\ pending' = IF pos' < Len(devs) THEN {PdevIrq} ELSE {}
         /\ pic_irq' = (pending' \cap enabled' # {})
<1>1. bus_irq' = (pos' < Len(devs))
  BY DEF Bus!UpdateIrq, Bus!count
<1>2. /\ pending' = IF bus_irq' THEN pending \cup {PdevIrq} ELSE pending \ {PdevIrq}
      /\ pic_irq' = (pending' \cap enabled' # {})
  BY DEF BusDrives, Pic!SetIrq, Pic!Update
<1>3. pending \cup {PdevIrq} = {PdevIrq} /\ pending \ {PdevIrq} = {}
  OBVIOUS
<1> QED BY <1>1, <1>2, <1>3

----------------------------------------------------------------------------
(* The steps. *)

LEMMA InitKeeps ==
  ASSUME Init
  PROVE  IInv
<1>1. /\ devs = <<>> /\ pos = 0 /\ memory = [a \in Bus!Addresses |-> NoName]
      /\ pending = {} /\ calls = 0 /\ isr = "none" /\ tasks = BootTasks
      /\ buffer = <<0, 0>> /\ found = <<>>
  BY DEF Init, Bus!Init, Pic!PicInit
<1>2. devs \in Seq(Devices) /\ Len(devs) = 0 /\ found \in Seq(Known) /\ Len(found) = 0
  BY <1>1
<1>3. ListIsBoards
  BY <1>1, <1>2, BoardFacts DEF ListIsBoards
<1>4. BootOrder /\ LatchMeansDevice /\ DriverFollowsBus
  BY <1>1 DEF BootOrder, LatchMeansDevice, DriverFollowsBus, BootTasks
<1>5. FoundRight
  BY <1>1, <1>2, EnumerationAssumption DEF FoundRight, Named, Bus!Addresses
<1> QED BY <1>3, <1>4, <1>5 DEF IInv

LEMMA RegisterKeeps ==
  ASSUME IInv, Register
  PROVE  IInv'
<1>1. /\ calls < Len(BoardDevices) /\ calls' = calls + 1
      /\ devs' = IF Len(devs) < MaxDevs THEN Append(devs, BoardDevices[calls']) ELSE devs
      /\ pos' = pos /\ memory' = memory /\ nic' = nic
      /\ UNCHANGED <<tasks, isr, buffer, found>> /\ "pic" \in tasks
      /\ ListIsBoards /\ BootOrder /\ FoundRight
  BY DEF Register, Bus!AddDevice, Bus!count, guest, IInv, BootOrder, Running
<1>2. BoardDevices' = BoardDevices
  BY <1>1, BoardFixed
<1>3. calls \in Nat /\ calls' \in 1 .. Len(BoardDevices) /\ Len(devs) \in Nat
  BY <1>1, BoardFacts DEF ListIsBoards
<1>4. BoardDevices[calls'] \in Devices
  BY <1>3, BoardFacts
<1>5. ListIsBoards'
  <2>1. CASE Len(devs) < MaxDevs
    <3>1. /\ devs' = Append(devs, BoardDevices[calls']) /\ Len(devs) + 1 = calls'
          /\ devs \in Seq(Devices)
      BY <1>1, <1>3, <2>1, EnumerationAssumption DEF ListIsBoards
    <3>2. /\ devs' \in Seq(Devices) /\ Len(devs') = calls'
          /\ \A k \in 1 .. Len(devs) : devs'[k] = devs[k]
          /\ devs'[calls'] = BoardDevices[calls']
      BY <1>4, <3>1
    <3>3. \A k \in 1 .. Len(devs') : devs'[k] = BoardDevices[k]
      BY <1>1, <1>3, <3>1, <3>2 DEF ListIsBoards
    <3>4. pos' \in 0 .. Len(devs')
      BY <1>1, <1>3, <3>1, <3>2 DEF ListIsBoards
    <3> QED BY <1>1, <1>2, <1>3, <3>2, <3>3, <3>4 DEF ListIsBoards, Bus!Addresses
  <2>2. CASE ~(Len(devs) < MaxDevs)
    <3>1. devs' = devs /\ Len(devs) >= MaxDevs
      BY <1>1, <1>3, <2>2, EnumerationAssumption
    <3> QED BY <1>1, <1>2, <1>3, <3>1 DEF ListIsBoards, Bus!Addresses
  <2> QED BY <2>1, <2>2
<1>6. BootOrder' /\ LatchMeansDevice' /\ DriverFollowsBus'
  BY <1>1 DEF BootOrder, LatchMeansDevice, DriverFollowsBus
<1>7. FoundRight'
  <2>1. found = <<>> /\ Len(found) = 0 /\ isr = "none"
    BY <1>1 DEF BootOrder
  <2>2. Len(devs') \in Nat
    BY <1>5 DEF ListIsBoards
  <2> QED BY <1>1, <2>1, <2>2 DEF FoundRight, Named, Bus!Addresses
<1> QED BY <1>5, <1>6, <1>7 DEF IInv

(* A step of the guest leaves the list alone.                              *)
LEMMA ListStays ==
  ASSUME ListIsBoards, UNCHANGED <<nic, calls, devs>>, pos' \in 0 .. Len(devs),
         DOMAIN memory' = Bus!Addresses
  PROVE  ListIsBoards' /\ BoardDevices' = BoardDevices
<1>1. BoardDevices' = BoardDevices
  BY BoardFixed
<1> QED BY <1>1 DEF ListIsBoards, Bus!Addresses

LEMMA BootKeeps ==
  ASSUME IInv, BootPic \/ BootLine \/ BootInit
  PROVE  IInv'
<1>1. /\ Running /\ isr = "none" /\ isr' = isr /\ buffer' = buffer /\ found' = found
      /\ UNCHANGED <<nic, calls, devs, memory>>
      /\ ListIsBoards /\ BootOrder /\ LatchMeansDevice /\ DriverFollowsBus /\ FoundRight
  BY DEF BootPic, BootLine, BootInit, Boot, board, bus, Bus!OpInit, IInv
<1>2. pos' = pos \/ pos' = 0
  BY DEF BootPic, BootLine, BootInit, bus, Bus!OpInit
<1>3. pos' \in 0 .. Len(devs)
  BY <1>1, <1>2 DEF ListIsBoards
<1>4. ListIsBoards' /\ BoardDevices' = BoardDevices
  BY <1>1, <1>3, ListStays DEF ListIsBoards
<1>5. Running'
  BY <1>1, <1>4 DEF Running
<1>6. FoundRight'
  BY <1>1, <1>4 DEF FoundRight, Named, Anonymous, Bus!Addresses
<1>7. CASE BootPic
  <2>1. /\ tasks' = tasks \ {"pic"} /\ "pic" \in tasks
        /\ pending' = {} /\ enabled' = {} /\ pic_irq' = (pending' \cap enabled' # {})
        /\ UNCHANGED <<pos, current, name_addr_high>>
    BY <1>7 DEF BootPic, Boot, Pic!DisableAll, Pic!Update, bus
  <2>2. BootOrder' /\ "init" \in tasks'
    BY <1>1, <1>5, <2>1 DEF BootOrder, BootTasks
  <2> QED BY <1>4, <1>6, <2>1, <2>2 DEF IInv, LatchMeansDevice, DriverFollowsBus
<1>8. CASE BootLine
  <2>1. /\ tasks' = tasks \ {"line"} /\ "pic" \notin tasks
        /\ pending' = pending /\ pic_irq' = (pending' \cap enabled' # {})
        /\ UNCHANGED <<pos, current, name_addr_high>>
    BY <1>8 DEF BootLine, Boot, Pic!Enable, Pic!Update, bus
  <2>2. BootOrder' /\ ("init" \in tasks' <=> "init" \in tasks)
    BY <1>1, <1>5, <2>1 DEF BootOrder, BootTasks
  <2>3. LatchMeansDevice' /\ DriverFollowsBus'
    BY <1>1, <2>1, <2>2 DEF LatchMeansDevice, DriverFollowsBus
  <2> QED BY <1>4, <1>6, <2>2, <2>3 DEF IInv
<1>9. CASE BootInit
  <2>1. /\ tasks' = tasks \ {"init"} /\ "pic" \notin tasks /\ "init" \in tasks
        /\ pos' = 0 /\ BusDrives /\ Bus!UpdateIrq
    BY <1>9 DEF BootInit, Boot, Bus!OpInit
  <2>2. found = <<>> /\ Len(found) = 0 /\ pending \subseteq {PdevIrq}
    BY <1>1, <2>1 DEF BootOrder, LatchMeansDevice
  <2>3. /\ pending' = IF pos' < Len(devs) THEN {PdevIrq} ELSE {}
        /\ pic_irq' = (pending' \cap enabled' # {})
    BY <2>1, <2>2, LatchFollowsBus
  <2>4. BootOrder' /\ "init" \notin tasks'
    BY <1>1, <1>5, <2>1 DEF BootOrder, BootTasks
  <2>5. LatchMeansDevice'
    BY <1>1, <2>3, <2>4 DEF LatchMeansDevice
  <2>6. DriverFollowsBus'
    BY <1>1, <2>1, <2>2 DEF DriverFollowsBus
  <2> QED BY <1>4, <1>6, <2>4, <2>5, <2>6 DEF IInv
<1> QED BY <1>7, <1>8, <1>9

LEMMA TakeInterruptKeeps ==
  ASSUME IInv, TakeInterrupt
  PROVE  IInv'
<1>1. /\ isr = "none" /\ isr' = "op" /\ "pic" \notin tasks /\ pic_irq
      /\ UNCHANGED <<pending, enabled, pic_irq, devs, pos, current, name_addr_high,
                     memory, nic, calls, tasks, buffer, found>>
      /\ ListIsBoards /\ BootOrder /\ LatchMeansDevice /\ DriverFollowsBus /\ FoundRight
  BY DEF TakeInterrupt, pic, bus, board, IInv
<1>2. ListIsBoards' /\ BoardDevices' = BoardDevices
  BY <1>1, ListStays DEF ListIsBoards
<1>3. "init" \notin tasks
  BY <1>1 DEF LatchMeansDevice
<1>4. BootOrder'
  BY <1>1, <1>2, <1>3 DEF BootOrder, Running
<1>5. LatchMeansDevice' /\ DriverFollowsBus'
  BY <1>1 DEF LatchMeansDevice, DriverFollowsBus
<1>6. FoundRight'
  BY <1>1, <1>2 DEF FoundRight, Named, Anonymous, Bus!Addresses
<1> QED BY <1>2, <1>4, <1>5, <1>6 DEF IInv

(* While the handler runs, the enumeration has been started.               *)
LEMMA ServeOpKeeps ==
  ASSUME IInv, ServeOp
  PROVE  IInv'
<1>1. /\ isr = "op" /\ isr' = IF pos < Len(devs) THEN "regs" ELSE "none"
      /\ IF pos < Len(devs) THEN current' = pos /\ pos' = pos + 1
         ELSE current' = -1 /\ pos' = pos
      /\ BusDrives /\ Bus!UpdateIrq /\ enabled' = enabled
      /\ UNCHANGED <<devs, memory, nic, calls, tasks, buffer, found>>
      /\ ListIsBoards /\ BootOrder /\ LatchMeansDevice /\ DriverFollowsBus /\ FoundRight
  BY DEF ServeOp, Bus!ReadOp, Bus!MoreDevices, Bus!count, BusDrives, Pic!SetIrq,
         board, IInv
<1>2. /\ "init" \notin tasks /\ "pic" \notin tasks
      /\ pos \in 0 .. Len(devs) /\ Len(devs) \in Nat /\ pos = Len(found)
  BY <1>1 DEF BootOrder, ListIsBoards, DriverFollowsBus
<1>3. pos' \in 0 .. Len(devs) /\ pos' \in Int
  BY <1>1, <1>2
<1>4. ListIsBoards' /\ BoardDevices' = BoardDevices
  BY <1>1, <1>3, ListStays DEF ListIsBoards
<1>5. BootOrder'
  BY <1>1, <1>2, <1>4 DEF BootOrder, Running
<1>6. LatchMeansDevice'
  <2>1. pending \subseteq {PdevIrq}
    BY <1>1, <1>2 DEF LatchMeansDevice
  <2> QED BY <1>1, <1>2, <2>1, LatchFollowsBus DEF LatchMeansDevice
<1>7. DriverFollowsBus'
  BY <1>1, <1>2, <1>3 DEF DriverFollowsBus
<1>8. FoundRight'
  BY <1>1, <1>4 DEF FoundRight, Named, Anonymous, Bus!Addresses
<1> QED BY <1>4, <1>5, <1>6, <1>7, <1>8 DEF IInv

LEMMA ServeRegsKeeps ==
  ASSUME IInv, ServeRegs
  PROVE  IInv'
<1>1. /\ isr = "regs" /\ isr' = "high" /\ buffer' \in Bus!Addresses
      /\ found' = Append(found, Anonymous(devs[current + 1]))
      /\ UNCHANGED <<pending, enabled, pic_irq, devs, pos, current, name_addr_high,
                     memory, nic, calls, tasks>>
      /\ ListIsBoards /\ BootOrder /\ LatchMeansDevice /\ DriverFollowsBus /\ FoundRight
  BY DEF ServeRegs, Bus!SelectedDev, Anonymous, pic, bus, board, IInv
<1>2. /\ "init" \notin tasks
      /\ pos \in 1 .. Len(devs) /\ current = pos - 1 /\ pos = Len(found) + 1
      /\ Len(devs) \in Nat /\ Len(found) \in Nat
  BY <1>1 DEF BootOrder, ListIsBoards, DriverFollowsBus, FoundRight
<1>3. ListIsBoards' /\ BoardDevices' = BoardDevices
  BY <1>1, ListStays DEF ListIsBoards
<1>4. BootOrder' /\ LatchMeansDevice'
  BY <1>1, <1>2, <1>3 DEF BootOrder, LatchMeansDevice, Running
<1> DEFINE dev == BoardDevices[pos]
<1>5. dev \in Devices /\ devs[current + 1] = dev
  <2>1. current + 1 = pos
    BY <1>2
  <2>2. pos \in 1 .. Len(BoardDevices)
    BY <1>1, <1>2, BoardFacts DEF ListIsBoards
  <2> QED BY <1>1, <1>2, <2>1, <2>2, BoardFacts DEF ListIsBoards
<1> HIDE DEF dev
<1>6. Anonymous(dev) \in Known /\ Anonymous(Anonymous(dev)) = Anonymous(dev)
  BY <1>5 DEF Anonymous, Devices, Known
<1>7. /\ found' \in Seq(Known) /\ Len(found') = pos
      /\ \A k \in 1 .. Len(found) : found'[k] = found[k]
      /\ found'[pos] = Anonymous(dev)
  <2>1. found' = Append(found, Anonymous(dev)) /\ found \in Seq(Known)
    BY <1>1, <1>5 DEF FoundRight
  <2> QED BY <1>2, <1>6, <2>1
<1>8. DriverFollowsBus'
  BY <1>1, <1>2, <1>7 DEF DriverFollowsBus
<1>9. \A k \in 1 .. Len(found') : Anonymous(found'[k]) = Anonymous(BoardDevices[k])
  <2>1. \A k \in 1 .. Len(found) : Anonymous(found'[k]) = Anonymous(BoardDevices[k])
    BY <1>1, <1>7 DEF FoundRight
  <2>2. Anonymous(found'[pos]) = Anonymous(BoardDevices[pos])
    BY <1>6, <1>7 DEF dev
  <2>3. \A k \in 1 .. Len(found') : k \in 1 .. Len(found) \/ k = pos
    BY <1>2, <1>7
  <2> QED BY <2>1, <2>2, <2>3
<1>10. \A k \in 1 .. Named' : found'[k] = BoardDevices[k]
  <2>1. Named' = Len(found) /\ Named = Len(found)
    BY <1>1, <1>2, <1>7 DEF Named
  <2> QED BY <1>1, <1>7, <2>1 DEF FoundRight
<1>11. FoundRight'
  <2>1. Len(found') <= Len(devs')
    BY <1>1, <1>2, <1>7
  <2>2. buffer' \in Bus!Addresses'
    BY <1>1 DEF Bus!Addresses
  <2>3. \A k \in 1 .. Len(found') : Anonymous(found'[k]) = Anonymous(BoardDevices'[k])
    BY <1>3, <1>9
  <2>4. \A k \in 1 .. Named' : found'[k] = BoardDevices'[k]
    BY <1>3, <1>10
  <2> QED BY <1>7, <2>1, <2>2, <2>3, <2>4 DEF FoundRight, Anonymous
<1> QED BY <1>3, <1>4, <1>8, <1>11 DEF IInv

LEMMA ServeNameHighKeeps ==
  ASSUME IInv, ServeNameHigh
  PROVE  IInv'
<1>1. /\ isr = "high" /\ isr' = "name" /\ name_addr_high' = buffer[1]
      /\ UNCHANGED <<pending, enabled, pic_irq, devs, pos, current,
                     memory, nic, calls, tasks, buffer, found>>
      /\ ListIsBoards /\ BootOrder /\ LatchMeansDevice /\ DriverFollowsBus /\ FoundRight
  BY DEF ServeNameHigh, Bus!SetNameHigh, pic, board, IInv
<1>2. "init" \notin tasks
  BY <1>1 DEF BootOrder
<1>3. ListIsBoards' /\ BoardDevices' = BoardDevices
  BY <1>1, ListStays DEF ListIsBoards
<1>4. BootOrder' /\ LatchMeansDevice' /\ DriverFollowsBus'
  BY <1>1, <1>2, <1>3 DEF BootOrder, LatchMeansDevice, DriverFollowsBus, Running
<1>5. FoundRight'
  BY <1>1, <1>3 DEF FoundRight, Named, Anonymous, Bus!Addresses
<1> QED BY <1>3, <1>4, <1>5 DEF IInv

LEMMA ServeNameKeeps ==
  ASSUME IInv, ServeName
  PROVE  IInv'
<1>1. /\ isr = "name" /\ isr' = "op"
      /\ found' = [found EXCEPT ![Len(found)].name = memory'[buffer]]
      /\ Bus!GetName(buffer[2])
      /\ UNCHANGED <<pending, enabled, pic_irq, nic, calls, tasks, buffer>>
      /\ ListIsBoards /\ BootOrder /\ LatchMeansDevice /\ DriverFollowsBus /\ FoundRight
  BY DEF ServeName, pic, board, IInv
<1>2. /\ "init" \notin tasks
      /\ pos \in 1 .. Len(devs) /\ current = pos - 1 /\ pos = Len(found)
      /\ Len(devs) \in Nat /\ name_addr_high = buffer[1]
  BY <1>1 DEF BootOrder, ListIsBoards, DriverFollowsBus
<1>3. Bus!Selected
  BY <1>2 DEF Bus!Selected, Bus!count
<1>4. /\ UNCHANGED <<devs, pos, current, name_addr_high>>
      /\ memory' = [memory EXCEPT ![<<name_addr_high, buffer[2]>>] = devs[current + 1].name]
  BY <1>1, <1>3 DEF Bus!GetName, Bus!SelectedDev
<1>5. buffer = <<name_addr_high, buffer[2]>> /\ buffer \in Bus!Addresses
  BY <1>1, <1>2 DEF FoundRight, Bus!Addresses
<1>6. memory'[buffer] = devs[current + 1].name /\ DOMAIN memory' = Bus!Addresses
  BY <1>1, <1>4, <1>5 DEF ListIsBoards
<1>7. ListIsBoards' /\ BoardDevices' = BoardDevices
  BY <1>1, <1>4, <1>6, ListStays DEF ListIsBoards
<1> DEFINE dev == BoardDevices[pos]
<1>8. dev \in Devices /\ memory'[buffer] = dev.name
  <2>1. current + 1 = pos
    BY <1>2
  <2>2. pos \in 1 .. Len(BoardDevices)
    BY <1>1, <1>2, BoardFacts DEF ListIsBoards
  <2> QED BY <1>1, <1>2, <1>6, <2>1, <2>2, BoardFacts DEF ListIsBoards
<1>9. /\ found[pos] \in Known /\ Anonymous(found[pos]) = Anonymous(dev)
      /\ found \in Seq(Known) /\ pos \in 1 .. Len(found)
  BY <1>1, <1>2 DEF FoundRight
<1> HIDE DEF dev
<1>10. [found[pos] EXCEPT !.name = dev.name] = dev
  BY <1>8, <1>9, NameCompletes
<1>11. found' = [found EXCEPT ![pos] = dev]
  BY <1>1, <1>2, <1>8, <1>10
<1>12. dev \in Known
  BY <1>8 DEF Devices, Known
<1>13. /\ found' \in Seq(Known) /\ Len(found') = Len(found) /\ found'[pos] = dev
       /\ \A k \in 1 .. Len(found) : k # pos => found'[k] = found[k]
  BY <1>9, <1>11, <1>12
<1>14. \A k \in 1 .. Len(found') : found'[k] = BoardDevices[k]
  <2>1. \A k \in 1 .. Len(found) : k # pos => k \in 1 .. Named
    BY <1>1, <1>2 DEF Named
  <2>2. \A k \in 1 .. Len(found) : k # pos => found'[k] = BoardDevices[k]
    BY <1>1, <1>13, <2>1 DEF FoundRight
  <2>3. found'[pos] = BoardDevices[pos]
    BY <1>13 DEF dev
  <2> QED BY <1>13, <2>2, <2>3
<1>15. BootOrder' /\ LatchMeansDevice' /\ DriverFollowsBus'
  BY <1>1, <1>2, <1>4, <1>7, <1>13 DEF BootOrder, LatchMeansDevice, DriverFollowsBus,
     Running
<1>16. FoundRight'
  <2>1. Len(found') <= Len(devs') /\ Named' = Len(found')
    BY <1>1, <1>2, <1>4, <1>13 DEF Named
  <2>2. buffer' \in Bus!Addresses'
    BY <1>1, <1>5 DEF Bus!Addresses
  <2>3. \A k \in 1 .. Len(found') : found'[k] = BoardDevices'[k]
    BY <1>7, <1>14
  <2> QED BY <1>13, <2>1, <2>2, <2>3 DEF FoundRight, Anonymous
<1> QED BY <1>7, <1>15, <1>16 DEF IInv

(* The devices keep their state over a reset of the CPU.                   *)
LEMMA ResetKeeps ==
  ASSUME IInv, Reset
  PROVE  IInv'
<1>1. /\ tasks' = BootTasks /\ isr' = "none" /\ found' = <<>> /\ buffer' = <<0, 0>>
      /\ memory' = [a \in Bus!Addresses |-> NoName]
      /\ UNCHANGED <<devs, pos, nic, calls>> /\ ListIsBoards
  BY DEF Reset, board, IInv
<1>2. ListIsBoards' /\ BoardDevices' = BoardDevices
  BY <1>1, ListStays DEF ListIsBoards
<1>3. BootOrder' /\ LatchMeansDevice' /\ DriverFollowsBus'
  BY <1>1 DEF BootOrder, LatchMeansDevice, DriverFollowsBus, BootTasks
<1>4. FoundRight'
  <2>1. found' \in Seq(Known) /\ Len(found') = 0 /\ Named' = 0
    BY <1>1 DEF Named
  <2>2. Len(devs') \in Nat
    BY <1>2 DEF ListIsBoards
  <2>3. buffer' \in Bus!Addresses'
    BY <1>1, EnumerationAssumption DEF Bus!Addresses
  <2> QED BY <2>1, <2>2, <2>3 DEF FoundRight
<1> QED BY <1>2, <1>3, <1>4 DEF IInv

LEMMA StutterKeeps ==
  ASSUME IInv, UNCHANGED vars
  PROVE  IInv'
<1>1. /\ UNCHANGED <<pending, enabled, pic_irq, devs, pos, current, name_addr_high,
                     memory, nic, calls, tasks, isr, buffer, found>>
      /\ ListIsBoards /\ BootOrder /\ LatchMeansDevice /\ DriverFollowsBus /\ FoundRight
  BY DEF vars, pic, bus, board, guest, IInv
<1>2. ListIsBoards' /\ BoardDevices' = BoardDevices
  BY <1>1, ListStays DEF ListIsBoards
<1>3. BootOrder' /\ LatchMeansDevice' /\ DriverFollowsBus'
  BY <1>1, <1>2 DEF BootOrder, LatchMeansDevice, DriverFollowsBus, Running
<1>4. FoundRight'
  BY <1>1, <1>2 DEF FoundRight, Named, Anonymous, Bus!Addresses
<1> QED BY <1>2, <1>3, <1>4 DEF IInv

(* The position of the bus is what the driver has found, and the latch     *)
(* says whether there is more, in every state.                             *)
THEOREM EnumerationInvariant == Spec => []IInv
<1>1. Init => IInv
  BY InitKeeps
<1>2. IInv /\ [Next]_vars => IInv'
  BY RegisterKeeps, BootKeeps, TakeInterruptKeeps, ServeOpKeeps, ServeRegsKeeps,
     ServeNameHighKeeps, ServeNameKeeps, ResetKeeps, StutterKeeps DEF Next, Guest
<1> QED BY <1>1, <1>2, PTL DEF Spec

(* What the kernel has found is the beginning of the board's list, each    *)
(* device under its own name.                                              *)
THEOREM DevicesAreFoundInOrder == Spec => []FoundInOrder
<1>1. IInv => FoundInOrder
  <2> SUFFICES ASSUME IInv
               PROVE  \A k \in 1 .. Len(found) :
                        /\ k <= Named => found[k] = BoardDevices[k]
                        /\ Anonymous(found[k]) = Anonymous(BoardDevices[k])
    BY DEF FoundInOrder, Anonymous
  <2>1. Len(found) \in Nat
    BY DEF IInv, FoundRight
  <2>2. Named \in Int
    BY <2>1 DEF Named
  <2> QED BY <2>1, <2>2 DEF IInv, FoundRight
<1> QED BY <1>1, EnumerationInvariant, PTL

(* An interrupt of the bus has a device behind it, also after a reset in   *)
(* the middle of the list.                                                 *)
THEOREM InterruptsMeanDevices == Spec => []InterruptMeansDevice
<1>1. IInv => InterruptMeansDevice
  BY DEF IInv, LatchMeansDevice, InterruptMeansDevice, Bus!count
<1> QED BY <1>1, EnumerationInvariant, PTL

----------------------------------------------------------------------------
(* The controller under the board: every step is one of its own.           *)

LEMMA StepIsPicStep == [Next]_vars => [Pic!PicNext]_pic
<1> SUFFICES ASSUME [Next]_vars
             PROVE  Pic!PicNext \/ UNCHANGED pic
  OBVIOUS
<1>1. ASSUME BusDrives PROVE Pic!PicNext
  <2>1. CASE bus_irq'
    <3>1. Pic!SetIrq(PdevIrq, TRUE)
      BY <1>1, <2>1 DEF BusDrives, Pic!SetIrq, Pic!Update
    <3> QED BY <3>1 DEF Pic!PicNext
  <2>2. CASE ~bus_irq'
    <3>1. Pic!SetIrq(PdevIrq, FALSE)
      BY <1>1, <2>2 DEF BusDrives, Pic!SetIrq, Pic!Update
    <3> QED BY <3>1 DEF Pic!PicNext
  <2> QED BY <2>1, <2>2
<1>2. CASE BootPic
  BY <1>2 DEF BootPic, Pic!PicNext
<1>3. CASE BootLine
  BY <1>3 DEF BootLine, Pic!PicNext
<1>4. CASE BootInit \/ ServeOp
  BY <1>1, <1>4 DEF BootInit, ServeOp
<1>5. CASE TakeInterrupt \/ ServeRegs \/ ServeNameHigh \/ ServeName
  BY <1>5 DEF TakeInterrupt, ServeRegs, ServeNameHigh, ServeName
<1>6. CASE Register \/ Reset \/ UNCHANGED vars
  BY <1>6 DEF Register, Reset, vars
<1> QED BY <1>2, <1>3, <1>4, <1>5, <1>6 DEF Next, Guest

(* The board with its bus and a kernel implements the controller's         *)
(* specification, with the bus's line as its only one.                     *)
THEOREM EnumerationRunsPic == Spec => Pic!PicSpec
<1>1. Init => Pic!PicInit
  BY DEF Init
<1>2. [Next]_vars => [Pic!PicNext]_(Pic!pic)
  BY StepIsPicStep DEF pic, Pic!pic
<1> QED BY <1>1, <1>2, PTL DEF Spec, Pic!PicSpec

----------------------------------------------------------------------------
(* Quiescence: what a kernel has found when nothing interrupts it.         *)

(* A kernel whose bus driver has its line has it enabled, since no later   *)
(* task of the boot writes DISABLE_ALL.                                    *)
LineIsEnabled ==
  /\ "pic" \in tasks => "line" \in tasks
  /\ "line" \notin tasks => PdevIrq \in enabled

LEMMA LineStaysEnabled == Spec => []LineIsEnabled
<1>1. Init => LineIsEnabled
  BY DEF Init, LineIsEnabled, BootTasks
<1>2. LineIsEnabled /\ [Next]_vars => LineIsEnabled'
  <2> SUFFICES ASSUME LineIsEnabled, [Next]_vars
               PROVE  LineIsEnabled'
    OBVIOUS
  <2>1. CASE BootPic
    BY <2>1 DEF BootPic, Boot, LineIsEnabled
  <2>2. CASE BootLine
    BY <2>2 DEF BootLine, Boot, Pic!Enable, LineIsEnabled
  <2>3. CASE BootInit
    BY <2>3 DEF BootInit, Boot, BusDrives, Pic!SetIrq, LineIsEnabled
  <2>4. CASE ServeOp
    BY <2>4 DEF ServeOp, BusDrives, Pic!SetIrq, LineIsEnabled
  <2>5. CASE TakeInterrupt \/ ServeRegs \/ ServeNameHigh \/ ServeName
    BY <2>5 DEF TakeInterrupt, ServeRegs, ServeNameHigh, ServeName, pic, LineIsEnabled
  <2>6. CASE Register \/ UNCHANGED vars
    BY <2>6 DEF Register, guest, vars, pic, LineIsEnabled
  <2>7. CASE Reset
    BY <2>7 DEF Reset, BootTasks, LineIsEnabled
  <2> QED BY <2>1, <2>2, <2>3, <2>4, <2>5, <2>6, <2>7 DEF Next, Guest
<1> QED BY <1>1, <1>2, PTL DEF Spec

LEMMA SeqIsFunction ==
  ASSUME NEW S, NEW s \in Seq(S)
  PROVE  DOMAIN s = 1 .. Len(s) /\ s = [k \in DOMAIN s |-> s[k]]
  OBVIOUS

LEMMA SameSeq ==
  ASSUME NEW S, NEW T, NEW s \in Seq(S), NEW t \in Seq(T), Len(s) = Len(t),
         \A k \in 1 .. Len(t) : s[k] = t[k]
  PROVE  s = t
  BY SeqIsFunction

(* A kernel that has booted, is outside of its handler and is not          *)
(* interrupted has found all that the bus has: the whole board, unless     *)
(* the board has more devices than the bus's list can hold.                *)
QuietIsComplete ==
  tasks = {} /\ isr = "none" /\ ~pic_irq =>
    /\ found = devs
    /\ found = BoardDevices \/ Len(found) >= MaxDevs

(* The enumeration stops only at the end of the list: whatever resets came *)
(* before it, none of the board's devices is left without an interrupt     *)
(* that would make the kernel ask for it.                                  *)
THEOREM QuietKernelsAreComplete == Spec => []QuietIsComplete
<1>1. IInv /\ LineIsEnabled => QuietIsComplete
  <2> SUFFICES ASSUME IInv, LineIsEnabled, tasks = {}, isr = "none", ~pic_irq
               PROVE  /\ found = devs
                      /\ found = BoardDevices \/ Len(found) >= MaxDevs
    BY DEF QuietIsComplete
  <2>1. pending = {} /\ ~(pos < Len(devs))
    BY DEF IInv, LatchMeansDevice, LineIsEnabled
  <2>2. /\ devs \in Seq(Devices) /\ found \in Seq(Known)
        /\ pos = Len(found) /\ pos = Len(devs) /\ Named = Len(found)
    BY <2>1 DEF IInv, ListIsBoards, FoundRight, DriverFollowsBus, Named
  <2>3. \A k \in 1 .. Len(devs) : found[k] = devs[k]
    BY <2>2 DEF IInv, ListIsBoards, FoundRight
  <2>4. found = devs
    BY <2>2, <2>3, SameSeq
  <2>5. Running
    BY DEF IInv, BootOrder
  <2>6. CASE Len(devs) = calls
    <3>1. /\ BoardDevices \in Seq(Devices) /\ Len(devs) = Len(BoardDevices)
          /\ \A k \in 1 .. Len(devs) : devs[k] = BoardDevices[k]
      BY <2>5, <2>6, BoardList DEF Running, IInv, ListIsBoards
    <3>2. devs = BoardDevices
      BY <2>2, <3>1
    <3> QED BY <2>4, <3>2
  <2>7. CASE Len(devs) >= MaxDevs
    BY <2>4, <2>7
  <2> QED BY <2>4, <2>6, <2>7 DEF IInv, ListIsBoards
<1> QED BY <1>1, EnumerationInvariant, LineStaysEnabled, PTL

==============================================================================
