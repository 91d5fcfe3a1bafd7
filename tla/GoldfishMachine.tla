-------------------------- MODULE GoldfishMachine --------------------------
(***************************************************************************)
(* The interrupt path of the goldfish board, from the host to the guest's  *)
(* drivers: the tty and the event device drive their lines into the        *)
(* interrupt controller, the controller drives the CPU, and the guest's    *)
(* handler asks the controller which lines are pending and empties the     *)
(* devices (goldfish_init connects them).                                  *)
(*                                                                         *)
(* The controller is GoldfishPic and the tty is GoldfishTty, whose states  *)
(* this module extends; the event device is GoldfishEvents.  Between two   *)
(* accesses of the guest the host's callbacks may run; a single access or  *)
(* callback is atomic under QEMU's big lock.                               *)
(*                                                                         *)
(* The guest is external.  It boots (DISABLE_ALL, then each driver enables *)
(* its line; the tty's driver first silences the tty and enables it last), *)
(* serves one event or one burst of bytes per interrupt and line, and can  *)
(* be reset at any time.  A reset is one of the CPU only: none of the      *)
(* devices has a reset handler, so they keep their registers and queues.   *)
(***************************************************************************)
EXTENDS GoldfishPic, GoldfishTty

CONSTANTS
  QueueWords,                        \* of the event device: see GoldfishEvents
  MaxPosts,                          \* bound on the host's input events
  MaxResets                          \* bound on the guest's reboots

TtyIrq == 4                          \* the interrupt lines of goldfish_init
EventsIrq == 6

ASSUME MachineAssumption ==
  /\ {TtyIrq, EventsIrq} \subseteq Irqs
  /\ BufferSize <= MaxLen
  /\ QueueWords \in Nat \ {0}
  /\ MaxPosts \in Nat /\ MaxResets \in Nat

VARIABLES
  page, queue, qhead, qtail, qcount, ev_irq, decoder,       \* GoldfishEvents
  tasks,      \* what the guest's boot still has to do
  isr,        \* what its interrupt handler is doing; "none" outside of it
  todo,       \* the lines it read as pending and has not served yet
  posted,     \* the host's input events so far
  resets,     \* the resets so far
  torn,       \* history: a reset cut an event and the framing is still off
  fresh       \* history: an event was queued since the last DISABLE_ALL

Events == INSTANCE GoldfishEvents WITH
            irq <- ev_irq, Width <- 320, Height <- 480,
            Qcodes <- {"A"}, AbsValues <- {}

cpu == <<tasks, isr, todo>>
history == <<posted, resets, torn, fresh>>
events_device == <<page, queue, qhead, qtail, qcount, ev_irq>>
vars == <<pic, tty, events_device, decoder, cpu, history>>

BootTasks == {"pic", "events", "tty_quiet", "tty_line", "tty_open"}

Init ==
  /\ PicInit /\ TtyInit /\ Events!Init
  /\ tasks = BootTasks
  /\ isr = "none"
  /\ todo = {}
  /\ posted = 0 /\ resets = 0
  /\ torn = FALSE /\ fresh = FALSE

----------------------------------------------------------------------------
(* Which components a step leaves alone, and the wires between them: a     *)
(* handler that calls qemu_set_irq runs the controller's input handler.    *)

PicUnchanged == UNCHANGED pic
TtyUnchanged == UNCHANGED tty
EventsUnchanged == UNCHANGED <<events_device, decoder>>

TtyDrives == SetIrq(TtyIrq, tty_irq')
EventsDrive == SetIrq(EventsIrq, ev_irq')

----------------------------------------------------------------------------
(* The host. *)

HostChardev ==
  /\ ChrPoll \/ MainLoopWakes
  /\ UNCHANGED <<cpu, history>> /\ PicUnchanged /\ EventsUnchanged

HostDelivers ==
  /\ \E size \in 1 .. BufferSize : ChrDeliver(size)
  /\ IF aborted' THEN PicUnchanged ELSE TtyDrives
  /\ UNCHANGED <<cpu, history>> /\ EventsUnchanged

(* An event that does not fit leaves the line undriven. *)
HostInput ==
  /\ posted < MaxPosts
  /\ posted' = posted + 1
  /\ Events!InputKey("A", TRUE) \/ Events!InputSync
  /\ IF qcount' = qcount
     THEN PicUnchanged /\ UNCHANGED fresh
     ELSE EventsDrive /\ fresh' = TRUE
  /\ UNCHANGED <<cpu, resets, torn>> /\ TtyUnchanged

Host == HostChardev \/ HostDelivers \/ HostInput

----------------------------------------------------------------------------
(* The guest boots: one access per step, in any order its drivers allow.   *)

Boot(task, before) ==
  /\ isr = "none"
  /\ task \in tasks
  /\ before \cap tasks = {}
  /\ tasks' = tasks \ {task}
  /\ UNCHANGED <<isr, todo, posted, resets, torn>>

BootPic ==
  /\ Boot("pic", {})
  /\ DisableAll
  /\ fresh' = FALSE
  /\ TtyUnchanged /\ EventsUnchanged

BootEventsLine ==
  /\ Boot("events", {"pic"})
  /\ Enable({EventsIrq})
  /\ UNCHANGED fresh /\ TtyUnchanged /\ EventsUnchanged

BootTtyQuiet ==
  /\ Boot("tty_quiet", {"pic"})
  /\ CmdInt(FALSE)
  /\ TtyDrives
  /\ UNCHANGED fresh /\ EventsUnchanged

BootTtyLine ==
  /\ Boot("tty_line", {"pic", "tty_quiet"})
  /\ Enable({TtyIrq})
  /\ UNCHANGED fresh /\ TtyUnchanged /\ EventsUnchanged

BootTtyOpen ==
  /\ Boot("tty_open", {"pic", "tty_quiet", "tty_line"})
  /\ CmdInt(TRUE)
  /\ TtyDrives
  /\ UNCHANGED fresh /\ EventsUnchanged

----------------------------------------------------------------------------
(* The guest's interrupt handler. *)

TakeInterrupt ==
  /\ isr = "none" /\ "pic" \notin tasks
  /\ irq
  /\ todo' = PendingMask
  /\ isr' = "dispatch"
  /\ UNCHANGED <<tasks, history>>
  /\ PicUnchanged /\ TtyUnchanged /\ EventsUnchanged

Dispatch ==
  /\ isr = "dispatch"
  /\ \/ todo = {} /\ isr' = "none" /\ UNCHANGED todo
     \/ \E i \in todo :
          /\ todo' = todo \ {i}
          /\ isr' = IF i = TtyIrq THEN "tty_count" ELSE "events"
  /\ UNCHANGED <<tasks, history>>
  /\ PicUnchanged /\ TtyUnchanged /\ EventsUnchanged

(* Three words make an event, whatever they are. *)
ServeEvents ==
  /\ isr = "events"
  /\ Events!ReadWord
  /\ IF qcount = 0 THEN PicUnchanged ELSE EventsDrive
  /\ isr' = IF decoder' = <<>> THEN "dispatch" ELSE "events"
  /\ torn' = (torn /\ ~(decoder' = <<>> /\ qcount' = 0))
  /\ UNCHANGED <<tasks, todo, posted, resets, fresh>> /\ TtyUnchanged

ServeTtyCount ==
  /\ isr = "tty_count" /\ isr' = "tty_len"
  /\ BytesReady
  /\ UNCHANGED <<tasks, todo, history>> /\ PicUnchanged /\ EventsUnchanged

ServeTtyLen ==
  /\ isr = "tty_len" /\ isr' = "tty_read"
  /\ SetDataLen(announced)
  /\ UNCHANGED <<tasks, todo, history>> /\ PicUnchanged /\ EventsUnchanged

ServeTtyRead ==
  /\ isr = "tty_read" /\ isr' = "dispatch"
  /\ CmdReadBuffer
  /\ TtyDrives
  /\ UNCHANGED <<tasks, todo, history>> /\ EventsUnchanged

Guest ==
  \/ BootPic \/ BootEventsLine \/ BootTtyQuiet \/ BootTtyLine \/ BootTtyOpen
  \/ TakeInterrupt \/ Dispatch
  \/ ServeEvents \/ ServeTtyCount \/ ServeTtyLen \/ ServeTtyRead

(* The CPU is reset; what the guest had in memory and registers is gone.   *)
Reset ==
  /\ resets < MaxResets
  /\ resets' = resets + 1
  /\ tasks' = BootTasks
  /\ isr' = "none"
  /\ todo' = {}
  /\ decoder' = <<>>
  /\ GuestForgets
  /\ torn' = (torn \/ decoder # <<>>)
  /\ UNCHANGED <<pic, events_device, posted, fresh>>

Next == ~aborted /\ (Host \/ Guest \/ Reset)

(* The virtual CPU and the main loop each get the lock again and again.  A *)
(* main loop that is woken by something else still delivers what the host  *)
(* has ready when it waits, hence the strong fairness of delivery.         *)
Fairness ==
  /\ WF_vars(~aborted /\ Guest)
  /\ WF_vars(~aborted /\ ChrPoll /\ HostChardev)
  /\ SF_vars(~aborted /\ HostDelivers)

Spec == Init /\ [][Next]_vars
FairSpec == Spec /\ Fairness

----------------------------------------------------------------------------
(***************************************************************************)
(* Properties.                                                             *)
(***************************************************************************)

Up == tasks = {}

(* A snapshot of IRQ_PENDING stays true: a line that the handler read as   *)
(* pending is still asserted by its device when the handler comes to it,   *)
(* although the host's callbacks ran in between; so no handler is entered  *)
(* for an empty device.                                                    *)
SnapshotHonest ==
  /\ todo \subseteq lines
  /\ isr = "tty_count" => rx_count > 0
  /\ isr = "events" /\ decoder = <<>> => qcount > 0

(* Received bytes are never stranded in the tty: in a running guest that   *)
(* is not inside its handler, bytes in the buffer mean that the CPU is     *)
(* being interrupted -- also after a reboot, whose DISABLE_ALL erases the  *)
(* tty's line in the controller, because INT_ENABLE drives it again        *)
(* (android_goldfish_tty_command).                                         *)
BytesNotStranded ==
  Up /\ isr = "none" /\ rx_count > 0 => irq

(* The event device has no such access: events queued before the guest's   *)
(* DISABLE_ALL may wait without an interrupt.  Once one event has been     *)
(* accepted after it, none waits unannounced.                              *)
OnlyEarlyEventsStranded ==
  Up /\ isr = "none" /\ qcount > 0 /\ fresh => irq

(* The guest reads whole events: queued words and the words read so far    *)
(* are complete triples, unless a reset fell inside an event, and then     *)
(* only until the guest finishes reading with the queue empty (a read of   *)
(* the empty queue returns 0, which fills up the broken event).            *)
FramedUnlessTorn == torn \/ Events!WholeEvents

(* Every byte of the host reaches the guest's memory, whatever the         *)
(* reboots, the order of the accesses and the buffer's fill.               *)
StreamDelivered == connected ~> Len(got) = HostBytes

(* Events announced to the controller are read: the queue runs empty, or a *)
(* reboot's DISABLE_ALL erases the announcement first.                     *)
EventsServed ==
  qcount > 0 /\ EventsIrq \notin erased
    ~> qcount = 0 \/ EventsIrq \in erased

============================================================================
