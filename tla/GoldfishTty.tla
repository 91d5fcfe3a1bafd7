---------------------------- MODULE GoldfishTty ----------------------------
(***************************************************************************)
(* The receive side of the goldfish serial terminal,                       *)
(* hw_char_android_goldfish_tty.c: a ring buffer between the host's        *)
(* chardev and the guest, with the interrupt that announces it.            *)
(*                                                                         *)
(* Every handler runs to the end under QEMU's big lock and is one action.  *)
(* The chardev is external: its main loop asks can_receive how much room   *)
(* there is, drops the lock while it waits for the host, and delivers up   *)
(* to that many bytes later; when there is no room it stops watching the   *)
(* host until accept_input or some other event makes it ask again.         *)
(*                                                                         *)
(* The bytes of the host are numbered 1, 2, ... in the order they come, so *)
(* that a lost, repeated or reordered byte shows.  The chunks of 128 bytes *)
(* in which READ_BUFFER copies are not visible to anyone under the lock.   *)
(***************************************************************************)
EXTENDS Integers, Sequences

CONSTANTS
  BufferSize, \* ANDROID_GOLDFISH_TTY_BUFFER_SIZE, 128 in the code
  HostBytes,  \* the number of bytes the host ever sends
  MaxLen      \* the largest DATA_LEN a guest writes

ASSUME TtyAssumption ==
  /\ BufferSize \in Nat \ {0}
  /\ HostBytes \in Nat
  /\ MaxLen \in Nat

VARIABLES
  data_len,   \* s->data_len
  int_enabled,\* s->int_enabled
  rx_buffer,  \* s->rx_buffer
  rx_read,    \* s->rx_read
  rx_write,   \* s->rx_write
  rx_count,   \* s->rx_count
  tty_irq,    \* the level of s->irq
  connected,  \* gf_chr_connected(s), fixed when the device is realized
  chr,        \* the chardev's main loop: "idle", "watching" or "parked"
  credit,     \* the answer of can_receive it still holds
  sent,       \* the bytes the host has handed over
  aborted,    \* receive's g_assert failed: the process is gone
  got,        \* the bytes READ_BUFFER has stored in guest memory
  announced   \* what the guest knows to be ready from its last BYTES_READY

rx == <<rx_buffer, rx_read, rx_write, rx_count>>
host == <<chr, credit, sent, aborted>>
guest == <<got, announced>>
tty == <<data_len, int_enabled, rx, tty_irq, connected, host, guest>>

Slots == 0 .. BufferSize - 1

TtyTypeOK ==
  /\ data_len \in 0 .. MaxLen
  /\ int_enabled \in BOOLEAN
  /\ rx_buffer \in [Slots -> 0 .. HostBytes]
  /\ rx_read \in Slots
  /\ rx_write \in Slots
  /\ rx_count \in 0 .. BufferSize
  /\ tty_irq \in BOOLEAN
  /\ connected \in BOOLEAN
  /\ chr \in {"idle", "watching", "parked"}
  /\ credit \in 0 .. BufferSize
  /\ sent \in 0 .. HostBytes
  /\ aborted \in BOOLEAN
  /\ got \in Seq(Nat)
  /\ announced \in Nat

(* android_goldfish_tty_realize: without a chardev no handlers are set *)
TtyInit ==
  /\ data_len = 0
  /\ int_enabled = FALSE
  /\ rx_buffer = [i \in Slots |-> 0]
  /\ rx_read = 0
  /\ rx_write = 0
  /\ rx_count = 0
  /\ tty_irq = FALSE
  /\ connected \in BOOLEAN
  /\ chr = "idle"
  /\ credit = 0
  /\ sent = 0
  /\ aborted = FALSE
  /\ got = <<>>
  /\ announced = 0

----------------------------------------------------------------------------
(* A definition named Wrong... is a plausible slip in the code it precedes,  *)
(* kept to show which property notices it; no specification uses it.        *)

WrongRxFree == BufferSize                   \* the bytes in it do not count

rx_free == BufferSize - rx_count

WrongUpdateIrq == tty_irq' = (rx_count' # 0)    \* ignores int_enabled

UpdateIrq == tty_irq' = (int_enabled' /\ rx_count' # 0)

(* The byte k places behind the oldest one. *)
RxAt(k) == rx_buffer[(rx_read + k) % BufferSize]

Least(a, b) == IF a <= b THEN a ELSE b

----------------------------------------------------------------------------
(* The guest's accesses: android_goldfish_tty_read and _write. *)

WrongCmdIntSilent(enable) ==                \* does not drive the line
  /\ int_enabled' = enable
  /\ UNCHANGED <<data_len, rx, tty_irq, connected, host, guest>>

CmdInt(enable) ==
  /\ int_enabled' = enable
  /\ UNCHANGED <<data_len, rx, connected, host, guest>>
  /\ UpdateIrq

SetDataLen(len) ==
  /\ data_len' = len
  /\ UNCHANGED <<int_enabled, rx, tty_irq, connected, host, guest>>

WrongBytesReady ==                          \* the write index, not the count
  /\ announced' = rx_write
  /\ UNCHANGED <<data_len, int_enabled, rx, tty_irq, connected, host, got>>

BytesReady ==
  /\ announced' = rx_count
  /\ UNCHANGED <<data_len, int_enabled, rx, tty_irq, connected, host, got>>

WrongAcceptInput == UNCHANGED chr           \* the call is missing

(* qemu_chr_fe_accept_input: a parked main loop is woken to ask again. *)
AcceptInput ==
  chr' = IF connected /\ chr = "parked" THEN "idle" ELSE chr

CmdReadBuffer ==
  LET n == Least(data_len, rx_count)
  IN  /\ got' = got \o [k \in 1 .. n |-> RxAt(k - 1)]
      /\ rx_read' = (rx_read + n) % BufferSize
      /\ rx_count' = rx_count - n
      /\ announced' = announced - Least(n, announced)
      /\ UNCHANGED <<data_len, int_enabled, rx_buffer, rx_write, connected,
                     credit, sent, aborted>>
      /\ UpdateIrq
      /\ AcceptInput

(* The guest is reset; the device has no reset handler and keeps its state. *)
GuestForgets ==
  /\ announced' = 0
  /\ UNCHANGED <<data_len, int_enabled, rx, tty_irq, connected, host, got>>

TtyGuest ==
  \/ \E enable \in BOOLEAN : CmdInt(enable)
  \/ \E len \in 0 .. MaxLen : SetDataLen(len)
  \/ BytesReady
  \/ CmdReadBuffer
  \/ GuestForgets

----------------------------------------------------------------------------
(* The chardev. *)

WrongChrPoll ==                             \* can_receive says "the buffer"
  /\ connected
  /\ chr = "idle"
  /\ credit' = BufferSize
  /\ chr' = "watching"
  /\ UNCHANGED <<data_len, int_enabled, rx, tty_irq, connected, sent, aborted,
                 guest>>

(* The main loop asks android_goldfish_tty_can_receive how much fits. *)
ChrPoll ==
  /\ connected
  /\ chr = "idle"
  /\ credit' = rx_free
  /\ chr' = IF rx_free > 0 THEN "watching" ELSE "parked"
  /\ UNCHANGED <<data_len, int_enabled, rx, tty_irq, connected, sent, aborted,
                 guest>>

(* android_goldfish_tty_receive(buffer, size) *)
Receive(size) ==
  IF size > rx_free
  THEN /\ aborted' = TRUE
       /\ UNCHANGED <<rx, tty_irq, sent>>
  ELSE /\ rx_buffer' = [i \in Slots |->
             LET k == (i - rx_write) % BufferSize
             IN  IF k < size THEN sent + k + 1 ELSE rx_buffer[i]]
       /\ rx_write' = (rx_write + size) % BufferSize
       /\ rx_count' = rx_count + size
       /\ sent' = sent + size
       /\ UNCHANGED <<rx_read, aborted>>
       /\ UpdateIrq

(* The host has bytes: at most as many as can_receive allowed when it was  *)
(* last asked.                                                             *)
ChrDeliver(size) ==
  /\ chr = "watching"
  /\ size <= credit
  /\ sent + size <= HostBytes
  /\ chr' = "idle"
  /\ UNCHANGED <<data_len, int_enabled, connected, credit, guest>>
  /\ Receive(size)

(* Something else wakes the main loop. *)
MainLoopWakes ==
  /\ chr # "idle"
  /\ chr' = "idle"
  /\ UNCHANGED <<data_len, int_enabled, rx, tty_irq, connected, credit, sent,
                 aborted, guest>>

Chardev ==
  \/ ChrPoll
  \/ \E size \in 1 .. BufferSize : ChrDeliver(size)
  \/ MainLoopWakes

TtyNext == ~aborted /\ (TtyGuest \/ Chardev)

TtySpec == TtyInit /\ [][TtyNext]_tty

----------------------------------------------------------------------------
(***************************************************************************)
(* Properties.                                                             *)
(***************************************************************************)

(* receive's g_assert(size <= rx_free) never fails, although the room that *)
(* can_receive reported is used only after the lock was dropped and the    *)
(* guest may have run in between.                                          *)
NoReceiveOverrun == ~aborted

(* The guest's memory receives the host's stream: no byte is lost,         *)
(* repeated or reordered, however the reads of the guest and the bursts of *)
(* the host cut it and wherever the ring wraps (read_buffer, receive).     *)
StreamInOrder ==
  /\ \A k \in 1 .. Len(got) : got[k] = k
  /\ Len(got) + rx_count = sent

(* BYTES_READY is a promise: once the guest has read it, that many bytes   *)
(* stay readable until the guest itself takes them, so a driver may read   *)
(* the count first and issue READ_BUFFER later.                            *)
BytesReadyIsLowerBound == announced <= rx_count

(* No lost wake-up: when the chardev has stopped watching the host, the    *)
(* buffer is full, hence a read by the guest is still to come and will     *)
(* wake it (the accept_input at the end of read_buffer).                   *)
NoLostWakeup == chr = "parked" => rx_count = BufferSize

(* The receive buffer is a bounded first-in first-out queue with a         *)
(* level-triggered line: IrqFifo with the bytes between rx_read and        *)
(* rx_write as the queue and INT_ENABLE as the enable.                     *)
Queue == [k \in 1 .. rx_count |-> RxAt(k - 1)]

Fifo == INSTANCE IrqFifo WITH
          Capacity <- BufferSize, Items <- 1 .. HostBytes,
          q <- Queue, on <- int_enabled, wire <- tty_irq

ImplementsIrqFifo == Fifo!Spec

(* The inductive invariant. *)
RingIsConsistent == rx_write = (rx_read + rx_count) % BufferSize

RingHoldsStream ==
  \A k \in 0 .. rx_count - 1 : RxAt(k) = Len(got) + k + 1

CreditIsCovered == chr = "watching" => credit <= rx_free

OnlyConnectedParks == chr # "idle" => connected

TtyIInv ==
  /\ TtyTypeOK
  /\ RingIsConsistent
  /\ RingHoldsStream
  /\ StreamInOrder
  /\ CreditIsCovered
  /\ OnlyConnectedParks
  /\ NoReceiveOverrun
  /\ BytesReadyIsLowerBound
  /\ NoLostWakeup

============================================================================
