--------------------------- MODULE GoldfishTtyDma ---------------------------
(***************************************************************************)
(* How the serial terminal moves a buffer, hw_char_android_goldfish_tty.c: *)
(* WRITE_BUFFER and READ_BUFFER copy by way of an array on the stack, at   *)
(* most BufferSize bytes at a time, and advance a pointer of their own.    *)
(* One turn of a loop is one action; the handler holds QEMU's big lock,    *)
(* so neither the guest nor the chardev acts between two turns.            *)
(*                                                                         *)
(* The receive ring is the queue that it implements (GoldfishTty), which   *)
(* also has the interrupt line and accept_input; the bytes are told apart  *)
(* by their values only.                                                   *)
(***************************************************************************)
EXTENDS Integers, Sequences

CONSTANTS
  Half,       \* the number of values of half an address, 2^32 in the code
  Bytes,      \* the values of a byte
  BufferSize, \* ANDROID_GOLDFISH_TTY_BUFFER_SIZE: the array and the ring
  MaxLen,     \* the largest DATA_LEN a guest writes
  MaxOut      \* bound of the model: the bytes the host ever receives

ASSUME DmaAssumption ==
  /\ Half \in Nat \ {0} /\ BufferSize \in Nat \ {0}
  /\ BufferSize <= Half * Half
  /\ MaxLen \in Nat /\ MaxOut \in Nat

VARIABLES
  data_ptr,   \* s->data_ptr
  data_len,   \* s->data_len
  memory,     \* the guest's memory
  queue,      \* the receive ring's bytes, oldest first
  out,        \* what the chardev has been given
  connected,  \* gf_chr_connected(s)
  pc,         \* "idle", or the loop that runs: "write" or "read"
  ptr, remaining        \* its local variables

registers == <<data_ptr, data_len>>
loop == <<pc, ptr, remaining>>
vars == <<registers, memory, queue, out, connected, loop>>

Space == Half * Half                    \* addresses are of 64 bits
Addresses == 0 .. Space - 1

(* The ring's limit is part of it: a READ_BUFFER never finds more.         *)
TypeOK ==
  /\ data_ptr \in Addresses /\ data_len \in 0 .. MaxLen
  /\ memory \in [Addresses -> Bytes]
  /\ queue \in Seq(Bytes) /\ Len(queue) <= BufferSize
  /\ out \in Seq(Bytes)
  /\ connected \in BOOLEAN
  /\ pc \in {"idle", "write", "read"}
  /\ ptr \in Addresses /\ remaining \in 0 .. MaxLen

Init ==
  /\ data_ptr = 0 /\ data_len = 0
  /\ memory \in [Addresses -> Bytes]
  /\ queue = <<>> /\ out = <<>>
  /\ connected \in BOOLEAN
  /\ pc = "idle" /\ ptr = 0 /\ remaining = 0

----------------------------------------------------------------------------
(* android_goldfish_tty_write: the registers.  A write of one half of the  *)
(* pointer keeps the other.                                                *)

Idle == pc = "idle" /\ UNCHANGED <<connected, loop>>

SetDataPtr(low) ==
  /\ Idle
  /\ data_ptr' = data_ptr - (data_ptr % Half) + low
  /\ UNCHANGED <<data_len, memory, queue, out>>

SetDataPtrHigh(high) ==
  /\ Idle
  /\ data_ptr' = (data_ptr % Half) + high * Half
  /\ UNCHANGED <<data_len, memory, queue, out>>

SetDataLen(len) ==
  /\ Idle
  /\ data_len' = len
  /\ UNCHANGED <<data_ptr, memory, queue, out>>

(* gf_chr_write_all, if there is a chardev. *)
Write(bytes) == out' = IF connected THEN out \o bytes ELSE out

PutChar(c) ==
  /\ Idle
  /\ Len(out) < MaxOut
  /\ Write(<<c>>)
  /\ UNCHANGED <<registers, memory, queue>>

Command(loop_name) ==
  /\ pc = "idle" /\ pc' = loop_name
  /\ ptr' = data_ptr /\ remaining' = data_len
  /\ UNCHANGED <<registers, memory, queue, out, connected>>

CmdWriteBuffer == Len(out) + data_len <= MaxOut /\ Command("write")
CmdReadBuffer == Command("read")

----------------------------------------------------------------------------
(* The loops. *)

Chunk == IF remaining <= BufferSize THEN remaining ELSE BufferSize

WrongAdvance(count) ==                      \* ptr += length is missing
  /\ remaining' = remaining - count
  /\ UNCHANGED <<ptr, pc>>

Advance(count) ==
  /\ ptr' = (ptr + count) % Space
  /\ remaining' = remaining - count
  /\ UNCHANGED pc

Return ==
  /\ pc' = "idle" /\ ptr' = 0 /\ remaining' = 0
  /\ UNCHANGED <<memory, queue, out>>

GuestRead(p, n) == [k \in 1 .. n |-> memory[(p + k - 1) % Space]]

GuestWrite(p, bytes) ==
  memory' = [a \in Addresses |->
    LET k == ((a - p) % Space) + 1
    IN  IF k <= Len(bytes) THEN bytes[k] ELSE memory[a]]

WriteTurn ==
  /\ pc = "write"
  /\ IF remaining = 0
     THEN Return
     ELSE /\ Write(GuestRead(ptr, Chunk))
          /\ Advance(Chunk)
          /\ UNCHANGED <<memory, queue>>
  /\ UNCHANGED <<registers, connected>>

WrongReadDone == remaining = 0              \* does not look at the ring

ReadDone == remaining = 0 \/ queue = <<>>

(* The inner loop takes bytes from the ring until the chunk is full or the *)
(* ring is empty.                                                          *)
ReadTurn ==
  /\ pc = "read"
  /\ IF ReadDone
     THEN Return
     ELSE LET count == IF Chunk <= Len(queue) THEN Chunk ELSE Len(queue) IN
          /\ GuestWrite(ptr, SubSeq(queue, 1, count))
          /\ queue' = SubSeq(queue, count + 1, Len(queue))
          /\ Advance(count)
          /\ UNCHANGED out
  /\ UNCHANGED <<registers, connected>>

----------------------------------------------------------------------------
(* The host and the guest's own stores, between two accesses. *)

Receive(byte) ==
  /\ Idle
  /\ connected /\ Len(queue) < BufferSize
  /\ queue' = Append(queue, byte)
  /\ UNCHANGED <<registers, memory, out>>

GuestStores(a, byte) ==
  /\ Idle
  /\ memory' = [memory EXCEPT ![a] = byte]
  /\ UNCHANGED <<registers, queue, out>>

Registers ==
  \/ \E half \in 0 .. Half - 1 : SetDataPtr(half) \/ SetDataPtrHigh(half)
  \/ \E len \in 0 .. MaxLen : SetDataLen(len)

Turn == WriteTurn \/ ReadTurn

Next ==
  \/ Registers
  \/ \E c \in Bytes : PutChar(c) \/ Receive(c)
  \/ \E a \in Addresses, c \in Bytes : GuestStores(a, c)
  \/ CmdWriteBuffer \/ CmdReadBuffer
  \/ Turn

Spec == Init /\ [][Next]_vars

(* A handler runs to its end. *)
FairSpec == Spec /\ WF_vars(Turn)

----------------------------------------------------------------------------
(***************************************************************************)
(* Properties.                                                             *)
(***************************************************************************)

(* The loops move exactly the buffer that the driver named, once and in    *)
(* order, whatever its length is to the array's size, whether the ring has *)
(* less, and where the pointer wraps: TtyTransfer, whose one-step command  *)
(* takes effect when the loop begins.  The bytes that the loop has still   *)
(* to move are moved already for it.                                       *)
ToWrite ==
  IF pc = "write" /\ connected THEN GuestRead(ptr, remaining) ELSE <<>>

ToRead ==
  IF pc # "read" THEN 0
  ELSE IF remaining <= Len(queue) THEN remaining ELSE Len(queue)

MovedOut == out \o ToWrite
MovedQueue == SubSeq(queue, ToRead + 1, Len(queue))
MovedMemory ==
  [a \in Addresses |->
     LET hits == {k \in 1 .. ToRead : (ptr + k - 1) % Space = a}
     IN  IF hits = {} THEN memory[a]
         ELSE queue[CHOOSE k \in hits : \A j \in hits : j <= k]]

Transfer == INSTANCE TtyTransfer WITH
  Capacity <- BufferSize,
  high <- data_ptr \div Half, low <- data_ptr % Half, len <- data_len,
  memory <- MovedMemory, queue <- MovedQueue, out <- MovedOut

ImplementsTransfer == Transfer!Spec

(* A command ends: also READ_BUFFER for more bytes than the host has sent, *)
(* so that the guest's store to the register returns and the lock is free. *)
CommandsEnd == pc # "idle" ~> pc = "idle"

=============================================================================
