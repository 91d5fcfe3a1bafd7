----------------------------- MODULE TtyTransfer -----------------------------
(***************************************************************************)
(* What the serial terminal's data registers promise a driver: a command   *)
(* moves its whole buffer at once between the guest's memory and the host, *)
(* in the order of the addresses, which wrap at the end of the space.      *)
(***************************************************************************)
EXTENDS Integers, Sequences

CONSTANTS
  Half,       \* the number of values of half an address, 2^32 in the code
  Bytes,      \* the values of a byte
  Capacity,   \* the bytes that the receive buffer holds
  MaxLen      \* the largest DATA_LEN a guest writes

VARIABLES
  high, low,  \* the halves of DATA_PTR
  len,        \* DATA_LEN
  memory,     \* the guest's memory
  queue,      \* what the host has sent, oldest first
  out,        \* what the host has received
  connected   \* there is a host

vars == <<high, low, len, memory, queue, out, connected>>

Space == Half * Half
Addresses == 0 .. Space - 1
Pointer == high * Half + low

(* The n bytes from address p on, and memory with bytes stored there. *)
Load(mem, p, n) == [k \in 1 .. n |-> mem[(p + k - 1) % Space]]

Store(mem, p, bytes) ==
  [a \in Addresses |->
     LET hits == {k \in 1 .. Len(bytes) : (p + k - 1) % Space = a}
     IN  IF hits = {} THEN mem[a]
         ELSE bytes[CHOOSE k \in hits : \A j \in hits : j <= k]]

Shorter(n, bytes) == IF n <= Len(bytes) THEN n ELSE Len(bytes)

Sent(bytes) == IF connected THEN out \o bytes ELSE out

Init ==
  /\ high = 0 /\ low = 0 /\ len = 0
  /\ memory \in [Addresses -> Bytes]
  /\ queue = <<>> /\ out = <<>>
  /\ connected \in BOOLEAN

SetPointer(h, l) ==
  /\ high' = h /\ low' = l
  /\ UNCHANGED <<len, memory, queue, out, connected>>

SetLen(n) == len' = n /\ UNCHANGED <<high, low, memory, queue, out, connected>>

PutChar(b) ==
  /\ out' = Sent(<<b>>)
  /\ UNCHANGED <<high, low, len, memory, queue, connected>>

WriteBuffer ==
  /\ out' = Sent(Load(memory, Pointer, len))
  /\ UNCHANGED <<high, low, len, memory, queue, connected>>

ReadBuffer ==
  LET n == Shorter(len, queue) IN
    /\ memory' = Store(memory, Pointer, SubSeq(queue, 1, n))
    /\ queue' = SubSeq(queue, n + 1, Len(queue))
    /\ UNCHANGED <<high, low, len, out, connected>>

HostSends(b) ==
  /\ connected /\ Len(queue) < Capacity
  /\ queue' = Append(queue, b)
  /\ UNCHANGED <<high, low, len, memory, out, connected>>

GuestStores(a, b) ==
  /\ memory' = [memory EXCEPT ![a] = b]
  /\ UNCHANGED <<high, low, len, queue, out, connected>>

Next ==
  \/ \E h, l \in 0 .. Half - 1 : (h = high \/ l = low) /\ SetPointer(h, l)
  \/ \E n \in 0 .. MaxLen : SetLen(n)
  \/ \E b \in Bytes : PutChar(b) \/ HostSends(b)
  \/ \E a \in Addresses, b \in Bytes : GuestStores(a, b)
  \/ WriteBuffer \/ ReadBuffer

Spec == Init /\ [][Next]_vars

=============================================================================
