------------------------------ MODULE IrqFifo ------------------------------
(***************************************************************************)
(* What the goldfish input devices promise the guest: a bounded first-in   *)
(* first-out queue with a level-triggered interrupt line that is up        *)
(* exactly while the queue has something to read and the guest wants to    *)
(* hear of it.  The tty's receive buffer and the event queue implement it  *)
(* (GoldfishTty, GoldfishEvents).                                          *)
(***************************************************************************)
EXTENDS Naturals, Sequences

CONSTANTS
  Capacity,   \* the most items the queue holds
  Items       \* what it holds

VARIABLES
  q,          \* the items, oldest first
  on,         \* the guest has enabled the interrupt
  wire        \* the interrupt line

vars == <<q, on, wire>>

Follows == wire' = (on' /\ q' # <<>>)

Init == q = <<>> /\ on \in BOOLEAN /\ wire = FALSE

(* Items are added behind the ones already there, never beyond Capacity. *)
Put ==
  /\ \E n \in Len(q) + 1 .. Capacity : q' \in [1 .. n -> Items]
  /\ \A k \in 1 .. Len(q) : q'[k] = q[k]
  /\ UNCHANGED on
  /\ Follows

(* The n oldest items leave. *)
Take(n) ==
  /\ q' = SubSeq(q, n + 1, Len(q))
  /\ UNCHANGED on
  /\ Follows

SetOn(b) ==
  /\ on' = b
  /\ UNCHANGED q
  /\ Follows

Next ==
  \/ Put
  \/ \E n \in 0 .. Len(q) : Take(n)
  \/ \E b \in BOOLEAN : SetOn(b)

Spec == Init /\ [][Next]_vars

============================================================================
