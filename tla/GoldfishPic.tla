---------------------------- MODULE GoldfishPic ----------------------------
(***************************************************************************)
(* The interrupt controller of the goldfish board,                         *)
(* hw_intc_android_goldfish_pic.c.  It collects the board's 32 input lines *)
(* and drives one line of the CPU.  A 32-bit register is a set of line     *)
(* numbers, so pending, enabled and every mask a guest writes are subsets  *)
(* of Irqs.                                                                *)
(*                                                                         *)
(* The controller stores no input level of its own: `pending' is the only  *)
(* memory of what the devices drove, and writing DISABLE_ALL erases it.    *)
(* The variable `lines' is the level each device last drove; it belongs to *)
(* the devices and no action of the controller reads it.                   *)
(***************************************************************************)
EXTENDS FiniteSets

CONSTANT
  Irqs        \* the input lines; 0 .. ANDROID_GOLDFISH_PIC_IRQ_NB - 1 on the board

ASSUME IrqsAssumption == IsFiniteSet(Irqs)

VARIABLES
  lines,      \* input lines whose device last drove level 1
  pending,    \* s->pending
  enabled,    \* s->enabled
  irq,        \* the level of s->irq, the CPU's interrupt line
  erased      \* history: lines not driven since a DISABLE_ALL erased pending

pic == <<lines, pending, enabled, irq, erased>>

PicTypeOK ==
  /\ lines \subseteq Irqs
  /\ pending \subseteq Irqs
  /\ enabled \subseteq Irqs
  /\ irq \in BOOLEAN
  /\ erased \subseteq Irqs

(* android_goldfish_pic_realize *)
PicInit ==
  /\ lines = {}
  /\ pending = {}
  /\ enabled = {}
  /\ irq = FALSE
  /\ erased = {}

----------------------------------------------------------------------------
(* What the guest reads back. *)

(* A definition named Wrong... is a plausible slip in the code it precedes,  *)
(* kept to show which property notices it; no specification uses it.        *)

WrongPendingMask == enabled                         \* the other register

PendingMask == pending \cap enabled                 \* PIC_IRQ_PENDING
Status == Cardinality(PendingMask)                  \* PIC_STATUS

(* android_goldfish_pic_update, the last call of every handler *)
Update == irq' = (pending' \cap enabled' # {})

WrongSetIrq(i, level) ==                    \* latches edges, not the level
  /\ lines'   = IF level THEN lines \cup {i} ELSE lines \ {i}
  /\ pending' = IF level THEN pending \cup {i} ELSE pending
  /\ erased'  = erased \ {i}
  /\ UNCHANGED enabled
  /\ Update

(* A device drives its line: android_goldfish_pic_irq.  Driving the level  *)
(* the line already has is a call like any other.                          *)
SetIrq(i, level) ==
  /\ lines'   = IF level THEN lines \cup {i} ELSE lines \ {i}
  /\ pending' = IF level THEN pending \cup {i} ELSE pending \ {i}
  /\ erased'  = erased \ {i}
  /\ UNCHANGED enabled
  /\ Update

(* The guest's three writes: android_goldfish_pic_write *)
WrongDisableAllKeeps ==                     \* pending survives
  /\ enabled' = {}
  /\ UNCHANGED <<lines, pending, erased>>
  /\ Update

DisableAll ==
  /\ enabled' = {}
  /\ pending' = {}
  /\ erased'  = Irqs
  /\ UNCHANGED lines
  /\ Update

WrongDisableForgets(mask) ==                \* masking drops the latch too
  /\ enabled' = enabled \ mask
  /\ pending' = pending \ mask
  /\ UNCHANGED <<lines, erased>>
  /\ Update

Disable(mask) ==
  /\ enabled' = enabled \ mask
  /\ UNCHANGED <<lines, pending, erased>>
  /\ Update

WrongEnableNoUpdate(mask) ==                \* returns without an update
  /\ enabled' = enabled \cup mask
  /\ UNCHANGED <<lines, pending, erased, irq>>

Enable(mask) ==
  /\ enabled' = enabled \cup mask
  /\ UNCHANGED <<lines, pending, erased>>
  /\ Update

PicNext ==
  \/ \E i \in Irqs, level \in BOOLEAN : SetIrq(i, level)
  \/ DisableAll
  \/ \E mask \in SUBSET Irqs : Disable(mask) \/ Enable(mask)

PicSpec == PicInit /\ [][PicNext]_pic

----------------------------------------------------------------------------
(***************************************************************************)
(* Properties.                                                             *)
(***************************************************************************)

(* An interrupt is not lost: while an enabled line is asserted the CPU's   *)
(* line is asserted -- provided that the device drove the line after the   *)
(* last DISABLE_ALL, which erases the latched level of asserted lines too  *)
(* (android_goldfish_pic_write, PIC_DISABLE_ALL).                          *)
NoLostInterrupt ==
  \A i \in (lines \cap enabled) \ erased : irq

(* An interrupt is not invented: when the CPU is interrupted some enabled  *)
(* line is asserted by its device right now, so the handler that reads     *)
(* IRQ_PENDING finds a line to serve.                                      *)
NoSpuriousInterrupt ==
  irq => \E i \in PendingMask : i \in lines

(* Masking forgets nothing: a latched line leaves `pending' only when its  *)
(* device lowers it or by DISABLE_ALL; DISABLE and ENABLE never drop one.  *)
MaskingKeepsPending ==
  [][ \A i \in pending \ pending' : i \notin lines' \/ i \in erased' ]_pic

(* The inductive invariant: the latch is exactly what the devices drive    *)
(* now, less what DISABLE_ALL erased and was not driven since, and the     *)
(* output is exactly the masked latch (pic_irq, pic_update).               *)
LatchFollowsLines == pending = lines \ erased
OutputFollowsLatch == irq = (PendingMask # {})

PicIInv ==
  /\ PicTypeOK
  /\ LatchFollowsLines
  /\ OutputFollowsLatch

============================================================================
