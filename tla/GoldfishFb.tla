----------------------------- MODULE GoldfishFb -----------------------------
(***************************************************************************)
(* The goldfish framebuffer, hw_display_android_goldfish_fb.c: the guest   *)
(* sets the address of the frame to show, the device copies it to the      *)
(* host's console and interrupts when the new base is in use and, if asked *)
(* to, once per frame period.                                              *)
(*                                                                         *)
(* The registers and the callbacks are serialised by QEMU's big lock, but  *)
(* the guest's stores to its own memory are not: while the host's main     *)
(* loop refreshes the console the guest goes on drawing.  So a refresh is  *)
(* two steps, one per half of a frame, with the lock held in between; a    *)
(* render that the guest's own access causes is one step, because the only *)
(* CPU is busy with that access.                                           *)
(*                                                                         *)
(* The guest is external: it boots (INT_ENABLE), then again and again      *)
(* draws a frame in a buffer that it is not showing, flips with SET_BASE   *)
(* and waits for the interrupt handler to see BASE_UPDATE_DONE.  It may    *)
(* blank the screen, rewrite INT_ENABLE and be reset at any time; the      *)
(* device keeps its registers then.                                        *)
(***************************************************************************)
EXTENDS Integers

CONSTANTS
  Buffers,    \* the addresses of the guest's frames
  MaxFrames,  \* bound on the frames that the guest draws
  MaxResets,  \* bound on its resets
  Period      \* ticks of the virtual clock in ANDROID_GOLDFISH_FB_VSYNC_NS

ASSUME FbAssumption ==
  /\ MaxFrames \in Nat /\ MaxResets \in Nat
  /\ Period \in Nat \ {0}

VARIABLES
  base,       \* s->base
  int_status, \* s->int_status, the set of its one bits
  int_enable, \* s->int_enable
  blank,      \* s->blank
  irq,        \* the level of s->irq
  vsync_timer,\* ticks until s->vsync_timer expires, or Idle
  screen,     \* the two halves of what the console shows, or Black
  scan,       \* the half a refresh has read so far, or NoScan
  cleared,    \* history: nothing was copied to the console since a restore
  memory,     \* the guest's frames: the number drawn in each half
  pc,         \* the guest: "boot", "top", "bottom", "flip" or "wait"
  back,       \* the buffer it draws in
  frame,      \* the number of the frame it draws
  owner,      \* history: it has flipped since its last reset
  resets,     \* history: the resets so far
  restored    \* history: restored into a new process, INT_ENABLE not yet
              \*   written again

registers == <<base, int_status, int_enable, blank, irq, vsync_timer>>
display == <<screen, scan, cleared>>
guest == <<memory, pc, back, frame, owner>>
history == <<resets, restored>>
vars == <<registers, display, guest, history>>

VSYNC == "vsync"
BASE_UPDATE_DONE == "base_update_done"
Ints == {VSYNC, BASE_UPDATE_DONE}

Idle == -1
NoScan == -1
Frames == 0 .. MaxFrames
Black == <<>>
Halves == 1 .. 2

TypeOK ==
  /\ base \in Buffers
  /\ int_status \subseteq Ints /\ int_enable \subseteq Ints
  /\ blank \in BOOLEAN /\ irq \in BOOLEAN
  /\ vsync_timer \in {Idle} \cup 0 .. Period
  /\ screen \in {Black} \cup [Halves -> Frames]
  /\ scan \in {NoScan} \cup Frames
  /\ cleared \in BOOLEAN
  /\ memory \in [Buffers -> [Halves -> Frames]]
  /\ pc \in {"boot", "top", "bottom", "flip", "wait"}
  /\ back \in Buffers
  /\ frame \in 1 .. MaxFrames + 1
  /\ owner \in BOOLEAN
  /\ resets \in 0 .. MaxResets /\ restored \in BOOLEAN

(* android_goldfish_fb_realize *)
Init ==
  /\ base \in Buffers
  /\ int_status = {} /\ int_enable = {}
  /\ blank = FALSE
  /\ irq = FALSE
  /\ vsync_timer = Idle
  /\ screen = Black /\ scan = NoScan /\ cleared = FALSE
  /\ memory = [b \in Buffers |-> [h \in Halves |-> 0]]
  /\ pc = "boot"
  /\ back \in Buffers
  /\ frame = 1
  /\ owner = FALSE
  /\ resets = 0 /\ restored = FALSE

----------------------------------------------------------------------------
(* A definition named Wrong... is a plausible slip in the code it precedes,  *)
(* kept to show which property notices it; no specification uses it.        *)

WrongUpdateIrq == irq' = (VSYNC \in int_status' \cap int_enable')

(* android_goldfish_fb_update_irq *)
UpdateIrq == irq' = (int_status' \cap int_enable' # {})

WrongVsyncControlNoDel ==                   \* without timer_del
  vsync_timer' = IF VSYNC \in int_enable' THEN Period ELSE vsync_timer

(* android_goldfish_fb_vsync_control *)
VsyncControl ==
  vsync_timer' = IF VSYNC \in int_enable' THEN Period ELSE Idle

(* android_goldfish_fb_render, the whole frame at once.  Its early returns *)
(* (no console, no surface, neither 16 nor 32 bits a pixel) are left out:  *)
(* realize has created the console with a surface of its own, and reading  *)
(* the guest's memory is taken to succeed, as the code does.               *)
Render ==
  /\ screen' = IF blank' THEN Black ELSE memory[base']
  /\ cleared' = FALSE

(* A refresh keeps the lock, and every other handler waits for it. *)
Unlocked == scan = NoScan

----------------------------------------------------------------------------
(* The guest's accesses: android_goldfish_fb_read and _write. *)

WriteIntEnable(bits) ==
  /\ Unlocked
  /\ int_enable' = bits
  /\ restored' = FALSE
  /\ UNCHANGED <<base, int_status, blank, display, resets>>
  /\ UpdateIrq
  /\ VsyncControl

WrongSetBase(buffer) ==                     \* announced, but not in use yet
  /\ Unlocked
  /\ int_status' = int_status \cup {BASE_UPDATE_DONE}
  /\ UNCHANGED <<base, int_enable, blank, vsync_timer, scan, history>>
  /\ UpdateIrq
  /\ Render

WrongSetBaseNoRender(buffer) ==             \* left to the next refresh
  /\ Unlocked
  /\ base' = buffer
  /\ int_status' = int_status \cup {BASE_UPDATE_DONE}
  /\ UNCHANGED <<int_enable, blank, vsync_timer, display, history>>
  /\ UpdateIrq

SetBase(buffer) ==
  /\ Unlocked
  /\ base' = buffer
  /\ int_status' = int_status \cup {BASE_UPDATE_DONE}
  /\ UNCHANGED <<int_enable, blank, vsync_timer, scan, history>>
  /\ UpdateIrq
  /\ Render

SetBlank(value) ==
  /\ Unlocked
  /\ blank' = value
  /\ UNCHANGED <<base, int_status, int_enable, irq, vsync_timer, scan, history>>
  /\ Render

(* Rotation is stored and never used; the access renders. *)
SetRotation ==
  /\ Unlocked
  /\ UNCHANGED <<registers, scan, history>>
  /\ Render

ReadIntStatus ==
  /\ Unlocked
  /\ int_status' = {}
  /\ irq' = FALSE
  /\ UNCHANGED <<base, int_enable, blank, vsync_timer, display, history>>

----------------------------------------------------------------------------
(* The guest. *)

GuestBoots ==
  /\ pc = "boot" /\ pc' = "top"
  /\ \E bits \in SUBSET Ints : BASE_UPDATE_DONE \in bits /\ WriteIntEnable(bits)
  /\ UNCHANGED <<memory, back, frame, owner>>

(* Stores to memory, which need no lock. *)
GuestDraws(half) ==
  /\ memory' = [memory EXCEPT ![back][half] = frame]
  /\ UNCHANGED <<registers, display, back, frame, owner, history>>

GuestDrawsTop == pc = "top" /\ frame <= MaxFrames /\ pc' = "bottom" /\ GuestDraws(1)
GuestDrawsBottom == pc = "bottom" /\ pc' = "flip" /\ GuestDraws(2)

GuestFlips ==
  /\ pc = "flip" /\ pc' = "wait"
  /\ owner' = TRUE
  /\ SetBase(back)
  /\ UNCHANGED <<memory, back, frame>>

(* The interrupt handler; a guest that waits for its flip goes on. *)
GuestInterrupt ==
  /\ irq /\ pc # "boot"
  /\ ReadIntStatus
  /\ IF pc = "wait" /\ BASE_UPDATE_DONE \in int_status
     THEN /\ pc' = "top"
          /\ frame' = frame + 1
          /\ back' \in Buffers \ {back}
     ELSE UNCHANGED <<pc, frame, back>>
  /\ UNCHANGED <<memory, owner>>

GuestBlanks ==
  /\ pc # "boot"
  /\ SetRotation \/ \E value \in BOOLEAN : SetBlank(value)
  /\ UNCHANGED guest

(* It may turn the vsync interrupt on and off, or write the same again. *)
GuestSetsVsync ==
  /\ pc # "boot"
  /\ \E bits \in SUBSET Ints : BASE_UPDATE_DONE \in bits /\ WriteIntEnable(bits)
  /\ UNCHANGED guest

GuestReset ==
  /\ resets < MaxResets
  /\ resets' = resets + 1
  /\ pc' = "boot"
  /\ back' \in Buffers
  /\ owner' = FALSE
  /\ UNCHANGED <<registers, display, memory, frame, restored>>

Guest ==
  GuestBoots \/ GuestDrawsTop \/ GuestDrawsBottom \/ GuestFlips \/ GuestInterrupt

----------------------------------------------------------------------------
(* The host. *)

(* android_goldfish_fb_gfx_update and _invalidate, in two steps *)
RefreshTop ==
  /\ Unlocked
  /\ IF blank
     THEN screen' = Black /\ cleared' = FALSE /\ UNCHANGED scan
     ELSE scan' = memory[base][1] /\ UNCHANGED <<screen, cleared>>
  /\ UNCHANGED <<registers, guest, history>>

RefreshBottom ==
  /\ scan # NoScan
  /\ screen' = <<scan, memory[base][2]>>
  /\ cleared' = FALSE
  /\ scan' = NoScan
  /\ UNCHANGED <<registers, guest, history>>

Tick ==
  /\ vsync_timer > 0
  /\ vsync_timer' = vsync_timer - 1
  /\ UNCHANGED <<base, int_status, int_enable, blank, irq, display, guest,
                 history>>

WrongVsync ==                               \* does not set the timer again
  /\ Unlocked /\ vsync_timer = 0
  /\ int_status' = int_status \cup {VSYNC}
  /\ vsync_timer' = Idle
  /\ UNCHANGED <<base, int_enable, blank, display, guest, history>>
  /\ UpdateIrq

(* android_goldfish_fb_vsync, when the timer has expired *)
Vsync ==
  /\ Unlocked /\ vsync_timer = 0
  /\ UNCHANGED <<base, int_enable, blank, display, guest, history>>
  /\ IF VSYNC \in int_enable
     THEN /\ int_status' = int_status \cup {VSYNC}
          /\ vsync_timer' = Period
          /\ UpdateIrq
     ELSE /\ vsync_timer' = Idle
          /\ UNCHANGED <<int_status, irq>>

(* The machine is saved and restored in a new process: the fields of       *)
(* vmstate_android_goldfish_fb come back, the console is empty and the new *)
(* QEMU timer idle.  There is no post_load.                                *)
Migrate ==
  /\ Unlocked
  /\ vsync_timer' = Idle
  /\ screen' = Black /\ cleared' = TRUE
  /\ restored' = TRUE
  /\ UNCHANGED <<base, int_status, int_enable, blank, irq, scan, guest, resets>>

Next ==
  \/ Guest \/ GuestBlanks \/ GuestSetsVsync \/ GuestReset
  \/ RefreshTop \/ RefreshBottom
  \/ Tick \/ Vsync
  \/ Migrate

(* The CPU runs, and the handler although the main loop takes the lock now *)
(* and then; the virtual clock runs and expired timers are called.         *)
Fairness ==
  /\ SF_vars(GuestBoots) /\ SF_vars(GuestInterrupt)
  /\ WF_vars(RefreshBottom)
  /\ WF_vars(Tick) /\ SF_vars(Vsync)

Spec == Init /\ [][Next]_vars
FairSpec == Spec /\ Fairness

----------------------------------------------------------------------------
(***************************************************************************)
(* Properties.                                                             *)
(***************************************************************************)

(* No tearing: once the guest has flipped, the console shows whole frames, *)
(* although it is refreshed while the guest draws the next one -- SET_BASE *)
(* is in effect when BASE_UPDATE_DONE is announced, and it cannot fall     *)
(* inside a refresh, so the guest never draws what is being copied.        *)
NoTearing == owner /\ screen # Black => screen[1] = screen[2]

(* What the guest has flipped to is what the console shows, from the flip  *)
(* on and not only from the next refresh, and a blanked screen is black;   *)
(* the empty console of a new process is the exception, until something is *)
(* copied to it.                                                           *)
FlipIsShown ==
  owner /\ ~cleared => screen = IF blank THEN Black ELSE memory[base]

(* The vsync timer runs exactly while the guest has enabled the vsync      *)
(* interrupt, whatever was enabled, disabled and fired before; a restored  *)
(* machine is the exception until INT_ENABLE is written again.             *)
VsyncTimerRuns ==
  ~restored => (VSYNC \in int_enable <=> vsync_timer # Idle)

(* A guest that waits for its flip learns that it is done: the interrupt   *)
(* comes although a vsync or a reset may have read and cleared INT_STATUS  *)
(* in between.                                                             *)
FlipCompletes == pc = "wait" ~> pc # "wait"

(* A guest that has enabled vsync gets one, and another one each time that *)
(* it has read the status -- unless it rewrites INT_ENABLE again and again,*)
(* since each write begins the period anew (vsync_control).                *)
VsyncComes ==
  \/ []<><<GuestSetsVsync>>_vars
  \/ VSYNC \in int_enable /\ ~restored
        ~> VSYNC \in int_status \/ VSYNC \notin int_enable \/ restored

(* Migration by vmstate_android_goldfish_fb carries a running vsync along. *)
MigrationKeepsVsync ==
  [][ Migrate /\ vsync_timer # Idle => vsync_timer' # Idle ]_vars

=============================================================================
