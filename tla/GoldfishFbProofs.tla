-------------------------- MODULE GoldfishFbProofs --------------------------
(***************************************************************************)
(* Proofs about the framebuffer for any number of buffers, frames and      *)
(* resets and any length of the frame period: the console shows whole      *)
(* frames, the one the guest has flipped to, and the vsync timer runs      *)
(* exactly while vsync is enabled.                                         *)
(*                                                                         *)
(* The argument: from its flip to its next one the guest draws in another  *)
(* buffer than the one in use, and a refresh that has begun holds the half *)
(* of the buffer in use.                                                   *)
(***************************************************************************)
EXTENDS GoldfishFb, TLAPS

(* The guest's own order: what it has drawn, and where. *)
GuestDrawsElsewhere ==
  /\ pc = "boot" => ~owner
  /\ pc = "wait" => base = back
  /\ owner /\ pc \in {"top", "bottom", "flip"} => back # base
  /\ pc \in {"bottom", "flip", "wait"} => frame <= MaxFrames
  /\ pc = "bottom" => memory[back][1] = frame
  /\ pc = "flip" => memory[back][1] = memory[back][2]

(* The buffer in use is whole, and what the device shows is that buffer. *)
BaseIsWhole == owner => memory[base][1] = memory[base][2]

ScanIsOfBase ==
  scan # NoScan => ~blank /\ (owner => scan = memory[base][1])

ClearedIsBlack == cleared => screen = Black

IInv ==
  /\ TypeOK /\ GuestDrawsElsewhere
  /\ BaseIsWhole /\ ScanIsOfBase /\ ClearedIsBlack
  /\ FlipIsShown /\ VsyncTimerRuns

----------------------------------------------------------------------------
LEMMA BoundFacts ==
  /\ MaxFrames \in Nat /\ MaxResets \in Nat /\ Period \in Nat \ {0}
  /\ 0 \in Frames /\ Idle \notin 0 .. Period /\ NoScan \notin Frames
  /\ Halves = {1, 2}
  BY FbAssumption DEF Frames, Idle, NoScan, Halves

(* A frame is the pair of its halves. *)
LEMMA FramePair ==
  ASSUME NEW S, NEW f \in [Halves -> S]
  PROVE  f = <<f[1], f[2]>>
  BY DEF Halves

LEMMA PairIsFrame ==
  ASSUME NEW S, NEW a \in S, NEW b \in S
  PROVE  <<a, b>> \in [Halves -> S]
  BY DEF Halves

LEMMA InitEstablishes == Init => IInv
<1> SUFFICES ASSUME Init PROVE IInv
  OBVIOUS
<1>1. TypeOK
  <2>1. 1 \in 1 .. MaxFrames + 1 /\ 0 \in 0 .. MaxResets /\ 0 \in Frames
    BY BoundFacts
  <2> QED BY <2>1 DEF Init, TypeOK, Black, NoScan, Idle, Ints
<1>2. GuestDrawsElsewhere /\ BaseIsWhole /\ ScanIsOfBase /\ ClearedIsBlack
  BY DEF Init, GuestDrawsElsewhere, BaseIsWhole, ScanIsOfBase, ClearedIsBlack
<1>3. FlipIsShown /\ VsyncTimerRuns
  BY DEF Init, FlipIsShown, VsyncTimerRuns
<1> QED BY <1>1, <1>2, <1>3 DEF IInv

----------------------------------------------------------------------------
(* The accesses of the guest. *)

(* A write of INT_ENABLE, whatever the guest is about. *)
LEMMA IntEnableKeeps ==
  ASSUME IInv, NEW bits \in SUBSET Ints, WriteIntEnable(bits),
         memory' = memory, back' = back, frame' = frame, owner' = owner,
         pc' = pc \/ (pc = "boot" /\ pc' = "top")
  PROVE  IInv'
<1>1. /\ base' = base /\ int_status' = int_status /\ blank' = blank
      /\ screen' = screen /\ scan' = scan /\ cleared' = cleared
      /\ int_enable' = bits /\ restored' = FALSE /\ resets' = resets
      /\ irq' \in BOOLEAN
      /\ vsync_timer' = IF VSYNC \in int_enable' THEN Period ELSE Idle
  BY DEF WriteIntEnable, UpdateIrq, VsyncControl, display
<1>2. VsyncTimerRuns' /\ vsync_timer' \in {Idle} \cup 0 .. Period
  BY <1>1, BoundFacts DEF VsyncTimerRuns
<1>3. TypeOK'
  BY <1>1, <1>2 DEF IInv, TypeOK
<1>4. GuestDrawsElsewhere' /\ BaseIsWhole' /\ ScanIsOfBase' /\ ClearedIsBlack'
  BY <1>1 DEF IInv, GuestDrawsElsewhere, BaseIsWhole, ScanIsOfBase, ClearedIsBlack
<1>5. FlipIsShown'
  BY <1>1 DEF IInv, FlipIsShown
<1> QED BY <1>2, <1>3, <1>4, <1>5 DEF IInv

(* The guest stores to its memory, also in the middle of a refresh. *)
LEMMA DrawingKeeps ==
  ASSUME IInv, GuestDrawsTop \/ GuestDrawsBottom
  PROVE  IInv'
<1>1. PICK half \in Halves :
        /\ GuestDraws(half)
        /\ \/ half = 1 /\ pc = "top" /\ frame <= MaxFrames /\ pc' = "bottom"
           \/ half = 2 /\ pc = "bottom" /\ pc' = "flip"
  BY DEF GuestDrawsTop, GuestDrawsBottom, Halves
<1>2. /\ memory' = [memory EXCEPT ![back][half] = frame]
      /\ UNCHANGED registers /\ UNCHANGED display /\ UNCHANGED history
      /\ back' = back /\ frame' = frame /\ owner' = owner
  BY <1>1 DEF GuestDraws
<1>3. /\ memory \in [Buffers -> [Halves -> Frames]] /\ back \in Buffers
      /\ base \in Buffers /\ frame \in Frames /\ frame <= MaxFrames
  BY <1>1, BoundFacts DEF IInv, TypeOK, GuestDrawsElsewhere, Frames
<1>4. /\ memory' \in [Buffers -> [Halves -> Frames]]
      /\ owner => memory'[base] = memory[base]
      /\ memory'[back][half] = frame
      /\ half = 2 => memory'[back][1] = memory[back][1]
  BY <1>1, <1>2, <1>3, BoundFacts DEF IInv, GuestDrawsElsewhere
<1>5. TypeOK'
  BY <1>1, <1>2, <1>4 DEF IInv, TypeOK, registers, display, history
<1>6. GuestDrawsElsewhere'
  BY <1>1, <1>2, <1>3, <1>4 DEF IInv, GuestDrawsElsewhere, registers
<1>7. BaseIsWhole' /\ ScanIsOfBase' /\ ClearedIsBlack'
  BY <1>2, <1>4 DEF IInv, BaseIsWhole, ScanIsOfBase, ClearedIsBlack,
     registers, display
<1>8. FlipIsShown' /\ VsyncTimerRuns'
  BY <1>2, <1>4 DEF IInv, FlipIsShown, VsyncTimerRuns, registers, display,
     history
<1> QED BY <1>5, <1>6, <1>7, <1>8 DEF IInv

LEMMA FlipKeeps ==
  ASSUME IInv, GuestFlips
  PROVE  IInv'
<1>1. /\ pc = "flip" /\ pc' = "wait" /\ owner' = TRUE /\ base' = back
      /\ scan = NoScan /\ scan' = scan
      /\ int_status' = int_status \cup {BASE_UPDATE_DONE}
      /\ int_enable' = int_enable /\ blank' = blank
      /\ vsync_timer' = vsync_timer /\ irq' \in BOOLEAN
      /\ screen' = (IF blank' THEN Black ELSE memory[base']) /\ cleared' = FALSE
      /\ memory' = memory /\ back' = back /\ frame' = frame
      /\ resets' = resets /\ restored' = restored
  BY DEF GuestFlips, SetBase, Unlocked, UpdateIrq, Render, history
<1>2. TypeOK'
  BY <1>1 DEF IInv, TypeOK, Ints
<1>3. GuestDrawsElsewhere' /\ BaseIsWhole' /\ ScanIsOfBase' /\ ClearedIsBlack'
  BY <1>1 DEF IInv, GuestDrawsElsewhere, BaseIsWhole, ScanIsOfBase, ClearedIsBlack
<1>4. FlipIsShown' /\ VsyncTimerRuns'
  BY <1>1 DEF IInv, FlipIsShown, VsyncTimerRuns
<1> QED BY <1>2, <1>3, <1>4 DEF IInv

LEMMA InterruptKeeps ==
  ASSUME IInv, GuestInterrupt
  PROVE  IInv'
<1>1. /\ int_status' = {} /\ irq' = FALSE /\ base' = base
      /\ int_enable' = int_enable /\ blank' = blank
      /\ vsync_timer' = vsync_timer /\ UNCHANGED display
      /\ memory' = memory /\ owner' = owner
      /\ resets' = resets /\ restored' = restored
  BY DEF GuestInterrupt, ReadIntStatus, history
<1>2. \/ pc' = pc /\ frame' = frame /\ back' = back
      \/ /\ pc = "wait" /\ pc' = "top" /\ frame' = frame + 1
         /\ back' \in Buffers \ {back}
  BY DEF GuestInterrupt
<1>3. frame' \in 1 .. MaxFrames + 1 /\ back' \in Buffers
      /\ pc' \in {"boot", "top", "bottom", "flip", "wait"}
  BY <1>2, BoundFacts DEF IInv, TypeOK, GuestDrawsElsewhere
<1>4. TypeOK'
  BY <1>1, <1>3 DEF IInv, TypeOK, display
<1>5. GuestDrawsElsewhere'
  BY <1>1, <1>2 DEF IInv, GuestDrawsElsewhere
<1>6. BaseIsWhole' /\ ScanIsOfBase' /\ ClearedIsBlack'
  BY <1>1 DEF IInv, BaseIsWhole, ScanIsOfBase, ClearedIsBlack, display
<1>7. FlipIsShown' /\ VsyncTimerRuns'
  BY <1>1 DEF IInv, FlipIsShown, VsyncTimerRuns, display
<1> QED BY <1>4, <1>5, <1>6, <1>7 DEF IInv

LEMMA BlankKeeps ==
  ASSUME IInv, GuestBlanks
  PROVE  IInv'
<1>1. /\ UNCHANGED guest /\ UNCHANGED history /\ scan = NoScan /\ scan' = scan
      /\ base' = base /\ int_status' = int_status /\ int_enable' = int_enable
      /\ irq' = irq /\ vsync_timer' = vsync_timer
      /\ screen' = (IF blank' THEN Black ELSE memory[base']) /\ cleared' = FALSE
      /\ blank' \in BOOLEAN
  BY DEF GuestBlanks, SetRotation, SetBlank, Unlocked, Render, registers,
     IInv, TypeOK
<1>2. TypeOK'
  BY <1>1 DEF IInv, TypeOK, guest, history
<1>3. GuestDrawsElsewhere' /\ BaseIsWhole' /\ ScanIsOfBase' /\ ClearedIsBlack'
  BY <1>1 DEF IInv, GuestDrawsElsewhere, BaseIsWhole, ScanIsOfBase,
     ClearedIsBlack, guest
<1>4. FlipIsShown' /\ VsyncTimerRuns'
  BY <1>1 DEF IInv, FlipIsShown, VsyncTimerRuns, guest, history
<1> QED BY <1>2, <1>3, <1>4 DEF IInv

LEMMA ResetKeeps ==
  ASSUME IInv, GuestReset
  PROVE  IInv'
<1>1. /\ UNCHANGED registers /\ UNCHANGED display /\ memory' = memory
      /\ frame' = frame /\ restored' = restored
      /\ resets' = resets + 1 /\ resets < MaxResets
      /\ pc' = "boot" /\ back' \in Buffers /\ owner' = FALSE
  BY DEF GuestReset
<1>2. TypeOK'
  <2>1. resets' \in 0 .. MaxResets
    <3>1. resets \in 0 .. MaxResets /\ MaxResets \in Nat
      BY BoundFacts DEF IInv, TypeOK
    <3> QED BY <1>1, <3>1
  <2> QED BY <1>1, <2>1 DEF IInv, TypeOK, registers, display
<1>3. GuestDrawsElsewhere' /\ BaseIsWhole' /\ ScanIsOfBase' /\ ClearedIsBlack'
  BY <1>1 DEF IInv, GuestDrawsElsewhere, BaseIsWhole, ScanIsOfBase,
     ClearedIsBlack, registers, display
<1>4. FlipIsShown' /\ VsyncTimerRuns'
  BY <1>1 DEF IInv, FlipIsShown, VsyncTimerRuns, registers, display
<1> QED BY <1>2, <1>3, <1>4 DEF IInv

----------------------------------------------------------------------------
(* The host. *)

LEMMA RefreshKeeps ==
  ASSUME IInv, RefreshTop \/ RefreshBottom
  PROVE  IInv'
<1>1. UNCHANGED registers /\ UNCHANGED guest /\ UNCHANGED history
  BY DEF RefreshTop, RefreshBottom
<1>2. /\ memory \in [Buffers -> [Halves -> Frames]] /\ base \in Buffers
      /\ memory[base] \in [Halves -> Frames]
      /\ memory[base][1] \in Frames /\ memory[base][2] \in Frames
      /\ memory[base] = <<memory[base][1], memory[base][2]>>
  BY BoundFacts, FramePair DEF IInv, TypeOK
<1>3. CASE RefreshTop
  <2>1. \/ blank /\ screen' = Black /\ cleared' = FALSE /\ scan' = scan
        \/ ~blank /\ scan' = memory[base][1] /\ screen' = screen /\ cleared' = cleared
    BY <1>3 DEF RefreshTop
  <2>2. TypeOK'
    BY <1>1, <1>2, <2>1 DEF IInv, TypeOK, registers, guest, history
  <2>3. ScanIsOfBase' /\ ClearedIsBlack'
    BY <1>1, <1>3, <2>1 DEF IInv, ScanIsOfBase, ClearedIsBlack, registers,
       guest, RefreshTop, Unlocked
  <2>4. FlipIsShown'
    BY <1>1, <2>1 DEF IInv, FlipIsShown, registers, guest
  <2>5. GuestDrawsElsewhere' /\ BaseIsWhole' /\ VsyncTimerRuns'
    BY <1>1 DEF IInv, GuestDrawsElsewhere, BaseIsWhole, VsyncTimerRuns,
       registers, guest, history
  <2> QED BY <2>2, <2>3, <2>4, <2>5 DEF IInv
<1>4. CASE RefreshBottom
  <2>1. /\ scan # NoScan /\ scan \in Frames /\ screen' = <<scan, memory[base][2]>>
        /\ cleared' = FALSE /\ scan' = NoScan
        /\ ~blank /\ (owner => scan = memory[base][1])
    BY <1>4 DEF RefreshBottom, IInv, TypeOK, ScanIsOfBase
  <2>2. screen' \in [Halves -> Frames]
    BY <1>2, <2>1, PairIsFrame
  <2>3. TypeOK'
    BY <1>1, <2>1, <2>2 DEF IInv, TypeOK, registers, guest, history
  <2>4. ScanIsOfBase' /\ ClearedIsBlack'
    BY <2>1 DEF ScanIsOfBase, ClearedIsBlack
  <2>5. owner => screen' = memory[base]
    BY <1>2, <2>1
  <2>6. FlipIsShown'
    BY <1>1, <2>1, <2>5 DEF FlipIsShown, registers, guest
  <2>7. GuestDrawsElsewhere' /\ BaseIsWhole' /\ VsyncTimerRuns'
    BY <1>1 DEF IInv, GuestDrawsElsewhere, BaseIsWhole, VsyncTimerRuns,
       registers, guest, history
  <2> QED BY <2>3, <2>4, <2>6, <2>7 DEF IInv
<1> QED BY <1>3, <1>4

LEMMA ClockKeeps ==
  ASSUME IInv, Tick \/ Vsync
  PROVE  IInv'
<1>1. /\ UNCHANGED display /\ UNCHANGED guest /\ UNCHANGED history
      /\ base' = base /\ int_enable' = int_enable /\ blank' = blank
  BY DEF Tick, Vsync
<1>2. vsync_timer \in {Idle} \cup 0 .. Period /\ Period \in Nat \ {0} /\ Idle = -1
  BY BoundFacts DEF IInv, TypeOK, Idle
<1>3. CASE Tick
  <2>1. /\ vsync_timer # Idle /\ vsync_timer' \in 0 .. Period
        /\ int_status' = int_status /\ irq' = irq
    BY <1>2, <1>3 DEF Tick
  <2>2. TypeOK'
    BY <1>1, <2>1 DEF IInv, TypeOK, display, guest, history
  <2>3. VsyncTimerRuns'
    BY <1>1, <2>1, BoundFacts DEF IInv, VsyncTimerRuns, history
  <2> QED BY <1>1, <2>2, <2>3 DEF IInv, GuestDrawsElsewhere, BaseIsWhole,
          ScanIsOfBase, ClearedIsBlack, FlipIsShown, display, guest
<1>4. CASE Vsync
  <2>1. /\ vsync_timer' = IF VSYNC \in int_enable THEN Period ELSE Idle
        /\ int_status' \subseteq Ints /\ irq' \in BOOLEAN
    BY <1>4 DEF Vsync, UpdateIrq, IInv, TypeOK, Ints
  <2>2. /\ vsync_timer' \in {Idle} \cup 0 .. Period
        /\ VSYNC \in int_enable <=> vsync_timer' # Idle
    BY <1>2, <2>1
  <2>3. TypeOK'
    BY <1>1, <2>1, <2>2 DEF IInv, TypeOK, display, guest, history
  <2>4. VsyncTimerRuns'
    BY <1>1, <2>2 DEF VsyncTimerRuns
  <2> QED BY <1>1, <2>3, <2>4 DEF IInv, GuestDrawsElsewhere, BaseIsWhole,
          ScanIsOfBase, ClearedIsBlack, FlipIsShown, display, guest
<1> QED BY <1>3, <1>4

LEMMA MigrateKeeps ==
  ASSUME IInv, Migrate
  PROVE  IInv'
<1>1. /\ scan = NoScan /\ scan' = scan /\ vsync_timer' = Idle
      /\ screen' = Black /\ cleared' = TRUE /\ restored' = TRUE
      /\ base' = base /\ int_status' = int_status /\ int_enable' = int_enable
      /\ blank' = blank /\ irq' = irq /\ UNCHANGED guest /\ resets' = resets
  BY DEF Migrate, Unlocked
<1>2. TypeOK'
  BY <1>1 DEF IInv, TypeOK, guest
<1> QED BY <1>1, <1>2 DEF IInv, GuestDrawsElsewhere, BaseIsWhole,
        ScanIsOfBase, ClearedIsBlack, FlipIsShown, VsyncTimerRuns, guest

LEMMA StepPreserves == IInv /\ [Next]_vars => IInv'
<1> SUFFICES ASSUME IInv, [Next]_vars PROVE IInv'
  OBVIOUS
<1>1. CASE GuestBoots
  BY <1>1, IntEnableKeeps DEF GuestBoots
<1>2. CASE GuestSetsVsync
  BY <1>2, IntEnableKeeps DEF GuestSetsVsync, guest
<1>3. CASE UNCHANGED vars
  BY <1>3 DEF vars, registers, display, guest, history, IInv, TypeOK,
     GuestDrawsElsewhere, BaseIsWhole, ScanIsOfBase, ClearedIsBlack,
     FlipIsShown, VsyncTimerRuns
<1> QED BY <1>1, <1>2, <1>3, DrawingKeeps, FlipKeeps, InterruptKeeps,
        BlankKeeps, ResetKeeps, RefreshKeeps, ClockKeeps, MigrateKeeps
        DEF Next, Guest

(* The guest draws elsewhere, and the device shows what it was told to, in *)
(* every state.                                                            *)
THEOREM FbInvariant == Spec => []IInv
  BY InitEstablishes, StepPreserves, PTL DEF Spec

----------------------------------------------------------------------------
(* Type correctness of the registers, the console and the guest. *)
THEOREM FbTypeCorrect == Spec => []TypeOK
<1>1. IInv => TypeOK
  BY DEF IInv
<1> QED BY <1>1, FbInvariant, PTL

(* The console shows whole frames, however refreshes and the guest's       *)
(* drawing interleave.                                                     *)
THEOREM FbNoTearing == Spec => []NoTearing
<1>1. IInv => NoTearing
  <2> SUFFICES ASSUME IInv, owner, screen # Black PROVE screen[1] = screen[2]
    BY DEF NoTearing
  <2>1. screen = memory[base]
    BY DEF IInv, ClearedIsBlack, FlipIsShown
  <2> QED BY <2>1 DEF IInv, BaseIsWhole
<1> QED BY <1>1, FbInvariant, PTL

(* The console shows what the guest has flipped to, from the flip on. *)
THEOREM FbFlipIsShown == Spec => []FlipIsShown
<1>1. IInv => FlipIsShown
  BY DEF IInv
<1> QED BY <1>1, FbInvariant, PTL

(* The vsync timer runs exactly while vsync is enabled. *)
THEOREM FbVsyncTimerRuns == Spec => []VsyncTimerRuns
<1>1. IInv => VsyncTimerRuns
  BY DEF IInv
<1> QED BY <1>1, FbInvariant, PTL

----------------------------------------------------------------------------
(* The announcement of a flip. *)

(* The output is the masked status, and a guest that has booted listens    *)
(* for BASE_UPDATE_DONE, which is set as long as it waits for it.          *)
FlipInStatus ==
  /\ irq = (int_status \cap int_enable # {})
  /\ pc # "boot" => BASE_UPDATE_DONE \in int_enable
  /\ pc = "wait" => BASE_UPDATE_DONE \in int_status

(* A guest that waits for its flip is being interrupted: no read of        *)
(* INT_STATUS for a vsync, no rewrite of INT_ENABLE and no restore takes   *)
(* the announcement away without the guest going on.                       *)
FlipIsAnnounced == pc = "wait" => irq

LEMMA FlipStaysInStatus == Spec => []FlipInStatus
<1>1. Init => FlipInStatus
  BY DEF Init, FlipInStatus
<1>2. FlipInStatus /\ [Next]_vars => FlipInStatus'
  <2> SUFFICES ASSUME FlipInStatus, [Next]_vars
               PROVE  FlipInStatus'
    OBVIOUS
  <2>1. CASE GuestBoots
    BY <2>1 DEF GuestBoots, WriteIntEnable, UpdateIrq, FlipInStatus
  <2>2. CASE GuestDrawsTop \/ GuestDrawsBottom
    BY <2>2 DEF GuestDrawsTop, GuestDrawsBottom, GuestDraws, registers, FlipInStatus
  <2>3. CASE GuestFlips
    BY <2>3 DEF GuestFlips, SetBase, UpdateIrq, FlipInStatus
  <2>4. CASE GuestInterrupt
    BY <2>4 DEF GuestInterrupt, ReadIntStatus, FlipInStatus
  <2>5. CASE GuestBlanks
    BY <2>5 DEF GuestBlanks, SetRotation, SetBlank, registers, guest, FlipInStatus
  <2>6. CASE GuestSetsVsync
    BY <2>6 DEF GuestSetsVsync, WriteIntEnable, UpdateIrq, guest, FlipInStatus
  <2>7. CASE GuestReset
    BY <2>7 DEF GuestReset, registers, FlipInStatus
  <2>8. CASE RefreshTop \/ RefreshBottom \/ Tick
    BY <2>8 DEF RefreshTop, RefreshBottom, Tick, registers, guest, FlipInStatus
  <2>9. CASE Vsync
    BY <2>9 DEF Vsync, UpdateIrq, guest, FlipInStatus
  <2>10. CASE Migrate
    BY <2>10 DEF Migrate, guest, FlipInStatus
  <2>11. CASE UNCHANGED vars
    BY <2>11 DEF vars, registers, guest, FlipInStatus
  <2> QED BY <2>1, <2>2, <2>3, <2>4, <2>5, <2>6, <2>7, <2>8, <2>9, <2>10, <2>11
          DEF Next, Guest
<1> QED BY <1>1, <1>2, PTL DEF Spec

(* The interrupt of a flip is never lost, for any number of buffers,       *)
(* frames and resets.                                                      *)
THEOREM FbFlipIsAnnounced == Spec => []FlipIsAnnounced
<1>1. FlipInStatus => FlipIsAnnounced
  BY DEF FlipInStatus, FlipIsAnnounced, BASE_UPDATE_DONE
<1> QED BY <1>1, FlipStaysInStatus, PTL

=============================================================================
