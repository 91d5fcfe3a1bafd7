------------------------- MODULE GoldfishTtyProofs -------------------------
(***************************************************************************)
(* Proofs about GoldfishTty, for every buffer size, every length of the    *)
(* host's stream and every DATA_LEN.  The inductive TtyIInv adds to        *)
(* the properties that rx_write is rx_count places behind rx_read, that    *)
(* the slots between them hold the host's next bytes in order, and that    *)
(* the chardev's stale answer of can_receive is covered by the room there  *)
(* is now.                                                                 *)
(***************************************************************************)
EXTENDS GoldfishTty, TLAPS

----------------------------------------------------------------------------
(* Arithmetic of the ring's places. *)

(* Less than two turns forward: one conditional subtraction. *)
LEMMA PlaceForward ==
  ASSUME NEW N \in Nat \ {0}, NEW r \in 0 .. N - 1, NEW n \in 0 .. N
  PROVE  (r + n) % N = IF r + n < N THEN r + n ELSE r + n - N
  OBVIOUS

(* Less than one turn back: one conditional addition. *)
LEMMA PlaceBack ==
  ASSUME NEW N \in Nat \ {0}, NEW p \in 0 .. N - 1, NEW w \in 0 .. N - 1
  PROVE  (p - w) % N = IF p >= w THEN p - w ELSE p - w + N
  OBVIOUS

LEMMA ModRange ==
  ASSUME NEW N \in Nat \ {0}, NEW a \in Int
  PROVE  a % N \in 0 .. N - 1
  OBVIOUS

(* Going n places and then k places is going n + k places. *)
LEMMA PlaceShift ==
  ASSUME NEW N \in Nat \ {0}, NEW r \in 0 .. N - 1,
         NEW n \in 0 .. N, NEW k \in 0 .. N - n
  PROVE  (((r + n) % N) + k) % N = (r + (n + k)) % N
<1>1. (r + n) % N = IF r + n < N THEN r + n ELSE r + n - N
  BY PlaceForward
<1>2. (r + (n + k)) % N = IF r + (n + k) < N THEN r + (n + k)
                                              ELSE r + (n + k) - N
  <2>1. n + k \in 0 .. N
    OBVIOUS
  <2> DEFINE m == n + k
  <2>2. (r + m) % N = IF r + m < N THEN r + m ELSE r + m - N
    BY <2>1, PlaceForward
  <2> QED BY <2>2
<1>3. CASE r + n < N
  BY <1>1, <1>3
<1>4. CASE r + n >= N
  BY <1>1, <1>2, <1>4
<1> QED BY <1>3, <1>4

(* How far place j lies behind place c, both counted from r. *)
LEMMA PlaceDistance ==
  ASSUME NEW N \in Nat \ {0}, NEW r \in 0 .. N - 1,
         NEW c \in 0 .. N, NEW j \in 0 .. N - 1
  PROVE  (((r + j) % N) - ((r + c) % N)) % N =
           IF j >= c THEN j - c ELSE j - c + N
<1>1. (r + j) % N = IF r + j < N THEN r + j ELSE r + j - N
  OBVIOUS
<1>2. (r + c) % N = IF r + c < N THEN r + c ELSE r + c - N
  BY PlaceForward
<1> DEFINE p == (r + j) % N
           w == (r + c) % N
<1>3. p \in 0 .. N - 1 /\ w \in 0 .. N - 1
  BY <1>1, <1>2
<1>4. (p - w) % N = IF p >= w THEN p - w ELSE p - w + N
  <2> HIDE DEF p, w
  <2> QED BY <1>3, PlaceBack
<1> QED BY <1>1, <1>2, <1>4

----------------------------------------------------------------------------
(* Sequences. *)

LEMMA FunctionIsSeq ==
  ASSUME NEW n \in Nat, NEW f \in [1 .. n -> Nat]
  PROVE  f \in Seq(Nat) /\ Len(f) = n
  OBVIOUS

LEMMA ConcatFacts ==
  ASSUME NEW s \in Seq(Nat), NEW t \in Seq(Nat)
  PROVE  /\ s \o t \in Seq(Nat)
         /\ Len(s \o t) = Len(s) + Len(t)
         /\ \A k \in 1 .. Len(s) : (s \o t)[k] = s[k]
         /\ \A k \in Len(s) + 1 .. Len(s) + Len(t) :
              (s \o t)[k] = t[k - Len(s)]
  OBVIOUS

----------------------------------------------------------------------------
LEMMA InitEstablishes == TtyInit => TtyIInv
<1> SUFFICES ASSUME TtyInit PROVE TtyIInv
  OBVIOUS
<1> USE TtyAssumption DEF TtyInit
<1>1. TtyTypeOK
  BY DEF TtyTypeOK, Slots
<1>2. RingIsConsistent
  BY DEF RingIsConsistent
<1>3. RingHoldsStream
  BY DEF RingHoldsStream
<1>4. StreamInOrder
  BY DEF StreamInOrder
<1> QED
  BY <1>1, <1>2, <1>3, <1>4
     DEF TtyIInv, CreditIsCovered, OnlyConnectedParks, NoReceiveOverrun, BytesReadyIsLowerBound,
         NoLostWakeup

(* A step that leaves the ring, the host's position and the guest's memory *)
(* alone keeps what TtyIInv says of them.                                  *)
LEMMA RingUntouched ==
  ASSUME TtyIInv, UNCHANGED <<rx, sent, got>>
  PROVE  RingIsConsistent' /\ RingHoldsStream' /\ StreamInOrder'
  BY DEF TtyIInv, rx, RingIsConsistent, RingHoldsStream, RxAt, StreamInOrder

LEMMA CmdIntPreserves ==
  ASSUME TtyIInv, NEW enable \in BOOLEAN, CmdInt(enable)
  PROVE  TtyIInv'
<1> USE TtyAssumption DEF CmdInt, rx, host, guest
<1>1. TtyTypeOK'
  BY DEF TtyIInv, TtyTypeOK, UpdateIrq
<1>2. RingIsConsistent' /\ RingHoldsStream' /\ StreamInOrder'
  BY RingUntouched
<1> QED
  BY <1>1, <1>2 DEF TtyIInv, CreditIsCovered, OnlyConnectedParks, rx_free,
                    NoReceiveOverrun, BytesReadyIsLowerBound, NoLostWakeup

LEMMA SetDataLenPreserves ==
  ASSUME TtyIInv, NEW len \in 0 .. MaxLen, SetDataLen(len)
  PROVE  TtyIInv'
<1> USE TtyAssumption DEF SetDataLen, rx, host, guest
<1>1. TtyTypeOK'
  BY DEF TtyIInv, TtyTypeOK
<1>2. RingIsConsistent' /\ RingHoldsStream' /\ StreamInOrder'
  BY RingUntouched
<1> QED
  BY <1>1, <1>2 DEF TtyIInv, CreditIsCovered, OnlyConnectedParks, rx_free,
                    NoReceiveOverrun, BytesReadyIsLowerBound, NoLostWakeup

LEMMA BytesReadyPreserves ==
  ASSUME TtyIInv, BytesReady
  PROVE  TtyIInv'
<1> USE TtyAssumption DEF BytesReady, rx, host
<1>1. TtyTypeOK'
  BY DEF TtyIInv, TtyTypeOK
<1>2. RingIsConsistent' /\ RingHoldsStream' /\ StreamInOrder'
  BY RingUntouched
<1>3. BytesReadyIsLowerBound'
  BY DEF TtyIInv, TtyTypeOK, BytesReadyIsLowerBound
<1> QED
  BY <1>1, <1>2, <1>3 DEF TtyIInv, CreditIsCovered, OnlyConnectedParks, rx_free,
                    NoReceiveOverrun, NoLostWakeup

LEMMA ChrPollPreserves ==
  ASSUME TtyIInv, ChrPoll
  PROVE  TtyIInv'
<1> USE TtyAssumption DEF ChrPoll, rx, guest
<1>1. TtyTypeOK'
  BY DEF TtyIInv, TtyTypeOK, rx_free
<1>2. RingIsConsistent' /\ RingHoldsStream' /\ StreamInOrder'
  BY RingUntouched
<1>3. CreditIsCovered' /\ NoLostWakeup' /\ OnlyConnectedParks'
  BY DEF TtyIInv, TtyTypeOK, CreditIsCovered, NoLostWakeup, rx_free, OnlyConnectedParks
<1> QED
  BY <1>1, <1>2, <1>3 DEF TtyIInv, NoReceiveOverrun, BytesReadyIsLowerBound

LEMMA MainLoopWakesPreserves ==
  ASSUME TtyIInv, MainLoopWakes
  PROVE  TtyIInv'
<1> USE TtyAssumption DEF MainLoopWakes, rx, guest
<1>1. TtyTypeOK'
  BY DEF TtyIInv, TtyTypeOK
<1>2. RingIsConsistent' /\ RingHoldsStream' /\ StreamInOrder'
  BY RingUntouched
<1> QED
  BY <1>1, <1>2 DEF TtyIInv, CreditIsCovered, OnlyConnectedParks, NoReceiveOverrun,
                    BytesReadyIsLowerBound, NoLostWakeup

LEMMA GuestForgetsPreserves ==
  ASSUME TtyIInv, GuestForgets
  PROVE  TtyIInv'
<1> USE TtyAssumption DEF GuestForgets, rx, host
<1>1. TtyTypeOK'
  BY DEF TtyIInv, TtyTypeOK
<1>2. RingIsConsistent' /\ RingHoldsStream' /\ StreamInOrder'
  BY RingUntouched
<1>3. BytesReadyIsLowerBound'
  BY DEF TtyIInv, TtyTypeOK, BytesReadyIsLowerBound
<1> QED
  BY <1>1, <1>2, <1>3 DEF TtyIInv, CreditIsCovered, OnlyConnectedParks,
                          rx_free, NoReceiveOverrun, NoLostWakeup

(* READ_BUFFER takes the n oldest bytes: the ring's front moves n places   *)
(* and the guest's memory grows by exactly the bytes it passed over.       *)
LEMMA CmdReadBufferPreserves ==
  ASSUME TtyIInv, CmdReadBuffer
  PROVE  TtyIInv'
<1> USE TtyAssumption
<1> DEFINE n == Least(data_len, rx_count)
           burst == [k \in 1 .. n |-> RxAt(k - 1)]
<1>1. /\ n \in 0 .. rx_count /\ rx_count \in 0 .. BufferSize
      /\ rx_read \in 0 .. BufferSize - 1 /\ got \in Seq(Nat)
      /\ rx_buffer \in [Slots -> 0 .. HostBytes] /\ Len(got) \in Nat
  BY DEF TtyIInv, TtyTypeOK, Least, Slots
<1>2. /\ got' = got \o burst
      /\ rx_read' = (rx_read + n) % BufferSize
      /\ rx_count' = rx_count - n
      /\ announced' = announced - Least(n, announced)
      /\ rx_buffer' = rx_buffer /\ rx_write' = rx_write /\ sent' = sent
      /\ data_len' = data_len /\ int_enabled' = int_enabled
      /\ connected' = connected /\ credit' = credit /\ aborted' = aborted
      /\ tty_irq' = (int_enabled' /\ rx_count' # 0)
      /\ chr' = IF connected /\ chr = "parked" THEN "idle" ELSE chr
  BY DEF CmdReadBuffer, UpdateIrq, AcceptInput
<1>3. \A k \in 0 .. rx_count - 1 : RxAt(k) = Len(got) + k + 1
  BY DEF TtyIInv, RingHoldsStream
<1> HIDE DEF n
<1>4. burst \in [1 .. n -> Nat]
  BY <1>1, <1>3
<1>5. burst \in Seq(Nat) /\ Len(burst) = n
  BY <1>1, <1>4, FunctionIsSeq
<1>6. \A k \in 1 .. n : burst[k] = Len(got) + k
  BY <1>1, <1>3
<1> HIDE DEF burst
<1>7. /\ got' \in Seq(Nat)
      /\ Len(got') = Len(got) + n
      /\ \A k \in 1 .. Len(got) : got'[k] = got[k]
      /\ \A k \in Len(got) + 1 .. Len(got) + n : got'[k] = burst[k - Len(got)]
  BY <1>1, <1>2, <1>5, ConcatFacts
<1>8. StreamInOrder'
  <2>1. \A k \in Len(got) + 1 .. Len(got) + n : got'[k] = k
    BY <1>1, <1>6, <1>7
  <2>2. \A k \in 1 .. Len(got) : got'[k] = k
    BY <1>7 DEF TtyIInv, StreamInOrder
  <2>3. Len(got') + rx_count' = sent'
    BY <1>1, <1>2, <1>7 DEF TtyIInv, StreamInOrder
  <2> QED BY <1>1, <1>7, <2>1, <2>2, <2>3 DEF StreamInOrder
<1>9. RingHoldsStream'
  <2> SUFFICES ASSUME NEW k \in 0 .. rx_count' - 1
               PROVE  RxAt(k)' = Len(got') + k + 1
    BY DEF RingHoldsStream
  <2>1. n + k \in 0 .. rx_count - 1 /\ k \in 0 .. BufferSize - n
        /\ n \in 0 .. BufferSize
    BY <1>1, <1>2
  <2>2. (rx_read' + k) % BufferSize = (rx_read + (n + k)) % BufferSize
    BY <1>1, <1>2, <2>1, PlaceShift
  <2>3. RxAt(k)' = RxAt(n + k)
    BY <1>2, <2>2 DEF RxAt
  <2>4. RxAt(n + k) = Len(got) + (n + k) + 1
    BY <1>3, <2>1
  <2> QED BY <1>1, <1>7, <2>3, <2>4
<1>10. RingIsConsistent'
  <2>1. rx_count - n \in 0 .. BufferSize - n /\ n \in 0 .. BufferSize
    BY <1>1
  <2>2. (rx_read' + rx_count') % BufferSize
          = (rx_read + (n + (rx_count - n))) % BufferSize
    BY <1>1, <1>2, <2>1, PlaceShift
  <2>3. n + (rx_count - n) = rx_count
    BY <1>1
  <2> QED BY <1>2, <2>2, <2>3 DEF TtyIInv, RingIsConsistent
<1>11. TtyTypeOK'
  <2>1. rx_read' \in Slots
    BY <1>1, <1>2, ModRange DEF Slots
  <2>2. rx_count' \in 0 .. BufferSize /\ announced' \in Nat
    BY <1>1, <1>2 DEF TtyIInv, TtyTypeOK, Least
  <2>3. tty_irq' \in BOOLEAN /\ chr' \in {"idle", "watching", "parked"}
    BY <1>2 DEF TtyIInv, TtyTypeOK
  <2> QED BY <1>1, <1>2, <1>7, <2>1, <2>2, <2>3 DEF TtyIInv, TtyTypeOK
<1>12. BytesReadyIsLowerBound'
  BY <1>1, <1>2 DEF TtyIInv, TtyTypeOK, BytesReadyIsLowerBound, Least
<1>13. CreditIsCovered'
  BY <1>1, <1>2 DEF TtyIInv, TtyTypeOK, CreditIsCovered, rx_free
<1>14. NoLostWakeup' /\ NoReceiveOverrun' /\ OnlyConnectedParks'
  <2>1. chr = "parked" => connected
    BY DEF TtyIInv, OnlyConnectedParks
  <2> QED BY <1>2, <2>1
          DEF TtyIInv, NoLostWakeup, NoReceiveOverrun, OnlyConnectedParks
<1> QED
  BY <1>8, <1>9, <1>10, <1>11, <1>12, <1>13, <1>14 DEF TtyIInv

(* receive within the credit: the assertion holds, and the bytes land      *)
(* behind the ones already there without touching them.                    *)
LEMMA ChrDeliverPreserves ==
  ASSUME TtyIInv, NEW size \in 1 .. BufferSize, ChrDeliver(size)
  PROVE  TtyIInv'
<1> USE TtyAssumption
<1>1. /\ rx_count \in 0 .. BufferSize /\ size + rx_count <= BufferSize
      /\ rx_read \in 0 .. BufferSize - 1 /\ rx_write \in 0 .. BufferSize - 1
      /\ rx_buffer \in [Slots -> 0 .. HostBytes] /\ sent \in 0 .. HostBytes
      /\ sent + size <= HostBytes /\ got \in Seq(Nat) /\ Len(got) \in Nat
      /\ sent = Len(got) + rx_count
  BY DEF TtyIInv, TtyTypeOK, Slots, ChrDeliver, CreditIsCovered, rx_free,
         StreamInOrder
<1>2. ~(size > rx_free)
  BY <1>1 DEF rx_free
<1>3. /\ rx_buffer' = [i \in Slots |->
           IF (i - rx_write) % BufferSize < size
           THEN sent + ((i - rx_write) % BufferSize) + 1 ELSE rx_buffer[i]]
      /\ rx_write' = (rx_write + size) % BufferSize
      /\ rx_count' = rx_count + size
      /\ sent' = sent + size
      /\ rx_read' = rx_read /\ aborted' = aborted
      /\ tty_irq' = (int_enabled' /\ rx_count' # 0)
      /\ chr' = "idle" /\ data_len' = data_len /\ int_enabled' = int_enabled
      /\ connected' = connected /\ credit' = credit
      /\ got' = got /\ announced' = announced
  BY <1>2 DEF ChrDeliver, Receive, UpdateIrq, guest
<1>4. rx_write = (rx_read + rx_count) % BufferSize
  BY DEF TtyIInv, RingIsConsistent
<1>5. RingHoldsStream'
  <2> SUFFICES ASSUME NEW j \in 0 .. rx_count' - 1
               PROVE  RxAt(j)' = Len(got') + j + 1
    BY DEF RingHoldsStream
  <2> DEFINE p == (rx_read + j) % BufferSize
             d == (p - rx_write) % BufferSize
  <2>1. j \in 0 .. BufferSize - 1 /\ j < rx_count + size
    BY <1>1, <1>3
  <2>2. p \in Slots
    BY <1>1, <2>1 DEF Slots
  <2>3. d = IF j >= rx_count THEN j - rx_count ELSE j - rx_count + BufferSize
    BY <1>1, <1>4, <2>1, PlaceDistance
  <2>4. RxAt(j)' = IF d < size THEN sent + d + 1 ELSE rx_buffer[p]
    BY <1>3, <2>2 DEF RxAt
  <2> HIDE DEF p, d
  <2>5. CASE j >= rx_count
    BY <1>1, <1>3, <2>1, <2>3, <2>4, <2>5
  <2>6. CASE j < rx_count
    <3>1. ~(d < size)
      BY <1>1, <2>1, <2>3, <2>6
    <3>2. rx_buffer[p] = RxAt(j)
      BY DEF p, RxAt
    <3>3. RxAt(j) = Len(got) + j + 1
      BY <1>1, <2>1, <2>6 DEF TtyIInv, RingHoldsStream
    <3> QED BY <1>3, <2>4, <3>1, <3>2, <3>3
  <2> QED BY <1>1, <2>1, <2>5, <2>6
<1>6. RingIsConsistent'
  <2>1. rx_count \in 0 .. BufferSize /\ size \in 0 .. BufferSize - rx_count
    BY <1>1
  <2>2. (rx_write + size) % BufferSize = (rx_read + (rx_count + size)) % BufferSize
    BY <1>1, <1>4, <2>1, PlaceShift
  <2> QED BY <1>3, <2>2 DEF RingIsConsistent
<1>7. TtyTypeOK'
  <2>1. rx_buffer' \in [Slots -> 0 .. HostBytes]
    <3> SUFFICES ASSUME NEW i \in Slots PROVE rx_buffer'[i] \in 0 .. HostBytes
      BY <1>3
    <3> DEFINE d == (i - rx_write) % BufferSize
    <3>1. d \in 0 .. BufferSize - 1
      BY <1>1 DEF Slots
    <3>2. rx_buffer'[i] = IF d < size THEN sent + d + 1 ELSE rx_buffer[i]
      BY <1>3
    <3> HIDE DEF d
    <3> QED BY <1>1, <3>1, <3>2
  <2>2. rx_write' \in Slots
    BY <1>1, <1>3, ModRange DEF Slots
  <2>3. tty_irq' \in BOOLEAN
    BY <1>3 DEF TtyIInv, TtyTypeOK
  <2> QED BY <1>1, <1>3, <2>1, <2>2, <2>3 DEF TtyIInv, TtyTypeOK
<1>8. StreamInOrder'
  BY <1>1, <1>3 DEF TtyIInv, StreamInOrder
<1>9. /\ CreditIsCovered' /\ OnlyConnectedParks' /\ NoReceiveOverrun'
      /\ BytesReadyIsLowerBound' /\ NoLostWakeup'
  BY <1>1, <1>3
     DEF TtyIInv, TtyTypeOK, CreditIsCovered, OnlyConnectedParks, NoReceiveOverrun,
         BytesReadyIsLowerBound, NoLostWakeup
<1> QED BY <1>5, <1>6, <1>7, <1>8, <1>9 DEF TtyIInv

LEMMA StepPreserves == TtyIInv /\ [TtyNext]_tty => TtyIInv'
<1> SUFFICES ASSUME TtyIInv, [TtyNext]_tty PROVE TtyIInv'
  OBVIOUS
<1>1. CASE TtyGuest
  BY <1>1, CmdIntPreserves, SetDataLenPreserves, BytesReadyPreserves,
     CmdReadBufferPreserves, GuestForgetsPreserves DEF TtyGuest
<1>2. CASE Chardev
  BY <1>2, ChrPollPreserves, ChrDeliverPreserves, MainLoopWakesPreserves
     DEF Chardev
<1>3. CASE UNCHANGED tty
  <2>1. TtyTypeOK'
    BY <1>3 DEF TtyIInv, TtyTypeOK, tty, rx, host, guest
  <2>2. RingIsConsistent' /\ RingHoldsStream' /\ StreamInOrder'
    BY <1>3, RingUntouched DEF tty, rx, host, guest
  <2> QED
    BY <1>3, <2>1, <2>2
       DEF tty, rx, host, guest, TtyIInv, CreditIsCovered, rx_free,
           OnlyConnectedParks, NoReceiveOverrun, BytesReadyIsLowerBound,
           NoLostWakeup
<1> QED BY <1>1, <1>2, <1>3 DEF TtyNext

----------------------------------------------------------------------------
(* The ring buffer, the chardev's credit and the guest's memory always fit *)
(* together.                                                               *)
THEOREM TtyInvariant == TtySpec => []TtyIInv
  BY InitEstablishes, StepPreserves, PTL DEF TtySpec

(* Every register of the tty keeps its range. *)
THEOREM TtyTypeCorrect == TtySpec => []TtyTypeOK
<1>1. TtyIInv => TtyTypeOK
  BY DEF TtyIInv
<1> QED BY <1>1, TtyInvariant, PTL

(* The assertion in receive never fails. *)
THEOREM TtyNoReceiveOverrun == TtySpec => []NoReceiveOverrun
<1>1. TtyIInv => NoReceiveOverrun
  BY DEF TtyIInv
<1> QED BY <1>1, TtyInvariant, PTL

(* The guest's memory is a prefix of the host's stream, and what is still  *)
(* missing is in the buffer.                                               *)
THEOREM TtyStreamInOrder == TtySpec => []StreamInOrder
<1>1. TtyIInv => StreamInOrder
  BY DEF TtyIInv
<1> QED BY <1>1, TtyInvariant, PTL

(* The guest's last BYTES_READY is never more than it can still read. *)
THEOREM TtyBytesReadyIsLowerBound == TtySpec => []BytesReadyIsLowerBound
<1>1. TtyIInv => BytesReadyIsLowerBound
  BY DEF TtyIInv
<1> QED BY <1>1, TtyInvariant, PTL

(* The chardev sleeps only while the buffer is full. *)
THEOREM TtyNoLostWakeup == TtySpec => []NoLostWakeup
<1>1. TtyIInv => NoLostWakeup
  BY DEF TtyIInv
<1> QED BY <1>1, TtyInvariant, PTL

----------------------------------------------------------------------------
(***************************************************************************)
(* The refinement of IrqFifo.  Under the invariant the queue is a stretch  *)
(* of the host's stream, which makes each step's effect on it plain.       *)
(***************************************************************************)

LEMMA QueueIsStretch ==
  TtyIInv => /\ Queue = [k \in 1 .. rx_count |-> Len(got) + k]
             /\ rx_count \in 0 .. BufferSize /\ Len(got) \in Nat
             /\ Len(got) + rx_count = sent /\ sent \in 0 .. HostBytes
<1> SUFFICES ASSUME TtyIInv
             PROVE  /\ Queue = [k \in 1 .. rx_count |-> Len(got) + k]
                    /\ rx_count \in 0 .. BufferSize /\ Len(got) \in Nat
                    /\ Len(got) + rx_count = sent /\ sent \in 0 .. HostBytes
  OBVIOUS
<1>1. /\ rx_count \in 0 .. BufferSize /\ Len(got) \in Nat
      /\ Len(got) + rx_count = sent /\ sent \in 0 .. HostBytes
  BY DEF TtyIInv, TtyTypeOK, StreamInOrder
<1>2. \A k \in 1 .. rx_count : RxAt(k - 1) = Len(got) + k
  BY <1>1, TtyAssumption DEF TtyIInv, RingHoldsStream
<1> QED BY <1>1, <1>2 DEF Queue

LEMMA StretchFacts ==
  ASSUME NEW n \in Nat, NEW g \in Nat
  PROVE  LET s == [k \in 1 .. n |-> g + k]
         IN  /\ s \in Seq(Nat) /\ Len(s) = n
             /\ (s = <<>>) <=> (n = 0)
  OBVIOUS

(* Taking the m oldest leaves the rest of the stretch. *)
LEMMA StretchTake ==
  ASSUME NEW n \in Nat, NEW g \in Nat, NEW m \in 0 .. n
  PROVE  SubSeq([k \in 1 .. n |-> g + k], m + 1, n) =
           [k \in 1 .. n - m |-> (g + m) + k]
  OBVIOUS

(* The queue is empty exactly when rx_count is 0. *)
LEMMA QueueEmpty ==
  TtyIInv => /\ Queue \in Seq(Nat) /\ Len(Queue) = rx_count
             /\ (Queue = <<>>) <=> (rx_count = 0)
  BY QueueIsStretch, StretchFacts

LEMMA InitRefines == TtyInit => Fifo!Init
<1> SUFFICES ASSUME TtyInit PROVE Fifo!Init
  OBVIOUS
<1>1. Queue = <<>>
  BY InitEstablishes, QueueEmpty DEF TtyInit
<1> QED BY <1>1 DEF TtyInit, Fifo!Init

(* Every step of the tty is a step of the queue or leaves it alone. *)
LEMMA StepRefines == TtyIInv /\ [TtyNext]_tty => [Fifo!Next]_(Fifo!vars)
<1> SUFFICES ASSUME TtyIInv, [TtyNext]_tty PROVE [Fifo!Next]_(Fifo!vars)
  OBVIOUS
<1> USE TtyAssumption
<1>1. TtyIInv'
  BY StepPreserves
<1>2. /\ Queue = [k \in 1 .. rx_count |-> Len(got) + k]
      /\ rx_count \in 0 .. BufferSize /\ Len(got) \in Nat
      /\ Len(Queue) = rx_count
  BY QueueIsStretch, QueueEmpty
<1>3. /\ Queue' = [k \in 1 .. rx_count' |-> Len(got') + k]
      /\ rx_count' \in 0 .. BufferSize /\ Len(got') \in Nat
      /\ Len(got') + rx_count' = sent' /\ sent' \in 0 .. HostBytes
      /\ (Queue' = <<>>) <=> (rx_count' = 0)
  <2>1. (/\ Queue = [k \in 1 .. rx_count |-> Len(got) + k]
         /\ rx_count \in 0 .. BufferSize /\ Len(got) \in Nat
         /\ Len(got) + rx_count = sent /\ sent \in 0 .. HostBytes
         /\ (Queue = <<>>) <=> (rx_count = 0))'
    BY <1>1, QueueIsStretch, QueueEmpty, PTL
  <2> QED BY <2>1
<1>4. ASSUME UpdateIrq PROVE Fifo!Follows
  BY <1>3, <1>4 DEF UpdateIrq, Fifo!Follows
<1>5. ASSUME UNCHANGED <<rx, got, int_enabled, tty_irq>>
      PROVE  UNCHANGED Fifo!vars
  BY <1>5 DEF Fifo!vars, Queue, RxAt, rx
<1>6. ASSUME NEW enable \in BOOLEAN, CmdInt(enable)
      PROVE  Fifo!Next
  <2>1. Queue' = Queue /\ Fifo!Follows /\ int_enabled' = enable
    BY <1>4, <1>6 DEF CmdInt, Queue, RxAt, rx
  <2>2. Fifo!SetOn(enable)
    BY <2>1 DEF Fifo!SetOn
  <2> QED BY <2>2 DEF Fifo!Next
<1>7. ASSUME CmdReadBuffer
      PROVE  Fifo!Next
  <2> DEFINE n == Least(data_len, rx_count)
  <2>1. n \in 0 .. rx_count
    BY <1>2 DEF TtyIInv, TtyTypeOK, Least
  <2>2. rx_count' = rx_count - n /\ int_enabled' = int_enabled /\ Fifo!Follows
    BY <1>4, <1>7 DEF CmdReadBuffer
  <2>3. Len(got') = Len(got) + n
    BY <1>1, <1>2, <1>3, <1>7, <2>1, <2>2
       DEF TtyIInv, StreamInOrder, CmdReadBuffer
  <2> HIDE DEF n
  <2>4. Queue' = SubSeq(Queue, n + 1, Len(Queue))
    BY <1>2, <1>3, <2>1, <2>2, <2>3, StretchTake
  <2>5. Fifo!Take(n)
    BY <2>2, <2>4 DEF Fifo!Take
  <2> QED BY <1>2, <2>1, <2>5 DEF Fifo!Next
<1>8. ASSUME NEW size \in 1 .. BufferSize, ChrDeliver(size)
      PROVE  Fifo!Next
  <2>1. size <= rx_free
    BY <1>2, <1>8 DEF TtyIInv, TtyTypeOK, ChrDeliver, CreditIsCovered, rx_free
  <2>2. /\ rx_count' = rx_count + size /\ got' = got
        /\ int_enabled' = int_enabled /\ Fifo!Follows
    BY <1>2, <1>4, <1>8, <2>1 DEF ChrDeliver, Receive, guest, rx_free
  <2>3. Queue' \in [1 .. rx_count' -> 1 .. HostBytes]
    BY <1>3
  <2>4. \A k \in 1 .. Len(Queue) : Queue'[k] = Queue[k]
    BY <1>2, <1>3, <2>2
  <2>5. rx_count' \in Len(Queue) + 1 .. BufferSize
    BY <1>2, <1>3, <2>2
  <2>6. Fifo!Put
    BY <2>2, <2>3, <2>4, <2>5 DEF Fifo!Put
  <2> QED BY <2>6 DEF Fifo!Next
<1>9. CASE TtyGuest
  <2>1. ASSUME NEW len \in 0 .. MaxLen, SetDataLen(len)
        PROVE  UNCHANGED <<rx, got, int_enabled, tty_irq>>
    BY <2>1 DEF SetDataLen, guest
  <2>2. ASSUME BytesReady \/ GuestForgets
        PROVE  UNCHANGED <<rx, got, int_enabled, tty_irq>>
    BY <2>2 DEF BytesReady, GuestForgets
  <2> QED BY <1>5, <1>6, <1>7, <1>9, <2>1, <2>2 DEF TtyGuest
<1>10. CASE Chardev
  <2>1. ASSUME ChrPoll \/ MainLoopWakes
        PROVE  UNCHANGED <<rx, got, int_enabled, tty_irq>>
    BY <2>1 DEF ChrPoll, MainLoopWakes, guest
  <2> QED BY <1>5, <1>8, <1>10, <2>1 DEF Chardev
<1>11. CASE UNCHANGED tty
  BY <1>5, <1>11 DEF tty, guest
<1> QED BY <1>9, <1>10, <1>11 DEF TtyNext

(* The tty's receive buffer implements the bounded queue with a            *)
(* level-triggered line, for every size of the buffer.                     *)
THEOREM TtyRefinesIrqFifo == TtySpec => ImplementsIrqFifo
  BY InitRefines, StepRefines, TtyInvariant, PTL
     DEF TtySpec, ImplementsIrqFifo, Fifo!Spec

============================================================================
