------------------------ MODULE GoldfishTtyDmaProofs ------------------------
(***************************************************************************)
(* Proofs about the loops of the tty's commands, for addresses of any      *)
(* width, every size of the array and the ring, every length and all       *)
(* bytes: the loops implement TtyTransfer, whose commands move the whole   *)
(* buffer in one step.                                                     *)
(*                                                                         *)
(* The command's step is the one that begins the loop; a turn must then    *)
(* leave alone what the abstract machine sees.  It does so because the     *)
(* pointer advances by as many bytes as the turn moves, modulo the size of *)
(* the address space, which is at least the ring's.                        *)
(***************************************************************************)
EXTENDS GoldfishTtyDma, TLAPS

----------------------------------------------------------------------------
(* Arithmetic of addresses. *)

LEMMA SpaceFacts ==
  /\ Half \in Nat \ {0} /\ Space \in Nat \ {0}
  /\ BufferSize \in Nat \ {0} /\ BufferSize <= Space
  /\ MaxLen \in Nat
  BY DmaAssumption DEF Space

(* Two halves make an address, and an address has two halves. *)
LEMMA JoinBelow ==
  ASSUME NEW L \in Nat, NEW H \in Nat, NEW h \in 0 .. H - 1, NEW l \in 0 .. L - 1
  PROVE  h * L + l \in 0 .. L * H - 1
<1>1. PICK d \in Nat : H = h + 1 + d
  <2>1. H - 1 - h \in Nat /\ H = h + 1 + (H - 1 - h)
    OBVIOUS
  <2> QED BY <2>1
<1>2. L * H = h * L + L + L * d
  BY <1>1
<1>3. L * d \in Nat /\ h * L \in Nat
  BY <1>1
<1> QED BY <1>2, <1>3

LEMMA HighBelow ==
  ASSUME NEW L \in Nat \ {0}, NEW H \in Nat, NEW t \in 0 .. L * H - 1
  PROVE  t \div L \in 0 .. H - 1
<1> DEFINE q == t \div L
<1>1. q \in Nat /\ q * L <= t
  OBVIOUS
<1> HIDE DEF q
<1>2. ASSUME q >= H PROVE FALSE
  <2>1. PICK d \in Nat : q = H + d
    <3>1. q - H \in Nat /\ q = H + (q - H)
      BY <1>1, <1>2
    <3> QED BY <3>1
  <2>2. q * L = L * H + L * d /\ L * d \in Nat
    BY <1>1, <2>1
  <2> QED BY <1>1, <2>2
<1>3. q \in 0 .. H - 1
  BY <1>1, <1>2
<1> QED BY <1>3 DEF q

LEMMA Halves ==
  ASSUME NEW a \in Addresses
  PROVE  /\ a \div Half \in 0 .. Half - 1 /\ a % Half \in 0 .. Half - 1
         /\ (a \div Half) * Half + (a % Half) = a
<1>1. Half \in Nat \ {0} /\ a \in 0 .. Half * Half - 1 /\ a \in Nat
  BY SpaceFacts DEF Addresses, Space
<1>2. a \div Half \in 0 .. Half - 1
  BY <1>1, HighBelow
<1>3. a % Half \in 0 .. Half - 1 /\ (a \div Half) * Half + (a % Half) = a
  BY <1>1
<1> QED BY <1>2, <1>3

LEMMA Joined ==
  ASSUME NEW h \in 0 .. Half - 1, NEW l \in 0 .. Half - 1
  PROVE  /\ h * Half + l \in Addresses
         /\ (h * Half + l) \div Half = h /\ (h * Half + l) % Half = l
<1>1. h * Half + l \in Addresses
  BY SpaceFacts, JoinBelow DEF Addresses, Space
<1>2. (h * Half + l) \div Half = h /\ (h * Half + l) % Half = l
  BY SpaceFacts
<1> QED BY <1>1, <1>2

(* A pointer that passes the end of the space goes on at its beginning.    *)
LEMMA Forward ==
  ASSUME NEW S \in Nat \ {0}, NEW p \in 0 .. S - 1, NEW n \in 0 .. S
  PROVE  (p + n) % S = IF p + n < S THEN p + n ELSE p + n - S
  OBVIOUS

LEMMA Remainder ==
  ASSUME NEW S \in Nat \ {0}, NEW q \in Int, NEW r \in 0 .. S - 1
  PROVE  (q * S + r) % S = r
  OBVIOUS

LEMMA Period ==
  ASSUME NEW S \in Nat \ {0}, NEW x \in Int
  PROVE  (x - S) % S = x % S
<1> DEFINE q == x \div S
           r == x % S
<1>1. q \in Int /\ r \in 0 .. S - 1 /\ x = q * S + r
  OBVIOUS
<1> HIDE DEF q, r
<1>2. q - 1 \in Int /\ x - S = (q - 1) * S + r
  BY <1>1
<1>3. ((q - 1) * S + r) % S = r
  <2> DEFINE z == q - 1
  <2> HIDE DEF z
  <2>1. z \in Int
    BY <1>2 DEF z
  <2>2. (z * S + r) % S = r
    BY <1>1, <2>1, Remainder
  <2> QED BY <2>2 DEF z
<1> QED BY <1>2, <1>3 DEF r

(* Address p plus c, plus k more, is address p plus c + k. *)
LEMMA ForwardTwice ==
  ASSUME NEW p \in Addresses, NEW c \in 0 .. Space, NEW k \in Nat
  PROVE  (((p + c) % Space) + k) % Space = (p + (c + k)) % Space
<1>1. p \in 0 .. Space - 1 /\ Space \in Nat \ {0}
  BY SpaceFacts DEF Addresses
<1>2. (p + c) % Space = IF p + c < Space THEN p + c ELSE p + c - Space
  BY <1>1, Forward
<1>3. CASE p + c < Space
  <2>1. (p + c) + k = p + (c + k)
    BY <1>1
  <2> QED BY <1>2, <1>3, <2>1
<1>4. CASE ~(p + c < Space)
  <2>1. (p + c - Space) + k = (p + (c + k)) - Space /\ p + (c + k) \in Int
    BY <1>1
  <2>2. ((p + (c + k)) - Space) % Space = (p + (c + k)) % Space
    BY <1>1, <2>1, Period
  <2> QED BY <1>2, <1>4, <2>1, <2>2
<1> QED BY <1>3, <1>4

----------------------------------------------------------------------------
(* Which byte of a transfer from p on meets address a: its place, counted  *)
(* from 1.  A transfer that is not longer than the space meets it once.    *)
Place(a, p) == IF a >= p THEN a - p + 1 ELSE a - p + Space + 1

LEMMA PlaceIs ==
  ASSUME NEW a \in Addresses, NEW p \in Addresses
  PROVE  /\ Place(a, p) \in 1 .. Space
         /\ ((a - p) % Space) + 1 = Place(a, p)
         /\ \A k \in 1 .. Space : (p + k - 1) % Space = a <=> k = Place(a, p)
<1>1. a \in 0 .. Space - 1 /\ p \in 0 .. Space - 1 /\ Space \in Nat \ {0}
  BY SpaceFacts DEF Addresses
<1>2. Place(a, p) \in 1 .. Space
  BY <1>1 DEF Place
<1>3. (a - p) % Space = IF a >= p THEN a - p ELSE a - p + Space
  BY <1>1
<1>4. ASSUME NEW k \in 1 .. Space
      PROVE  (p + k - 1) % Space = a <=> k = Place(a, p)
  <2>1. k - 1 \in 0 .. Space /\ p + (k - 1) = p + k - 1
    BY <1>1
  <2>2. (p + (k - 1)) % Space =
          IF p + (k - 1) < Space THEN p + (k - 1) ELSE p + (k - 1) - Space
    BY <1>1, <2>1, Forward
  <2>3. (p + k - 1) % Space =
          IF p + k - 1 < Space THEN p + k - 1 ELSE p + k - 1 - Space
    BY <2>1, <2>2
  <2> QED BY <1>1, <2>3 DEF Place
<1> QED BY <1>1, <1>2, <1>3, <1>4 DEF Place

(* The place counted from c bytes further on. *)
LEMMA PlaceOn ==
  ASSUME NEW a \in Addresses, NEW p \in Addresses, NEW c \in 0 .. Space
  PROVE  Place(a, (p + c) % Space) =
           IF Place(a, p) > c THEN Place(a, p) - c ELSE Place(a, p) - c + Space
<1>1. a \in 0 .. Space - 1 /\ p \in 0 .. Space - 1 /\ Space \in Nat \ {0}
  BY SpaceFacts DEF Addresses
<1>2. (p + c) % Space = IF p + c < Space THEN p + c ELSE p + c - Space
  BY <1>1, Forward
<1> QED BY <1>1, <1>2 DEF Place

(* A transfer of n bytes meets the address at its place or not at all.     *)
LEMMA HitsAre ==
  ASSUME NEW a \in Addresses, NEW p \in Addresses, NEW n \in 0 .. Space
  PROVE  {k \in 1 .. n : (p + k - 1) % Space = a}
           = IF Place(a, p) <= n THEN {Place(a, p)} ELSE {}
<1> DEFINE d == Place(a, p)
<1>1. d \in 1 .. Space /\ Space \in Nat \ {0}
      /\ \A k \in 1 .. Space : (p + k - 1) % Space = a <=> k = d
  BY PlaceIs, SpaceFacts
<1> HIDE DEF d
<1>2. CASE d <= n
  BY <1>1, <1>2 DEF d
<1>3. CASE ~(d <= n)
  BY <1>1, <1>3 DEF d
<1> QED BY <1>2, <1>3

LEMMA OnlyOne ==
  ASSUME NEW d \in Int
  PROVE  (CHOOSE k \in {d} : \A j \in {d} : j <= k) = d
  OBVIOUS

----------------------------------------------------------------------------
(* Sequences of bytes. *)

LEMMA ConcatFacts ==
  ASSUME NEW S, NEW s \in Seq(S), NEW t \in Seq(S)
  PROVE  /\ s \o t \in Seq(S)
         /\ Len(s \o t) = Len(s) + Len(t)
         /\ \A k \in 1 .. Len(s) : (s \o t)[k] = s[k]
         /\ \A k \in Len(s) + 1 .. Len(s) + Len(t) :
              (s \o t)[k] = t[k - Len(s)]
  OBVIOUS

LEMMA SameSeq ==
  ASSUME NEW S, NEW s \in Seq(S), NEW t \in Seq(S), Len(s) = Len(t),
         \A k \in 1 .. Len(s) : s[k] = t[k]
  PROVE  s = t
  OBVIOUS

LEMMA RestFacts ==
  ASSUME NEW S, NEW s \in Seq(S), NEW n \in 0 .. Len(s)
  PROVE  /\ SubSeq(s, 1, n) \in Seq(S) /\ Len(SubSeq(s, 1, n)) = n
         /\ \A k \in 1 .. n : SubSeq(s, 1, n)[k] = s[k]
         /\ SubSeq(s, n + 1, Len(s)) \in Seq(S)
         /\ Len(SubSeq(s, n + 1, Len(s))) = Len(s) - n
         /\ \A k \in 1 .. Len(s) - n : SubSeq(s, n + 1, Len(s))[k] = s[n + k]
  OBVIOUS

LEMMA WholeSeq ==
  ASSUME NEW S, NEW s \in Seq(S)
  PROVE  SubSeq(s, 1, Len(s)) = s /\ s \o <<>> = s
  OBVIOUS

(* What is left after n and then m bytes is what is left after n + m.      *)
LEMMA RestOfRest ==
  ASSUME NEW S, NEW s \in Seq(S), NEW n \in Nat, NEW m \in Nat, n + m <= Len(s)
  PROVE  LET rest == SubSeq(s, n + 1, Len(s))
         IN  SubSeq(rest, m + 1, Len(rest)) = SubSeq(s, n + m + 1, Len(s))
  OBVIOUS

LEMMA ConcatTwice ==
  ASSUME NEW S, NEW s \in Seq(S), NEW t \in Seq(S), NEW u \in Seq(S)
  PROVE  (s \o t) \o u = s \o (t \o u)
  OBVIOUS

LEMMA LoadFacts ==
  ASSUME memory \in [Addresses -> Bytes], NEW p \in Addresses, NEW n \in Nat
  PROVE  /\ GuestRead(p, n) \in Seq(Bytes) /\ Len(GuestRead(p, n)) = n
         /\ \A k \in 1 .. n : GuestRead(p, n)[k] = memory[(p + k - 1) % Space]
<1>1. \A k \in 1 .. n : (p + k - 1) % Space \in Addresses
  BY SpaceFacts DEF Addresses
<1>2. GuestRead(p, n) \in [1 .. n -> Bytes]
  BY <1>1 DEF GuestRead
<1>3. GuestRead(p, n) \in Seq(Bytes) /\ Len(GuestRead(p, n)) = n
  BY <1>2
<1> QED BY <1>3 DEF GuestRead

(* A buffer is its first c bytes and those from c bytes further on.        *)
LEMMA LoadTwice ==
  ASSUME memory \in [Addresses -> Bytes],
         NEW p \in Addresses, NEW c \in 0 .. Space, NEW n \in Nat
  PROVE  GuestRead(p, c) \o GuestRead((p + c) % Space, n) = GuestRead(p, c + n)
<1> DEFINE q == (p + c) % Space
           first == GuestRead(p, c)
           rest == GuestRead(q, n)
           whole == GuestRead(p, c + n)
<1>1. q \in Addresses /\ c \in Nat /\ c + n \in Nat /\ p \in Int
  BY SpaceFacts DEF Addresses
<1>2. \A k \in Nat : (q + k) % Space = (p + (c + k)) % Space
  BY ForwardTwice
<1> HIDE DEF q
<1>3. /\ first \in Seq(Bytes) /\ Len(first) = c
      /\ \A k \in 1 .. c : first[k] = memory[(p + k - 1) % Space]
  BY <1>1, LoadFacts
<1>4. /\ rest \in Seq(Bytes) /\ Len(rest) = n
      /\ \A k \in 1 .. n : rest[k] = memory[(q + k - 1) % Space]
  BY <1>1, LoadFacts
<1>5. /\ whole \in Seq(Bytes) /\ Len(whole) = c + n
      /\ \A k \in 1 .. c + n : whole[k] = memory[(p + k - 1) % Space]
  BY <1>1, LoadFacts
<1> HIDE DEF first, rest, whole
<1>6. /\ first \o rest \in Seq(Bytes) /\ Len(first \o rest) = c + n
      /\ \A k \in 1 .. c : (first \o rest)[k] = first[k]
      /\ \A k \in c + 1 .. c + n : (first \o rest)[k] = rest[k - c]
  <2>1. /\ first \o rest \in Seq(Bytes)
        /\ Len(first \o rest) = Len(first) + Len(rest)
        /\ \A k \in 1 .. Len(first) : (first \o rest)[k] = first[k]
        /\ \A k \in Len(first) + 1 .. Len(first) + Len(rest) :
             (first \o rest)[k] = rest[k - Len(first)]
    BY <1>3, <1>4, ConcatFacts
  <2> QED BY <1>3, <1>4, <2>1
<1>7. ASSUME NEW k \in 1 .. c + n PROVE (first \o rest)[k] = whole[k]
  <2>1. CASE k <= c
    <3>1. k \in 1 .. c
      BY <1>1, <2>1
    <3> QED BY <1>3, <1>5, <1>6, <3>1
  <2>2. CASE k > c
    <3>1. k - c \in 1 .. n /\ k \in c + 1 .. c + n
      BY <1>1, <2>2
    <3>2. rest[k - c] = memory[(q + (k - c) - 1) % Space]
      BY <1>4, <3>1
    <3>3. /\ k - c - 1 \in Nat /\ q \in Int
          /\ q + (k - c) - 1 = q + (k - c - 1)
          /\ p + (c + (k - c - 1)) = p + k - 1
      BY <1>1, <3>1 DEF Addresses
    <3>4. (q + (k - c - 1)) % Space = (p + k - 1) % Space
      BY <1>2, <3>3
    <3> QED BY <1>5, <1>6, <3>1, <3>2, <3>3, <3>4
  <2>3. k <= c \/ k > c
    BY <1>1
  <2> QED BY <2>1, <2>2, <2>3
<1>8. first \o rest = whole
  BY <1>5, <1>6, <1>7, SameSeq
<1> QED BY <1>8 DEF first, rest, whole, q

----------------------------------------------------------------------------
(* The type invariant is inductive. *)

LEMMA InitEstablishes == Init => TypeOK
<1>1. 0 \in Addresses /\ 0 \in 0 .. MaxLen
  BY SpaceFacts DEF Addresses
<1> QED BY <1>1, SpaceFacts DEF Init, TypeOK

LEMMA HighAndLow ==
  ASSUME TypeOK
  PROVE  /\ data_ptr \div Half \in 0 .. Half - 1
         /\ data_ptr % Half \in 0 .. Half - 1
         /\ data_ptr - (data_ptr % Half) = (data_ptr \div Half) * Half
         /\ (data_ptr \div Half) * Half + (data_ptr % Half) = data_ptr
<1>1. data_ptr \in Addresses /\ data_ptr \in Int
  BY SpaceFacts DEF TypeOK, Addresses
<1>2. /\ data_ptr \div Half \in 0 .. Half - 1
      /\ data_ptr % Half \in 0 .. Half - 1
      /\ (data_ptr \div Half) * Half + (data_ptr % Half) = data_ptr
  BY <1>1, Halves
<1>3. (data_ptr \div Half) * Half \in Int
  BY <1>2, SpaceFacts
<1> QED BY <1>1, <1>2, <1>3

LEMMA TurnFacts ==
  ASSUME TypeOK, remaining # 0
  PROVE  /\ Chunk \in 1 .. BufferSize /\ Chunk <= remaining
         /\ Chunk \in 0 .. Space
  BY SpaceFacts DEF TypeOK, Chunk

LEMMA AdvancePreserves ==
  ASSUME TypeOK, NEW c \in 0 .. Space, c <= remaining, Advance(c)
  PROVE  /\ ptr' \in Addresses /\ ptr' = (ptr + c) % Space
         /\ remaining' = remaining - c /\ remaining' \in 0 .. MaxLen
         /\ pc' = pc
<1>1. (ptr + c) % Space \in Addresses
  BY SpaceFacts DEF TypeOK, Addresses
<1> QED BY <1>1, SpaceFacts DEF Advance, TypeOK

LEMMA StepPreserves == TypeOK /\ [Next]_vars => TypeOK'
<1> SUFFICES ASSUME TypeOK, [Next]_vars PROVE TypeOK'
  OBVIOUS
<1>1. ASSUME NEW half \in 0 .. Half - 1, SetDataPtr(half) PROVE TypeOK'
  <2>1. /\ data_ptr \div Half \in 0 .. Half - 1
        /\ data_ptr - (data_ptr % Half) = (data_ptr \div Half) * Half
    BY HighAndLow
  <2>2. data_ptr' \in Addresses
    BY <1>1, <2>1, Joined DEF SetDataPtr
  <2> QED BY <1>1, <2>2 DEF SetDataPtr, Idle, loop, TypeOK
<1>2. ASSUME NEW half \in 0 .. Half - 1, SetDataPtrHigh(half) PROVE TypeOK'
  <2>1. /\ data_ptr % Half \in 0 .. Half - 1
        /\ (data_ptr % Half) + half * Half = half * Half + (data_ptr % Half)
    BY HighAndLow, SpaceFacts
  <2>2. data_ptr' \in Addresses
    BY <1>2, <2>1, Joined DEF SetDataPtrHigh
  <2> QED BY <1>2, <2>2 DEF SetDataPtrHigh, Idle, loop, TypeOK
<1>3. ASSUME NEW len \in 0 .. MaxLen, SetDataLen(len) PROVE TypeOK'
  BY <1>3 DEF SetDataLen, Idle, loop, TypeOK
<1>4. ASSUME NEW c \in Bytes, PutChar(c) PROVE TypeOK'
  <2>1. out' \in Seq(Bytes)
    BY <1>4 DEF PutChar, Write, TypeOK
  <2> QED BY <1>4, <2>1 DEF PutChar, Idle, registers, loop, TypeOK
<1>5. ASSUME NEW c \in Bytes, Receive(c) PROVE TypeOK'
  <2>1. queue' \in Seq(Bytes) /\ Len(queue') <= BufferSize
    BY <1>5, SpaceFacts DEF Receive, TypeOK
  <2> QED BY <1>5, <2>1 DEF Receive, Idle, registers, loop, TypeOK
<1>6. ASSUME NEW a \in Addresses, NEW c \in Bytes, GuestStores(a, c)
      PROVE  TypeOK'
  BY <1>6 DEF GuestStores, Idle, registers, loop, TypeOK
<1>7. CASE CmdWriteBuffer \/ CmdReadBuffer
  BY <1>7 DEF CmdWriteBuffer, CmdReadBuffer, Command, registers, TypeOK
<1>8. CASE WriteTurn
  <2>1. CASE remaining = 0
    <3>1. 0 \in Addresses /\ 0 \in 0 .. MaxLen
      BY SpaceFacts DEF Addresses
    <3> QED BY <1>8, <2>1, <3>1 DEF WriteTurn, Return, registers, TypeOK
  <2>2. CASE remaining # 0
    <3>1. /\ Write(GuestRead(ptr, Chunk)) /\ Advance(Chunk)
          /\ UNCHANGED <<memory, queue, registers, connected>>
      BY <1>8, <2>2 DEF WriteTurn
    <3>2. Chunk \in 0 .. Space /\ Chunk <= remaining
      BY <2>2, TurnFacts
    <3>3. /\ ptr' \in Addresses /\ remaining' \in 0 .. MaxLen /\ pc' = pc
      BY <3>1, <3>2, AdvancePreserves
    <3>4. GuestRead(ptr, Chunk) \in Seq(Bytes)
      BY <3>2, LoadFacts DEF TypeOK
    <3>5. out' \in Seq(Bytes)
      BY <3>1, <3>4, ConcatFacts DEF Write, TypeOK
    <3> QED BY <3>1, <3>3, <3>5 DEF registers, TypeOK
  <2> QED BY <2>1, <2>2
<1>9. CASE ReadTurn
  <2>1. CASE ReadDone
    <3>1. 0 \in Addresses /\ 0 \in 0 .. MaxLen
      BY SpaceFacts DEF Addresses
    <3> QED BY <1>9, <2>1, <3>1 DEF ReadTurn, Return, registers, TypeOK
  <2>2. CASE ~ReadDone
    <3> DEFINE c == IF Chunk <= Len(queue) THEN Chunk ELSE Len(queue)
    <3>1. /\ GuestWrite(ptr, SubSeq(queue, 1, c))
          /\ queue' = SubSeq(queue, c + 1, Len(queue))
          /\ Advance(c)
          /\ UNCHANGED <<out, registers, connected>>
      BY <1>9, <2>2 DEF ReadTurn
    <3>2. c \in 0 .. Space /\ c <= remaining /\ c \in 0 .. Len(queue)
      BY <2>2, TurnFacts, SpaceFacts DEF ReadDone, TypeOK
    <3> HIDE DEF c
    <3>3. ptr' \in Addresses /\ remaining' \in 0 .. MaxLen /\ pc' = pc
      BY <3>1, <3>2, AdvancePreserves
    <3>4. /\ queue' \in Seq(Bytes) /\ Len(queue') = Len(queue) - c
          /\ SubSeq(queue, 1, c) \in Seq(Bytes)
      BY <3>1, <3>2, RestFacts DEF TypeOK
    <3>5. Len(queue') <= BufferSize
      BY <3>2, <3>4, SpaceFacts DEF TypeOK
    <3>6. memory' \in [Addresses -> Bytes]
      <4> DEFINE bytes == SubSeq(queue, 1, c)
                 k(a) == ((a - ptr) % Space) + 1
      <4>1. \A a \in Addresses : k(a) \in Nat \ {0}
        BY SpaceFacts DEF Addresses, TypeOK
      <4>2. memory' = [a \in Addresses |->
                         IF k(a) <= Len(bytes) THEN bytes[k(a)] ELSE memory[a]]
        BY <3>1 DEF GuestWrite
      <4>3. bytes \in Seq(Bytes)
        BY <3>4
      <4> HIDE DEF bytes, k
      <4>4. \A a \in Addresses :
              (IF k(a) <= Len(bytes) THEN bytes[k(a)] ELSE memory[a]) \in Bytes
        BY <4>1, <4>3 DEF TypeOK
      <4> QED BY <4>2, <4>4
    <3> QED BY <3>1, <3>3, <3>4, <3>5, <3>6 DEF registers, TypeOK
  <2> QED BY <2>1, <2>2
<1>10. CASE UNCHANGED vars
  BY <1>10 DEF vars, registers, loop, TypeOK
<1> QED BY <1>1, <1>2, <1>3, <1>4, <1>5, <1>6, <1>7, <1>8, <1>9, <1>10
        DEF Next, Registers, Turn

(* The registers, the ring, the memory and the loop's variables keep their *)
(* types, and the ring never holds more than it has room for.              *)
THEOREM DmaTypeCorrect == Spec => []TypeOK
  BY InitEstablishes, StepPreserves, PTL DEF Spec

----------------------------------------------------------------------------
(* What the abstract machine sees. *)

MovedIs ==
  /\ ToRead \in 0 .. Len(queue) /\ ToRead \in 0 .. Space
  /\ MovedMemory = [a \in Addresses |->
                      IF Place(a, ptr) <= ToRead THEN queue[Place(a, ptr)]
                                                 ELSE memory[a]]

LEMMA Moved == TypeOK => MovedIs
<1> SUFFICES ASSUME TypeOK PROVE MovedIs
  OBVIOUS
<1>1. ToRead \in 0 .. Len(queue) /\ ToRead \in 0 .. Space
  BY SpaceFacts DEF TypeOK, ToRead
<1>2. ptr \in Addresses
  BY DEF TypeOK
<1>3. ASSUME NEW a \in Addresses
      PROVE  (LET hits == {k \in 1 .. ToRead : (ptr + k - 1) % Space = a}
              IN  IF hits = {} THEN memory[a]
                  ELSE queue[CHOOSE k \in hits : \A j \in hits : j <= k])
             = IF Place(a, ptr) <= ToRead THEN queue[Place(a, ptr)]
                                          ELSE memory[a]
  <2> DEFINE d == Place(a, ptr)
             hits == {k \in 1 .. ToRead : (ptr + k - 1) % Space = a}
  <2>1. hits = IF d <= ToRead THEN {d} ELSE {}
    BY <1>1, <1>2, HitsAre
  <2>2. d \in Int
    BY <1>2, PlaceIs
  <2> HIDE DEF d, hits
  <2>3. CASE d <= ToRead
    <3>1. hits = {d} /\ hits # {}
      BY <2>1, <2>3
    <3>2. (CHOOSE k \in hits : \A j \in hits : j <= k) = d
      BY <2>2, <3>1, OnlyOne
    <3>3. (IF hits = {} THEN memory[a]
           ELSE queue[CHOOSE k \in hits : \A j \in hits : j <= k]) = queue[d]
      BY <3>1, <3>2
    <3> QED BY <2>3, <3>3 DEF d, hits
  <2>4. CASE ~(d <= ToRead)
    BY <2>1, <2>4 DEF d, hits
  <2> QED BY <2>3, <2>4
<1>4. MovedMemory = [a \in Addresses |->
                       IF Place(a, ptr) <= ToRead THEN queue[Place(a, ptr)]
                                                  ELSE memory[a]]
  BY <1>3 DEF MovedMemory
<1> QED BY <1>1, <1>4 DEF MovedIs

LEMMA NoneMoved ==
  ASSUME TypeOK, ToRead = 0
  PROVE  MovedMemory = memory
<1>1. \A a \in Addresses : ~(Place(a, ptr) <= 0)
  BY PlaceIs DEF TypeOK
<1>2. MovedMemory = [a \in Addresses |-> memory[a]]
  BY <1>1, Moved DEF MovedIs
<1> QED BY <1>2 DEF TypeOK

(* Outside of READ_BUFFER's loop nothing is on its way to the guest, and   *)
(* outside of every loop nothing at all.                                   *)
LEMMA NotReading ==
  ASSUME TypeOK, pc # "read"
  PROVE  MovedMemory = memory /\ MovedQueue = queue
<1>1. ToRead = 0
  BY DEF ToRead
<1>2. MovedQueue = queue
  BY <1>1, WholeSeq DEF MovedQueue, TypeOK
<1> QED BY <1>1, <1>2, NoneMoved

LEMMA NotWriting ==
  ASSUME TypeOK, pc # "write"
  PROVE  MovedOut = out
  BY WholeSeq DEF MovedOut, ToWrite, TypeOK

(* Memory after a turn: the bytes it moved are in their places, and the    *)
(* places of the others are counted from the advanced pointer.             *)
LEMMA ReadTurnMoves ==
  ASSUME TypeOK, TypeOK', ReadTurn, ~ReadDone
  PROVE  MovedMemory' = MovedMemory /\ MovedQueue' = MovedQueue
<1> DEFINE c == IF Chunk <= Len(queue) THEN Chunk ELSE Len(queue)
<1>1. /\ GuestWrite(ptr, SubSeq(queue, 1, c))
      /\ queue' = SubSeq(queue, c + 1, Len(queue))
      /\ Advance(c) /\ pc = "read"
  BY DEF ReadTurn
<1>2. c \in 0 .. Space /\ c <= remaining /\ c \in 0 .. Len(queue)
  BY TurnFacts, SpaceFacts DEF ReadDone, TypeOK
<1> HIDE DEF c
<1>3. /\ ptr \in Addresses /\ queue \in Seq(Bytes) /\ Len(queue) \in Nat
      /\ ptr' = (ptr + c) % Space /\ remaining' = remaining - c
      /\ pc' = "read" /\ remaining \in Nat /\ Space \in Nat
  BY <1>1, <1>2, AdvancePreserves, SpaceFacts DEF TypeOK
<1>4. /\ Len(SubSeq(queue, 1, c)) = c
      /\ \A k \in 1 .. c : SubSeq(queue, 1, c)[k] = queue[k]
      /\ Len(queue') = Len(queue) - c
      /\ \A k \in 1 .. Len(queue) - c : queue'[k] = queue[c + k]
  BY <1>1, <1>2, <1>3, RestFacts
<1>5. ToRead \in Nat /\ ToRead <= Space /\ ToRead <= Len(queue)
      /\ c <= ToRead /\ ToRead' = ToRead - c
  BY <1>1, <1>2, <1>3, <1>4, Moved DEF ToRead, MovedIs
<1>6. ASSUME NEW a \in Addresses
      PROVE  memory'[a] = IF Place(a, ptr) <= c THEN queue[Place(a, ptr)]
                                                ELSE memory[a]
  <2> DEFINE bytes == SubSeq(queue, 1, c)
  <2>1. memory'[a] = IF ((a - ptr) % Space) + 1 <= Len(bytes)
                     THEN bytes[((a - ptr) % Space) + 1] ELSE memory[a]
    BY <1>1 DEF GuestWrite
  <2>2. Place(a, ptr) \in 1 .. Space /\ ((a - ptr) % Space) + 1 = Place(a, ptr)
    BY <1>3, PlaceIs
  <2>3. memory'[a] = IF Place(a, ptr) <= c THEN bytes[Place(a, ptr)]
                                           ELSE memory[a]
    BY <1>4, <2>1, <2>2
  <2> HIDE DEF bytes
  <2>4. Place(a, ptr) <= c => bytes[Place(a, ptr)] = queue[Place(a, ptr)]
    BY <1>2, <1>4, <2>2 DEF bytes
  <2> QED BY <2>3, <2>4
<1>7. ASSUME NEW a \in Addresses
      PROVE  (IF Place(a, ptr') <= ToRead' THEN queue'[Place(a, ptr')]
                                           ELSE memory'[a])
             = IF Place(a, ptr) <= ToRead THEN queue[Place(a, ptr)]
                                          ELSE memory[a]
  <2> DEFINE d == Place(a, ptr)
             e == Place(a, ptr')
  <2>1. d \in 1 .. Space /\ e = IF d > c THEN d - c ELSE d - c + Space
    BY <1>2, <1>3, PlaceIs, PlaceOn
  <2>2. memory'[a] = IF d <= c THEN queue[d] ELSE memory[a]
    BY <1>6
  <2> HIDE DEF d, e
  <2>3. CASE d > c
    <3>1. e = d - c /\ e \in Nat \ {0} /\ c + e = d /\ ~(d <= c)
      BY <1>2, <2>1, <2>3
    <3>2. e <= ToRead' <=> d <= ToRead
      BY <1>2, <1>5, <2>1, <3>1
    <3>3. d <= ToRead => queue'[e] = queue[d]
      <4>1. d <= ToRead => e \in 1 .. Len(queue) - c
        BY <1>2, <1>3, <1>5, <2>1, <3>1
      <4> QED BY <1>4, <3>1, <4>1
    <3>4. memory'[a] = memory[a]
      BY <2>2, <3>1
    <3> QED BY <3>2, <3>3, <3>4 DEF d, e
  <2>4. CASE d <= c
    <3>1. ~(e <= ToRead') /\ d <= ToRead
      BY <1>2, <1>3, <1>5, <2>1, <2>4
    <3> QED BY <2>2, <2>4, <3>1 DEF d, e
  <2>5. d > c \/ d <= c
    BY <1>2, <2>1
  <2> QED BY <2>3, <2>4, <2>5
<1>8. MovedMemory' = MovedMemory
  <2>1. (TypeOK => MovedIs)'
    BY Moved, PTL
  <2>2. MovedMemory' = [a \in Addresses |->
           IF Place(a, ptr') <= ToRead' THEN queue'[Place(a, ptr')]
                                        ELSE memory'[a]]
    BY <2>1 DEF MovedIs, Place
  <2>3. MovedMemory = [a \in Addresses |->
           IF Place(a, ptr) <= ToRead THEN queue[Place(a, ptr)]
                                      ELSE memory[a]]
    BY Moved DEF MovedIs
  <2> QED BY <1>7, <2>2, <2>3
<1>9. MovedQueue' = MovedQueue
  <2> DEFINE n == ToRead - c
  <2>1. n \in Nat /\ c + n <= Len(queue) /\ c + n = ToRead /\ c \in Nat
    BY <1>2, <1>3, <1>5
  <2>2. SubSeq(queue', n + 1, Len(queue')) = SubSeq(queue, c + n + 1, Len(queue))
    <3> HIDE DEF n
    <3> QED BY <1>1, <1>3, <2>1, RestOfRest
  <2> QED BY <1>5, <2>1, <2>2 DEF MovedQueue
<1> QED BY <1>8, <1>9

(* What a turn of the other loop gives the host is what it had still to    *)
(* give.                                                                   *)
LEMMA WriteTurnMoves ==
  ASSUME TypeOK, WriteTurn, remaining # 0
  PROVE  MovedOut' = MovedOut
<1>1. /\ Write(GuestRead(ptr, Chunk)) /\ Advance(Chunk) /\ pc = "write"
      /\ memory' = memory /\ connected' = connected
  BY DEF WriteTurn
<1>2. Chunk \in 0 .. Space /\ Chunk <= remaining
  BY TurnFacts
<1>3. /\ ptr' = (ptr + Chunk) % Space /\ remaining' = remaining - Chunk
      /\ pc' = "write" /\ ptr \in Addresses /\ ptr' \in Addresses
      /\ remaining' \in Nat /\ Chunk \in Nat
      /\ Chunk + remaining' = remaining
  BY <1>1, <1>2, AdvancePreserves, SpaceFacts DEF TypeOK
<1>4. CASE ~connected
  BY <1>1, <1>3, <1>4 DEF Write, MovedOut, ToWrite
<1>5. CASE connected
  <2> DEFINE first == GuestRead(ptr, Chunk)
             rest == GuestRead(ptr', remaining')
  <2>1. GuestRead(ptr, remaining) = first \o rest
    BY <1>2, <1>3, LoadTwice DEF TypeOK
  <2>2. first \in Seq(Bytes) /\ rest \in Seq(Bytes) /\ out \in Seq(Bytes)
    BY <1>3, LoadFacts DEF TypeOK
  <2>3. ToWrite' = rest /\ out' = out \o first
    BY <1>1, <1>3, <1>5 DEF Write, ToWrite, GuestRead
  <2>4. MovedOut = out \o (first \o rest)
    BY <1>1, <1>5, <2>1 DEF MovedOut, ToWrite
  <2>5. MovedOut' = (out \o first) \o rest
    BY <2>3 DEF MovedOut
  <2> HIDE DEF first, rest
  <2>6. (out \o first) \o rest = out \o (first \o rest)
    BY <2>2, ConcatTwice
  <2> QED BY <2>4, <2>5, <2>6
<1> QED BY <1>4, <1>5

----------------------------------------------------------------------------
(* The refinement: a store to a register, a byte of the host or a store of *)
(* the guest is the same step of TtyTransfer, a command is one as a whole, *)
(* and a turn of its loop is none.                                         *)

LEMMA InitRefines == Init => Transfer!Init
<1> SUFFICES ASSUME Init PROVE Transfer!Init
  OBVIOUS
<1>1. TypeOK /\ pc = "idle"
  BY InitEstablishes DEF Init
<1>2. MovedMemory = memory /\ MovedQueue = queue /\ MovedOut = out
  BY <1>1, NotReading, NotWriting
<1>3. 0 \div Half = 0 /\ 0 % Half = 0
  BY SpaceFacts
<1>4. Transfer!Addresses = Addresses
  BY DEF Transfer!Addresses, Transfer!Space, Addresses, Space
<1> QED BY <1>2, <1>3, <1>4 DEF Init, Transfer!Init

(* Between two commands the abstract machine sees the variables themselves.*)
SeenAsIs == MovedMemory = memory /\ MovedQueue = queue /\ MovedOut = out

LEMMA IdleSeen == TypeOK /\ pc = "idle" => SeenAsIs
<1> SUFFICES ASSUME TypeOK, pc = "idle" PROVE SeenAsIs
  OBVIOUS
<1> QED BY NotReading, NotWriting DEF SeenAsIs

LEMMA IdleStaysSeen ==
  ASSUME TypeOK, TypeOK', Idle
  PROVE  /\ SeenAsIs /\ SeenAsIs' /\ connected' = connected
<1>1. pc = "idle" /\ pc' = "idle" /\ connected' = connected
  BY DEF Idle, loop
<1>2. (TypeOK /\ pc = "idle" => SeenAsIs)'
  BY IdleSeen, PTL
<1> QED BY <1>1, <1>2, IdleSeen

LEMMA RegisterRefines ==
  ASSUME TypeOK, TypeOK', Registers
  PROVE  Transfer!Next
<1>1. ASSUME NEW half \in 0 .. Half - 1, SetDataPtr(half)
      PROVE  Transfer!Next
  <2> DEFINE h == data_ptr \div Half
  <2>1. /\ h \in 0 .. Half - 1
        /\ data_ptr - (data_ptr % Half) = h * Half
    BY HighAndLow
  <2>2. data_ptr' = h * Half + half
    BY <1>1, <2>1 DEF SetDataPtr
  <2>3. data_ptr' \div Half = h /\ data_ptr' % Half = half
    <3> HIDE DEF h
    <3> QED BY <2>1, <2>2, Joined
  <2>4. Transfer!SetPointer(h, half)
    BY <1>1, <2>3, IdleStaysSeen DEF SetDataPtr, SeenAsIs, Transfer!SetPointer
  <2> QED BY <2>1, <2>4 DEF Transfer!Next
<1>2. ASSUME NEW half \in 0 .. Half - 1, SetDataPtrHigh(half)
      PROVE  Transfer!Next
  <2> DEFINE l == data_ptr % Half
  <2>1. l \in 0 .. Half - 1 /\ l + half * Half = half * Half + l
    BY HighAndLow, SpaceFacts
  <2>2. data_ptr' = half * Half + l
    BY <1>2, <2>1 DEF SetDataPtrHigh
  <2>3. data_ptr' \div Half = half /\ data_ptr' % Half = l
    <3> HIDE DEF l
    <3> QED BY <2>1, <2>2, Joined
  <2>4. Transfer!SetPointer(half, l)
    BY <1>2, <2>3, IdleStaysSeen
       DEF SetDataPtrHigh, SeenAsIs, Transfer!SetPointer
  <2> QED BY <2>1, <2>4 DEF Transfer!Next
<1>3. ASSUME NEW len \in 0 .. MaxLen, SetDataLen(len)
      PROVE  Transfer!Next
  <2>1. Transfer!SetLen(len)
    BY <1>3, IdleStaysSeen DEF SetDataLen, SeenAsIs, Transfer!SetLen
  <2> QED BY <2>1 DEF Transfer!Next
<1> QED BY <1>1, <1>2, <1>3 DEF Registers

LEMMA WriteCommandRefines ==
  ASSUME TypeOK, TypeOK', CmdWriteBuffer
  PROVE  Transfer!WriteBuffer
<1>1. /\ pc = "idle" /\ pc' = "write" /\ ptr' = data_ptr
      /\ remaining' = data_len
      /\ UNCHANGED <<data_ptr, data_len, memory, queue, out, connected>>
  BY DEF CmdWriteBuffer, Command, registers
<1>2. SeenAsIs
  BY <1>1, IdleSeen
<1>3. MovedMemory' = memory' /\ MovedQueue' = queue'
  <2>1. (TypeOK /\ pc # "read" => MovedMemory = memory /\ MovedQueue = queue)'
    BY NotReading, PTL
  <2> QED BY <1>1, <2>1
<1>4. Transfer!Pointer = data_ptr
  BY HighAndLow DEF Transfer!Pointer
<1>5. Transfer!Load(memory, data_ptr, data_len) = GuestRead(data_ptr, data_len)
  BY DEF Transfer!Load, GuestRead, Transfer!Space, Space
<1>6. ToWrite' = IF connected THEN GuestRead(data_ptr, data_len) ELSE <<>>
  BY <1>1 DEF ToWrite, GuestRead
<1>7. MovedOut' = IF connected THEN out \o GuestRead(data_ptr, data_len) ELSE out
  BY <1>1, <1>6, WholeSeq DEF MovedOut, TypeOK
<1> QED BY <1>1, <1>2, <1>3, <1>4, <1>5, <1>7
        DEF SeenAsIs, Transfer!WriteBuffer, Transfer!Sent

Hits(a, p, n) == {k \in 1 .. n : (p + k - 1) % Space = a}
Latest(hits) == CHOOSE k \in hits : \A j \in hits : j <= k

LEMMA StoreIs ==
  ASSUME NEW mem, NEW p, NEW bytes, NEW n, Len(bytes) = n
  PROVE  Transfer!Store(mem, p, bytes) =
           [a \in Addresses |->
              IF Hits(a, p, n) = {} THEN mem[a] ELSE bytes[Latest(Hits(a, p, n))]]
  BY DEF Hits, Latest, Transfer!Store, Transfer!Addresses, Transfer!Space, Addresses, Space

LEMMA ReadCommandRefines ==
  ASSUME TypeOK, TypeOK', CmdReadBuffer
  PROVE  Transfer!ReadBuffer
<1> DEFINE n == IF data_len <= Len(queue) THEN data_len ELSE Len(queue)
<1>1. /\ pc = "idle" /\ pc' = "read" /\ ptr' = data_ptr
      /\ remaining' = data_len
      /\ UNCHANGED <<data_ptr, data_len, memory, queue, out, connected>>
  BY DEF CmdReadBuffer, Command, registers
<1>2. SeenAsIs
  BY <1>1, IdleSeen
<1>3. MovedOut' = out'
  <2>1. (TypeOK /\ pc # "write" => MovedOut = out)'
    BY NotWriting, PTL
  <2> QED BY <1>1, <2>1
<1>4. Transfer!Pointer = data_ptr
  BY HighAndLow DEF Transfer!Pointer
<1>5. ToRead' = n /\ n \in 0 .. Len(queue) /\ Transfer!Shorter(data_len, queue) = n
  BY <1>1, SpaceFacts DEF ToRead, TypeOK, Transfer!Shorter
<1>6. MovedQueue' = SubSeq(queue, n + 1, Len(queue))
  BY <1>1, <1>5 DEF MovedQueue
<1>7. MovedMemory' = Transfer!Store(memory, data_ptr, SubSeq(queue, 1, n))
  <2> DEFINE bytes == SubSeq(queue, 1, n)
             hits(a) == Hits(a, data_ptr, n)
  <2>1. Len(bytes) = n /\ \A k \in 1 .. n : bytes[k] = queue[k]
    <3> HIDE DEF n
    <3> QED BY <1>5, RestFacts DEF TypeOK
  <2>2. MovedMemory' = [a \in Addresses |->
          IF hits(a) = {} THEN memory[a] ELSE queue[Latest(hits(a))]]
    BY <1>1, <1>5 DEF MovedMemory, Hits, Latest
  <2> HIDE DEF n, bytes
  <2>3. Transfer!Store(memory, data_ptr, bytes) = [a \in Addresses |->
          IF hits(a) = {} THEN memory[a] ELSE bytes[Latest(hits(a))]]
    BY <2>1, StoreIs
  <2>4. ASSUME NEW a \in Addresses, hits(a) # {}
        PROVE  bytes[Latest(hits(a))] = queue[Latest(hits(a))]
    <3> DEFINE d == Place(a, data_ptr)
    <3>1. data_ptr \in Addresses /\ n \in 0 .. Space
      BY <1>5, SpaceFacts DEF TypeOK
    <3>2. hits(a) = IF d <= n THEN {d} ELSE {}
      BY <3>1, HitsAre DEF Hits
    <3>3. d \in 1 .. Space
      BY <3>1, PlaceIs
    <3> HIDE DEF d
    <3>4. hits(a) = {d} /\ d \in 1 .. n
      BY <2>4, <3>1, <3>2, <3>3
    <3>5. Latest(hits(a)) = d
      BY <3>3, <3>4, OnlyOne DEF Latest
    <3> QED BY <2>1, <3>4, <3>5
  <2> HIDE DEF hits
  <2> QED BY <2>2, <2>3, <2>4 DEF bytes
<1> HIDE DEF n
<1> QED BY <1>1, <1>2, <1>3, <1>4, <1>5, <1>6, <1>7
        DEF SeenAsIs, Transfer!ReadBuffer

LEMMA TurnStutters ==
  ASSUME TypeOK, TypeOK', Turn
  PROVE  UNCHANGED Transfer!vars
<1> SUFFICES /\ MovedMemory' = MovedMemory /\ MovedQueue' = MovedQueue
             /\ MovedOut' = MovedOut /\ UNCHANGED <<registers, connected>>
  BY DEF Transfer!vars, registers
<1>1. (TypeOK /\ pc # "read" => MovedMemory = memory /\ MovedQueue = queue)'
  BY NotReading, PTL
<1>2. (TypeOK /\ pc # "write" => MovedOut = out)'
  BY NotWriting, PTL
<1>3. CASE WriteTurn /\ remaining = 0
  <2>1. /\ pc = "write" /\ pc' = "idle"
        /\ UNCHANGED <<memory, queue, out, registers, connected>>
    BY <1>3 DEF WriteTurn, Return
  <2>2. GuestRead(ptr, 0) = <<>>
    BY LoadFacts DEF TypeOK
  <2>3. MovedOut = out
    BY <1>3, <2>2, WholeSeq DEF MovedOut, ToWrite, TypeOK
  <2> QED BY <1>1, <1>2, <2>1, <2>3, NotReading
<1>4. CASE WriteTurn /\ remaining # 0
  <2>1. /\ pc = "write" /\ pc' = "write"
        /\ UNCHANGED <<memory, queue, registers, connected>>
    BY <1>4 DEF WriteTurn, Advance
  <2> QED BY <1>1, <1>4, <2>1, NotReading, WriteTurnMoves
<1>5. CASE ReadTurn /\ ReadDone
  <2>1. /\ pc = "read" /\ pc' = "idle"
        /\ UNCHANGED <<memory, queue, out, registers, connected>>
    BY <1>5 DEF ReadTurn, Return
  <2>2. ToRead = 0
    BY <1>5 DEF ReadDone, ToRead, TypeOK
  <2>3. MovedMemory = memory
    BY <2>2, NoneMoved
  <2>4. MovedQueue = queue
    BY <2>2, WholeSeq DEF MovedQueue, TypeOK
  <2> QED BY <1>1, <1>2, <2>1, <2>3, <2>4, NotWriting
<1>6. CASE ReadTurn /\ ~ReadDone
  <2>1. /\ pc = "read" /\ pc' = "read"
        /\ UNCHANGED <<out, registers, connected>>
    BY <1>6 DEF ReadTurn, Advance
  <2> QED BY <1>2, <1>6, <2>1, NotWriting, ReadTurnMoves
<1> QED BY <1>3, <1>4, <1>5, <1>6 DEF Turn

LEMMA StepRefines ==
  TypeOK /\ TypeOK' /\ [Next]_vars => [Transfer!Next]_(Transfer!vars)
<1> SUFFICES ASSUME TypeOK, TypeOK', [Next]_vars
             PROVE  [Transfer!Next]_(Transfer!vars)
  OBVIOUS
<1>1. CASE Registers
  BY <1>1, RegisterRefines
<1>2. ASSUME NEW c \in Bytes, PutChar(c) PROVE Transfer!Next
  <2>1. Transfer!PutChar(c)
    BY <1>2, IdleStaysSeen
       DEF PutChar, Write, registers, SeenAsIs, Transfer!PutChar, Transfer!Sent
  <2> QED BY <2>1 DEF Transfer!Next
<1>3. ASSUME NEW c \in Bytes, Receive(c) PROVE Transfer!Next
  <2>1. Transfer!HostSends(c)
    BY <1>3, IdleStaysSeen
       DEF Receive, registers, SeenAsIs, Transfer!HostSends
  <2> QED BY <2>1 DEF Transfer!Next
<1>4. ASSUME NEW a \in Addresses, NEW c \in Bytes, GuestStores(a, c)
      PROVE  Transfer!Next
  <2>1. Transfer!GuestStores(a, c)
    BY <1>4, IdleStaysSeen
       DEF GuestStores, registers, SeenAsIs, Transfer!GuestStores
  <2>2. a \in Transfer!Addresses
    BY DEF Addresses, Space, Transfer!Addresses, Transfer!Space
  <2> QED BY <2>1, <2>2 DEF Transfer!Next
<1>5. CASE CmdWriteBuffer
  BY <1>5, WriteCommandRefines DEF Transfer!Next
<1>6. CASE CmdReadBuffer
  BY <1>6, ReadCommandRefines DEF Transfer!Next
<1>7. CASE Turn
  BY <1>7, TurnStutters
<1>8. CASE UNCHANGED vars
  BY <1>8 DEF vars, registers, loop, Transfer!vars, MovedMemory, MovedQueue,
              MovedOut, ToRead, ToWrite, GuestRead
<1> QED BY <1>1, <1>2, <1>3, <1>4, <1>5, <1>6, <1>7, <1>8 DEF Next

(* The chunked loops implement the commands of TtyTransfer: each moves the *)
(* buffer that DATA_PTR and DATA_LEN name, once and in order, wherever the *)
(* pointer wraps and whatever the ring holds.                              *)
THEOREM DmaImplementsTransfer == Spec => ImplementsTransfer
  BY InitRefines, StepRefines, DmaTypeCorrect, PTL
     DEF Spec, ImplementsTransfer, Transfer!Spec

----------------------------------------------------------------------------
(* The loops end: what is left of a command only ever gets less. *)

(* While a command runs nothing but its loop runs, and each of its turns   *)
(* moves at least one byte of what remains or leaves the loop; so a        *)
(* command of n bytes holds QEMU's lock for n + 1 turns at most, also a    *)
(* READ_BUFFER for more bytes than the ring has.                           *)
EachTurnAdvances ==
  [][ pc # "idle" => \/ pc' = "idle"
                     \/ pc' = pc /\ remaining' \in 0 .. remaining - 1 ]_vars

LEMMA TurnAdvances ==
  ASSUME TypeOK, pc # "idle", Next
  PROVE  \/ pc' = "idle"
         \/ pc' = pc /\ remaining' \in 0 .. remaining - 1
<1>1. remaining \in Nat /\ Len(queue) \in Nat /\ BufferSize \in Nat \ {0}
  BY SpaceFacts DEF TypeOK
<1>2. CASE WriteTurn
  <2>1. CASE remaining = 0
    BY <1>2, <2>1 DEF WriteTurn, Return
  <2>2. CASE remaining # 0
    <3>1. pc' = pc /\ remaining' = remaining - Chunk
      BY <1>2, <2>2 DEF WriteTurn, Advance
    <3>2. Chunk \in 1 .. remaining
      BY <1>1, <2>2 DEF Chunk
    <3> QED BY <1>1, <3>1, <3>2
  <2> QED BY <2>1, <2>2
<1>3. CASE ReadTurn
  <2>1. CASE ReadDone
    BY <1>3, <2>1 DEF ReadTurn, Return
  <2>2. CASE ~ReadDone
    <3> DEFINE count == IF Chunk <= Len(queue) THEN Chunk ELSE Len(queue)
    <3>1. pc' = pc /\ remaining' = remaining - count
      BY <1>3, <2>2 DEF ReadTurn, Advance
    <3>2. remaining # 0 /\ Len(queue) # 0
      BY <2>2 DEF ReadDone, TypeOK
    <3>3. count \in 1 .. remaining
      BY <1>1, <3>2 DEF Chunk
    <3> QED BY <1>1, <3>1, <3>3
  <2> QED BY <2>1, <2>2
<1> QED BY <1>2, <1>3 DEF Next, Registers, SetDataPtr, SetDataPtrHigh, SetDataLen,
        PutChar, Receive, GuestStores, CmdWriteBuffer, CmdReadBuffer, Command,
        Turn, Idle

(* No command can run for ever, for every length and whatever the ring     *)
(* holds.                                                                  *)
THEOREM DmaEachTurnAdvances == Spec => EachTurnAdvances
<1>1. TypeOK /\ [Next]_vars =>
        [ pc # "idle" => \/ pc' = "idle"
                         \/ pc' = pc /\ remaining' \in 0 .. remaining - 1 ]_vars
  BY TurnAdvances
<1> QED BY <1>1, DmaTypeCorrect, PTL DEF Spec, EachTurnAdvances

==============================================================================
