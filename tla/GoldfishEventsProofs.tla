------------------------ MODULE GoldfishEventsProofs ------------------------
(***************************************************************************)
(* Proofs about the event queue for every size of the queue and of the     *)
(* screen: the ring is well formed, events stay whole, a key sticks only   *)
(* by the loss of its own latest change, and the queue implements IrqFifo. *)
(*                                                                         *)
(* The argument runs over Words, what the guest sees from its next event   *)
(* on: a push leaves it or adds three words at its end, a read of the      *)
(* guest leaves it or, with an event's last word, takes three from its     *)
(* front.                                                                  *)
(***************************************************************************)
EXTENDS GoldfishKeys, TLAPS

(* The inductive invariant of GoldfishEvents. *)
RingIsConsistent == qtail = (qhead + qcount) % QueueWords

LineFollows == irq <=> qcount # 0

EInv == TypeOK /\ RingIsConsistent /\ LineFollows /\ WholeEvents

----------------------------------------------------------------------------
(* Arithmetic. *)

Place(i, k) == (i + k) % QueueWords

(* The three places that a push fills are none of the c in use. *)
LEMMA PushPlaces ==
  ASSUME NEW h \in Slots, NEW c \in 0 .. QueueWords, c + 3 <= QueueWords,
         NEW t, t = Place(h, c)
  PROVE  /\ t \in Slots
         /\ Place(t, 1) = Place(h, c + 1) /\ Place(t, 1) \in Slots
         /\ Place(t, 2) = Place(h, c + 2) /\ Place(t, 2) \in Slots
         /\ Place(t, 3) = Place(h, c + 3) /\ Place(t, 3) \in Slots
         /\ t # Place(t, 1) /\ t # Place(t, 2)
         /\ Place(t, 1) # Place(t, 2)
<1> USE EventsAssumption DEF Place, Slots
<1>1. t \in Slots
  OBVIOUS
<1>2. Place(t, 1) = Place(h, c + 1) /\ Place(t, 1) \in Slots
  OBVIOUS
<1>3. Place(t, 2) = Place(h, c + 2) /\ Place(t, 2) \in Slots
  OBVIOUS
<1>4. Place(t, 3) = Place(h, c + 3) /\ Place(t, 3) \in Slots
  OBVIOUS
<1>5. t # Place(t, 1) /\ t # Place(t, 2)
  OBVIOUS
<1>6. Place(t, 1) # Place(t, 2)
  OBVIOUS
<1> QED BY <1>1, <1>2, <1>3, <1>4, <1>5, <1>6

LEMMA PlaceInUse ==
  ASSUME NEW h \in Slots, NEW c \in 0 .. QueueWords, c + 3 <= QueueWords,
         NEW j \in 0 .. c - 1
  PROVE  /\ Place(h, j) \in Slots
         /\ Place(h, j) # Place(h, c)
         /\ Place(h, j) # Place(h, c + 1)
         /\ Place(h, j) # Place(h, c + 2)
<1> USE EventsAssumption DEF Place, Slots
<1>1. Place(h, j) \in Slots
  OBVIOUS
<1>2. Place(h, j) # Place(h, c)
  OBVIOUS
<1>3. Place(h, j) # Place(h, c + 1)
  OBVIOUS
<1>4. Place(h, j) # Place(h, c + 2)
  OBVIOUS
<1> QED BY <1>1, <1>2, <1>3, <1>4

(* Places counted from the next word of the queue. *)
LEMMA PopPlaces ==
  ASSUME NEW h \in Slots, NEW c \in 1 .. QueueWords
  PROVE  /\ Place(h, 0) = h /\ Place(h, 1) \in Slots
         /\ Place(Place(h, 1), c - 1) = Place(h, c)
         /\ \A j \in 0 .. c - 1 : Place(Place(h, 1), j) = Place(h, j + 1)
<1> USE EventsAssumption DEF Place, Slots
<1>1. Place(h, 0) = h
  OBVIOUS
<1>2. Place(h, 1) \in Slots
  OBVIOUS
<1>3. Place(Place(h, 1), c - 1) = Place(h, c)
  OBVIOUS
<1>4. ASSUME NEW j \in 0 .. c - 1
      PROVE  Place(Place(h, 1), j) = Place(h, j + 1)
  OBVIOUS
<1> QED BY <1>1, <1>2, <1>3, <1>4

----------------------------------------------------------------------------
(* What Words is, place by place. *)

LEMMA ConcatFacts ==
  ASSUME NEW s \in Seq(Nat), NEW t \in Seq(Nat)
  PROVE  /\ s \o t \in Seq(Nat)
         /\ Len(s \o t) = Len(s) + Len(t)
         /\ \A k \in 1 .. Len(s) : (s \o t)[k] = s[k]
         /\ \A k \in Len(s) + 1 .. Len(s) + Len(t) :
              (s \o t)[k] = t[k - Len(s)]
  OBVIOUS

LEMMA AppendFacts ==
  ASSUME NEW s \in Seq(Nat), NEW v \in Nat
  PROVE  /\ Append(s, v) \in Seq(Nat)
         /\ Len(Append(s, v)) = Len(s) + 1
         /\ \A k \in 1 .. Len(s) : Append(s, v)[k] = s[k]
         /\ Append(s, v)[Len(s) + 1] = v
  OBVIOUS

LEMMA BelowThree ==
  ASSUME NEW n \in Nat, n < 3
  PROVE  n \in 0 .. 2
  OBVIOUS

WordsAreQueued ==
  /\ Words \in Seq(Nat)
  /\ Len(decoder) \in 0 .. 2
  /\ Len(Words) = Len(decoder) + qcount
  /\ Len(Words) \in Nat
  /\ \A k \in 1 .. Len(decoder) : Words[k] = decoder[k]
  /\ \A k \in 0 .. qcount - 1 :
       Words[Len(decoder) + 1 + k] = queue[(qhead + k) % QueueWords]

LEMMA WordAt == TypeOK => WordsAreQueued
<1> SUFFICES ASSUME TypeOK PROVE WordsAreQueued
  OBVIOUS
<1> USE EventsAssumption
<1>1. /\ decoder \in Seq(Nat) /\ Len(decoder) \in 0 .. 2
      /\ qcount \in 0 .. QueueWords /\ qhead \in Slots /\ queue \in [Slots -> Nat]
      /\ qcount \in Nat
  <2>1. decoder \in Seq(Nat) /\ Len(decoder) < 3 /\ Len(decoder) \in Nat
    BY DEF TypeOK
  <2>2. Len(decoder) \in 0 .. 2
    BY <2>1, BelowThree
  <2>3. qcount \in 0 .. QueueWords /\ qhead \in Slots /\ queue \in [Slots -> Nat]
    BY DEF TypeOK
  <2>4. qcount \in Nat
    BY <2>3
  <2> QED BY <2>1, <2>2, <2>3, <2>4
<1>2. \A k \in 1 .. qcount : (qhead + k - 1) % QueueWords \in Slots
  BY <1>1 DEF Slots
<1>3. Queue \in [1 .. qcount -> Nat]
  BY <1>1, <1>2 DEF Queue
<1>4. Queue \in Seq(Nat) /\ Len(Queue) = qcount
  BY <1>1, <1>3
<1>5. /\ Words \in Seq(Nat) /\ Len(Words) = Len(decoder) + qcount
      /\ \A k \in 1 .. Len(decoder) : Words[k] = decoder[k]
      /\ \A k \in Len(decoder) + 1 .. Len(decoder) + Len(Queue) :
           Words[k] = Queue[k - Len(decoder)]
  BY <1>1, <1>4, ConcatFacts DEF Words
<1>6. ASSUME NEW k \in 0 .. qcount - 1
      PROVE  Words[Len(decoder) + 1 + k] = queue[(qhead + k) % QueueWords]
  <2>1. Len(decoder) + 1 + k \in Len(decoder) + 1 .. Len(decoder) + Len(Queue)
    BY <1>1, <1>4
  <2>2. Words[Len(decoder) + 1 + k] = Queue[Len(decoder) + 1 + k - Len(decoder)]
    BY <1>5, <2>1
  <2>3. Len(decoder) + 1 + k - Len(decoder) = k + 1 /\ k + 1 \in 1 .. qcount
    BY <1>1
  <2>4. Queue[k + 1] = queue[(qhead + (k + 1) - 1) % QueueWords]
    BY <2>3 DEF Queue
  <2>5. qhead + (k + 1) - 1 = qhead + k
    BY <1>1 DEF Slots
  <2> QED BY <2>2, <2>3, <2>4, <2>5
<1>7. Len(Words) \in Nat
  BY <1>1, <1>5
<1> QED BY <1>1, <1>5, <1>6, <1>7 DEF WordsAreQueued

----------------------------------------------------------------------------
(* What a push and a read do to Words. *)

Appended(type, code, value) ==
  /\ Len(Words') = Len(Words) + 3
  /\ \A k \in 1 .. Len(Words) : Words'[k] = Words[k]
  /\ Words'[Len(Words) + 1] = type
  /\ Words'[Len(Words) + 2] = code
  /\ Words'[Len(Words) + 3] = value

LEMMA PushAppends ==
  ASSUME TypeOK, RingIsConsistent, LineFollows,
         NEW type \in Nat, NEW code \in Nat, NEW value \in Nat,
         Push(type, code, value)
  PROVE  /\ TypeOK' /\ RingIsConsistent' /\ LineFollows'
         /\ decoder' = decoder
         /\ \/ UNCHANGED vars
            \/ qcount' = qcount + 3 /\ Appended(type, code, value)
<1>1. CASE qcount + 3 > QueueWords
  <2>1. UNCHANGED vars
    BY <1>1 DEF Push, vars, ring
  <2>2. TypeOK' /\ RingIsConsistent' /\ LineFollows' /\ decoder' = decoder
    BY <2>1 DEF vars, ring, TypeOK, RingIsConsistent, LineFollows
  <2> QED BY <2>1, <2>2
<1>2. CASE ~(qcount + 3 > QueueWords)
  <2> DEFINE t1 == (qtail + 1) % QueueWords
             t2 == (qtail + 2) % QueueWords
             t3 == (qtail + 3) % QueueWords
  <2>1. /\ QueueWords \in Nat \ {0} /\ page \in Pages
        /\ queue \in [Slots -> Nat] /\ qhead \in 0 .. QueueWords - 1
        /\ qcount \in 0 .. QueueWords /\ qcount \in Nat
        /\ decoder \in Seq(Nat) /\ Len(decoder) < 3
    BY EventsAssumption DEF TypeOK, Slots
  <2>2. qcount + 3 <= QueueWords
    BY <1>2, <2>1
  <2>3. /\ queue' = [queue EXCEPT ![qtail] = type, ![t1] = code, ![t2] = value]
        /\ qtail' = t3 /\ qcount' = qcount + 3 /\ irq' = (qcount' # 0)
        /\ page' = page /\ qhead' = qhead /\ decoder' = decoder
    BY <1>2 DEF Push, UpdateIrq
  <2>4. /\ qtail \in 0 .. QueueWords - 1
        /\ t1 = (qhead + (qcount + 1)) % QueueWords /\ t1 \in 0 .. QueueWords - 1
        /\ t2 = (qhead + (qcount + 2)) % QueueWords /\ t2 \in 0 .. QueueWords - 1
        /\ t3 = (qhead + (qcount + 3)) % QueueWords /\ t3 \in 0 .. QueueWords - 1
        /\ qtail # t1 /\ qtail # t2 /\ t1 # t2
    <3>1. /\ qtail = Place(qhead, qcount) /\ qhead \in Slots
          /\ t1 = Place(qtail, 1) /\ t2 = Place(qtail, 2) /\ t3 = Place(qtail, 3)
      BY <2>1 DEF RingIsConsistent, Place, Slots
    <3>2. /\ qtail \in Slots
          /\ t1 = Place(qhead, qcount + 1) /\ t1 \in Slots
          /\ t2 = Place(qhead, qcount + 2) /\ t2 \in Slots
          /\ t3 = Place(qhead, qcount + 3) /\ t3 \in Slots
          /\ qtail # t1 /\ qtail # t2 /\ t1 # t2
      <4> HIDE DEF t1, t2, t3
      <4> QED BY <2>1, <2>2, <3>1, PushPlaces
    <3> QED BY <3>2 DEF Place, Slots
  <2> HIDE DEF t1, t2, t3
  <2>5. qcount' \in 0 .. QueueWords /\ qcount' # 0 /\ qcount' \in Nat
    BY <2>1, <2>2, <2>3
  <2>6. /\ queue' \in [Slots -> Nat]
        /\ queue'[qtail] = type /\ queue'[t1] = code /\ queue'[t2] = value
        /\ \A i \in Slots \ {qtail, t1, t2} : queue'[i] = queue[i]
    BY <2>1, <2>3, <2>4 DEF Slots
  <2>7. TypeOK'
    BY <2>1, <2>3, <2>4, <2>5, <2>6 DEF TypeOK, Slots
  <2>8. RingIsConsistent' /\ LineFollows'
    BY <2>3, <2>4, <2>5 DEF RingIsConsistent, LineFollows
  <2>9. WordsAreQueued /\ WordsAreQueued'
    <3>1. (TypeOK => WordsAreQueued)'
      BY WordAt, PTL
    <3> QED BY <3>1, <2>7, WordAt
  <2>10. /\ Len(decoder) \in 0 .. 2 /\ Len(Words) = Len(decoder) + qcount
         /\ Len(Words') = Len(decoder) + qcount + 3 /\ Len(Words) \in Nat
         /\ \A k \in 1 .. Len(decoder) : Words[k] = decoder[k] /\ Words'[k] = decoder[k]
         /\ \A k \in 0 .. qcount - 1 :
              Words[Len(decoder) + 1 + k] = queue[(qhead + k) % QueueWords]
         /\ \A k \in 0 .. qcount + 2 :
              Words'[Len(decoder) + 1 + k] = queue'[(qhead + k) % QueueWords]
    <3>1. /\ Len(decoder) \in 0 .. 2 /\ Len(Words) = Len(decoder) + qcount
          /\ Len(Words) \in Nat
          /\ \A k \in 1 .. Len(decoder) : Words[k] = decoder[k]
          /\ \A k \in 0 .. qcount - 1 :
               Words[Len(decoder) + 1 + k] = queue[(qhead + k) % QueueWords]
      BY <2>9 DEF WordsAreQueued
    <3>2. /\ Len(Words') = Len(decoder) + qcount'
          /\ \A k \in 1 .. Len(decoder) : Words'[k] = decoder[k]
          /\ \A k \in 0 .. qcount' - 1 :
               Words'[Len(decoder) + 1 + k] = queue'[(qhead + k) % QueueWords]
      BY <2>3, <2>9 DEF WordsAreQueued
    <3>3. /\ Len(decoder) + qcount' = Len(decoder) + qcount + 3
          /\ qcount' - 1 = qcount + 2
      BY <2>1, <2>3, <3>1
    <3> QED BY <3>1, <3>2, <3>3
  <2>11. \A k \in 0 .. qcount - 1 :
           Words'[Len(decoder) + 1 + k] = Words[Len(decoder) + 1 + k]
    <3> SUFFICES ASSUME NEW k \in 0 .. qcount - 1
                 PROVE  Words'[Len(decoder) + 1 + k] = Words[Len(decoder) + 1 + k]
      OBVIOUS
    <3>1. /\ Place(qhead, k) \in Slots
          /\ Place(qhead, k) # Place(qhead, qcount)
          /\ Place(qhead, k) # Place(qhead, qcount + 1)
          /\ Place(qhead, k) # Place(qhead, qcount + 2)
      BY <2>1, <2>2, PlaceInUse DEF Slots
    <3>2. (qhead + k) % QueueWords \in Slots \ {qtail, t1, t2}
      BY <2>4, <3>1 DEF RingIsConsistent, Place
    <3>3. k \in 0 .. qcount + 2
      BY <2>1
    <3> QED BY <2>6, <2>10, <3>2, <3>3
  <2>12. \A k \in 1 .. Len(Words) : Words'[k] = Words[k]
    <3> SUFFICES ASSUME NEW k \in 1 .. Len(Words) PROVE Words'[k] = Words[k]
      OBVIOUS
    <3>1. CASE k <= Len(decoder)
      BY <2>10, <3>1
    <3>2. CASE k > Len(decoder)
      <4>1. /\ k - Len(decoder) - 1 \in 0 .. qcount - 1
            /\ Len(decoder) + 1 + (k - Len(decoder) - 1) = k
        BY <2>1, <2>10, <3>2
      <4> QED BY <2>11, <4>1
    <3> QED BY <2>10, <3>1, <3>2
  <2>13. /\ Words'[Len(decoder) + 1 + qcount] = type
         /\ Words'[Len(decoder) + 1 + (qcount + 1)] = code
         /\ Words'[Len(decoder) + 1 + (qcount + 2)] = value
    <3>1. /\ qcount \in 0 .. qcount + 2 /\ qcount + 1 \in 0 .. qcount + 2
          /\ qcount + 2 \in 0 .. qcount + 2
      BY <2>1
    <3> QED BY <2>4, <2>6, <2>10, <3>1 DEF RingIsConsistent
  <2>14. /\ Len(decoder) + 1 + qcount = Len(Words) + 1
         /\ Len(decoder) + 1 + (qcount + 1) = Len(Words) + 2
         /\ Len(decoder) + 1 + (qcount + 2) = Len(Words) + 3
         /\ Len(decoder) + qcount + 3 = Len(Words) + 3
    BY <2>1, <2>10
  <2>15. Appended(type, code, value)
    BY <2>10, <2>12, <2>13, <2>14 DEF Appended
  <2> QED BY <2>3, <2>7, <2>8, <2>15
<1> QED BY <1>1, <1>2

WordsStay ==
  Len(Words') = Len(Words) /\ \A k \in 1 .. Len(Words) : Words'[k] = Words[k]

FirstEventLeaves ==
  /\ Len(decoder) = 2 /\ Len(Words) >= 3
  /\ decoder[1] = Words[1] /\ decoder[2] = Words[2] /\ PoppedWord = Words[3]
  /\ Len(Words') = Len(Words) - 3
  /\ \A k \in 1 .. Len(Words) - 3 : Words'[k] = Words[k + 3]

LEMMA ReadTakes ==
  ASSUME EInv, GuestRead
  PROVE  /\ TypeOK' /\ RingIsConsistent' /\ LineFollows'
         /\ qcount > 0 /\ qcount' = qcount - 1
         /\ (Len(decoder) # 2 /\ WordsStay) \/ FirstEventLeaves
<1> DEFINE d == Len(decoder)
           h1 == (qhead + 1) % QueueWords
<1>1. /\ QueueWords \in Nat \ {0} /\ page \in Pages
      /\ queue \in [Slots -> Nat] /\ qhead \in Slots /\ qtail \in Slots
      /\ qcount \in 0 .. QueueWords /\ qcount \in Nat
      /\ decoder \in Seq(Nat)
  BY EventsAssumption DEF EInv, TypeOK
<1>2. /\ WordsAreQueued
      /\ d \in 0 .. 2 /\ Len(Words) = d + qcount /\ Len(Words) \in Nat
      /\ (Len(Words) % 3) = 0
  BY WordAt DEF EInv, WordsAreQueued, WholeEvents
<1>3. qcount > 0
  <2>1. CASE irq
    BY <1>1, <2>1 DEF EInv, LineFollows
  <2>2. CASE decoder # <<>>
    <3>1. d # 0
      BY <1>1, <2>2
    <3> HIDE DEF d
    <3> QED BY <1>1, <1>2, <3>1
  <2> QED BY <2>1, <2>2 DEF GuestRead
<1>4. /\ page' = page /\ queue' = queue /\ qtail' = qtail
      /\ qhead' = h1 /\ qcount' = qcount - 1 /\ irq' = (qcount' # 0)
      /\ PoppedWord = queue[qhead] /\ PoppedWord \in Nat
      /\ decoder' = IF d = 2 THEN <<>> ELSE Append(decoder, PoppedWord)
  BY <1>1, <1>3 DEF GuestRead, ReadWord, Pop, UpdateIrq, PoppedWord
<1>5. /\ h1 = Place(qhead, 1) /\ h1 \in Slots
      /\ qtail = Place(qhead, qcount) /\ Place(qhead, 0) = qhead
      /\ Place(h1, qcount - 1) = qtail
      /\ \A j \in 0 .. qcount - 1 : Place(h1, j) = Place(qhead, j + 1)
  <2>1. h1 = Place(qhead, 1) /\ qtail = Place(qhead, qcount)
    BY DEF Place, EInv, RingIsConsistent
  <2>2. qcount \in 1 .. QueueWords
    BY <1>1, <1>3
  <2> HIDE DEF h1
  <2> QED BY <1>1, <2>1, <2>2, PopPlaces
<1> HIDE DEF h1
<1>6. qcount' \in 0 .. QueueWords /\ qcount' \in Nat
  BY <1>1, <1>3, <1>4
<1>7. /\ decoder' \in Seq(Nat) /\ Len(decoder') < 3
      /\ Len(decoder') = IF d = 2 THEN 0 ELSE d + 1
      /\ d # 2 => \A k \in 1 .. d : decoder'[k] = decoder[k]
      /\ d # 2 => decoder'[d + 1] = PoppedWord
  <2>1. CASE d = 2
    BY <1>4, <2>1
  <2>2. CASE d # 2
    <3>1. decoder' = Append(decoder, PoppedWord)
      BY <1>4, <2>2
    <3>2. d + 1 < 3
      <4> HIDE DEF d
      <4> QED BY <1>2, <2>2
    <3> QED BY <1>1, <1>4, <2>2, <3>1, <3>2, AppendFacts
  <2> QED BY <2>1, <2>2
<1>8. TypeOK'
  BY <1>1, <1>4, <1>5, <1>6, <1>7 DEF TypeOK, Slots
<1>9. RingIsConsistent' /\ LineFollows'
  BY <1>4, <1>5 DEF RingIsConsistent, LineFollows, Place
<1>10. WordsAreQueued'
  <2>1. (TypeOK => WordsAreQueued)'
    BY WordAt, PTL
  <2> QED BY <2>1, <1>8
<1>11. /\ \A k \in 1 .. d : Words[k] = decoder[k]
       /\ \A j \in 0 .. qcount - 1 : Words[d + 1 + j] = queue[Place(qhead, j)]
  BY <1>2 DEF WordsAreQueued, Place
<1>12. /\ Len(Words') = Len(decoder') + (qcount - 1)
       /\ \A k \in 1 .. Len(decoder') : Words'[k] = decoder'[k]
       /\ \A j \in 0 .. qcount - 2 :
            Words'[Len(decoder') + 1 + j] = queue[Place(qhead, j + 1)]
  <2>1. /\ Len(Words') = Len(decoder') + qcount'
        /\ \A k \in 1 .. Len(decoder') : Words'[k] = decoder'[k]
        /\ \A j \in 0 .. qcount' - 1 :
             Words'[Len(decoder') + 1 + j] = queue'[Place(qhead', j)]
    BY <1>10 DEF WordsAreQueued, Place
  <2>2. \A j \in 0 .. qcount - 2 : j \in 0 .. qcount' - 1 /\ j \in 0 .. qcount - 1
    BY <1>1, <1>4
  <2> QED BY <1>4, <1>5, <2>1, <2>2
<1> HIDE DEF d
<1>13. Words[d + 1] = PoppedWord
  <2>1. 0 \in 0 .. qcount - 1 /\ d + 1 + 0 = d + 1
    BY <1>1, <1>2, <1>3
  <2> QED BY <1>4, <1>5, <1>11, <2>1
<1>14. ASSUME d # 2 PROVE WordsStay
  <2>1. Len(Words') = Len(Words) /\ Len(decoder') = d + 1
    BY <1>1, <1>2, <1>7, <1>12, <1>14
  <2>2. ASSUME NEW k \in 1 .. Len(Words) PROVE Words'[k] = Words[k]
    <3>1. CASE k <= d
      BY <1>2, <1>7, <1>11, <1>12, <1>14, <2>1, <3>1
    <3>2. CASE k = d + 1
      BY <1>2, <1>7, <1>12, <1>13, <1>14, <2>1, <3>2
    <3>3. CASE k > d + 1
      <4>1. /\ k - d - 2 \in 0 .. qcount - 2
            /\ (d + 1) + 1 + (k - d - 2) = k
            /\ (k - d - 2) + 1 \in 0 .. qcount - 1
            /\ d + 1 + ((k - d - 2) + 1) = k
        BY <1>1, <1>2, <3>3
      <4>2. Words'[k] = queue[Place(qhead, (k - d - 2) + 1)]
        BY <1>12, <2>1, <4>1
      <4>3. Words[k] = queue[Place(qhead, (k - d - 2) + 1)]
        BY <1>11, <4>1
      <4> QED BY <4>2, <4>3
    <3> QED BY <1>2, <3>1, <3>2, <3>3
  <2> QED BY <2>1, <2>2 DEF WordsStay
<1>15. ASSUME d = 2 PROVE FirstEventLeaves
  <2>1. /\ Len(decoder') = 0 /\ Len(Words') = Len(Words) - 3 /\ Len(Words) >= 3
        /\ Len(Words) = 2 + qcount
    BY <1>1, <1>2, <1>3, <1>7, <1>12, <1>15
  <2>2. decoder[1] = Words[1] /\ decoder[2] = Words[2] /\ PoppedWord = Words[3]
    BY <1>11, <1>13, <1>15
  <2>3. ASSUME NEW k \in 1 .. Len(Words) - 3 PROVE Words'[k] = Words[k + 3]
    <3>1. /\ k - 1 \in 0 .. qcount - 2 /\ 0 + 1 + (k - 1) = k
          /\ (k - 1) + 1 \in 0 .. qcount - 1 /\ 2 + 1 + ((k - 1) + 1) = k + 3
      BY <1>1, <2>1
    <3>2. Words'[k] = queue[Place(qhead, (k - 1) + 1)]
      BY <1>12, <2>1, <3>1
    <3>3. Words[k + 3] = queue[Place(qhead, (k - 1) + 1)]
      BY <1>11, <1>15, <3>1
    <3> QED BY <3>2, <3>3
  <2>4. Len(decoder) = 2
    BY <1>15 DEF d
  <2> QED BY <2>1, <2>2, <2>3, <2>4 DEF FirstEventLeaves
<1>16. Len(decoder) = d
  BY DEF d
<1> QED BY <1>3, <1>4, <1>8, <1>9, <1>14, <1>15, <1>16

----------------------------------------------------------------------------
(* What the host pushes. *)

LEMMA KeymapCodes == \A k \in DOMAIN keymap : keymap[k] \in Nat
  BY DEF keymap

LEMMA ProductIsNat ==
  ASSUME NEW m \in Nat, NEW n \in Nat
  PROVE  m * n \in Nat
  OBVIOUS

LEMMA QuotientIsNat ==
  ASSUME NEW m \in Nat
  PROVE  m \div 32767 \in Nat
  OBVIOUS

LEMMA LowHalfIsNat ==
  ASSUME NEW v \in Int
  PROVE  v % 65536 \in Nat
  OBVIOUS

LEMMA ScaleIsNat ==
  ASSUME NEW value \in Int, NEW size \in Nat
  PROVE  Scale(value, size) \in Nat
<1> DEFINE low == value % Halfword
           high == (value \div Halfword) % Halfword
           clamped == IF high # 0 \/ low > AbsLimit THEN AbsLimit ELSE low
<1>0. low \in Nat
  BY LowHalfIsNat DEF Halfword
<1> HIDE DEF low, high
<1>1. clamped \in Nat
  BY <1>0 DEF AbsLimit
<1>2. CASE size = 0
  BY <1>2 DEF Scale
<1>3. CASE size # 0
  <2> HIDE DEF clamped
  <2> DEFINE product == clamped * (size - 1)
  <2>1. size - 1 \in Nat
    BY <1>3
  <2>2. product \in Nat
    BY <1>1, <2>1, ProductIsNat
  <2>3. Scale(value, size) = product \div 32767
    BY <1>3 DEF Scale, AbsLimit, clamped, low, high
  <2> HIDE DEF product
  <2> QED BY <2>2, <2>3, QuotientIsNat
<1> QED BY <1>2, <1>3

EventTypes == {EV_SYN, EV_KEY, EV_ABS}

(* Each host operation pushes an event of a known type or does nothing. *)
LEMMA KeyPushes ==
  ASSUME NEW qcode, NEW down \in BOOLEAN, InputKey(qcode, down)
  PROVE  \/ UNCHANGED vars
         \/ /\ qcode \in DOMAIN keymap /\ keymap[qcode] \in Nat
            /\ BoolWord(down) \in Nat /\ Push(EV_KEY, keymap[qcode], BoolWord(down))
  BY KeymapCodes DEF InputKey, BoolWord

LEMMA ButtonPushes ==
  ASSUME NEW button, NEW down \in BOOLEAN, InputButton(button, down)
  PROVE  \/ UNCHANGED vars
         \/ /\ button = "left"
            /\ BoolWord(down) \in Nat /\ Push(EV_KEY, BTN_TOUCH, BoolWord(down))
  BY DEF InputButton, BoolWord

LEMMA AbsPushes ==
  ASSUME NEW axis, NEW value \in AbsValues, InputAbs(axis, value)
  PROVE  \E code \in Nat, v \in Nat : Push(EV_ABS, code, v)
<1>1. value \in Int /\ Width \in Nat /\ Height \in Nat
  BY EventsAssumption
<1>2. Scale(value, Width) \in Nat /\ Scale(value, Height) \in Nat
  BY <1>1, ScaleIsNat
<1>3. ABS_X \in Nat /\ ABS_Y \in Nat
  BY DEF ABS_X, ABS_Y
<1> QED BY <1>2, <1>3 DEF InputAbs

----------------------------------------------------------------------------
(* The invariant. *)

LEMMA InitEstablishes == Init => EInv
<1> SUFFICES ASSUME Init PROVE EInv
  OBVIOUS
<1>1. 0 \in Slots
  BY EventsAssumption DEF Slots
<1>2. TypeOK
  BY <1>1, EventsAssumption DEF Init, TypeOK, Pages
<1>3. RingIsConsistent
  BY EventsAssumption DEF Init, RingIsConsistent
<1>4. LineFollows
  BY DEF Init, LineFollows
<1>5. Len(Words) = 0
  BY <1>2, WordAt DEF Init, WordsAreQueued
<1>6. WholeEvents
  BY <1>5 DEF WholeEvents, EventStarts
<1> QED BY <1>2, <1>3, <1>4, <1>6 DEF EInv

LEMMA StutterKeeps == EInv /\ UNCHANGED vars => EInv'
<1> SUFFICES ASSUME EInv, UNCHANGED vars PROVE EInv'
  OBVIOUS
<1>1. Words' = Words
  BY DEF vars, ring, Words, Queue
<1> QED BY <1>1 DEF EInv, vars, ring, TypeOK, RingIsConsistent, LineFollows,
                    WholeEvents, EventStarts

LEMMA PushKeeps ==
  ASSUME EInv, NEW type \in EventTypes, NEW code \in Nat, NEW value \in Nat,
         Push(type, code, value)
  PROVE  EInv'
<1>1. type \in Nat
  BY DEF EventTypes, EV_SYN, EV_KEY, EV_ABS
<1>2. /\ TypeOK' /\ RingIsConsistent' /\ LineFollows'
      /\ UNCHANGED vars \/ Appended(type, code, value)
  BY <1>1, PushAppends DEF EInv
<1>3. CASE UNCHANGED vars
  BY <1>3, StutterKeeps
<1>4. CASE Appended(type, code, value)
  <2> DEFINE n == Len(Words)
  <2>1. n \in Nat /\ (n % 3) = 0
    BY WordAt DEF EInv, WordsAreQueued, WholeEvents
  <2>2. /\ Len(Words') = n + 3 /\ Words'[n + 1] = type
        /\ \A k \in 1 .. n : Words'[k] = Words[k]
    BY <1>4 DEF Appended
  <2>3. \A k \in 1 .. n : (k % 3) = 1 => Words[k] \in EventTypes
    BY DEF EInv, WholeEvents, EventStarts, EventTypes
  <2> HIDE DEF n
  <2>4. ((n + 3) % 3) = 0
    BY <2>1
  <2>5. \A k \in 1 .. n + 3 : (k % 3) = 1 => k \in 1 .. n \/ k = n + 1
    BY <2>1
  <2>6. \A k \in 1 .. n + 3 : (k % 3) = 1 => Words'[k] \in EventTypes
    BY <2>2, <2>3, <2>5
  <2>7. WholeEvents'
    BY <2>2, <2>4, <2>6 DEF WholeEvents, EventStarts, EventTypes
  <2> QED BY <1>2, <2>7 DEF EInv
<1> QED BY <1>2, <1>3, <1>4

LEMMA ReadKeeps ==
  ASSUME EInv, GuestRead
  PROVE  EInv'
<1> DEFINE n == Len(Words)
<1>1. /\ TypeOK' /\ RingIsConsistent' /\ LineFollows'
      /\ WordsStay \/ FirstEventLeaves
  BY ReadTakes
<1>2. n \in Nat /\ (n % 3) = 0
  BY WordAt DEF EInv, WordsAreQueued, WholeEvents
<1>3. \A k \in 1 .. n : (k % 3) = 1 => Words[k] \in EventTypes
  BY DEF EInv, WholeEvents, EventStarts, EventTypes
<1>4. CASE WordsStay
  <2>1. WholeEvents'
    BY <1>4 DEF WordsStay, EInv, WholeEvents, EventStarts
  <2> QED BY <1>1, <2>1 DEF EInv
<1>5. CASE FirstEventLeaves
  <2>1. /\ n >= 3 /\ Len(Words') = n - 3
        /\ \A k \in 1 .. n - 3 : Words'[k] = Words[k + 3]
    BY <1>5 DEF FirstEventLeaves
  <2> HIDE DEF n
  <2>2. ((n - 3) % 3) = 0
    BY <1>2, <2>1
  <2>3. \A k \in 1 .. n - 3 : (k % 3) = 1 => k + 3 \in 1 .. n /\ ((k + 3) % 3) = 1
    BY <1>2, <2>1
  <2>4. \A k \in 1 .. n - 3 : (k % 3) = 1 => Words'[k] \in EventTypes
    BY <1>3, <2>1, <2>3
  <2>5. WholeEvents'
    BY <2>1, <2>2, <2>4 DEF WholeEvents, EventStarts, EventTypes
  <2> QED BY <1>1, <2>5 DEF EInv
<1> QED BY <1>1, <1>4, <1>5

LEMMA SetPageKeeps ==
  ASSUME EInv, NEW p \in Pages, SetPage(p)
  PROVE  EInv'
<1>1. /\ queue' = queue /\ qhead' = qhead /\ qtail' = qtail
      /\ qcount' = qcount /\ irq' = irq /\ decoder' = decoder /\ page' = p
  BY DEF SetPage, ring
<1>2. Words' = Words
  BY <1>1 DEF Words, Queue
<1> QED BY <1>1, <1>2 DEF EInv, TypeOK, RingIsConsistent, LineFollows,
                          WholeEvents, EventStarts

LEMMA StepPreserves == EInv /\ [Next]_vars => EInv'
<1> SUFFICES ASSUME EInv, [Next]_vars PROVE EInv'
  OBVIOUS
<1>1. EV_SYN \in EventTypes /\ EV_KEY \in EventTypes /\ EV_ABS \in EventTypes
      /\ BTN_TOUCH \in Nat /\ 0 \in Nat
  BY DEF EventTypes, BTN_TOUCH
<1>2. ASSUME NEW qcode \in Qcodes, NEW down \in BOOLEAN, InputKey(qcode, down)
      PROVE  EInv'
  BY <1>1, <1>2, KeyPushes, PushKeeps, StutterKeeps
<1>3. ASSUME NEW button \in {"left", "right"}, NEW down \in BOOLEAN,
             InputButton(button, down)
      PROVE  EInv'
  BY <1>1, <1>3, ButtonPushes, PushKeeps, StutterKeeps
<1>4. ASSUME NEW axis \in {"x", "y"}, NEW value \in AbsValues,
             InputAbs(axis, value)
      PROVE  EInv'
  BY <1>1, <1>4, AbsPushes, PushKeeps
<1>5. ASSUME InputSync PROVE EInv'
  BY <1>1, <1>5, PushKeeps DEF InputSync
<1>6. CASE Guest
  BY <1>6, ReadKeeps, SetPageKeeps DEF Guest
<1>7. CASE UNCHANGED vars
  BY <1>7, StutterKeeps
<1> QED BY <1>2, <1>3, <1>4, <1>5, <1>6, <1>7 DEF Next, Host

(* The ring and the words in it are as the argument says, in every state.  *)
THEOREM EventsInvariant == Spec => []EInv
  BY InitEstablishes, StepPreserves, PTL DEF Spec

(* Type correctness: the ring, its indices and the guest's decoder stay in *)
(* range for every size of the queue.                                      *)
THEOREM EventsTypeCorrect == Spec => []TypeOK
<1>1. EInv => TypeOK
  BY DEF EInv
<1> QED BY <1>1, EventsInvariant, PTL

(* Events stay whole: push and pop never show the guest a part of an event *)
(* or a word in another's place, wherever the ring wraps and whatever was  *)
(* dropped.                                                                *)
THEOREM EventsStayWhole == Spec => []WholeEvents
<1>1. EInv => WholeEvents
  BY DEF EInv
<1> QED BY <1>1, EventsInvariant, PTL

----------------------------------------------------------------------------
(***************************************************************************)
(* Keys follow.  What the guest will believe of a key is changed by an     *)
(* event of that key at the end of Words, and kept by a read: an event of  *)
(* the key that leaves the front is either followed by another one, or is  *)
(* the last, and then becomes what the guest believes.                     *)
(***************************************************************************)

(* The three words of each event are among Words. *)
LEMMA EventsFit ==
  ASSUME EInv
  PROVE  /\ Len(Words) \in Nat /\ (Len(Words) % 3) = 0
         /\ \A k \in EventStarts : k \in Nat /\ k >= 1 /\ k + 2 <= Len(Words)
<1>1. Len(Words) \in Nat /\ (Len(Words) % 3) = 0
  BY WordAt DEF EInv, WordsAreQueued, WholeEvents
<1> DEFINE n == Len(Words)
<1> HIDE DEF n
<1>2. n \in Nat /\ (n % 3) = 0
  BY <1>1 DEF n
<1>3. \A k \in 1 .. n : (k % 3) = 1 => k \in Nat /\ k >= 1 /\ k + 2 <= n
  BY <1>2
<1> QED BY <1>1, <1>3 DEF n, EventStarts

LEMMA AppendedStarts ==
  ASSUME EInv, NEW type, NEW code, NEW value, Appended(type, code, value)
  PROVE  EventStarts' = EventStarts \cup {Len(Words) + 1}
<1> DEFINE n == Len(Words)
<1>1. n \in Nat /\ (n % 3) = 0 /\ Len(Words') = n + 3
  BY EventsFit DEF Appended
<1>2. EventStarts = {k \in 1 .. n : (k % 3) = 1}
      /\ EventStarts' = {k \in 1 .. n + 3 : (k % 3) = 1}
  BY <1>1 DEF EventStarts
<1> HIDE DEF n
<1>3. \A k \in Int : k \in 1 .. n + 3 /\ (k % 3) = 1
                     <=> (k \in 1 .. n /\ (k % 3) = 1) \/ k = n + 1
  BY <1>1
<1>4. {k \in 1 .. n + 3 : (k % 3) = 1} =
      {k \in 1 .. n : (k % 3) = 1} \cup {n + 1}
  BY <1>1, <1>3
<1> QED BY <1>2, <1>4 DEF n

(* An event of the key itself decides what the guest will believe of it. *)
LEMMA AppendDecides ==
  ASSUME EInv, NEW code, NEW value, Appended(EV_KEY, code, value)
  PROVE  WillBelieve(code)' <=> value = 1
<1> DEFINE n == Len(Words)
<1>1. n \in Nat /\ \A k \in EventStarts : k \in Nat /\ k >= 1 /\ k + 2 <= n
  BY EventsFit
<1>2. /\ Words'[n + 1] = EV_KEY /\ Words'[n + 2] = code /\ Words'[n + 3] = value
  BY DEF Appended
<1>3. EventStarts' = EventStarts \cup {n + 1}
  BY AppendedStarts
<1>4. OnTheWay(code)' = {k \in EventStarts' :
                           Words'[k] = EV_KEY /\ Words'[k + 1] = code}
  BY DEF OnTheWay
<1> HIDE DEF n
<1>5. n + 1 \in OnTheWay(code)' /\ (n + 1) + 1 = n + 2 /\ (n + 1) + 2 = n + 3
  BY <1>1, <1>2, <1>3, <1>4
<1>6. \A k \in OnTheWay(code)' : k <= n + 1 /\ k \in Int
  BY <1>1, <1>3, <1>4
<1>7. WillBelieve(code)' <=> \E k \in OnTheWay(code)' :
                               /\ Words'[k + 2] = 1
                               /\ \A j \in OnTheWay(code)' : j <= k
  BY <1>5 DEF WillBelieve
<1>8. \A k \in OnTheWay(code)' :
        (\A j \in OnTheWay(code)' : j <= k) <=> k = n + 1
  BY <1>1, <1>5, <1>6
<1> QED BY <1>2, <1>5, <1>7, <1>8

(* Any other event leaves what the guest will believe of it. *)
LEMMA AppendLeaves ==
  ASSUME EInv, NEW type, NEW c, NEW value, Appended(type, c, value),
         NEW code, ~(type = EV_KEY /\ c = code), believed' = believed
  PROVE  WillBelieve(code)' <=> WillBelieve(code)
<1> DEFINE n == Len(Words)
<1>1. n \in Nat /\ \A k \in EventStarts : k \in Nat /\ k >= 1 /\ k + 2 <= n
  BY EventsFit
<1>2. /\ Words'[n + 1] = type /\ Words'[n + 2] = c
      /\ \A k \in 1 .. n : Words'[k] = Words[k]
  BY DEF Appended
<1>3. EventStarts' = EventStarts \cup {n + 1}
  BY AppendedStarts
<1>4. /\ OnTheWay(code)' = {k \in EventStarts' :
                              Words'[k] = EV_KEY /\ Words'[k + 1] = code}
      /\ OnTheWay(code) = {k \in EventStarts :
                             Words[k] = EV_KEY /\ Words[k + 1] = code}
  BY DEF OnTheWay
<1> HIDE DEF n
<1>5. \A k \in EventStarts :
        Words'[k] = Words[k] /\ Words'[k + 1] = Words[k + 1]
        /\ Words'[k + 2] = Words[k + 2]
  BY <1>1, <1>2
<1>6. (n + 1) + 1 = n + 2
  BY <1>1
<1>7. OnTheWay(code)' = OnTheWay(code)
  BY <1>2, <1>3, <1>4, <1>5, <1>6
<1>8. \A k \in OnTheWay(code) : Words'[k + 2] = Words[k + 2]
  BY <1>4, <1>5
<1> QED BY <1>7, <1>8 DEF WillBelieve

(* A read leaves what the guest will believe of each key. *)
LEMMA ReadLeaves ==
  ASSUME EInv, GuestReadsKey, NEW code
  PROVE  WillBelieve(code)' <=> WillBelieve(code)
<1> DEFINE n == Len(Words)
<1>1. n \in Nat /\ (n % 3) = 0
      /\ \A k \in EventStarts : k \in Nat /\ k >= 1 /\ k + 2 <= n
  BY EventsFit
<1>2. (Len(decoder) # 2 /\ WordsStay) \/ FirstEventLeaves
  BY ReadTakes DEF GuestReadsKey
<1>3. CASE Len(decoder) # 2 /\ WordsStay
  <2>1. believed' = believed
    BY <1>3 DEF GuestReadsKey
  <2>2. Len(Words') = n /\ \A k \in 1 .. n : Words'[k] = Words[k]
    BY <1>3 DEF WordsStay
  <2>3. EventStarts' = EventStarts
    BY <2>2 DEF EventStarts
  <2> HIDE DEF n
  <2>4. \A k \in EventStarts :
          Words'[k] = Words[k] /\ Words'[k + 1] = Words[k + 1]
          /\ Words'[k + 2] = Words[k + 2]
    BY <1>1, <2>2
  <2>5. OnTheWay(code)' = OnTheWay(code)
    BY <2>3, <2>4 DEF OnTheWay
  <2>6. \A k \in OnTheWay(code) : Words'[k + 2] = Words[k + 2]
    BY <2>4 DEF OnTheWay
  <2> QED BY <2>1, <2>5, <2>6 DEF WillBelieve
<1>4. CASE FirstEventLeaves
  <2> DEFINE before == OnTheWay(code)
             after  == OnTheWay(code)'
  <2>1. /\ n >= 3 /\ Len(Words') = n - 3
        /\ \A k \in 1 .. n - 3 : Words'[k] = Words[k + 3]
        /\ believed' = IF Words[1] = EV_KEY
                       THEN Updated(believed, Words[2], Words[3] = 1)
                       ELSE believed
    BY <1>4 DEF FirstEventLeaves, GuestReadsKey
  <2>2. /\ EventStarts = {k \in 1 .. n : (k % 3) = 1}
        /\ EventStarts' = {k \in 1 .. n - 3 : (k % 3) = 1}
    BY <2>1 DEF EventStarts
  <2>3. /\ before = {k \in EventStarts : Words[k] = EV_KEY /\ Words[k + 1] = code}
        /\ after = {k \in EventStarts' : Words'[k] = EV_KEY /\ Words'[k + 1] = code}
    BY DEF OnTheWay
  <2>4. /\ WillBelieve(code) <=> IF before = {} THEN code \in believed
                                 ELSE \E k \in before : /\ Words[k + 2] = 1
                                                        /\ \A j \in before : j <= k
        /\ WillBelieve(code)' <=> IF after = {} THEN code \in believed'
                                  ELSE \E k \in after : /\ Words'[k + 2] = 1
                                                        /\ \A j \in after : j <= k
    BY DEF WillBelieve
  <2> HIDE DEF n, before, after
  <2>5. /\ 1 \in EventStarts
        /\ \A k \in EventStarts : k \in Int /\ (k = 1 \/ k >= 4)
        /\ \A k \in Int : k \in EventStarts' <=> k + 3 \in EventStarts /\ k >= 1
        /\ \A k \in EventStarts' : k \in Int /\ k >= 1 /\ k + 2 <= n - 3
    <3>1. \A k \in Int : (k + 3) % 3 = k % 3
      OBVIOUS
    <3>2. \A k \in 1 .. n : (k % 3) = 1 => k = 1 \/ k >= 4
      BY <1>1
    <3>3. \A k \in 1 .. n - 3 : (k % 3) = 1 => k + 2 <= n - 3
      <4> DEFINE m == n - 3
      <4>1. m \in Nat /\ (m % 3) = 0
        BY <1>1, <2>1
      <4> HIDE DEF m
      <4>2. \A k \in 1 .. m : (k % 3) = 1 => k + 2 <= m
        BY <4>1
      <4> QED BY <4>2 DEF m
    <3>4. 1 \in 1 .. n /\ (1 % 3) = 1
      BY <1>1, <2>1
    <3>5. \A k \in Int : k \in 1 .. n - 3 <=> k + 3 \in 1 .. n /\ k >= 1
      BY <1>1
    <3> QED BY <1>1, <2>2, <3>1, <3>2, <3>3, <3>4, <3>5
  <2>6. \A k \in EventStarts' : /\ Words'[k] = Words[k + 3]
                                /\ Words'[k + 1] = Words[(k + 3) + 1]
                                /\ Words'[k + 2] = Words[(k + 3) + 2]
    <3> SUFFICES ASSUME NEW k \in EventStarts'
                 PROVE  /\ Words'[k] = Words[k + 3]
                        /\ Words'[k + 1] = Words[(k + 3) + 1]
                        /\ Words'[k + 2] = Words[(k + 3) + 2]
      OBVIOUS
    <3>1. /\ k \in 1 .. n - 3 /\ k + 1 \in 1 .. n - 3 /\ k + 2 \in 1 .. n - 3
          /\ (k + 1) + 3 = (k + 3) + 1 /\ (k + 2) + 3 = (k + 3) + 2
      BY <1>1, <2>5
    <3> QED BY <2>1, <3>1
  <2>7. \A k \in Int : k \in after <=> k + 3 \in before /\ k >= 1
    BY <2>3, <2>5, <2>6
  <2>8. /\ 1 \in before <=> Words[1] = EV_KEY /\ Words[2] = code
        /\ \A k \in before : k \in Int /\ (k = 1 \/ k >= 4)
        /\ \A k \in after : k \in Int /\ Words'[k + 2] = Words[(k + 3) + 2]
    BY <2>3, <2>5, <2>6
  <2>9. CASE after # {}
    <3>1. before # {} /\ \E k \in after : k + 3 \in before
      BY <2>7, <2>8, <2>9
    <3>2. ASSUME NEW k \in before, Words[k + 2] = 1, \A j \in before : j <= k
          PROVE  /\ k - 3 \in after /\ Words'[(k - 3) + 2] = 1
                 /\ \A j \in after : j <= k - 3
      <4>1. k \in Int /\ k # 1 /\ k >= 4
        BY <2>7, <2>8, <3>1, <3>2
      <4>2. (k - 3) + 3 = k /\ k - 3 \in Int /\ k - 3 >= 1
        BY <4>1
      <4>3. k - 3 \in after
        BY <2>7, <4>2
      <4>4. Words'[(k - 3) + 2] = 1
        BY <2>8, <3>2, <4>2, <4>3
      <4>5. \A j \in after : j <= k - 3
        BY <2>7, <2>8, <3>2, <4>1
      <4> QED BY <4>3, <4>4, <4>5
    <3>3. ASSUME NEW k \in after, Words'[k + 2] = 1, \A j \in after : j <= k
          PROVE  /\ k + 3 \in before /\ Words[(k + 3) + 2] = 1
                 /\ \A j \in before : j <= k + 3
      <4>1. k \in Int /\ k >= 1 /\ k + 3 \in before
        BY <2>7, <2>8
      <4>2. ASSUME NEW j \in before PROVE j <= k + 3
        <5>1. j \in Int /\ (j = 1 \/ j >= 4)
          BY <2>8
        <5>2. CASE j = 1
          BY <4>1, <5>2
        <5>3. CASE j >= 4
          <6>1. j - 3 \in Int /\ j - 3 >= 1 /\ (j - 3) + 3 = j
            BY <5>1, <5>3
          <6>2. j - 3 \in after
            BY <2>7, <6>1
          <6> QED BY <3>3, <4>1, <5>1, <6>2
        <5> QED BY <5>1, <5>2, <5>3
      <4> QED BY <2>8, <3>3, <4>1, <4>2
    <3> QED BY <2>4, <2>9, <3>1, <3>2, <3>3
  <2>10. CASE after = {}
    <3>1. \A k \in before : k = 1
      <4> SUFFICES ASSUME NEW k \in before, k # 1 PROVE FALSE
        OBVIOUS
      <4>1. k - 3 \in Int /\ k - 3 >= 1 /\ (k - 3) + 3 = k
        BY <2>8
      <4> QED BY <2>7, <2>10, <4>1
    <3>2. CASE before = {}
      <4>1. ~(Words[1] = EV_KEY /\ Words[2] = code)
        BY <2>8, <3>2
      <4>2. code \in believed' <=> code \in believed
        BY <2>1, <4>1 DEF Updated
      <4> QED BY <2>4, <2>10, <3>2, <4>2
    <3>3. CASE before # {}
      <4>1. before = {1} /\ Words[1] = EV_KEY /\ Words[2] = code
        BY <2>8, <3>1, <3>3
      <4>2. code \in believed' <=> Words[3] = 1
        BY <2>1, <4>1 DEF Updated
      <4>3. WillBelieve(code) <=> Words[3] = 1
        BY <2>4, <4>1
      <4> QED BY <2>4, <2>10, <4>2, <4>3
    <3> QED BY <3>2, <3>3
  <2> QED BY <2>9, <2>10
<1> QED BY <1>2, <1>3, <1>4

(* The inductive invariant of GoldfishKeys. *)
KeysInv == EInv /\ KeysFollow

LEMMA KeysInitEstablishes == KeysInit => KeysInv
<1> SUFFICES ASSUME KeysInit PROVE KeysInv
  OBVIOUS
<1>1. EInv
  BY InitEstablishes DEF KeysInit
<1>2. Len(Words) = 0
  BY <1>1, WordAt DEF EInv, KeysInit, Init, WordsAreQueued
<1>3. \A code : OnTheWay(code) = {}
  BY <1>2 DEF OnTheWay, EventStarts
<1>4. KeysFollow
  BY <1>3 DEF KeysFollow, WillBelieve, KeysInit
<1> QED BY <1>1, <1>4 DEF KeysInv

(* What a step keeps of each key when it drops and reads nothing. *)
LEMMA QuietKeeps ==
  ASSUME KeysInv, EInv', UNCHANGED keyboard,
         \A code : WillBelieve(code)' <=> WillBelieve(code)
  PROVE  KeysInv'
<1>1. KeysFollow'
  BY DEF KeysInv, KeysFollow, keyboard
<1> QED BY <1>1 DEF KeysInv

LEMMA UnchangedWords ==
  ASSUME Words' = Words, believed' = believed, NEW code
  PROVE  WillBelieve(code)' <=> WillBelieve(code)
  BY DEF WillBelieve, OnTheWay, EventStarts

LEMMA VarsKeepWords ==
  ASSUME UNCHANGED vars
  PROVE  Words' = Words /\ qcount' = qcount
  BY DEF vars, ring, Words, Queue

(* A key or the button changes at the host. *)
LEMMA PressKeeps ==
  ASSUME KeysInv, EInv', NEW code \in Nat, NEW down \in BOOLEAN,
         Press(code, down),
         UNCHANGED vars \/ Push(EV_KEY, code, BoolWord(down))
  PROVE  KeysInv'
<1>1. /\ held' = Updated(held, code, down)
      /\ lost' = Updated(lost, code, qcount' = qcount)
      /\ believed' = believed
  BY DEF Press
<1>2. BoolWord(down) \in Nat /\ EV_KEY \in Nat /\ (BoolWord(down) = 1 <=> down)
  BY DEF BoolWord, EV_KEY
<1>3. \/ UNCHANGED vars
      \/ qcount' = qcount + 3 /\ Appended(EV_KEY, code, BoolWord(down))
  BY <1>2, PushAppends DEF KeysInv, EInv
<1>4. CASE UNCHANGED vars
  <2>1. Words' = Words /\ lost' = lost \cup {code}
    BY <1>1, <1>4, VarsKeepWords DEF Updated
  <2>2. \A c : WillBelieve(c)' <=> WillBelieve(c)
    BY <1>1, <2>1, UnchangedWords
  <2>3. \A c : c # code => (c \in held' <=> c \in held)
    BY <1>1 DEF Updated
  <2>4. KeysFollow'
    BY <2>1, <2>2, <2>3 DEF KeysInv, KeysFollow
  <2> QED BY <2>4 DEF KeysInv
<1>5. CASE qcount' = qcount + 3 /\ Appended(EV_KEY, code, BoolWord(down))
  <2>1. qcount' # qcount
    BY <1>5, EventsAssumption DEF KeysInv, EInv, TypeOK
  <2>2. lost' = lost \ {code}
    BY <1>1, <2>1 DEF Updated
  <2>3. WillBelieve(code)' <=> code \in held'
    BY <1>1, <1>2, <1>5, AppendDecides DEF KeysInv, Updated
  <2>4. ASSUME NEW c, c # code
        PROVE  (WillBelieve(c)' <=> WillBelieve(c)) /\ (c \in held' <=> c \in held)
    BY <1>1, <1>5, <2>4, AppendLeaves DEF KeysInv, Updated
  <2>5. KeysFollow'
    BY <2>2, <2>3, <2>4 DEF KeysInv, KeysFollow
  <2> QED BY <2>5 DEF KeysInv
<1> QED BY <1>3, <1>4, <1>5

(* The host points or synchronises: no key is concerned. *)
LEMMA OtherPushKeeps ==
  ASSUME KeysInv, EInv', UNCHANGED keyboard,
         NEW type \in Nat, NEW c \in Nat, NEW v \in Nat,
         type # EV_KEY, Push(type, c, v)
  PROVE  KeysInv'
<1>1. UNCHANGED vars \/ Appended(type, c, v)
  BY PushAppends DEF KeysInv, EInv
<1>2. believed' = believed
  BY DEF keyboard
<1>3. CASE UNCHANGED vars
  <2>1. Words' = Words
    BY <1>3, VarsKeepWords
  <2> QED BY <1>2, <2>1, UnchangedWords, QuietKeeps
<1>4. CASE Appended(type, c, v)
  <2>1. \A code : WillBelieve(code)' <=> WillBelieve(code)
    BY <1>2, <1>4, AppendLeaves DEF KeysInv
  <2> QED BY <2>1, QuietKeeps
<1> QED BY <1>1, <1>3, <1>4

(* Every step of the keyboard is a step of the device. *)
LEMMA KeysStepIsStep == [KeysNext]_keysVars => [Next]_vars
<1>1. ASSUME NEW qcode \in Qcodes, NEW down \in BOOLEAN, PressKey(qcode, down)
      PROVE  [Next]_vars
  BY <1>1 DEF PressKey, Next, Host
<1>2. ASSUME NEW button \in {"left", "right"}, NEW down \in BOOLEAN,
             PressButton(button, down)
      PROVE  [Next]_vars
  BY <1>2 DEF PressButton, Next, Host
<1>3. ASSUME InputSync \/ \E axis \in {"x", "y"}, value \in AbsValues :
                            InputAbs(axis, value)
      PROVE  [Next]_vars
  BY <1>3 DEF Next, Host
<1>4. ASSUME GuestReadsKey \/ \E p \in Pages : SetPage(p)
      PROVE  [Next]_vars
  BY <1>4 DEF GuestReadsKey, Next, Guest
<1>5. ASSUME UNCHANGED keysVars PROVE UNCHANGED vars
  BY <1>5 DEF keysVars
<1> QED BY <1>1, <1>2, <1>3, <1>4, <1>5 DEF KeysNext

LEMMA KeysStepPreserves == KeysInv /\ [KeysNext]_keysVars => KeysInv'
<1> SUFFICES ASSUME KeysInv, [KeysNext]_keysVars PROVE KeysInv'
  OBVIOUS
<1>1. EInv'
  BY KeysStepIsStep, StepPreserves DEF KeysInv
<1>2. /\ EV_SYN \in Nat /\ EV_ABS \in Nat /\ BTN_TOUCH \in Nat /\ 0 \in Nat
      /\ EV_SYN # EV_KEY /\ EV_ABS # EV_KEY
  BY DEF EV_SYN, EV_ABS, EV_KEY, BTN_TOUCH
<1>3. ASSUME UNCHANGED vars, UNCHANGED keyboard PROVE KeysInv'
  <2>1. Words' = Words /\ believed' = believed
    BY <1>3, VarsKeepWords DEF keyboard
  <2> QED BY <1>1, <1>3, <2>1, UnchangedWords, QuietKeeps
<1>4. ASSUME NEW qcode \in Qcodes, NEW down \in BOOLEAN, PressKey(qcode, down)
      PROVE  KeysInv'
  <2>1. CASE qcode \in DOMAIN keymap
    <3>1. keymap[qcode] \in Nat /\ Press(keymap[qcode], down)
      BY <1>4, <2>1, KeymapCodes DEF PressKey
    <3>2. UNCHANGED vars \/ Push(EV_KEY, keymap[qcode], BoolWord(down))
      BY <1>4, <2>1 DEF PressKey, InputKey
    <3> QED BY <1>1, <3>1, <3>2, PressKeeps
  <2>2. CASE qcode \notin DOMAIN keymap
    BY <1>3, <1>4, <2>2 DEF PressKey, InputKey
  <2> QED BY <2>1, <2>2
<1>5. ASSUME NEW button \in {"left", "right"}, NEW down \in BOOLEAN,
             PressButton(button, down)
      PROVE  KeysInv'
  <2>1. CASE button = "left"
    <3>1. Press(BTN_TOUCH, down) /\ Push(EV_KEY, BTN_TOUCH, BoolWord(down))
      BY <1>5, <2>1 DEF PressButton, InputButton
    <3> QED BY <1>1, <1>2, <3>1, PressKeeps
  <2>2. CASE button # "left"
    BY <1>3, <1>5, <2>2 DEF PressButton, InputButton
  <2> QED BY <2>1, <2>2
<1>6. ASSUME InputSync \/ \E axis \in {"x", "y"}, value \in AbsValues :
                            InputAbs(axis, value),
             UNCHANGED keyboard
      PROVE  KeysInv'
  <2>1. \E type \in {EV_SYN, EV_ABS}, c \in Nat, v \in Nat : Push(type, c, v)
    BY <1>2, <1>6, AbsPushes DEF InputSync
  <2> QED BY <1>1, <1>2, <1>6, <2>1, OtherPushKeeps
<1>7. ASSUME GuestReadsKey PROVE KeysInv'
  <2>1. held' = held /\ lost' = lost
    BY <1>7 DEF GuestReadsKey
  <2>2. \A code : WillBelieve(code)' <=> WillBelieve(code)
    BY <1>7, ReadLeaves DEF KeysInv
  <2>3. KeysFollow'
    BY <2>1, <2>2 DEF KeysInv, KeysFollow
  <2> QED BY <1>1, <2>3 DEF KeysInv
<1>8. ASSUME NEW p \in Pages, SetPage(p), UNCHANGED keyboard
      PROVE  KeysInv'
  <2>1. Words' = Words /\ believed' = believed
    BY <1>8 DEF SetPage, ring, Words, Queue, keyboard
  <2> QED BY <1>1, <1>8, <2>1, UnchangedWords, QuietKeeps
<1>9. CASE UNCHANGED keysVars
  BY <1>3, <1>9 DEF keysVars
<1> QED BY <1>4, <1>5, <1>6, <1>7, <1>8, <1>9 DEF KeysNext

(* What user, queue and guest believe of each key fits together, in every  *)
(* state.                                                                  *)
THEOREM KeysInvariant == KeysSpec => []KeysInv
  BY KeysInitEstablishes, KeysStepPreserves, PTL DEF KeysSpec

(* A key sticks only by the loss of its own latest change: for every queue *)
(* size, whatever else was dropped and wherever the ring wraps.            *)
THEOREM KeysAreFollowed == KeysSpec => []KeysFollow
<1>1. KeysInv => KeysFollow
  BY DEF KeysInv
<1> QED BY <1>1, KeysInvariant, PTL

----------------------------------------------------------------------------
(***************************************************************************)
(* The capability pages.  A bit that the guest reads on an EVBITS page is  *)
(* set exactly when the code is supported, a word of the ABSDATA page is   *)
(* put together from its bytes again, and the codes and positions that the *)
(* host pushes are among those; the ring only hands them on.               *)
(***************************************************************************)

LEMMA BitsOfSum ==
  ASSUME NEW x0 \in {0, 1}, NEW x1 \in {0, 1}, NEW x2 \in {0, 1},
         NEW x3 \in {0, 1}, NEW x4 \in {0, 1}, NEW x5 \in {0, 1},
         NEW x6 \in {0, 1}, NEW x7 \in {0, 1}, NEW byte,
         byte = x0 + 2 * x1 + 4 * x2 + 8 * x3
                  + 16 * x4 + 32 * x5 + 64 * x6 + 128 * x7
  PROVE  /\ (byte \div 1) % 2 = x0 /\ (byte \div 2) % 2 = x1
         /\ (byte \div 4) % 2 = x2 /\ (byte \div 8) % 2 = x3
         /\ (byte \div 16) % 2 = x4 /\ (byte \div 32) % 2 = x5
         /\ (byte \div 64) % 2 = x6 /\ (byte \div 128) % 2 = x7
  OBVIOUS

(* A byte of the bits tells them again. *)
LEMMA BitsOfByte ==
  ASSUME NEW bits, NEW b \in 0 .. 7
  PROVE  (ByteOf(bits) \div BitWeight[b + 1]) % 2 = 1 <=> b \in bits
<1> DEFINE x(k) == IF k \in bits THEN 1 ELSE 0
           byte == x(0) + 2 * x(1) + 4 * x(2) + 8 * x(3)
                     + 16 * x(4) + 32 * x(5) + 64 * x(6) + 128 * x(7)
<1>1. ByteOf(bits) = byte
  BY DEF ByteOf, BitWeight
<1>2. \A k : x(k) \in {0, 1} /\ (x(k) = 1 <=> k \in bits)
  OBVIOUS
<1> HIDE DEF x
<1>3. /\ (byte \div 1) % 2 = x(0) /\ (byte \div 2) % 2 = x(1)
      /\ (byte \div 4) % 2 = x(2) /\ (byte \div 8) % 2 = x(3)
      /\ (byte \div 16) % 2 = x(4) /\ (byte \div 32) % 2 = x(5)
      /\ (byte \div 64) % 2 = x(6) /\ (byte \div 128) % 2 = x(7)
  <2>1. /\ x(0) \in {0, 1} /\ x(1) \in {0, 1} /\ x(2) \in {0, 1} /\ x(3) \in {0, 1}
        /\ x(4) \in {0, 1} /\ x(5) \in {0, 1} /\ x(6) \in {0, 1} /\ x(7) \in {0, 1}
    BY <1>2
  <2> QED BY ONLY <2>1, BitsOfSum
<1> HIDE DEF byte
<1>4. /\ BitWeight[1] = 1 /\ BitWeight[2] = 2 /\ BitWeight[3] = 4
      /\ BitWeight[4] = 8 /\ BitWeight[5] = 16 /\ BitWeight[6] = 32
      /\ BitWeight[7] = 64 /\ BitWeight[8] = 128
  BY DEF BitWeight
<1>5. (byte \div BitWeight[b + 1]) % 2 = x(b)
  <2>1. b = 0 \/ b = 1 \/ b = 2 \/ b = 3 \/ b = 4 \/ b = 5 \/ b = 6 \/ b = 7
    OBVIOUS
  <2> QED BY <1>3, <1>4, <2>1
<1> QED BY <1>1, <1>2, <1>5

(* On the page of a type the guest reads which codes are supported.        *)
LEMMA AdvertisedIsSupported ==
  ASSUME NEW type \in EventTypes, NEW code \in Nat,
         code < 8 * DataLen(PAGE_EVBITS + type), Supported(type, code)
  PROVE  Advertised(type, code)
<1> DEFINE p == PAGE_EVBITS + type
           offset == code \div 8
           b == code % 8
           bits == {bit \in 0 .. 7 : Supported(type, offset * 8 + bit)}
<1>1. /\ PageType(p) = type /\ OnEvBits(p)
      /\ p # PAGE_NAME /\ p # PAGE_ABSDATA
  BY DEF EventTypes, EV_SYN, EV_KEY, EV_ABS, PageType, OnEvBits, PAGE_EVBITS,
         PAGE_NAME, PAGE_ABSDATA
<1>2. DataLen(p) \in Nat
  BY <1>1 DEF DataLen, BTN_TOUCH
<1>3. offset \in Nat /\ b \in 0 .. 7 /\ offset * 8 + b = code
  OBVIOUS
<1>4. ~(offset >= DataLen(p))
  <2> DEFINE len == DataLen(p)
  <2>1. code < 8 * len /\ len \in Nat
    BY <1>2
  <2> HIDE DEF len, p
  <2>2. offset < len
    BY <2>1
  <2> QED BY <1>3, <2>1, <2>2 DEF len
<1>5. DataByte(p, offset) = ByteOf(bits)
  <2>1. bits = {bit \in 0 .. 7 : Supported(PageType(p), offset * 8 + bit)}
    BY <1>1
  <2> HIDE DEF bits, p, offset
  <2> QED BY <1>1, <1>4, <2>1 DEF DataByte
<1>6. b \in bits
  BY <1>3
<1> HIDE DEF bits
<1>7. (ByteOf(bits) \div BitWeight[b + 1]) % 2 = 1
  BY <1>3, <1>6, BitsOfByte
<1> QED BY <1>5, <1>7 DEF Advertised

(* The codes that the host pushes are those of the pages.                  *)
LEMMA CodesAdvertised ==
  /\ EV_SYN \in DOMAIN Capabilities /\ 0 \in Capabilities[EV_SYN]
  /\ EV_KEY \in DOMAIN Capabilities /\ BTN_TOUCH \in Capabilities[EV_KEY]
  /\ \A k \in DOMAIN keymap : keymap[k] \in Capabilities[EV_KEY]
  /\ EV_ABS \in DOMAIN Capabilities
  /\ ABS_X \in Capabilities[EV_ABS] /\ ABS_Y \in Capabilities[EV_ABS]
<1>1. /\ DataLen(PAGE_EVBITS + EV_SYN) = 1 /\ DataLen(PAGE_EVBITS + EV_ABS) = 1
      /\ DataLen(PAGE_EVBITS + EV_KEY) = 42
  <2>1. ASSUME NEW type \in EventTypes
        PROVE  /\ PageType(PAGE_EVBITS + type) = type
               /\ OnEvBits(PAGE_EVBITS + type)
               /\ PAGE_EVBITS + type # PAGE_NAME
               /\ PAGE_EVBITS + type # PAGE_ABSDATA
    BY DEF EventTypes, EV_SYN, EV_KEY, EV_ABS, PageType, OnEvBits, PAGE_EVBITS,
           PAGE_NAME, PAGE_ABSDATA
  <2>2. ASSUME NEW type \in EventTypes
        PROVE  DataLen(PAGE_EVBITS + type) = IF type = EV_KEY THEN 42 ELSE 1
    <3> DEFINE p == PAGE_EVBITS + type
    <3>1. PageType(p) = type /\ OnEvBits(p) /\ p # PAGE_NAME /\ p # PAGE_ABSDATA
      BY <2>1
    <3> HIDE DEF p
    <3>2. DataLen(p) = CASE type \in {EV_SYN, EV_ABS, EV_SW} -> 1
                         [] type = EV_KEY -> BTN_TOUCH \div 8 + 1
                         [] OTHER -> 0
      BY <3>1 DEF DataLen
    <3> QED BY <3>2 DEF p, EventTypes, EV_SYN, EV_KEY, EV_ABS, EV_SW, BTN_TOUCH
  <2> QED BY <2>2 DEF EventTypes, EV_SYN, EV_KEY, EV_ABS
<1>2. ASSUME NEW type \in EventTypes, NEW code \in Nat,
             code < 8 * DataLen(PAGE_EVBITS + type), Supported(type, code)
      PROVE  type \in DOMAIN Capabilities /\ code \in Capabilities[type]
  <2>1. DataLen(PAGE_EVBITS + type) \in Nat
    BY <1>1 DEF EventTypes
  <2>2. code \in 0 .. 8 * DataLen(PAGE_EVBITS + type) - 1
    BY <1>2, <2>1
  <2> QED BY <1>2, <2>2, AdvertisedIsSupported DEF Capabilities, EventTypes
<1>3. /\ Supported(EV_SYN, 0)
      /\ Supported(EV_KEY, BTN_TOUCH)
      /\ \A k \in DOMAIN keymap : Supported(EV_KEY, keymap[k])
      /\ Supported(EV_ABS, ABS_X) /\ Supported(EV_ABS, ABS_Y)
  BY DEF Supported, KeySupported, EV_SYN, EV_KEY, EV_ABS, EV_SW
<1>4. \A k \in DOMAIN keymap : keymap[k] \in Nat /\ keymap[k] < 8 * 42
  BY DEF keymap
<1>5. /\ 0 \in Nat /\ 0 < 8 * 1 /\ BTN_TOUCH \in Nat /\ BTN_TOUCH < 8 * 42
      /\ ABS_X \in Nat /\ ABS_X < 8 * 1 /\ ABS_Y \in Nat /\ ABS_Y < 8 * 1
  BY DEF BTN_TOUCH, ABS_X, ABS_Y
<1>6. EV_SYN \in EventTypes /\ EV_KEY \in EventTypes /\ EV_ABS \in EventTypes
  BY DEF EventTypes
<1> QED BY <1>1, <1>2, <1>3, <1>4, <1>5, <1>6

LEMMA WordOfBytes ==
  ASSUME NEW w \in Nat, w \div 65536 < 65536
  PROVE  ((w \div 1) % 256) * 1 + ((w \div 256) % 256) * 256
           + ((w \div 65536) % 256) * 65536
           + ((w \div 16777216) % 256) * 16777216 = w
  OBVIOUS

(* A word of the ABSDATA page, read at once, is the number it stands for.  *)
LEMMA WordRead ==
  ASSUME NEW word \in 0 .. 7, AbsWord(word) \in Nat,
         AbsWord(word) \div 65536 < 65536
  PROVE  DataRead(PAGE_ABSDATA, 4 * word, 4) = AbsWord(word)
<1> DEFINE w == AbsWord(word)
<1>1. DataLen(PAGE_ABSDATA) = 32
  BY DEF DataLen, PAGE_ABSDATA, PAGE_NAME, PAGE_EVBITS, OnEvBits, PageType
<1>2. PAGE_ABSDATA # PAGE_NAME /\ ~OnEvBits(PAGE_ABSDATA)
  BY DEF PAGE_ABSDATA, PAGE_NAME, PAGE_EVBITS, OnEvBits, PageType
<1>3. ASSUME NEW i \in 0 .. 3
      PROVE  DataByte(PAGE_ABSDATA, 4 * word + i) = (w \div ByteWeight[i + 1]) % 256
  <2>1. /\ ~(4 * word + i >= 32)
        /\ (4 * word + i) \div 4 = word /\ (4 * word + i) % 4 = i
    OBVIOUS
  <2> QED BY <1>1, <1>2, <2>1 DEF DataByte
<1>4. /\ ByteWeight[1] = 1 /\ ByteWeight[2] = 256
      /\ ByteWeight[3] = 65536 /\ ByteWeight[4] = 16777216
  BY DEF ByteWeight
<1> HIDE DEF w
<1> DEFINE Byte(i) == DataByte(PAGE_ABSDATA, 4 * word + i)
<1>5. /\ Byte(0) = (w \div 1) % 256 /\ Byte(1) = (w \div 256) % 256
      /\ Byte(2) = (w \div 65536) % 256 /\ Byte(3) = (w \div 16777216) % 256
  BY <1>3, <1>4
<1>6. DataRead(PAGE_ABSDATA, 4 * word, 4)
        = Byte(0) * 1 + Byte(1) * 256 + Byte(2) * 65536 + Byte(3) * 16777216
  BY <1>4 DEF DataRead
<1> HIDE DEF Byte
<1> QED BY <1>5, <1>6, WordOfBytes DEF w

LEMMA LargestIsWord ==
  ASSUME NEW size \in Nat, size \div 65536 < 65536
  PROVE  /\ LargestCoordinate(size) \in Nat
         /\ LargestCoordinate(size) \div 65536 < 65536
  BY DEF LargestCoordinate

(* The ranges that the guest reads are those of the screen.                *)
LEMMA RangesAre ==
  /\ AxisRange[ABS_X] = 0 .. LargestCoordinate(Width)
  /\ AxisRange[ABS_Y] = 0 .. LargestCoordinate(Height)
<1>1. /\ AbsWord(0) = 0 /\ AbsWord(1) = LargestCoordinate(Width)
      /\ AbsWord(4) = 0 /\ AbsWord(5) = LargestCoordinate(Height)
  BY DEF AbsWord
<1>2. /\ AbsWord(1) \in Nat /\ AbsWord(1) \div 65536 < 65536
      /\ AbsWord(5) \in Nat /\ AbsWord(5) \div 65536 < 65536
  BY <1>1, LargestIsWord, EventsAssumption, ScreenAssumption
<1>3. 0 \in Nat /\ 0 \div 65536 < 65536
  OBVIOUS
<1>4. /\ DataRead(PAGE_ABSDATA, 4 * 0, 4) = 0
      /\ DataRead(PAGE_ABSDATA, 4 * 4, 4) = 0
  BY <1>1, <1>3, WordRead
<1>5. /\ DataRead(PAGE_ABSDATA, 4 * 1, 4) = LargestCoordinate(Width)
      /\ DataRead(PAGE_ABSDATA, 4 * 5, 4) = LargestCoordinate(Height)
  BY <1>1, <1>2, WordRead
<1>6. /\ 4 * 0 = 0 /\ 4 * 1 = 4 /\ 4 * 4 = 16 /\ 4 * 5 = 20
      /\ 16 * 0 + 4 * 0 = 0 /\ 16 * 0 + 4 * 1 = 4
      /\ 16 * 1 + 4 * 0 = 16 /\ 16 * 1 + 4 * 1 = 20
  OBVIOUS
<1> QED BY <1>4, <1>5, <1>6 DEF AxisRange, ABS_X, ABS_Y

LEMMA ProductGrows ==
  ASSUME NEW m \in Nat, NEW n \in Nat, NEW k \in Nat, m <= k
  PROVE  m * n <= k * n
<1>1. (k - m) \in Nat
  OBVIOUS
<1>2. (k - m) * n \in Nat
  BY <1>1, ProductIsNat
<1>3. k * n = m * n + (k - m) * n
  OBVIOUS
<1> QED BY <1>2, <1>3, ProductIsNat

LEMMA QuotientBelow ==
  ASSUME NEW m \in Nat, NEW n \in Nat, m <= 32767 * n
  PROVE  m \div 32767 <= n
  OBVIOUS

(* Scaling ends on the screen: at most the last column or line.            *)
LEMMA ScaleBelow ==
  ASSUME NEW value \in Int, NEW size \in Nat
  PROVE  Scale(value, size) \in 0 .. LargestCoordinate(size)
<1> DEFINE low == value % Halfword
           high == (value \div Halfword) % Halfword
           clamped == IF high # 0 \/ low > AbsLimit THEN AbsLimit ELSE low
<1>0. low \in Nat
  BY LowHalfIsNat DEF Halfword
<1> HIDE DEF low, high
<1>1. clamped \in Nat /\ clamped <= 32767
  BY <1>0 DEF AbsLimit
<1>2. CASE size = 0
  BY <1>2 DEF Scale, LargestCoordinate
<1>3. CASE size # 0
  <2> HIDE DEF clamped
  <2> DEFINE last == size - 1
             product == clamped * last
  <2>1. last \in Nat /\ LargestCoordinate(size) = last
    BY <1>3 DEF LargestCoordinate
  <2>2. Scale(value, size) = product \div 32767
    BY <1>3 DEF Scale, AbsLimit, clamped, low, high
  <2> HIDE DEF last
  <2>3. product \in Nat /\ product <= 32767 * last
    BY <1>1, <2>1, ProductIsNat, ProductGrows
  <2> HIDE DEF product
  <2>4. product \div 32767 \in Nat /\ product \div 32767 <= last
    BY <2>1, <2>3, QuotientIsNat, QuotientBelow
  <2> QED BY <2>1, <2>2, <2>4
<1> QED BY <1>2, <1>3

(* An event that the guest may expect from what it read on the pages.      *)
Expected(type, code, value) ==
  /\ type \in DOMAIN Capabilities
  /\ code \in Capabilities[type]
  /\ type = EV_ABS => value \in AxisRange[code]

LEMMA AdvertisedIs ==
  AdvertisedOnly <=>
    \A k \in EventStarts :
      k + 2 <= Len(Words) => Expected(Words[k], Words[k + 1], Words[k + 2])
  BY DEF AdvertisedOnly, Expected

(* The host pushes what is expected, or nothing.                           *)
LEMMA HostPushesExpected ==
  ASSUME Host
  PROVE  \/ UNCHANGED vars
         \/ \E type \in EventTypes, code \in Nat, value \in Nat :
              Expected(type, code, value) /\ Push(type, code, value)
<1>1. /\ BTN_TOUCH \in Nat /\ ABS_X \in Nat /\ ABS_Y \in Nat /\ 0 \in Nat
      /\ EV_SYN # EV_ABS /\ EV_KEY # EV_ABS
      /\ EV_SYN \in EventTypes /\ EV_KEY \in EventTypes /\ EV_ABS \in EventTypes
  BY DEF BTN_TOUCH, ABS_X, ABS_Y, EV_SYN, EV_KEY, EV_ABS, EventTypes
<1>2. ASSUME NEW qcode \in Qcodes, NEW down \in BOOLEAN, InputKey(qcode, down)
      PROVE  \/ UNCHANGED vars
             \/ \E type \in EventTypes, code \in Nat, value \in Nat :
                  Expected(type, code, value) /\ Push(type, code, value)
  <2>1. CASE qcode \in DOMAIN keymap /\ keymap[qcode] \in Nat
             /\ BoolWord(down) \in Nat
             /\ Push(EV_KEY, keymap[qcode], BoolWord(down))
    <3>1. Expected(EV_KEY, keymap[qcode], BoolWord(down))
      BY <1>1, <2>1, CodesAdvertised DEF Expected
    <3> QED BY <1>1, <2>1, <3>1
  <2> QED BY <1>2, <2>1, KeyPushes
<1>3. ASSUME NEW button \in {"left", "right"}, NEW down \in BOOLEAN,
             InputButton(button, down)
      PROVE  \/ UNCHANGED vars
             \/ \E type \in EventTypes, code \in Nat, value \in Nat :
                  Expected(type, code, value) /\ Push(type, code, value)
  <2>1. CASE BoolWord(down) \in Nat /\ Push(EV_KEY, BTN_TOUCH, BoolWord(down))
    <3>1. Expected(EV_KEY, BTN_TOUCH, BoolWord(down))
      BY <1>1, CodesAdvertised DEF Expected
    <3> QED BY <1>1, <2>1, <3>1
  <2> QED BY <1>3, <2>1, ButtonPushes
<1>4. ASSUME NEW axis \in {"x", "y"}, NEW value \in AbsValues,
             InputAbs(axis, value)
      PROVE  \E type \in EventTypes, code \in Nat, v \in Nat :
               Expected(type, code, v) /\ Push(type, code, v)
  <2>1. value \in Int /\ Width \in Nat /\ Height \in Nat
    BY EventsAssumption
  <2>2. /\ Scale(value, Width) \in Nat /\ Scale(value, Height) \in Nat
        /\ Scale(value, Width) \in AxisRange[ABS_X]
        /\ Scale(value, Height) \in AxisRange[ABS_Y]
    BY <2>1, ScaleIsNat, ScaleBelow, RangesAre
  <2>3. /\ Expected(EV_ABS, ABS_X, Scale(value, Width))
        /\ Expected(EV_ABS, ABS_Y, Scale(value, Height))
    BY <2>2, CodesAdvertised DEF Expected
  <2> QED BY <1>1, <1>4, <2>2, <2>3 DEF InputAbs
<1>5. ASSUME InputSync
      PROVE  \E type \in EventTypes, code \in Nat, v \in Nat :
               Expected(type, code, v) /\ Push(type, code, v)
  <2>1. Expected(EV_SYN, 0, 0)
    BY <1>1, CodesAdvertised DEF Expected
  <2> QED BY <1>1, <1>5, <2>1 DEF InputSync
<1> QED BY <1>2, <1>3, <1>4, <1>5 DEF Host

(* Words that stay the same stay expected.                                 *)
LEMMA ExpectedStays ==
  ASSUME AdvertisedOnly, Words' = Words
  PROVE  AdvertisedOnly'
  BY DEF AdvertisedOnly, EventStarts

LEMMA AppendedExpected ==
  ASSUME EInv, AdvertisedOnly, NEW type, NEW code, NEW value,
         Expected(type, code, value), Appended(type, code, value)
  PROVE  AdvertisedOnly'
<1> DEFINE n == Len(Words)
<1>1. n \in Nat /\ \A k \in EventStarts : k \in Nat /\ k >= 1 /\ k + 2 <= n
  BY EventsFit
<1>2. /\ \A k \in 1 .. n : Words'[k] = Words[k]
      /\ Words'[n + 1] = type /\ Words'[n + 2] = code /\ Words'[n + 3] = value
  BY DEF Appended
<1>3. \A k \in EventStarts : Expected(Words[k], Words[k + 1], Words[k + 2])
  BY <1>1, AdvertisedIs
<1>4. EventStarts' = EventStarts \cup {n + 1}
  BY AppendedStarts
<1> HIDE DEF n
<1>5. ASSUME NEW k \in EventStarts'
      PROVE  Expected(Words'[k], Words'[k + 1], Words'[k + 2])
  <2>1. CASE k \in EventStarts
    <3>1. k \in 1 .. n /\ k + 1 \in 1 .. n /\ k + 2 \in 1 .. n
      BY <1>1, <2>1
    <3> QED BY <1>2, <1>3, <2>1, <3>1
  <2>2. CASE k = n + 1
    <3>1. k + 1 = n + 2 /\ k + 2 = n + 3
      BY <1>1, <2>2
    <3> QED BY <1>2, <2>2, <3>1
  <2> QED BY <1>4, <2>1, <2>2
<1> QED BY <1>5 DEF AdvertisedOnly, Expected

LEMMA ReadExpected ==
  ASSUME EInv, AdvertisedOnly, GuestRead
  PROVE  AdvertisedOnly'
<1> DEFINE n == Len(Words)
<1>1. WordsStay \/ FirstEventLeaves
  BY ReadTakes
<1>2. n \in Nat /\ \A k \in EventStarts : k \in Nat /\ k >= 1 /\ k + 2 <= n
  BY EventsFit
<1>3. \A k \in 1 .. n : k % 3 = 1 =>
        k + 2 <= n /\ Expected(Words[k], Words[k + 1], Words[k + 2])
  BY <1>2, AdvertisedIs DEF EventStarts
<1>4. SUFFICES ASSUME NEW k \in 1 .. Len(Words'), k % 3 = 1
               PROVE  Expected(Words'[k], Words'[k + 1], Words'[k + 2])
  BY DEF AdvertisedOnly, Expected, EventStarts
<1>5. CASE WordsStay
  <2>1. Len(Words') = n /\ \A j \in 1 .. n : Words'[j] = Words[j]
    BY <1>5 DEF WordsStay
  <2> HIDE DEF n
  <2>2. k \in 1 .. n /\ k + 1 \in 1 .. n /\ k + 2 \in 1 .. n
    BY <1>2, <1>3, <1>4, <2>1
  <2> QED BY <1>3, <1>4, <2>1, <2>2
<1>6. CASE FirstEventLeaves
  <2>1. /\ n >= 3 /\ Len(Words') = n - 3
        /\ \A j \in 1 .. n - 3 : Words'[j] = Words[j + 3]
    BY <1>6 DEF FirstEventLeaves
  <2> HIDE DEF n
  <2>2. k + 3 \in 1 .. n /\ (k + 3) % 3 = 1
    BY <1>2, <1>4, <2>1
  <2>3. (k + 3) + 2 <= n
    BY <1>3, <2>2
  <2>4. /\ k \in 1 .. n - 3 /\ k + 1 \in 1 .. n - 3 /\ k + 2 \in 1 .. n - 3
        /\ (k + 1) + 3 = (k + 3) + 1 /\ (k + 2) + 3 = (k + 3) + 2
    BY <1>2, <1>4, <2>1, <2>3
  <2> QED BY <1>3, <2>1, <2>2, <2>4
<1> QED BY <1>1, <1>5, <1>6

LEMMA AdvertisedStep == EInv /\ AdvertisedOnly /\ [Next]_vars => AdvertisedOnly'
<1> SUFFICES ASSUME EInv, AdvertisedOnly, [Next]_vars PROVE AdvertisedOnly'
  OBVIOUS
<1>1. ASSUME UNCHANGED vars PROVE AdvertisedOnly'
  BY <1>1, VarsKeepWords, ExpectedStays
<1>2. ASSUME NEW type \in EventTypes, NEW code \in Nat, NEW value \in Nat,
             Expected(type, code, value), Push(type, code, value)
      PROVE  AdvertisedOnly'
  <2>1. type \in Nat
    BY DEF EventTypes, EV_SYN, EV_KEY, EV_ABS
  <2>2. UNCHANGED vars \/ Appended(type, code, value)
    BY <1>2, <2>1, PushAppends DEF EInv
  <2> QED BY <1>1, <1>2, <2>2, AppendedExpected
<1>3. CASE Host
  BY <1>1, <1>2, <1>3, HostPushesExpected
<1>4. ASSUME NEW p \in Pages, SetPage(p) PROVE AdvertisedOnly'
  <2>1. Words' = Words
    BY <1>4 DEF SetPage, ring, Words, Queue
  <2> QED BY <2>1, ExpectedStays
<1> QED BY <1>1, <1>3, <1>4, ReadExpected DEF Next, Guest

(* The device keeps to what it advertises, for every size of the screen    *)
(* and of the queue and every position of the pointer: an event has a code *)
(* whose bit the guest reads on the EVBITS pages and a position within the *)
(* range it reads on the ABSDATA page.                                     *)
THEOREM EventsKeepToCapabilities == Spec => []AdvertisedOnly
<1>1. Init => AdvertisedOnly
  <2> SUFFICES ASSUME Init PROVE AdvertisedOnly
    OBVIOUS
  <2>1. Len(Words) = 0
    BY InitEstablishes, WordAt DEF EInv, Init, WordsAreQueued
  <2> QED BY <2>1 DEF AdvertisedOnly, EventStarts
<1> QED BY <1>1, AdvertisedStep, EventsInvariant, PTL DEF Spec

(* The device with its keyboard is the device: what is proved of the       *)
(* device holds of it.                                                     *)
THEOREM KeysImplementEvents == KeysSpec => Spec
<1>1. KeysInit => Init
  BY DEF KeysInit
<1> QED BY <1>1, KeysStepIsStep, PTL DEF KeysSpec, Spec

----------------------------------------------------------------------------
(* The refinement of IrqFifo. *)

QueueIsListed ==
  /\ Queue \in [1 .. qcount -> Nat] /\ Queue \in Seq(Nat)
  /\ Len(Queue) = qcount /\ qcount \in Nat
  /\ (Queue = <<>> <=> qcount = 0)
  /\ \A k \in 1 .. qcount : Queue[k] = queue[Place(qhead, k - 1)]

LEMMA QueueListed == TypeOK => QueueIsListed
<1> SUFFICES ASSUME TypeOK PROVE QueueIsListed
  OBVIOUS
<1>1. qcount \in Nat /\ qhead \in Slots /\ queue \in [Slots -> Nat]
  BY EventsAssumption DEF TypeOK
<1>2. \A k \in 1 .. qcount : Place(qhead, k - 1) \in Slots
  BY <1>1, EventsAssumption DEF Place, Slots
<1>3. \A k \in 1 .. qcount : (qhead + k - 1) % QueueWords = Place(qhead, k - 1)
  BY <1>1, EventsAssumption DEF Place, Slots
<1>4. Queue = [k \in 1 .. qcount |-> queue[Place(qhead, k - 1)]]
  BY <1>3 DEF Queue
<1>5. Queue \in [1 .. qcount -> Nat]
  BY <1>1, <1>2, <1>4
<1>6. Queue \in Seq(Nat) /\ Len(Queue) = qcount
  BY <1>1, <1>5
<1>7. Queue = <<>> <=> qcount = 0
  BY <1>1, <1>6
<1> QED BY <1>1, <1>4, <1>5, <1>6, <1>7 DEF QueueIsListed

LEMMA TailOf ==
  ASSUME NEW n \in Nat \ {0}, NEW s \in [1 .. n -> Nat]
  PROVE  SubSeq(s, 2, n) = [k \in 1 .. n - 1 |-> s[k + 1]]
  OBVIOUS

LEMMA EventsInitRefines == Init => Fifo!Init
<1> SUFFICES ASSUME Init PROVE Fifo!Init
  OBVIOUS
<1>1. Queue = <<>>
  BY InitEstablishes, QueueListed DEF EInv, Init, QueueIsListed
<1> QED BY <1>1 DEF Init, Fifo!Init

(* Every step of the device is a step of the queue or leaves it alone. *)
LEMMA EventsStepRefines == EInv /\ [Next]_vars => [Fifo!Next]_(Fifo!vars)
<1> SUFFICES ASSUME EInv, [Next]_vars PROVE [Fifo!Next]_(Fifo!vars)
  OBVIOUS
<1>1. EInv'
  BY StepPreserves
<1>2. QueueIsListed /\ QueueIsListed'
  <2>1. (TypeOK => QueueIsListed)'
    BY QueueListed, PTL
  <2> QED BY <1>1, <2>1, QueueListed DEF EInv
<1>3. Fifo!Follows
  BY <1>1, <1>2 DEF EInv, LineFollows, TypeOK, QueueIsListed, Fifo!Follows
<1>4. ASSUME queue' = queue, qhead' = qhead, qcount' = qcount, irq' = irq
      PROVE  UNCHANGED Fifo!vars
  BY <1>4 DEF Fifo!vars, Queue
<1>5. ASSUME NEW type \in Nat, NEW code \in Nat, NEW value \in Nat,
             Push(type, code, value)
      PROVE  [Fifo!Next]_(Fifo!vars)
  <2>1. \/ UNCHANGED vars
        \/ qcount' = qcount + 3 /\ Appended(type, code, value)
    BY <1>5, PushAppends DEF EInv
  <2>2. CASE UNCHANGED vars
    BY <1>4, <2>2 DEF vars, ring
  <2>3. CASE qcount' = qcount + 3 /\ Appended(type, code, value)
    <3>1. /\ qcount \in Nat /\ qcount' \in 0 .. QueueWords /\ QueueWords \in Nat
          /\ decoder' = decoder /\ Len(decoder) \in Nat
      BY <1>1, <1>5, EventsAssumption DEF EInv, TypeOK, Push
    <3>2. /\ Len(Words) = Len(decoder) + qcount
          /\ \A k \in 0 .. qcount - 1 :
               Words[Len(decoder) + 1 + k] = queue[Place(qhead, k)]
          /\ \A k \in 0 .. qcount' - 1 :
               Words'[Len(decoder) + 1 + k] = queue'[Place(qhead', k)]
      <4>1. WordsAreQueued'
        <5>1. (TypeOK => WordsAreQueued)'
          BY WordAt, PTL
        <5> QED BY <5>1, <1>1 DEF EInv
      <4> QED BY <4>1, <3>1, WordAt DEF EInv, WordsAreQueued, Place
    <3>3. ASSUME NEW k \in 1 .. qcount PROVE Queue'[k] = Queue[k]
      <4>1. /\ k - 1 \in 0 .. qcount - 1 /\ k - 1 \in 0 .. qcount' - 1
            /\ Len(decoder) + 1 + (k - 1) \in 1 .. Len(Words) /\ k \in 1 .. qcount'
        BY <2>3, <3>1, <3>2
      <4>2. Queue[k] = queue[Place(qhead, k - 1)]
            /\ Queue'[k] = queue'[Place(qhead', k - 1)]
        BY <1>2, <4>1 DEF QueueIsListed
      <4>3. Words'[Len(decoder) + 1 + (k - 1)] = Words[Len(decoder) + 1 + (k - 1)]
        BY <2>3, <4>1 DEF Appended
      <4> QED BY <3>2, <4>1, <4>2, <4>3
    <3>4. qcount' \in Len(Queue) + 1 .. QueueWords
      BY <1>2, <2>3, <3>1 DEF QueueIsListed
    <3>5. Fifo!Put
      BY <1>2, <1>3, <3>3, <3>4 DEF Fifo!Put, QueueIsListed
    <3> QED BY <3>5 DEF Fifo!Next
  <2> QED BY <2>1, <2>2, <2>3
<1>6. ASSUME GuestRead PROVE Fifo!Next
  <2>1. qcount > 0 /\ qcount' = qcount - 1 /\ qcount \in 1 .. QueueWords
        /\ qcount \in Nat \ {0}
    BY <1>6, ReadTakes, EventsAssumption DEF EInv, TypeOK
  <2>2. queue' = queue /\ qhead' = Place(qhead, 1) /\ qhead \in Slots
    BY <1>6, <2>1 DEF GuestRead, ReadWord, Pop, Place, EInv, TypeOK
  <2>3. \A j \in 0 .. qcount - 1 : Place(qhead', j) = Place(qhead, j + 1)
    BY <2>1, <2>2, PopPlaces
  <2>4. ASSUME NEW k \in 1 .. qcount - 1 PROVE Queue'[k] = Queue[k + 1]
    <3>1. /\ k - 1 \in 0 .. qcount - 1 /\ (k - 1) + 1 = k /\ (k + 1) - 1 = k
          /\ k \in 1 .. qcount' /\ k + 1 \in 1 .. qcount
      BY <2>1
    <3>2. Queue'[k] = queue'[Place(qhead', k - 1)]
          /\ Queue[k + 1] = queue[Place(qhead, (k + 1) - 1)]
      BY <1>2, <3>1 DEF QueueIsListed
    <3> QED BY <2>2, <2>3, <3>1, <3>2
  <2>5. Queue \in [1 .. qcount -> Nat] /\ Queue' \in [1 .. qcount - 1 -> Nat]
        /\ Len(Queue) = qcount
    BY <1>2, <2>1 DEF QueueIsListed
  <2>6. Queue' = [k \in 1 .. qcount - 1 |-> Queue[k + 1]]
    BY <2>4, <2>5
  <2>7. Queue' = SubSeq(Queue, 1 + 1, Len(Queue))
    BY <2>1, <2>5, <2>6, TailOf
  <2>8. Fifo!Take(1) /\ 1 \in 0 .. Len(Queue)
    BY <1>3, <2>1, <2>5, <2>7 DEF Fifo!Take
  <2> QED BY <2>8 DEF Fifo!Next
<1>7. ASSUME NEW p \in Pages, SetPage(p) PROVE UNCHANGED Fifo!vars
  BY <1>4, <1>7 DEF SetPage, ring
<1>8. CASE UNCHANGED vars
  BY <1>4, <1>8 DEF vars, ring
<1>9. CASE Guest
  BY <1>6, <1>7, <1>9 DEF Guest
<1>10. CASE Host
  <2>1. \/ UNCHANGED vars
        \/ \E type \in Nat, code \in Nat, value \in Nat : Push(type, code, value)
    <3>1. EV_SYN \in Nat /\ EV_KEY \in Nat /\ EV_ABS \in Nat /\ BTN_TOUCH \in Nat
          /\ 0 \in Nat
      BY DEF EV_SYN, EV_KEY, EV_ABS, BTN_TOUCH
    <3> QED BY <1>10, <3>1, KeyPushes, ButtonPushes, AbsPushes
            DEF Host, InputSync
  <2> QED BY <1>5, <1>8, <2>1
<1> QED BY <1>8, <1>9, <1>10 DEF Next

(* The event queue implements the bounded queue with a level-triggered     *)
(* line, for every size of the queue.                                      *)
THEOREM EventsRefinesIrqFifo == Spec => ImplementsIrqFifo
  BY EventsInitRefines, EventsStepRefines, EventsInvariant, PTL
     DEF Spec, ImplementsIrqFifo, Fifo!Spec

=============================================================================
