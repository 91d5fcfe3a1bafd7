--------------------------- MODULE GoldfishEvents ---------------------------
(***************************************************************************)
(* The goldfish input device, hw_input_android_goldfish_events.c: keys,    *)
(* touches and pointer positions of the host, queued for the guest as      *)
(* three words (type, code, value) each, and the pages on which the guest  *)
(* learns what the device can send.                                        *)
(*                                                                         *)
(* Every handler runs under QEMU's big lock and is one action.  The guest  *)
(* is a driver that collects three words per event and starts an event     *)
(* only while the device interrupts; the device itself answers a read of   *)
(* an empty queue with 0.                                                  *)
(***************************************************************************)
EXTENDS Integers, Sequences

CONSTANTS
  QueueWords, \* ANDROID_GOLDFISH_EVENTS_QUEUE_WORDS, 768 in the code
  Width,      \* the device's properties "width" and "height"
  Height,
  Qcodes,     \* the host keys that may be pressed, mapped or not
  AbsValues   \* the positions the host's pointer may report on an axis

ASSUME EventsAssumption ==
  /\ QueueWords \in Nat \ {0}
  /\ Width \in Nat /\ Height \in Nat
  /\ AbsValues \subseteq Int

ASSUME ScreenAssumption ==             \* both are uint32_t
  /\ Width \div 65536 < 65536
  /\ Height \div 65536 < 65536

VARIABLES
  page,       \* s->page
  queue,      \* s->queue, the ring of words
  qhead,      \* s->qhead
  qtail,      \* s->qtail
  qcount,     \* s->qcount
  irq,        \* the level of s->irq
  decoder     \* the words of an unfinished event the guest has read

ring == <<queue, qhead, qtail, qcount>>
vars == <<page, ring, irq, decoder>>

Slots == 0 .. QueueWords - 1

EV_SYN == 0
EV_KEY == 1
EV_ABS == 3
EV_SW  == 5
ABS_X == 0
ABS_Y == 1
KEY_SEND == 231
BTN_TOUCH == 330

PAGE_NAME == 0
PAGE_EVBITS == 65536
PAGE_ABSDATA == 2 * 65536 + 3
Pages == {PAGE_NAME, PAGE_ABSDATA} \cup {PAGE_EVBITS + t : t \in 0 .. EV_SW}

(* android_goldfish_events_keymap: host key |-> Linux key code *)
keymap ==
  [A |-> 30, B |-> 48, C |-> 46, D |-> 32, E |-> 18, F |-> 33, G |-> 34,
   H |-> 35, I |-> 23, J |-> 36, K |-> 37, L |-> 38, M |-> 50, N |-> 49,
   O |-> 24, P |-> 25, Q |-> 16, R |-> 19, S |-> 31, T |-> 20, U |-> 22,
   V |-> 47, W |-> 17, X |-> 45, Y |-> 21, Z |-> 44,
   N1 |-> 2, N2 |-> 3, N3 |-> 4, N4 |-> 5, N5 |-> 6, N6 |-> 7, N7 |-> 8,
   N8 |-> 9, N9 |-> 10, N0 |-> 11, RET |-> 28, BACKSPACE |-> 14, SPC |-> 57,
   TAB |-> 15, UP |-> 103, DOWN |-> 108, LEFT |-> 105, RIGHT |-> 106,
   SHIFT |-> 42, SHIFT_R |-> 54, CTRL |-> 29, CTRL_R |-> 97, ALT |-> 56,
   ALT_R |-> 100, ESC |-> 158, F1 |-> 102, F2 |-> 139, F3 |-> 116,
   F5 |-> 115, F6 |-> 114, END |-> 107]

----------------------------------------------------------------------------
(* What the guest reads on the pages: LEN and DATA. *)

KeySupported(code) ==
  \/ \E k \in DOMAIN keymap : keymap[k] = code
  \/ code \in {KEY_SEND, BTN_TOUCH}

Supported(type, code) ==
  CASE type = EV_SYN -> code = 0
    [] type = EV_KEY -> KeySupported(code)
    [] type = EV_ABS -> code \in {ABS_X, ABS_Y}
    [] type = EV_SW  -> code = 0
    [] OTHER -> FALSE

PageType(p) == p % 65536
OnEvBits(p) == p - PageType(p) = PAGE_EVBITS

(* A definition named Wrong... is a plausible slip in the code it precedes,  *)
(* kept to show which property notices it; no specification uses it.        *)

WrongDataLen(p) ==                          \* the last byte of the keys is cut
  CASE p = PAGE_NAME    -> 7
    [] OnEvBits(p)      -> CASE PageType(p) \in {EV_SYN, EV_ABS, EV_SW} -> 1
                             [] PageType(p) = EV_KEY -> BTN_TOUCH \div 8
                             [] OTHER -> 0
    [] p = PAGE_ABSDATA -> 32
    [] OTHER            -> 0

DataLen(p) ==
  CASE p = PAGE_NAME    -> 7
    [] OnEvBits(p)      -> CASE PageType(p) \in {EV_SYN, EV_ABS, EV_SW} -> 1
                             [] PageType(p) = EV_KEY -> BTN_TOUCH \div 8 + 1
                             [] OTHER -> 0
    [] p = PAGE_ABSDATA -> 32
    [] OTHER            -> 0

LargestCoordinate(size) == IF size = 0 THEN 0 ELSE size - 1

AbsWord(word) ==
  CASE word = 1 -> LargestCoordinate(Width)
    [] word = 5 -> LargestCoordinate(Height)
    [] OTHER    -> 0

name == <<113, 119, 101, 114, 116, 121, 50>>               \* "qwerty2"

BitWeight == <<1, 2, 4, 8, 16, 32, 64, 128>>

ByteOf(bits) ==
  LET Weigh(bit) == IF bit \in bits THEN BitWeight[bit + 1] ELSE 0
  IN  Weigh(0) + Weigh(1) + Weigh(2) + Weigh(3)
        + Weigh(4) + Weigh(5) + Weigh(6) + Weigh(7)

ByteWeight == <<1, 256, 65536, 16777216>>

DataByte(p, offset) ==
  IF offset >= DataLen(p) THEN 0
  ELSE CASE p = PAGE_NAME -> name[offset + 1]
         [] OnEvBits(p) ->
              ByteOf({bit \in 0 .. 7 : Supported(PageType(p), offset * 8 + bit)})
         [] p = PAGE_ABSDATA ->
              (AbsWord(offset \div 4) \div ByteWeight[(offset % 4) + 1]) % 256

(* android_goldfish_events_read at DATA + offset, at most 4 bytes at once *)
DataRead(p, offset, size) ==
  LET Part(i) == IF i < size THEN DataByte(p, offset + i) * ByteWeight[i + 1]
                             ELSE 0
  IN  Part(0) + Part(1) + Part(2) + Part(3)

----------------------------------------------------------------------------
TypeOK ==
  /\ page \in Pages
  /\ queue \in [Slots -> Nat]
  /\ qhead \in Slots
  /\ qtail \in Slots
  /\ qcount \in 0 .. QueueWords
  /\ irq \in BOOLEAN
  /\ decoder \in Seq(Nat) /\ Len(decoder) < 3

(* android_goldfish_events_realize *)
Init ==
  /\ page = PAGE_NAME
  /\ queue = [i \in Slots |-> 0]
  /\ qhead = 0
  /\ qtail = 0
  /\ qcount = 0
  /\ irq = FALSE
  /\ decoder = <<>>

WrongUpdateIrqWhole == irq' = (qcount' >= 3)   \* only for whole events

(* android_goldfish_events_update_irq *)
UpdateIrq == irq' = (qcount' # 0)

WrongPush(type, code, value) ==             \* asks for room for one word
  /\ UNCHANGED <<page, qhead, decoder>>
  /\ IF qcount = QueueWords
     THEN UNCHANGED <<queue, qtail, qcount, irq>>
     ELSE /\ queue' = [queue EXCEPT
                         ![qtail] = type,
                         ![(qtail + 1) % QueueWords] = code,
                         ![(qtail + 2) % QueueWords] = value]
          /\ qtail' = (qtail + 3) % QueueWords
          /\ qcount' = qcount + 3
          /\ UpdateIrq

(* android_goldfish_events_push: all three words or, when they do not fit, *)
(* none -- and then the line is not driven again.                          *)
Push(type, code, value) ==
  /\ UNCHANGED <<page, qhead, decoder>>
  /\ IF qcount + 3 > QueueWords
     THEN UNCHANGED <<queue, qtail, qcount, irq>>
     ELSE /\ queue' = [queue EXCEPT
                         ![qtail] = type,
                         ![(qtail + 1) % QueueWords] = code,
                         ![(qtail + 2) % QueueWords] = value]
          /\ qtail' = (qtail + 3) % QueueWords
          /\ qcount' = qcount + 3
          /\ UpdateIrq

(* android_goldfish_events_scale: the position, an int64 of the host, is   *)
(* converted to uint32, of which Halfword values make each half.  A        *)
(* negative position becomes a large one, unless it is so far off that its *)
(* upper half is 0 again.                                                  *)
AbsLimit == 32767
Halfword == 65536

Scale(value, size) ==
  LET low     == value % Halfword
      high    == (value \div Halfword) % Halfword
      clamped == IF high # 0 \/ low > AbsLimit THEN AbsLimit ELSE low
  IN  IF size = 0 THEN 0 ELSE (clamped * (size - 1)) \div AbsLimit

BoolWord(down) == IF down THEN 1 ELSE 0

(* android_goldfish_events_input, one operator per kind of input event *)
InputKey(qcode, down) ==
  IF qcode \in DOMAIN keymap
  THEN Push(EV_KEY, keymap[qcode], BoolWord(down))
  ELSE UNCHANGED vars

InputButton(button, down) ==
  IF button = "left"
  THEN Push(EV_KEY, BTN_TOUCH, BoolWord(down))
  ELSE UNCHANGED vars

InputAbs(axis, value) ==
  IF axis = "x"
  THEN Push(EV_ABS, ABS_X, Scale(value, Width))
  ELSE Push(EV_ABS, ABS_Y, Scale(value, Height))

(* android_goldfish_events_sync *)
InputSync == Push(EV_SYN, 0, 0)

Host ==
  \/ \E qcode \in Qcodes, down \in BOOLEAN : InputKey(qcode, down)
  \/ \E button \in {"left", "right"}, down \in BOOLEAN :
       InputButton(button, down)
  \/ \E axis \in {"x", "y"}, value \in AbsValues : InputAbs(axis, value)
  \/ InputSync

(* android_goldfish_events_pop: the word, and the queue without it *)
PoppedWord == IF qcount = 0 THEN 0 ELSE queue[qhead]

WrongPopHeadStays ==                        \* qhead is not advanced
  /\ UNCHANGED <<page, queue, qhead, qtail>>
  /\ IF qcount = 0
     THEN UNCHANGED <<qcount, irq>>
     ELSE /\ qcount' = qcount - 1
          /\ UpdateIrq

Pop ==
  /\ UNCHANGED <<page, queue, qtail>>
  /\ IF qcount = 0
     THEN UNCHANGED <<qhead, qcount, irq>>
     ELSE /\ qhead' = (qhead + 1) % QueueWords
          /\ qcount' = qcount - 1
          /\ UpdateIrq

(* The guest reads READ and adds the word to the event it is collecting.   *)
ReadWord ==
  /\ decoder' = IF Len(decoder) = 2 THEN <<>> ELSE Append(decoder, PoppedWord)
  /\ Pop

(* A driver starts an event only when interrupted. *)
GuestRead == (irq \/ decoder # <<>>) /\ ReadWord

(* android_goldfish_events_write *)
SetPage(p) ==
  /\ page' = p
  /\ UNCHANGED <<ring, irq, decoder>>

Guest == GuestRead \/ \E p \in Pages : SetPage(p)

Next == Host \/ Guest

Spec == Init /\ [][Next]_vars

----------------------------------------------------------------------------
(***************************************************************************)
(* Properties.                                                             *)
(***************************************************************************)

(* The queued words, oldest first, and the words that the guest sees from  *)
(* the beginning of the event it is reading.                               *)
Queue == [k \in 1 .. qcount |-> queue[(qhead + k - 1) % QueueWords]]
Words == decoder \o Queue
EventStarts == {k \in 1 .. Len(Words) : k % 3 = 1}

(* Events stay whole: whatever was dropped on a full queue and wherever    *)
(* the ring wraps, the words from the guest's next event on are complete   *)
(* triples beginning with an event type (push writes three words or none). *)
WholeEvents ==
  /\ Len(Words) % 3 = 0
  /\ \A k \in EventStarts : Words[k] \in {EV_SYN, EV_KEY, EV_ABS}

(* What a driver that imports the capability pages knows: the codes of     *)
(* each type and the range of each axis (four words per axis, minimum      *)
(* first, as the code's ABSDATA page lays them out).                       *)
Advertised(type, code) ==
  LET byte == DataByte(PAGE_EVBITS + type, code \div 8)
  IN  (byte \div BitWeight[(code % 8) + 1]) % 2 = 1

Capabilities ==
  [type \in {EV_SYN, EV_KEY, EV_ABS, EV_SW} |->
     {code \in 0 .. 8 * DataLen(PAGE_EVBITS + type) - 1 : Advertised(type, code)}]

AxisRange ==
  [axis \in {ABS_X, ABS_Y} |->
     LET Limit(n) == DataRead(PAGE_ABSDATA, 16 * axis + 4 * n, 4)
     IN  Limit(0) .. Limit(1)]

(* The device keeps to what it advertises: every event in the queue has a  *)
(* type and a code whose bit the guest reads on the EVBITS pages, and a    *)
(* position within the range it reads on the ABSDATA page (data_len,       *)
(* data_byte and key_supported against input and scale).                   *)
AdvertisedOnly ==
  \A k \in EventStarts :
    k + 2 <= Len(Words) =>
      /\ Words[k] \in DOMAIN Capabilities
      /\ Words[k + 1] \in Capabilities[Words[k]]
      /\ Words[k] = EV_ABS => Words[k + 2] \in AxisRange[Words[k + 1]]

(* The queue is a bounded first-in first-out queue of words whose line is  *)
(* up exactly while it holds one.                                          *)
Fifo == INSTANCE IrqFifo WITH
          Capacity <- QueueWords, Items <- Nat,
          q <- Queue, on <- TRUE, wire <- irq

ImplementsIrqFifo == Fifo!Spec

=============================================================================
