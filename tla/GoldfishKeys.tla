---------------------------- MODULE GoldfishKeys ----------------------------
(***************************************************************************)
(* The goldfish input device with the two ends of its queue: which keys    *)
(* the host's user holds down, and which ones the guest believes are held. *)
(* The device drops an event that does not fit in the queue (push), and    *)
(* the event it drops may be the release of a key.                         *)
(***************************************************************************)
EXTENDS GoldfishEvents

VARIABLES
  held,       \* the codes of the keys that the host's user holds down
  lost,       \* history: the codes whose latest change was dropped
  believed    \* the codes that the guest believes are down

keyboard == <<held, lost, believed>>
keysVars == <<vars, keyboard>>

KeyCodes == {keymap[k] : k \in DOMAIN keymap \cap Qcodes} \cup {BTN_TOUCH}

KeysInit == Init /\ held = {} /\ lost = {} /\ believed = {}

Updated(codes, code, member) ==
  IF member THEN codes \cup {code} ELSE codes \ {code}

(* The host's user presses or releases a mapped key, or the left button.   *)
Press(code, down) ==
  /\ held' = Updated(held, code, down)
  /\ lost' = Updated(lost, code, qcount' = qcount)
  /\ UNCHANGED believed

PressKey(qcode, down) ==
  /\ InputKey(qcode, down)
  /\ IF qcode \in DOMAIN keymap
     THEN Press(keymap[qcode], down)
     ELSE UNCHANGED keyboard

PressButton(button, down) ==
  /\ InputButton(button, down)
  /\ IF button = "left"
     THEN Press(BTN_TOUCH, down)
     ELSE UNCHANGED keyboard

(* The guest acts on an event when it has read the last of its words.      *)
GuestReadsKey ==
  /\ GuestRead
  /\ believed' = IF Len(decoder) = 2 /\ decoder[1] = EV_KEY
                 THEN Updated(believed, decoder[2], PoppedWord = 1)
                 ELSE believed
  /\ UNCHANGED <<held, lost>>

KeysNext ==
  \/ \E qcode \in Qcodes, down \in BOOLEAN : PressKey(qcode, down)
  \/ \E button \in {"left", "right"}, down \in BOOLEAN : PressButton(button, down)
  \/ (InputSync \/ \E axis \in {"x", "y"}, value \in AbsValues : InputAbs(axis, value))
     /\ UNCHANGED keyboard
  \/ GuestReadsKey
  \/ (\E p \in Pages : SetPage(p)) /\ UNCHANGED keyboard

KeysSpec == KeysInit /\ [][KeysNext]_keysVars

----------------------------------------------------------------------------
(***************************************************************************)
(* Properties.                                                             *)
(***************************************************************************)

(* The events of one key that are still on their way, oldest first.        *)
OnTheWay(code) ==
  {k \in EventStarts : Words[k] = EV_KEY /\ Words[k + 1] = code}

(* What the guest will believe of a key when it has read everything. *)
WillBelieve(code) ==
  IF OnTheWay(code) = {}
  THEN code \in believed
  ELSE \E k \in OnTheWay(code) :
         /\ Words[k + 2] = 1
         /\ \A j \in OnTheWay(code) : j <= k

(* A key sticks only by a full queue: when the guest has read what is on   *)
(* its way, it believes of each key and of the touch what is the case at   *)
(* the host, unless the latest change of that key itself was dropped; an   *)
(* event dropped earlier, or of another key, does no lasting harm (push,   *)
(* pop and input, wherever the ring wraps).                                *)
KeysFollow ==
  \A code \in KeyCodes \ lost : WillBelieve(code) <=> code \in held

=============================================================================
