-------------------------- MODULE GoldfishIntegrate --------------------------
(***************************************************************************)
(* ci/goldfish-integrate.sh, which the build workflow writes and runs: it  *)
(* copies the files that manifest.tsv lists into a QEMU tree, finds out    *)
(* which build system the tree has, and registers each object there.       *)
(*                                                                         *)
(* The script stops at its first error, it can be killed at any point, and *)
(* it is run again on the tree it left, possibly after somebody edited the *)
(* patch set.  A line of a build file is the sequence of the words that    *)
(* tell it from others, so that one line may be contained in another.      *)
(***************************************************************************)
EXTENDS Integers, Sequences, SequencesExt, FiniteSets

CONSTANTS
  Manifest,     \* the lines that manifest.tsv may hold, in the file's order:
                \*   the file, its directory, its symbol, the mark @
  DefaultBoard, \* the aggregator when no line is marked: CONFIG_GOLDFISH
  ExtraSelects, \* the symbols of extra-selects.txt
  Trees,        \* the trees: build system, Kconfig, defconfig, VERSION
  Forced,       \* a value for GF_FORCE_VERSION
  NoVersion,
  MaxEdits, MaxKills        \* bounds of the model

NoSymbol == <<>>                        \* `-' in the manifest
Places == <<"overlay", "base", "root">> \* where find_src looks, in this order
Lines == DOMAIN Manifest
Dirs == {Manifest[l].dir : l \in Lines}

Keywords == {"config ", "CONFIG_", "=y"}
Words == Seq(STRING \cup Keywords)
Occurs(s, t) ==
  \E k \in 0 .. Len(t) - Len(s) : SubSeq(t, k + 1, k + Len(s)) = s

(* No file name of the manifest is contained in another's, as in the       *)
(* repository's own; add_once would take the one for the other.  Third-    *)
(* party symbols and the default aggregator are none of the manifest's.    *)
ASSUME ManifestAssumption ==
  /\ Manifest \in Seq([file : Words, dir : STRING, sym : Words, board : BOOLEAN])
  /\ "arm" \in Dirs
  /\ \A l, k \in Lines : l # k => ~Occurs(Manifest[l].file, Manifest[k].file)
  /\ \A l \in Lines : Manifest[l].board => Manifest[l].dir = "arm"
  /\ ExtraSelects \subseteq Words /\ DefaultBoard \in Words
  /\ \A l \in Lines : Manifest[l].sym \notin ExtraSelects \cup {DefaultBoard}

ASSUME TreesAssumption ==
  Trees \subseteq [build : STRING, kconfig : BOOLEAN, defconfig : BOOLEAN,
                  version : Nat \X (0 .. 99)]

VARIABLES
  present,    \* manifest.tsv exists
  listed,     \* the lines it holds
  sources,    \* the places that hold a line's file
  force,      \* GF_FORCE_VERSION, or NoVersion
  diffs,      \* the overlay's patches: "none", or whether they apply
  tree,       \* the QEMU tree as it was checked out
  copied,     \* which place's file the tree holds for a line
  header,     \* the version that gf-version.h names
  objects, kconfig,     \* the lines added in each directory
  defconfig,  \* the lines added to the board configuration
  patched,    \* whether the patches are in the tree, or left it unmerged
  pc, todo,   \* the script: its next step, and the lines (or third-party
              \*   symbols) that its loop has still to do
  settled,    \* history: a run has ended well since the last edit
  kept,       \* history: this run kept an older aggregator block
  edits, kills

inputs == <<present, listed, sources, force, diffs, tree>>
built == <<objects, kconfig, defconfig>>
result == <<copied, header, built, patched>>
script == <<pc, todo>>
history == <<settled, kept, edits, kills>>
vars == <<inputs, result, script, history>>

Version == IF force # NoVersion THEN force ELSE tree.version

----------------------------------------------------------------------------
(* What the script knows after it has read the manifest. *)

Registered(lines) == {l \in lines : Manifest[l].sym # NoSymbol}

(* The last marked line, or the default. *)
BoardSym ==
  LET marked == {l \in Registered(listed) : Manifest[l].board}
  IN  IF marked = {} THEN DefaultBoard
      ELSE Manifest[CHOOSE l \in marked : \A k \in marked : k <= l].sym

DeviceSyms == {Manifest[l].sym : l \in Registered(listed)} \ {BoardSym}

FindSrc(l) ==
  LET found == {k \in DOMAIN Places : Places[k] \in sources[l]}
  IN  IF found = {} THEN "none"
      ELSE Places[CHOOSE k \in found : \A j \in found : k <= j]

----------------------------------------------------------------------------
(* Lines of build files, and the two ways to add one that is not there.    *)
(* `names' is the symbol an object depends on, or what a symbol selects.   *)

Entry(text, names) == [text |-> text, names |-> names]
ConfigLine(sym) == <<"config ">> \o sym
EnabledLine(sym) == <<"CONFIG_">> \o sym \o <<"=y">>

HasPart(file, marker) == \E e \in ToSet(file) : Occurs(marker, e.text)
HasLine(file, marker) == \E e \in ToSet(file) : e.text = marker

WrongAddOnce(file, entry) == Append(file, entry)     \* without the grep

AddOnce(file, entry) ==
  IF HasPart(file, entry.text) THEN file ELSE Append(file, entry)

WrongAddOnceLine(file, entry) == AddOnce(file, entry)

AddOnceLine(file, entry) ==
  IF HasLine(file, entry.text) THEN file ELSE Append(file, entry)

----------------------------------------------------------------------------
Entries == [text : Words, names : SUBSET Words]

TypeOK ==
  /\ listed \subseteq Lines
  /\ sources \in [Lines -> SUBSET ToSet(Places)]
  /\ tree \in Trees
  /\ copied \in [Lines -> {"none", "torn"} \cup ToSet(Places)]
  /\ objects \in [Dirs -> Seq(Entries)] /\ kconfig \in [Dirs -> Seq(Entries)]
  /\ defconfig \in Seq(Entries)
  /\ todo \subseteq IF pc = "extra" THEN ExtraSelects ELSE Lines

Empty == [d \in Dirs |-> <<>>]

Init ==
  /\ present = TRUE /\ listed = Lines
  /\ sources = [l \in Lines |-> {"base"}]
  /\ force = NoVersion /\ diffs = "none"
  /\ tree \in Trees
  /\ copied = [l \in Lines |-> "none"]
  /\ header = NoVersion
  /\ objects = Empty /\ kconfig = Empty /\ defconfig = <<>>
  /\ patched = "no"
  /\ pc = "idle" /\ todo = {}
  /\ settled = FALSE /\ kept = FALSE
  /\ edits = 0 /\ kills = 0

Stopped == pc \in {"idle", "failed", "done"}

Goto(step) == pc' = step /\ todo' = {}
Fail == Goto("failed")

Loop(step, lines, next) == todo' = lines /\ pc' = IF lines = {} THEN next ELSE step

(* A loop over the manifest takes its lines in order. *)
First(l) == l \in todo /\ \A k \in todo : l <= k

Advance(l, same, next) == Loop(same, todo \ {l}, next)

Start ==
  /\ Stopped
  /\ IF present
     THEN Loop("copy", listed, "detect")
     ELSE Fail
  /\ kept' = FALSE
  /\ UNCHANGED <<inputs, result, settled, edits, kills>>

(* cp of the first file that find_src finds; none is an error. *)
WrongCopyFile ==
  /\ pc = "copy"
  /\ \E l \in Lines :
       /\ First(l)
       /\ copied' = IF FindSrc(l) = "none" THEN copied
                    ELSE [copied EXCEPT ![l] = FindSrc(l)]
       /\ Advance(l, "copy", "detect")
  /\ UNCHANGED <<inputs, header, built, patched, history>>

CopyFile ==
  /\ pc = "copy"
  /\ \E l \in Lines :
       /\ First(l)
       /\ IF FindSrc(l) = "none"
          THEN Fail /\ UNCHANGED copied
          ELSE /\ copied' = [copied EXCEPT ![l] = FindSrc(l)]
               /\ Advance(l, "copy", "detect")
  /\ UNCHANGED <<inputs, header, built, patched, history>>

(* The version is required; it is written before the build system is known. *)
Detect ==
  /\ pc = "detect"
  /\ header' = IF Version = NoVersion THEN header ELSE Version
  /\ IF Version = NoVersion \/ tree.build = "none"
     THEN Fail
     ELSE Loop("object", Registered(listed), "block")
  /\ UNCHANGED <<inputs, copied, built, patched, history>>

AddObject ==
  /\ pc = "object"
  /\ \E l \in Lines :
       /\ First(l)
       /\ LET line == Manifest[l] IN
            objects' = [objects EXCEPT
              ![line.dir] = AddOnce(@, Entry(line.file, {line.sym}))]
  /\ pc' = "config"
  /\ UNCHANGED <<inputs, copied, header, kconfig, defconfig, patched, todo, history>>

(* A device's symbol: declared in its directory's Kconfig, or, in a tree   *)
(* without Kconfig, enabled right away.                                    *)
AddConfig ==
  /\ pc = "config"
  /\ \E l \in Lines : LET line == Manifest[l] IN
       /\ First(l)
       /\ kconfig' =
            IF tree.kconfig /\ line.sym # BoardSym
            THEN [kconfig EXCEPT
                   ![line.dir] = AddOnceLine(@, Entry(ConfigLine(line.sym), {}))]
            ELSE kconfig
       /\ defconfig' =
            IF ~tree.kconfig /\ tree.defconfig
            THEN AddOnceLine(defconfig, Entry(EnabledLine(line.sym), {}))
            ELSE defconfig
       /\ Advance(l, "object", "block")
  /\ UNCHANGED <<inputs, copied, header, objects, patched, history>>

(* The aggregator and what it selects; without Kconfig, third-party        *)
(* symbols go to the board configuration instead.                          *)
Block == Entry(ConfigLine(BoardSym), DeviceSyms \cup ExtraSelects)

AddBlock ==
  /\ pc = "block"
  /\ kconfig' = IF tree.kconfig
                THEN [kconfig EXCEPT !["arm"] = AddOnceLine(@, Block)]
                ELSE kconfig
  /\ kept' = \E e \in ToSet(kconfig["arm"]) :
               e.text = Block.text /\ ~(Block.names \subseteq e.names)
  /\ IF tree.kconfig \/ ~tree.defconfig \/ ExtraSelects = {}
     THEN Goto("enable")
     ELSE Loop("extra", ExtraSelects, "enable")
  /\ UNCHANGED <<inputs, copied, header, objects, defconfig, patched, settled,
                 edits, kills>>

AddExtra ==
  /\ pc = "extra"
  /\ \E sym \in todo :
       /\ defconfig' = AddOnceLine(defconfig, Entry(EnabledLine(sym), {}))
       /\ Advance(sym, "extra", "enable")
  /\ UNCHANGED <<inputs, copied, header, objects, kconfig, patched, history>>

(* "[ cond ] && cmd" would end the script when the condition is false. *)
WrongEnable ==
  /\ pc = "enable"
  /\ IF tree.defconfig
     THEN /\ defconfig' = AddOnceLine(defconfig, Entry(EnabledLine(BoardSym), {}))
          /\ Goto("patch")
     ELSE Fail /\ UNCHANGED defconfig
  /\ UNCHANGED <<inputs, copied, header, objects, kconfig, patched, history>>

Enable ==
  /\ pc = "enable"
  /\ defconfig' = IF tree.defconfig
                  THEN AddOnceLine(defconfig, Entry(EnabledLine(BoardSym), {}))
                  ELSE defconfig
  /\ Goto("patch")
  /\ UNCHANGED <<inputs, copied, header, objects, kconfig, patched, history>>

(* git apply --3way accepts a patch that is already applied; one that       *)
(* conflicts leaves the file unmerged, and git refuses every later patch.   *)
Patch ==
  /\ pc = "patch"
  /\ patched' = IF diffs = "none" \/ patched = "unmerged" THEN patched
                ELSE IF diffs = "apply" THEN "yes" ELSE "unmerged"
  /\ IF diffs # "none" /\ patched' = "unmerged"
     THEN Fail /\ UNCHANGED settled
     ELSE Goto("done") /\ settled' = TRUE
  /\ UNCHANGED <<inputs, copied, header, built, kept, edits, kills>>

Step ==
  \/ CopyFile \/ Detect \/ AddObject \/ AddConfig \/ AddBlock \/ AddExtra
  \/ Enable \/ Patch

(* The runner dies; the file that it was writing is left torn, and a torn  *)
(* gf-version.h names no version.                                          *)
Kill ==
  /\ ~Stopped
  /\ kills < MaxKills /\ kills' = kills + 1
  /\ Goto("idle")
  /\ \/ UNCHANGED <<copied, header, settled>>
     \/ /\ pc = "copy"
        /\ \E l \in Lines : /\ First(l) /\ FindSrc(l) # "none"
                             /\ copied' = [copied EXCEPT ![l] = "torn"]
        /\ settled' = FALSE
        /\ UNCHANGED header
     \/ /\ pc = "detect" /\ Version # NoVersion
        /\ header' = NoVersion
        /\ settled' = FALSE
        /\ UNCHANGED copied
  /\ UNCHANGED <<inputs, built, patched, kept, edits>>

(* Somebody edits the patch set or the environment between two runs. *)
Toggled(set, element) ==
  IF element \in set THEN set \ {element} ELSE set \cup {element}

Edit ==
  /\ Stopped
  /\ edits < MaxEdits /\ edits' = edits + 1
  /\ \/ present' = ~present /\ UNCHANGED <<listed, sources, force, diffs>>
     \/ /\ \E l \in Lines : listed' = Toggled(listed, l)
        /\ UNCHANGED <<present, sources, force, diffs>>
     \/ /\ \E l \in Lines, place \in ToSet(Places) :
             sources' = [sources EXCEPT ![l] = Toggled(@, place)]
        /\ UNCHANGED <<present, listed, force, diffs>>
     \/ /\ force' = IF force = NoVersion THEN Forced ELSE NoVersion
        /\ UNCHANGED <<present, listed, sources, diffs>>
     \/ /\ diffs' \in {"none", "apply", "conflict"} \ {diffs}
        /\ UNCHANGED <<present, listed, sources, force>>
  /\ pc' = "idle"
  /\ settled' = FALSE
  /\ UNCHANGED <<tree, result, todo, kept, kills>>

Next == Start \/ Step \/ Kill \/ Edit

Spec == Init /\ [][Next]_vars

(* A run goes on until it ends, and somebody runs the script until it has  *)
(* ended well.                                                             *)
FairSpec == Spec /\ WF_vars(Step) /\ WF_vars(Start /\ ~settled)

----------------------------------------------------------------------------
(***************************************************************************)
(* What compat.h and the board choose at compile time, by the version in   *)
(* gf-version.h: a version is <<major, minor>>.                            *)
(***************************************************************************)

WrongGfAtLeast(version, major, minor) ==
  version[1] >= major /\ version[2] >= minor

GfAtLeast(version, major, minor) ==
  \/ version[1] > major
  \/ version[1] = major /\ version[2] >= minor

(* goldfish_init: the type of the CPU or its model *)
ChosenCpu(version) ==
  IF GfAtLeast(version, 2, 12) THEN {"cpu_type"} ELSE {}

(* GF_SERIAL_HD *)
ChosenSerial(version) ==
  IF GfAtLeast(version, 4, 0) THEN {"serial_hd"} ELSE {}

(* GF_LOAD_KERNEL *)
ChosenLoader(version) ==
  IF GfAtLeast(version, 4, 2) THEN {"load_kernel_ms"} ELSE {}

(* GF_BOARD_RAM *)
ChosenRam(version) ==
  IF GfAtLeast(version, 5, 0) THEN {"machine_ram"} ELSE {}

(* GF_SET_PROPS and GF_REALIZE *)
ChosenQdev(version) ==
  IF GfAtLeast(version, 5, 1) THEN {"class_set_props", "qdev_realize"} ELSE {}

(* GF_CLASS_INIT_DATA *)
ChosenClassInit(version) ==
  IF GfAtLeast(version, 10, 0) THEN {"class_init_const"} ELSE {}

(* GF_VER_MAJOR and GF_VER_MINOR of gf-version.h decide all of them. *)
Chosen(version) ==
  UNION {ChosenCpu(version), ChosenSerial(version), ChosenLoader(version),
         ChosenRam(version), ChosenQdev(version), ChosenClassInit(version)}

----------------------------------------------------------------------------
(***************************************************************************)
(* Properties.                                                             *)
(***************************************************************************)

Once(file) == \A j, k \in DOMAIN file : file[j].text = file[k].text => j = k

(* No build file holds a line twice, however often the script was run,     *)
(* killed or stopped by an error in between: what test-integrate.sh looks  *)
(* for after a second run (add_once, add_once_line).                       *)
EachLineOnce ==
  /\ \A d \in Dirs : Once(objects[d]) /\ Once(kconfig[d])
  /\ Once(defconfig)

(* A tree that the script left at any point still configures: an object    *)
(* has its source, what a block selects of ours is declared, and an        *)
(* enabled symbol has the block or the object it is for.                   *)
Declared(sym) == \E d \in Dirs : HasLine(kconfig[d], ConfigLine(sym))

Syms == {Manifest[l].sym : l \in Registered(Lines)}

NothingDangling ==
  /\ \A d \in Dirs : \A e \in ToSet(objects[d]) :
       \E l \in Lines : Manifest[l].file = e.text /\ copied[l] # "none"
  /\ \A e \in ToSet(kconfig["arm"]) :
       \A sym \in e.names \cap Syms : Declared(sym)
  /\ \A sym \in Syms : HasLine(defconfig, EnabledLine(sym)) =>
       IF tree.kconfig
       THEN HasLine(kconfig["arm"], ConfigLine(sym))
       ELSE \E d \in Dirs : \E e \in ToSet(objects[d]) : sym \in e.names

(* A run that ends well has done everything, whatever the runs before it   *)
(* left: every listed file as find_src prefers it, every object registered *)
(* and -- unless the tree has no board configuration, or an aggregator     *)
(* block of another manifest -- enabled, so that it is compiled.           *)
Enabled(sym) ==
  IF tree.kconfig
  THEN /\ HasLine(defconfig, EnabledLine(BoardSym))
       /\ \E e \in ToSet(kconfig["arm"]) :
            e.text = ConfigLine(BoardSym) /\ sym \in {BoardSym} \cup e.names
  ELSE HasLine(defconfig, EnabledLine(sym))

FinishedIsComplete ==
  pc = "done" =>
    /\ \A l \in listed : copied[l] = FindSrc(l) /\ copied[l] # "none"
    /\ header = Version
    /\ diffs = "apply" => patched = "yes"
    /\ \A l \in Registered(listed) : LET line == Manifest[l] IN
         /\ Entry(line.file, {line.sym}) \in ToSet(objects[line.dir])
         /\ Enabled(line.sym) \/ ~tree.defconfig \/ kept

(* Once a run has ended well, running the script again changes nothing     *)
(* until the patch set or the environment is edited: the idempotence that  *)
(* test-integrate.sh:9 is after, also when the later run is killed.        *)
Idempotent == [][settled /\ settled' => UNCHANGED result]_vars

(* The sources are compiled for the APIs their tree has: what each version *)
(* changed is the table of goldfish-patches/README.md, by version number.  *)
Since == [cpu_type |-> 212, serial_hd |-> 400, load_kernel_ms |-> 402,
          machine_ram |-> 500, class_set_props |-> 501, qdev_realize |-> 501,
          class_init_const |-> 1000]

Provided(version) ==
  {api \in DOMAIN Since : 100 * version[1] + version[2] >= Since[api]}

RightApis ==
  pc = "done" /\ force = NoVersion => Chosen(header) = Provided(tree.version)

(* No failure is for ever: when the errors have been mended -- a missing   *)
(* file, a missing version, a missing manifest -- the script gets the tree *)
(* done, whatever killed or failed runs left in it.  Only a tree that a    *)
(* conflicting patch left unmerged, or one without build files, is lost.   *)
Mended ==
  /\ present /\ Version # NoVersion /\ tree.build # "none"
  /\ \A l \in listed : FindSrc(l) # "none"
  /\ diffs = "none" \/ (diffs = "apply" /\ patched # "unmerged")

Converges == <>[]Mended => []<>settled

(* What manifest.tsv:3 says of the marked symbol: it gets the selects of   *)
(* all the others.  The code does not keep it when a line is added to the  *)
(* manifest of a tree that has the block already.                          *)
AggregatorSelectsAll ==
  pc = "done" /\ tree.kconfig =>
    \E e \in ToSet(kconfig["arm"]) :
      e.text = ConfigLine(BoardSym) /\ DeviceSyms \subseteq e.names

=============================================================================
