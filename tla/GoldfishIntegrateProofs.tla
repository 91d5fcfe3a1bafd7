----------------------- MODULE GoldfishIntegrateProofs -----------------------
(***************************************************************************)
(* Proofs about ci/goldfish-integrate.sh for every manifest, every set of  *)
(* trees and any number of edits and kills: no build file holds a line     *)
(* twice, no line dangles, a run that ends well has done everything, and   *)
(* running the script again changes nothing.                               *)
(*                                                                         *)
(* The argument: build files only grow (a line is added when it is         *)
(* missing), so what one step of a run has done is still done at the next; *)
(* and what a run needs done it finds done once a run has ended well.      *)
(***************************************************************************)
EXTENDS GoldfishIntegrate, TLAPS, WellFoundedInduction

(* What a step has done. *)
CopiedRight(l) == copied[l] = FindSrc(l) /\ copied[l] # "none"

ObjectOf(l) == Entry(Manifest[l].file, {Manifest[l].sym})
ObjectIn(l) == ObjectOf(l) \in ToSet(objects[Manifest[l].dir])

Configured(l) ==
  /\ tree.kconfig /\ Manifest[l].sym # BoardSym =>
       HasLine(kconfig[Manifest[l].dir], ConfigLine(Manifest[l].sym))
  /\ ~tree.kconfig /\ tree.defconfig =>
       HasLine(defconfig, EnabledLine(Manifest[l].sym))

BlockIn == tree.kconfig => HasLine(kconfig["arm"], ConfigLine(BoardSym))

BlockWhole ==
  tree.kconfig => \E e \in ToSet(kconfig["arm"]) :
                    e.text = ConfigLine(BoardSym) /\ DeviceSyms \subseteq e.names

ExtrasIn(syms) ==
  ~tree.kconfig /\ tree.defconfig =>
    \A sym \in syms : HasLine(defconfig, EnabledLine(sym))

BoardOn == tree.defconfig => HasLine(defconfig, EnabledLine(BoardSym))

LinesDone(lines) == \A l \in lines : ObjectIn(l) /\ Configured(l)

(* How far a run is. *)
Copies ==
  /\ pc = "copy" => todo \subseteq listed
                    /\ \A l \in listed \ todo : CopiedRight(l)
  /\ pc \in {"detect", "object", "config", "block", "extra", "enable", "patch"} =>
       \A l \in listed : CopiedRight(l)

Objects ==
  /\ pc \in {"object", "config"} =>
       /\ header = Version /\ todo \subseteq Registered(listed)
       /\ LinesDone(Registered(listed) \ todo)
  /\ pc = "config" => \A l \in Lines : First(l) => ObjectIn(l)
  /\ pc \in {"block", "extra", "enable", "patch"} =>
       header = Version /\ LinesDone(Registered(listed))

Blocks ==
  /\ pc \in {"extra", "enable", "patch"} => BlockIn /\ (BlockWhole \/ kept)
  /\ pc = "extra" => /\ ~tree.kconfig /\ tree.defconfig
                     /\ ExtrasIn(ExtraSelects \ todo)
  /\ pc \in {"enable", "patch"} => ExtrasIn(ExtraSelects)
  /\ pc = "patch" => BoardOn
  /\ pc = "done" => settled /\ (BlockWhole \/ kept)

Progress == Copies /\ Objects /\ Blocks

(* What holds from the end of a run to the next edit. *)
Complete ==
  /\ \A l \in listed : CopiedRight(l)
  /\ header = Version
  /\ LinesDone(Registered(listed))
  /\ BlockIn /\ ExtrasIn(ExtraSelects) /\ BoardOn
  /\ diffs # "none" => diffs = "apply" /\ patched = "yes"

SettledIsComplete == settled => Complete

(* The objects are those of files in the tree. *)
ObjectsAreCopied ==
  \A d \in Dirs : \A e \in ToSet(objects[d]) :
    \E l \in Lines : e = ObjectOf(l) /\ copied[l] # "none"

(* What a block selects is declared, what is enabled has its owner. *)
SelectsDeclared ==
  \A e \in ToSet(kconfig["arm"]) : \A sym \in e.names \cap Syms : Declared(sym)

Owned(sym) ==
  IF tree.kconfig
  THEN HasLine(kconfig["arm"], ConfigLine(sym))
  ELSE \E d \in Dirs : \E e \in ToSet(objects[d]) : sym \in e.names

EnabledOwned ==
  \A sym \in Syms : HasLine(defconfig, EnabledLine(sym)) => Owned(sym)

IInv ==
  /\ TypeOK /\ EachLineOnce
  /\ ObjectsAreCopied /\ SelectsDeclared /\ EnabledOwned
  /\ Progress /\ SettledIsComplete

----------------------------------------------------------------------------
(* Build files grow, and hold a line once. *)

LEMMA ToSetAppend ==
  ASSUME NEW file \in Seq(Entries), NEW e \in Entries
  PROVE  ToSet(Append(file, e)) = ToSet(file) \cup {e}
<1> DEFINE f == Append(file, e)
<1>1. /\ f \in Seq(Entries) /\ Len(f) = Len(file) + 1 /\ Len(file) \in Nat
      /\ \A k \in 1 .. Len(file) : f[k] = file[k]
      /\ f[Len(file) + 1] = e
  OBVIOUS
<1>2. DOMAIN file = 1 .. Len(file) /\ DOMAIN f = 1 .. Len(f)
  OBVIOUS
<1> HIDE DEF f
<1>3. \A k \in 1 .. Len(f) : k \in 1 .. Len(file) \/ k = Len(file) + 1
  BY <1>1
<1>4. Len(file) + 1 \in 1 .. Len(f) /\ \A k \in 1 .. Len(file) : k \in 1 .. Len(f)
  BY <1>1
<1>5. ToSet(f) = ToSet(file) \cup {e}
  BY <1>1, <1>2, <1>3, <1>4 DEF ToSet
<1> QED BY <1>5 DEF f

LEMMA OnceAppend ==
  ASSUME NEW file \in Seq(Entries), NEW e \in Entries, Once(file),
         ~HasLine(file, e.text)
  PROVE  Once(Append(file, e))
<1> DEFINE f == Append(file, e)
<1>1. /\ f \in Seq(Entries) /\ Len(f) = Len(file) + 1 /\ Len(file) \in Nat
      /\ \A k \in 1 .. Len(file) : f[k] = file[k]
      /\ f[Len(file) + 1] = e
  OBVIOUS
<1>2. DOMAIN file = 1 .. Len(file) /\ DOMAIN f = 1 .. Len(f)
  OBVIOUS
<1>3. \A k \in 1 .. Len(file) : file[k].text # e.text
  BY <1>2 DEF HasLine, ToSet
<1> HIDE DEF f
<1>4. \A k \in 1 .. Len(f) : k \in 1 .. Len(file) \/ k = Len(file) + 1
  BY <1>1
<1>5. Once(f)
  BY <1>1, <1>2, <1>3, <1>4 DEF Once
<1> QED BY <1>5 DEF f

LEMMA OccursSelf ==
  ASSUME NEW t \in Words
  PROVE  Occurs(t, t)
<1>1. Len(t) \in Nat /\ SubSeq(t, 0 + 1, 0 + Len(t)) = t
  BY DEF Words
<1>2. 0 \in 0 .. Len(t) - Len(t)
  BY <1>1
<1> QED BY <1>1, <1>2 DEF Occurs

LEMMA LineIsPart ==
  ASSUME NEW file \in Seq(Entries), NEW t \in Words, HasLine(file, t)
  PROVE  HasPart(file, t)
  BY OccursSelf DEF HasLine, HasPart

(* What the two helpers of the script do to a file. *)
Grown(file, f, e) ==
  /\ f \in Seq(Entries)
  /\ Once(file) => Once(f)
  /\ ToSet(file) \subseteq ToSet(f) /\ ToSet(f) \subseteq ToSet(file) \cup {e}

LEMMA AddOnceLineGrows ==
  ASSUME NEW file \in Seq(Entries), NEW e \in Entries
  PROVE  LET f == AddOnceLine(file, e)
         IN  /\ Grown(file, f, e) /\ HasLine(f, e.text)
             /\ HasLine(file, e.text) => f = file
             /\ ~HasLine(file, e.text) => e \in ToSet(f)
<1>1. CASE HasLine(file, e.text)
  BY <1>1 DEF AddOnceLine, Grown
<1>2. CASE ~HasLine(file, e.text)
  <2>1. AddOnceLine(file, e) = Append(file, e)
    BY <1>2 DEF AddOnceLine
  <2>2. Append(file, e) \in Seq(Entries)
    OBVIOUS
  <2>3. ToSet(Append(file, e)) = ToSet(file) \cup {e}
    BY ToSetAppend
  <2>4. Once(file) => Once(Append(file, e))
    BY <1>2, OnceAppend
  <2>5. HasLine(Append(file, e), e.text)
    BY <2>3 DEF HasLine
  <2> QED BY <1>2, <2>1, <2>2, <2>3, <2>4, <2>5 DEF Grown
<1> QED BY <1>1, <1>2

LEMMA AddOnceGrows ==
  ASSUME NEW file \in Seq(Entries), NEW e \in Entries
  PROVE  LET f == AddOnce(file, e)
         IN  /\ Grown(file, f, e)
             /\ HasPart(file, e.text) => f = file
             /\ ~HasPart(file, e.text) => e \in ToSet(f)
<1>1. CASE HasPart(file, e.text)
  BY <1>1 DEF AddOnce, Grown
<1>2. CASE ~HasPart(file, e.text)
  <2>1. AddOnce(file, e) = Append(file, e)
    BY <1>2 DEF AddOnce
  <2>2. Append(file, e) \in Seq(Entries) /\ e.text \in Words
    BY DEF Entries
  <2>3. ToSet(Append(file, e)) = ToSet(file) \cup {e}
    BY ToSetAppend
  <2>4. Once(file) => Once(Append(file, e))
    BY <1>2, <2>2, OnceAppend, LineIsPart
  <2> QED BY <1>2, <2>1, <2>2, <2>3, <2>4 DEF Grown
<1> QED BY <1>1, <1>2

LEMMA LineStays ==
  ASSUME NEW file, NEW f, ToSet(file) \subseteq ToSet(f), NEW t, HasLine(file, t)
  PROVE  HasLine(f, t)
  BY DEF HasLine

----------------------------------------------------------------------------
(* The lines of the manifest, and the words they are made of. *)

LEMMA LineFacts ==
  ASSUME NEW l \in Lines
  PROVE  /\ Manifest[l].file \in Words /\ Manifest[l].sym \in Words
         /\ Manifest[l].dir \in Dirs /\ l \in Nat
         /\ ObjectOf(l) \in Entries /\ ObjectOf(l).text = Manifest[l].file
<1> DEFINE R == [file : Words, dir : STRING, sym : Words, board : BOOLEAN]
<1>1. Manifest \in Seq(R)
  BY ManifestAssumption
<1> HIDE DEF R
<1>2. Lines = 1 .. Len(Manifest) /\ Len(Manifest) \in Nat
  BY <1>1 DEF Lines
<1>3. Manifest[l] \in R /\ l \in Nat
  BY <1>1, <1>2
<1>4. Manifest[l].file \in Words /\ Manifest[l].sym \in Words
  BY <1>3 DEF R
<1>5. Manifest[l].dir \in Dirs
  BY DEF Dirs
<1> QED BY <1>3, <1>4, <1>5 DEF ObjectOf, Entry, Entries

LEMMA Concat ==
  ASSUME NEW s \in Words, NEW t \in Words
  PROVE  /\ s \o t \in Words
         /\ Len(s \o t) = Len(s) + Len(t)
         /\ Len(s) \in Nat /\ Len(t) \in Nat
         /\ \A k \in 1 .. Len(s) : (s \o t)[k] = s[k]
         /\ \A k \in 1 .. Len(t) : (s \o t)[Len(s) + k] = t[k]
  BY DEF Words

LEMMA OneElement ==
  ASSUME NEW S, NEW w \in S
  PROVE  <<w>> \in Seq(S) /\ Len(<<w>>) = 1
  OBVIOUS

LEMMA SingleWord ==
  /\ <<"config ">> \in Words /\ Len(<<"config ">>) = 1
  /\ <<"CONFIG_">> \in Words /\ Len(<<"CONFIG_">>) = 1
  /\ <<"=y">> \in Words /\ Len(<<"=y">>) = 1
  BY OneElement, Zenon DEF Words, Keywords

LEMMA SameWords ==
  ASSUME NEW s \in Words, NEW t \in Words, Len(s) = Len(t),
         \A k \in 1 .. Len(s) : s[k] = t[k]
  PROVE  s = t
  BY DEF Words

LEMMA ConfigLines ==
  ASSUME NEW s \in Words
  PROVE  /\ ConfigLine(s) \in Words
         /\ Len(ConfigLine(s)) = 1 + Len(s)
         /\ \A k \in 1 .. Len(s) : ConfigLine(s)[1 + k] = s[k]
  BY Concat, SingleWord DEF ConfigLine

LEMMA EnabledLines ==
  ASSUME NEW s \in Words
  PROVE  /\ EnabledLine(s) \in Words
         /\ Len(EnabledLine(s)) = Len(s) + 2 /\ Len(s) \in Nat
         /\ \A k \in 1 .. Len(s) : EnabledLine(s)[1 + k] = s[k]
<1> DEFINE u == <<"CONFIG_">> \o s
<1>1. /\ u \in Words /\ Len(u) = Len(<<"CONFIG_">>) + Len(s) /\ Len(s) \in Nat
      /\ \A k \in 1 .. Len(s) : u[Len(<<"CONFIG_">>) + k] = s[k]
  BY Concat, SingleWord, Zenon
<1>0. Len(<<"CONFIG_">>) = 1
  BY SingleWord
<1> HIDE DEF u
<1>2. /\ u \o <<"=y">> \in Words /\ Len(u \o <<"=y">>) = Len(u) + 1
      /\ \A k \in 1 .. Len(u) : (u \o <<"=y">>)[k] = u[k]
  <2>1. /\ u \o <<"=y">> \in Words /\ Len(u \o <<"=y">>) = Len(u) + Len(<<"=y">>)
        /\ \A k \in 1 .. Len(u) : (u \o <<"=y">>)[k] = u[k]
    BY <1>1, Concat, SingleWord, Zenon
  <2> QED BY <2>1, SingleWord, Zenon
<1>3. \A k \in 1 .. Len(s) : 1 + k \in 1 .. Len(u)
  BY <1>0, <1>1
<1>4. EnabledLine(s) = u \o <<"=y">>
  BY DEF EnabledLine, u
<1> QED BY <1>0, <1>1, <1>2, <1>3, <1>4

(* A line names one symbol. *)
LEMMA EnabledOnce ==
  ASSUME NEW s \in Words, NEW t \in Words, EnabledLine(s) = EnabledLine(t)
  PROVE  s = t
<1>1. /\ Len(s) + 2 = Len(t) + 2 /\ Len(s) \in Nat /\ Len(t) \in Nat
      /\ \A k \in 1 .. Len(s) : EnabledLine(s)[1 + k] = s[k]
      /\ \A k \in 1 .. Len(t) : EnabledLine(t)[1 + k] = t[k]
  BY EnabledLines
<1>2. Len(s) = Len(t)
  BY <1>1
<1> QED BY <1>1, <1>2, SameWords

(* The place that find_src finds is a place. *)
LEMMA FindSrcIsPlace ==
  ASSUME NEW l \in Lines
  PROVE  FindSrc(l) \in {"none", "torn"} \cup ToSet(Places)
<1> DEFINE found == {k \in DOMAIN Places : Places[k] \in sources[l]}
<1>1. DOMAIN Places = {1, 2, 3}
  BY DEF Places
<1>2. CASE found = {}
  BY <1>2 DEF FindSrc
<1>3. CASE found # {}
  <2>1. \E k \in found : \A j \in found : k <= j
    <3> HIDE DEF found
    <3>1. found \subseteq {1, 2, 3}
      BY <1>1 DEF found
    <3>2. CASE 1 \in found
      BY <3>1, <3>2
    <3>3. CASE 1 \notin found /\ 2 \in found
      BY <3>1, <3>3
    <3>4. CASE 1 \notin found /\ 2 \notin found
      <4>1. found = {3}
        BY <1>3, <3>1, <3>4
      <4> QED BY <4>1
    <3> QED BY <3>2, <3>3, <3>4
  <2> DEFINE first == CHOOSE k \in found : \A j \in found : k <= j
  <2>2. first \in found
    BY <2>1
  <2>3. FindSrc(l) = Places[first]
    BY <1>3 DEF FindSrc
  <2> QED BY <2>2, <2>3 DEF ToSet
<1> QED BY <1>2, <1>3

(* A nonempty set of natural numbers up to n has a last element. *)
LEMMA Least ==
  ASSUME NEW S, S \subseteq Nat, S # {}
  PROVE  \E x \in S : \A y \in S : x <= y
<1>1. IsWellFoundedOn(OpToRel(<, Nat), Nat)
  BY NatLessThanWellFounded
<1>2. \A x, y \in Nat : y < x => <<y, x>> \in OpToRel(<, Nat)
  BY SMT DEF OpToRel
<1>3. PICK R : R = OpToRel(<, Nat)
  OBVIOUS
<1>4. \A x, y \in Nat : y < x => <<y, x>> \in R
  BY <1>2, <1>3, Zenon
<1>5. PICK x \in S : \A y \in S : ~(<<y, x>> \in R)
  BY <1>1, <1>3, WFMin, Zenon
<1>6. \A y \in S : ~(y < x)
  BY <1>4, <1>5
<1> QED BY <1>5, <1>6

LEMMA Greatest ==
  ASSUME NEW n \in Nat, NEW S, S \subseteq 1 .. n, S # {}
  PROVE  \E x \in S : \A y \in S : y <= x
<1> DEFINE T == {n - x : x \in S}
<1>1. T \subseteq Nat /\ T # {}
  <2>1. \A x \in S : n - x \in Nat
    OBVIOUS
  <2> QED BY <2>1
<1>2. PICK m \in T : \A k \in T : m <= k
  BY <1>1, Least
<1>3. PICK x \in S : m = n - x
  OBVIOUS
<1>4. \A y \in S : n - x <= n - y
  BY <1>2, <1>3
<1>5. \A y \in S : y <= x
  <2> TAKE y \in S
  <2>1. n - x <= n - y /\ x \in Int /\ y \in Int
    BY <1>4
  <2> QED BY <2>1
<1> QED BY <1>3, <1>5

(* The aggregator's symbol: the default, or that of a marked line of the   *)
(* manifest that is registered.                                            *)
LEMMA BoardSymFacts ==
  ASSUME listed \subseteq Lines
  PROVE  /\ BoardSym \in Words
         /\ \/ BoardSym = DefaultBoard
            \/ \E l \in Registered(listed) :
                 Manifest[l].board /\ BoardSym = Manifest[l].sym
<1> DEFINE marked == {l \in Registered(listed) : Manifest[l].board}
           last == CHOOSE l \in marked : \A k \in marked : k <= l
<1>1. CASE marked = {}
  BY <1>1, ManifestAssumption DEF BoardSym
<1>2. CASE marked # {}
  <2>1. marked \subseteq Lines
    BY DEF Registered
  <2>2. Lines = 1 .. Len(Manifest) /\ Len(Manifest) \in Nat
    BY ManifestAssumption DEF Lines
  <2>3. BoardSym = Manifest[last].sym
    BY <1>2 DEF BoardSym
  <2> HIDE DEF marked
  <2>6. \E l \in marked : \A k \in marked : k <= l
    BY <1>2, <2>1, <2>2, Greatest
  <2>4. last \in marked
    BY <2>6
  <2>5. last \in Lines /\ last \in Registered(listed) /\ Manifest[last].board
    BY <2>4 DEF marked, Registered
  <2> QED BY <2>3, <2>5, LineFacts
<1> QED BY <1>1, <1>2

----------------------------------------------------------------------------
(* What does not depend on the tree, and what stays done when files grow.  *)

BoardOf(lines) ==
  LET marked == {l \in Registered(lines) : Manifest[l].board}
  IN  IF marked = {} THEN DefaultBoard
      ELSE Manifest[CHOOSE l \in marked : \A k \in marked : k <= l].sym

LEMMA BoardOfListed == BoardSym = BoardOf(listed)
  BY DEF BoardSym, BoardOf

FindIn(places) ==
  LET found == {k \in DOMAIN Places : Places[k] \in places}
  IN  IF found = {} THEN "none"
      ELSE Places[CHOOSE k \in found : \A j \in found : k <= j]

LEMMA FindInSources == \A l : FindSrc(l) = FindIn(sources[l])
  BY DEF FindSrc, FindIn

LEMMA InputsFixed ==
  ASSUME UNCHANGED inputs
  PROVE  /\ UNCHANGED <<present, listed, sources, force, diffs, tree>>
         /\ BoardSym' = BoardSym /\ DeviceSyms' = DeviceSyms
         /\ Version' = Version
         /\ \A l : FindSrc(l)' = FindSrc(l)
<1>1. UNCHANGED <<present, listed, sources, force, diffs, tree>>
  BY DEF inputs
<1>2. BoardSym' = BoardSym
  <2>1. BoardSym = BoardOf(listed)
    BY BoardOfListed
  <2>2. (BoardSym = BoardOf(listed))'
    BY BoardOfListed, PTL
  <2>3. BoardSym' = BoardOf(listed')
    BY <2>2
  <2> QED BY <1>1, <2>1, <2>3
<1>3. DeviceSyms' = DeviceSyms
  BY <1>1, <1>2, Zenon DEF DeviceSyms, Registered
<1>4. Version' = Version
  BY <1>1 DEF Version
<1>5. \A l : FindSrc(l)' = FindSrc(l)
  <2>1. \A l : FindSrc(l) = FindIn(sources[l])
    BY FindInSources
  <2>2. (\A l : FindSrc(l) = FindIn(sources[l]))'
    BY FindInSources, PTL
  <2>3. \A l : FindSrc(l)' = FindIn(sources'[l])
    BY <2>2
  <2> QED BY <1>1, <2>1, <2>3
<1> QED BY <1>1, <1>2, <1>3, <1>4, <1>5

FilesGrow ==
  /\ \A d \in Dirs : /\ ToSet(objects[d]) \subseteq ToSet(objects'[d])
                     /\ ToSet(kconfig[d]) \subseteq ToSet(kconfig'[d])
  /\ ToSet(defconfig) \subseteq ToSet(defconfig')

LEMMA StaysDone ==
  ASSUME UNCHANGED inputs, FilesGrow
  PROVE  /\ \A l \in Lines : ObjectIn(l) => ObjectIn(l)'
         /\ \A l \in Lines : Configured(l) => Configured(l)'
         /\ BlockIn => BlockIn'
         /\ BlockWhole => BlockWhole'
         /\ \A syms : ExtrasIn(syms) => ExtrasIn(syms)'
         /\ BoardOn => BoardOn'
         /\ \A sym : Declared(sym) => Declared(sym)'
         /\ \A sym : Owned(sym) => Owned(sym)'
<1>1. /\ tree' = tree /\ BoardSym' = BoardSym /\ DeviceSyms' = DeviceSyms
  BY InputsFixed
<1>2. "arm" \in Dirs /\ \A l \in Lines : Manifest[l].dir \in Dirs
  BY LineFacts, ManifestAssumption
<1>3. \A l \in Lines : ObjectIn(l) => ObjectIn(l)'
  BY <1>2 DEF ObjectIn, FilesGrow, ObjectOf
<1>4. \A d \in Dirs : \A t : HasLine(kconfig[d], t) => HasLine(kconfig'[d], t)
  BY DEF FilesGrow, HasLine
<1>5. \A t : HasLine(defconfig, t) => HasLine(defconfig', t)
  BY DEF FilesGrow, HasLine
<1>6. \A l \in Lines : Configured(l) => Configured(l)'
  BY <1>1, <1>2, <1>4, <1>5 DEF Configured
<1>7. BlockIn => BlockIn'
  BY <1>1, <1>2, <1>4 DEF BlockIn
<1>8. BlockWhole => BlockWhole'
  BY <1>1, <1>2 DEF BlockWhole, FilesGrow
<1>9. \A syms : ExtrasIn(syms) => ExtrasIn(syms)'
  BY <1>1, <1>5 DEF ExtrasIn
<1>10. BoardOn => BoardOn'
  BY <1>1, <1>5 DEF BoardOn
<1>11. \A sym : Declared(sym) => Declared(sym)'
  BY <1>4 DEF Declared
<1>12. \A sym : Owned(sym) => Owned(sym)'
  BY <1>1, <1>2, <1>4 DEF Owned, FilesGrow
<1> QED BY <1>3, <1>6, <1>7, <1>8, <1>9, <1>10, <1>11, <1>12

LEMMA CompleteStays ==
  ASSUME TypeOK, UNCHANGED inputs, FilesGrow, Complete,
         \A l \in listed : copied'[l] = copied[l], UNCHANGED <<header, patched>>
  PROVE  Complete'
<1>1. /\ listed' = listed /\ diffs' = diffs /\ Version' = Version
      /\ \A l : FindSrc(l)' = FindSrc(l)
  BY InputsFixed
<1>2. listed \subseteq Lines /\ Registered(listed) \subseteq Lines
  BY DEF TypeOK, Registered
<1>3. \A l \in listed : CopiedRight(l)'
  BY <1>1, <1>2 DEF Complete, CopiedRight
<1>4. \A l \in Registered(listed) : ObjectIn(l)' /\ Configured(l)'
  BY <1>2, StaysDone DEF Complete, LinesDone
<1>5. BlockIn' /\ ExtrasIn(ExtraSelects)' /\ BoardOn'
  BY StaysDone DEF Complete
<1>6. LinesDone(Registered(listed))'
  BY <1>1, <1>4 DEF LinesDone
<1>7. header' = Version' /\ (diffs' # "none" => diffs' = "apply" /\ patched' = "yes")
  BY <1>1 DEF Complete
<1> QED BY <1>1, <1>3, <1>5, <1>6, <1>7 DEF Complete

(* A step that writes no build file. *)
LEMMA FilesSame ==
  ASSUME IInv, UNCHANGED <<tree, built>>,
         \A l \in Lines : copied[l] # "none" => copied'[l] # "none"
  PROVE  /\ EachLineOnce' /\ ObjectsAreCopied' /\ SelectsDeclared' /\ EnabledOwned'
         /\ FilesGrow
<1>1. UNCHANGED <<tree, objects, kconfig, defconfig>>
  BY DEF built
<1>2. EachLineOnce'
  BY <1>1 DEF IInv, EachLineOnce
<1>3. ObjectsAreCopied'
  BY <1>1 DEF IInv, ObjectsAreCopied
<1>4. SelectsDeclared'
  BY <1>1 DEF IInv, SelectsDeclared, Declared
<1>5. EnabledOwned'
  BY <1>1 DEF IInv, EnabledOwned, Owned
<1>6. FilesGrow
  BY <1>1 DEF FilesGrow
<1> QED BY <1>2, <1>3, <1>4, <1>5, <1>6

LEMMA NoRun ==
  ASSUME pc' \in {"idle", "failed"}
  PROVE  Progress'
  BY DEF Progress, Copies, Objects, Blocks

----------------------------------------------------------------------------
(* The steps. *)

LEMMA InitKeeps ==
  ASSUME Init
  PROVE  IInv
<1>1. Empty \in [Dirs -> Seq(Entries)] /\ <<>> \in Seq(Entries)
  BY DEF Empty
<1>2. "base" \in ToSet(Places)
  BY DEF Places, ToSet
<1>3. TypeOK
  BY <1>1, <1>2 DEF Init, TypeOK
<1>4. \A d \in Dirs : Empty[d] = <<>>
  BY DEF Empty
<1>5. ToSet(<<>>) = {} /\ Once(<<>>)
  BY DEF ToSet, Once
<1>6. EachLineOnce
  BY <1>4, <1>5 DEF Init, EachLineOnce
<1>7. ObjectsAreCopied
  BY <1>4, <1>5 DEF Init, ObjectsAreCopied
<1>8. SelectsDeclared
  BY <1>4, <1>5, ManifestAssumption DEF Init, SelectsDeclared
<1>9. EnabledOwned
  BY <1>5 DEF Init, EnabledOwned, HasLine
<1>10. Progress
  BY DEF Init, Progress, Copies, Objects, Blocks
<1>11. SettledIsComplete
  BY DEF Init, SettledIsComplete
<1> QED BY <1>3, <1>6, <1>7, <1>8, <1>9, <1>10, <1>11 DEF IInv

LEMMA StartKeeps ==
  ASSUME IInv, Start
  PROVE  IInv'
<1>1. /\ UNCHANGED <<inputs, copied, header, built, patched, settled>>
      /\ TypeOK /\ UNCHANGED <<tree, listed, sources>>
      /\ UNCHANGED <<objects, kconfig, defconfig>>
  BY DEF Start, result, IInv, inputs, built
<1>2. /\ EachLineOnce' /\ ObjectsAreCopied' /\ SelectsDeclared' /\ EnabledOwned'
      /\ FilesGrow
  BY <1>1, FilesSame
<1>3. /\ todo' \subseteq Lines /\ pc' # "extra"
      /\ \/ pc' = "failed"
         \/ pc' = "copy" /\ todo' = listed
         \/ pc' = "detect" /\ listed = {}
  BY <1>1 DEF Start, Loop, Fail, Goto, TypeOK
<1>4. TypeOK'
  BY <1>1, <1>3 DEF TypeOK
<1>5. Progress'
  BY <1>1, <1>3 DEF Progress, Copies, Objects, Blocks
<1>6. SettledIsComplete'
  BY <1>1, <1>2, CompleteStays DEF IInv, SettledIsComplete
<1> QED BY <1>2, <1>4, <1>5, <1>6 DEF IInv

LEMMA CopyFileKeeps ==
  ASSUME IInv, CopyFile
  PROVE  IInv'
<1>1. /\ UNCHANGED <<inputs, header, built, patched, settled>>
      /\ TypeOK /\ UNCHANGED <<tree, listed, sources>>
      /\ UNCHANGED <<objects, kconfig, defconfig>> /\ pc = "copy"
  BY DEF CopyFile, IInv, inputs, built, history
<1>2. PICK l \in Lines :
        /\ First(l)
        /\ IF FindSrc(l) = "none"
           THEN Fail /\ UNCHANGED copied
           ELSE /\ copied' = [copied EXCEPT ![l] = FindSrc(l)]
                /\ Advance(l, "copy", "detect")
  BY DEF CopyFile
<1>3. /\ todo \subseteq listed /\ l \in todo /\ listed \subseteq Lines
      /\ \A k \in listed \ todo : CopiedRight(k)
      /\ copied \in [Lines -> {"none", "torn"} \cup ToSet(Places)]
      /\ settled => Complete
  BY <1>1, <1>2 DEF IInv, Progress, Copies, First, TypeOK, SettledIsComplete
<1>4. /\ copied' \in [Lines -> {"none", "torn"} \cup ToSet(Places)]
      /\ \A k \in Lines : copied[k] # "none" => copied'[k] # "none"
  BY <1>2, <1>3, FindSrcIsPlace
<1>5. /\ EachLineOnce' /\ ObjectsAreCopied' /\ SelectsDeclared' /\ EnabledOwned'
      /\ FilesGrow
  BY <1>1, <1>4, FilesSame
<1>6. todo' \subseteq Lines /\ pc' # "extra"
  BY <1>1, <1>2, <1>3 DEF Fail, Goto, Advance, Loop
<1>7. TypeOK'
  BY <1>1, <1>4, <1>6 DEF TypeOK
<1>8. Progress'
  <2>1. CASE FindSrc(l) = "none"
    BY <1>2, <2>1, NoRun DEF Fail, Goto
  <2>2. CASE FindSrc(l) # "none"
    <3>1. /\ todo' = todo \ {l}
          /\ pc' = IF todo' = {} THEN "detect" ELSE "copy"
      BY <1>2, <2>2 DEF Advance, Loop
    <3>2. \A k : FindSrc(k)' = FindSrc(k)
      BY <1>1, InputsFixed
    <3>3. \A k \in listed \ todo' : CopiedRight(k)'
      BY <1>2, <1>3, <2>2, <3>1, <3>2 DEF CopiedRight
    <3> QED BY <1>1, <1>3, <3>1, <3>3 DEF Progress, Copies, Objects, Blocks
  <2> QED BY <2>1, <2>2
<1>9. SettledIsComplete'
  <2>1. settled => \A k \in listed : copied'[k] = copied[k]
    BY <1>2, <1>3 DEF Complete, CopiedRight
  <2> QED BY <1>1, <1>3, <1>5, <2>1, CompleteStays DEF SettledIsComplete
<1> QED BY <1>5, <1>7, <1>8, <1>9 DEF IInv

LEMMA DetectKeeps ==
  ASSUME IInv, Detect
  PROVE  IInv'
<1>1. /\ UNCHANGED <<inputs, copied, built, patched, settled>>
      /\ TypeOK /\ UNCHANGED <<tree, listed, sources>>
      /\ UNCHANGED <<objects, kconfig, defconfig>> /\ pc = "detect"
      /\ \A l \in listed : CopiedRight(l)
      /\ settled => Complete
  BY DEF Detect, IInv, inputs, built, history, Progress, Copies, SettledIsComplete
<1>2. /\ EachLineOnce' /\ ObjectsAreCopied' /\ SelectsDeclared' /\ EnabledOwned'
      /\ FilesGrow
  BY <1>1, FilesSame
<1>3. \/ pc' = "failed" /\ todo' = {}
      \/ /\ header' = Version
         /\ \/ pc' = "object" /\ todo' = Registered(listed)
            \/ pc' = "block" /\ todo' = {} /\ Registered(listed) = {}
  BY DEF Detect, Fail, Goto, Loop
<1>4. listed \subseteq Lines /\ Registered(listed) \subseteq Lines
  BY <1>1 DEF TypeOK, Registered
<1>5. TypeOK'
  BY <1>1, <1>3, <1>4 DEF TypeOK
<1>6. /\ Version' = Version /\ Registered(listed') = Registered(listed)
      /\ \A l : FindSrc(l)' = FindSrc(l)
  BY <1>1, InputsFixed
<1>7. \A l \in listed' : CopiedRight(l)'
  BY <1>1, <1>6 DEF CopiedRight
<1>8. Progress'
  BY <1>3, <1>6, <1>7 DEF Progress, Copies, Objects, Blocks, LinesDone, Registered
<1>9. SettledIsComplete'
  <2>1. settled => header' = header
    BY <1>1 DEF Detect, Complete
  <2> QED BY <1>1, <1>2, <2>1, CompleteStays DEF SettledIsComplete
<1> QED BY <1>2, <1>5, <1>8, <1>9 DEF IInv

LEMMA PatchKeeps ==
  ASSUME IInv, Patch
  PROVE  IInv'
<1>1. /\ UNCHANGED <<inputs, copied, header, built, kept>>
      /\ TypeOK /\ UNCHANGED <<tree, listed, sources, diffs>>
      /\ UNCHANGED <<objects, kconfig, defconfig>> /\ pc = "patch"
      /\ settled => Complete
  BY DEF Patch, IInv, inputs, built, SettledIsComplete
<1>2. /\ EachLineOnce' /\ ObjectsAreCopied' /\ SelectsDeclared' /\ EnabledOwned'
      /\ FilesGrow
  BY <1>1, FilesSame
<1>3. /\ todo' = {} /\ pc' \in {"failed", "done"}
      /\ pc' = "failed" => settled' = settled
      /\ pc' = "done" => settled' = TRUE /\ ~(diffs # "none" /\ patched' = "unmerged")
  BY DEF Patch, Fail, Goto
<1>4. TypeOK'
  BY <1>1, <1>3 DEF TypeOK
<1>5. /\ \A l \in listed : CopiedRight(l)
      /\ header = Version /\ LinesDone(Registered(listed))
      /\ BlockIn /\ (BlockWhole \/ kept) /\ ExtrasIn(ExtraSelects) /\ BoardOn
  BY <1>1 DEF IInv, Progress, Copies, Objects, Blocks
<1>6. settled => patched' = patched
  BY <1>1 DEF Patch, Complete
<1>7. pc' = "done" /\ diffs # "none" => diffs = "apply" /\ patched' = "yes"
  BY <1>3 DEF Patch
<1>8. pc' = "done" => Complete'
  <2>1. /\ Version' = Version /\ listed' = listed
        /\ \A l : FindSrc(l)' = FindSrc(l)
    BY <1>1, InputsFixed
  <2>2. listed \subseteq Lines /\ Registered(listed) \subseteq Lines
    BY <1>1 DEF TypeOK, Registered
  <2>3. \A l \in listed : CopiedRight(l)'
    BY <1>1, <1>5, <2>1 DEF CopiedRight
  <2>4. \A l \in Registered(listed) : ObjectIn(l)' /\ Configured(l)'
    BY <1>1, <1>2, <1>5, <2>2, StaysDone DEF LinesDone
  <2>5. BlockIn' /\ ExtrasIn(ExtraSelects)' /\ BoardOn'
    BY <1>1, <1>2, <1>5, StaysDone
  <2>6. LinesDone(Registered(listed))'
    BY <2>1, <2>4 DEF LinesDone
  <2>7. header' = Version'
    BY <1>1, <1>5, <2>1
  <2> QED BY <1>1, <1>7, <2>1, <2>3, <2>5, <2>6, <2>7 DEF Complete
<1>9. Progress'
  <2>1. (BlockWhole \/ kept)'
    BY <1>1, <1>2, <1>5, StaysDone
  <2> QED BY <1>3, <2>1, NoRun DEF Progress, Copies, Objects, Blocks
<1>10. SettledIsComplete'
  BY <1>1, <1>2, <1>3, <1>6, <1>8, CompleteStays DEF SettledIsComplete
<1> QED BY <1>2, <1>4, <1>9, <1>10 DEF IInv

LEMMA KillKeeps ==
  ASSUME IInv, Kill
  PROVE  IInv'
<1>1. /\ UNCHANGED <<inputs, built, patched>>
      /\ TypeOK /\ UNCHANGED <<tree, listed, sources>>
      /\ UNCHANGED <<objects, kconfig, defconfig>> /\ pc' = "idle" /\ todo' = {}
      /\ settled => Complete
  BY DEF Kill, IInv, inputs, built, Goto, SettledIsComplete
<1>2. /\ \/ copied' = copied
         \/ \E l \in Lines : copied' = [copied EXCEPT ![l] = "torn"]
      /\ settled' => settled /\ UNCHANGED <<copied, header>>
  BY DEF Kill
<1>3. /\ copied' \in [Lines -> {"none", "torn"} \cup ToSet(Places)]
      /\ \A k \in Lines : copied[k] # "none" => copied'[k] # "none"
  BY <1>1, <1>2 DEF TypeOK
<1>4. /\ EachLineOnce' /\ ObjectsAreCopied' /\ SelectsDeclared' /\ EnabledOwned'
      /\ FilesGrow
  BY <1>1, <1>3, FilesSame
<1>5. TypeOK'
  BY <1>1, <1>3 DEF TypeOK
<1>6. SettledIsComplete'
  BY <1>1, <1>2, <1>4, CompleteStays DEF SettledIsComplete
<1> QED BY <1>1, <1>4, <1>5, <1>6, NoRun DEF IInv

LEMMA EditKeeps ==
  ASSUME IInv, Edit
  PROVE  IInv'
<1>1. /\ UNCHANGED <<tree, result>> /\ TypeOK /\ settled' = FALSE
      /\ UNCHANGED <<copied, header, built, patched>>
      /\ UNCHANGED <<objects, kconfig, defconfig>>
      /\ pc' = "idle" /\ todo' = todo /\ pc # "extra"
  BY DEF Edit, IInv, result, built, Stopped
<1>2. /\ EachLineOnce' /\ ObjectsAreCopied' /\ SelectsDeclared' /\ EnabledOwned'
  BY <1>1, FilesSame
<1>3. \/ UNCHANGED <<listed, sources>>
      \/ UNCHANGED sources /\ \E l \in Lines : listed' = Toggled(listed, l)
      \/ UNCHANGED listed /\ \E l \in Lines, place \in ToSet(Places) :
           sources' = [sources EXCEPT ![l] = Toggled(@, place)]
  BY DEF Edit
<1>4. listed' \subseteq Lines /\ sources' \in [Lines -> SUBSET ToSet(Places)]
  BY <1>1, <1>3 DEF TypeOK, Toggled
<1>5. TypeOK'
  BY <1>1, <1>4 DEF TypeOK
<1>6. SettledIsComplete'
  BY <1>1 DEF SettledIsComplete
<1> QED BY <1>1, <1>2, <1>5, <1>6, NoRun DEF IInv

(* The loop's line is one; what the run has copied, is in the tree. *)
LEMMA FirstIsOne ==
  ASSUME todo \subseteq Lines, NEW l \in Lines, NEW k \in Lines, First(l), First(k)
  PROVE  l = k
<1>1. l \in Nat /\ k \in Nat
  BY LineFacts
<1>2. l <= k /\ k <= l
  BY DEF First
<1> QED BY <1>1, <1>2

(* add_once takes no other file's line for this one's. *)
LEMMA ObjectAdded ==
  ASSUME IInv, NEW l \in Lines
  PROVE  LET f == AddOnce(objects[Manifest[l].dir], ObjectOf(l))
         IN  /\ Grown(objects[Manifest[l].dir], f, ObjectOf(l))
             /\ ObjectOf(l) \in ToSet(f)
             /\ ObjectIn(l) => f = objects[Manifest[l].dir]
<1> DEFINE old == objects[Manifest[l].dir]
           f == AddOnce(old, ObjectOf(l))
<1>1. /\ Manifest[l].dir \in Dirs /\ ObjectOf(l) \in Entries
      /\ Manifest[l].file \in Words /\ ObjectOf(l).text = Manifest[l].file
      /\ old \in Seq(Entries)
  BY LineFacts DEF IInv, TypeOK
<1>2. /\ Grown(old, f, ObjectOf(l))
      /\ HasPart(old, ObjectOf(l).text) => f = old
      /\ ~HasPart(old, ObjectOf(l).text) => ObjectOf(l) \in ToSet(f)
  BY <1>1, AddOnceGrows
<1>3. HasPart(old, ObjectOf(l).text) => ObjectOf(l) \in ToSet(old)
  <2> SUFFICES ASSUME HasPart(old, ObjectOf(l).text)
               PROVE  ObjectOf(l) \in ToSet(old)
    OBVIOUS
  <2>1. PICK e \in ToSet(old) : Occurs(Manifest[l].file, e.text)
    BY <1>1 DEF HasPart
  <2>2. PICK k \in Lines : e = ObjectOf(k)
    BY <1>1, <2>1 DEF IInv, ObjectsAreCopied
  <2>3. e.text = Manifest[k].file
    BY <2>2, LineFacts
  <2>4. k = l
    BY <2>1, <2>3, ManifestAssumption
  <2> QED BY <2>1, <2>2, <2>4
<1>4. ObjectIn(l) => HasPart(old, ObjectOf(l).text)
  BY <1>1, OccursSelf DEF ObjectIn, HasPart
<1> QED BY <1>2, <1>3, <1>4

LEMMA AddObjectKeeps ==
  ASSUME IInv, AddObject
  PROVE  IInv' /\ (settled => UNCHANGED objects)
<1>1. /\ UNCHANGED <<inputs, copied, header, kconfig, defconfig, patched, todo, settled>>
      /\ TypeOK /\ UNCHANGED <<tree, listed, sources>>
      /\ pc = "object" /\ pc' = "config"
      /\ settled => Complete
  BY DEF AddObject, IInv, inputs, history, SettledIsComplete
<1>2. PICK l \in Lines :
        /\ First(l)
        /\ objects' = [objects EXCEPT
              ![Manifest[l].dir] = AddOnce(@, ObjectOf(l))]
  BY DEF AddObject, ObjectOf
<1> DEFINE dir == Manifest[l].dir
           f == AddOnce(objects[dir], ObjectOf(l))
<1>3. /\ Grown(objects[dir], f, ObjectOf(l)) /\ ObjectOf(l) \in ToSet(f)
      /\ ObjectIn(l) => f = objects[dir]
  BY ObjectAdded
<1>4. /\ dir \in Dirs /\ objects \in [Dirs -> Seq(Entries)]
      /\ objects'[dir] = f
      /\ \A d \in Dirs : d # dir => objects'[d] = objects[d]
  BY <1>1, <1>2, LineFacts DEF TypeOK
<1>5. objects' \in [Dirs -> Seq(Entries)]
  BY <1>2, <1>3, <1>4 DEF Grown
<1> HIDE DEF f
<1>6. /\ l \in todo /\ todo \subseteq Registered(listed)
      /\ Registered(listed) \subseteq listed /\ listed \subseteq Lines
      /\ \A k \in listed : CopiedRight(k)
      /\ LinesDone(Registered(listed) \ todo) /\ header = Version
  BY <1>1, <1>2 DEF IInv, TypeOK, Progress, Copies, Objects, First, Registered
<1>7. FilesGrow
  BY <1>1, <1>3, <1>4 DEF FilesGrow, Grown
<1>8. TypeOK'
  BY <1>1, <1>5, <1>6 DEF TypeOK
<1>9. EachLineOnce'
  BY <1>1, <1>3, <1>4 DEF IInv, EachLineOnce, Grown
<1>10. ObjectsAreCopied'
  <2>1. copied[l] # "none"
    BY <1>6 DEF CopiedRight
  <2>2. \A d \in Dirs : \A e \in ToSet(objects'[d]) :
          e \in ToSet(objects[d]) \/ e = ObjectOf(l)
    BY <1>3, <1>4 DEF Grown
  <2>3. \A d \in Dirs : \A e \in ToSet(objects[d]) :
          \E k \in Lines : e = ObjectOf(k) /\ copied[k] # "none"
    BY DEF IInv, ObjectsAreCopied
  <2>4. \A d \in Dirs : \A e \in ToSet(objects'[d]) :
          \E k \in Lines : e = ObjectOf(k) /\ copied[k] # "none"
    BY <2>1, <2>2, <2>3
  <2> QED BY <1>1, <2>4 DEF ObjectsAreCopied
<1>11. SelectsDeclared'
  BY <1>1 DEF IInv, SelectsDeclared, Declared
<1>12. EnabledOwned'
  BY <1>1, <1>7, StaysDone DEF IInv, EnabledOwned
<1>13. ObjectIn(l)'
  BY <1>3, <1>4 DEF ObjectIn
<1>14. /\ Version' = Version /\ Registered(listed') = Registered(listed)
       /\ \A k : FindSrc(k)' = FindSrc(k)
  BY <1>1, InputsFixed
<1>15. \A k \in listed' : CopiedRight(k)'
  BY <1>1, <1>6, <1>14 DEF CopiedRight
<1>16. \A k \in Registered(listed) \ todo : ObjectIn(k)' /\ Configured(k)'
  BY <1>1, <1>6, <1>7, StaysDone DEF LinesDone
<1>17. \A k \in Lines : First(k)' => ObjectIn(k)'
  <2> TAKE k \in Lines
  <2> HAVE First(k)'
  <2>1. First(k)
    BY <1>1 DEF First
  <2>2. k = l
    BY <1>2, <1>6, <2>1, FirstIsOne
  <2> QED BY <1>13, <2>2
<1>18. LinesDone(Registered(listed) \ todo)'
  BY <1>1, <1>14, <1>16 DEF LinesDone
<1>19. Progress'
  BY <1>1, <1>6, <1>14, <1>15, <1>17, <1>18 DEF Progress, Copies, Objects, Blocks
<1>20. SettledIsComplete'
  BY <1>1, <1>7, CompleteStays DEF SettledIsComplete
<1>21. settled => UNCHANGED objects
  BY <1>1, <1>2, <1>3, <1>4, <1>6 DEF Complete, LinesDone, f
<1> QED BY <1>8, <1>9, <1>10, <1>11, <1>12, <1>19, <1>20, <1>21 DEF IInv

(* A symbol enabled in the board configuration. *)
EnabledIn(sym) == AddOnceLine(defconfig, Entry(EnabledLine(sym), {}))

LEMMA SymbolEnabled ==
  ASSUME IInv, NEW sym \in Words, defconfig' = EnabledIn(sym)
  PROVE  /\ defconfig' \in Seq(Entries)
         /\ Once(defconfig')
         /\ ToSet(defconfig) \subseteq ToSet(defconfig')
         /\ HasLine(defconfig', EnabledLine(sym))
         /\ HasLine(defconfig, EnabledLine(sym)) => defconfig' = defconfig
         /\ \A s \in Words : HasLine(defconfig', EnabledLine(s)) =>
              s = sym \/ HasLine(defconfig, EnabledLine(s))
<1> DEFINE e == Entry(EnabledLine(sym), {})
<1>1. EnabledLine(sym) \in Words
  BY EnabledLines
<1>2. e \in Entries /\ e.text = EnabledLine(sym)
  BY <1>1 DEF Entry, Entries
<1>3. defconfig \in Seq(Entries) /\ Once(defconfig)
  BY DEF IInv, TypeOK, EachLineOnce
<1>4. defconfig' = AddOnceLine(defconfig, e)
  BY DEF EnabledIn
<1> HIDE DEF e
<1>5. /\ Grown(defconfig, AddOnceLine(defconfig, e), e)
      /\ HasLine(AddOnceLine(defconfig, e), e.text)
      /\ HasLine(defconfig, e.text) => AddOnceLine(defconfig, e) = defconfig
  BY <1>2, <1>3, AddOnceLineGrows
<1>6. \A s \in Words : HasLine(defconfig', EnabledLine(s)) =>
        s = sym \/ HasLine(defconfig, EnabledLine(s))
  <2> TAKE s \in Words
  <2> HAVE HasLine(defconfig', EnabledLine(s))
  <2>1. PICK x \in ToSet(defconfig') : x.text = EnabledLine(s)
    BY DEF HasLine
  <2>2. CASE x \in ToSet(defconfig)
    BY <2>1, <2>2 DEF HasLine
  <2>3. CASE x = e
    BY <1>2, <2>1, <2>3, EnabledOnce
  <2> QED BY <1>4, <1>5, <2>1, <2>2, <2>3 DEF Grown
<1> QED BY <1>2, <1>3, <1>4, <1>5, <1>6 DEF Grown

LEMMA SymsAreWords == Syms \subseteq Words
  BY LineFacts DEF Syms, Registered

LEMMA AddConfigKeeps ==
  ASSUME IInv, AddConfig
  PROVE  IInv' /\ (settled => UNCHANGED <<kconfig, defconfig>>)
<1>1. /\ UNCHANGED <<inputs, copied, header, objects, patched, settled, kept>>
      /\ TypeOK /\ UNCHANGED <<tree, listed, sources>>
      /\ pc = "config"
      /\ settled => Complete
  BY DEF AddConfig, IInv, inputs, history, SettledIsComplete
<1>2. PICK l \in Lines :
        /\ First(l)
        /\ kconfig' =
             IF tree.kconfig /\ Manifest[l].sym # BoardSym
             THEN [kconfig EXCEPT ![Manifest[l].dir] =
                    AddOnceLine(@, Entry(ConfigLine(Manifest[l].sym), {}))]
             ELSE kconfig
        /\ defconfig' = IF ~tree.kconfig /\ tree.defconfig
                        THEN EnabledIn(Manifest[l].sym)
                        ELSE defconfig
        /\ Advance(l, "object", "block")
  BY DEF AddConfig, EnabledIn
<1> DEFINE dir == Manifest[l].dir
           sym == Manifest[l].sym
           e == Entry(ConfigLine(sym), {})
           f == AddOnceLine(kconfig[dir], e)
<1>3. /\ dir \in Dirs /\ sym \in Words /\ kconfig \in [Dirs -> Seq(Entries)]
      /\ defconfig \in Seq(Entries) /\ objects \in [Dirs -> Seq(Entries)]
  BY <1>1, LineFacts DEF TypeOK
<1>4. e \in Entries /\ e.text = ConfigLine(sym) /\ e.names = {}
  BY <1>3, ConfigLines DEF Entry, Entries
<1>5. /\ l \in todo /\ todo \subseteq Registered(listed)
      /\ Registered(listed) \subseteq listed /\ listed \subseteq Lines
      /\ \A k \in listed : CopiedRight(k)
      /\ LinesDone(Registered(listed) \ todo) /\ header = Version
      /\ ObjectIn(l)
  BY <1>1, <1>2 DEF IInv, TypeOK, Progress, Copies, Objects, First, Registered
<1> HIDE DEF e
<1>6. /\ Grown(kconfig[dir], f, e) /\ HasLine(f, ConfigLine(sym))
      /\ HasLine(kconfig[dir], ConfigLine(sym)) => f = kconfig[dir]
  BY <1>3, <1>4, AddOnceLineGrows
<1>7. kconfig' = IF tree.kconfig /\ sym # BoardSym
                 THEN [kconfig EXCEPT ![dir] = f] ELSE kconfig
  BY <1>2, <1>3 DEF e
<1> HIDE DEF f
<1>8. /\ kconfig' \in [Dirs -> Seq(Entries)]
      /\ \A d \in Dirs : /\ Once(kconfig'[d])
                         /\ ToSet(kconfig[d]) \subseteq ToSet(kconfig'[d])
                         /\ ToSet(kconfig'[d]) \subseteq ToSet(kconfig[d]) \cup {e}
      /\ tree.kconfig /\ sym # BoardSym => HasLine(kconfig'[dir], ConfigLine(sym))
  BY <1>3, <1>6, <1>7 DEF Grown, IInv, EachLineOnce
<1>9. /\ defconfig' \in Seq(Entries) /\ Once(defconfig')
      /\ ToSet(defconfig) \subseteq ToSet(defconfig')
      /\ ~tree.kconfig /\ tree.defconfig => HasLine(defconfig', EnabledLine(sym))
      /\ \A s \in Words : HasLine(defconfig', EnabledLine(s)) =>
           \/ HasLine(defconfig, EnabledLine(s))
           \/ s = sym /\ ~tree.kconfig
  <2>1. CASE ~tree.kconfig /\ tree.defconfig
    <3>1. defconfig' = EnabledIn(sym)
      BY <1>2, <2>1
    <3> QED BY <1>3, <2>1, <3>1, SymbolEnabled
  <2>2. CASE ~(~tree.kconfig /\ tree.defconfig)
    BY <1>2, <1>3, <2>2 DEF IInv, EachLineOnce
  <2> QED BY <2>1, <2>2
<1>10. FilesGrow
  BY <1>1, <1>8, <1>9 DEF FilesGrow
<1>11. todo' = todo \ {l} /\ pc' = IF todo' = {} THEN "block" ELSE "object"
  BY <1>2 DEF Advance, Loop
<1>12. TypeOK'
  <2>1. todo' \subseteq Lines /\ pc' # "extra"
    BY <1>5, <1>11
  <2> QED BY <1>1, <1>8, <1>9, <2>1 DEF TypeOK
<1>13. EachLineOnce'
  BY <1>1, <1>8, <1>9 DEF IInv, EachLineOnce
<1>14. ObjectsAreCopied'
  BY <1>1 DEF IInv, ObjectsAreCopied
<1>15. SelectsDeclared'
  <2>1. "arm" \in Dirs
    BY ManifestAssumption
  <2>2. \A x \in ToSet(kconfig'["arm"]) : x \in ToSet(kconfig["arm"]) \/ x.names = {}
    BY <1>4, <1>8, <2>1
  <2> QED BY <1>1, <1>10, <2>2, StaysDone DEF IInv, SelectsDeclared
<1>16. EnabledOwned'
  <2>1. ~tree.kconfig => Owned(sym)
    <3>1. ObjectOf(l) \in ToSet(objects[dir]) /\ sym \in ObjectOf(l).names
      BY <1>5 DEF ObjectIn, ObjectOf, Entry
    <3> QED BY <1>3, <3>1 DEF Owned
  <2>2. \A s \in Syms : HasLine(defconfig', EnabledLine(s)) => Owned(s)
    BY <1>9, <2>1, SymsAreWords DEF IInv, EnabledOwned
  <2> QED BY <1>1, <1>10, <2>2, StaysDone DEF EnabledOwned
<1>17. /\ Version' = Version /\ Registered(listed') = Registered(listed)
       /\ BoardSym' = BoardSym
       /\ \A k : FindSrc(k)' = FindSrc(k)
  BY <1>1, InputsFixed
<1>18. \A k \in listed' : CopiedRight(k)'
  BY <1>1, <1>5, <1>17 DEF CopiedRight
<1>19. ObjectIn(l)' /\ Configured(l)'
  <2>1. Configured(l)'
    BY <1>1, <1>8, <1>9, <1>17 DEF Configured
  <2> QED BY <1>1, <1>5, <1>10, <2>1, StaysDone
<1>20. \A k \in Registered(listed) \ todo' : ObjectIn(k)' /\ Configured(k)'
  BY <1>1, <1>5, <1>10, <1>11, <1>19, StaysDone DEF LinesDone
<1>21. LinesDone(Registered(listed) \ todo)'
  BY <1>17, <1>20 DEF LinesDone
<1>22. Progress'
  <2>1. header' = Version' /\ todo' \subseteq Registered(listed')
    BY <1>1, <1>5, <1>11, <1>17
  <2>3. CASE todo' = {}
    <3>1. LinesDone(Registered(listed))'
      BY <1>21, <2>3 DEF LinesDone
    <3> QED BY <1>11, <1>18, <2>1, <2>3, <3>1 DEF Progress, Copies, Objects, Blocks
  <2>4. CASE todo' # {}
    BY <1>11, <1>18, <1>21, <2>1, <2>4 DEF Progress, Copies, Objects, Blocks
  <2> QED BY <2>3, <2>4
<1>23. SettledIsComplete'
  BY <1>1, <1>10, CompleteStays DEF SettledIsComplete
<1>24. settled => UNCHANGED <<kconfig, defconfig>>
  <2> SUFFICES ASSUME settled PROVE UNCHANGED <<kconfig, defconfig>>
    OBVIOUS
  <2>1. Configured(l)
    BY <1>1, <1>5 DEF Complete, LinesDone
  <2>2. kconfig' = kconfig
    BY <1>3, <1>6, <1>7, <2>1 DEF Configured
  <2>3. CASE ~tree.kconfig /\ tree.defconfig
    <3>1. defconfig' = EnabledIn(sym) /\ HasLine(defconfig, EnabledLine(sym))
      BY <1>2, <2>1, <2>3 DEF Configured
    <3> QED BY <1>3, <2>2, <3>1, SymbolEnabled
  <2>4. CASE ~(~tree.kconfig /\ tree.defconfig)
    BY <1>2, <2>2, <2>4
  <2> QED BY <2>3, <2>4
<1> QED BY <1>12, <1>13, <1>14, <1>15, <1>16, <1>22, <1>23, <1>24 DEF IInv

LEMMA AddBlockKeeps ==
  ASSUME IInv, AddBlock
  PROVE  IInv' /\ (settled => UNCHANGED kconfig)
<1>1. /\ UNCHANGED <<inputs, copied, header, objects, defconfig, patched, settled>>
      /\ TypeOK /\ UNCHANGED <<tree, listed, sources>>
      /\ pc = "block"
      /\ settled => Complete
  BY DEF AddBlock, IInv, inputs, SettledIsComplete
<1>2. /\ Registered(listed) \subseteq listed /\ listed \subseteq Lines
      /\ \A k \in listed : CopiedRight(k)
      /\ LinesDone(Registered(listed)) /\ header = Version
  BY <1>1 DEF IInv, TypeOK, Progress, Copies, Objects, Registered
<1>3. /\ "arm" \in Dirs /\ kconfig \in [Dirs -> Seq(Entries)]
      /\ \A d \in Dirs : Once(kconfig[d])
  BY <1>1, ManifestAssumption DEF TypeOK, IInv, EachLineOnce
<1>4. /\ Block \in Entries /\ Block.text = ConfigLine(BoardSym)
      /\ Block.names = DeviceSyms \cup ExtraSelects
  <2>1. BoardSym \in Words /\ ConfigLine(BoardSym) \in Words
    BY <1>2, BoardSymFacts, ConfigLines
  <2>2. DeviceSyms \cup ExtraSelects \subseteq Words
    BY <1>2, LineFacts, ManifestAssumption DEF DeviceSyms
  <2> QED BY <2>1, <2>2 DEF Block, Entry, Entries
<1> DEFINE f == AddOnceLine(kconfig["arm"], Block)
<1>5. /\ Grown(kconfig["arm"], f, Block) /\ HasLine(f, ConfigLine(BoardSym))
      /\ HasLine(kconfig["arm"], ConfigLine(BoardSym)) => f = kconfig["arm"]
      /\ ~HasLine(kconfig["arm"], ConfigLine(BoardSym)) => Block \in ToSet(f)
  BY <1>3, <1>4, AddOnceLineGrows
<1>6. kconfig' = IF tree.kconfig THEN [kconfig EXCEPT !["arm"] = f] ELSE kconfig
  BY DEF AddBlock
<1> HIDE DEF f
<1>7. /\ kconfig' \in [Dirs -> Seq(Entries)]
      /\ \A d \in Dirs : /\ Once(kconfig'[d])
                         /\ ToSet(kconfig[d]) \subseteq ToSet(kconfig'[d])
      /\ ToSet(kconfig'["arm"]) \subseteq ToSet(kconfig["arm"]) \cup {Block}
      /\ tree.kconfig => kconfig'["arm"] = f
  BY <1>3, <1>5, <1>6 DEF Grown
<1>8. FilesGrow
  BY <1>1, <1>7 DEF FilesGrow
<1>9. \/ /\ pc' = "enable" /\ todo' = {}
         /\ tree.kconfig \/ ~tree.defconfig \/ ExtraSelects = {}
      \/ /\ pc' = "extra" /\ todo' = ExtraSelects
         /\ ~tree.kconfig /\ tree.defconfig
  BY DEF AddBlock, Goto, Loop
<1>10. TypeOK'
  BY <1>1, <1>7, <1>9 DEF TypeOK
<1>11. EachLineOnce'
  BY <1>1, <1>7 DEF IInv, EachLineOnce
<1>12. ObjectsAreCopied'
  BY <1>1 DEF IInv, ObjectsAreCopied
<1>13. SelectsDeclared'
  <2>1. \A sym \in Block.names \cap Syms : tree.kconfig => Declared(sym)
    <3> TAKE sym \in Block.names \cap Syms
    <3>1. sym \in DeviceSyms
      BY <1>4, ManifestAssumption DEF Syms, Registered
    <3>2. PICK k \in Registered(listed) : sym = Manifest[k].sym
      BY <3>1 DEF DeviceSyms
    <3>3. sym # BoardSym
      BY <3>1 DEF DeviceSyms
    <3>4. Configured(k) /\ Manifest[k].dir \in Dirs
      BY <1>2, LineFacts DEF LinesDone
    <3> QED BY <3>2, <3>3, <3>4 DEF Configured, Declared
  <2>2. \A x \in ToSet(kconfig["arm"]) : \A sym \in x.names \cap Syms : Declared(sym)
    BY DEF IInv, SelectsDeclared
  <2>3. CASE tree.kconfig
    <3>1. \A x \in ToSet(kconfig'["arm"]) :
            \A sym \in x.names \cap Syms : Declared(sym)
      BY <1>7, <2>1, <2>2, <2>3
    <3> QED BY <1>1, <1>8, <3>1, StaysDone DEF SelectsDeclared
  <2>4. CASE ~tree.kconfig
    BY <1>6, <2>2, <2>4 DEF SelectsDeclared, Declared
  <2> QED BY <2>3, <2>4
<1>14. EnabledOwned'
  BY <1>1, <1>8, StaysDone DEF IInv, EnabledOwned
<1>15. /\ Version' = Version /\ Registered(listed') = Registered(listed)
       /\ BoardSym' = BoardSym /\ DeviceSyms' = DeviceSyms
       /\ \A k : FindSrc(k)' = FindSrc(k)
  BY <1>1, InputsFixed
<1>16. \A k \in listed' : CopiedRight(k)'
  BY <1>1, <1>2, <1>15 DEF CopiedRight
<1>17. LinesDone(Registered(listed))'
  <2>1. \A k \in Registered(listed) : ObjectIn(k)' /\ Configured(k)'
    BY <1>1, <1>2, <1>8, StaysDone DEF LinesDone
  <2> QED BY <1>15, <2>1 DEF LinesDone
<1>18. BlockIn'
  BY <1>1, <1>5, <1>7, <1>15 DEF BlockIn
<1>19. (BlockWhole \/ kept)'
  <2>1. CASE ~tree.kconfig
    BY <1>1, <2>1 DEF BlockWhole
  <2>2. CASE tree.kconfig /\ ~HasLine(kconfig["arm"], ConfigLine(BoardSym))
    BY <1>1, <1>4, <1>5, <1>7, <1>15, <2>2 DEF BlockWhole
  <2>3. CASE tree.kconfig /\ HasLine(kconfig["arm"], ConfigLine(BoardSym))
    <3>1. PICK x \in ToSet(kconfig["arm"]) : x.text = ConfigLine(BoardSym)
      BY <2>3 DEF HasLine
    <3>2. ~(Block.names \subseteq x.names) => kept'
      BY <1>4, <3>1 DEF AddBlock
    <3>3. Block.names \subseteq x.names => BlockWhole
      BY <1>4, <3>1 DEF BlockWhole
    <3> QED BY <1>1, <1>8, <3>2, <3>3, StaysDone
  <2> QED BY <2>1, <2>2, <2>3
<1>20. Progress'
  <2>1. pc' = "extra" => ExtrasIn(ExtraSelects \ todo)'
    BY <1>9 DEF ExtrasIn
  <2>2. pc' = "enable" => ExtrasIn(ExtraSelects)'
    BY <1>1, <1>9 DEF ExtrasIn
  <2>3. header' = Version'
    BY <1>1, <1>2, <1>15
  <2>4. CASE pc' = "extra"
    BY <1>1, <1>9, <1>16, <1>17, <1>18, <1>19, <2>1, <2>3, <2>4
       DEF Progress, Copies, Objects, Blocks
  <2>5. CASE pc' = "enable"
    BY <1>16, <1>17, <1>18, <1>19, <2>2, <2>3, <2>5
       DEF Progress, Copies, Objects, Blocks
  <2> QED BY <1>9, <2>4, <2>5
<1>21. SettledIsComplete'
  BY <1>1, <1>8, CompleteStays DEF SettledIsComplete
<1>22. settled => UNCHANGED kconfig
  BY <1>1, <1>3, <1>5, <1>6 DEF Complete, BlockIn
<1> QED BY <1>10, <1>11, <1>12, <1>13, <1>14, <1>20, <1>21, <1>22 DEF IInv

(* The two steps that write the board configuration after the block. *)
LEMMA AddExtraKeeps ==
  ASSUME IInv, AddExtra
  PROVE  IInv' /\ (settled => UNCHANGED defconfig)
<1>1. /\ UNCHANGED <<inputs, copied, header, objects, kconfig, patched, settled, kept>>
      /\ TypeOK /\ UNCHANGED <<tree, listed, sources>>
      /\ pc = "extra" /\ todo \subseteq ExtraSelects
      /\ settled => Complete
  BY DEF AddExtra, IInv, TypeOK, inputs, history, SettledIsComplete
<1>2. PICK sym \in todo :
        defconfig' = EnabledIn(sym) /\ Advance(sym, "extra", "enable")
  BY DEF AddExtra, EnabledIn
<1>3. sym \in ExtraSelects /\ sym \in Words /\ sym \notin Syms
  BY <1>1, ManifestAssumption DEF Syms, Registered
<1>4. /\ Registered(listed) \subseteq listed /\ listed \subseteq Lines
      /\ \A k \in listed : CopiedRight(k)
      /\ LinesDone(Registered(listed)) /\ header = Version
      /\ BlockIn /\ (BlockWhole \/ kept) /\ ~tree.kconfig /\ tree.defconfig
      /\ ExtrasIn(ExtraSelects \ todo)
  BY <1>1 DEF IInv, TypeOK, Progress, Copies, Objects, Blocks, Registered
<1>5. /\ defconfig' \in Seq(Entries) /\ Once(defconfig')
      /\ ToSet(defconfig) \subseteq ToSet(defconfig')
      /\ HasLine(defconfig', EnabledLine(sym))
      /\ HasLine(defconfig, EnabledLine(sym)) => defconfig' = defconfig
      /\ \A s \in Words : HasLine(defconfig', EnabledLine(s)) =>
           s = sym \/ HasLine(defconfig, EnabledLine(s))
  BY <1>2, <1>3, SymbolEnabled
<1>6. FilesGrow
  BY <1>1, <1>5 DEF FilesGrow
<1>7. todo' = todo \ {sym} /\ pc' = IF todo' = {} THEN "enable" ELSE "extra"
  BY <1>2 DEF Advance, Loop
<1>8. TypeOK'
  <2>1. todo' \subseteq IF pc' = "extra" THEN ExtraSelects ELSE Lines
    BY <1>1, <1>7
  <2> QED BY <1>1, <1>5, <2>1 DEF TypeOK
<1>9. EachLineOnce'
  BY <1>1, <1>5 DEF IInv, EachLineOnce
<1>10. ObjectsAreCopied' /\ SelectsDeclared'
  BY <1>1 DEF IInv, ObjectsAreCopied, SelectsDeclared, Declared
<1>11. EnabledOwned'
  <2>1. \A s \in Syms : HasLine(defconfig', EnabledLine(s)) => Owned(s)
    BY <1>3, <1>5, SymsAreWords DEF IInv, EnabledOwned
  <2> QED BY <1>1, <1>6, <2>1, StaysDone DEF EnabledOwned
<1>12. /\ Version' = Version /\ Registered(listed') = Registered(listed)
       /\ tree' = tree /\ \A k : FindSrc(k)' = FindSrc(k)
  BY <1>1, InputsFixed
<1>13. \A k \in listed' : CopiedRight(k)'
  BY <1>1, <1>4, <1>12 DEF CopiedRight
<1>14. LinesDone(Registered(listed))'
  <2>1. \A k \in Registered(listed) : ObjectIn(k)' /\ Configured(k)'
    BY <1>1, <1>4, <1>6, StaysDone DEF LinesDone
  <2> QED BY <1>12, <2>1 DEF LinesDone
<1>15. BlockIn' /\ (BlockWhole \/ kept)'
  BY <1>1, <1>4, <1>6, StaysDone
<1>16. ExtrasIn(ExtraSelects \ todo)'
  <2>1. \A s \in ExtraSelects \ todo : HasLine(defconfig', EnabledLine(s))
    BY <1>4, <1>5 DEF ExtrasIn, HasLine
  <2>2. \A s \in ExtraSelects \ todo' : HasLine(defconfig', EnabledLine(s))
    BY <1>5, <1>7, <2>1
  <2> QED BY <2>2 DEF ExtrasIn
<1>17. Progress'
  <2>1. header' = Version' /\ ~tree'.kconfig /\ tree'.defconfig
    BY <1>1, <1>4, <1>12
  <2>2. CASE todo' = {}
    <3>1. ExtrasIn(ExtraSelects)'
      BY <1>16, <2>2 DEF ExtrasIn
    <3> QED BY <1>7, <1>13, <1>14, <1>15, <2>1, <2>2, <3>1
            DEF Progress, Copies, Objects, Blocks
  <2>3. CASE todo' # {}
    BY <1>7, <1>13, <1>14, <1>15, <1>16, <2>1, <2>3
       DEF Progress, Copies, Objects, Blocks
  <2> QED BY <2>2, <2>3
<1>18. SettledIsComplete'
  BY <1>1, <1>6, CompleteStays DEF SettledIsComplete
<1>19. settled => UNCHANGED defconfig
  BY <1>1, <1>3, <1>4, <1>5 DEF Complete, ExtrasIn
<1> QED BY <1>8, <1>9, <1>10, <1>11, <1>17, <1>18, <1>19 DEF IInv

LEMMA EnableKeeps ==
  ASSUME IInv, Enable
  PROVE  IInv' /\ (settled => UNCHANGED defconfig)
<1>1. /\ UNCHANGED <<inputs, copied, header, objects, kconfig, patched, settled, kept>>
      /\ TypeOK /\ UNCHANGED <<tree, listed, sources>>
      /\ pc = "enable" /\ pc' = "patch" /\ todo' = {}
      /\ defconfig' = IF tree.defconfig THEN EnabledIn(BoardSym) ELSE defconfig
      /\ settled => Complete
  BY DEF Enable, IInv, inputs, history, Goto, EnabledIn, SettledIsComplete
<1>2. /\ Registered(listed) \subseteq listed /\ listed \subseteq Lines
      /\ \A k \in listed : CopiedRight(k)
      /\ LinesDone(Registered(listed)) /\ header = Version
      /\ BlockIn /\ (BlockWhole \/ kept) /\ ExtrasIn(ExtraSelects)
  BY <1>1 DEF IInv, TypeOK, Progress, Copies, Objects, Blocks, Registered
<1>3. /\ BoardSym \in Words
      /\ \/ BoardSym = DefaultBoard
         \/ \E l \in Registered(listed) : BoardSym = Manifest[l].sym
  BY <1>2, BoardSymFacts
<1>4. /\ defconfig' \in Seq(Entries) /\ Once(defconfig')
      /\ ToSet(defconfig) \subseteq ToSet(defconfig')
      /\ tree.defconfig => HasLine(defconfig', EnabledLine(BoardSym))
      /\ (tree.defconfig => HasLine(defconfig, EnabledLine(BoardSym)))
           => defconfig' = defconfig
      /\ \A s \in Words : HasLine(defconfig', EnabledLine(s)) =>
           s = BoardSym \/ HasLine(defconfig, EnabledLine(s))
  <2>1. CASE tree.defconfig
    BY <1>1, <1>3, <2>1, SymbolEnabled
  <2>2. CASE ~tree.defconfig
    BY <1>1, <2>2 DEF IInv, TypeOK, EachLineOnce
  <2> QED BY <2>1, <2>2
<1>5. FilesGrow
  BY <1>1, <1>4 DEF FilesGrow
<1>6. TypeOK'
  BY <1>1, <1>4 DEF TypeOK
<1>7. EachLineOnce'
  BY <1>1, <1>4 DEF IInv, EachLineOnce
<1>8. ObjectsAreCopied' /\ SelectsDeclared'
  BY <1>1 DEF IInv, ObjectsAreCopied, SelectsDeclared, Declared
<1>9. EnabledOwned'
  <2>1. BoardSym \in Syms => Owned(BoardSym)
    <3> SUFFICES ASSUME BoardSym \in Syms PROVE Owned(BoardSym)
      OBVIOUS
    <3>1. BoardSym # DefaultBoard
      BY ManifestAssumption DEF Syms, Registered
    <3>2. PICK l \in Registered(listed) : BoardSym = Manifest[l].sym
      BY <1>3, <3>1
    <3>3. /\ Manifest[l].dir \in Dirs /\ BoardSym \in ObjectOf(l).names
          /\ ObjectOf(l) \in ToSet(objects[Manifest[l].dir])
      BY <1>2, <3>2, LineFacts DEF LinesDone, ObjectIn, ObjectOf, Entry
    <3>4. tree.kconfig => HasLine(kconfig["arm"], ConfigLine(BoardSym))
      BY <1>2 DEF BlockIn
    <3> QED BY <3>3, <3>4 DEF Owned
  <2>2. \A s \in Syms : HasLine(defconfig', EnabledLine(s)) => Owned(s)
    BY <1>4, <2>1, SymsAreWords DEF IInv, EnabledOwned
  <2> QED BY <1>1, <1>5, <2>2, StaysDone DEF EnabledOwned
<1>10. /\ Version' = Version /\ Registered(listed') = Registered(listed)
       /\ BoardSym' = BoardSym
       /\ tree' = tree /\ \A k : FindSrc(k)' = FindSrc(k)
  BY <1>1, InputsFixed
<1>11. \A k \in listed' : CopiedRight(k)'
  BY <1>1, <1>2, <1>10 DEF CopiedRight
<1>12. LinesDone(Registered(listed))'
  <2>1. \A k \in Registered(listed) : ObjectIn(k)' /\ Configured(k)'
    BY <1>1, <1>2, <1>5, StaysDone DEF LinesDone
  <2> QED BY <1>10, <2>1 DEF LinesDone
<1>13. BlockIn' /\ (BlockWhole \/ kept)' /\ ExtrasIn(ExtraSelects)'
  BY <1>1, <1>2, <1>5, StaysDone
<1>14. BoardOn'
  BY <1>4, <1>10 DEF BoardOn
<1>15. Progress'
  <2>1. header' = Version'
    BY <1>1, <1>2, <1>10
  <2> QED BY <1>1, <1>11, <1>12, <1>13, <1>14, <2>1
          DEF Progress, Copies, Objects, Blocks
<1>16. SettledIsComplete'
  BY <1>1, <1>5, CompleteStays DEF SettledIsComplete
<1>17. settled => UNCHANGED defconfig
  BY <1>1, <1>4 DEF Complete, BoardOn
<1> QED BY <1>6, <1>7, <1>8, <1>9, <1>15, <1>16, <1>17 DEF IInv

LEMMA StutterKeeps ==
  ASSUME IInv, UNCHANGED vars
  PROVE  IInv'
<1>1. /\ UNCHANGED <<inputs, copied, header, built, patched, pc, todo, settled, kept>>
      /\ TypeOK /\ UNCHANGED <<tree, listed, sources>>
      /\ UNCHANGED <<objects, kconfig, defconfig>>
      /\ settled => Complete
  BY DEF vars, result, script, history, inputs, built, IInv, SettledIsComplete
<1>2. /\ EachLineOnce' /\ ObjectsAreCopied' /\ SelectsDeclared' /\ EnabledOwned'
      /\ FilesGrow
  BY <1>1, FilesSame
<1>3. /\ Version' = Version /\ Registered(listed') = Registered(listed)
      /\ listed' = listed /\ \A k : FindSrc(k)' = FindSrc(k)
  BY <1>1, InputsFixed
<1>4. Registered(listed) \subseteq Lines /\ listed \subseteq Lines
  BY <1>1 DEF TypeOK, Registered
<1>5. /\ \A k \in Lines : CopiedRight(k) => CopiedRight(k)'
      /\ \A k \in Lines : ObjectIn(k) => ObjectIn(k)'
      /\ \A k \in Lines : Configured(k) => Configured(k)'
  <2>1. \A k \in Lines : CopiedRight(k) => CopiedRight(k)'
    BY <1>1, <1>3 DEF CopiedRight
  <2> QED BY <1>1, <1>2, <2>1, StaysDone
<1>6. /\ BlockIn => BlockIn'
      /\ BlockWhole => BlockWhole'
      /\ BoardOn => BoardOn'
      /\ \A syms : ExtrasIn(syms) => ExtrasIn(syms)'
  BY <1>1, <1>2, StaysDone
<1>7. TypeOK'
  BY <1>1 DEF TypeOK
<1>8. Copies'
  <2>1. \A k \in listed : CopiedRight(k) => CopiedRight(k)'
    BY <1>4, <1>5
  <2>2. pc' = pc /\ todo' = todo /\ listed' = listed /\ Copies
    BY <1>1, <1>3 DEF IInv, Progress
  <2> QED BY <2>1, <2>2 DEF Copies
<1>9. LinesDone(Registered(listed)) => LinesDone(Registered(listed))'
  <2>1. \A k \in Registered(listed) : ObjectIn(k) /\ Configured(k) =>
          ObjectIn(k)' /\ Configured(k)'
    BY <1>4, <1>5
  <2> SUFFICES ASSUME LinesDone(Registered(listed))
               PROVE  LinesDone(Registered(listed))'
    OBVIOUS
  <2>2. \A k \in Registered(listed) : ObjectIn(k)' /\ Configured(k)'
    BY <2>1 DEF LinesDone
  <2> QED BY <1>3, <2>2 DEF LinesDone
<1>10. LinesDone(Registered(listed) \ todo) => LinesDone(Registered(listed) \ todo)'
  <2>1. \A k \in Registered(listed) \ todo : ObjectIn(k) /\ Configured(k) =>
          ObjectIn(k)' /\ Configured(k)'
    BY <1>4, <1>5
  <2> SUFFICES ASSUME LinesDone(Registered(listed) \ todo)
               PROVE  LinesDone(Registered(listed) \ todo)'
    OBVIOUS
  <2>2. \A k \in Registered(listed) \ todo : ObjectIn(k)' /\ Configured(k)'
    BY <2>1 DEF LinesDone
  <2> QED BY <1>1, <1>3, <2>2 DEF LinesDone
<1>11. \A l \in Lines : (First(l) => ObjectIn(l)) => (First(l)' => ObjectIn(l)')
  <2>1. \A l \in Lines : First(l)' => First(l)
    BY <1>1 DEF First
  <2> QED BY <1>5, <2>1
<1>12. Objects'
  <2>1. /\ pc' = pc /\ todo' = todo /\ header' = header /\ Objects
        /\ Version' = Version /\ Registered(listed') = Registered(listed)
    BY <1>1, <1>3 DEF IInv, Progress
  <2>2. CASE pc = "object"
    BY <1>10, <2>1, <2>2 DEF Objects
  <2>3. CASE pc = "config"
    <3>1. \A l \in Lines : First(l)' => ObjectIn(l)'
      BY <1>11, <2>1, <2>3 DEF Objects
    <3> QED BY <1>10, <2>1, <2>3, <3>1 DEF Objects
  <2>4. CASE pc \in {"block", "extra", "enable", "patch"}
    BY <1>9, <2>1, <2>4 DEF Objects
  <2>5. CASE pc \notin {"object", "config", "block", "extra", "enable", "patch"}
    BY <2>1, <2>5 DEF Objects
  <2> QED BY <2>2, <2>3, <2>4, <2>5
<1>13. ExtrasIn(ExtraSelects \ todo) => ExtrasIn(ExtraSelects \ todo)'
  BY <1>1, <1>6 DEF ExtrasIn
<1>14. Blocks'
  <2>1. /\ pc' = pc /\ kept' = kept /\ settled' = settled /\ tree' = tree /\ Blocks
    BY <1>1 DEF IInv, Progress
  <2>2. BlockWhole \/ kept => (BlockWhole \/ kept)'
    BY <1>6, <2>1
  <2>3. CASE pc = "extra"
    <3>1. /\ BlockIn' /\ (BlockWhole \/ kept)' /\ ~tree.kconfig /\ tree.defconfig
          /\ ExtrasIn(ExtraSelects \ todo)'
      BY <1>6, <1>13, <2>1, <2>2, <2>3 DEF Blocks
    <3> QED BY <2>1, <2>3, <3>1 DEF Blocks
  <2>4. CASE pc = "enable"
    <3>1. BlockIn' /\ (BlockWhole \/ kept)' /\ ExtrasIn(ExtraSelects)'
      BY <1>6, <2>1, <2>2, <2>4 DEF Blocks
    <3> QED BY <2>1, <2>4, <3>1 DEF Blocks
  <2>5. CASE pc = "patch"
    <3>1. BlockIn' /\ (BlockWhole \/ kept)' /\ ExtrasIn(ExtraSelects)' /\ BoardOn'
      BY <1>6, <2>1, <2>2, <2>5 DEF Blocks
    <3> QED BY <2>1, <2>5, <3>1 DEF Blocks
  <2>6. CASE pc = "done"
    BY <2>1, <2>2, <2>6 DEF Blocks
  <2>7. CASE pc \notin {"extra", "enable", "patch", "done"}
    BY <2>1, <2>7 DEF Blocks
  <2> QED BY <2>3, <2>4, <2>5, <2>6, <2>7
<1>15. SettledIsComplete'
  BY <1>1, <1>2, CompleteStays DEF SettledIsComplete
<1> QED BY <1>2, <1>7, <1>8, <1>12, <1>14, <1>15 DEF IInv, Progress

----------------------------------------------------------------------------
(* What the script does to a tree that a run has settled: nothing.         *)
LEMMA SettledStays ==
  ASSUME IInv, [Next]_vars, settled, settled'
  PROVE  UNCHANGED result
<1>1. /\ Complete /\ TypeOK
  BY DEF IInv, SettledIsComplete
<1>2. CASE Start
  BY <1>2 DEF Start
<1>3. CASE CopyFile
  <2>1. PICK l \in Lines :
          /\ First(l)
          /\ copied' = copied \/ copied' = [copied EXCEPT ![l] = FindSrc(l)]
    BY <1>3 DEF CopyFile
  <2>2. l \in listed /\ copied \in [Lines -> {"none", "torn"} \cup ToSet(Places)]
    BY <1>1, <1>3, <2>1 DEF CopyFile, IInv, Progress, Copies, First, TypeOK
  <2>3. copied' = copied
    BY <1>1, <2>1, <2>2 DEF Complete, CopiedRight
  <2> QED BY <1>3, <2>3 DEF CopyFile, result
<1>4. CASE Detect
  BY <1>1, <1>4 DEF Detect, result, Complete
<1>5. CASE AddObject
  BY <1>5, AddObjectKeeps DEF AddObject, result, built
<1>6. CASE AddConfig
  BY <1>6, AddConfigKeeps DEF AddConfig, result, built
<1>7. CASE AddBlock
  BY <1>7, AddBlockKeeps DEF AddBlock, result, built
<1>8. CASE AddExtra
  BY <1>8, AddExtraKeeps DEF AddExtra, result, built
<1>9. CASE Enable
  BY <1>9, EnableKeeps DEF Enable, result, built
<1>10. CASE Patch
  <2>1. patched' = patched
    BY <1>1, <1>10 DEF Patch, Complete
  <2> QED BY <1>10, <2>1 DEF Patch, result
<1>11. CASE Kill
  BY <1>11 DEF Kill, result
<1>12. CASE Edit
  BY <1>12 DEF Edit
<1>13. CASE UNCHANGED vars
  BY <1>13 DEF vars
<1> QED BY <1>2, <1>3, <1>4, <1>5, <1>6, <1>7, <1>8, <1>9, <1>10, <1>11, <1>12,
           <1>13 DEF Next, Step

(* What a run has done at each point, what a settled tree has, and what    *)
(* makes the lines of the build files consistent, hold in every state.     *)
THEOREM IntegrateInvariant == Spec => []IInv
<1>1. Init => IInv
  BY InitKeeps
<1>2. IInv /\ [Next]_vars => IInv'
  BY StartKeeps, CopyFileKeeps, DetectKeeps, AddObjectKeeps, AddConfigKeeps,
     AddBlockKeeps, AddExtraKeeps, EnableKeeps, PatchKeeps, KillKeeps, EditKeeps,
     StutterKeeps DEF Next, Step
<1> QED BY <1>1, <1>2, PTL DEF Spec

(* The tree's files hold what the script writes: type correctness.         *)
THEOREM IntegrateTypeCorrect == Spec => []TypeOK
<1>1. IInv => TypeOK
  BY DEF IInv
<1> QED BY <1>1, IntegrateInvariant, PTL

(* No build file holds a line twice, however often the script was run,     *)
(* killed or stopped in between (add_once, add_once_line).                 *)
THEOREM LinesStayOnce == Spec => []EachLineOnce
<1>1. IInv => EachLineOnce
  BY DEF IInv
<1> QED BY <1>1, IntegrateInvariant, PTL

(* A tree that the script left at any point still configures.              *)
THEOREM NothingIsDangling == Spec => []NothingDangling
<1>1. IInv => NothingDangling
  <2> SUFFICES ASSUME IInv PROVE NothingDangling
    OBVIOUS
  <2>1. \A d \in Dirs : \A e \in ToSet(objects[d]) :
          \E l \in Lines : Manifest[l].file = e.text /\ copied[l] # "none"
    BY LineFacts DEF IInv, ObjectsAreCopied
  <2> QED BY <2>1 DEF IInv, SelectsDeclared, EnabledOwned, Owned, NothingDangling
<1> QED BY <1>1, IntegrateInvariant, PTL

(* A run that ends well has done everything, whatever was there before.    *)
THEOREM FinishedRunsAreComplete == Spec => []FinishedIsComplete
<1>1. IInv => FinishedIsComplete
  <2> SUFFICES ASSUME IInv, pc = "done"
               PROVE  /\ \A l \in listed : copied[l] = FindSrc(l) /\ copied[l] # "none"
                      /\ header = Version
                      /\ diffs = "apply" => patched = "yes"
                      /\ \A l \in Registered(listed) :
                           /\ ObjectOf(l) \in ToSet(objects[Manifest[l].dir])
                           /\ \/ Enabled(Manifest[l].sym)
                              \/ ~tree.defconfig \/ kept
    BY DEF FinishedIsComplete, ObjectOf
  <2>1. Complete /\ (BlockWhole \/ kept)
    BY DEF IInv, Progress, Blocks, SettledIsComplete
  <2>2. \A l \in Registered(listed) : ObjectIn(l) /\ Configured(l)
    BY <2>1 DEF Complete, LinesDone
  <2>3. ASSUME NEW l \in Registered(listed), tree.defconfig, ~kept
        PROVE  Enabled(Manifest[l].sym)
    <3>1. CASE tree.kconfig
      <4>1. PICK e \in ToSet(kconfig["arm"]) :
              e.text = ConfigLine(BoardSym) /\ DeviceSyms \subseteq e.names
        BY <2>1, <2>3, <3>1 DEF BlockWhole
      <4>2. Manifest[l].sym \in {BoardSym} \cup e.names
        BY <4>1 DEF DeviceSyms
      <4>3. HasLine(defconfig, EnabledLine(BoardSym))
        BY <2>1, <2>3 DEF Complete, BoardOn
      <4> QED BY <3>1, <4>1, <4>2, <4>3 DEF Enabled
    <3>2. CASE ~tree.kconfig
      BY <2>2, <2>3, <3>2 DEF Configured, Enabled
    <3> QED BY <3>1, <3>2
  <2> QED BY <2>1, <2>2, <2>3 DEF Complete, CopiedRight, ObjectIn
<1> QED BY <1>1, IntegrateInvariant, PTL

(* Once a run has ended well, the script changes nothing until an edit.    *)
THEOREM RunsAreIdempotent == Spec => Idempotent
<1>1. IInv /\ [Next]_vars => [settled /\ settled' => UNCHANGED result]_vars
  BY SettledStays
<1> QED BY <1>1, IntegrateInvariant, PTL DEF Spec, Idempotent

----------------------------------------------------------------------------
(* GF_QEMU_AT_LEAST compares versions as the numbers of the table do.      *)
LEMMA ChosenIsProvided ==
  ASSUME NEW v \in Nat \X (0 .. 99)
  PROVE  Chosen(v) = Provided(v)
<1> DEFINE n == 100 * v[1] + v[2]
<1>0. v[1] \in Nat /\ v[2] \in Nat /\ v[2] <= 99
  OBVIOUS
<1>1. /\ GfAtLeast(v, 2, 12) <=> n >= 212
      /\ GfAtLeast(v, 4, 0) <=> n >= 400
      /\ GfAtLeast(v, 4, 2) <=> n >= 402
      /\ GfAtLeast(v, 5, 0) <=> n >= 500
      /\ GfAtLeast(v, 5, 1) <=> n >= 501
      /\ GfAtLeast(v, 10, 0) <=> n >= 1000
  <2>1. GfAtLeast(v, 2, 12) <=> n >= 212
    BY <1>0 DEF GfAtLeast
  <2>2. GfAtLeast(v, 4, 0) <=> n >= 400
    BY <1>0 DEF GfAtLeast
  <2>3. GfAtLeast(v, 4, 2) <=> n >= 402
    BY <1>0 DEF GfAtLeast
  <2>4. GfAtLeast(v, 5, 0) <=> n >= 500
    BY <1>0 DEF GfAtLeast
  <2>5. GfAtLeast(v, 5, 1) <=> n >= 501
    BY <1>0 DEF GfAtLeast
  <2>6. GfAtLeast(v, 10, 0) <=> n >= 1000
    BY <1>0 DEF GfAtLeast
  <2> QED BY <2>1, <2>2, <2>3, <2>4, <2>5, <2>6
<1> HIDE DEF n
<1> DEFINE Apis == {"cpu_type", "serial_hd", "load_kernel_ms", "machine_ram",
                    "class_set_props", "qdev_realize", "class_init_const"}
<1>2. DOMAIN Since = Apis
  BY DEF Since
<1>3. Provided(v) = {api \in Apis : n >= Since[api]}
  BY <1>2 DEF Provided, n
<1>4. Chosen(v) = (IF GfAtLeast(v, 2, 12) THEN {"cpu_type"} ELSE {})
        \cup (IF GfAtLeast(v, 4, 0) THEN {"serial_hd"} ELSE {})
        \cup (IF GfAtLeast(v, 4, 2) THEN {"load_kernel_ms"} ELSE {})
        \cup (IF GfAtLeast(v, 5, 0) THEN {"machine_ram"} ELSE {})
        \cup (IF GfAtLeast(v, 5, 1) THEN {"class_set_props", "qdev_realize"}
              ELSE {})
        \cup (IF GfAtLeast(v, 10, 0) THEN {"class_init_const"} ELSE {})
  BY DEF Chosen, ChosenCpu, ChosenSerial, ChosenLoader, ChosenRam, ChosenQdev,
         ChosenClassInit
<1>5. ASSUME NEW api \in Apis
      PROVE  api \in Chosen(v) <=> n >= Since[api]
  <2>1. CASE api = "cpu_type"
    BY <1>1, <1>4, <2>1 DEF Since
  <2>2. CASE api = "serial_hd"
    BY <1>1, <1>4, <2>2 DEF Since
  <2>3. CASE api = "load_kernel_ms"
    BY <1>1, <1>4, <2>3 DEF Since
  <2>4. CASE api = "machine_ram"
    BY <1>1, <1>4, <2>4 DEF Since
  <2>5. CASE api = "class_set_props"
    BY <1>1, <1>4, <2>5 DEF Since
  <2>6. CASE api = "qdev_realize"
    BY <1>1, <1>4, <2>6 DEF Since
  <2>7. CASE api = "class_init_const"
    BY <1>1, <1>4, <2>7 DEF Since
  <2> QED BY <2>1, <2>2, <2>3, <2>4, <2>5, <2>6, <2>7
<1>6. Chosen(v) \subseteq Apis
  BY <1>4
<1> QED BY <1>3, <1>5, <1>6

(* A run that ends well wrote the version whose APIs the tree has.         *)
THEOREM RightApisAreChosen == Spec => []RightApis
<1>1. IInv => RightApis
  <2> SUFFICES ASSUME IInv, pc = "done", force = NoVersion
               PROVE  Chosen(header) = Provided(tree.version)
    BY DEF RightApis
  <2>1. header = tree.version
    BY DEF IInv, Progress, Blocks, SettledIsComplete, Complete, Version
  <2>2. tree.version \in Nat \X (0 .. 99)
    BY TreesAssumption DEF IInv, TypeOK
  <2> QED BY <2>1, <2>2, ChosenIsProvided
<1> QED BY <1>1, IntegrateInvariant, PTL

=============================================================================
