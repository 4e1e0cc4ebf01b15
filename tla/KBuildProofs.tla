---------------------------- MODULE KBuildProofs ----------------------------
(***************************************************************************)
(* A finished build is complete, for every set of symbols and objects.     *)
(*                                                                         *)
(* The invariant follows a symbol from the change of its value to the      *)
(* object that names it.  An object that counts as built either saw the    *)
(* value auto.conf has, or the stamp of the symbol is newer than it; and   *)
(* before auto.conf takes a new value, the stamp has been touched.         *)
(***************************************************************************)
EXTENDS KBuild, TLAPS

Saveds == {"n", "m", "y"}
ObjectType ==
  [state : {"none", "fresh", "built"}, seen : UNION {[A -> Saveds] : A \in SUBSET Symbols},
   deps : SUBSET Symbols, newer : SUBSET Symbols, edited : BOOLEAN]
KType ==
  /\ config \in [Symbols -> {"none", "n", "m", "y"}]
  /\ auto \in [Symbols -> Saveds] /\ header \in [Symbols -> Saveds]
  /\ present \in BOOLEAN /\ newer \in BOOLEAN
  /\ mentions \in [Objects -> SUBSET Symbols]
  /\ object \in [Objects -> ObjectType]
  /\ pc \in {"idle", "save", "touch", "header", "build", "done"}

(* The three files agree while auto.conf is up to date. *)
FilesAgree ==
  /\ ~newer => auto = AllSaved /\ header = AllSaved
  /\ pc \in {"save", "touch", "header"} => newer
  /\ pc \in {"build", "done"} => ~newer
  /\ pc = "header" => header = AllSaved

(* The stamps of changed symbols are touched before auto.conf is written. *)
StampsTouched ==
  /\ pc \in {"touch", "header"} =>
       \A s \in Symbols : Changed(config[s], auto[s]) => s \in todo \/ \A o \in Objects : s \in object[o].newer
  /\ pc = "header" => todo = {}

(* What an object saw is in auto.conf, or its stamp is newer. *)
ObjectKnown(o) ==
  /\ object[o].state = "built" /\ ~object[o].edited =>
       /\ object[o].deps = mentions[o] /\ object[o].seen \in [mentions[o] -> Saveds]
       /\ \A s \in mentions[o] : s \in object[o].newer \/ object[o].seen[s] = auto[s]
  /\ object[o].state = "fresh" =>
       /\ pc = "build" /\ o \in todo /\ ~object[o].edited /\ object[o].newer = {}
       /\ object[o].seen = [s \in mentions[o] |-> auto[s]]
ObjectsKnown == \A o \in Objects : ObjectKnown(o)

(* What the build has dealt with is up to date. *)
Dealt ==
  /\ pc = "build" => \A o \in Selected(auto) : o \in todo \/ UpToDate(o)
  /\ pc = "done" => \A o \in Selected(auto) : UpToDate(o)

KInv == KType /\ FilesAgree /\ StampsTouched /\ ObjectsKnown /\ Dealt

-----------------------------------------------------------------------------
(* conf_touch_deps() leaves a stamp alone only if the saved value stays.   *)
LEMMA UnchangedSaved ==
  ASSUME NEW new \in {"none", "n", "m", "y"}, NEW old \in Saveds, ~Changed(new, old)
  PROVE  Saved(new) = old
BY DEF Changed, Saved, Saveds

LEMMA SavedType == KType => AllSaved \in [Symbols -> Saveds]
BY DEF KType, AllSaved, Saved, Saveds

LEMMA KInitInv == KInit => KInv
<1> SUFFICES ASSUME KInit PROVE KInv
  OBVIOUS
<1>1. [s \in {} |-> "n"] \in [{} -> Saveds]
  BY DEF Saveds
<1>2. NoObject \in ObjectType
  <2>1. [s \in {} |-> "n"] \in UNION {[A -> Saveds] : A \in SUBSET Symbols}
    BY <1>1
  <2> QED  BY <2>1 DEF NoObject, ObjectType
<1>3. KType
  BY <1>2 DEF KInit, KType, Saveds
<1>4. FilesAgree /\ StampsTouched /\ Dealt
  BY DEF KInit, FilesAgree, StampsTouched, Dealt
<1>5. ObjectsKnown
  BY DEF KInit, ObjectsKnown, ObjectKnown, NoObject
<1> QED  BY <1>3, <1>4, <1>5 DEF KInv

(* Between two builds. *)
LEMMA ConfigureInv ==
  ASSUME KInv, NEW s \in Symbols, NEW v \in Values[s], Configure(s, v)
  PROVE  KInv'
<1> USE DEF KInv, Configure, Idle
<1>1. KType'
  BY ConfigurationAssumption DEF KType
<1>2. FilesAgree' /\ StampsTouched' /\ Dealt'
  BY DEF FilesAgree, StampsTouched, Dealt, KType
<1>3. ObjectsKnown'
  BY DEF ObjectsKnown, ObjectKnown
<1> QED  BY <1>1, <1>2, <1>3

LEMMA EditInv ==
  ASSUME KInv, NEW o \in Objects, NEW S \in Sources[o], EditSource(o, S)
  PROVE  KInv'
<1> USE DEF KInv, EditSource, Idle
<1>1. S \subseteq Symbols
  BY ConfigurationAssumption
<1>2. /\ object'[o] = [object[o] EXCEPT !.edited = TRUE]
      /\ object'[o] \in ObjectType /\ object'[o].edited = TRUE /\ object'[o].state = object[o].state
  BY DEF KType, ObjectType
<1>3. \A p \in Objects : p # o => object'[p] = object[p] /\ mentions'[p] = mentions[p]
  BY DEF KType
<1>4. KType'
  BY <1>1, <1>2, <1>3 DEF KType
<1>5. FilesAgree' /\ StampsTouched' /\ Dealt'
  BY DEF FilesAgree, StampsTouched, Dealt, KType, AllSaved
<1>6. ObjectsKnown'
  <2> SUFFICES ASSUME NEW p \in Objects PROVE ObjectKnown(p)'
    BY DEF ObjectsKnown
  <2>1. CASE p = o
    BY <2>1, <1>2 DEF ObjectsKnown, ObjectKnown
  <2>2. CASE p # o
    <3>1. ObjectKnown(p) /\ object'[p] = object[p] /\ mentions'[p] = mentions[p]
      BY <2>2, <1>3 DEF ObjectsKnown
    <3> QED  BY <3>1 DEF ObjectKnown
  <2> QED  BY <2>1, <2>2
<1> QED  BY <1>4, <1>5, <1>6

(* The steps of syncconfig. *)
LEMMA MakeInv == ASSUME KInv, Make PROVE KInv'
<1> USE DEF KInv, Make, Idle
<1>1. KType'
  BY DEF KType
<1>2. FilesAgree' /\ StampsTouched'
  BY DEF FilesAgree, StampsTouched, KType, AllSaved
<1>3. Dealt'
  BY DEF Dealt, Selected
<1>4. ObjectsKnown'
  BY DEF ObjectsKnown, ObjectKnown
<1> QED  BY <1>1, <1>2, <1>3, <1>4

LEMMA SaveInv == ASSUME KInv, SaveOld \/ SaveNew PROVE KInv'
<1> USE DEF KInv, SaveOld, SaveNew
<1>1. KType'
  BY DEF KType
<1>2. FilesAgree' /\ Dealt'
  BY DEF FilesAgree, Dealt, AllSaved
<1>3. StampsTouched'
  BY DEF StampsTouched
<1>4. ObjectsKnown'
  BY DEF ObjectsKnown, ObjectKnown
<1> QED  BY <1>1, <1>2, <1>3, <1>4

LEMMA TouchInv == ASSUME KInv, NEW s \in Symbols, conf_touch_dep(s) PROVE KInv'
<1> USE DEF KInv, conf_touch_dep
<1>1. ASSUME NEW o \in Objects
      PROVE  /\ object'[o] = [object[o] EXCEPT !.newer = @ \union {s}]
             /\ object'[o] \in ObjectType
             /\ object'[o].newer = object[o].newer \union {s}
             /\ object'[o].state = object[o].state /\ object'[o].deps = object[o].deps
             /\ object'[o].seen = object[o].seen /\ object'[o].edited = object[o].edited
  BY DEF KType, ObjectType
<1>2. KType'
  BY <1>1 DEF KType
<1>3. FilesAgree' /\ Dealt'
  BY DEF FilesAgree, Dealt, AllSaved
<1>4. StampsTouched'
  BY <1>1 DEF StampsTouched
<1>5. ObjectsKnown'
  BY <1>1 DEF ObjectsKnown, ObjectKnown
<1> QED  BY <1>2, <1>3, <1>4, <1>5

LEMMA HeaderInv == ASSUME KInv, WriteHeader PROVE KInv'
<1> USE DEF KInv, WriteHeader
<1>1. KType'
  BY SavedType DEF KType
<1>2. FilesAgree' /\ StampsTouched' /\ Dealt'
  BY DEF FilesAgree, StampsTouched, Dealt, AllSaved
<1>3. ObjectsKnown'
  BY DEF ObjectsKnown, ObjectKnown
<1> QED  BY <1>1, <1>2, <1>3

LEMMA AutoConfInv == ASSUME KInv, WriteAutoConf PROVE KInv'
<1> USE DEF KInv, WriteAutoConf
<1>1. KType'
  BY SavedType DEF KType
<1>2. FilesAgree' /\ StampsTouched'
  BY DEF FilesAgree, StampsTouched, AllSaved
<1>3. Dealt'
  BY DEF Dealt
<1>4. ASSUME NEW o \in Objects, NEW s \in Symbols, s \notin object[o].newer
      PROVE  auto'[s] = auto[s]
  <2>1. ~Changed(config[s], auto[s])
    BY <1>4 DEF StampsTouched
  <2>2. Saved(config[s]) = auto[s]
    BY <2>1, UnchangedSaved DEF KType
  <2> QED  BY <2>2 DEF AllSaved
<1>5. ASSUME NEW o \in Objects PROVE ObjectKnown(o)'
  <2>1. ObjectKnown(o) /\ mentions[o] \subseteq Symbols
    BY DEF ObjectsKnown, KType
  <2> QED  BY <2>1, <1>4 DEF ObjectKnown
<1> QED  BY <1>1, <1>2, <1>3, <1>5 DEF ObjectsKnown

(* The steps of the build. *)
LEMMA SkipInv == ASSUME KInv, NEW o \in Objects, Skip(o) PROVE KInv'
<1> USE DEF KInv, Skip
<1>1. KType' /\ FilesAgree' /\ StampsTouched'
  BY DEF KType, FilesAgree, StampsTouched, AllSaved
<1>2. Dealt'
  BY DEF Dealt, UpToDate, Selected
<1>3. ObjectsKnown'
  BY DEF ObjectsKnown, ObjectKnown, UpToDate
<1> QED  BY <1>1, <1>2, <1>3

LEMMA CompileInv == ASSUME KInv, NEW o \in Objects, Compile(o) PROVE KInv'
<1> USE DEF KInv, Compile
<1>1. header = auto
  BY DEF FilesAgree
<1>2. mentions[o] \subseteq Symbols /\ [s \in mentions[o] |-> header[s]] \in [mentions[o] -> Saveds]
  BY DEF KType
<1>3. /\ object'[o].state = "fresh" /\ object'[o].seen = [s \in mentions[o] |-> header[s]]
      /\ object'[o].edited = FALSE /\ object'[o].newer = {} /\ object'[o] \in ObjectType
  <2>1. object[o].deps \subseteq Symbols
    BY DEF KType, ObjectType
  <2>2. [s \in mentions[o] |-> header[s]] \in UNION {[A -> Saveds] : A \in SUBSET Symbols}
    BY <1>2
  <2>3. object'[o] = [state |-> "fresh", seen |-> [s \in mentions[o] |-> header[s]],
                      deps |-> object[o].deps, newer |-> {}, edited |-> FALSE]
    BY DEF KType
  <2> QED  BY <2>1, <2>2, <2>3 DEF ObjectType
<1>4. \A p \in Objects : p # o => object'[p] = object[p]
  BY DEF KType
<1>5. KType'
  BY <1>3, <1>4 DEF KType
<1>6. FilesAgree' /\ StampsTouched'
  BY DEF FilesAgree, StampsTouched, AllSaved
<1>7. Dealt'
  BY <1>4 DEF Dealt, UpToDate, Selected
<1>8. ObjectsKnown'
  <2> SUFFICES ASSUME NEW p \in Objects PROVE ObjectKnown(p)'
    BY DEF ObjectsKnown
  <2>1. CASE p = o
    BY <2>1, <1>1, <1>3 DEF ObjectKnown
  <2>2. CASE p # o
    BY <2>2, <1>4 DEF ObjectsKnown, ObjectKnown
  <2> QED  BY <2>1, <2>2
<1> QED  BY <1>5, <1>6, <1>7, <1>8

LEMMA FixDepInv == ASSUME KInv, NEW o \in Objects, FixDep(o) PROVE KInv'
<1> USE DEF KInv, FixDep
<1>1. mentions[o] \subseteq Symbols /\ [s \in mentions[o] |-> auto[s]] \in [mentions[o] -> Saveds]
  BY DEF KType
<1>2. /\ object'[o].state = "built" /\ object'[o].deps = mentions[o]
      /\ object'[o].seen = object[o].seen /\ object'[o].newer = object[o].newer
      /\ object'[o].edited = object[o].edited /\ object'[o] \in ObjectType
  <2>1. object[o] \in ObjectType
    BY DEF KType
  <2>2. object'[o] = [state |-> "built", seen |-> object[o].seen, deps |-> mentions[o],
                      newer |-> object[o].newer, edited |-> object[o].edited]
    BY DEF KType
  <2> QED  BY <1>1, <2>1, <2>2 DEF ObjectType
<1>3. \A p \in Objects : p # o => object'[p] = object[p]
  BY DEF KType
<1>4. KType'
  BY <1>2, <1>3 DEF KType
<1>5. FilesAgree' /\ StampsTouched'
  BY DEF FilesAgree, StampsTouched, AllSaved
<1>6. ObjectsKnown'
  <2> SUFFICES ASSUME NEW p \in Objects PROVE ObjectKnown(p)'
    BY DEF ObjectsKnown
  <2>1. CASE p = o
    <3>1. object[o].seen = [s \in mentions[o] |-> auto[s]]
      BY DEF ObjectsKnown, ObjectKnown
    <3> QED  BY <2>1, <3>1, <1>1, <1>2 DEF ObjectKnown
  <2>2. CASE p # o
    <3>1. ObjectKnown(p) /\ object'[p] = object[p]
      BY <2>2, <1>3 DEF ObjectsKnown
    <3> QED  BY <2>2, <3>1 DEF ObjectKnown
  <2> QED  BY <2>1, <2>2
<1>7. UpToDate(o)'
  <2>1. ~object[o].edited /\ object[o].newer = {}
    BY DEF ObjectsKnown, ObjectKnown
  <2> QED  BY <2>1, <1>2 DEF UpToDate
<1>8. Dealt'
  <2> SUFFICES ASSUME NEW p \in Selected(auto) PROVE p \in todo' \/ UpToDate(p)'
    BY DEF Dealt
  <2>1. p \in Objects /\ (p \in todo \/ UpToDate(p))
    BY DEF Dealt, Selected
  <2> QED  BY <2>1, <1>3, <1>7 DEF UpToDate
<1> QED  BY <1>4, <1>5, <1>6, <1>8

LEMMA DoneInv == ASSUME KInv, Done PROVE KInv'
<1> USE DEF KInv, Done
<1>1. KType' /\ FilesAgree' /\ StampsTouched'
  BY DEF KType, FilesAgree, StampsTouched, AllSaved
<1>2. Dealt'
  BY DEF Dealt, UpToDate, Selected
<1>3. ObjectsKnown'
  BY DEF ObjectsKnown, ObjectKnown
<1> QED  BY <1>1, <1>2, <1>3

(* An interruption, at any step. *)
LEMMA InterruptInv == ASSUME KInv, Interrupt PROVE KInv'
<1> USE DEF KInv, Interrupt, Idle
<1>1. ASSUME NEW o \in Objects
      PROVE  /\ object'[o] \in ObjectType
             /\ object[o].state = "fresh" => object'[o].state = "none"
             /\ object[o].state # "fresh" => object'[o] = object[o]
  BY DEF KType, ObjectType
<1>2. KType'
  BY <1>1 DEF KType
<1>3. FilesAgree' /\ StampsTouched' /\ Dealt'
  BY DEF FilesAgree, StampsTouched, Dealt, AllSaved
<1>4. ObjectsKnown'
  BY <1>1 DEF ObjectsKnown, ObjectKnown
<1> QED  BY <1>2, <1>3, <1>4

LEMMA KNextInv == KInv /\ [KNext]_kvars => KInv'
<1> SUFFICES ASSUME KInv, [KNext]_kvars PROVE KInv'
  OBVIOUS
<1>1. CASE \E s \in Symbols : \E v \in Values[s] : Configure(s, v)
  BY <1>1, ConfigureInv
<1>2. CASE \E o \in Objects : \E S \in Sources[o] : EditSource(o, S)
  BY <1>2, EditInv
<1>3. CASE Make \/ SaveOld \/ SaveNew \/ WriteHeader \/ WriteAutoConf \/ Done \/ Interrupt
  BY <1>3, MakeInv, SaveInv, HeaderInv, AutoConfInv, DoneInv, InterruptInv
<1>4. CASE \E s \in Symbols : conf_touch_dep(s)
  BY <1>4, TouchInv
<1>5. CASE \E o \in Objects : Skip(o) \/ Compile(o) \/ FixDep(o)
  BY <1>5, SkipInv, CompileInv, FixDepInv
<1>6. CASE UNCHANGED kvars
  BY <1>6 DEF kvars, KInv, KType, FilesAgree, AllSaved, StampsTouched, ObjectsKnown, ObjectKnown, Dealt, Selected, UpToDate
<1> QED  BY <1>1, <1>2, <1>3, <1>4, <1>5, <1>6 DEF KNext

(* Whatever is configured, edited and interrupted in between, a build that *)
(* ends has every selected object as a build from nothing would make it:   *)
(* syncconfig, the stamps and fixdep together miss no change.              *)
THEOREM BuildComplete == KSpec => []RebuildComplete
<1>1. KInv => RebuildComplete
  <2> SUFFICES ASSUME KInv, pc = "done", NEW o \in Selected(AllSaved)
               PROVE  object[o].state = "built" /\ object[o].seen = [s \in mentions[o] |-> Saved(config[s])]
    BY DEF RebuildComplete
  <2>1. auto = AllSaved /\ o \in Objects
    BY DEF KInv, FilesAgree, Selected
  <2>2. UpToDate(o) /\ ObjectKnown(o)
    BY <2>1 DEF KInv, Dealt, ObjectsKnown
  <2>3. object[o].seen \in [mentions[o] -> Saveds] /\ \A s \in mentions[o] : object[o].seen[s] = auto[s]
    BY <2>2 DEF UpToDate, ObjectKnown
  <2>4. \A s \in mentions[o] : auto[s] = Saved(config[s])
    BY <2>1 DEF KInv, KType, AllSaved
  <2> QED  BY <2>2, <2>3, <2>4 DEF UpToDate
<1> QED  BY <1>1, KInitInv, KNextInv, PTL DEF KSpec
=============================================================================
