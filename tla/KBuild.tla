------------------------------- MODULE KBuild -------------------------------
(***************************************************************************)
(* What is rebuilt when the configuration changes: syncconfig              *)
(* (scripts/kconfig/conf.c, confdata.c), the stamps include/config/*.h,    *)
(* fixdep, and make's decisions (Makefile, Kbuild.include).      *)
(*                                                                         *)
(* Modification times are kept as the comparisons make does: whether       *)
(* .config is newer than auto.conf, and which stamps are newer than an     *)
(* object.  A symbol has no value in .config when it is not visible.       *)
(***************************************************************************)
EXTENDS Naturals, Sequences

CONSTANTS
  Symbols, Values,   \* Values[s]: the values of s
  Objects,
  Gate,              \* Gate[o]: the symbols that select o, obj-$(CONFIG_...)
  Sources            \* Sources[o]: what the files of o may come to mention

ASSUME ConfigurationAssumption ==
  /\ \A o \in Objects : Gate[o] \subseteq Symbols /\ Sources[o] \subseteq SUBSET Symbols
  /\ \A s \in Symbols : Values[s] \subseteq {"none", "n", "m", "y"}

VARIABLES
  config,     \* .config: the values the configurator computes from it
  present,    \* there is a .config
  newer,      \* .config is newer than auto.conf, or there is no auto.conf
  auto,       \* auto.conf: "n" for a symbol that is not in it
  header,     \* autoconf.h, likewise
  mentions,   \* mentions[o]: the symbols named in the files o is compiled from
  object,     \* object[o]: the object file, with its .cmd file
  pc, todo

kvars == <<config, present, newer, auto, header, mentions, object, pc, todo>>

Saved(v) == IF v \in {"m", "y"} THEN v ELSE "n"
AllSaved == [s \in Symbols |-> Saved(config[s])]
NoObject == [state |-> "none", seen |-> [s \in {} |-> "n"], deps |-> {}, newer |-> {}, edited |-> FALSE]

KInit ==
  /\ config = [s \in Symbols |-> "n"] /\ present = TRUE /\ newer = TRUE
  /\ auto = [s \in Symbols |-> "n"] /\ header = [s \in Symbols |-> "n"]
  /\ mentions = [o \in Objects |-> {}]
  /\ object = [o \in Objects |-> NoObject]
  /\ pc = "idle" /\ todo = {}

(* conf_touch_deps(): whether the stamp of a symbol is touched. *)
Changed_kept(new, old) == new # "none" /\ new # old
Changed(new, old) ==
  \/ new # "none" /\ old # "n" /\ new # old
  \/ new # "none" /\ old = "n" /\ new # "n"
  \/ new = "none" /\ old # "n"

(* The user saves a configuration or edits a file, between two builds. *)
Idle == pc \in {"idle", "done"}
Configure(s, v) ==
  /\ Idle
  /\ config' = [config EXCEPT ![s] = v] /\ present' = TRUE /\ newer' = TRUE /\ pc' = "idle"
  /\ UNCHANGED <<auto, header, mentions, object, todo>>
EditSource(o, S) ==
  /\ Idle
  /\ mentions' = [mentions EXCEPT ![o] = S] /\ object' = [object EXCEPT ![o].edited = TRUE] /\ pc' = "idle"
  /\ UNCHANGED <<config, present, newer, auto, header, todo>>

(* make: auto.conf is remade before anything else if .config is newer. *)
Selected(values) == {o \in Objects : \A s \in Gate[o] : values[s] # "n"}
Make ==
  /\ Idle /\ present
  /\ IF newer THEN pc' = "save" /\ todo' = {} ELSE pc' = "build" /\ todo' = Selected(auto)
  /\ UNCHANGED <<config, present, newer, auto, header, mentions, object>>

(* conf_write(): .config becomes .config.old, then the new file .config. *)
SaveOld ==
  /\ pc = "save" /\ present
  /\ present' = FALSE
  /\ UNCHANGED <<config, newer, auto, header, mentions, object, pc, todo>>
SaveNew ==
  /\ pc = "save" /\ ~present
  /\ present' = TRUE /\ newer' = TRUE /\ pc' = "touch" /\ todo' = {s \in Symbols : Changed(config[s], auto[s])}
  /\ UNCHANGED <<config, auto, header, mentions, object>>

(* conf_write_autoconf(): the stamps one by one, the header, and auto.conf *)
(* as the last step.                                                       *)
conf_touch_dep(s) ==
  /\ pc = "touch" /\ s \in todo
  /\ object' = [o \in Objects |-> [object[o] EXCEPT !.newer = @ \union {s}]]
  /\ todo' = todo \ {s}
  /\ UNCHANGED <<config, present, newer, auto, header, mentions, pc>>
WriteHeader ==
  /\ pc = "touch" /\ todo = {}
  /\ header' = AllSaved /\ pc' = "header"
  /\ UNCHANGED <<config, present, newer, auto, mentions, object, todo>>
WriteAutoConf ==
  /\ pc = "header"
  /\ auto' = AllSaved /\ newer' = FALSE /\ pc' = "build" /\ todo' = Selected(AllSaved)
  /\ UNCHANGED <<config, present, header, mentions, object>>

(* if_changed_dep: the compiler writes the object, then fixdep its .cmd.   *)
UpToDate(o) == object[o].state = "built" /\ ~object[o].edited /\ object[o].newer \intersect object[o].deps = {}
Skip(o) ==
  /\ pc = "build" /\ o \in todo /\ UpToDate(o)
  /\ todo' = todo \ {o}
  /\ UNCHANGED <<config, present, newer, auto, header, mentions, object, pc>>
Compile(o) ==
  /\ pc = "build" /\ o \in todo /\ object[o].state # "fresh" /\ ~UpToDate(o)
  /\ object' = [object EXCEPT ![o] = [state |-> "fresh", seen |-> [s \in mentions[o] |-> header[s]],
                                      deps |-> @.deps, newer |-> {}, edited |-> FALSE]]
  /\ UNCHANGED <<config, present, newer, auto, header, mentions, pc, todo>>
FixDep(o) ==
  /\ pc = "build" /\ o \in todo /\ object[o].state = "fresh"
  /\ object' = [object EXCEPT ![o] = [state |-> "built", seen |-> @.seen, deps |-> mentions[o],
                                      newer |-> @.newer, edited |-> @.edited]]
  /\ todo' = todo \ {o}
  /\ UNCHANGED <<config, present, newer, auto, header, mentions, pc>>
Done ==
  /\ pc = "build" /\ todo = {} /\ pc' = "done"
  /\ UNCHANGED <<config, present, newer, auto, header, mentions, object, todo>>

(* The build is interrupted, or a step of it fails: make removes the       *)
(* object whose rule did not finish, and its .cmd stays as it was.         *)
Interrupt ==
  /\ ~Idle
  /\ object' = [o \in Objects |-> IF object[o].state = "fresh" THEN [object[o] EXCEPT !.state = "none"] ELSE object[o]]
  /\ pc' = "idle" /\ todo' = {}
  /\ UNCHANGED <<config, present, newer, auto, header, mentions>>

KNext ==
  \/ \E s \in Symbols : \E v \in Values[s] : Configure(s, v)
  \/ \E o \in Objects : \E S \in Sources[o] : EditSource(o, S)
  \/ Make \/ SaveOld \/ SaveNew \/ WriteHeader \/ WriteAutoConf \/ Done \/ Interrupt
  \/ \E s \in Symbols : conf_touch_dep(s)
  \/ \E o \in Objects : Skip(o) \/ Compile(o) \/ FixDep(o)

KSpec == KInit /\ [][KNext]_kvars

(* After a build that ran to its end, every selected object is what        *)
(* compiling it now, from the present configuration, would give.           *)
RebuildComplete ==
  pc = "done" => \A o \in Selected(AllSaved) :
    object[o].state = "built" /\ object[o].seen = [s \in mentions[o] |-> Saved(config[s])]
=============================================================================
