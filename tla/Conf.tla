-------------------------------- MODULE Conf --------------------------------
(***************************************************************************)
(* scripts/kconfig/conf.c: the configurator that asks line by line, or not *)
(* at all, as "make oldconfig" or "make defconfig" run it.  It shares the  *)
(* Kconfig, its values and the files with Session; screens holds what      *)
(* conf() and check_conf() have still to visit, the next entry first.      *)
(* Symbols are boolean or tristate.                                        *)
(***************************************************************************)
EXTENDS Session

CONSTANTS ConfParsed, ConfFiles   \* as Parsed and FirstFiles; the files are ".config" and "other"

VARIABLES mode,      \* input_mode
          rootEntry, \* the menu conf() is in
          conf_cnt,  \* restarts in this round of check_conf()
          quiet,     \* KCONFIG_NOSILENTUPDATE
          asked,     \* the symbols asked for or listed (history)
          first,     \* mode and user values at the start (history)
          before     \* the symbols with a value when the round began (history)

cvars == <<mode, rootEntry, conf_cnt, quiet, asked, first, before>>

Asking == {"oldaskconfig", "oldconfig", "syncconfig", "listnewconfig"}
All == [allnoconfig |-> S!no, allmodconfig |-> S!mod, allyesconfig |-> S!yes]
Modes == Asking \union DOMAIN All \union {"alldefconfig", "randconfig", "defconfig", "savedefconfig", "olddefconfig"}

Frame(at, m) == [at |-> at, menu |-> m]
Below(at, m) == [i \in DOMAIN Children(T, m) |-> Frame(at, Children(T, m)[i])]

(* conf_set_all_new_symbols() for the remaining modes.  A choice that is   *)
(* not on keeps the random values of its members.                          *)
NewDefaults(u) == [u EXCEPT !.has = IF K.choice = "none" THEN @ ELSE @ \union {K.choice}]
RandomValues(u) ==
  LET free == DOMAIN K.sym \ (u.has \union {K.choice})
  IN {[u EXCEPT !.has = DOMAIN K.sym \ {K.choice},
                !.tri = [s \in DOMAIN @ |-> IF s \in y THEN S!yes ELSE IF s \in m THEN S!mod ELSE IF s \in free THEN S!no ELSE @[s]]] :
        y \in SUBSET free, m \in SUBSET {s \in free : K.sym[s].type = "tristate"}}
RandomChoice(u, st) ==
  IF K.choice = "none" \/ K.choice \in u.has \/ st.env[K.choice] # S!yes THEN {u}
  ELSE {[u EXCEPT !.has = @ \union {K.choice}, !.pick = m,
                  !.tri = [s \in DOMAIN @ |-> IF S!is_member(K, s) THEN (IF s = m THEN S!yes ELSE S!no) ELSE @[s]]] :
          m \in Range(K.members)}
randomize(u) == UNION {RandomChoice(r, CalcValues(r)) : r \in RandomValues(u)}

(* main(), up to the questions: the user values each mode begins with, and *)
(* the first entries to visit.  Without KCONFIG_ALLCONFIG, or with a file  *)
(* to begin with.                                                          *)
ReadOrNot(file) == IF file = Missing THEN S!NoValues(K) ELSE Read(file)
Seeds(file) == {S!NoValues(K)} \union (IF file = Missing THEN {} ELSE {S!conf_read_simple(K, file)})
Begun(m) ==
  CASE m \in DOMAIN All -> {S!conf_set_all_new_symbols(K, u, All[m]) : u \in Seeds(disk["other"])}
    [] m = "alldefconfig" -> {NewDefaults(u) : u \in Seeds(disk["other"])}
    [] m = "randconfig" -> UNION {randomize(u) : u \in Seeds(disk["other"])}
    [] m = "defconfig" -> {NewDefaults(ReadOrNot(disk["other"]))}
    [] OTHER -> {ReadOrNot(disk[".config"])}
NotFound(m) == (m = "syncconfig" /\ disk[".config"] = Missing) \/ (m = "defconfig" /\ disk["other"] = Missing)
ReadChanged(file) ==
  file = Missing \/ S!Unsaved(K, S!conf_read_simple(K, file), CalcValues(S!conf_read_simple(K, file)))
Refused(m) == NotFound(m) \/ (m = "syncconfig" /\ quiet /\ changed)
ConfInit ==
  /\ \E p \in ConfParsed : K = p[1] /\ T = p[2]
  /\ front = "conf" /\ disk \in ConfFiles /\ mode \in Modes /\ quiet \in {FALSE, mode = "syncconfig"}
  /\ user \in Begun(mode) /\ vals = CalcValues(user)
  /\ changed = (mode \in Asking \union {"olddefconfig", "savedefconfig"} /\ ReadChanged(disk[".config"]))
  /\ blank = FALSE /\ filename = ".config" /\ all = FALSE /\ lost = FALSE /\ ops = 0
  /\ outcome = (IF Refused(mode) THEN "not saved" ELSE "none")
  /\ screens = (IF Refused(mode) \/ mode \notin Asking THEN <<>>
                ELSE <<Frame(IF mode = "oldaskconfig" THEN "conf" ELSE "check", Root)>>)
  /\ rootEntry = Root /\ conf_cnt = 0 /\ asked = <<>> /\ before = user.has
  /\ first = [mode |-> mode, user |-> user]

-----------------------------------------------------------------------------
Visiting(at) == front = "conf" /\ On(at)
Looked(nodes) == Marked(user, Now, nodes)
Kept == UNCHANGED <<K, T, front, changed, blank, disk, filename, all, outcome, lost, ops, quiet, first, before>>
Visit(frames) == screens' = frames \o Tail(screens)
Ask(s) == asked' = Append(asked, s)
NotAsked == UNCHANGED <<vals, asked>>

(* check_conf(): a new symbol that can be set restarts the questions of    *)
(* its menu, or is listed.                                                 *)
New(u, m) ==
  /\ SymOf(m) # "none" /\ SymOf(m) \notin u.has
  /\ sym_is_changable(Now, m) \/ (is_choice(m) /\ vals.env[SymOf(m)] = S!yes)
Skip ==
  /\ Visiting("check") \/ Visiting("conf")
  /\ ~Visible(Now, Top.menu) /\ Visit(<<>>)
  /\ NotAsked /\ Kept /\ UNCHANGED <<user, mode, rootEntry, conf_cnt>>
CheckKnown ==
  /\ Visiting("check") /\ Visible(Now, Top.menu)
  /\ ~New(Looked({Top.menu}), Top.menu)
  /\ Visit(Below("check", Top.menu)) /\ user' = Looked({Top.menu})
  /\ NotAsked /\ Kept /\ UNCHANGED <<mode, rootEntry, conf_cnt>>
ListNew ==
  /\ Visiting("check") /\ Visible(Now, Top.menu) /\ mode = "listnewconfig"
  /\ New(Looked({Top.menu}), Top.menu)
  /\ IF is_choice(Top.menu) THEN UNCHANGED asked ELSE Ask(SymOf(Top.menu))
  /\ Visit(Below("check", Top.menu)) /\ user' = Looked({Top.menu})
  /\ Kept /\ UNCHANGED <<vals, mode, rootEntry, conf_cnt>>
Restart ==
  /\ Visiting("check") /\ Visible(Now, Top.menu) /\ mode # "listnewconfig"
  /\ New(Looked({Top.menu}), Top.menu)
  /\ conf_cnt' = conf_cnt + 1 /\ rootEntry' = menu_get_parent_menu(T, Top.menu)
  /\ Visit(<<Frame("conf", rootEntry')>> \o Below("check", Top.menu)) /\ user' = Looked({Top.menu})
  /\ NotAsked /\ Kept /\ UNCHANGED mode

(* conf(): another menu is only checked, unless all are asked for. *)
OtherMenu(m) == T.node[m].prompt = "menu" /\ mode # "oldaskconfig" /\ rootEntry # m
ConfMenu ==
  /\ Visiting("conf") /\ Visible(Now, Top.menu) /\ OtherMenu(Top.menu)
  /\ Visit(<<Frame("check", Top.menu)>>) /\ user' = Looked({Top.menu})
  /\ NotAsked /\ Kept /\ UNCHANGED <<mode, rootEntry, conf_cnt>>

(* conf_sym() with conf_askvalue(): a value that is not accepted is asked  *)
(* for again, the end of the input stands for the value there is.          *)
Known(u, s) == mode # "oldaskconfig" /\ s \in u.has
Asks(u, m) == SymOf(m) # "none" /\ ~is_choice(m) /\ sym_is_changable(Now, m) /\ ~Known(u, SymOf(m))
InConf(m) == Visiting("conf") /\ Visible(Now, m) /\ ~OtherMenu(m)
ConfEntry ==
  /\ InConf(Top.menu) /\ ~is_choice(Top.menu) /\ ~Asks(Looked({Top.menu}), Top.menu)
  /\ Visit(Below("conf", Top.menu)) /\ user' = Looked({Top.menu})
  /\ NotAsked /\ Kept /\ UNCHANGED <<mode, rootEntry, conf_cnt>>
Given(u) == user' = u /\ vals' = CalcValues(u)
conf_sym ==
  /\ InConf(Top.menu) /\ Asks(Looked({Top.menu}), Top.menu)
  /\ \E val \in S!Tristate :
       /\ S!CanSet(K, SymOf(Top.menu), vals, val, S!yes)
       /\ Given(S!sym_set_tristate_value(K, Looked({Top.menu}), SymOf(Top.menu), vals, val))
  /\ Ask(SymOf(Top.menu)) /\ Visit(Below("conf", Top.menu))
  /\ Kept /\ UNCHANGED <<mode, rootEntry, conf_cnt>>

(* conf_choice(), for a choice that cannot be changed itself: it is passed *)
(* over when it is off; with one visible member, or when the choice is not *)
(* new, that member or the one there is is set; else a number is asked for.*)
Members(m) == SelectSeq(Children(T, m), LAMBDA c : SymOf(c) # "none" /\ Visible(Now, c))
AllLooked(m) == Looked({m} \union Range(Children(T, m)))
ChoiceOff ==
  /\ InConf(Top.menu) /\ is_choice(Top.menu) /\ vals.env[SymOf(Top.menu)] # S!yes
  /\ Visit(<<>>) /\ user' = Looked({Top.menu})
  /\ NotAsked /\ Kept /\ UNCHANGED <<mode, rootEntry, conf_cnt>>
Settled(m) == Len(Members(m)) = 1 \/ Known(Looked({m}), SymOf(m))
sym_set_choice_value(m, c) ==
  /\ Given(S!sym_set_tristate_value(K, AllLooked(m), SymOf(c), vals, S!yes))
  /\ Visit(Below("conf", c))
ChoiceSettled ==
  /\ InConf(Top.menu) /\ is_choice(Top.menu) /\ vals.env[SymOf(Top.menu)] = S!yes /\ Settled(Top.menu)
  /\ \E c \in Range(Members(Top.menu)) :
       (Len(Members(Top.menu)) = 1 \/ SymOf(c) = vals.pick) /\ sym_set_choice_value(Top.menu, c)
  /\ Kept /\ UNCHANGED <<mode, rootEntry, conf_cnt, asked>>
conf_choice ==
  /\ InConf(Top.menu) /\ is_choice(Top.menu) /\ vals.env[SymOf(Top.menu)] = S!yes /\ ~Settled(Top.menu)
  /\ \E c \in Range(Members(Top.menu)) : sym_set_choice_value(Top.menu, c)
  /\ Ask(SymOf(Top.menu)) /\ Kept /\ UNCHANGED <<mode, rootEntry, conf_cnt>>

(* main(), after a round: another one follows if questions were restarted, *)
(* or all have been asked; else the configuration is written.              *)
RoundOver == front = "conf" /\ outcome = "none" /\ screens = <<>>
Again ==
  /\ RoundOver /\ (conf_cnt > 0 \/ mode = "oldaskconfig")
  /\ mode' = IF mode = "oldaskconfig" THEN "oldconfig" ELSE mode
  /\ conf_cnt' = 0 /\ before' = user.has /\ screens' = <<Frame("check", Root)>>
  /\ UNCHANGED <<K, T, front, user, vals, changed, blank, disk, filename, all, outcome, lost, ops, rootEntry, quiet, asked, first>>
Writes(file, what) ==
  \/ disk' = [disk EXCEPT ![file] = what] /\ outcome' = "end" /\ UNCHANGED lost
  \/ disk' \in {disk, [disk EXCEPT ![file] = Missing]} /\ outcome' = "not saved" /\ lost' = TRUE
conf_finish ==
  /\ RoundOver /\ conf_cnt = 0 /\ mode # "oldaskconfig"
  /\ CASE mode = "savedefconfig" -> Writes("other", S!conf_write_defconfig(K, vals, S!yes))
       [] mode = "listnewconfig" \/ (mode = "syncconfig" /\ quiet) -> outcome' = "end" /\ UNCHANGED <<disk, lost>>
       [] OTHER -> Writes(".config", S!conf_write(K, vals, S!yes))
  /\ UNCHANGED <<K, T, front, user, vals, changed, blank, filename, all, screens, ops, cvars>>

ConfNext ==
  \/ (Skip \/ CheckKnown \/ ListNew \/ Restart \/ ConfMenu \/ ConfEntry \/ conf_sym
      \/ ChoiceOff \/ ChoiceSettled \/ conf_choice \/ Again \/ conf_finish)
  \/ front = "conf" /\ Exited /\ UNCHANGED cvars

-----------------------------------------------------------------------------
(* When conf ends after questions no visible symbol is left without a      *)
(* value; no symbol is asked for twice, nor, but by oldaskconfig, one the  *)
(* file had a value for; a round that restarts questions gives some symbol *)
(* a value, so that the rounds come to an end; and a value that is in the  *)
(* file and not asked for stays, but for the members of a choice.          *)
QuestionsRight ==
  /\ outcome = "end" /\ mode \in {"oldconfig", "syncconfig"} => \A m \in 2 .. T.n : Visible(Now, m) => ~New(user, m)
  /\ IsInjective(asked)
  /\ first.mode # "oldaskconfig" => Range(asked) \intersect first.user.has = {}
  /\ RoundOver /\ conf_cnt > 0 => user.has # before
  /\ mode \in Asking => \A s \in first.user.has \ (Range(asked) \union {K.choice} \union Range(K.members)) : user.tri[s] = first.user.tri[s] /\ s \in user.has

(* listnewconfig lists what oldconfig would begin to ask for. *)
ListRight ==
  outcome = "end" /\ mode = "listnewconfig" =>
    Range(asked) = {SymOf(m) : m \in {n \in 2 .. T.n : Visible(Now, n) /\ ~is_choice(n) /\ New(first.user, n)}}

(* What was written gives the same values when it is read again. *)
WrittenRight ==
  outcome = "end" /\ S!Expressible(K, vals, S!yes) =>
    CASE mode = "savedefconfig" -> S!Same(vals, CalcValues(Read(disk["other"])))
      [] mode = "listnewconfig" \/ (mode = "syncconfig" /\ quiet) -> TRUE
      [] OTHER -> S!Same(vals, CalcValues(Read(disk[".config"])))

ConfHolds == front = "conf" => QuestionsRight /\ ListRight /\ WrittenRight
=============================================================================
