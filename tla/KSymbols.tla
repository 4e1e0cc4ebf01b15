------------------------------ MODULE KSymbols ------------------------------
(***************************************************************************)
(* The values of configuration symbols, and what saving and loading a      *)
(* configuration does to them: scripts/kconfig/symbol.c and confdata.c.    *)
(*                                                                         *)
(* A Kconfig k has its symbols in k.order, each after those it depends on. *)
(* k.sym[s] has the type of s, the condition of its prompt ("n": none),    *)
(* its direct dependencies, the conditions under which it is selected and  *)
(* implied, and its defaults.  k.choice is the choice symbol, if any, of   *)
(* the values k.members, with the defaults k.preferred; a choice and its   *)
(* members are boolean, and it is not optional, so that its value does not *)
(* depend on whether it keeps SYMBOL_DEF_USER.  The user values u are      *)
(* those of the symbols in u.has, and u.pick for the choice.  mods is the  *)
(* value of MODULES.                                                       *)
(***************************************************************************)
EXTENDS KExpr, SequencesExt

NoValues(k) == [has |-> {}, tri |-> [s \in DOMAIN k.sym |-> no], pick |-> "none"]
is_member(k, s) == s \in Range(k.members)

(* A type that has no m. *)
Boolean(k, s, visible, mods) ==
  k.sym[s].type = "bool" \/ mods = no \/ (is_member(k, s) /\ visible = yes)
Raised(tri, boolean) == IF tri = mod /\ boolean THEN yes ELSE tri

(* sym_calc_visibility().  The members of a choice are selected and       *)
(* implied by nothing.                                                     *)
Conditions(k, s, env, mods, visible, dir_dep) ==
  LET strength(e) == Raised(Value(e, env, mods), Boolean(k, s, visible, mods))
  IN [visible |-> visible, dir_dep |-> Raised(dir_dep, Boolean(k, s, visible, mods)),
      rev_dep |-> IF is_member(k, s) THEN no ELSE strength(k.sym[s].rev_dep),
      implied |-> IF is_member(k, s) \/ dir_dep = no THEN no ELSE strength(k.sym[s].implied)]
sym_calc_visibility(k, s, env, mods) ==
  Conditions(k, s, env, mods,
             Raised(Value(k.sym[s].prompt, env, mods), k.sym[s].type # "tristate" \/ mods = no),
             Value(k.sym[s].dir_dep, env, mods))

(* sym_get_default_prop(): the first default whose condition holds. *)
RECURSIVE Default(_, _, _)
Default(defaults, env, mods) ==
  IF defaults = <<>> THEN no
  ELSE IF Value(Head(defaults)[2], env, mods) # no
  THEN EXPR_AND(Value(Head(defaults)[1], env, mods), Value(Head(defaults)[2], env, mods))
  ELSE Default(Tail(defaults), env, mods)

(* sym_choice_default(), sym_calc_choice() *)
Shown(k, env, mods) == SelectSeq(k.members, LAMBDA s : sym_calc_visibility(k, s, env, mods).visible # no)
FirstOf(seq) == IF seq = <<>> THEN "none" ELSE seq[1]
Preferred(k, env, mods) ==
  SelectSeq([i \in DOMAIN k.preferred |-> IF Value(k.preferred[i][2], env, mods) # no THEN k.preferred[i][1] ELSE "none"],
            LAMBDA s : s # "none")
sym_choice_default(k, shown, preferred) ==
  FirstOf(SelectSeq(preferred, LAMBDA s : s \in Range(shown)) \o shown)
sym_calc_choice(k, u, env, mods) ==
  IF u.pick \in Range(Shown(k, env, mods)) THEN u.pick
  ELSE sym_choice_default(k, Shown(k, env, mods), Preferred(k, env, mods))

(* sym_calc_value(): the value of s, and whether it is saved. *)
Computed(tri, write) == [tri |-> tri, write |-> write]
Selected(k, s, c, mods, v) ==
  Computed(Raised(EXPR_OR(v.tri, c.rev_dep), Boolean(k, s, c.visible, mods) \/ c.implied = yes), v.write)
ByDefault(k, s, c, default) ==
  IF s = k.choice THEN Computed(no, c.visible # no \/ c.rev_dep # no)
  ELSE Computed(EXPR_OR(default, c.implied), c.visible # no \/ c.rev_dep # no \/ default # no \/ c.implied # no)
NewValue(k, u, st, s, mods, c) ==
  IF is_member(k, s) /\ c.visible = yes THEN Computed(IF st.pick = s THEN yes ELSE no, TRUE)
  ELSE IF c.visible # no /\ s \in u.has
  THEN Selected(k, s, c, mods, Computed(EXPR_AND(u.tri[s], c.visible), TRUE))
  ELSE Selected(k, s, c, mods, ByDefault(k, s, c, Default(k.sym[s].defaults, st.env, mods)))

(* All symbols, in their order: their values, conditions, and which are    *)
(* saved.                                                                  *)
Picked(k, st, pick) == [st EXCEPT !.pick = pick, !.env[k.choice] = IF pick = "none" THEN no ELSE yes]
Chosen(k, u, st, s, mods) ==
  IF s = k.choice /\ st.env[s] = yes THEN Picked(k, st, sym_calc_choice(k, u, st.env, mods)) ELSE st
Stored(st, s, c, v) ==
  [st EXCEPT !.env = @ @@ (s :> v.tri), !.cond = @ @@ (s :> c), !.write = IF v.write THEN @ \union {s} ELSE @]
Calc(k, u, st, s, mods, c) == Chosen(k, u, Stored(st, s, c, NewValue(k, u, st, s, mods, c)), s, mods)
RECURSIVE CalcFrom(_, _, _, _, _)
CalcFrom(k, u, i, st, mods) ==
  IF i > Len(k.order) THEN st
  ELSE CalcFrom(k, u, i + 1, Calc(k, u, st, k.order[i], mods, sym_calc_visibility(k, k.order[i], st.env, mods)), mods)
CalcAll(k, u, mods) == CalcFrom(k, u, 1, [env |-> <<>>, cond |-> <<>>, write |-> {}, pick |-> "none"], mods)

(* sym_tristate_within_range(), sym_set_tristate_value() *)
sym_tristate_within_range(k, s, st, val, mods) ==
  LET c == st.cond[s]
  IN /\ c.visible > c.rev_dep
     /\ val = mod => ~Boolean(k, s, c.visible, mods) /\ c.implied # yes
     /\ IF is_member(k, s) /\ c.visible = yes THEN val = yes ELSE val \in c.rev_dep .. c.visible
CanSet(k, s, st, val, mods) == st.env[s] = val \/ sym_tristate_within_range(k, s, st, val, mods)
sym_set_tristate_value(k, u, s, st, val) ==
  LET picks == is_member(k, s) /\ val = yes
      visible == {t \in Range(k.members) : st.cond[t].visible # no}
  IN [has |-> u.has \union {s} \union (IF picks THEN visible \union {k.choice} ELSE {}),
      tri |-> [u.tri EXCEPT ![s] = val],
      pick |-> IF picks THEN s ELSE u.pick]

(* conf_write(), conf_write_defconfig(): the saved values. *)
sym_get_string_value(tri, mods) == IF tri = mod /\ mods = no THEN no ELSE tri
conf_write(k, st, mods) == [s \in st.write \ {k.choice} |-> sym_get_string_value(st.env[s], mods)]
sym_get_string_default_unimplied(k, s, st, mods) ==
  Raised(EXPR_OR(Default(k.sym[s].defaults, st.env, mods), st.cond[s].rev_dep),
         (~is_member(k, s) /\ mods = no) \/ k.sym[s].type = "bool")
sym_get_string_default(k, s, st, mods) ==
  LET c == st.cond[s]
      val == EXPR_OR(Default(k.sym[s].defaults, st.env, mods), c.rev_dep)
  IN EXPR_OR(Raised(val, (~is_member(k, s) /\ mods = no) \/ k.sym[s].type = "bool"), c.implied)
Redundant(k, s, st, mods) ==
  \/ st.cond[s].visible <= st.cond[s].rev_dep
  \/ sym_get_string_value(st.env[s], mods) = sym_get_string_default(k, s, st, mods)
  \/ /\ is_member(k, s) /\ k.sym[s].type = "bool" /\ st.env[s] = yes
     /\ s = sym_choice_default(k, Shown(k, st.env, mods), Preferred(k, st.env, mods))
conf_write_defconfig(k, st, mods) ==
  [s \in {t \in st.write \ {k.choice} : ~Redundant(k, t, st, mods)} |-> sym_get_string_value(st.env[s], mods)]

(* conf_read_simple(), conf_read(): the user values a file gives, without  *)
(* those of hidden symbols when everything in the file was as computed.    *)
LastYes(k, file) == FirstOf(Reverse(SelectSeq(k.members, LAMBDA s : s \in DOMAIN file /\ file[s] = yes)))
conf_read_simple(k, file) ==
  [has |-> DOMAIN file \union (IF k.choice = "none" THEN {} ELSE {k.choice}),
   tri |-> [s \in DOMAIN k.sym |->
             IF s \in DOMAIN file THEN file[s]
             ELSE IF s = k.choice /\ \E t \in Range(k.members) \intersect DOMAIN file : file[t] = yes THEN yes
             ELSE no],
   pick |-> LastYes(k, file)]
Unsaved(k, u, st) ==
  \E s \in DOMAIN k.sym \ {k.choice} :
    IF s \in u.has /\ s \in st.write THEN u.tri[s] # st.env[s] ELSE s \in u.has \/ s \in st.write
Hidden(k, u, st) ==
  IF Unsaved(k, u, st) THEN u
  ELSE [u EXCEPT !.has = {s \in @ : is_member(k, s) \/ st.cond[s].visible # no}]
Loaded(k, u, mods) == Hidden(k, u, CalcAll(k, u, mods))
conf_read(k, file, mods) == Loaded(k, conf_read_simple(k, file), mods)

(* conf_set_all_new_symbols() for allnoconfig, allmodconfig, allyesconfig. *)
conf_set_all_new_symbols(k, u, tri) ==
  [u EXCEPT !.has = DOMAIN k.sym, !.tri = [s \in DOMAIN @ |-> IF s \in u.has THEN @[s] ELSE tri]]

(* sym_check_deps(): f has the symbols with SYMBOL_CHECK and with          *)
(* SYMBOL_CHECKED, and found, the symbol returned.  deps[s] are the symbols*)
(* of all conditions of s in the order they are visited.                   *)
RECURSIVE sym_check_deps(_, _, _, _)
RECURSIVE CheckEach(_, _, _, _)
CheckEach(deps, g, todo, f) ==
  IF todo = <<>> \/ f.found # "none" THEN f ELSE CheckEach(deps, g, Tail(todo), sym_check_deps(deps, g, Head(todo), f))
Mark(f, S) == [f EXCEPT !.check = @ \union S, !.checked = @ \union S]
Unmark(f, S) == [f EXCEPT !.check = @ \ S]
RECURSIVE CheckMembers(_, _, _, _)
CheckMembers(deps, g, todo, f) ==
  IF todo = <<>> \/ f.found # "none" THEN f ELSE CheckMembers(deps, g, Tail(todo), CheckEach(deps, g, deps[Head(todo)], f))
ChoiceFound(g, f) == IF f.found \in Range(g.members) THEN [f EXCEPT !.found = g.choice] ELSE f
sym_check_choice_deps(deps, g, f) ==
  ChoiceFound(g, Unmark(CheckMembers(deps, g, g.members,
    Unmark(CheckEach(deps, g, deps[g.choice], Mark(f, Range(g.members) \union {g.choice})), {g.choice})), Range(g.members)))
sym_check_deps(deps, g, s, f) ==
  IF s \in f.check THEN [f EXCEPT !.found = s]
  ELSE IF s \in f.checked THEN f
  ELSE IF s \in Range(g.members) THEN sym_check_deps(deps, g, g.choice, f)
  ELSE IF s = g.choice THEN sym_check_choice_deps(deps, g, f)
  ELSE Unmark(CheckEach(deps, g, deps[s], Mark(f, {s})), {s})
RecursiveFound(deps, g, order) ==
  CheckEach(deps, g, order, [check |-> {}, checked |-> {}, found |-> "none"]).found # "none"

-----------------------------------------------------------------------------
(* The check of all symbols finds an error if some symbol depends on       *)
(* itself, a member of a choice on another one, or the choice on one of    *)
(* its members.  It finds no other error but one: a member that depends on *)
(* a symbol outside that depends on the choice, which is an error or not   *)
(* according to which of them is checked first.                            *)
RECURSIVE Beyond(_, _)
Beyond(deps, S) ==
  LET next == S \union UNION {Range(deps[s]) : s \in S} IN IF next = S THEN S ELSE Beyond(deps, next)
DependsOn(deps, s) == Beyond(deps, Range(deps[s]))
Recursive(deps, g) ==
  \/ \E s \in DOMAIN deps : s \in DependsOn(deps, s)
  \/ \E s \in DOMAIN deps \intersect (Range(g.members) \union {g.choice}) : DependsOn(deps, s) \intersect Range(g.members) # {}
AroundChoice(deps, g) ==
  \E m \in Range(g.members) : \E s \in DependsOn(deps, m) \ {g.choice} : g.choice \in DependsOn(deps, s)
DependenciesRight(deps, g, order) ==
  /\ Recursive(deps, g) => RecursiveFound(deps, g, order)
  /\ RecursiveFound(deps, g, order) => Recursive(deps, g) \/ AroundChoice(deps, g)

(* No default is stronger than the prompt lets the user choose.  Such a    *)
(* value has no user value that gives it, so no file can hold it.          *)
Expressible(k, st, mods) ==
  \A s \in DOMAIN k.sym : LET c == st.cond[s] IN
    c.visible # no => Default(k.sym[s].defaults, st.env, mods) <= EXPR_OR(c.visible, EXPR_OR(c.rev_dep, c.implied))

(* A setting sym_set_tristate_value() accepts takes effect. *)
SettingsRight(k, u, st, mods) ==
  \A s \in DOMAIN k.sym \ {k.choice}, val \in Tristate :
    CanSet(k, s, st, val, mods) => CalcAll(k, sym_set_tristate_value(k, u, s, st, val), mods).env[s] = val

(* Loading what conf_write() saved, or the shorter file of                 *)
(* conf_write_defconfig(), gives every symbol the value it had.            *)
Same(st, again) == again.env = st.env /\ again.write = st.write /\ again.pick = st.pick
ReloadRight(k, st, mods) == Same(st, CalcAll(k, conf_read(k, conf_write(k, st, mods), mods), mods))
DefconfigRight(k, st, mods) == Same(st, CalcAll(k, conf_read(k, conf_write_defconfig(k, st, mods), mods), mods))

(* The configurations with all symbols at n, m or y have every prompted    *)
(* symbol as weak as it is selected, or as strong as it is visible.        *)
AllRight(k, u, tri, st, mods) ==
  /\ Expressible(k, st, mods) => ReloadRight(k, st, mods) /\ DefconfigRight(k, st, mods)
  /\ \A s \in DOMAIN k.sym : LET c == st.cond[s] IN
       c.visible # no /\ s \notin u.has /\ ~is_member(k, s) =>
         CASE tri = no -> st.env[s] = c.rev_dep
           [] tri = yes -> st.env[s] = EXPR_OR(Raised(c.visible, c.implied = yes), c.rev_dep)
           [] OTHER -> c.rev_dep <= st.env[s]

(* A choice that is on has exactly one member on. *)
ChoiceRight(k, st) ==
  k.choice # "none" /\ st.env[k.choice] = yes => {s \in Range(k.members) : st.env[s] = yes} = {st.pick}

SymbolsHold(k, u, st, mods) ==
  /\ ChoiceRight(k, st)
  /\ u.has = {} => \A tri \in Tristate : AllRight(k, u, tri, CalcAll(k, conf_set_all_new_symbols(k, u, tri), mods), mods)
  /\ Expressible(k, st, mods) => SettingsRight(k, u, st, mods) /\ ReloadRight(k, st, mods) /\ DefconfigRight(k, st, mods)
=============================================================================
