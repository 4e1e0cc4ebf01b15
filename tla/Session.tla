------------------------------ MODULE Session ------------------------------
(***************************************************************************)
(* A user at a configuration front end: menuconfig (mconf.c, with the      *)
(* dialogs of lxdialog) or nconfig (nconf.c).  The screens that are open   *)
(* are a stack, as conf(), conf_choice(), search_conf() and the dialogs    *)
(* for files call each other; every action is an answer to the topmost.    *)
(* Help screens, the prompts for strings and the mode with a single menu   *)
(* are left out; the movement of the cursor is in module Widgets.          *)
(*                                                                         *)
(* conf_parse() reads the Kconfig K (see KSymbols) and its tree of menus T *)
(* (see KMenu), which do not change any more.  MODULES is y.  A file is a  *)
(* function from symbols to values, as conf_write() gives it, or Missing.  *)
(***************************************************************************)
EXTENDS KMenu

CONSTANTS Parsed,    \* what conf_parse() may give: pairs of K and T
          Files,     \* the names the user enters, ".config" one of them
          FirstFiles,\* what they may contain before the session
          MaxOps,    \* how many changes, loads and saves are tried
          MaxDepth   \* how many screens are open at once

VARIABLES K, T,
          front,    \* "mconf" or "nconf"
          user,     \* the values set by the user (KSymbols)
          vals,     \* the values computed from them
          changed,  \* conf_get_changed()
          blank,    \* SYMBOL_WRITE was cleared by a write and not set again
          disk,     \* the files
          filename, \* where the configuration is saved at exit
          all,      \* show_all_options, show_all_items
          screens,  \* the open screens, the topmost first
          outcome,  \* "none", "end", or "not saved", as told at exit
          lost,     \* a load or a rename has failed (history)
          ops       \* the operations tried

S == INSTANCE KSymbols WITH SymType <- [s \in DOMAIN K.sym |-> K.sym[s].type]

svars == <<K, T, front, user, vals, changed, blank, disk, filename, all, screens, outcome, lost, ops>>

Missing == [missing |-> 0]

CalcValues(u) == S!CalcAll(K, u, S!yes)
Menu(m) == [at |-> "menu", menu |-> m]
Choice(m) == [at |-> "choice", menu |-> m]
Dialog(d) == [at |-> d, menu |-> Root]

-----------------------------------------------------------------------------
(* What build_conf() lists.  A view v is made of the values st, what       *)
(* menu_is_visible() sees of them, the front end and its option to show    *)
(* all symbols.                                                            *)
SymOf(m) == T.node[m].sym
Seen(st) ==
  [shown |-> 1 .. T.n,
   own |-> {m \in 1 .. T.n : IF SymOf(m) = "none" THEN \A d \in T.node[m].deps : st.env[d] # S!no ELSE st.cond[SymOf(m)].visible # S!no},
   on |-> {m \in 1 .. T.n : SymOf(m) # "none" /\ st.env[SymOf(m)] # S!no}]
View(st, a, f) == [st |-> st, s |-> Seen(st), all |-> a, front |-> f]
Now == View(vals, all, front)

Visible(v, m) == menu_is_visible(T, v.s, m)
Listed(v, m) == IF v.all THEN v.front = "nconf" \/ T.node[m].prompt # "none" ELSE Visible(v, m)
is_choice(m) == SymOf(m) # "none" /\ SymOf(m) = K.choice
sym_is_changable(v, m) == v.st.cond[SymOf(m)].visible > v.st.cond[SymOf(m)].rev_dep
DefMenu(v, m) == SelectSeq(Children(T, m), LAMBDA c : Visible(v, c) /\ SymOf(c) = v.st.pick)
(* A choice that is not optional cannot be changed itself. *)
Tag(v, cur, m) ==
  CASE SymOf(m) = "none" /\ (m = cur \/ T.node[m].prompt = "none") -> "none"
    [] SymOf(m) = "none" /\ m # cur /\ T.node[m].prompt = "menu" -> "m"
    [] is_choice(m) /\ DefMenu(v, m) # <<>> -> "t"
    [] SymOf(m) # "none" /\ m # cur /\ ~is_choice(m) /\ ~(S!is_member(K, SymOf(m)) /\ v.st.env[SymOf(m)] = S!yes) -> "t"
    [] OTHER -> ":"
Inside(v, cur, m) ==
  IF Tag(v, cur, m) = "m" \/ (m # cur /\ SymOf(m) # "none" /\ ~is_choice(m) /\ T.node[m].prompt = "menu") THEN <<>>
  ELSE IF is_choice(m) /\ v.st.env[SymOf(m)] = S!yes THEN SelectSeq(DefMenu(v, m), LAMBDA c : T.list[c] # Null)
  ELSE Children(T, m)
RECURSIVE build_conf(_, _, _)
build_conf(v, cur, m) ==
  IF ~Listed(v, m) THEN <<>>
  ELSE (IF Tag(v, cur, m) = "none" THEN <<>> ELSE <<[node |-> m, tag |-> Tag(v, cur, m)]>>)
       \o FlattenSeq([i \in DOMAIN Inside(v, cur, m) |-> build_conf(v, cur, Inside(v, cur, m)[i])])

(* The entries build_conf() and conf_choice() ask menu_is_visible() about, *)
(* and the symbols that are marked on the way.                             *)
RECURSIVE Asked(_, _, _)
Asked(v, cur, m) ==
  (IF v.all /\ v.front = "nconf" THEN {} ELSE {m})
  \union (IF Listed(v, m) /\ (is_choice(m) \/ (m # cur /\ T.node[m].prompt = "menu")) THEN Range(Children(T, m)) ELSE {})
  \union (IF Listed(v, m) THEN UNION {Asked(v, cur, c) : c \in Range(Inside(v, cur, m))} ELSE {})
AskedBy(v, screen) ==
  CASE screen.at = "menu" -> Asked(v, screen.menu, screen.menu)
    [] screen.at = "choice" /\ ~(v.all /\ v.front = "nconf") -> Range(Children(T, screen.menu))
    [] OTHER -> {}
Marked(u, v, nodes) == [u EXCEPT !.has = @ \union UNION {MarkedBy(T, v.s, m) : m \in nodes}]
Drawn(u, v, stack) == IF stack = <<>> THEN u ELSE Marked(u, v, AskedBy(v, Head(stack)))

(* Marking changes no value (LookingHarmless). *)
Compute(u, st, a, stack) == vals' = st /\ user' = Drawn(u, View(st, a, front), stack)

-----------------------------------------------------------------------------
(* The start, with conf_read(NULL): without a .config the configuration is *)
(* to be saved.                                                            *)
Read(file) == S!conf_read(K, file, S!yes)
SessionInit ==
  /\ \E p \in Parsed : K = p[1] /\ T = p[2]
  /\ front \in {"mconf", "nconf"}
  /\ disk \in FirstFiles
  /\ LET u == IF disk[".config"] = Missing THEN S!NoValues(K) ELSE Read(disk[".config"])
     IN vals = CalcValues(u) /\ user = Drawn(u, View(CalcValues(u), FALSE, front), <<Menu(Root)>>)
  /\ changed = (disk[".config"] = Missing \/ S!Unsaved(K, S!conf_read_simple(K, disk[".config"]), CalcValues(S!conf_read_simple(K, disk[".config"]))))
  /\ blank = FALSE /\ filename = ".config" /\ all = FALSE /\ screens = <<Menu(Root)>>
  /\ outcome = "none" /\ lost = FALSE /\ ops = 0

Top == Head(screens)
On(at) == outcome = "none" /\ screens # <<>> /\ Top.at = at
Items == build_conf(Now, Top.menu, Top.menu)
Show(stack) == screens' = stack /\ Compute(user, vals, all, stack)
Open(screen) == Len(screens) < MaxDepth /\ Show(<<screen>> \o screens)
Same(vars) == UNCHANGED <<K, T, front, filename, outcome, vars>>
Try == ops < MaxOps /\ ops' = ops + 1

(* sym_set_tristate_value(), sym_toggle_tristate_value(): the value is set *)
(* if it is permitted, and the configuration has changed if it is new.     *)
Cycle(val) == <<(val + 1) % 3, (val + 2) % 3, val>>
Permitted(st, s, wanted) == SelectSeq(wanted, LAMBDA val : S!CanSet(K, s, st, val, S!yes))
SetFirst(u, st, s, can) == IF can = <<>> THEN u ELSE S!sym_set_tristate_value(K, u, s, st, can[1])
SetTo(s, stack, u, new) ==
  /\ Compute(u, CalcValues(u), all, stack) /\ screens' = stack
  /\ changed' = (changed \/ new) /\ blank' = (blank /\ ~new)
  /\ Same(<<disk, all, lost>>)
Set(s, wanted, stack) ==
  LET can == Permitted(vals, s, wanted)
  IN SetTo(s, stack, SetFirst(user, vals, s, can), can # <<>> /\ can[1] # vals.env[s])

(* conf(): Enter on an item.  nconf ignores what is not visible, and Enter *)
(* toggles a symbol that opens no menu; mconf does nothing with it.        *)
Acts(m) == front = "mconf" \/ Visible(Now, m)
Opens(item) ==
  CASE item.tag = "m" -> Menu(item.node)
    [] item.tag = "t" /\ is_choice(item.node) /\ vals.env[SymOf(item.node)] = S!yes -> Choice(item.node)
    [] item.tag = "t" /\ ~is_choice(item.node) /\ T.node[item.node].prompt = "menu" -> Menu(item.node)
    [] OTHER -> Dialog("none")
Enter ==
  /\ On("menu")
  /\ \E item \in Range(Items) : Acts(item.node) /\ Opens(item).at # "none" /\ Open(Opens(item))
  /\ Same(<<changed, blank, disk, all, lost, ops>>)
Toggle ==
  /\ On("menu") /\ Try
  /\ \E item \in Range(Items) :
       /\ item.tag = "t" /\ Acts(item.node)
       /\ Set(SymOf(item.node), Cycle(vals.env[SymOf(item.node)]), screens)
(* The keys y, n and m; y gives m when y is not permitted. *)
Wanted(key) == IF key = S!yes THEN <<S!yes, S!mod>> ELSE <<key>>
PressValue ==
  /\ On("menu") /\ Try
  /\ \E item \in Range(Items), key \in S!Tristate : item.tag = "t" /\ Acts(item.node) /\ Set(SymOf(item.node), Wanted(key), screens)

(* conf_choice(): mconf lists the visible members only, nconf acts on them *)
(* only.                                                                   *)
Pick ==
  /\ On("choice") /\ Try
  /\ \E c \in Range(Children(T, Top.menu)) :
       SymOf(c) # "none" /\ Visible(Now, c) /\ Set(SymOf(c), <<S!yes>>, Tail(screens))

(* Z in mconf, F4 in nconf. *)
ShowAll ==
  /\ On("menu") \/ (front = "nconf" /\ On("choice"))
  /\ all' = ~all /\ Compute(user, vals, ~all, screens)
  /\ Same(<<screens, changed, blank, disk, lost, ops>>)

(* Leaving a menu, a choice or a dialog.  The root menu is left for the    *)
(* question whether to save, if there is something to be saved.            *)
Question(d) == IF changed THEN <<Dialog(d)>> ELSE <<>>
Ended == IF changed THEN outcome ELSE "end"
Leave ==
  /\ outcome = "none" /\ screens # <<>> /\ Top.at \notin {"exit", "signal"} /\ Len(screens) > 1
  /\ Show(Tail(screens))
  /\ Same(<<changed, blank, disk, all, lost, ops>>)
LeaveRoot ==
  /\ On("menu") /\ Len(screens) = 1
  /\ screens' = Question("exit") /\ outcome' = Ended
  /\ UNCHANGED <<K, T, front, user, vals, changed, blank, disk, filename, all, lost, ops>>
(* F9 in nconf on any menu or choice: do_exit(). *)
F9 ==
  /\ front = "nconf" /\ (On("menu") \/ On("choice"))
  /\ screens' = (IF changed THEN <<Dialog("exit")>> \o screens ELSE <<>>) /\ outcome' = Ended
  /\ UNCHANGED <<K, T, front, user, vals, changed, blank, disk, filename, all, lost, ops>>
(* SIGINT in mconf, at any screen: sig_handler(). *)
Interrupt ==
  /\ front = "mconf" /\ outcome = "none" /\ screens # <<>> /\ Top.at # "signal"
  /\ screens' = Question("signal") /\ outcome' = Ended
  /\ UNCHANGED <<K, T, front, user, vals, changed, blank, disk, filename, all, lost, ops>>

(* The screens of files, and of search results with their jump keys; nconf *)
(* shows results without keys, and opens the screens from choices too.     *)
OpenDialog ==
  /\ On("menu") \/ (front = "nconf" /\ On("choice"))
  /\ \E d \in {"load", "save", "search"} : Open(Dialog(d))
  /\ Same(<<changed, blank, disk, all, lost, ops>>)
Target(m) == get_prompt_str(T, Seen(vals), m)
Jump ==
  /\ On("search") /\ front = "mconf"
  /\ \E m \in 2 .. T.n : SymOf(m) # "none" /\ T.node[m].prompt # "none" /\ Target(m) # Null /\ Open(Menu(T.parent[Target(m)]))
  /\ Same(<<changed, blank, disk, all, lost, ops>>)

(* conf_load().  conf_read() first forgets that there are changes. *)
Load ==
  /\ On("load") /\ Try
  /\ \E f \in Files : disk[f] # Missing /\ Compute(Read(disk[f]), CalcValues(Read(disk[f])), all, Tail(screens)) /\ filename' = f
  /\ screens' = Tail(screens)
  /\ changed' = TRUE /\ blank' = FALSE
  /\ UNCHANGED <<K, T, front, disk, all, outcome, lost>>
LoadMissing ==
  /\ On("load") /\ Try /\ \E f \in Files : disk[f] = Missing
  /\ changed' = FALSE /\ lost' = (lost \/ changed)
  /\ UNCHANGED <<K, T, front, user, vals, blank, disk, filename, all, screens, outcome>>

(* conf_write(): with changes it relies on the flags SYMBOL_WRITE of the   *)
(* symbols, which it clears; without, all are computed again.  The file    *)
(* cannot be opened, or it is written and cannot be renamed, after the old *)
(* one was moved away.                                                     *)
Contents == IF changed /\ blank THEN <<>> ELSE S!conf_write(K, vals, S!yes)
Written(f) == disk' = [disk EXCEPT ![f] = Contents] /\ changed' = FALSE /\ blank' = TRUE /\ UNCHANGED lost
NotOpened == UNCHANGED <<disk, changed, blank, lost>>
NotRenamed(f) == disk' = [disk EXCEPT ![f] = Missing] /\ changed' = TRUE /\ blank' = TRUE /\ lost' = TRUE

(* conf_save() *)
Save ==
  /\ On("save") /\ Try
  /\ \E f \in Files :
       \/ Written(f) /\ filename' = f /\ Show(Tail(screens))
       \/ (NotOpened \/ NotRenamed(f)) /\ UNCHANGED <<filename, screens, user, vals>>
  /\ UNCHANGED <<K, T, front, all, outcome>>

(* handle_exit(), do_exit(): save, do not save, or go on.  mconf goes on   *)
(* with the root menu, after a signal it ends even so; nconf returns to    *)
(* where it was.                                                           *)
AtExit == outcome = "none" /\ screens # <<>> /\ Top.at \in {"exit", "signal"}
SaveAtExit ==
  /\ AtExit
  /\ \/ Written(filename) /\ outcome' = "end"
     \/ (NotOpened \/ NotRenamed(filename)) /\ outcome' = "not saved"
  /\ screens' = <<>>
  /\ UNCHANGED <<K, T, front, user, vals, filename, all, ops>>
Discard ==
  /\ AtExit
  /\ screens' = <<>> /\ outcome' = "not saved"
  /\ UNCHANGED <<K, T, front, user, vals, changed, blank, disk, filename, all, lost, ops>>
Resume(stack) == IF stack = <<>> THEN <<Menu(Root)>> ELSE stack
GoOn ==
  /\ AtExit /\ Top.at = "exit"
  /\ Show(Resume(Tail(screens)))
  /\ Same(<<changed, blank, disk, all, lost, ops>>)

(* main() has returned. *)
Exited ==
  /\ outcome # "none"
  /\ UNCHANGED <<K, T, front, user, vals, changed, blank, disk, filename, all, screens, outcome, lost, ops>>

SessionNext ==
  \/ Enter \/ Toggle \/ PressValue \/ Pick \/ ShowAll
  \/ Leave \/ LeaveRoot \/ F9 \/ Interrupt \/ OpenDialog \/ Jump
  \/ Load \/ LoadMissing \/ Save \/ SaveAtExit \/ Discard \/ GoOn \/ Exited

-----------------------------------------------------------------------------
(* A session that ends without the message that changes were not saved has *)
(* the configuration in the file filename: loading it gives every symbol   *)
(* the value it had.  This fails after the load of a file that does not    *)
(* exist, and after a rename that fails.                                   *)
ExitHonest ==
  outcome = "end" /\ ~lost => disk[filename] # Missing /\ S!Same(vals, CalcValues(Read(disk[filename])))

(* Looking at screens changes no value, although menu_is_visible() marks   *)
(* symbols as set by the user.                                             *)
LookingHarmless == S!Same(vals, CalcValues(Marked(user, Now, 1 .. T.n)))

(* Toggling a symbol twice passes through every value that could be set.   *)
Toggled(u, st, s) == SetFirst(u, st, s, Permitted(st, s, Cycle(st.env[s])))
TwiceRight(u, st, s) == vals.env[s] + st.env[s] + CalcValues(Toggled(u, st, s)).env[s] = S!no + S!mod + S!yes
ToggleRight ==
  \A s \in DOMAIN K.sym \ {K.choice} :
    LET can == {val \in S!Tristate : S!CanSet(K, s, vals, val, S!yes)}
        u == Toggled(user, vals, s)
    IN CASE Cardinality(can) = 3 -> TwiceRight(u, CalcValues(u), s)
         [] OTHER -> can \subseteq {vals.env[s], CalcValues(u).env[s]}

(* Every visible prompt is on a screen the user can open from the root     *)
(* menu, and a jump from the search results opens one that has it.  The    *)
(* members of a choice are on the screen of the choice.                    *)
OpenedFrom(items) == {Opens(item).menu : item \in {i \in items : Opens(i).at = "menu"}}
RECURSIVE Reachable(_, _)
Reachable(v, R) ==
  LET more == R \union UNION {OpenedFrom(Range(build_conf(v, m, m))) : m \in R} IN IF more = R THEN R ELSE Reachable(v, more)
OnScreen(v, items, n) ==
  \E item \in items : item.node = n \/ (is_choice(item.node) /\ T.parent[n] = item.node /\ v.st.env[K.choice] = S!yes)
PromptsOn(v, items) ==
  \A n \in {i \in 2 .. T.n : Visible(v, i)} :
    /\ OnScreen(v, UNION items, n)
    /\ get_prompt_str(T, v.s, n) # Null => OnScreen(v, Range(build_conf(v, T.parent[n], T.parent[n])), n)
PromptsReachable(v) == PromptsOn(v, {Range(build_conf(v, m, m)) : m \in Reachable(v, {Root})})

SessionHolds ==
  /\ ExitHonest
  /\ screens = <<Menu(Root)>> => LookingHarmless /\ ToggleRight /\ PromptsReachable(View(vals, FALSE, front))
=============================================================================
