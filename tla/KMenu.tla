------------------------------- MODULE KMenu -------------------------------
(***************************************************************************)
(* The tree of menus of scripts/kconfig/menu.c: how the parser links the   *)
(* entries, how menu_finalize() regroups them, and which of them a front   *)
(* end shows.  A tree t has the nodes 1 (rootmenu) .. t.n with their       *)
(* pointers list, next and parent (Null for none), and node[i] with        *)
(* sym, the symbol of the entry ("none"), prompt, the type of its prompt   *)
(* ("none", "prompt", "menu", "comment"), and deps, the symbols it depends *)
(* on in the sense of menu_finalize().                                     *)
(***************************************************************************)
EXTENDS Naturals, Sequences, FiniteSetsExt, SequencesExt

Null == 0
Root == 1

(* _menu_init(), menu_add_entry(), menu_add_menu(), menu_end_menu().  last *)
(* is the place last_entry_ptr points to: a list or a next pointer.        *)
_menu_init ==
  [n |-> 1, node |-> <<[sym |-> "none", prompt |-> "menu", deps |-> {}]>>, list |-> <<Null>>, next |-> <<Null>>, parent |-> <<Null>>,
   entry |-> Root, menu |-> Root, last |-> <<"list", Root>>]
LinkAt(t, place, i) ==
  IF place[1] = "list" THEN [t EXCEPT !.list[place[2]] = i] ELSE [t EXCEPT !.next[place[2]] = i]
menu_add_entry(t, node) ==
  LET i == t.n + 1
      made == [t EXCEPT !.n = i, !.node = Append(@, node), !.list = Append(@, Null), !.next = Append(@, Null),
                        !.parent = Append(@, t.menu), !.entry = i, !.last = <<"next", i>>]
  IN LinkAt(made, t.last, i)
menu_add_menu(t) == [t EXCEPT !.menu = t.entry, !.last = <<"list", t.entry>>]
menu_end_menu(t) == [t EXCEPT !.last = <<"next", t.menu>>, !.menu = t.parent[t.menu]]

RECURSIVE Chain(_, _)
Chain(t, i) == IF i = Null THEN <<>> ELSE <<i>> \o Chain(t, t.next[i])
Children(t, i) == Chain(t, t.list[i])
RECURSIVE Preorder(_, _)
Preorder(t, i) == IF i = Null THEN <<>> ELSE <<i>> \o Preorder(t, t.list[i]) \o Preorder(t, t.next[i])

-----------------------------------------------------------------------------
(* menu_finalize(), what it does to the links.  The entries of a menu or   *)
(* an "if" take over its dependencies, those of a choice (a symbol with a  *)
(* list) depend on the choice.  The entries that follow a symbol without a *)
(* list and depend on it become its list, and the lists of entries without *)
(* a prompt are put behind them.                                           *)
ParentDep(t, p) == IF t.node[p].sym = "none" THEN t.node[p].deps ELSE {t.node[p].sym}
Inherited(t, p) ==
  [t EXCEPT !.node = [i \in DOMAIN @ |-> IF i \in Range(Children(t, p)) THEN [@[i] EXCEPT !.deps = @ \union ParentDep(t, p)] ELSE @[i]]]
TakeList(t, p, last) == IF last = Null THEN t ELSE [t EXCEPT !.list[p] = t.next[p], !.next[p] = t.next[last], !.next[last] = Null]
LastOf(t, i) == Last(Chain(t, i))
Flattened(t, p, m) ==
  LET first == t.list[m]
      last == LastOf(t, first)
  IN [t EXCEPT !.parent = [i \in DOMAIN @ |-> IF i \in Range(Chain(t, first)) THEN p ELSE @[i]],
               !.next = [@ EXCEPT ![last] = t.next[m], ![m] = first],
               !.list[m] = Null]
RECURSIVE FlattenFrom(_, _, _)
FlattenFrom(t, p, m) ==
  IF m = Null THEN t
  ELSE LET u == IF t.list[m] # Null /\ t.node[m].prompt = "none" THEN Flattened(t, p, m) ELSE t IN FlattenFrom(u, p, u.next[m])
RECURSIVE menu_finalize(_, _)
RECURSIVE FinalizeList(_, _)
FinalizeList(t, m) == IF m = Null THEN t ELSE LET u == menu_finalize(t, m) IN FinalizeList(u, u.next[m])
RECURSIVE Gather(_, _, _, _)
Gather(t, p, m, last) ==
  IF m = Null \/ t.node[p].sym \notin t.node[m].deps THEN TakeList(t, p, last)
  ELSE LET u == [menu_finalize(t, m) EXCEPT !.parent[m] = p] IN Gather(u, p, u.next[m], m)
Grouped(t, p) ==
  IF t.list[p] # Null THEN FinalizeList(Inherited(t, p), t.list[p])
  ELSE IF t.node[p].sym # "none" THEN Gather(t, p, t.next[p], Null)
  ELSE t
Finalized(t, p) == FlattenFrom(t, p, t.list[p])
menu_finalize(t, p) == Finalized(Grouped(t, p), p)

(* Regrouping loses and duplicates no entry and keeps their order, every   *)
(* entry is in the list of its parent, an entry without a prompt has no    *)
(* list, and an entry stands below a symbol only if it was put into its    *)
(* menu or depends on it, directly or through entries without a prompt.    *)
RECURSIVE Needs(_, _)
Needs(t, S) ==
  LET more == S \union UNION {t.node[i].deps : i \in {j \in 1 .. t.n : t.node[j].sym \in S /\ t.node[j].prompt = "none"}}
  IN IF more = S THEN S ELSE Needs(t, more)
TreeRight(t, u) ==
  /\ Preorder(u, Root) = [i \in 1 .. t.n |-> i]
  /\ \A i \in 1 .. t.n : \A c \in Range(Children(u, i)) : u.parent[c] = i
  /\ \A i \in 2 .. t.n : u.node[i].prompt = "none" => u.list[i] = Null
  /\ \A i \in 2 .. t.n : u.parent[i] # Root /\ t.list[u.parent[i]] = Null => u.node[u.parent[i]].sym \in Needs(u, u.node[i].deps)

-----------------------------------------------------------------------------
(* What a front end shows.  For the current values, s.shown has the nodes  *)
(* whose "visible if" holds, s.own those whose own prompt is visible, and  *)
(* s.on those whose symbol is not n.                                       *)
RECURSIVE menu_is_visible(_, _, _)
VisibleBelow(t, s, i) == SelectSeq(Children(t, i), LAMBDA c : menu_is_visible(t, s, c))
menu_is_visible(t, s, i) ==
  /\ t.node[i].prompt # "none" /\ i \in s.shown
  /\ i \in s.own \/ (t.node[i].sym # "none" /\ i \in s.on /\ VisibleBelow(t, s, i) # <<>>)
menu_is_empty(t, s, i) == VisibleBelow(t, s, i) = <<>>

(* The symbols menu_is_visible() marks as set by the user: those without a *)
(* visible prompt that are shown for an entry below them.                  *)
RECURSIVE MarkedBy(_, _, _)
MarkedBy(t, s, i) ==
  IF i \in s.own \/ ~menu_is_visible(t, s, i) THEN {}
  ELSE {t.node[i].sym} \union MarkedBy(t, s, VisibleBelow(t, s, i)[1])

RECURSIVE menu_get_parent_menu(_, _)
menu_get_parent_menu(t, i) == IF i = Root \/ t.node[i].prompt = "menu" THEN i ELSE menu_get_parent_menu(t, t.parent[i])

(* get_prompt_str(): where a search result leads, Null for nowhere: to the *)
(* prompt if it is visible, else to the first visible menu around it.      *)
RECURSIVE Ancestors(_, _)
Ancestors(t, i) == IF i = Root THEN <<>> ELSE <<i>> \o Ancestors(t, t.parent[i])
Locations(t, s, i) == SelectSeq(Ancestors(t, t.parent[i]), LAMBDA m : menu_is_visible(t, s, m))
get_prompt_str(t, s, i) ==
  IF Locations(t, s, i) = <<>> THEN Null
  ELSE IF menu_is_visible(t, s, i) THEN i ELSE Locations(t, s, i)[1]
=============================================================================
