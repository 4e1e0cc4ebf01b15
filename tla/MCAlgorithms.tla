---------------------------- MODULE MCAlgorithms ----------------------------
(* The routines without state of their own, each on a set of small inputs  *)
(* against its reference.  A state is one input: strings grow character by *)
(* character, the other inputs are chosen at once.  Beside them run the    *)
(* state machines among the tools, the build after a configuration and a   *)
(* session with a configuration front end or the questions of conf.        *)
EXTENDS MemCmds, Printf, KBuild

CONSTANTS MaxText, MaxLine, MaxName, MaxString

VARIABLES kind, x, kconf, rootmenu, front, user, vals, changed, blank, disk, filename, all, screens, outcome, lost, ops,
          mode, rootEntry, conf_cnt, quiet, asked, first, before

SymType == [A |-> "bool", T |-> "tristate", U |-> "tristate"]
C == INSTANCE Charset
P == INSTANCE Part4
D == INSTANCE FixDep
S == INSTANCE KSymbols
Tm == INSTANCE Timer WITH LongMod <- 4096, Ten <- 2, Period <- 16
W == INSTANCE Widgets WITH MAX_LEN <- 3

TextChars == {"0", "1", "8", "a", "x", "-", "k", "i", "B", "\n"}
LineChars == {"a", " ", ";", "'", "\\", "$", "(", ")"}
NameChars == {"m", "d", "w", ".", "c", "p"}
Chars == {65, 97, 98, 200}
Cmd(name) == [name |-> name, maxargs |-> 2, rep |-> TRUE, do |-> "version"]
MCTable == <<Cmd(<<"c", "m", "p">>), Cmd(<<"c", "p">>), Cmd(<<"m", "d">>), Cmd(<<"m", "d", "w">>), Cmd(<<"m", "w">>)>>

Directives ==
  {[flags |-> f, width |-> w[1], star |-> w[2], prec |-> p, q |-> q, conv |-> c, arg |-> a] :
     f \in SUBSET {"-", "+", " ", "#", "0"}, w \in {<<1, FALSE>>, <<4, FALSE>>, <<4, TRUE>>}, p \in {-1, 0, 3},
     q \in {<<>>, <<"h">>, <<"l">>}, c \in {"d", "x", "o"}, a \in {0, 255, 123456, LongMod - 1}}
Regions == {[mem |-> m, d |-> d, s |-> s, n |-> n] :
              m \in [0 .. 7 -> {0, 1}], d \in {0, 1, 2, 3}, s \in {0, 1, 2}, n \in 0 .. 5}

(* lib/charset.c: the codes at the edges of each length, and bytes and     *)
(* units of every class.                                                   *)
Codes == {0, 1, 127, 128, 2047, 2048, 55295, 55296, 57343, 57344, 65535, 65536, 65537, 66559, 66560, 1114111, 1114112}
Utf8Bytes == {65, 128, 159, 191, 194, 224, 237, 240, 244, 247}
Utf16Units == {65, 2047, 2048, 55296, 56319, 56320, 56321, 57343, 65535}

(* Conditions of Kconfig: comparisons, and all of two or three of them. *)
Leaves ==
  {S!Sym(s) : s \in {"A", "T", "y", "m", "n"}} \union {S!Not(S!Sym(s)) : s \in {"A", "T", "m"}}
    \union {<<r, s, t>> : r \in {"=", "!="}, s \in {"A", "T"}, t \in {"y", "m", "n"}}
    \union {<<"<", "T", "m">>, <<">=", "T", "U">>, <<"=", "T", "U">>}
Junctions(L) == {<<o, a, b>> : o \in {"and", "or"}, a \in L, b \in L}
FewLeaves == {S!Sym("T"), S!Not(S!Sym("T")), <<"=", "T", "y">>, <<"!=", "T", "n">>}
FewTerms == FewLeaves \union Junctions(FewLeaves)

(* Kconfigs: B with every kind of condition on A and X, and a choice of P  *)
(* and Q that is itself conditional.                                       *)
Y == S!Sym("y")
N == S!Sym("n")
Both(a, b) == <<"and", a, b>>
Entry(type, prompt, dep, rev, imp, defaults) ==
  [type |-> type, prompt |-> Both(dep, prompt), dir_dep |-> dep, rev_dep |-> rev, implied |-> imp,
   defaults |-> [i \in DOMAIN defaults |-> <<defaults[i][1], Both(dep, defaults[i][2])>>]]
Option(type) == Entry(type, Y, Y, N, N, <<>>)
Dependents ==
  {Entry(type, prompt, dep, rev, imp, defaults) :
     type \in {"bool", "tristate"}, prompt \in {N, Y, S!Sym("A")}, dep \in {Y, S!Sym("A")},
     rev \in {N, Both(S!Sym("X"), S!Sym("m")), S!Sym("A")}, imp \in {N, S!Sym("X")},
     defaults \in {<<>>, <<<<Y, S!Sym("A")>>, <<S!Sym("m"), Y>>>>}}
PlainKconfigs ==
  {[order |-> <<"A", "X", "B">>, sym |-> [A |-> Option("tristate"), X |-> Option("bool"), B |-> b],
    choice |-> "none", members |-> <<>>, preferred |-> <<>>] : b \in Dependents}
ChoiceKconfigs ==
  {[order |-> <<"A", "B", "C", "P", "Q", "D">>,
    sym |-> [A |-> Option("bool"), B |-> Option("bool"),
             C |-> Entry("bool", Y, S!Sym("A"), Both(S!Sym("A"), S!Sym("m")), N, <<>>),
             P |-> Entry("bool", p, S!Sym("C"), N, N, <<>>), Q |-> Entry("bool", q, S!Sym("C"), N, N, <<>>),
             D |-> Entry("bool", Y, Y, S!Sym("Q"), N, <<<<Y, S!Sym("P")>>>>)],
    choice |-> "C", members |-> <<"P", "Q">>, preferred |-> f] :
     p \in {Y, S!Sym("B")}, q \in {Y, S!Sym("B")}, f \in {<<>>, <<<<"Q", S!Sym("B")>>>>}}
Configurations ==
  {[k |-> k, u |-> S!NoValues(k), mods |-> mods] : k \in PlainKconfigs \union ChoiceKconfigs, mods \in {S!no, S!yes}}

(* Dependencies: all of three symbols, and all with a choice C of P and Q. *)
Edges(from, to) == [from -> {SetToSeq(set) : set \in SUBSET to}]
PlainGraphs == {[deps |-> d, g |-> [choice |-> "none", members |-> <<>>], order |-> <<"X", "A", "B">>] :
                  d \in Edges({"A", "B", "X"}, {"A", "B", "X"})}
ChoiceGraphs ==
  {[deps |-> [C |-> c, P |-> <<"C">> \o p, Q |-> <<"C">> \o q, X |-> y], g |-> [choice |-> "C", members |-> <<"P", "Q">>],
    order |-> o] :
     c \in {<<>>, <<"X">>, <<"Q">>}, p \in {<<>>, <<"X">>, <<"Q">>}, q \in {<<>>, <<"X">>, <<"P">>},
     y \in {<<>>, <<"C">>, <<"P">>, <<"X">>}, o \in {<<"X", "C", "P", "Q">>, <<"C", "P", "Q", "X">>, <<"Q", "X", "P", "C">>}}

(* Menus: trees of up to five entries, some in menus.                      *)
M == INSTANCE KMenu
Nodes(t) ==
  {[sym |-> s, prompt |-> p, deps |-> d] :
     s \in {"none", ToString(t.n)}, p \in {"none", "prompt"}, d \in SUBSET ({t.node[i].sym : i \in 2 .. t.n} \ {"none"})}
AddEntry == kind = "tree" /\ kind' = kind /\ x.n < 5 /\ \E node \in Nodes(x) : x' = M!menu_add_entry(x, node)
AddMenu ==
  /\ kind = "tree" /\ kind' = kind
  /\ x.n \in 2 .. 4 /\ x.last = <<"next", x.n>> /\ x.node[x.n].sym = "none" /\ x.parent[x.n] \in {1, x.parent[x.parent[x.n]] + 1}
  /\ x' = M!menu_add_menu(x)
EndMenu == kind = "tree" /\ kind' = kind /\ x.menu # 1 /\ x' = M!menu_end_menu(x)

(* A session: B depends on A, C is a choice of P and Q, and a menu holds D *)
(* with its own menu, where D selects H, I depends on H, and a comment.  P *)
(* is always visible in a session, and with B when questions are asked.    *)
SessionKconfig(p) ==
  [order |-> <<"A", "B", "C", "P", "Q", "D", "H", "I">>,
   sym |-> [A |-> Option("bool"), B |-> Entry("tristate", Y, S!Sym("A"), N, N, <<>>), C |-> Entry("bool", Y, Y, Y, N, <<>>),
            P |-> Entry("bool", p, S!Sym("C"), N, N, <<>>), Q |-> Entry("bool", S!Sym("A"), S!Sym("C"), N, N, <<>>),
            D |-> Option("bool"), H |-> Entry("bool", S!Sym("A"), S!Sym("D"), S!Sym("D"), N, <<<<Y, Y>>>>),
            I |-> Entry("bool", Y, S!Sym("H"), N, N, <<>>)],
   choice |-> "C", members |-> <<"P", "Q">>, preferred |-> <<>>]
Node(s, p, d) == [sym |-> s, prompt |-> p, deps |-> d]
AddAll(t, nodes) == FoldLeft(M!menu_add_entry, t, nodes)
FirstEntries == AddAll(M!_menu_init, <<Node("A", "prompt", {}), Node("B", "prompt", {"A"}), Node("C", "prompt", {})>>)
ChoiceEntries(t, deps) == M!menu_end_menu(AddAll(M!menu_add_menu(t), <<Node("P", "prompt", deps), Node("Q", "prompt", {"A"})>>))
MenuEntries(t) ==
  M!menu_end_menu(AddAll(M!menu_add_menu(AddAll(t, <<Node("none", "menu", {})>>)),
    <<Node("D", "menu", {}), Node("H", "prompt", {"D"}), Node("I", "prompt", {"H"}), Node("none", "comment", {"A"})>>))
Parse(p, deps) == {<<SessionKconfig(p), M!menu_finalize(MenuEntries(ChoiceEntries(FirstEntries, deps)), 1)>>}
Z == INSTANCE Conf WITH K <- kconf, T <- rootmenu, MaxOps <- 2, MaxDepth <- 3, Files <- {".config", "other"},
       Parsed <- Parse(Y, {}), ConfParsed <- Parse(S!Sym("B"), {"B"}),
       ConfFiles <- {[f \in {".config", "other"} |-> c] : c \in {[missing |-> 0], <<>>, [A |-> 2, D |-> 0], [P |-> 0, Q |-> 2, H |-> 2, D |-> 2]}},
       FirstFiles <- {[f \in {".config", "other"} |-> IF f = ".config" THEN c ELSE o] :
                        c \in {[missing |-> 0], <<>>}, o \in {[missing |-> 0], [A |-> 2, D |-> 2]}}
session == <<kconf, rootmenu, front, user, vals, changed, blank, disk, filename, all, screens, outcome, lost, ops>>
configuring == <<mode, rootEntry, conf_cnt, quiet, asked, first, before>>
NoConf ==
  /\ mode = "none" /\ rootEntry = 1 /\ conf_cnt = 0 /\ quiet = FALSE /\ asked = <<>> /\ first = [mode |-> "none"] /\ before = {}
NoSession ==
  /\ kconf = <<>> /\ rootmenu = <<>> /\ front = "none" /\ user = <<>> /\ vals = <<>> /\ changed = FALSE /\ blank = FALSE
  /\ disk = <<>> /\ filename = "none" /\ all = FALSE /\ screens = <<>> /\ outcome = "none" /\ lost = FALSE /\ ops = 0

(* Boxes: lists of six, one and no items in windows of all sizes, lines,   *)
(* and texts that end with a newline.                                      *)
Hots == {[i \in 0 .. 5 |-> IF i \in {1, 4} THEN "a" ELSE IF i = 3 THEN "n" ELSE "s"], [i \in 0 .. 0 |-> "a"], [i \in {} |-> "a"]}
Menus == {W!MenuBox(hot, height, selected, saved) : hot \in Hots, height \in {1, 4}, selected \in {-1, 4}, saved \in {0, 2}}
Checks == {W!CheckBox(hot, height, 0) : hot \in Hots \ {[i \in {} |-> "a"]}, height \in 1 .. 4}
                \union {W!CheckBox(hot, height, 4) : hot \in {h \in Hots : 4 \in DOMAIN h}, height \in 1 .. 4}
Lines == {<<>>, <<"a", "o", "a">>}
Texts == {Append(t, "\n") : t \in SeqOf({"a", "\n"}, 5)}
MenuKeys == {"up", "down", "pgup", "pgdn", "right", "enter", "a", "n", "s", "e", "resize"}
CheckKeys == {"up", "down", "h", "left", "right", "enter", "a", "s", "n", "x", "resize"}
InputKeys == {"a", "o", "backspace", "left", "right", "tab", "up", "enter", "resize"}
FormKeys == {"a", "backspace", "left", "right", "delete", "home", "end", "enter"}
TextKeys == {"home", "end", "up", "pgup", "down", "pgdn", "left", "right", "resize", "exit"}
FindKeys == {"/", "esc", "a", "b", "down", "up", "backspace", "home", "end"}
Offsets == {SetToSortSeq(set, LAMBDA a, b : a < b) : set \in SUBSET (0 .. 6)}
ScrollKeys == {"pgdn", "pgup", "home", "end", "down", "up", "left", "right"}

(* One object, p, built when b is set, whose files may come to name a. *)
MCSymbols == {"a", "b"}
MCValues == [a |-> {"none", "n", "m", "y"}, b |-> {"n", "y"}]
MCObjects == {"p"}
MCGate == [p |-> {"b"}]
MCSources == [p |-> {{}, {"a"}}]

Init ==
  /\ x = <<>> /\ KInit
  /\ \/ kind = "start" /\ NoSession /\ NoConf
     \/ kind = "session" /\ Z!SessionInit /\ NoConf
     \/ kind = "conf" /\ Z!ConfInit

Begin(k) == kind = "start" /\ kind' = k /\ x' = <<>>
Grow(k, chars, max) == kind = k /\ Len(x) < max /\ kind' = k /\ \E c \in chars : x' = Append(x, c)
Choose(from, k, inputs) == kind = from /\ kind' = k /\ x' \in inputs
SetSymbol(s, val, st) ==
  /\ S!CanSet(x.k, s, st, val, x.mods)
  /\ x' = [x EXCEPT !.u = S!sym_set_tristate_value(x.k, x.u, s, st, val)]
Set(st) == \E s \in DOMAIN x.k.sym \ {x.k.choice}, val \in S!Tristate : SetSymbol(s, val, st)
Press(k, keys, Pressed(_, _)) == kind = k /\ kind' = k /\ x.ret = W!Open /\ \E key \in keys : x' = Pressed(x, key)
Resized(b, key) == W!MenuKey(b, key, IF b.height = 4 THEN 2 ELSE 5)
Reopened == kind = "menu" /\ kind' = kind /\ x.ret \in {0, 5} /\ x' = W!MenuBox(x.hot, x.height, x.selected, x.saved)
Again == kind \notin {"start", "build", "session", "conf"} /\ kind' = "start" /\ x' = <<>>

Input ==
  \/ \E k \in {"text", "line", "name", "file", "list", "utf8", "utf16", "kconfig", "symbols", "output", "build", "box", "prompt", "label"} : Begin(k)
  \/ Grow("text", TextChars, MaxText)
  \/ Grow("line", LineChars, MaxLine)
  \/ Grow("name", NameChars, MaxName)
  \/ Choose("start", "strings", {<<a, b>> : a \in SeqOf(Chars, MaxString), b \in SeqOf(Chars, 2)})
  \/ Choose("start", "memory", Regions)
  \/ Choose("output", "directive", Directives)
  \/ Choose("output", "hundred", 0 .. 999)
  \/ Choose("output", "quantity", 0 .. 4095)
  \/ Choose("output", "dump", {[buf |-> [i \in 1 .. n |-> (37 * i) % 256], row |-> r, group |-> g] : n \in {0, 1, 4, 8, 15, 16, 40}, r \in {16, 32}, g \in {1, 2, 4, 8}})
  \/ Choose("output", "message", SeqOf({SOH, "1", "7", "c", "z"}, 5))
  \/ Choose("output", "banner", {<<n, v, t>> : n \in 0 .. 9, v \in {<<>>, <<"v">>, <<"v", "v", "v", "v">>}, t \in {<<>>, <<"t", "t">>}})
  \/ Grow("file", D!Word \union {"-"}, 5)
  \/ Grow("list", {"t:", "g", "f", "h"}, 5)
  \/ Grow("utf8", Utf8Bytes, 4)
  \/ Grow("utf16", Utf16Units, 4)
  \/ Choose("start", "code", Codes)
  \/ Choose("start", "delay", (0 .. 60) \X {37, 100, 130, 200, 250})
  \/ Choose("kconfig", "condition", Leaves \union Junctions(Leaves) \union {S!Not(e) : e \in Junctions(Leaves)})
  \/ Choose("kconfig", "conditions", FewTerms \X FewTerms)
  \/ Choose("kconfig", "graph", PlainGraphs \union ChoiceGraphs)
  \/ Choose("symbols", "config", Configurations)
  \/ kind = "config" /\ kind' = kind /\ Set(S!CalcAll(x.k, x.u, x.mods))
  \/ Choose("box", "menu", Menus)
  \/ Press("menu", MenuKeys, Resized)
  \/ Reopened
  \/ Choose("box", "check", Checks)
  \/ Press("check", CheckKeys, W!CheckKey)
  \/ Choose("box", "buttons", {W!Buttons})
  \/ Press("buttons", {"left", "right", "enter", "y", "resize", "esc"}, W!YesNoKey)
  \/ Choose("box", "input", {W!InputBox(line, width) : line \in Lines, width \in 1 .. 3})
  \/ Press("input", InputKeys, W!InputKey)
  \/ Choose("box", "form", {W!FormBox(line, width) : line \in Lines, width \in 1 .. 3})
  \/ kind = "form" /\ Len(x.text) <= 3 /\ Press("form", FormKeys, W!FormKey)
  \/ Choose("box", "page", {W!TextBox(text, h, update, 0, 0) : text \in Texts, h \in 1 .. 3, update \in BOOLEAN})
  \/ Press("page", TextKeys, W!TextKey)
  \/ Choose("box", "scroll", {W!ScrollBox(total, cols, lines, 8) : total \in 1 .. 9, cols \in {2, 6}, lines \in {7, 9, 30}})
  \/ Press("scroll", ScrollKeys, W!ScrollKey)
  \/ Choose("box", "find", {W!FindBox(items, height) : items \in SeqOf({<<"a">>, <<"a", "b">>}, 4) \ {<<>>}, height \in 1 .. 3})
  \/ kind = "find" /\ Len(x.pattern) < 3 /\ Press("find", FindKeys, W!do_match)
  \/ Choose("box", "jumps", Offsets)
  \/ Grow("prompt", {"a", " ", "\n"}, 6)
  \/ Grow("label", {"a", "n", "<", ">"}, 5)
  \/ Choose("start", "tree", {M!_menu_init}) \/ AddEntry \/ AddMenu \/ EndMenu
  \/ Again

Next ==
  \/ Input /\ UNCHANGED <<kvars, session, configuring>>
  \/ kind = "build" /\ KNext /\ UNCHANGED <<kind, x, session, configuring>>
  \/ kind = "session" /\ Z!SessionNext /\ UNCHANGED <<kind, x, kvars, configuring>>
  \/ kind = "conf" /\ Z!ConfNext /\ UNCHANGED <<kind, x, kvars>>

Spec == Init /\ [][Next]_<<kind, x, kvars, session, configuring>>



MemoryAgrees ==
  /\ \A c \in {0, 1} : MemoryRightFor(x.mem, x.d, x.s, x.n, c)
  /\ \A size \in {1, 2} : size * x.n + 3 <= 8 =>
       LET same == {i \in 0 .. x.n - 1 : \A j \in 0 .. size - 1 : x.mem[x.d + i * size + j] = x.mem[x.s + i * size + j]}
           filled == Fill(x.mem, x.d, size, 2, x.n)
       IN /\ Good(x.mem, x.d, x.s, size, x.n, 0) = Min({i \in 0 .. x.n : i \notin same})
          /\ filled = [a \in DOMAIN x.mem |->
               IF a \in x.d .. x.d + size * x.n - 1 THEN (IF (a - x.d) % size = 1 THEN 1 ELSE 0) ELSE x.mem[a]]

(* The string routines of lib/string.c agree with the text they stand for, *)
(* and the listing of commands comes out sorted.  fixdep finds the symbols *)
(* a file names, and the stamp it depends on is the one that is touched.   *)
(* The memory routines are exact for every overlap and alignment of their  *)
(* areas, and so are the fill and the comparison of the memory commands.   *)
StringsAgree ==
  /\ kind = "strings" =>
       /\ \A n \in 0 .. 3 : StringsRightFor(x[1], x[2], n)
       /\ (200 \notin Range(x[1]) \union Range(x[2])) => HelpSorted(<<x[1], x[2], <<97>>>>)
  /\ kind = "file" => D!UsesRight(x) /\ D!PathsAgree(x)
  /\ kind = "list" => D!ListRight(x)
  /\ kind = "memory" => MemoryAgrees



(* The rewritings of conditions in scripts/kconfig/expr.c and menu.c keep  *)
(* the value a condition has under every assignment of its symbols, and    *)
(* sym_check_deps() finds a recursive dependency when there is one.        *)
RewritesAgree ==
  /\ kind = "graph" => S!DependenciesRight(x.deps, x.g, x.order)
  /\ kind = "condition" => S!RewriteRight(x, {"A", "T", "U"})
  /\ kind = "conditions" =>
       /\ S!PairRight(x[1], x[2], {"A", "T"})
       /\ \A e \in {<<"and", x[1], x[2]>>, <<"or", x[1], x[2]>>, S!Not(<<"or", x[1], x[2]>>)} : S!RewriteRight(e, {"A", "T"})

(* After any settings of the user, one accepted takes effect, a choice has *)
(* one member, and the file conf_write() or conf_write_defconfig() saves   *)
(* gives the same configuration when it is loaded.                         *)
ConfigurationKept == kind = "config" => S!SymbolsHold(x.k, x.u, S!CalcAll(x.k, x.u, x.mods), x.mods)

=============================================================================
