------------------------------- MODULE CmdLine -------------------------------
(***************************************************************************)
(* The text side of the command interpreter: splitting a line into         *)
(* commands and arguments (common/cli_simple.c), finding a command in the  *)
(* table and completing its name (common/command.c).  A string is a        *)
(* sequence of characters without its terminating null.                    *)
(***************************************************************************)
EXTENDS Numbers, FiniteSetsExt

CONSTANTS MAXARGS,   \* CONFIG_SYS_MAXARGS
          Table      \* the linker list of commands: [name, maxargs, rep, do]

(* An argument vector: its entries, and whether a NULL follows them. *)
Argv(args, ended) == [args |-> args, ended |-> ended]

RECURSIVE SkipBlanks(_)
SkipBlanks(s) == IF s # <<>> /\ isblank(Head(s)) THEN SkipBlanks(Tail(s)) ELSE s
RECURSIVE WordLen(_, _)
WordLen(s, n) == IF n < Len(s) /\ ~isblank(s[n + 1]) THEN WordLen(s, n + 1) ELSE n

(* One turn of the loop that cli_simple_parse_line() and make_argv() share;*)
(* they differ in what is left behind when the vector is full.             *)
RECURSIVE Split_all(_, _, _)
Split_all(line, args, ended) ==
  LET s == SkipBlanks(line)
      n == WordLen(s, 0)
      more == Append(args, SubSeq(s, 1, n))
  IN CASE Len(args) > MAXARGS -> Argv(args, ended)
       [] Len(args) <= MAXARGS /\ s = <<>> -> Argv(args, TRUE)
       [] Len(args) <= MAXARGS /\ s # <<>> /\ n = Len(s) -> Argv(more, TRUE)
       [] OTHER -> Split_all(Drop(s, n + 1), more, ended)
RECURSIVE Split(_, _, _)
Split(line, args, ended) ==
  LET s == SkipBlanks(line)
      n == WordLen(s, 0)
      more == Append(args, SubSeq(s, 1, n))
  IN CASE Len(args) = MAXARGS -> Argv(args, ended)
       [] Len(args) < MAXARGS /\ s = <<>> -> Argv(args, TRUE)
       [] Len(args) < MAXARGS /\ s # <<>> /\ n = Len(s) -> Argv(more, TRUE)
       [] OTHER -> Split(Drop(s, n + 1), more, ended)

cli_simple_parse_line(line) == Split(line, <<>>, FALSE)
make_argv(s) == Split(s, <<>>, TRUE)

-----------------------------------------------------------------------------
(* cli_simple_process_macros().  No environment is built in, so a variable *)
(* expands to nothing.  m is [out, state, prev]; the text left is s.       *)
Emit(m, c) == [m EXCEPT !.out = @ \o c]

MacroChar(m, c, prev) ==
  LET q == c = "'" /\ prev # "\\"
      n == CASE m.state = 0 /\ q -> [m EXCEPT !.state = 3]
             [] m.state = 0 /\ c = "$" /\ prev # "\\" -> [m EXCEPT !.state = 1]
             [] m.state = 1 /\ c \in {"(", "{"} -> [m EXCEPT !.state = 2]
             [] m.state = 1 /\ c \notin {"(", "{"} -> Emit([m EXCEPT !.state = 0], <<"$", c>>)
             [] m.state = 2 -> [m EXCEPT !.state = IF c \in {")", "}"} THEN 0 ELSE 2]
             [] m.state = 3 /\ q -> [m EXCEPT !.state = 0]
             [] OTHER -> Emit(m, <<c>>)
  IN [n EXCEPT !.prev = c]

RECURSIVE Macros(_, _)
Macros(s, m) ==
  IF s = <<>> THEN m.out
  ELSE IF m.state # 3 /\ Head(s) = "\\" /\ m.prev # "\\"
  THEN IF Len(s) = 1 THEN m.out ELSE Macros(Drop(s, 2), MacroChar(m, s[2], "\\"))
  ELSE Macros(Tail(s), MacroChar(m, Head(s), m.prev))

cli_simple_process_macros(s) == Macros(s, [out |-> <<>>, state |-> 0, prev |-> NUL])

(* The separators of cli_simple_run_command(): where the token that starts *)
(* the text ends.  before is the byte in front of the text.                *)
RECURSIVE SepFrom(_, _, _, _)
SepFrom(s, i, inquotes, before) ==
  LET prev == IF i = 1 THEN before ELSE s[i - 1]
      q == IF s[i] = "'" /\ prev # "\\" THEN ~inquotes ELSE inquotes
  IN CASE i > Len(s) -> i
       [] i <= Len(s) /\ ~q /\ s[i] = ";" /\ i > 1 /\ prev # "\\" -> i
       [] OTHER -> SepFrom(s, i + 1, q, before)

RECURSIVE Tokens(_, _)
Tokens(s, before) ==
  IF s = <<>> THEN <<>>
  ELSE LET i == SepFrom(s, 1, FALSE, before)
       IN <<SubSeq(s, 1, i - 1)>> \o Tokens(Drop(s, i), NUL)

-----------------------------------------------------------------------------
(* find_cmd_tbl(): the index of the entry, 0 for NULL. *)
NameLen(cmd) == IF Contains(cmd, ".") THEN SelectInSeq(cmd, LAMBDA c : c = ".") - 1 ELSE Len(cmd)
Matches(cmd, name) == \A i \in 1 .. NameLen(cmd) : Nth(name, i) = cmd[i]

RECURSIVE FindFrom(_, _, _, _, _)
FindFrom(cmd, table, i, temp, n_found) ==
  IF i > Len(table) THEN IF n_found = 1 THEN temp ELSE 0
  ELSE CASE ~Matches(cmd, table[i].name) -> FindFrom(cmd, table, i + 1, temp, n_found)
         [] Matches(cmd, table[i].name) /\ NameLen(cmd) = Len(table[i].name) -> i
         [] OTHER -> FindFrom(cmd, table, i + 1, i, n_found + 1)

find_cmd_tbl(cmd, table) == FindFrom(cmd, table, 1, 1, 0)
find_cmd(cmd) == find_cmd_tbl(cmd, Table)

(* complete_subcmdv(): no entry of the table has a completer of its own,   *)
(* so that with a further argument nothing is offered.                     *)
Dots == <<".", ".", ".">>

RECURSIVE Offer(_, _, _, _)
Offer(word, i, maxv, cmdv) ==
  CASE i > Len(Table) -> cmdv
    [] i <= Len(Table) /\ ~IsPrefix(word, Table[i].name) -> Offer(word, i + 1, maxv, cmdv)
    [] i <= Len(Table) /\ IsPrefix(word, Table[i].name) /\ Len(cmdv) >= maxv - 2 -> Append(cmdv, Dots)
    [] OTHER -> Offer(word, i + 1, maxv, Append(cmdv, Table[i].name))

complete_cmdv(args, last_char, maxv) ==
  CASE args = <<>> -> Offer(<<>>, 1, maxv, <<>>)
    [] args # <<>> /\ (Len(args) > 1 \/ last_char = NUL \/ isblank(last_char)) -> <<>>
    [] OTHER -> Offer(SubSeq(args[1], 1, NameLen(args[1])), 1, maxv, <<>>)

RECURSIVE SharedLen(_, _, _)
SharedLen(s, t, i) == IF i < Len(s) /\ Nth(t, i + 1) = s[i + 1] THEN SharedLen(s, t, i + 1) ELSE i
RECURSIVE CommonLen(_, _, _)
CommonLen(anchor, cmdv, len) ==
  IF cmdv = <<>> THEN len
  ELSE CommonLen(anchor, Tail(cmdv), SharedLen(SubSeq(anchor, 1, len), Head(cmdv), 0))
find_common_prefix(cmdv) == CommonLen(cmdv[1], Tail(cmdv), Len(cmdv[1]))

(* cmd_auto_complete() on the text buf, with size bytes of buffer: what is *)
(* added to the text, and whether the list of candidates is shown.  The    *)
(* word has no size suffix: behind one the code reads past the name.       *)
MaxOffers == 20
Addition(cmdv, k) ==
  CASE Len(cmdv) = 1 -> Append(Drop(cmdv[1], k), " ")
    [] Len(cmdv) > 1 /\ find_common_prefix(cmdv) > k -> SubSeq(cmdv[1], k + 1, find_common_prefix(cmdv))
    [] OTHER -> <<>>
Completion(cmdv, add, room) ==
  [add |-> IF Len(add) >= room THEN <<>> ELSE add, list |-> Len(cmdv) > 1 /\ add = <<>>]
Candidates(cmdv, k, room) == Completion(cmdv, Addition(cmdv, k), room)
cmd_auto_complete(buf, size) ==
  LET last_char == IF buf = <<>> THEN NUL ELSE Last(buf)
      args == make_argv(buf).args
      k == IF last_char # NUL /\ ~isblank(last_char) THEN Len(Last(args)) ELSE 0
  IN Candidates(complete_cmdv(args, last_char, MaxOffers), k, size - 2 - Len(buf))

(* cmd_get_data_size(), with 64 bit data support. *)
cmd_get_data_size(arg, default) ==
  LET n == Len(arg)
  IN IF ~(n > 2 /\ arg[n - 1] = ".") THEN default
     ELSE CASE arg[n] = "b" -> 1
            [] arg[n] = "w" -> 2
            [] arg[n] = "l" -> 4
            [] arg[n] = "q" -> 8
            [] arg[n] = "s" -> -2
            [] OTHER -> -1
-----------------------------------------------------------------------------
(* What the functions above promise, said without their loops. *)
Starts(s) == {i \in DOMAIN s : ~isblank(s[i]) /\ (i = 1 \/ isblank(s[i - 1]))}
Stop(s, i) == Min({j \in i .. Len(s) + 1 : j > Len(s) \/ isblank(s[j])})
WordsOf(s) == LET at == SetToSortSeq(Starts(s), <) IN [k \in DOMAIN at |-> SubSeq(s, at[k], Stop(s, at[k]) - 1)]

(* The arguments of a line are its first MAXARGS words; the vector is left *)
(* without its terminating NULL exactly when MAXARGS words are followed by *)
(* a blank, although include/cli.h promises it without exception.          *)
ParseRight(s) ==
  LET words == WordsOf(s)
      full == Len(words) >= MAXARGS
      at == SetToSortSeq(Starts(s), <)
      blank == full /\ Stop(s, at[MAXARGS]) <= Len(s)
      r == cli_simple_parse_line(s)
  IN /\ r.args = SubSeq(words, 1, IF full THEN MAXARGS ELSE Len(words))
     /\ r.ended = ~blank
     /\ make_argv(s) = Argv(r.args, TRUE)

(* Cutting a line at its separators loses nothing, no command of it holds  *)
(* a separator that is neither quoted, escaped nor its first character,    *)
(* and each cut is at one that is neither.                                 *)
Toggles(tok, n, before) ==
  Cardinality({j \in 1 .. n : tok[j] = "'" /\ (IF j = 1 THEN before ELSE tok[j - 1]) # "\\"})
TokensRight(s, before) ==
  LET toks == Tokens(s, before)
      Front1(k) == IF k = 1 THEN before ELSE NUL
      Quoted(k, n) == Toggles(toks[k], n, Front1(k)) % 2 = 1
      joined == FoldLeft(LAMBDA a, k : (IF k = 1 THEN a ELSE Append(a, ";")) \o toks[k], <<>>, [k \in DOMAIN toks |-> k])
  IN /\ s \in {joined, Append(joined, ";")}
     /\ \A k \in DOMAIN toks : \A i \in 2 .. Len(toks[k]) :
          toks[k][i] = ";" => toks[k][i - 1] = "\\" \/ Quoted(k, i)
     /\ \A k \in 1 .. Len(toks) - 1 :
          toks[k] # <<>> /\ Last(toks[k]) # "\\" /\ ~Quoted(k, Len(toks[k]))

(* Macros, piece by piece: an escaped character stands for itself, a       *)
(* quoted piece is copied up to a quote that no backslash precedes, a      *)
(* variable vanishes, and a lone dollar keeps the character behind it.     *)
Upto(s, from, P(_)) == LET S == {j \in from .. Len(s) : P(j)} IN IF S = {} THEN Len(s) + 1 ELSE Min(S)
RECURSIVE Expand(_)
Expand(s) ==
  LET quote == Upto(s, 2, LAMBDA j : s[j] = "'" /\ s[j - 1] # "\\")
      at == IF Nth(s, 2) = "\\" THEN 3 ELSE 2
      close == Upto(s, at + 1, LAMBDA j : s[j] \in {")", "}"})
  IN CASE s = <<>> -> <<>>
       [] Nth(s, 1) = "\\" -> SubSeq(s, 2, Min({2, Len(s)})) \o Expand(Drop(s, 2))
       [] Nth(s, 1) = "'" -> SubSeq(s, 2, quote - 1) \o Expand(Drop(s, quote))
       [] Nth(s, 1) = "$" /\ at > Len(s) -> <<>>
       [] Nth(s, 1) = "$" /\ at <= Len(s) /\ s[at] \in {"(", "{"} -> Expand(Drop(s, close))
       [] Nth(s, 1) = "$" /\ at <= Len(s) /\ s[at] \notin {"(", "{"} -> <<"$", s[at]>> \o Expand(Drop(s, at))
       [] OTHER -> <<s[1]>> \o Expand(Tail(s))

(* Macro processing agrees with that reading wherever no two backslashes   *)
(* follow each other, and never makes a line longer.                       *)
MacrosRight(s) ==
  /\ (\A i \in 2 .. Len(s) : ~(s[i] = "\\" /\ s[i - 1] = "\\")) => cli_simple_process_macros(s) = Expand(s)
  /\ Len(cli_simple_process_macros(s)) <= Len(s)

(* A name finds the entry it spells out, else the only one it abbreviates, *)
(* up to a size suffix.                                                    *)
FindRight(cmd) ==
  LET stem == SubSeq(cmd, 1, Min({i \in 1 .. Len(cmd) + 1 : i > Len(cmd) \/ cmd[i] = "."}) - 1)
      exact == {i \in DOMAIN Table : Table[i].name = stem}
      abbreviated == {i \in DOMAIN Table : IsPrefix(stem, Table[i].name)}
  IN find_cmd(cmd) = IF exact # {} THEN Min(exact)
                     ELSE IF Cardinality(abbreviated) = 1 THEN Min(abbreviated) ELSE 0

=============================================================================
