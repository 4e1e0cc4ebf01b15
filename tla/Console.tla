------------------------------- MODULE Console -------------------------------
(***************************************************************************)
(* The command loop: keys reach the line editor, a finished line becomes   *)
(* the command that is run and remembered, an empty one runs the           *)
(* remembered command again (cli_simple_loop() in common/cli_simple.c).    *)
(***************************************************************************)
EXTENDS LineEdit

CONSTANTS Sizes,        \* the buffer sizes looked at
          Words(_),     \* the words of keys that arrive, for a size
          EscWords,     \* the keys that arrive while an escape sequence is open
          Lines(_),     \* the lines that are entered, for a size
          MaxTyped(_),  \* words per line, 0 for no bound
          MaxLines(_),  \* lines, 0 for no bound
          RamSize

VARIABLES shell,        \* lastcommand and rc of the loop, and the commands' state
          typed, lines  \* counters for the bounds

vars == <<tty, size, shell, typed, lines>>

Count(n, max) == IF max = 0 THEN 0 ELSE n + 1
Below(n, max) == max = 0 \/ n < max

Init ==
  /\ size \in Sizes
  /\ InitTty
  /\ shell = [last |-> <<>>, rc |-> 1, cmds |-> InitCmds([a \in 0 .. RamSize - 1 |-> 0])]
  /\ typed = 0 /\ lines = 0

(* A word has a size suffix: completing it is left out, see CmdLine. *)
Suffixed(t) == Contains(Text(t), ".")

Keys(w) ==
  /\ Below(typed, MaxTyped(size)) /\ Below(lines, MaxLines(size))
  /\ w \in IF tty.esc = <<>> THEN Words(size) \ {<<"^C">>} ELSE EscWords
  /\ w = <<"\t">> => ~Suffixed(tty)
  /\ tty' = cread_word(tty, w)
  /\ typed' = Count(typed, MaxTyped(size))
  /\ UNCHANGED <<size, shell, lines>>

(* lastcommand is kept only when the line can be repeated. *)
Forget(sh) == IF sh.rc <= 0 THEN [sh EXCEPT !.last = <<>>] ELSE sh

Outcome(last, r) == [last |-> last, rc |-> r.rc, cmds |-> r.s]
Enter ==
  LET line == Text(tty)
      last == IF line # <<>> THEN line ELSE shell.last
  IN /\ Below(lines, MaxLines(size)) /\ line \in Lines(size)
     /\ \E verdict \in {SUCCESS, FAILURE}, before \in {NUL, "\\"} :
          shell' = Forget(Outcome(last, cli_simple_run_command(shell.cmds, last, size, line = <<>>, verdict, before)))
     /\ tty' = cli_readline(EndLine(tty))
     /\ typed' = 0 /\ lines' = Count(lines, MaxLines(size))
     /\ UNCHANGED size

(* After ^C the return code of the command before is looked at again. *)
AfterInterrupt_minus(sh) == Forget([sh EXCEPT !.rc = -1])
AfterInterrupt(sh) == Forget(sh)

Interrupt ==
  /\ tty.esc = <<>>
  /\ tty' = cli_readline(tty)
  /\ shell' = AfterInterrupt(shell)
  /\ typed' = 0
  /\ UNCHANGED <<size, lines>>

Next == Enter \/ Interrupt \/ \E w \in Words(size) \union EscWords : Keys(w)

Spec == Init /\ [][Next]_vars

-----------------------------------------------------------------------------
(* The buffer and the ring as the abstract editor sees them. *)
Slots == tty.hist.max + 1
View ==
  [left |-> SubSeq(Text(tty), 1, tty.num), right |-> SubSeq(Text(tty), tty.num + 1, tty.eol),
   insert |-> tty.insert, pend |-> tty.esc,
   shelf |-> [i \in 1 .. tty.hist.max |-> tty.hist.list[(tty.hist.add + i) % Slots]],
   pos |-> IF tty.hist.cur < 0 THEN 1 ELSE ((tty.hist.cur - tty.hist.add - 1) % Slots) + 1]

E == INSTANCE Editor WITH ed <- View, ShelfSize <- HIST_MAX - 1, Names <- {Table[i].name : i \in DOMAIN Table}


(* As long as no control character was echoed, what the editor has painted *)
(* with characters, spaces and backspaces is exactly the line, with the    *)
(* terminal's cursor at num.                                               *)
ScreenShowsLine ==
  tty.clean =>
    /\ tty.col = tty.num
    /\ \A i \in DOMAIN tty.scr : tty.scr[i] = IF i < tty.eol THEN tty.buf[i] ELSE " "

CommandsOf(line) == LET t == Tokens(line, NUL) IN [i \in DOMAIN t |-> Args(t[i])]
Displays(line) == SelectSeq(CommandsOf(line), LAMBDA a : a # <<>> /\ Table[find_cmd(a[1])].do = "md")

(* A remembered command is safe to repeat: each of its commands is known   *)
(* and repeatable, and if it displays memory, the size that a repeated     *)
(* display divides by is the one that this very line has set.              *)
RepeatSafe ==
  shell.last # <<>> =>
    /\ \A i \in DOMAIN CommandsOf(shell.last) :
         LET a == CommandsOf(shell.last)[i] IN a # <<>> /\ find_cmd(a[1]) # 0 /\ Table[find_cmd(a[1])].rep
    /\ LET d == Displays(shell.last)
       IN d # <<>> => shell.cmds.size = cmd_get_data_size(Last(d)[1], 4) /\ shell.cmds.size > 0

(* Enter on an empty line carries a display on: it starts where the last   *)
(* one ended and is as long, whatever was edited, recalled or interrupted  *)
(* in between.                                                             *)
DisplayContinues ==
  [][(shell.last # <<>> /\ Text(tty) = <<>> /\ Len(Displays(shell.last)) = 1 /\ Enter) =>
       LET old == shell.cmds.shown new == shell'.cmds.shown
       IN /\ new.from = old.to /\ new.size = old.size
          /\ (new.to - new.from) % Modulus = (old.to - old.from) % Modulus]_vars

(* ^C gives up the line being typed and nothing else: the remembered       *)
(* command, its effects and the history stay, although the loop looks once *)
(* more at the return code of the command before.                          *)
InterruptHarmless ==
  [][Interrupt => shell' = shell /\ tty'.hist = tty.hist]_vars
=============================================================================
