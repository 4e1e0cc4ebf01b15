------------------------------ MODULE MCConsole ------------------------------
(* Two consoles: a tiny buffer on which every key is tried one by one, and *)
(* a longer one on which whole commands are typed.                         *)
EXTENDS Console

Tiny == 2
Long == 22

Cmd(name, maxargs, rep, do) == [name |-> name, maxargs |-> maxargs, rep |-> rep, do |-> do]
MCTable == <<Cmd(<<"b", "a", "s", "e">>, 2, TRUE, "base"),
             Cmd(<<"c", "m", "p">>, 4, TRUE, "cmp"),
             Cmd(<<"c", "p">>, 4, TRUE, "cp"),
             Cmd(<<"d", "e", "b", "u", "g">>, 2, FALSE, "debug"),
             Cmd(<<"d", "i", "s", "p", "l", "a", "y">>, MAXARGS, FALSE, "display"),
             Cmd(<<"g", "i", "c", "v", "3">>, MAXARGS, FALSE, "module"),
             Cmd(<<"h", "e", "l", "p">>, MAXARGS, TRUE, "help"),
             Cmd(<<"m", "d">>, 3, TRUE, "md"),
             Cmd(<<"m", "w">>, 4, TRUE, "mw"),
             Cmd(<<"?">>, MAXARGS, TRUE, "help"),
             Cmd(<<"u", "a", "r", "t">>, MAXARGS, FALSE, "module"),
             Cmd(<<"v", "e", "r", "s", "i", "o", "n">>, 1, TRUE, "version")>>

TinyWords == {<<k>> : k \in Controls \union {"a"}}
MCEscWords == {<<k>> : k \in {"[", "3", "~", "^C"}}
MdB == <<"m", "d", ".", "b", " ", "1", " ", "2">>
MdW == <<"m", "d", ".", "w", " ", "2">>
MwB == <<"m", "w", ".", "b", " ", "2", " ", "1">>
Base == <<"b", "a", "s", "e", " ", "1">>
Uart == <<"u", "a", "r", "t", " ", "t", " ", "1">>
Semi == <<";">>
LongWords == {MdB, MdW, MwB, Base, Uart, <<"v">>, <<"\t">>, Semi, <<"!">>,
              <<ESC, "[", "A">>}

LongLines == {<<>>, MdB, MwB \o Semi \o MdW, Base, Uart \o Semi \o MdB, <<"!">>}

MCWords(n) == IF n = Tiny THEN TinyWords ELSE LongWords
MCLines(n) == IF n = Tiny THEN {<<>>, <<"a">>, <<"a", "a">>}
              ELSE LongLines
MCMaxTyped(n) == IF n = Tiny THEN 0 ELSE 3
MCMaxLines(n) == IF n = Tiny THEN 0 ELSE 3
=============================================================================
