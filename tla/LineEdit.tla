------------------------------- MODULE LineEdit -------------------------------
(***************************************************************************)
(* The line editor of common/cli_readline.c as the program keeps it: the   *)
(* console buffer with the cursor num and the end eol_num, the escape      *)
(* sequence read so far, the history ring, and the line on the terminal    *)
(* behind the prompt, which the editor repaints with spaces and            *)
(* backspaces.  clean is FALSE once a control character has been echoed:   *)
(* what the terminal shows from then on is not followed.                   *)
(***************************************************************************)
EXTENDS MemCmds

CONSTANTS HIST_MAX

VARIABLES tty, size   \* size is CONFIG_SYS_CBSIZE; never changes

ESC == "esc"
Controls == {ESC, "^A", "^B", "^C", "^D", "^E", "^F", "^H", "^K", "^N", "^O", "^P", "^U", "\t"}

(* The terminal: characters overwrite, a backspace moves left. *)
Blank == [i \in 0 .. size + 1 |-> " "]
Puts(t, s) ==
  IF ~t.clean \/ \E i \in DOMAIN s : s[i] \in Controls
  THEN [t EXCEPT !.clean = FALSE, !.scr = Blank, !.col = 0]
  ELSE [t EXCEPT !.scr = [i \in DOMAIN @ |-> IF i \in t.col .. t.col + Len(s) - 1 THEN s[i - t.col + 1] ELSE @[i]],
                 !.col = @ + Len(s)]
Put(t, c) == Puts(t, <<c>>)
Back(t, n) == IF t.clean THEN [t EXCEPT !.col = @ - n] ELSE t
putnstr(t, from, n) == Puts(t, [i \in 1 .. n |-> t.buf[from + i - 1]])
Spaces(n) == [i \in 1 .. n |-> " "]

(* memmove() within the buffer. *)
BufMove(buf, d, s, n) == [i \in DOMAIN buf |-> IF i \in d .. d + n - 1 THEN buf[i - d + s] ELSE buf[i]]

BEGINNING_OF_LINE(t) == [Back(t, t.num) EXCEPT !.num = 0]
ERASE_TO_EOL(t) == [Back(Puts(t, Spaces(t.eol - t.num)), t.eol - t.num) EXCEPT !.eol = t.num]
REFRESH_TO_EOL(t) == [putnstr(t, t.num, t.eol - t.num) EXCEPT !.num = t.eol]

NoRoom(t) == t.eol > size - 1
cread_add_char(t, c) ==
  LET grow == t.insert \/ t.num = t.eol
      eol == IF grow THEN t.eol + 1 ELSE t.eol
      wlen == IF t.insert THEN eol - t.num ELSE 1
      buf == IF t.insert THEN BufMove(t.buf, t.num + 1, t.num, wlen - 1) ELSE t.buf
      new == [t EXCEPT !.buf = [buf EXCEPT ![t.num] = c], !.eol = eol]
  IN IF grow /\ NoRoom(t) THEN t
     ELSE [Back(putnstr(new, t.num, wlen), wlen - 1) EXCEPT !.num = t.num + 1]
RECURSIVE cread_add_str(_, _)
cread_add_str(t, s) == IF s = <<>> THEN t ELSE cread_add_str(cread_add_char(t, Head(s)), Tail(s))

-----------------------------------------------------------------------------
(* The history ring. *)
hist_init == [list |-> [i \in 0 .. HIST_MAX - 1 |-> <<>>], max |-> 0, add |-> 0, cur |-> -1]

cread_add_to_hist(h, line) ==
  LET add == IF h.add + 1 >= HIST_MAX THEN 0 ELSE h.add + 1
  IN [h EXCEPT !.list[h.add] = line, !.add = add, !.max = IF add > @ THEN add ELSE @]

hist_prev(h) ==
  LET cur == IF h.cur - 1 < 0 THEN h.max ELSE h.cur - 1
  IN IF h.cur < 0 \/ cur = h.add THEN [ok |-> FALSE, h |-> h]
     ELSE [ok |-> TRUE, h |-> [h EXCEPT !.cur = cur], line |-> h.list[cur]]

hist_next(h) ==
  LET cur == IF h.cur + 1 > h.max THEN 0 ELSE h.cur + 1
  IN IF h.cur < 0 \/ h.cur = h.add THEN [ok |-> FALSE, h |-> h]
     ELSE [ok |-> TRUE, h |-> [h EXCEPT !.cur = cur], line |-> IF cur = h.add THEN <<>> ELSE h.list[cur]]

WriteStr(buf, s) == [i \in DOMAIN buf |-> IF i < Len(s) THEN s[i + 1] ELSE IF i = Len(s) THEN NUL ELSE buf[i]]

Recall(t, r) ==
  LET e == ERASE_TO_EOL(BEGINNING_OF_LINE([t EXCEPT !.hist = r.h]))
  IN IF ~r.ok THEN t
     ELSE REFRESH_TO_EOL([e EXCEPT !.buf = WriteStr(@, r.line), !.eol = Len(r.line)])

-----------------------------------------------------------------------------
Text(t) == [i \in 1 .. t.eol |-> t.buf[i - 1]]

(* TAB, at the end of the line only. *)
Completed(t, c) ==
  LET b == [t EXCEPT !.buf[t.num] = NUL]
      shown == Puts([b EXCEPT !.scr = Blank, !.col = 0, !.clean = TRUE], Text(t))
      grown == [b EXCEPT !.buf = WriteStr(@, Text(t) \o c.add), !.num = @ + Len(c.add), !.eol = @ + Len(c.add)]
  IN IF c.list THEN shown ELSE Puts(grown, c.add)
Complete(t) == IF t.num < t.eol THEN t ELSE Completed(t, cmd_auto_complete(Text(t), size))

DeleteUnder(t) ==
  LET wlen == t.eol - t.num - 1
      new == [t EXCEPT !.buf = BufMove(@, t.num, t.num + 1, wlen), !.eol = @ - 1]
  IN IF t.num < t.eol THEN Back(Put(putnstr(new, t.num, wlen), " "), wlen + 1) ELSE t

DeleteBefore_noSpace(t) ==
  LET wlen == t.eol - t.num
      new == [Back(t, 1) EXCEPT !.buf = BufMove(@, t.num - 1, t.num, wlen), !.num = @ - 1, !.eol = @ - 1]
  IN IF t.num > 0 THEN Back(putnstr(new, new.num, wlen), wlen) ELSE t
DeleteBefore(t) ==
  LET wlen == t.eol - t.num
      new == [Back(t, 1) EXCEPT !.buf = BufMove(@, t.num - 1, t.num, wlen), !.num = @ - 1, !.eol = @ - 1]
  IN IF t.num > 0 THEN Back(Put(putnstr(new, new.num, wlen), " "), wlen + 1) ELSE t

(* The switch over a character or a decoded key. *)
Handle(t, c) ==
  CASE c = ESC -> [t EXCEPT !.esc = <<ESC>>]
    [] c = "^A" -> BEGINNING_OF_LINE(t)
    [] c = "^F" -> IF t.num < t.eol THEN [Put(t, t.buf[t.num]) EXCEPT !.num = @ + 1] ELSE t
    [] c = "^B" -> IF t.num > 0 THEN [Back(t, 1) EXCEPT !.num = @ - 1] ELSE t
    [] c = "^D" -> DeleteUnder(t)
    [] c = "^K" -> ERASE_TO_EOL(t)
    [] c = "^E" -> REFRESH_TO_EOL(t)
    [] c = "^O" -> [t EXCEPT !.insert = ~@]
    [] c = "^U" -> ERASE_TO_EOL(BEGINNING_OF_LINE(t))
    [] c = "^H" -> DeleteBefore(t)
    [] c = "^P" -> Recall(t, hist_prev(t.hist))
    [] c = "^N" -> Recall(t, hist_next(t.hist))
    [] c = "\t" -> Complete(t)
    [] OTHER -> cread_add_char(t, c)

(* One turn of the loop of cread_line() on a character that does not end   *)
(* the line: while an escape sequence is being read the character may be   *)
(* kept, converted, or the whole sequence taken as text.                   *)
Converted(esc, c) ==
  CASE Len(esc) = 2 /\ c = "D" -> "^B"
    [] Len(esc) = 2 /\ c = "C" -> "^F"
    [] Len(esc) = 2 /\ c = "H" -> "^A"
    [] Len(esc) = 2 /\ c = "F" -> "^E"
    [] Len(esc) = 2 /\ c = "A" -> "^P"
    [] Len(esc) = 2 /\ c = "B" -> "^N"
    [] Len(esc) = 3 /\ c = "~" /\ esc[3] = "3" -> "^D"
    [] Len(esc) = 3 /\ c = "~" /\ esc[3] \in {"1", "7"} -> "^A"
    [] Len(esc) = 3 /\ c = "~" /\ esc[3] \in {"4", "8"} -> "^E"
    [] OTHER -> NUL
Saved(esc, c) ==
  \/ Len(esc) = 1 /\ c \in {"[", "O"}
  \/ Len(esc) = 2 /\ c \in {"1", "3", "4", "7", "8"} /\ esc[2] = "["

cread_char(t, c) ==
  LET done == [t EXCEPT !.esc = <<>>]
  IN CASE t.esc = <<>> -> Handle(t, c)
       [] t.esc # <<>> /\ Saved(t.esc, c) -> [t EXCEPT !.esc = Append(@, c)]
       [] t.esc # <<>> /\ Converted(t.esc, c) # NUL -> Handle(done, Converted(t.esc, c))
       [] OTHER -> cread_add_str(done, Append(t.esc, c))

RECURSIVE cread_word(_, _)
cread_word(t, w) == IF w = <<>> THEN t ELSE cread_word(cread_char(t, Head(w)), Tail(w))

(* The end of cread_line(), and the start of the next call behind a new    *)
(* prompt.  The code clears the first byte of the buffer; what stands      *)
(* behind it is left from an earlier line and is not kept here.            *)
EndLine(t) ==
  LET line == Text(t)
      h == IF line # <<>> /\ line[1] # "!" THEN cread_add_to_hist(t.hist, line) ELSE t.hist
  IN [t EXCEPT !.buf[t.eol] = NUL, !.hist = [h EXCEPT !.cur = h.add]]

cli_readline(t) ==
  [t EXCEPT !.buf = [i \in DOMAIN @ |-> NUL], !.num = 0, !.eol = 0, !.insert = TRUE, !.esc = <<>>,
            !.scr = Blank, !.col = 0, !.clean = TRUE]

InitTty ==
  tty = [buf |-> [i \in 0 .. size |-> NUL], num |-> 0, eol |-> 0, insert |-> TRUE, esc |-> <<>>,
         hist |-> hist_init, scr |-> Blank, col |-> 0, clean |-> TRUE]
=============================================================================
