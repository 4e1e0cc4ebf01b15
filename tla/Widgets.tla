------------------------------ MODULE Widgets ------------------------------
(***************************************************************************)
(* The boxes of menuconfig (scripts/kconfig/lxdialog) and nconfig          *)
(* (nconf.gui.c): what each key does to the position in a list, a line or  *)
(* a text, and which rows are repainted for it.  A box is a record; rows   *)
(* are what its window shows, <<item, highlighted>> or Bare.  The items of *)
(* a list are numbered from 0, and hot[i] is the letter item i is found    *)
(* by.  ret is what the box returns, -2 while it is open.                  *)
(***************************************************************************)
EXTENDS Integers, Sequences, FiniteSetsExt, SequencesExt

CONSTANT MAX_LEN

Bare == <<-1, FALSE>>
Open == -2
TooSmall == -3
KEY_ESC == 27
Least(S, other) == IF S = {} THEN other ELSE Min(S)
Lower(a, b) == IF a < b THEN a ELSE b
Upper(a, b) == IF a > b THEN a ELSE b

item_count(b) == Cardinality(DOMAIN b.hot)
Paint(b, item, row, lit) == [b EXCEPT !.rows[row] = <<item, lit>>]

-----------------------------------------------------------------------------
(* dialog_menu(), from do_resize to the first key.  choice, first_item and *)
(* button keep their values when the screen is resized; the buttons are    *)
(* drawn with the first one lit.  stale: the rows start at another item    *)
(* than scroll.                                                            *)
max_choice(b) == Lower(b.height, item_count(b))
print_arrows(b) ==
  [b EXCEPT !.up = b.scroll > 0, !.down = b.height < item_count(b) /\ b.scroll + b.height < item_count(b)]
Placed(b, choice, scroll, first) ==
  print_arrows([b EXCEPT !.choice = choice, !.scroll = scroll, !.first = first, !.stale = first # scroll, !.shown = 0,
    !.rows = [i \in 0 .. b.height - 1 |-> IF i < max_choice(b) THEN <<first + i, i = choice>> ELSE Bare]])
Centred(b, choice, scroll, first, max) ==
  IF choice < max THEN Placed(b, choice, scroll, first)
  ELSE LET start == IF choice >= item_count(b) - max \div 2 THEN item_count(b) - max ELSE choice - max \div 2
       IN Placed(b, choice - start, start, start)
SavedFits(b, choice, max) ==
  b.saved <= choice /\ b.saved + max > choice /\ b.saved >= 0 /\ b.saved + max <= item_count(b)
Laid(b, choice, max) ==
  IF SavedFits(b, choice, max) THEN Centred(b, choice - b.saved, b.saved, b.saved, max)
  ELSE Centred(b, choice, 0, b.first, max)
dialog_menu(b) ==
  IF b.height < 1 THEN [b EXCEPT !.ret = TooSmall]
  ELSE Laid(b, IF b.selected \in DOMAIN b.hot THEN b.selected ELSE b.choice, max_choice(b))

(* The row a letter leads to: the next one with it, else the first. *)
Matching(b, key) == {i \in 0 .. max_choice(b) - 1 : b.scroll + i \in DOMAIN b.hot /\ b.hot[b.scroll + i] = key}
Sought(b, key) ==
  IF key \in {"y", "n", "m", "h"} THEN max_choice(b)
  ELSE Least({i \in Matching(b, key) : i > b.choice}, Least(Matching(b, key), max_choice(b)))

do_scroll(b, n) ==
  [b EXCEPT !.scroll = @ + n, !.rows = [i \in DOMAIN @ |-> IF i + n \in DOMAIN @ THEN @[i + n] ELSE Bare]]
ScrollDown(b) == Paint(do_scroll(b, -1), b.scroll - 1, 0, FALSE)
ScrollUp(b) == Paint(do_scroll(b, 1), b.scroll + max_choice(b), max_choice(b) - 1, FALSE)

RECURSIVE PageUp(_, _)
PageUp(b, n) ==
  IF n = 0 THEN b
  ELSE PageUp(IF b.scroll > 0 THEN ScrollDown(b) ELSE [b EXCEPT !.choice = Upper(@ - 1, 0)], n - 1)
RECURSIVE PageDown(_, _)
PageDown(b, n) ==
  IF n = 0 THEN b
  ELSE PageDown(IF b.scroll + max_choice(b) < item_count(b) THEN ScrollUp(b)
                ELSE IF b.choice + 1 < max_choice(b) THEN [b EXCEPT !.choice = @ + 1] ELSE b, n - 1)

Moved(b, key, sought) ==
  CASE key = "up" -> IF b.choice < 2 /\ b.scroll # 0 THEN ScrollDown(b) ELSE [b EXCEPT !.choice = Upper(@ - 1, 0)]
    [] key = "down" ->
         IF b.choice > max_choice(b) - 3 /\ b.scroll + max_choice(b) < item_count(b) THEN ScrollUp(b)
         ELSE [b EXCEPT !.choice = Lower(@ + 1, max_choice(b) - 1)]
    [] key = "pgup" -> PageUp(b, max_choice(b))
    [] key = "pgdn" -> PageDown(b, max_choice(b))
    [] OTHER -> [b EXCEPT !.choice = sought]
Lit(b) == print_arrows(Paint(b, b.scroll + b.choice, b.choice, TRUE))
Unlit(b) == Paint(b, b.scroll + b.choice, b.choice, FALSE)

ButtonKey(b, key, last) ==
  LET n == IF key = "left" THEN b.button - 1 ELSE b.button + 1
      button == IF n < 0 THEN last ELSE IF n > last THEN 0 ELSE n
  IN [b EXCEPT !.button = button, !.shown = button]
Answers == [h |-> 2, s |-> 5, y |-> 5, n |-> 6, m |-> 7, space |-> 8, slash |-> 9, z |-> 10]
Chosen(b, ret) == [b EXCEPT !.ret = ret, !.saved = b.scroll, !.selected = b.scroll + b.choice]

(* One turn of the loop of dialog_menu(). *)
MenuTurn(b, key, sought, height) ==
  IF item_count(b) # 0 /\ (sought < max_choice(b) \/ key \in {"up", "down", "pgup", "pgdn"})
  THEN Lit(Moved(Unlit(b), key, sought))
  ELSE CASE key \in {"left", "right"} -> ButtonKey(b, key, 4)
         [] key = "enter" -> Chosen(b, b.button)
         [] key \in DOMAIN Answers -> Chosen(b, Answers[key])
         [] key \in {"e", "x", "esc"} -> [b EXCEPT !.ret = KEY_ESC]
         [] key = "resize" -> dialog_menu([b EXCEPT !.height = height, !.resized = TRUE])
         [] OTHER -> b
MenuKey(b, key, height) == MenuTurn(b, key, Sought(b, key), height)
MenuBox(hot, height, selected, saved) ==
  dialog_menu([hot |-> hot, height |-> height, choice |-> 0, scroll |-> 0, first |-> 0, button |-> 0, shown |-> 0, rows |-> <<>>,
               up |-> FALSE, down |-> FALSE, selected |-> selected, saved |-> saved, stale |-> FALSE, resized |-> FALSE, ret |-> Open])

(* The window shows consecutive items from scroll, with the chosen one the *)
(* only one highlighted, an arrow where there are more, and what is        *)
(* returned is the item under the highlight; a key moves the selection by  *)
(* one, by a page, or to an item of its letter.  Only a resize can leave   *)
(* the rows stale, or the lit button another than the one that answers.    *)
Selection(b) == b.scroll + b.choice
WindowRight(b, max) ==
  /\ item_count(b) > 0 => b.choice \in 0 .. max - 1 /\ b.scroll >= 0 /\ b.scroll + max <= item_count(b)
  /\ \A i \in 0 .. max - 1 : b.rows[i] = <<b.scroll + i, i = b.choice>>
  /\ b.up = (b.scroll > 0) /\ b.down = (b.scroll + max < item_count(b))
MenuMoves(b, max, n) ==
  /\ Selection(MenuKey(b, "up", 0)) = Upper(Selection(b) - 1, 0)
  /\ Selection(MenuKey(b, "down", 0)) = Lower(Selection(b) + 1, n - 1)
  /\ Selection(MenuKey(b, "pgup", 0)) = Upper(Selection(b) - max, 0)
  /\ Selection(MenuKey(b, "pgdn", 0)) = Lower(Selection(b) + max, n - 1)
  /\ \A i \in DOMAIN b.hot : b.hot[i] \notin {"y", "n", "m", "h"} /\ i \in b.scroll .. b.scroll + max - 1
       => b.hot[Selection(MenuKey(b, b.hot[i], 0))] = b.hot[i]
MenuRight(b) ==
  /\ b.stale => b.resized
  /\ b.ret # TooSmall /\ ~b.stale => WindowRight(b, max_choice(b))
  /\ b.ret = Open /\ ~b.stale /\ item_count(b) > 0 => MenuMoves(b, max_choice(b), item_count(b))
  /\ b.ret >= 0 /\ b.ret # KEY_ESC /\ item_count(b) > 0 => b.selected = Selection(b)
  /\ b.resized \/ b.shown = b.button

-----------------------------------------------------------------------------
(* dialog_checklist(): the list of a choice, with scrolling of its own.    *)
(* The down arrow follows the selected item.                               *)
CheckArrows(b) == [b EXCEPT !.up = b.scroll > 0, !.down = b.height < item_count(b) /\ Selection(b) < item_count(b) - 1]
CheckPlaced(b) ==
  CheckArrows([b EXCEPT !.shown = 0,
    !.rows = [i \in 0 .. b.height - 1 |-> IF i < max_choice(b) THEN <<b.scroll + i, i = b.choice>> ELSE Bare]])
dialog_checklist(b) ==
  IF b.choice < b.height THEN CheckPlaced(b)
  ELSE CheckPlaced([b EXCEPT !.scroll = b.choice - b.height + 1, !.choice = b.height - 1])
CheckUp(b) ==
  CheckArrows(Paint(IF b.height > 1 THEN do_scroll(Paint(b, b.scroll, 0, FALSE), -1) ELSE [b EXCEPT !.scroll = @ - 1],
                    b.scroll - 1, 0, TRUE))
CheckDown(b, max) ==
  CheckArrows(Paint(IF b.height > 1 THEN do_scroll(Paint(b, b.scroll + max - 1, max - 1, FALSE), 1) ELSE [b EXCEPT !.scroll = @ + 1],
                    b.scroll + max, max - 1, TRUE))
CheckTo(b, i) ==
  IF i = b.choice THEN b ELSE Paint(Paint([b EXCEPT !.choice = i], Selection(b), b.choice, FALSE), b.scroll + i, i, TRUE)
CheckTurn(b, key, sought, max) ==
  CASE key = "up" -> IF b.choice > 0 THEN CheckTo(b, b.choice - 1) ELSE IF b.scroll = 0 THEN b ELSE CheckUp(b)
    [] key = "down" ->
         IF b.choice < max - 1 THEN CheckTo(b, b.choice + 1) ELSE IF Selection(b) >= item_count(b) - 1 THEN b ELSE CheckDown(b, max)
    [] sought < max -> CheckTo(b, sought)
    [] key \in {"h", "s", "space", "enter"} ->
         [b EXCEPT !.selected = Selection(b), !.ret = IF key = "h" THEN 1 ELSE b.button, !.button = IF key = "h" THEN 1 ELSE @]
    [] key \in {"left", "right"} -> ButtonKey(b, key, 1)
    [] key \in {"x", "esc"} -> [b EXCEPT !.ret = KEY_ESC]
    [] key = "resize" -> dialog_checklist([b EXCEPT !.resized = TRUE])
    [] OTHER -> b
CheckKey(b, key) == CheckTurn(b, key, Least(Matching(b, key), max_choice(b)), max_choice(b))
CheckBox(hot, height, current) ==
  dialog_checklist([hot |-> hot, height |-> height, choice |-> current, scroll |-> 0, button |-> 0, shown |-> 0, rows |-> <<>>,
                    up |-> FALSE, down |-> FALSE, selected |-> -1, resized |-> FALSE, ret |-> Open])

(* The window of a choice shows what dialog_menu()'s does, but for the     *)
(* down arrow, which is not redrawn when the selection moves inside it.    *)
CheckRight(b) ==
  /\ b.choice \in 0 .. max_choice(b) - 1 /\ b.scroll >= 0 /\ b.scroll + max_choice(b) <= item_count(b)
  /\ \A i \in 0 .. max_choice(b) - 1 : b.rows[i] = <<b.scroll + i, i = b.choice>>
  /\ b.up = (b.scroll > 0) /\ (b.scroll + max_choice(b) < item_count(b) => b.down)
  /\ b.ret = Open =>
       /\ Selection(CheckKey(b, "up")) = Upper(Selection(b) - 1, 0)
       /\ Selection(CheckKey(b, "down")) = Lower(Selection(b) + 1, item_count(b) - 1)
  /\ b.ret \in {0, 1} => b.selected = Selection(b) /\ (b.resized \/ b.ret = 1 \/ b.shown = 0)

(* dialog_yesno(), and btn_dialog() of nconf, whose buttons do not wrap. *)
YesNoKey(b, key) ==
  CASE key = "y" -> [b EXCEPT !.ret = 0]
    [] key = "n" -> [b EXCEPT !.ret = 1]
    [] key \in {"left", "right"} -> ButtonKey(b, key, 1)
    [] key \in {"space", "enter"} -> [b EXCEPT !.ret = b.button]
    [] key = "esc" -> [b EXCEPT !.ret = KEY_ESC]
    [] key = "resize" -> [b EXCEPT !.shown = 0, !.resized = TRUE]
    [] OTHER -> b
btn_dialog(b, key, last) ==
  CASE key = "left" -> [b EXCEPT !.button = Upper(@ - 1, 0), !.shown = Upper(@ - 1, 0)]
    [] key = "right" -> [b EXCEPT !.button = Lower(@ + 1, last), !.shown = Lower(@ + 1, last)]
    [] key \in {"space", "enter"} -> [b EXCEPT !.ret = b.button]
    [] key = "esc" -> [b EXCEPT !.ret = KEY_ESC]
    [] OTHER -> b
Buttons == [button |-> 0, shown |-> 0, resized |-> FALSE, ret |-> Open]

(* The answer of the return key is the button that is lit, unless a resize *)
(* lit the first one again.                                                *)
ButtonsRight(b) ==
  /\ b.button \in {0, 1} /\ (b.resized \/ b.shown = b.button)
  /\ YesNoKey(b, "enter").ret = b.button /\ btn_dialog(b, "enter", 1).ret = b.button

-----------------------------------------------------------------------------
(* The line editors.  text[1] is the first character; pos is the cursor.   *)
Typed(e, c) == [e EXCEPT !.text = InsertAt(@, e.pos + 1, c), !.pos = @ + 1]
Erased(e) == [e EXCEPT !.text = RemoveAt(@, e.pos), !.pos = @ - 1]
Letters == {"a", "o", "h", "x", " "}
Cell(e, i) == IF e.show + i < Len(e.text) THEN e.text[e.show + i + 1] ELSE " "

(* dialog_inputbox() of lxdialog: show is the first character in the box,  *)
(* input the cursor's column, cells what is painted.  A repaint stops with *)
(* a space at the end of the text.                                         *)
Repaint(e) ==
  [e EXCEPT !.cells = [i \in DOMAIN @ |-> IF e.show + i <= Len(e.text) THEN Cell(e, i) ELSE @[i]]]
Unshift(e) == IF e.input = 0 THEN [e EXCEPT !.show = @ - 1] ELSE [e EXCEPT !.input = @ - 1]
Shift_late(e) == IF e.input = e.width THEN [e EXCEPT !.show = @ + 1] ELSE [e EXCEPT !.input = @ + 1]
Shift(e) == IF e.input = e.width - 1 THEN [e EXCEPT !.show = @ + 1] ELSE [e EXCEPT !.input = @ + 1]
InputPlaced(e) ==
  LET len == Len(e.text)
      start == IF len >= e.width THEN len - e.width + 1 ELSE 0
  IN [e EXCEPT !.pos = len, !.show = start, !.input = len - start, !.shown = 0,
               !.cells = [i \in 0 .. e.width - 1 |-> IF start + i < len THEN e.text[start + i + 1] ELSE " "]]
LineKey(e, key) ==
  CASE key = "backspace" -> IF e.pos > 0 THEN Repaint(Erased(Unshift(e))) ELSE e
    [] key = "left" -> IF e.pos = 0 THEN e
                       ELSE [(IF e.input > 0 THEN Unshift(e) ELSE Repaint(Unshift(e))) EXCEPT !.pos = @ - 1]
    [] key = "right" -> IF e.pos = Len(e.text) THEN e
                        ELSE [(IF e.input < e.width - 1 THEN Shift(e) ELSE Repaint(Shift(e))) EXCEPT !.pos = @ + 1]
    [] OTHER -> IF Len(e.text) < MAX_LEN THEN Repaint(Shift(Typed(e, key))) ELSE e
Turned(e, step) ==
  LET button == ((e.button + 1 + step) % 3) - 1
  IN [e EXCEPT !.button = button, !.shown = IF button = 1 THEN 1 ELSE 0]
InputKey(e, key) ==
  CASE e.button = -1 /\ key \in {"backspace", "left", "right"} \union Letters -> LineKey(e, key)
    [] key \in {"o", "h"} -> [e EXCEPT !.ret = IF key = "o" THEN 0 ELSE 1]
    [] key \in {"up", "left"} -> Turned(e, 2)
    [] key \in {"tab", "down", "right"} -> Turned(e, 1)
    [] key \in {" ", "enter"} -> [e EXCEPT !.ret = IF e.button = -1 THEN 0 ELSE e.button]
    [] key \in {"x", "esc"} -> [e EXCEPT !.ret = KEY_ESC]
    [] key = "resize" -> InputPlaced([e EXCEPT !.resized = TRUE])
    [] OTHER -> e
InputBox(init, width) ==
  InputPlaced([text |-> init, pos |-> 0, show |-> 0, input |-> 0, width |-> width, cells |-> <<>>,
               button |-> -1, shown |-> 0, resized |-> FALSE, ret |-> Open])

(* The box shows the text around the cursor, with the cursor on its place, *)
(* and a key changes the text only as an editor should.                    *)
EditRight(e, f, key) ==
  CASE key \in Letters -> \/ f.text = e.text /\ Len(e.text) = MAX_LEN
                          \/ f.text = SubSeq(e.text, 1, e.pos) \o <<key>> \o SubSeq(e.text, e.pos + 1, Len(e.text)) /\ f.pos = e.pos + 1
    [] key = "backspace" -> f.text = SubSeq(e.text, 1, e.pos - 1) \o SubSeq(e.text, e.pos + 1, Len(e.text)) /\ f.pos = Upper(e.pos - 1, 0)
    [] OTHER -> f.text = e.text
InputRight(e) ==
  /\ e.pos = e.show + e.input /\ e.pos \in 0 .. Len(e.text) /\ e.input \in 0 .. e.width - 1 /\ e.show >= 0
  /\ \A i \in 0 .. e.width - 1 : e.cells[i] = Cell(e, i)
  /\ e.ret = Open /\ e.button = -1 => \A key \in Letters \union {"backspace", "left", "right"} : EditRight(e, InputKey(e, key), key)
  /\ e.button = 1 /\ ~e.resized => e.shown = 1

(* dialog_inputbox() of nconf: input is cursor_form_win. *)
Clamped(e) == [e EXCEPT !.input = Lower(Upper(@, 0), e.width - 1)]
FormKey(e, key) ==
  Clamped(
    CASE key = "backspace" -> IF e.pos > 0 THEN [Erased(e) EXCEPT !.input = @ - 1] ELSE e
      [] key = "delete" -> IF e.pos < Len(e.text) THEN [e EXCEPT !.text = RemoveAt(@, e.pos + 1)] ELSE e
      [] key \in {"up", "right"} -> IF e.pos < Len(e.text) THEN [e EXCEPT !.pos = @ + 1, !.input = @ + 1] ELSE e
      [] key \in {"down", "left"} -> IF e.pos > 0 THEN [e EXCEPT !.pos = @ - 1, !.input = @ - 1] ELSE e
      [] key = "home" -> [e EXCEPT !.pos = 0, !.input = 0]
      [] key = "end" -> [e EXCEPT !.pos = Len(e.text), !.input = Lower(Len(e.text), e.width - 1)]
      [] key = "enter" -> [e EXCEPT !.ret = 0]
      [] key = "help" -> [e EXCEPT !.ret = 1]
      [] key = "esc" -> [e EXCEPT !.ret = KEY_ESC]
      [] key \in Letters -> [Typed(e, key) EXCEPT !.input = @ + 1]
      [] OTHER -> e)
FormBox(init, width) ==
  [text |-> init, pos |-> Len(init), input |-> Lower(Len(init), width - 1), width |-> width, ret |-> Open]

(* The field starts inside the text, with the cursor in it, and the text   *)
(* is edited as by the other box.                                          *)
FormRight(e) ==
  /\ e.pos \in 0 .. Len(e.text) /\ e.input \in 0 .. e.width - 1 /\ e.pos - e.input >= 0
  /\ Len(e.text) < MAX_LEN => \A key \in Letters \union {"backspace", "home", "end"} : EditRight(e, FormKey(e, key), key)
  /\ LET f == FormKey(e, "delete")
     IN f.text = SubSeq(e.text, 1, e.pos) \o SubSeq(e.text, e.pos + 2, Len(e.text)) /\ f.pos = e.pos

-----------------------------------------------------------------------------
(* dialog_textbox(): page is the place in buf that is read next, top where *)
(* the page on the screen began.  Above the end of buf is its NUL.         *)
At(t, p) == IF p < Len(t.buf) THEN t.buf[p + 1] ELSE "NUL"
LineEnd(t) == Least({p \in t.page .. Len(t.buf) - 1 : At(t, p) = "\n"}, Len(t.buf))
get_line(t) ==
  LET e == LineEnd(t) IN IF e = Len(t.buf) THEN [t EXCEPT !.page = e, !.end = TRUE] ELSE [t EXCEPT !.page = e + 1, !.end = FALSE]
RECURSIVE GetLines(_, _)
GetLines(t, n) == IF n = 0 THEN t ELSE GetLines(get_line(t), n - 1)

PreviousLine(t) == LET ends == {p \in 0 .. t.page - 2 : At(t, p) = "\n"} IN IF ends = {} THEN 0 ELSE Max(ends) + 1
RECURSIVE BackLines(_, _)
BackLines(t, n) ==
  IF n = 0 THEN t
  ELSE IF At(t, t.page) = "NUL" /\ t.end THEN BackLines([t EXCEPT !.end = FALSE], n - 1)
  ELSE IF t.page = 0 THEN [t EXCEPT !.begin = TRUE]
  ELSE IF PreviousLine(t) = 0 THEN [t EXCEPT !.page = 0, !.begin = TRUE]
  ELSE BackLines([t EXCEPT !.page = PreviousLine(t)], n - 1)
back_lines(t, n) == BackLines([t EXCEPT !.begin = FALSE], n)

RECURSIVE PageLength(_, _)
PageLength(t, n) == IF n = 0 THEN 0 ELSE IF get_line(t).end THEN 1 ELSE 1 + PageLength(get_line(t), n - 1)
PrintLines(t) == [GetLines(t, t.h) EXCEPT !.top = t.page, !.plen = PageLength(t, t.h)]
print_page(t) == PrintLines(IF t.update THEN back_lines(GetLines(t, t.h), t.h) ELSE t)

BORDER == 4
Closed(t) == LET u == back_lines(t, t.plen) IN [u EXCEPT !.vscroll = Cardinality({p \in 0 .. u.page - 1 : At(t, p) = "\n"}), !.ret = 0]
TextKey(t, key) ==
  CASE key = "home" -> IF t.begin THEN t ELSE print_page([t EXCEPT !.begin = TRUE, !.page = 0])
    [] key = "end" -> print_page(back_lines([t EXCEPT !.end = TRUE, !.page = Len(t.buf)], t.h))
    [] key = "up" -> IF t.begin THEN t ELSE print_page(back_lines(t, t.plen + 1))
    [] key = "pgup" -> IF t.begin THEN t ELSE print_page(back_lines(t, t.plen + t.h))
    [] key = "down" -> IF t.end THEN t ELSE print_page(back_lines(t, t.plen - 1))
    [] key = "pgdn" -> IF t.end THEN t ELSE print_page([t EXCEPT !.begin = FALSE])
    [] key \in {"0", "left"} ->
         IF t.hscroll <= 0 THEN t
         ELSE print_page(back_lines([t EXCEPT !.hscroll = IF key = "0" THEN 0 ELSE @ - 1], t.plen))
    [] key = "right" -> IF t.hscroll >= MAX_LEN THEN t ELSE print_page(back_lines([t EXCEPT !.hscroll = @ + 1], t.plen))
    [] key = "resize" -> print_page(back_lines(t, t.h + BORDER))
    [] OTHER -> Closed(t)
TextBox(buf, h, update, vscroll, hscroll) ==
  LET t == [buf |-> buf, page |-> 0, top |-> 0, begin |-> vscroll = 0, end |-> FALSE, plen |-> 0, h |-> h,
            hscroll |-> hscroll, vscroll |-> vscroll, update |-> update, ret |-> Open]
  IN print_page(GetLines(t, vscroll))

(* For a text that ends with a newline, as those of update_text() do: the  *)
(* page starts at a line, the two marks say whether the first and the last *)
(* line are on it, each key moves it by the lines it should, and the box   *)
(* opened again where it was left shows the same page.  A page that would  *)
(* run past the end is filled up when update_text() is given.              *)
LineOf(t, p) == Cardinality({q \in 0 .. p - 1 : At(t, q) = "\n"})
Filled(t, line) == IF t.update THEN Lower(line, Upper(LineOf(t, Len(t.buf)) + 1 - t.h, 0)) ELSE line
TextMoves(t, line, last) ==
  /\ ~t.begin => LineOf(t, TextKey(t, "up").top) = Filled(t, line - 1)
  /\ LineOf(t, TextKey(t, "pgup").top) = Filled(t, Upper(line - t.h, 0))
  /\ LineOf(t, TextKey(t, "down").top) = (IF t.end THEN line ELSE line + 1)
  /\ LineOf(t, TextKey(t, "pgdn").top) = (IF t.end THEN line ELSE Filled(t, line + t.h))
  /\ LineOf(t, TextKey(t, "end").top) = Upper(last + 1 - t.h, 0)
  /\ TextKey(t, "home").top = 0
  /\ TextKey(t, "right").top = t.top /\ TextKey(t, "left").top = t.top
  /\ LET u == Closed(t) IN TextBox(t.buf, t.h, t.update, u.vscroll, u.hscroll).top = t.top
TextRight(t) ==
  t.ret = Open =>
    /\ t.top = 0 \/ At(t, t.top - 1) = "\n"
    /\ t.begin = (t.top = 0)
    /\ t.end = (LineOf(t, t.top) + t.h > LineOf(t, Len(t.buf)))
    /\ t.plen = Lower(t.h, LineOf(t, Len(t.buf)) + 1 - LineOf(t, t.top))
    /\ TextMoves(t, LineOf(t, t.top), LineOf(t, Len(t.buf)))

(* show_scroll_win() of nconf: a pad of total lines and cols columns, of   *)
(* which copywin() shows the rows from y on, text - 1 of them.             *)
ScrollBox(total, cols, lines, columns) ==
  [total |-> total, cols |-> cols, y |-> 0, x |-> 0,
   ret |-> Open, text |-> Upper(Lower(total + 4, lines - 2) - 4, 0), width |-> Upper(Lower(cols + 2, columns - 2) - 2, 0)]
Within(start, total, shown) == LET n == Upper(start, 0) IN IF n >= total - shown THEN total - shown ELSE n
Scrolled(w, y, x) == [w EXCEPT !.y = Within(y, w.total, w.text), !.x = Within(x, w.cols, w.width)]
ScrollKey(w, key) ==
  CASE key = "pgdn" -> Scrolled(w, w.y + w.text - 2, w.x)
    [] key = "pgup" -> Scrolled(w, w.y - (w.text + 2), w.x)
    [] key = "home" -> Scrolled(w, 0, w.x)
    [] key = "end" -> Scrolled(w, w.total - w.text, w.x)
    [] key = "down" -> Scrolled(w, w.y + 1, w.x)
    [] key = "up" -> Scrolled(w, w.y - 1, w.x)
    [] key = "left" -> Scrolled(w, w.y, w.x - 1)
    [] key = "right" -> Scrolled(w, w.y, w.x + 1)
    [] OTHER -> [w EXCEPT !.ret = 0]

(* What is shown lies in the text, a page further leaves no line out, and  *)
(* at the end every line is shown but the last, which is empty in the      *)
(* texts nconf shows.                                                      *)
Visible(w) == w.y .. w.y + w.text - 2
ScrollRight(w) ==
  /\ w.y \in 0 .. w.total - w.text /\ w.x \in 0 .. w.cols - w.width
  /\ \A i \in w.y .. ScrollKey(w, "pgdn").y : i \in Visible(w) \union Visible(ScrollKey(w, "pgdn")) \/ w.text < 2
  /\ w.text >= 2 => w.total - 2 \in Visible(ScrollKey(w, "end"))

-----------------------------------------------------------------------------
(* print_autowrap(): the words of a prompt as <<y, x, length>>.  A word is *)
(* what lies before the next blank; one that is too long runs on.          *)
Blanks == {" ", "\n"}
WordLen(s) == Least({i \in DOMAIN s : s[i] \in Blanks}, Len(s) + 1) - 1
Spaces(s) == Least({i \in DOMAIN s : s[i] # " "}, Len(s) + 1) - 1
Wraps(wlen, rest, separated, newl, room) ==
  \/ wlen > room
  \/ newl /\ wlen < 4 /\ separated /\ wlen + 1 + Len(rest) > room
          /\ (WordLen(rest) = Len(rest) \/ wlen + 1 + WordLen(rest) > room)
WordAt(y, x, wlen, wraps, left) == IF wraps THEN <<y + 1, left, wlen>> ELSE <<y, x, wlen>>
RECURSIVE Words(_, _, _, _, _, _)
Words(s, y, x, newl, width, left) ==
  IF s = <<>> THEN <<>>
  ELSE LET wlen == WordLen(s)
           separated == wlen < Len(s)
           rest == SubSeq(s, wlen + 2, Len(s))
           word == WordAt(y, x, wlen, Wraps(wlen, rest, separated, newl, width - x), left)
           newline == separated /\ s[wlen + 1] = "\n"
           double == rest # <<>> /\ rest[1] = " "
           nextx == (IF newline THEN left ELSE word[2] + wlen + 1) + (IF double THEN 1 ELSE 0)
       IN <<word>> \o Words(SubSeq(rest, (IF double THEN Spaces(rest) ELSE 0) + 1, Len(rest)),
                            IF newline THEN word[1] + 1 ELSE word[1], nextx, double, width, left)
print_autowrap(prompt, width, left) ==
  IF Len(prompt) <= width - left * 2 THEN <<<<0, (width - Len(prompt)) \div 2, Len(prompt)>>>>
  ELSE Words(prompt, 0, left, TRUE, width, left)

(* No word that fits on a line leaves it, and none is printed over the one *)
(* before.                                                                 *)
WrapRight(prompt, width, left) ==
  LET words == print_autowrap(prompt, width, left)
  IN /\ \A i \in DOMAIN words : words[i][3] <= width - left => words[i][2] + words[i][3] <= width
     /\ \A i \in DOMAIN words : i > 1 =>
          \/ words[i][1] > words[i - 1][1]
          \/ words[i][1] = words[i - 1][1] /\ words[i][2] > words[i - 1][2] + words[i - 1][3]

(* get_line_no(), get_line(), get_line_length() of nconf cut a text where  *)
(* fill_window() prints its lines; joined by newlines they are the text.   *)
get_line_no(text) == 1 + Cardinality({i \in DOMAIN text : text[i] = "\n"})
LineStart(text, n) ==
  IF n = 0 THEN 1 ELSE 1 + Least({i \in DOMAIN text : text[i] = "\n" /\ Cardinality({j \in 1 .. i : text[j] = "\n"}) = n}, Len(text))
get_line_length(text, start) == Least({i \in start .. Len(text) : text[i] = "\n"}, Len(text) + 1) - start
LineText(text, n) == SubSeq(text, LineStart(text, n), LineStart(text, n) + get_line_length(text, LineStart(text, n)) - 1)
LinesRight(text) ==
  FoldFunction(LAMBDA line, rest : line \o rest, <<>>,
    [n \in 1 .. get_line_no(text) |-> LineText(text, n - 1) \o (IF n < get_line_no(text) THEN <<"\n">> ELSE <<>>)]) = text

(* first_alpha(): the letter an item is found by, outside all brackets. *)
RECURSIVE FirstAlpha(_, _, _)
FirstAlpha(s, i, depth) ==
  IF i > Len(s) THEN 0
  ELSE LET d == IF s[i] = "<" THEN depth + 1 ELSE IF s[i] = ">" /\ depth > 0 THEN depth - 1 ELSE depth
       IN IF d = 0 /\ s[i] \in {"a", "b"} THEN i - 1 ELSE FirstAlpha(s, i + 1, d)
first_alpha(s) == FirstAlpha(s, 1, 0)
Unclosed(s, i) ==
  \E j \in 1 .. i : \A k \in j .. i :
    Cardinality({n \in j .. k : s[n] = "<"}) > Cardinality({n \in j .. k : s[n] = ">"})
FirstAlphaRight(s) == first_alpha(s) = Least({i \in DOMAIN s : s[i] \in {"a", "b"} /\ ~Unclosed(s, i)}, 1) - 1

-----------------------------------------------------------------------------
(* Searching a list of nconf as a pattern is typed.  items are their texts,*)
(* cur and top are where the list of ncurses stands, and last_top_row what *)
(* conf() remembers of it.  A search from the end of the list that finds   *)
(* nothing does not return; ret is then Hang.                              *)
Hang == -4
FindBox(items, height) ==
  [items |-> items, height |-> height, cur |-> 0, top |-> 0, last_top_row |-> 0,
   in_search |-> FALSE, match_direction |-> "tinker down", pattern |-> <<>>, ret |-> Open]
strcasestr(text, pattern) == \E i \in 0 .. Len(text) - Len(pattern) : SubSeq(text, i + 1, i + Len(pattern)) = pattern
Found(b, i) == strcasestr(b.items[i + 1], b.pattern)

(* set_top_row(), menu_driver() *)
set_top_row(b, row) == IF row \in 0 .. Upper(Len(b.items) - b.height, 0) THEN [b EXCEPT !.top = row] ELSE b
MovedTo(b, to) == [b EXCEPT !.cur = to, !.top = IF to < @ THEN to ELSE Upper(@, to - b.height + 1)]
menu_driver(b, key) ==
  CASE key = "down" -> MovedTo(b, Lower(b.cur + 1, Len(b.items) - 1))
    [] key = "up" -> MovedTo(b, Upper(b.cur - 1, 0))
    [] key = "end" -> MovedTo(b, Len(b.items) - 1)
    [] key = "home" -> MovedTo(b, 0)
    [] OTHER -> b

Centre(b, i) == Lower(Upper(i - b.height \div 2, 0), Len(b.items) - b.height)
Shown(b, i) == i \in b.top .. b.top + b.height - 1
CentreFrom(b, i) == [(IF Shown(b, i) THEN b ELSE set_top_row(b, Centre(b, i))) EXCEPT !.cur = i]
Remembered(b) == [b EXCEPT !.last_top_row = b.top]
center_item(b, i) == Remembered(CentreFrom(set_top_row(b, b.last_top_row), i))

adj_match_dir(dir) == IF dir = "next down" THEN "tinker down" ELSE IF dir = "next up" THEN "tinker up" ELSE dir
Upwards(dir) == dir \in {"next up", "tinker up"}
MatchStart(b) ==
  CASE b.match_direction = "next down" -> b.cur + 1 [] b.match_direction = "next up" -> b.cur - 1 [] OTHER -> b.cur
(* The indices in the order they are tried, all of them once. *)
Tried(b, start) ==
  LET n == Len(b.items) IN [k \in 1 .. n |-> (IF Upwards(b.match_direction) THEN start - k + 1 + n ELSE start + k - 1) % n]
Hits(b, start) == SelectSeq(Tried(b, start), LAMBDA i : Found(b, i))
get_mext_match(b) ==
  IF Hits(b, MatchStart(b)) # <<>> THEN Hits(b, MatchStart(b))[1]
  ELSE IF MatchStart(b) \in 0 .. Len(b.items) - 1 THEN -1 ELSE Hang
Matched(b) ==
  LET i == get_mext_match(b) IN CASE i = Hang -> [b EXCEPT !.ret = Hang] [] i = -1 -> b [] OTHER -> center_item(b, i)

(* do_match().  Deleting from an empty pattern clears the last byte of the *)
(* direction before it, which is zero.                                     *)
NewSearch(b, on) == [b EXCEPT !.in_search = on, !.pattern = <<>>, !.match_direction = "tinker down"]
do_match(b, key) ==
  CASE key = "/" \/ (b.in_search /\ key = "esc") -> NewSearch(b, ~b.in_search)
    [] ~b.in_search -> menu_driver(b, key)
    [] key \in {"a", "b"} -> Matched([b EXCEPT !.pattern = Append(@, key), !.match_direction = adj_match_dir(@)])
    [] key = "down" -> Matched([b EXCEPT !.match_direction = "next down"])
    [] key = "up" -> Matched([b EXCEPT !.match_direction = "next up"])
    [] key = "backspace" -> [b EXCEPT !.pattern = IF @ = <<>> THEN @ ELSE Front(@), !.match_direction = adj_match_dir(@)]
    [] OTHER -> menu_driver([NewSearch(b, FALSE) EXCEPT !.match_direction = b.match_direction], key)

(* The current item is always on the screen, and while a pattern is typed  *)
(* it is one that matches, if any does.  A search hangs only when none     *)
(* does.                                                                   *)
FindRight(b) ==
  /\ Shown(b, b.cur) /\ b.top \in 0 .. Upper(Len(b.items) - b.height, 0)
  /\ b.in_search /\ (\E i \in 0 .. Len(b.items) - 1 : Found(b, i)) => Found(b, b.cur) /\ b.ret = Open

-----------------------------------------------------------------------------
(* update_text(): the keys shown for the jumps on a page of search results *)
(* of mconf, at most jumps at a time, from the offsets of all jumps.       *)
OnPage(offsets, start, end) == SelectSeq([i \in DOMAIN offsets |-> i], LAMBDA i : offsets[i] \in start .. end - 1)
KeyOf(i, jumps) == ((i - 1) % jumps) + 1
update_text(offsets, start, end, jumps) ==
  LET page == OnPage(offsets, start, end)
  IN [k \in 1 .. Lower(Len(page), jumps) |-> [key |-> KeyOf(page[k], jumps), target |-> page[k]]]
(* No two jumps of a page share a key, and all have one if there are keys  *)
(* enough.                                                                 *)
JumpKeysRight(offsets, start, end, jumps) ==
  LET keys == update_text(offsets, start, end, jumps)
      page == {i \in DOMAIN offsets : offsets[i] \in start .. end - 1}
  IN /\ \A j, k \in DOMAIN keys : keys[j].key = keys[k].key => j = k
     /\ {keys[k].target : k \in DOMAIN keys} \subseteq page
     /\ Cardinality(page) <= jumps => {keys[k].target : k \in DOMAIN keys} = page
=============================================================================
