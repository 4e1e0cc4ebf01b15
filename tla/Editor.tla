-------------------------------- MODULE Editor --------------------------------
(***************************************************************************)
(* What the line editor promises: a line that the cursor divides into a    *)
(* left and a right part, an insert mode, keys that may arrive as escape   *)
(* sequences, and a shelf with the last lines entered, oldest first, on    *)
(* which the reader stands at a position.                                  *)
(***************************************************************************)
EXTENDS Integers, Sequences, SequencesExt, TLC

CONSTANTS ShelfSize, \* lines the shelf can hold
          Names      \* the names that completion knows

VARIABLES ed, \* the line, the shelf and the mode
          size \* characters a line can hold; never changes

ESC == "esc"
Arrow(c) == CASE c = "D" -> "^B" [] c = "C" -> "^F" [] c = "H" -> "^A"
              [] c = "F" -> "^E" [] c = "A" -> "^P" [] c = "B" -> "^N"
Tilde(c) == CASE c = "3" -> "^D" [] c \in {"1", "7"} -> "^A" [] c \in {"4", "8"} -> "^E"

(* The escape sequences and the keys they stand for. *)
Sequences1 == [q \in {<<ESC, b, c>> : b \in {"[", "O"}, c \in {"A", "B", "C", "D", "F", "H"}} |-> Arrow(q[3])]
Sequences2 == [q \in {<<ESC, "[", c, "~">> : c \in {"1", "3", "4", "7", "8"}} |-> Tilde(q[3])]
Decode == Sequences1 @@ Sequences2
Started(q) == \E d \in DOMAIN Decode : Len(q) < Len(d) /\ SubSeq(d, 1, Len(q)) = q

Line(e) == e.left \o e.right
Type(e, c) ==
  IF e.insert \/ e.right = <<>>
  THEN IF Len(Line(e)) >= size THEN e ELSE [e EXCEPT !.left = Append(@, c)]
  ELSE [e EXCEPT !.left = Append(@, c), !.right = Tail(@)]
RECURSIVE TypeAll(_, _)
TypeAll(e, s) == IF s = <<>> THEN e ELSE TypeAll(Type(e, Head(s)), Tail(s))
SetLine(e, s) == [e EXCEPT !.left = s, !.right = <<>>]

(* What a completion adds to a text whose only word is unfinished. *)
Blank(c) == c \in {" ", "\t"}
Completion(text) ==
  LET firsts == {i \in DOMAIN text : \A j \in DOMAIN text : Blank(text[j]) <=> j < i}
      word == IF firsts = {} THEN <<>> ELSE SubSeq(text, CHOOSE i \in firsts : TRUE, Len(text))
      cands == {n \in Names : IsPrefix(word, n)}
      goal == IF \E n \in Names : cands = {n} THEN Append(CHOOSE n \in cands : TRUE, " ")
              ELSE LongestCommonPrefix(cands)
      rest == SubSeq(goal, Len(word) + 1, Len(goal))
  IN IF firsts = {} \/ cands = {} \/ Len(text) + Len(rest) >= size - 2 THEN <<>> ELSE rest

Do(e, k) ==
  CASE k = ESC -> [e EXCEPT !.pend = <<ESC>>]
    [] k = "^A" -> [e EXCEPT !.left = <<>>, !.right = Line(e)]
    [] k = "^E" -> SetLine(e, Line(e))
    [] k = "^F" /\ e.right # <<>> -> [e EXCEPT !.left = Append(@, Head(e.right)), !.right = Tail(@)]
    [] k = "^B" /\ e.left # <<>> -> [e EXCEPT !.left = Front(@), !.right = <<Last(e.left)>> \o @]
    [] k = "^D" /\ e.right # <<>> -> [e EXCEPT !.right = Tail(@)]
    [] k = "^H" /\ e.left # <<>> -> [e EXCEPT !.left = Front(@)]
    [] k = "^K" -> [e EXCEPT !.right = <<>>]
    [] k = "^U" -> SetLine(e, <<>>)
    [] k = "^O" -> [e EXCEPT !.insert = ~@]
    [] k = "^P" /\ e.pos > 1 -> SetLine([e EXCEPT !.pos = @ - 1], e.shelf[e.pos - 1])
    [] k = "^N" /\ e.pos < Len(e.shelf) -> SetLine([e EXCEPT !.pos = @ + 1], e.shelf[e.pos + 1])
    [] k = "^N" /\ e.pos = Len(e.shelf) -> SetLine([e EXCEPT !.pos = @ + 1], <<>>)
    [] k = "\t" /\ e.right = <<>> -> [e EXCEPT !.left = @ \o Completion(e.left)]
    [] k \in {"^F", "^B", "^D", "^H", "^P", "^N", "\t"} -> e
    [] OTHER -> Type(e, k)

Key(e, k) ==
  LET q == Append(e.pend, k)
      done == [e EXCEPT !.pend = <<>>]
  IN CASE e.pend = <<>> -> Do(e, k)
       [] e.pend # <<>> /\ q \in DOMAIN Decode -> Do(done, Decode[q])
       [] e.pend # <<>> /\ Started(q) -> [e EXCEPT !.pend = q]
       [] OTHER -> TypeAll(done, q)

RECURSIVE KeyAll(_, _)
KeyAll(e, w) == IF w = <<>> THEN e ELSE KeyAll(Key(e, Head(w)), Tail(w))

Blanked(e) == [SetLine(e, <<>>) EXCEPT !.insert = TRUE, !.pend = <<>>]
Shelve(e) ==
  LET all == Append(e.shelf, Line(e))
      kept == IF Len(all) > ShelfSize THEN Tail(all) ELSE all
      shelf == IF Line(e) = <<>> \/ Head(Line(e)) = "!" THEN e.shelf ELSE kept
  IN [e EXCEPT !.shelf = shelf, !.pos = Len(shelf) + 1]

EditorInit ==
  ed = [left |-> <<>>, right |-> <<>>, insert |-> TRUE, pend |-> <<>>, shelf |-> <<>>, pos |-> 1]

(* A word of keys, the end of a line, and giving a line up. *)
EditorNext(Words) ==
  LET now == ed
      next == ed'
  IN /\ size' = size
     /\ \/ next = Blanked(Shelve(now))
        \/ now.pend = <<>> /\ next = Blanked(now)
        \/ \E w \in Words : next = KeyAll(now, w)
=============================================================================
