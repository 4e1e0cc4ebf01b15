------------------------------- MODULE FixDep -------------------------------
(***************************************************************************)
(* What fixdep finds in a file, and in the compiler's list of files:       *)
(* scripts/basic/fixdep.c, against the stamps of conf_touch_dep().         *)
(*                                                                         *)
(* A file is a sequence of pieces: "C" is CONFIG_, "M" is _MODULE, the     *)
(* letters "A" and "a" and "_" are word characters, "-" is none.  A list   *)
(* is a sequence of names: "t:" a target, "g" an ignored file.             *)
(***************************************************************************)
EXTENDS Naturals, Sequences, SequencesExt

Word == {"C", "M", "A", "a", "_"}

(* parse_config_file(): the names used, in their order. *)
RECURSIVE WordEnd(_, _)
WordEnd(text, q) == IF q <= Len(text) /\ text[q] \in Word THEN WordEnd(text, q + 1) ELSE q
Stripped(name) == IF name # <<>> /\ Last(name) = "M" THEN Front(name) ELSE name
Use(name, uses) == IF name = <<>> \/ Contains(uses, name) THEN uses ELSE Append(uses, name)
RECURSIVE parse_config_file(_, _, _)
ParseWord(text, p, q, uses) == <<q, Use(Stripped(SubSeq(text, p, q - 1)), uses)>>
parse_config_file(text, p, uses) ==
  IF p > Len(text) THEN uses
  ELSE IF text[p] # "C" \/ (p > 1 /\ text[p - 1] \in Word) THEN parse_config_file(text, p + 1, uses)
  ELSE LET r == ParseWord(text, p + 1, WordEnd(text, p + 1), uses) IN parse_config_file(text, r[1], r[2])

(* The path print_dep() gives a name, and the one conf_touch_dep() opens. *)
Piece(c) ==
  CASE c = "_" -> <<"/">> [] c = "A" -> <<"a">>
    [] c = "M" -> <<"/", "module">> [] c = "C" -> <<"config", "/">> [] OTHER -> <<c>>
Translated(name) == FlattenSeq([i \in DOMAIN name |-> Piece(name[i])])
touched(name) == Translated(name) \o <<".h">>
RECURSIVE PutChars(_, _)
PutChars(cs, prev_c) ==
  IF cs = <<>> THEN <<>>
  ELSE (IF Head(cs) # "/" \/ prev_c # "/" THEN <<Head(cs)>> ELSE <<>>) \o PutChars(Tail(cs), Head(cs))
print_dep(name) == PutChars(Translated(name), "/") \o <<".h">>

(* parse_dep_file() *)
RECURSIVE parse_dep_file(_, _, _)
Listed(name, first, out) ==
  [out EXCEPT !.source = IF first /\ @ = "none" THEN name ELSE @,
              !.deps = IF first THEN @ ELSE Append(@, name), !.read = Append(@, name)]
parse_dep_file(list, first, out) ==
  IF list = <<>> THEN out
  ELSE IF Head(list) = "t:" THEN parse_dep_file(Tail(list), TRUE, out)
  ELSE IF Head(list) = "g" THEN parse_dep_file(Tail(list), first, out)
  ELSE parse_dep_file(Tail(list), FALSE, Listed(Head(list), first, out))
Dependencies(list) == parse_dep_file(list, FALSE, [source |-> "none", deps |-> <<>>, read |-> <<>>])

-----------------------------------------------------------------------------
(* A name is used if some whole word of the file is CONFIG_ with that name *)
(* or its _MODULE form, and is reported once.                              *)
WordsOf(text) ==
  {SubSeq(text, r[1], r[2]) : r \in {<<i, j>> \in (1 .. Len(text)) \X (1 .. Len(text)) :
     /\ i <= j /\ \A l \in i .. j : text[l] \in Word
     /\ i > 1 => text[i - 1] \notin Word
     /\ j < Len(text) => text[j + 1] \notin Word}}
Mentioned(text) ==
  {name \in UNION {{SubSeq(w, 2, Len(w)), SubSeq(w, 2, Len(w) - 1)} : w \in WordsOf(text)} :
     /\ name # <<>>
     /\ \/ <<"C">> \o name \in WordsOf(text) /\ Last(name) # "M"
        \/ <<"C">> \o name \o <<"M">> \in WordsOf(text)}
UsesRight(text) ==
  LET uses == parse_config_file(text, 1, <<>>)
  IN Range(uses) = Mentioned(text) /\ IsInjective(uses)

(* The path make looks at is the file that is touched: below a directory,  *)
(* a slash after a slash means nothing.                                    *)
FileOf(path) ==
  LET kept == SelectSeq([i \in DOMAIN path |-> i], LAMBDA i : path[i] # "/" \/ (i > 1 /\ path[i - 1] # "/"))
  IN [i \in DOMAIN kept |-> path[kept[i]]]
PathsAgree(name) == print_dep(name) = FileOf(touched(name))

(* Every file is searched but the ignored ones; a file is a dependency     *)
(* unless it is the first after a target; the source is the first such.    *)
ListRight(list) ==
  LET out == Dependencies(list)
      files == {i \in DOMAIN list : list[i] \notin {"t:", "g"}}
      firsts == {i \in files : \E j \in 1 .. i - 1 : list[j] = "t:" /\ \A l \in j + 1 .. i - 1 : list[l] = "g"}
  IN /\ Range(out.read) = {list[i] : i \in files} /\ Len(out.read) = Cardinality(files)
     /\ Range(out.deps) = {list[i] : i \in files \ firsts}
     /\ IF firsts = {} THEN out.source = "none" ELSE out.source = list[Min(firsts)]
=============================================================================
