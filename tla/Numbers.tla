------------------------------- MODULE Numbers -------------------------------
(***************************************************************************)
(* Strings into numbers: lib/strto.c.  A string is a sequence of           *)
(* characters without its terminating null; unsigned long has Modulus      *)
(* values, and the kilo of the size suffixes is Kilo.                      *)
(***************************************************************************)
EXTENDS Integers, Sequences, SequencesExt

CONSTANTS Modulus, Kilo

ASSUME NumbersAssumption == Modulus \in Nat \ {0} /\ Kilo \in Nat \ {0}

NUL == "nul"
Nth(s, i) == IF i \in 1 .. Len(s) THEN s[i] ELSE NUL
Drop(s, n) == SubSeq(s, n + 1, Len(s))

isblank(c) == c \in {" ", "\t"}

(* Digits with their values, both cases. *)
DigitValue ==
  [c \in {"0", "1", "2", "3", "4", "5", "6", "7", "8", "9"} |->
     CASE c = "0" -> 0 [] c = "1" -> 1 [] c = "2" -> 2 [] c = "3" -> 3 [] c = "4" -> 4
       [] c = "5" -> 5 [] c = "6" -> 6 [] c = "7" -> 7 [] c = "8" -> 8 [] c = "9" -> 9]
  @@ ("a" :> 10) @@ ("A" :> 10) @@ ("b" :> 11) @@ ("B" :> 11) @@ ("c" :> 12) @@ ("C" :> 12)
  @@ ("d" :> 13) @@ ("D" :> 13) @@ ("e" :> 14) @@ ("E" :> 14) @@ ("f" :> 15) @@ ("F" :> 15)
isxdigit(c) == c \in DOMAIN DigitValue
isdigit(c) == isxdigit(c) /\ DigitValue[c] < 10

(* _parse_integer_fixup_radix(): the base, and the characters skipped. *)
HasPrefix(s) == Nth(s, 1) = "0" /\ Nth(s, 2) \in {"x", "X"}

fixup_radix(s, base) ==
  LET b == IF base # 0 THEN base
           ELSE IF Nth(s, 1) # "0" THEN 10
           ELSE IF HasPrefix(s) /\ isxdigit(Nth(s, 3)) THEN 16 ELSE 8
  IN [base |-> b, skip |-> IF b = 16 /\ HasPrefix(s) THEN 2 ELSE 0]

(* simple_strtoul(), simple_strtoull(): the value, and how many characters *)
(* lie before *endp.                                                       *)
RECURSIVE Digits(_, _, _, _)
Digits(s, i, base, result) ==
  IF isxdigit(Nth(s, i)) /\ DigitValue[Nth(s, i)] < base
  THEN Digits(s, i + 1, base, (result * base + DigitValue[Nth(s, i)]) % Modulus)
  ELSE [val |-> result, end |-> i - 1]

simple_strtoul(s, base) ==
  LET f == fixup_radix(s, base) IN Digits(s, f.skip + 1, f.base, 0)

EINVAL == -22

strict_strtoul(s, base) ==
  LET r == simple_strtoul(s, base)
      tail == Drop(s, r.end)
  IN IF s # <<>> /\ r.end # 0 /\ tail \in {<<>>, <<"\n">>}
     THEN [err |-> 0, res |-> r.val]
     ELSE [err |-> EINVAL, res |-> 0]

simple_strtol(s, base) ==
  IF Nth(s, 1) = "-"
  THEN LET r == simple_strtoul(Tail(s), base)
       IN [val |-> (Modulus - r.val) % Modulus, end |-> r.end + 1]
  ELSE simple_strtoul(s, base)

(* ustrtoul(), ustrtoull(): a suffix falls through to the smaller ones and *)
(* may be followed by "i" and "B".                                         *)
Scale(c) == CASE c \in {"g", "G"} -> Kilo ^ 3
              [] c \in {"m", "M"} -> Kilo ^ 2
              [] c \in {"k", "K"} -> Kilo
              [] OTHER -> 1
ustrtoul(s, base) ==
  LET r == simple_strtoul(s, base)
      c == Nth(s, r.end + 1)
      i == IF Nth(s, r.end + 2) = "i" THEN 1 ELSE 0
      b == IF Nth(s, r.end + 2 + i) = "B" THEN 1 ELSE 0
  IN IF c \in {"g", "G", "m", "M", "k", "K"}
     THEN [val |-> (r.val * Scale(c)) % Modulus, end |-> r.end + 1 + i + b]
     ELSE r

(* trailing_strtoln(): the loop ends before the first character. *)
RECURSIVE Trailing(_, _)
Trailing(s, p) ==
  CASE p <= 1 -> -1
    [] p > 1 /\ ~isdigit(s[p]) -> simple_strtoul(Drop(s, p), 10).val
    [] OTHER -> Trailing(s, p - 1)
trailing_strtol(s) ==
  IF s # <<>> /\ isdigit(Last(s)) THEN Trailing(s, Len(s)) ELSE -1

-----------------------------------------------------------------------------
(* The reference: the longest run of digits of the base stands for the sum *)
(* of its digits by weight, modulo the width of the type.                  *)
Run(s, base) ==
  CHOOSE n \in 0 .. Len(s) :
    /\ \A i \in 1 .. n : isxdigit(s[i]) /\ DigitValue[s[i]] < base
    /\ n < Len(s) => ~(isxdigit(s[n + 1]) /\ DigitValue[s[n + 1]] < base)

Value(s, base) == FoldLeft(LAMBDA v, c : v * base + DigitValue[c], 0, s) % Modulus

(* What a C programmer expects of base 0, 8, 10 and 16. *)
Radix(s, base) ==
  IF base # 0 THEN base
  ELSE CASE Len(s) > 2 /\ HasPrefix(s) /\ isxdigit(s[3]) -> 16
         [] ~(Len(s) > 2 /\ HasPrefix(s) /\ isxdigit(s[3])) /\ Nth(s, 1) = "0" -> 8
         [] OTHER -> 10

Number(s, base) ==
  LET b == Radix(s, base)
      t == IF b = 16 /\ HasPrefix(s) THEN Drop(s, 2) ELSE s
      n == Run(t, b)
  IN [val |-> Value(SubSeq(t, 1, n), b), end |-> Len(s) - Len(t) + n]

(* The digits at the end of a string. *)
TrailingDigits(s) ==
  LET n == CHOOSE k \in 0 .. Len(s) :
             /\ \A i \in Len(s) - k + 1 .. Len(s) : isdigit(s[i])
             /\ k < Len(s) => ~isdigit(s[Len(s) - k])
  IN Drop(s, Len(s) - n)

(* The conversions of lib/strto.c on the string s: the value is that of    *)
(* the longest prefix of digits, the end pointer stands right behind it or *)
(* its suffix, a strict conversion accepts exactly strings that are used   *)
(* up but for a newline, a minus negates, and a number at the end is found *)
(* unless it begins at the first or second character.                      *)
ConversionsRight(s) ==
  /\ \A base \in {0, 8, 10, 16} :
       LET n == Number(s, base)
           u == ustrtoul(s, base)
       IN /\ simple_strtoul(s, base) = n
          /\ simple_strtol(<<"-">> \o s, base).val = (-n.val) % Modulus
          /\ strict_strtoul(s, base).err = 0 <=>
               n.end > 0 /\ Drop(s, n.end) \in {<<>>, <<"\n">>}
          /\ u.end >= n.end /\ u.end <= Len(s)
          /\ u.end = n.end => u.val = n.val
          /\ u.end > n.end => u.val = (n.val * Scale(s[n.end + 1])) % Modulus
  /\ LET d == TrailingDigits(s)
     IN trailing_strtol(s) =
          IF d = <<>> \/ Len(d) >= Len(s) - 1 THEN -1 ELSE Value(d, 10)
=============================================================================
