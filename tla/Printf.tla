------------------------------- MODULE Printf -------------------------------
(***************************************************************************)
(* Formatted output: lib/vsprintf.c, and the sizes and log levels printed  *)
(* with it (lib/display_options.c, lib/printk.c).  A text is a sequence of *)
(* characters; a u64 has LongMod values, an int IntMod, a short ShortMod.  *)
(***************************************************************************)
EXTENDS Numbers, FiniteSetsExt

CONSTANTS LongMod, IntMod, ShortMod,
          PtrDigits,     \* 2 * sizeof(void *)
          UnitBits,      \* 10: the units of print_size() are 2^10 apart
          Thousand       \* 1000, of strmhz()

ASSUME PrintfAssumption ==
  /\ {LongMod, IntMod, ShortMod} \subseteq Nat \ {0} /\ \A m \in {LongMod, IntMod, ShortMod} : m % 2 = 0
  /\ ShortMod <= IntMod /\ IntMod <= LongMod /\ {PtrDigits, UnitBits, Thousand} \subseteq Nat \ {0}

Upper == <<"0", "1", "2", "3", "4", "5", "6", "7", "8", "9", "A", "B", "C", "D", "E", "F">>
LowerCase == <<"0", "1", "2", "3", "4", "5", "6", "7", "8", "9", "a", "b", "c", "d", "e", "f">>
Rep(c, n) == IF n <= 0 THEN <<>> ELSE [i \in 1 .. n |-> c]

(* The digits of q, lowest first, by multiplications in place of           *)
(* divisions.  put_dec_trunc() stops at the highest digit that is not 0,   *)
(* which it knows from the sums e and the top nibbles d3;                  *)
(* put_dec_full() always writes five.                                      *)
Dec(q) ==
  LET d1 == (q \div 16) % 16  d2 == (q \div 256) % 16  d3 == q \div 4096
      e0 == 6 * (d3 + d2 + d1) + (q % 16)   q0 == (e0 * 205) \div 2048
      e1 == q0 + 9 * d3 + 5 * d2 + d1       q1 == (e1 * 205) \div 2048
      e2 == q1 + 2 * d2                     q2 == (e2 * 13) \div 128
      e3 == q2 + 4 * d3                     q3 == (e3 * 205) \div 2048
  IN [digits |-> <<e0 - 10 * q0, e1 - 10 * q1, e2 - 10 * q2, e3 - 10 * q3, q3>>,
      e1 |-> e1, e2 |-> e2, e3 |-> e3, d3 |-> d3, q3 |-> q3]
DecLen(x) ==
  IF x.e1 = 0 THEN 1 ELSE IF x.e2 = 0 /\ x.d3 = 0 THEN 2 ELSE IF x.e3 = 0 THEN 3 ELSE IF x.q3 = 0 THEN 4 ELSE 5
Truncated(x) == SubSeq(x.digits, 1, DecLen(x))
put_dec_trunc(q) == Truncated(Dec(q))
put_dec_full(q) == Dec(q).digits

RECURSIVE put_dec(_)
put_dec(num) ==
  IF num < 100000 THEN put_dec_trunc(num)
  ELSE put_dec_full(num % 100000) \o put_dec(num \div 100000)

RECURSIVE Shifted(_, _)
Shifted(num, base) ==
  IF num < base THEN <<num>> ELSE <<num % base>> \o Shifted(num \div base, base)

(* What is left of the field for padding. *)
Room(size, sign, prefix, prec) == size - Len(sign) - Len(prefix) - prec

(* The field of a number, whose digits come lowest first. *)
Padded(zeros, digits, sign, prefix, room, flags) ==
  LET left == "LEFT" \in flags
      zero == "ZEROPAD" \in flags /\ ~left
  IN (IF left \/ zero THEN <<>> ELSE Rep(" ", room)) \o sign \o prefix
     \o (IF zero THEN Rep("0", room) ELSE <<>>) \o Rep("0", zeros) \o digits
     \o (IF left THEN Rep(" ", room) ELSE <<>>)
Field(tmp, sign, prefix, size, precision, flags) ==
  LET chars == IF "SMALL" \in flags THEN LowerCase ELSE Upper
      prec == IF Len(tmp) > precision THEN Len(tmp) ELSE precision
  IN Padded(prec - Len(tmp), [i \in 1 .. Len(tmp) |-> chars[tmp[Len(tmp) + 1 - i] + 1]],
            sign, prefix, Room(size, sign, prefix, prec), flags)

(* number(): all it writes, from left to right. *)
number(num, base, size, precision, flags) ==
  LET neg == "SIGN" \in flags /\ num >= LongMod \div 2
      sign == CASE neg -> <<"-">>
                [] ~neg /\ {"SIGN", "PLUS"} \subseteq flags -> <<"+">>
                [] ~neg /\ "PLUS" \notin flags /\ {"SIGN", "SPACE"} \subseteq flags -> <<" ">>
                [] OTHER -> <<>>
      n == IF neg THEN LongMod - num ELSE num
      prefix == IF "SPECIAL" \notin flags \/ base = 10 THEN <<>>
                ELSE IF base = 8 THEN <<"0">> ELSE <<"0", IF "SMALL" \in flags THEN "x" ELSE "X">>
  IN Field(IF base = 10 THEN put_dec(n) ELSE Shifted(n, base), sign, prefix, size, precision, flags)

string(s, width, precision, flags) ==
  LET text == IF precision >= 0 /\ precision < Len(s) THEN SubSeq(s, 1, precision) ELSE s
      pad == Rep(" ", width - Len(text))
  IN IF "LEFT" \in flags THEN text \o pad ELSE pad \o text

-----------------------------------------------------------------------------
(* A buffer of size bytes, written through ADDCH(): what does not fit is   *)
(* counted and not stored.                                                 *)
ADDCH(b, c) == [b EXCEPT !.mem = [i \in DOMAIN @ |-> IF i = b.pos /\ i < b.size THEN c ELSE @[i]], !.pos = @ + 1]
RECURSIVE Add(_, _)
Add(b, s) == IF s = <<>> THEN b ELSE Add(ADDCH(b, Head(s)), Tail(s))

(* A directive d is read part by part: i is its next character, args what  *)
(* is left of the arguments.                                               *)
FlagOf == ("-" :> "LEFT") @@ ("+" :> "PLUS") @@ (" " :> "SPACE") @@ ("#" :> "SPECIAL") @@ ("0" :> "ZEROPAD")
RECURSIVE Flags(_, _)
Flags(fmt, d) ==
  IF Nth(fmt, d.i) \in DOMAIN FlagOf THEN Flags(fmt, [d EXCEPT !.i = @ + 1, !.flags = @ \union {FlagOf[fmt[d.i]]}]) ELSE d
RECURSIVE skip_atoi(_, _, _)
skip_atoi(fmt, i, n) ==
  IF isdigit(Nth(fmt, i)) THEN skip_atoi(fmt, i + 1, n * 10 + DigitValue[fmt[i]]) ELSE [i |-> i, n |-> n]

Width(fmt, d) ==
  LET n == skip_atoi(fmt, d.i, 0)
      arg == Head(d.args)
  IN CASE isdigit(Nth(fmt, d.i)) -> [d EXCEPT !.i = n.i, !.width = n.n]
       [] Nth(fmt, d.i) = "*" -> [d EXCEPT !.i = @ + 1, !.args = Tail(@), !.width = IF arg < 0 THEN -arg ELSE arg,
                                           !.flags = IF arg < 0 THEN @ \union {"LEFT"} ELSE @]
       [] OTHER -> d

Precision(fmt, d) ==
  LET n == skip_atoi(fmt, d.i + 1, 0)
      arg == Head(d.args)
  IN CASE Nth(fmt, d.i) # "." -> d
       [] Nth(fmt, d.i) = "." /\ Nth(fmt, d.i + 1) = "*" ->
            [d EXCEPT !.i = @ + 2, !.args = Tail(@), !.prec = IF arg < 0 THEN 0 ELSE arg]
       [] OTHER -> [d EXCEPT !.i = n.i, !.prec = n.n]

Qualifier(fmt, d) ==
  LET c == Nth(fmt, d.i)
      long == c = "l" /\ Nth(fmt, d.i + 1) = "l"
  IN CASE long -> [d EXCEPT !.i = @ + 2, !.q = "L"]
       [] ~long /\ c \in {"h", "l", "L", "Z", "z", "t"} -> [d EXCEPT !.i = @ + 1, !.q = c]
       [] OTHER -> d

Directive(fmt, i, args) ==
  Qualifier(fmt, Precision(fmt, Width(fmt, Flags(fmt,
    [i |-> i, args |-> args, flags |-> {}, width |-> -1, prec |-> -1, q |-> NUL]))))

(* An argument as the qualifier reads it, extended to 64 bits. *)
Extend(n, mod, flags) == IF "SIGN" \in flags /\ n >= mod \div 2 THEN LongMod - mod + n ELSE n
Fetch(arg, q, flags) ==
  CASE q = "h" -> Extend(arg % ShortMod, ShortMod, flags)
    [] q = NUL -> Extend(arg % IntMod, IntMod, flags)
    [] OTHER -> arg % LongMod

(* An address with its bytes in hexadecimal or decimal, and pointer() for  *)
(* the suffixes; a pointer argument is its value or the bytes it points to.*)
hex_byte_pack(x) == <<LowerCase[(x \div 16) + 1], LowerCase[(x % 16) + 1]>>
RECURSIVE Joined(_, _)
Joined(parts, sep) == IF Len(parts) = 1 THEN parts[1] ELSE parts[1] \o sep \o Joined(Tail(parts), sep)
Colon(flags) == IF "SPECIAL" \in flags THEN <<>> ELSE <<":">>
mac_address_string(addr, flags) == Joined([i \in 1 .. 6 |-> hex_byte_pack(addr[i])], Colon(flags))
ip6_addr_string(addr, flags) ==
  Joined([i \in 1 .. 8 |-> hex_byte_pack(addr[2 * i - 1]) \o hex_byte_pack(addr[2 * i])], Colon(flags))
Reversed(s) == [i \in DOMAIN s |-> Upper[s[Len(s) + 1 - i] + 1]]
ip4_addr_string(addr) == Joined([i \in 1 .. 4 |-> Reversed(put_dec_trunc(addr[i]))], <<".">>)

pointer(fmt, i, ptr, width, prec, flags) ==
  LET c == Nth(fmt, i)
      v == Nth(fmt, i + 1)
      raw == IF c \in {"m", "i"} THEN flags \union {"SPECIAL"} ELSE flags
      wide == IF c = "a" THEN PtrDigits + 2 ELSE width
      plain == (CASE c = "a" -> flags \union {"SPECIAL", "ZEROPAD"}
                  [] c \in {"i", "I"} -> flags \ {"SPECIAL"}
                  [] OTHER -> flags) \union {"SMALL"}
  IN CASE c \in {"m", "M"} -> string(mac_address_string(ptr, raw), width, prec, flags)
       [] c \in {"i", "I"} /\ v = "6" -> string(ip6_addr_string(ptr, raw), width, prec, flags)
       [] c \in {"i", "I"} /\ v = "4" -> string(ip4_addr_string(ptr), width, prec, flags)
       [] OTHER -> IF wide = -1 THEN number(ptr, 16, PtrDigits, prec, plain \union {"ZEROPAD"})
                   ELSE number(ptr, 16, wide, prec, plain)

Alnum == Range(Upper) \union Range(LowerCase) \union {"p", "m", "M", "i", "I", "x", "z"}
RECURSIVE SkipAlnum(_, _)
SkipAlnum(fmt, i) == IF Nth(fmt, i) \in Alnum THEN SkipAlnum(fmt, i + 1) ELSE i

Base(c) == CASE c = "o" -> 8 [] c \in {"x", "X"} -> 16 [] OTHER -> 10
TypeFlags(c) == CASE c = "x" -> {"SMALL"} [] c \in {"d", "i"} -> {"SIGN"} [] OTHER -> {}

(* What a directive whose conversion is c prints of its argument; %n,      *)
(* which no caller uses, is left out.                                      *)
Conversion(fmt, d, c, flags) ==
  LET arg == Head(d.args)
      pad == Rep(" ", d.width - 1)
  IN CASE c = "c" -> IF "LEFT" \in flags THEN <<arg>> \o pad ELSE Append(pad, arg)
       [] c = "s" -> string(arg, d.width, d.prec, flags)
       [] c = "p" -> pointer(fmt, d.i + 1, arg, d.width, d.prec, flags)
       [] c \in {"%", NUL} -> <<"%">>
       [] c \in {"o", "x", "X", "d", "i", "u"} -> number(Fetch(arg, d.q, flags), Base(c), d.width, d.prec, flags)
       [] OTHER -> <<"%", c>>

(* vsnprintf_internal() from character i on. *)
RECURSIVE Format(_, _, _, _)
RECURSIVE Convert(_, _, _)
Convert(fmt, d, b) ==
  LET c == Nth(fmt, d.i)
  IN Format(fmt, IF c = "p" THEN SkipAlnum(fmt, d.i + 1) ELSE d.i + 1,
            IF c \in {"c", "s", "p", "o", "x", "X", "d", "i", "u"} THEN Tail(d.args) ELSE d.args,
            Add(b, Conversion(fmt, d, c, d.flags \union TypeFlags(c))))
Format(fmt, i, args, b) ==
  IF i > Len(fmt) THEN b
  ELSE IF fmt[i] # "%" THEN Format(fmt, i + 1, args, ADDCH(b, fmt[i]))
  ELSE Convert(fmt, Directive(fmt, i + 1, args), b)

(* The buffer mem after the call, and the number returned. *)
Terminated(b, z) ==
  [ret |-> b.pos,
   mem |-> IF b.size = 0 THEN b.mem ELSE IF z.pos > b.size THEN [z.mem EXCEPT ![b.size - 1] = NUL] ELSE z.mem]
Finish(b) == Terminated(b, ADDCH(b, NUL))
vsnprintf(mem, size, fmt, args) == Finish(Format(fmt, 1, args, [mem |-> mem, pos |-> 0, size |-> size]))
vscnprintf(mem, size, fmt, args) ==
  [vsnprintf(mem, size, fmt, args) EXCEPT !.ret = IF @ < size THEN @ ELSE IF size # 0 THEN size - 1 ELSE 0]

(* printf(), vprintf(): what reaches the console through a buffer of size  *)
(* bytes, and the number returned.                                         *)
Shown(r) == [ret |-> r.ret, out |-> [i \in 1 .. r.ret |-> r.mem[i - 1]]]
printf(size, fmt, args) == Shown(vscnprintf([i \in 0 .. size - 1 |-> "?"], size, fmt, args))

(* simple_itoa(); print_grouped_ull(), which steps over the text by three; *)
(* str2off() and str2long(), which accept hexadecimal digits only.         *)
simple_itoa(i) == Reversed(Shifted(i, 10))
Groups(str) ==
  FlattenSeq([k \in 1 .. Len(str) \div 3 |->
    (IF k = 1 THEN <<>> ELSE IF str[3 * k - 3] # " " THEN <<",">> ELSE <<" ">>) \o SubSeq(str, 3 * k - 2, 3 * k)])
print_grouped_ull(int_val, digits) == Groups(number(int_val, 10, ((digits + 2) \div 3) * 3, -1, {}))
str2long(p) ==
  LET r == simple_strtoul(p, 16) IN [ok |-> p # <<>> /\ r.end = Len(p), num |-> r.val]

(* print_size(): the unit chosen (0 for bytes), the whole part and the     *)
(* tenth printed behind it.                                                *)
Units == 6
Tenth(f, d) == (10 * f + 2 ^ (d - 1)) \div 2 ^ d
print_size(size) ==
  LET fits == {u \in 1 .. Units : size \div 2 ^ (UnitBits * u) # 0}
      d == UnitBits * Max(fits)
      f == size % 2 ^ d
      m == IF f = 0 THEN 0 ELSE Tenth(f, d)
  IN IF fits = {} THEN [unit |-> 0, n |-> size, m |-> 0]
     ELSE [unit |-> Max(fits), n |-> (size \div 2 ^ d) + (IF m >= 10 THEN 1 ELSE 0),
           m |-> IF m >= 10 THEN m - 10 ELSE m]

(* strmhz(): the rest is taken off an unsigned value and may wrap. *)
DIV_ROUND_CLOSEST(x, d) == ((x + (d \div 2)) % LongMod) \div d
strmhz(hz) ==
  LET n == DIV_ROUND_CLOSEST(hz, Thousand) \div Thousand
  IN [n |-> n, m |-> DIV_ROUND_CLOSEST((hz - n * Thousand * Thousand) % LongMod, Thousand)]

(* printk(): markers in front of the text give its level, the last one     *)
(* counts; "c" and "d" stand for the default.                              *)
SOH == "soh"
LevelOf == [c \in {"0", "1", "2", "7", "c", "d"} |-> IF c \in {"c", "d"} THEN 4 ELSE DigitValue[c]]
RECURSIVE printk(_, _, _)
printk(buf, level, loglevel) ==
  IF Nth(buf, 1) = SOH /\ Nth(buf, 2) \in DOMAIN LevelOf
  THEN printk(Drop(buf, 2), LevelOf[buf[2]], loglevel)
  ELSE [out |-> IF loglevel >= level THEN buf ELSE <<>>, ret |-> Len(buf)]

(* display_options_get_banner_priv(): three formatted pieces in a buffer.  *)
Placed(mem, off, part) == [part EXCEPT !.mem = [i \in DOMAIN mem |-> IF i >= off THEN part.mem[i - off] ELSE mem[i]]]
At(mem, off, size, fmt, args) ==
  Placed(mem, off, vsnprintf([i \in 0 .. Cardinality(DOMAIN mem) - 1 |-> IF i + off \in DOMAIN mem THEN mem[i + off] ELSE NUL],
                             size - off, fmt, args))
Newlines(b, len, size) == At(b.mem, Max({0, Min({len, size - 3})}), size, <<"\n", "\n">>, <<>>).mem
Tag(a, size, tag) ==
  IF tag # <<>> /\ a.ret < size THEN At(a.mem, a.ret, size, <<",", "%", "s">>, <<tag>>) ELSE [a EXCEPT !.ret = 0]
Ended(a, b, size) == Newlines(b, a.ret + b.ret, size)
Tagged(a, size, tag) == Ended(a, Tag(a, size, tag), size)
display_options_get_banner_priv(mem, size, version, tag) ==
  Tagged(At(mem, 0, size, <<"%", "s">>, <<version>>), size, tag)

-----------------------------------------------------------------------------
(* The reference.  Digits by weight, as many as are needed. *)
MaxDigits == 7   \* enough for LongMod in every base
NumLen(v, base) == Min({n \in 1 .. MaxDigits : v < base ^ n})
Weighed(v, base, chars) == LET n == NumLen(v, base) IN [i \in 1 .. n |-> chars[((v \div base ^ (n - i)) % base) + 1]]

(* put_dec_trunc() and put_dec_full() on q < 100000: its decimal digits,   *)
(* without leading zeros and with.                                         *)
DecimalRight(q) ==
  /\ Reversed(put_dec_trunc(q)) = Weighed(q, 10, Upper)
  /\ put_dec_full(q) = [i \in 1 .. 5 |-> (q \div 10 ^ (i - 1)) % 10]

(* simple_itoa() agrees with put_dec() on q, and so does a grouped number  *)
(* but for its commas, one in front of every three digits, if its width    *)
(* was announced.  A console buffer of any size shows the start of a text. *)
PlainRight(q) ==
  /\ simple_itoa(q) = Reversed(put_dec(q))
  /\ LET n == Len(simple_itoa(q))
         g == print_grouped_ull(q, n)
     IN /\ SelectSeq(g, LAMBDA c : c \notin {" ", ","}) = simple_itoa(q)
        /\ \A i \in DOMAIN g : g[i] = "," <=> (Len(g) - i) % 4 = 3 /\ i > 1 /\ g[i - 1] # " "
  /\ \A size \in {1, 3, 8} :
       printf(size, <<"%", "d">>, <<q % (IntMod \div 2)>>).out =
         LET text == simple_itoa(q % (IntMod \div 2)) IN SubSeq(text, 1, Min({Len(text), size - 1}))

(* A directive: flags, width and precision (-1 for none), whether the      *)
(* width is an argument, qualifier, conversion and argument.               *)
Digit(n) == IF n < 0 THEN <<>> ELSE <<Upper[n + 1]>>
FmtOf(d) ==
  <<"%">> \o SetToSeq(d.flags) \o (IF d.star THEN <<"*">> ELSE Digit(d.width))
  \o (IF d.prec < 0 THEN <<>> ELSE <<".">> \o Digit(d.prec)) \o d.q \o <<d.conv>>
ArgsOf(d) == (IF d.star THEN <<d.width>> ELSE <<>>) \o <<d.arg>>

(* The number the directive prints, as an integer. *)
Meant(d) ==
  LET mod == CASE d.q = <<"h">> -> ShortMod [] d.q = <<>> -> IntMod [] OTHER -> LongMod
      v == d.arg % mod
  IN IF d.conv = "d" /\ v >= mod \div 2 THEN v - mod ELSE v

(* What a directive prints: spaces, sign, prefix, zeros, the digits of the *)
(* number and spaces, as wide as asked for; spaces in front only without   *)
(* "-" and "0", behind only with "-", zeros beyond the precision only with *)
(* "0" and without "-".                                                    *)
NumberTextRight(d, text) ==
  LET v == Meant(d)
      abs == IF v < 0 THEN -v ELSE v
      width == IF d.width < 0 /\ d.star THEN -d.width ELSE d.width
      left == "-" \in d.flags \/ (d.star /\ d.width < 0)
      zero == "0" \in d.flags /\ ~left
      digits == Weighed(abs, Base(d.conv), IF d.conv = "x" THEN LowerCase ELSE Upper)
      sign == CASE v < 0 -> <<"-">>
                [] v >= 0 /\ d.conv = "d" /\ "+" \in d.flags -> <<"+">>
                [] v >= 0 /\ d.conv = "d" /\ "+" \notin d.flags /\ " " \in d.flags -> <<" ">>
                [] OTHER -> <<>>
      prefix == IF "#" \in d.flags /\ Base(d.conv) = 16 THEN <<"0", d.conv>>
                ELSE IF "#" \in d.flags /\ Base(d.conv) = 8 THEN <<"0">> ELSE <<>>
      body == Max({d.prec, Len(digits)})
      len == Max({width, Len(sign) + Len(prefix) + body})
  IN /\ Len(text) = len
     /\ \E a, c \in 0 .. len : LET z == len - a - c - Len(sign) - Len(prefix) - Len(digits) IN
          /\ z >= body - Len(digits)
          /\ text = Rep(" ", a) \o sign \o prefix \o Rep("0", z) \o digits \o Rep(" ", c)
          /\ a > 0 => ~left /\ ~zero
          /\ c > 0 => left
          /\ z > body - Len(digits) => zero

(* A formatted call with text around one directive: the text printed for   *)
(* it is right; in a buffer of any size the result is cut to fit, always   *)
(* terminated, nothing behind the buffer is touched, and the return value  *)
(* is the length without the cut (lib/vsprintf.c).                         *)
CutRight(full, text, r, size, clean) ==
  /\ r.ret = full.ret
  /\ r.mem = [i \in DOMAIN clean |->
        CASE i < Min({full.ret, size - 1}) -> text[i + 1]
          [] i = Min({full.ret, size - 1}) -> NUL
          [] OTHER -> "?"]
TextRight(d, full, text, fmt, clean) ==
  /\ full.ret < Cardinality(DOMAIN clean) /\ text[1] = "z" /\ Last(text) = "%"
  /\ NumberTextRight(d, SubSeq(text, 2, Len(text) - 1))
  /\ \A size \in 0 .. 4 :
       /\ CutRight(full, text, vsnprintf(clean, size, fmt, ArgsOf(d)), size, clean)
       /\ size > 0 => vscnprintf(clean, size, fmt, ArgsOf(d)).ret = Min({full.ret, size - 1})
Printed(full) == [i \in 1 .. full.ret |-> full.mem[i - 1]]
FullRight(d, full, fmt, clean) == TextRight(d, full, Printed(full), fmt, clean)
FormatRight(d) ==
  LET fmt == <<"z">> \o FmtOf(d) \o <<"%", "%">>
      clean == [i \in 0 .. 19 |-> "?"]
  IN FullRight(d, vsnprintf(clean, 20, fmt, ArgsOf(d)), fmt, clean)

(* A size is printed in the largest unit it fills, rounded to the nearest  *)
(* tenth; a frequency is rounded to the nearest thousandth although the    *)
(* rest wraps below zero when the whole part was rounded up.               *)
QuantityRight(n) ==
  LET p == print_size(n)
      d == UnitBits * p.unit
      h == strmhz(n)
  IN /\ n >= 2 ^ d \/ p.unit = 0
     /\ n < 2 ^ (UnitBits * (p.unit + 1)) \/ p.unit = Units
     /\ p.unit > 0 => p.m < 10 /\ 10 * p.n + p.m = (10 * n + 2 ^ (d - 1)) \div 2 ^ d
     /\ p.unit = 0 => p.n = n /\ p.m = 0
     /\ h.m < Thousand /\ h.n * Thousand + h.m = (n + (Thousand \div 2)) \div Thousand

(* A message appears when its last marker allows it, without any marker.   *)
MessageRight(buf, loglevel) ==
  LET pairs == Max({k \in 0 .. Len(buf) \div 2 : \A j \in 1 .. k : buf[2 * j - 1] = SOH /\ buf[2 * j] \in DOMAIN LevelOf})
      level == IF pairs = 0 THEN 4 ELSE LevelOf[buf[2 * pairs]]
      r == printk(buf, 4, loglevel)
  IN r.ret = Len(buf) - 2 * pairs /\ r.out = IF loglevel >= level THEN Drop(buf, 2 * pairs) ELSE <<>>

(* The banner keeps its two newlines whatever the buffer's size, losing    *)
(* the end of the version and the tag instead, and stays inside it.        *)
BannerIn(mem, size, all) ==
  LET text == SubSeq(all, 1, Min({Len(all), size - 3})) \o <<"\n", "\n", NUL>>
  IN /\ size >= 3 => \A i \in 0 .. Len(text) - 1 : mem[i] = text[i + 1]
     /\ \A i \in DOMAIN mem : i >= size => mem[i] = "?"
BannerRight(size, version, tag) ==
  BannerIn(display_options_get_banner_priv([i \in 0 .. 11 |-> "?"], size, version, tag), size,
           version \o (IF tag = <<>> THEN <<>> ELSE <<",">> \o tag))
=============================================================================
