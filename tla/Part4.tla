-------------------------------- MODULE Part4 --------------------------------
(***************************************************************************)
(* module/part4-printf/printf.c: the tutorial's own output and conversion  *)
(* routines, a copy of an earlier state of lib/.  Where the code is the    *)
(* same its model is; strtoul(), the addresses and %dE differ.             *)
(***************************************************************************)
EXTENDS HexDump

P4_hex2bin(src, count) == hex2bin(<<>>, src, count)
P4_bin2hex(bytes) == bin2hex(bytes)

(* The prefix 0x chooses base 16 whatever base is asked for, and is        *)
(* skipped even when no digit follows.                                     *)
P4_fixup_radix(s, base) ==
  IF HasPrefix(s) THEN [base |-> 16, skip |-> 2]
  ELSE [base |-> IF base # 0 THEN base ELSE IF Nth(s, 1) = "0" THEN 8 ELSE 10, skip |-> 0]
decode_digit(c) == IF isxdigit(c) THEN DigitValue[c] ELSE 256
RECURSIVE P4_Digits(_, _, _, _)
P4_Digits(s, i, base, result) ==
  IF decode_digit(Nth(s, i)) < base THEN P4_Digits(s, i + 1, base, (result * base + decode_digit(s[i])) % Modulus)
  ELSE [val |-> result, end |-> i - 1]
P4_strtoul(s, base) == LET f == P4_fixup_radix(s, base) IN P4_Digits(s, f.skip + 1, f.base, 0)
hextoul(s) == P4_strtoul(s, 16)

(* simple_guess_base() and simple_strtoull() look at the digit behind the  *)
(* prefix, and only when no base is given.                                 *)
simple_guess_base(s) ==
  IF Nth(s, 1) # "0" THEN 10 ELSE IF HasPrefix(s) /\ isxdigit(Nth(s, 3)) THEN 16 ELSE 8
P4_strtoull(s, base) ==
  LET b == IF base = 0 THEN simple_guess_base(s) ELSE base
  IN Digits(s, IF b = 16 /\ HasPrefix(s) THEN 3 ELSE 1, b, 0)
P4_str2off(p) == LET r == P4_strtoull(p, 16) IN [ok |-> p # <<>> /\ r.end = Len(p), num |-> r.val]
P4_str2long(p) == LET r == hextoul(p) IN [ok |-> p # <<>> /\ r.end = Len(p), num |-> r.val]

P4_put_dec_trunc(q) == put_dec_trunc(q)
P4_put_dec_full(q) == put_dec_full(q)
P4_put_dec(num) == put_dec(num)
P4_number(num, base, size, precision, flags) == number(num, base, size, precision, flags)
P4_string(s, width, precision, flags) == string(s, width, precision, flags)
P4_mac_address_string(addr, flags) == mac_address_string(addr, flags)
P4_ip4_addr_string(addr) == ip4_addr_string(addr)

(* %pI6 is not handled: it prints the pointer. *)
P4_pointer(fmt, i, ptr, width, prec, flags) ==
  IF Nth(fmt, i) \in {"i", "I"} /\ Nth(fmt, i + 1) = "6"
  THEN pointer(fmt, Len(fmt) + 1, ptr, width, prec, flags \ {"SPECIAL"})
  ELSE pointer(fmt, i, ptr, width, prec, flags)

(* %dE is %d: the error string it asks for is never looked up. *)
P4_Conversion(fmt, d, c, flags) ==
  IF c = "p" THEN P4_pointer(fmt, d.i + 1, Head(d.args), d.width, d.prec, flags) ELSE Conversion(fmt, d, c, flags)
P4_After(fmt, d, c) ==
  CASE c = "p" -> SkipAlnum(fmt, d.i + 1)
    [] c = "d" /\ Nth(fmt, d.i + 1) = "E" -> d.i + 2
    [] OTHER -> d.i + 1
RECURSIVE P4_Format(_, _, _, _)
RECURSIVE P4_Convert(_, _, _, _)
P4_Convert(fmt, d, c, b) ==
  P4_Format(fmt, P4_After(fmt, d, c),
            IF c \in {"c", "s", "p", "o", "x", "X", "d", "i", "u"} THEN Tail(d.args) ELSE d.args,
            Add(b, P4_Conversion(fmt, d, c, d.flags \union TypeFlags(c))))
P4_Directive(fmt, d, b) == P4_Convert(fmt, d, Nth(fmt, d.i), b)
P4_Format(fmt, i, args, b) ==
  IF i > Len(fmt) THEN b
  ELSE IF fmt[i] # "%" THEN P4_Format(fmt, i + 1, args, ADDCH(b, fmt[i]))
  ELSE P4_Directive(fmt, Directive(fmt, i + 1, args), b)
P4_vsnprintf(mem, size, fmt, args) == Finish(P4_Format(fmt, 1, args, [mem |-> mem, pos |-> 0, size |-> size]))
P4_vscnprintf(mem, size, fmt, args) ==
  [P4_vsnprintf(mem, size, fmt, args) EXCEPT !.ret = IF @ < size THEN @ ELSE IF size # 0 THEN size - 1 ELSE 0]
P4_printf(size, fmt, args) == Shown(P4_vscnprintf([i \in 0 .. size - 1 |-> "?"], size, fmt, args))

(* simple_xtoa() writes two digits at a time. *)
P4_simple_itoa(i) == simple_itoa(i)
RECURSIVE simple_xtoa(_)
simple_xtoa(num) ==
  (IF num \div 256 > 0 THEN simple_xtoa(num \div 256) ELSE <<>>) \o hex_byte_pack(num % 256)
P4_print_grouped_ull(int_val, digits) == print_grouped_ull(int_val, digits)
P4_strmhz(hz) == strmhz(hz)

-----------------------------------------------------------------------------
(* strtoul() reads the digits behind 0x as hexadecimal in every base and   *)
(* otherwise those of the base; where no base other than 16 is given and a *)
(* digit follows the prefix it and strtoull() agree, and so do str2long()  *)
(* and str2off() on every string (module/part4-printf/printf.c).           *)
P4ConversionsRight(s) ==
  /\ \A base \in {0, 8, 10, 16} :
       LET b == IF HasPrefix(s) THEN 16 ELSE Radix(s, base)
           t == IF HasPrefix(s) THEN Drop(s, 2) ELSE s
       IN /\ P4_strtoul(s, base) = [val |-> Value(SubSeq(t, 1, Run(t, b)), b), end |-> Len(s) - Len(t) + Run(t, b)]
          /\ P4_strtoull(s, base) = Number(s, base)
          /\ ~HasPrefix(s) \/ base = 16 \/ (base = 0 /\ isxdigit(Nth(s, 3))) => P4_strtoul(s, base) = P4_strtoull(s, base)
  /\ P4_str2off(s) = P4_str2long(s)
  /\ P4_str2long(s).ok <=> s # <<>> /\ \A i \in DOMAIN s : isxdigit(s[i]) \/ (i = 2 /\ HasPrefix(s))

(* The tutorial's printf() prints a directive as lib/vsprintf.c does, in   *)
(* buffers of every size, and swallows the E behind %d.                    *)
P4FormatRight(d) ==
  LET fmt == <<"z">> \o FmtOf(d)
      clean == [i \in 0 .. 19 |-> "?"]
  IN \A size \in {1, 4, 20} :
       LET r == P4_vsnprintf(clean, size, fmt \o <<"E">>, ArgsOf(d))
       IN r = vsnprintf(clean, size, IF d.conv = "d" THEN fmt ELSE fmt \o <<"E">>, ArgsOf(d))
P4QuantityRight(n) ==
  /\ LET x == simple_xtoa(n)
     IN /\ Len(x) % 2 = 0 /\ (Len(x) > 2 => <<x[1], x[2]>> # <<"0", "0">>)
        /\ FoldLeft(LAMBDA v, c : v * 16 + DigitValue[c], 0, x) = n
  /\ P4_printf(8, <<"%", "p", "I", "6">>, <<n>>) = P4_printf(8, <<"%", "p">>, <<n>>)
=============================================================================
