------------------------------ MODULE Charset ------------------------------
(***************************************************************************)
(* UTF-8 and UTF-16: lib/charset.c.  A string is the sequence of its bytes *)
(* or 16-bit units without the terminating null; reading at its end gives  *)
(* 0 and does not advance.  A decoder returns the code and what it leaves. *)
(***************************************************************************)
EXTENDS Integers, Sequences

First(s) == IF s = <<>> THEN 0 ELSE Head(s)
Rest(s) == IF s = <<>> THEN <<>> ELSE Tail(s)
Read(code, rest) == [code |-> code, rest |-> rest]

Question == 63
Surrogate(code) == code \in 55296 .. 57343
HighSurrogate(code) == code \in 55296 .. 56319
LowSurrogate(code) == code \in 56320 .. 57343
TooLarge == 1114112
NoCode(code) == Surrogate(code) \/ code >= TooLarge

(* get_code(): the last byte of a sequence, the last two, and the whole.   *)
Continuation(b) == First(b) \in 128 .. 191
Last(code, b) == Read(IF Continuation(b) THEN code + (First(b) % 64) ELSE Question, Rest(b))
LastTwo(code, b) ==
  IF NoCode(code) THEN Read(Question, b)
  ELSE IF ~Continuation(b) THEN Read(Question, Rest(b))
  ELSE Last(code + (First(b) % 64) * 64, Rest(b))
LastThree(code, b) ==
  IF ~Continuation(b) THEN Read(Question, Rest(b))
  ELSE LastTwo(code + (First(b) % 64) * 4096, Rest(b))
utf8_get(src) ==
  LET ch == First(src)
      b == Rest(src)
  IN CASE ch < 128 -> Read(ch, b)
       [] ch \in 194 .. 223 -> Last((ch % 64) * 64, b)
       [] ch \in 224 .. 239 -> LastTwo((ch % 16) * 4096, b)
       [] ch \in 240 .. 244 -> LastThree((ch % 8) * 262144, b)
       [] OTHER -> Read(Question, b)

Trail(n) == (n % 64) + 128
Encoded(code) ==
  CASE code < 128 -> <<code>>
    [] code \in 128 .. 2047 -> <<(code \div 64) + 192, Trail(code)>>
    [] code \in 2048 .. 65535 -> <<(code \div 4096) + 224, Trail(code \div 64), Trail(code)>>
    [] OTHER -> <<(code \div 262144) + 240, Trail(code \div 4096), Trail(code \div 64), Trail(code)>>
utf8_put(code) == IF NoCode(code) THEN <<>> ELSE Encoded(code)

utf16_put(code) ==
  IF NoCode(code) THEN <<>>
  ELSE IF code < 65536 THEN <<code>>
  ELSE <<((code - 65536) \div 1024) + 55296, (code % 1024) + 56320>>

(* The second half is taken only strictly between 0xDC00 and 0xDFFF.       *)
SecondHalf(code, src) ==
  IF First(src) = 0 THEN Read(-1, src)
  ELSE Read(IF First(src) \in 56321 .. 57342 THEN 65536 + (code % 1024) * 1024 + (First(src) % 1024) ELSE -1, Rest(src))
utf16_get(src) ==
  LET code == First(src)
  IN IF LowSurrogate(code) THEN Read(-1, Rest(src))
     ELSE IF HighSurrogate(code) THEN SecondHalf(code, Rest(src))
     ELSE Read(code, Rest(src))

(* The conversions of whole strings, at most count code points of them.    *)
(* A length stops at a code of 0, a copy only at the end of its source.    *)
RECURSIVE utf8_utf16_strnlen(_, _)
Len16(r, count) ==
  IF r.code = 0 THEN 0 ELSE (IF r.code < 65536 THEN 1 ELSE 2) + utf8_utf16_strnlen(r.rest, count)
utf8_utf16_strnlen(src, count) == IF src = <<>> \/ count = 0 THEN 0 ELSE Len16(utf8_get(src), count - 1)

RECURSIVE utf8_utf16_strncpy(_, _)
Copy16(r, count) == utf16_put(r.code) \o utf8_utf16_strncpy(r.rest, count)
utf8_utf16_strncpy(src, count) == IF src = <<>> \/ count = 0 THEN <<>> ELSE Copy16(utf8_get(src), count - 1)

RECURSIVE utf16_strnlen(_, _)
utf16_strnlen(src, count) == IF src = <<>> \/ count = 0 THEN 0 ELSE 1 + utf16_strnlen(utf16_get(src).rest, count - 1)

RECURSIVE utf16_utf8_strnlen(_, _)
Bytes(code) == CASE code < 128 -> 1 [] code \in 128 .. 2047 -> 2 [] code \in 2048 .. 65535 -> 3 [] OTHER -> 4
Len8(r, count) == Bytes(r.code) + utf16_utf8_strnlen(r.rest, count)
utf16_utf8_strnlen(src, count) == IF src = <<>> \/ count = 0 THEN 0 ELSE Len8(utf16_get(src), count - 1)

RECURSIVE utf16_utf8_strncpy(_, _)
Copy8(r, count) == utf8_put(IF r.code < 0 THEN Question ELSE r.code) \o utf16_utf8_strncpy(r.rest, count)
utf16_utf8_strncpy(src, count) == IF src = <<>> \/ count = 0 THEN <<>> ELSE Copy8(utf16_get(src), count - 1)

(* utf16_to_utf8(): code_high is a first half that was read; a unit that   *)
(* cannot follow it is read again, which counts against size.              *)
RECURSIVE ToUtf8(_, _, _)
utf16_to_utf8(src, size) == ToUtf8(src, size, 0)
ToUtf8(src, size, code_high) ==
  LET code == First(src)
  IN IF size = 0 THEN <<>>
     ELSE IF code_high # 0 /\ LowSurrogate(code)
     THEN Encoded((code_high - 55296) * 1024 + (code - 56320) + 65536) \o ToUtf8(Rest(src), size - 1, 0)
     ELSE IF code_high # 0 THEN <<Question>> \o ToUtf8(src, size - 1, 0)
     ELSE IF HighSurrogate(code) THEN ToUtf8(Rest(src), size - 1, code)
     ELSE (IF LowSurrogate(code) THEN <<Question>> ELSE Encoded(code)) \o ToUtf8(Rest(src), size - 1, 0)

-----------------------------------------------------------------------------
(* Every code point survives both encodings, except that utf16_get() does  *)
(* not accept a second half of 0xDC00 or 0xDFFF.                           *)
CodeRight(code) ==
  IF NoCode(code) THEN utf8_put(code) = <<>> /\ utf16_put(code) = <<>>
  ELSE /\ utf8_get(utf8_put(code)) = Read(code, <<>>)
       /\ utf16_get(utf16_put(code)) = Read(IF code >= 65536 /\ code % 1024 \in {0, 1023} THEN -1 ELSE code, <<>>)
       /\ code # 0 => utf16_to_utf8(utf16_put(code), Len(utf16_put(code))) = utf8_put(code)

(* A decoder makes progress by at most four bytes, and the space reserved  *)
(* for well-formed text is what its conversion fills.                      *)
AllToUtf8(u) == utf16_to_utf8(u, Len(u))
RECURSIVE WellFormed8(_)
WellFormed8(b) ==
  \/ b = <<>>
  \/ \E n \in 1 .. 4 : /\ n <= Len(b) /\ utf8_put(utf8_get(b).code) = SubSeq(b, 1, n)
                      /\ WellFormed8(SubSeq(b, n + 1, Len(b)))
BytesRight(b) ==
  /\ b # <<>> => Len(b) - Len(utf8_get(b).rest) \in 1 .. 4 /\ utf8_get(b).code \in 0 .. TooLarge - 1
  /\ WellFormed8(b) =>
       /\ \A count \in 0 .. Len(b) : utf8_utf16_strnlen(b, count) = Len(utf8_utf16_strncpy(b, count))
       /\ AllToUtf8(utf8_utf16_strncpy(b, Len(b))) = b

(* The bytes announced for any units, legal or not, are the bytes written; *)
(* utf16_to_utf8() writes at most three for each, and both agree on text.  *)
WellFormed16(u) ==
  \A i \in 1 .. Len(u) :
    /\ HighSurrogate(u[i]) => i < Len(u) /\ u[i + 1] \in 56321 .. 57342
    /\ LowSurrogate(u[i]) => i > 1 /\ HighSurrogate(u[i - 1])
UnitsRight(u) ==
  /\ \A count \in 0 .. Len(u) : utf16_utf8_strnlen(u, count) = Len(utf16_utf8_strncpy(u, count))
  /\ Len(utf16_to_utf8(u, Len(u))) <= 3 * Len(u)
  /\ utf16_strnlen(u, Len(u)) <= Len(u)
  /\ WellFormed16(u) => /\ utf16_to_utf8(u, Len(u)) = utf16_utf8_strncpy(u, Len(u))
                        /\ utf8_utf16_strncpy(utf16_utf8_strncpy(u, Len(u)), Len(u)) = u
                        /\ utf8_utf16_strnlen(utf16_utf8_strncpy(u, Len(u)), utf16_strnlen(u, Len(u))) = Len(u)
=============================================================================
