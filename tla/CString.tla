------------------------------- MODULE CString -------------------------------
(***************************************************************************)
(* The string and memory routines of lib/string.c and the name sort of     *)
(* _do_help().  A memory is a function from addresses to bytes; a string   *)
(* starts at an address and ends with the byte 0.  NULL is the address -1. *)
(***************************************************************************)
EXTENDS Integers, Sequences, FiniteSets, FiniteSetsExt, SequencesExt

CONSTANT WordSize   \* sizeof(unsigned long)

ASSUME CStringAssumption == WordSize \in Nat \ {0}

NULL == -1
lower(c) == IF c \in 65 .. 90 THEN c + 32 ELSE c
signed_char(x) == ((x + 128) % 256) - 128

RECURSIVE strnlen(_, _, _)
strnlen(m, s, count) == IF count = 0 \/ m[s] = 0 THEN 0 ELSE 1 + strnlen(m, s + 1, count - 1)
strlen(m, s) == strnlen(m, s, Cardinality(DOMAIN m))

(* strcmp() is strncmp() without a limit; the difference is kept in a      *)
(* signed char.                                                            *)
RECURSIVE strncmp(_, _, _, _)
strncmp(m, cs, ct, count) ==
  LET res == signed_char(m[cs] - m[ct])
  IN CASE count = 0 -> 0
       [] count > 0 /\ (res # 0 \/ m[cs] = 0) -> res
       [] OTHER -> strncmp(m, cs + 1, ct + 1, count - 1)
strcmp(m, cs, ct) == strncmp(m, cs, ct, Cardinality(DOMAIN m))

RECURSIVE strncasecmp(_, _, _, _)
strncasecmp(m, s1, s2, len) ==
  CASE len = 0 -> 0
    [] len > 0 /\ (m[s1] = 0 \/ m[s2] = 0) -> m[s1] - m[s2]
    [] len > 0 /\ m[s1] # 0 /\ m[s2] # 0 /\ lower(m[s1]) # lower(m[s2]) -> lower(m[s1]) - lower(m[s2])
    [] OTHER -> strncasecmp(m, s1 + 1, s2 + 1, len - 1)

RECURSIVE strncpy(_, _, _, _)
strncpy(m, dest, src, count) ==
  IF count = 0 THEN m
  ELSE LET n == [m EXCEPT ![dest] = m[src]]
       IN IF m[src] = 0 THEN n ELSE strncpy(n, dest + 1, src + 1, count - 1)
strcpy(m, dest, src) == strncpy(m, dest, src, Cardinality(DOMAIN m))

RECURSIVE CatLoop(_, _, _, _)
CatLoop(m, dest, src, count) ==
  LET n == [m EXCEPT ![dest] = m[src]]
  IN CASE m[src] = 0 -> n
       [] m[src] # 0 /\ count = 1 -> [n EXCEPT ![dest + 1] = 0]
       [] OTHER -> CatLoop(n, dest + 1, src + 1, count - 1)
strncat(m, dest, src, count) ==
  IF count = 0 THEN m ELSE CatLoop(m, dest + strlen(m, dest), src, count)
strcat(m, dest, src) == strcpy(m, dest + strlen(m, dest), src)

RECURSIVE strchrnul(_, _, _)
strchrnul(m, s, c) == IF m[s] = c \/ m[s] = 0 THEN s ELSE strchrnul(m, s + 1, c)
strchr(m, s, c) == IF m[strchrnul(m, s, c)] = c THEN strchrnul(m, s, c) ELSE NULL
RECURSIVE BackTo(_, _, _, _)
BackTo(m, p, s, c) == IF p < s THEN NULL ELSE IF m[p] = c THEN p ELSE BackTo(m, p - 1, s, c)
strrchr(m, s, c) == BackTo(m, s + strlen(m, s), s, c)

(* strspn(), strcspn(), strpbrk(): member says whether the run goes on     *)
(* inside or outside the given set of characters.                          *)
RECURSIVE SpanLen(_, _, _, _)
SpanLen(m, p, set, member) ==
  IF m[p] # 0 /\ ((\E i \in set .. set + strlen(m, set) - 1 : m[i] = m[p]) <=> member)
  THEN 1 + SpanLen(m, p + 1, set, member) ELSE 0
strspn(m, s, accept) == SpanLen(m, s, accept, TRUE)
strcspn(m, s, reject) == SpanLen(m, s, reject, FALSE)
strpbrk(m, cs, ct) == LET p == cs + strcspn(m, cs, ct) IN IF m[p] = 0 THEN NULL ELSE p

(* strsep() and strtok(): the token, the memory and the position kept. *)
strsep(m, s, ct) ==
  IF s = NULL THEN [tok |-> NULL, m |-> m, next |-> NULL]
  ELSE LET end == strpbrk(m, s, ct)
       IN IF end = NULL THEN [tok |-> s, m |-> m, next |-> NULL]
          ELSE [tok |-> s, m |-> [m EXCEPT ![end] = 0], next |-> end + 1]
strtok(m, s, ct) ==
  IF s = NULL THEN [tok |-> NULL, m |-> m, next |-> NULL]
  ELSE LET b == s + strspn(m, s, ct)
       IN IF m[b] = 0 THEN [tok |-> NULL, m |-> m, next |-> NULL] ELSE strsep(m, b, ct)

RECURSIVE SwabLoop(_, _)
SwabLoop(m, p) ==
  IF m[p] = 0 \/ m[p + 1] = 0 THEN m
  ELSE SwabLoop([m EXCEPT ![p] = m[p + 1], ![p + 1] = m[p]], p + 2)
strswab(m, s) == SwabLoop(m, s)

-----------------------------------------------------------------------------
(* memcpy() copies forwards, whole words while both sides are aligned. *)
RECURSIVE CopyBytes(_, _, _, _)
CopyBytes(m, d, s, n) ==
  IF n = 0 THEN m ELSE CopyBytes([m EXCEPT ![d] = m[s]], d + 1, s + 1, n - 1)
CopyWord(m, d, s) == [a \in DOMAIN m |-> IF a \in d .. d + WordSize - 1 THEN m[a - d + s] ELSE m[a]]
RECURSIVE CopyWords(_, _, _, _)
CopyWords(m, d, s, n) ==
  IF n < WordSize THEN CopyBytes(m, d, s, n)
  ELSE CopyWords(CopyWord(m, d, s), d + WordSize, s + WordSize, n - WordSize)
memcpy(m, dest, src, count) ==
  CASE src = dest -> m
    [] src # dest /\ dest % WordSize = 0 /\ src % WordSize = 0 -> CopyWords(m, dest, src, count)
    [] OTHER -> CopyBytes(m, dest, src, count)

RECURSIVE CopyBack(_, _, _, _)
CopyBack(m, d, s, n) ==
  IF n = 0 THEN m ELSE CopyBack([m EXCEPT ![d + n - 1] = m[s + n - 1]], d, s, n - 1)
memmove_always_forward(m, dest, src, count) == memcpy(m, dest, src, count)
memmove(m, dest, src, count) ==
  IF dest <= src THEN memcpy(m, dest, src, count) ELSE CopyBack(m, dest, src, count)

strlcpy_size(m, dest, src, size) ==
  LET ret == strlen(m, src)
      len == IF ret >= size THEN size ELSE ret
  IN IF size = 0 THEN m ELSE [memcpy(m, dest, src, len) EXCEPT ![dest + len] = 0]
strlcpy(m, dest, src, size) ==
  LET ret == strlen(m, src)
      len == IF ret >= size THEN size - 1 ELSE ret
  IN IF size = 0 THEN m ELSE [memcpy(m, dest, src, len) EXCEPT ![dest + len] = 0]

RECURSIVE SetBytes(_, _, _, _)
SetBytes(m, s, c, n) == IF n = 0 THEN m ELSE SetBytes([m EXCEPT ![s] = c], s + 1, c, n - 1)
RECURSIVE SetWords(_, _, _, _)
SetWords(m, s, c, n) ==
  IF n < WordSize THEN SetBytes(m, s, c, n)
  ELSE SetWords([a \in DOMAIN m |-> IF a \in s .. s + WordSize - 1 THEN c ELSE m[a]],
                s + WordSize, c, n - WordSize)
memset(m, s, c, count) ==
  IF s % WordSize = 0 THEN SetWords(m, s, c, count) ELSE SetBytes(m, s, c, count)

RECURSIVE memcmp(_, _, _, _)
memcmp(m, cs, ct, count) ==
  IF count = 0 \/ m[cs] # m[ct] THEN (IF count = 0 THEN 0 ELSE m[cs] - m[ct])
  ELSE memcmp(m, cs + 1, ct + 1, count - 1)

RECURSIVE memscan(_, _, _, _)
memscan(m, p, c, size) == IF size = 0 \/ m[p] = c THEN p ELSE memscan(m, p + 1, c, size - 1)
memchr(m, s, c, n) == LET p == memscan(m, s, c, n) IN IF p = s + n THEN NULL ELSE p

RECURSIVE FindSub(_, _, _, _, _)
FindSub(m, s1, s2, l1, l2) ==
  CASE l1 < l2 -> NULL
    [] l1 >= l2 /\ memcmp(m, s1, s2, l2) = 0 -> s1
    [] OTHER -> FindSub(m, s1 + 1, s2, l1 - 1, l2)
strstr(m, s1, s2) ==
  IF strlen(m, s2) = 0 THEN s1 ELSE FindSub(m, s1, s2, strlen(m, s1), strlen(m, s2))

(* memchr_inv(): bytes up to an aligned address, words, the bytes left.    *)
(* The code takes the short way up to two words.                           *)
RECURSIVE check_bytes8(_, _, _, _)
check_bytes8(m, p, c, n) ==
  CASE n = 0 -> NULL
    [] n > 0 /\ m[p] # c -> p
    [] OTHER -> check_bytes8(m, p + 1, c, n - 1)
RECURSIVE InvWords(_, _, _, _)
InvWords(m, p, c, n) ==
  CASE n < WordSize -> check_bytes8(m, p, c, n)
    [] n >= WordSize /\ (\E i \in p .. p + WordSize - 1 : m[i] # c) -> check_bytes8(m, p, c, WordSize)
    [] OTHER -> InvWords(m, p + WordSize, c, n - WordSize)
memchr_inv(m, start, c, bytes) ==
  LET prefix == (-start) % WordSize
      r == check_bytes8(m, start, c, prefix)
  IN CASE bytes <= 2 * WordSize -> check_bytes8(m, start, c, bytes)
       [] bytes > 2 * WordSize /\ r # NULL -> r
       [] OTHER -> InvWords(m, start + prefix, c, bytes - prefix)

(* The bubble sort of _do_help(): a holds the addresses of the names. *)
RECURSIVE Pass(_, _, _, _)
Pass(m, a, j, i) ==
  IF j >= i THEN a
  ELSE Pass(m, IF strcmp(m, a[j], a[j + 1]) > 0 THEN [a EXCEPT ![j] = a[j + 1], ![j + 1] = a[j]] ELSE a,
            j + 1, i)
RECURSIVE SortFrom(_, _, _)
SortFrom(m, a, i) ==
  LET p == Pass(m, a, 1, i)
  IN IF i <= 1 \/ p = a THEN p ELSE SortFrom(m, p, i - 1)
HelpOrder(m, a) == SortFrom(m, a, Len(a))

-----------------------------------------------------------------------------
(* The reference.  Str is the string at an address, Lay writes strings one *)
(* after the other; the rest of the memory is filled with a byte.          *)
Str(m, p) == LET e == Min({q \in DOMAIN m : q >= p /\ m[q] = 0}) IN [i \in 1 .. e - p |-> m[p + i - 1]]
Lay(a, b, gap, size) ==
  [x \in 0 .. size - 1 |->
     CASE x < Len(a) -> a[x + 1]
       [] x >= gap /\ x < gap + Len(b) -> b[x - gap + 1]
       [] OTHER -> 0]

Less(a, b) ==
  \E i \in 1 .. Len(b) :
    /\ i <= Len(a) + 1
    /\ SubSeq(a, 1, i - 1) = SubSeq(b, 1, i - 1)
    /\ i <= Len(a) => a[i] < b[i]
Cut(s, n) == SubSeq(s, 1, IF n < Len(s) THEN n ELSE Len(s))
Lower(s) == [i \in DOMAIN s |-> lower(s[i])]
First(S, none) == IF S = {} THEN none ELSE Min(S)
Moved(m, d, s, n) == [a \in DOMAIN m |-> IF a \in d .. d + n - 1 THEN m[a - d + s] ELSE m[a]]

RECURSIVE TokLoop(_, _, _)
TokLoop(m, s, ct) ==
  LET r == strtok(m, s, ct) IN IF r.tok = NULL THEN <<>> ELSE <<Str(r.m, r.tok)>> \o TokLoop(r.m, r.next, ct)
RECURSIVE SepLoop(_, _, _)
SepLoop(m, s, ct) ==
  LET r == strsep(m, s, ct) IN IF r.tok = NULL THEN <<>> ELSE <<Str(r.m, r.tok)>> \o SepLoop(r.m, r.next, ct)

(* The tokens of s between single characters of the set C. *)
Fields(s, C) ==
  LET cuts == {0, Len(s) + 1} \union {i \in DOMAIN s : s[i] \in C}
      at == SetToSortSeq(cuts, LAMBDA x, y : x < y)
  IN [i \in 1 .. Len(at) - 1 |-> SubSeq(s, at[i] + 1, at[i + 1] - 1)]

(* lib/string.c on two strings a and b and a limit n: comparisons decide   *)
(* equality for all bytes and the order for 7 bit ones, copies and         *)
(* concatenations give the expected text within their limit, searches find *)
(* the first or last place, and the two tokenizers give the fields of a    *)
(* between characters of b, strtok() without the empty ones.               *)
StringsRightFor(a, b, n) ==
  LET gap == 2 * (Len(a) + Len(b)) + 2
      m == Lay(a, b, gap, 2 * gap)
      ascii == \A c \in Range(a) \union Range(b) : c < 128
  IN /\ strcmp(m, 0, gap) = 0 <=> a = b
     /\ ascii => (strcmp(m, 0, gap) < 0 <=> Less(a, b))
     /\ strncmp(m, 0, gap, n) = 0 <=> Cut(a, n) = Cut(b, n)
     /\ strncasecmp(m, 0, gap, n) = 0 <=> Lower(Cut(a, n)) = Lower(Cut(b, n))
     /\ Str(strcat(m, 0, gap), 0) = a \o b
     /\ Str(strncat(m, 0, gap, n), 0) = a \o Cut(b, n)
     /\ Str(strcpy(m, 0, gap), 0) = b
     /\ n > 0 => Str(strlcpy(m, 0, gap, n), 0) = Cut(b, n - 1)
     /\ SubSeq(Str(strncpy(m, 0, gap, n), 0), 1, Len(Cut(b, n))) = Cut(b, n)
     /\ strstr(m, 0, gap) = First({i \in 0 .. Len(a) - Len(b) : SubSeq(a, i + 1, i + Len(b)) = b}, NULL)
     /\ \A c \in Range(b) :
          /\ strchr(m, 0, c) = First({i - 1 : i \in {j \in DOMAIN a : a[j] = c}}, NULL)
          /\ strrchr(m, 0, c) = IF c \in Range(a) THEN Max({j \in DOMAIN a : a[j] = c}) - 1 ELSE NULL
     /\ strspn(m, 0, gap) = First({i - 1 : i \in {j \in DOMAIN a : a[j] \notin Range(b)}}, Len(a))
     /\ SepLoop(m, 0, gap) = Fields(a, Range(b))
     /\ TokLoop(m, 0, gap) = SelectSeq(Fields(a, Range(b)), LAMBDA f : f # <<>>)
     /\ a # <<>> => Str(strswab(m, 0), 0) =
          [i \in DOMAIN a |-> CASE i % 2 = 0 -> a[i - 1]
                               [] i % 2 = 1 /\ i < Len(a) -> a[i + 1]
                               [] OTHER -> a[i]]

(* The names of a listing come out in order, and none is lost. *)
HelpSorted(names) ==
  LET w == 1 + Max({Len(names[i]) : i \in DOMAIN names})
      m == [x \in 0 .. w * Len(names) - 1 |->
              LET s == names[(x \div w) + 1] IN IF x % w < Len(s) THEN s[(x % w) + 1] ELSE 0]
      at == [i \in DOMAIN names |-> (i - 1) * w]
      out == HelpOrder(m, at)
  IN /\ Range(out) = Range(at)
     /\ \A i \in 1 .. Len(out) - 1 : ~Less(Str(m, out[i + 1]), Str(m, out[i]))

(* The memory routines on the memory m, from s to d, n bytes: memmove() is *)
(* exact whatever the overlap and the alignment, memcpy() is when the      *)
(* areas are disjoint or the target lies below, memset() fills exactly its *)
(* area, and comparing and searching agree with the bytes.                 *)
MemoryRightFor(m, d, s, n, c) ==
  /\ memmove(m, d, s, n) = Moved(m, d, s, n)
  /\ (d <= s \/ s + n <= d) => memcpy(m, d, s, n) = Moved(m, d, s, n)
  /\ memset(m, d, c, n) = [a \in DOMAIN m |-> IF a \in d .. d + n - 1 THEN c ELSE m[a]]
  /\ memcmp(m, d, s, n) = 0 <=> \A i \in 0 .. n - 1 : m[d + i] = m[s + i]
  /\ memchr(m, d, c, n) = First({a \in d .. d + n - 1 : m[a] = c}, NULL)
  /\ memchr_inv(m, d, c, n) = First({a \in d .. d + n - 1 : m[a] # c}, NULL)
=============================================================================
