------------------------------- MODULE HexDump -------------------------------
(***************************************************************************)
(* Bytes as hexadecimal text: include/hexdump.h, lib/hexdump.c (built when *)
(* CONFIG_HEXDUMP is set) and print_buffer() of lib/display_options.c.     *)
(* A printable byte appears as itself, named by its code.                  *)
(***************************************************************************)
EXTENDS Printf

isprint(b) == b \in 32 .. 126
Glyph(b) == IF isprint(b) THEN ToString(b) ELSE "."

hex_to_bin(c) == IF isxdigit(c) THEN DigitValue[c] ELSE -1
RECURSIVE hex2bin(_, _, _)
hex2bin(dst, src, count) ==
  LET hi == hex_to_bin(Nth(src, 1))
      lo == hex_to_bin(Nth(src, 2))
  IN IF count = 0 THEN [err |-> 0, dst |-> dst]
     ELSE IF hi < 0 \/ lo < 0 THEN [err |-> -1, dst |-> dst]
     ELSE hex2bin(Append(dst, hi * 16 + lo), Drop(src, 2), count - 1)
bin2hex(bytes) == FlattenSeq([i \in DOMAIN bytes |-> hex_byte_pack(bytes[i])])

(* A line buffer keeps one byte for the null; over is set once something   *)
(* does not fit.                                                           *)
Puts(b, s) ==
  LET n == Min({Len(s), b.size - 1 - b.pos})
  IN [b EXCEPT !.mem = [i \in DOMAIN @ |-> IF i \in b.pos .. b.pos + n - 1 THEN s[i - b.pos + 1] ELSE @[i]],
               !.pos = @ + n, !.over = n < Len(s)]
Nul(b) == [b.mem EXCEPT ![b.pos] = NUL]

(* A group is one little-endian number with all its digits. *)
GroupText(bytes, j, g) == FlattenSeq([i \in 1 .. g |-> hex_byte_pack(bytes[j * g + g + 1 - i])])
Hex(bytes, g) ==
  FlattenSeq([j \in 1 .. Len(bytes) \div g |->
    IF g = 1 THEN Append(GroupText(bytes, j - 1, g), " ")
    ELSE (IF j = 1 THEN <<>> ELSE <<" ">>) \o GroupText(bytes, j - 1, g)])
AfterHex(b, g) == IF b.over \/ g # 1 THEN b ELSE [b EXCEPT !.pos = @ - 1]
AfterAscii(b, bytes, column, ascii) ==
  IF b.over \/ ~ascii THEN b ELSE Puts(b, Rep(" ", column - b.pos) \o [i \in DOMAIN bytes |-> Glyph(bytes[i])])
Line(b, total) == [ret |-> IF b.over THEN total ELSE b.pos, mem |-> Nul(b)]

RowSize(rowsize) == IF rowsize \in {16, 32} THEN rowsize ELSE 16
GroupSize(groupsize, len) == IF groupsize \in {1, 2, 4, 8} /\ len % groupsize = 0 THEN groupsize ELSE 1
Column(row, g) == row * 2 + (row \div g) + 1
Converted(bytes, row, g, mem, size, ascii) ==
  LET column == Column(row, g)
      total == IF ascii THEN column + Len(bytes) ELSE (g * 2 + 1) * (Len(bytes) \div g) - 1
      b == [mem |-> mem, pos |-> 0, size |-> size, over |-> FALSE]
  IN IF size = 0 THEN [ret |-> total, mem |-> mem]
     ELSE IF bytes = <<>> THEN [ret |-> 0, mem |-> Nul(b)]
     ELSE Line(AfterAscii(AfterHex(Puts(b, Hex(bytes, g)), g), bytes, column, ascii), total)
hex_dump_to_buffer(buf, rowsize, groupsize, mem, size, ascii) ==
  LET row == RowSize(rowsize)
      bytes == SubSeq(buf, 1, Min({Len(buf), row}))
  IN Converted(bytes, row, GroupSize(groupsize, Len(bytes)), mem, size, ascii)

(* print_hex_dump(): the lines, each with its offset and its bytes; and    *)
(* the buffer it has for one.                                              *)
LineBuf == 32 * 3 + 2 + 32 + 1
print_hex_dump(buf, rowsize) ==
  LET row == RowSize(rowsize)
  IN [k \in 1 .. (Len(buf) + row - 1) \div row |->
        [at |-> (k - 1) * row, bytes |-> SubSeq(buf, (k - 1) * row + 1, Min({k * row, Len(buf)}))]]

(* print_buffer(): the lines, with the number of values on each, and of    *)
(* the empty places behind them, for count values of width bytes.          *)
MAX_LINE_LENGTH_BYTES == 64
DEFAULT_LINE_LENGTH_BYTES == 16
LineLen(width, linelen) ==
  LET most == IF linelen * width > MAX_LINE_LENGTH_BYTES THEN MAX_LINE_LENGTH_BYTES \div width ELSE linelen
  IN IF most < 1 THEN DEFAULT_LINE_LENGTH_BYTES \div width ELSE most
RECURSIVE BufferLines(_, _, _, _)
BufferLines(addr, width, count, linelen) ==
  LET n == Min({count, linelen})
  IN IF count = 0 THEN <<>>
     ELSE <<[addr |-> addr, n |-> n, pad |-> linelen - n]>> \o BufferLines(addr + n * width, width, count - n, n)
print_buffer(addr, width, count, linelen) == BufferLines(addr, width, count, LineLen(width, linelen))

-----------------------------------------------------------------------------
(* bin2hex() and hex2bin() are inverse, and hex2bin() refuses exactly the  *)
(* strings with another character among those it needs (hexdump.h).        *)
HexRight(s) ==
  LET n == Len(s) \div 2
      r == hex2bin(<<>>, s, n)
  IN /\ r.err = 0 <=> \A i \in 1 .. 2 * n : isxdigit(s[i])
     /\ r.err = 0 => Len(r.dst) = n /\ hex2bin(<<>>, bin2hex(r.dst), n) = r
     /\ \A i \in DOMAIN r.dst : <<hex_to_bin(s[2 * i - 1]), hex_to_bin(s[2 * i])>> = <<r.dst[i] \div 16, r.dst[i] % 16>>

(* The whole line, column by column: byte k of a group of g has its digits *)
(* in the place its weight gives it, and its glyph behind the column.      *)
Digits16(bytes, g, c) ==
  LET j == c \div (2 * g + 1)
      p == c % (2 * g + 1)
      byte == bytes[j * g + g - (p \div 2)]
  IN IF p = 2 * g THEN " " ELSE LowerCase[(IF p % 2 = 0 THEN byte \div 16 ELSE byte % 16) + 1]
WholeLine(bytes, row, g, ascii) ==
  LET hex == (2 * g + 1) * (Len(bytes) \div g) - 1
      len == IF bytes = <<>> THEN 0 ELSE IF ascii THEN Column(row, g) + Len(bytes) ELSE hex
  IN [c \in 1 .. len |-> IF c <= hex THEN Digits16(bytes, g, c - 1)
                         ELSE IF c <= Column(row, g) THEN " " ELSE Glyph(bytes[c - Column(row, g)])]

(* hex_dump_to_buffer() writes the start of the line that fits, ends it    *)
(* with a null inside the buffer, and returns the length of the whole line *)
(* unless both the buffer and the data are empty (lib/hexdump.c).          *)
LineRight(r, line, size, clean) ==
  LET n == Min({Len(line), size - 1})
  IN /\ r.ret = Len(line)
     /\ \A i \in DOMAIN clean : CASE i < n -> r.mem[i] = line[i + 1] [] i = n -> r.mem[i] = NUL [] OTHER -> i >= size => r.mem[i] = "?"
DumpRight(buf, row, groupsize, ascii, size) ==
  LET clean == [i \in 0 .. LineBuf |-> "?"]
      bytes == SubSeq(buf, 1, Min({Len(buf), row}))
      g == IF Len(bytes) % groupsize = 0 THEN groupsize ELSE 1
  IN size > 0 \/ bytes # <<>> =>
       LineRight(hex_dump_to_buffer(buf, row, groupsize, clean, size, ascii), WholeLine(bytes, row, g, ascii), size, clean)

(* A dump shows every byte once and in order, no line of it is cut, and    *)
(* the texts behind the values of print_buffer() stand below each other.   *)
LinesRight(buf, row, groupsize, width, linelen) ==
  LET lines == print_hex_dump(buf, row)
      shown == print_buffer(0, width, Len(buf), linelen)
      place(l) == l.n + l.pad
  IN /\ FlattenSeq([k \in DOMAIN lines |-> lines[k].bytes]) = buf
     /\ \A k \in DOMAIN lines :
          /\ lines[k].at = Len(FlattenSeq([j \in 1 .. k - 1 |-> lines[j].bytes]))
          /\ Len(WholeLine(lines[k].bytes, row, GroupSize(groupsize, Len(lines[k].bytes)), TRUE)) < LineBuf
     /\ FoldLeft(LAMBDA n, l : n + l.n, 0, shown) = Len(buf)
     /\ \A k \in DOMAIN shown :
          /\ shown[k].n > 0 /\ shown[k].n * width <= MAX_LINE_LENGTH_BYTES /\ place(shown[k]) = place(shown[1])
          /\ k > 1 => shown[k].addr = shown[k - 1].addr + shown[k - 1].n * width
=============================================================================
