------------------------------ MODULE BoardInit ------------------------------
(***************************************************************************)
(* From _main to board_init_r(): board_init_f() carves the page tables,    *)
(* the image, the global data, the heap and the stack out of RAM from the  *)
(* top down (common/board_f.c), then the image is copied to its place and  *)
(* its pointers are fixed (crt0_64.S, relocate_64.S).                      *)
(*                                                                         *)
(* Addresses count words of 8 bytes.  The image is CopyLen words that are  *)
(* copied, the relocation table, and the bss.                              *)
(***************************************************************************)
EXTENDS Naturals, Sequences

CONSTANTS
  TextBase,     \* CONFIG_SYS_TEXT_BASE = CONFIG_RELOC_SYS_TEXT_BASE
  RunBase,      \* where the image has been loaded
  RamSize,      \* CONFIG_RELOC_SYS_BLOCK_SIZE
  GdSize,       \* sizeof(gd_t)
  MallocLen,    \* CONFIG_MALLOC_F_LEN
  SpSize,       \* CONFIG_START_ADDR_SP_SIZE
  PageSz,       \* 4 KiB
  BigSz,        \* 64 KiB
  StackSz,      \* 16 bytes
  Wrap,         \* 2^64 bytes
  CopyLen,      \* __image_copy_end - __image_copy_start
  Relocs,       \* .rela.dyn: <<offset, is it R_AARCH64_RELATIVE?, target>>
  BssLen,       \* __bss_end - __bss_start
  BssLits,      \* where the literals __bss_start and __bss_end of _main are
  PgMax         \* bound on the size of the page tables

ASSUME SizeAssumption ==
  /\ {TextBase, RunBase, RamSize, GdSize, MallocLen, SpSize, CopyLen, BssLen, PgMax} \subseteq Nat
  /\ {PageSz, BigSz, StackSz, Wrap} \subseteq Nat \ {0}
  /\ Relocs \in Seq(Nat \X BOOLEAN \X Nat)
  /\ Relocs # <<>> /\ BssLen > 0       \* the loops test at their end

RelStart == CopyLen
BssStart == RelStart + 3 * Len(Relocs)
MonLen == BssStart + BssLen

(* RAM holds everything but the heap, and its addresses do not wrap. *)
ASSUME RoomAssumption ==
  /\ TextBase + RamSize < Wrap
  /\ PgMax + BigSz + MonLen + PageSz + GdSize + PageSz + SpSize <= RamSize
  /\ MallocLen + SpSize <= TextBase
  /\ StackSz <= SpSize

VARIABLES
  at,           \* the init call or the piece of assembly that runs next
  pgTableSize,  \* what PGTABLE_SIZE returns
  ram_base, ram_size, ram_top, mon_len, relocaddr, tlb_addr, tlb_size,
  start_addr_sp, new_gd, malloc_base, malloc_limit, reloc_off,  \* fields of gd
  moved,        \* reloc_off in the new gd, and how far relocate_code has come
  mem           \* the words written or loaded so far

gdvars == <<ram_base, ram_size, ram_top, mon_len, relocaddr, tlb_addr, tlb_size,
            start_addr_sp, new_gd, malloc_base, malloc_limit, reloc_off>>
bootvars == <<at, pgTableSize, gdvars, moved, mem>>

Sub(a, b) == IF a >= b THEN a - b ELSE (a + Wrap) - b
rounddown(a, n) == a - (a % n)

(* The image as it was linked: code, pointers that the relocation table    *)
(* lists, the table itself, and a bss nobody has cleared.                  *)
Pointers == {i \in DOMAIN Relocs : Relocs[i][2]}
PointerAt(w) == {i \in Pointers : Relocs[i][1] = w}
Target(w) == Relocs[CHOOSE i \in PointerAt(w) : TRUE][3]

Linked(w) ==
  IF PointerAt(w) # {} THEN <<"address", TextBase + Target(w)>> ELSE <<"word", w>>

RelWord(w) ==
  LET r == Relocs[(w - RelStart) \div 3 + 1]
  IN CASE (w - RelStart) % 3 = 0 -> <<"address", TextBase + r[1]>>
       [] (w - RelStart) % 3 = 1 -> <<"relative", IF r[2] THEN 1 ELSE 0>>
       [] OTHER -> <<"address", TextBase + r[3]>>

Image == [a \in RunBase .. RunBase + MonLen - 1 |->
            LET w == a - RunBase
            IN CASE w < CopyLen -> Linked(w)
                 [] w >= CopyLen /\ w < BssStart -> RelWord(w)
                 [] OTHER -> <<"garbage", 0>>]

InitBoard ==
  /\ at = "setup_mon_len"
  /\ pgTableSize \in 0 .. PgMax
  /\ ram_base = 0 /\ ram_size = 0 /\ ram_top = 0 /\ mon_len = 0 /\ relocaddr = 0
  /\ tlb_addr = 0 /\ tlb_size = 0 /\ start_addr_sp = 0 /\ new_gd = 0
  /\ malloc_base = 0 /\ malloc_limit = 0 /\ reloc_off = 0
  /\ moved = <<0, 0>>
  /\ mem = Image

-----------------------------------------------------------------------------
(* init_sequence_f, in order; the calls that only print are left out. *)

Call(f, g) == at = f /\ at' = g /\ UNCHANGED <<pgTableSize, moved>>

setup_mon_len ==
  /\ Call("setup_mon_len", "dram_init")
  /\ mon_len' = MonLen
  /\ UNCHANGED <<ram_base, ram_size, ram_top, relocaddr, tlb_addr, tlb_size,
                 start_addr_sp, new_gd, malloc_base, malloc_limit, reloc_off, mem>>

dram_init ==
  /\ Call("dram_init", "setup_dest_addr")
  /\ ram_size' = RamSize
  /\ UNCHANGED <<ram_base, ram_top, mon_len, relocaddr, tlb_addr, tlb_size,
                 start_addr_sp, new_gd, malloc_base, malloc_limit, reloc_off, mem>>

(* board_get_usable_ram_top() *)
UsableTop(top) == IF top < TextBase THEN 0 ELSE top

setup_dest_addr ==
  /\ Call("setup_dest_addr", "reserve_mmu")
  /\ ram_base' = TextBase
  /\ ram_top' = UsableTop((TextBase + ram_size) % Wrap)
  /\ relocaddr' = UsableTop((TextBase + ram_size) % Wrap)
  /\ UNCHANGED <<ram_size, mon_len, tlb_addr, tlb_size,
                 start_addr_sp, new_gd, malloc_base, malloc_limit, reloc_off, mem>>

reserve_mmu ==
  /\ Call("reserve_mmu", "reserve_vmimage")
  /\ tlb_size' = pgTableSize
  /\ relocaddr' = rounddown(Sub(relocaddr, pgTableSize), BigSz)
  /\ tlb_addr' = rounddown(Sub(relocaddr, pgTableSize), BigSz)
  /\ UNCHANGED <<ram_base, ram_size, ram_top, mon_len,
                 start_addr_sp, new_gd, malloc_base, malloc_limit, reloc_off, mem>>

ImagePlace(top, len) == rounddown(Sub(top, len), PageSz)

reserve_vmimage ==
  /\ Call("reserve_vmimage", "reserve_global_data")
  /\ relocaddr' = ImagePlace(relocaddr, mon_len)
  /\ start_addr_sp' = ImagePlace(relocaddr, mon_len)
  /\ UNCHANGED <<ram_base, ram_size, ram_top, mon_len, tlb_addr, tlb_size,
                 new_gd, malloc_base, malloc_limit, reloc_off, mem>>

reserve_global_data ==
  /\ Call("reserve_global_data", "reserve_malloc")
  /\ start_addr_sp' = Sub(start_addr_sp, GdSize)
  /\ new_gd' = Sub(start_addr_sp, GdSize)
  /\ UNCHANGED <<ram_base, ram_size, ram_top, mon_len, relocaddr, tlb_addr, tlb_size,
                 malloc_base, malloc_limit, reloc_off, mem>>

(* reserve_malloc(): the heap shrinks when RAM would not hold it and the   *)
(* stack below it.                                                         *)
HeapSize_noStack(sp) ==
  IF Sub(sp, MallocLen) < ram_base
  THEN rounddown(Sub(sp, ram_base), PageSz)
  ELSE rounddown(MallocLen, PageSz)
HeapSize_rest(sp) == rounddown(Sub(Sub(sp, ram_base), SpSize), PageSz)
HeapSize(sp) ==
  IF Sub(Sub(sp, MallocLen), SpSize) < ram_base
  THEN rounddown(Sub(Sub(sp, ram_base), SpSize), PageSz)
  ELSE rounddown(MallocLen, PageSz)

reserve_malloc ==
  /\ Call("reserve_malloc", "reserve_stacks")
  /\ malloc_limit' = HeapSize(rounddown(start_addr_sp, PageSz))
  /\ start_addr_sp' = Sub(rounddown(start_addr_sp, PageSz), malloc_limit')
  /\ malloc_base' = Sub(rounddown(start_addr_sp, PageSz), malloc_limit')
  /\ UNCHANGED <<ram_base, ram_size, ram_top, mon_len, relocaddr, tlb_addr, tlb_size,
                 new_gd, reloc_off, mem>>

reserve_stacks ==
  /\ Call("reserve_stacks", "setup_reloc")
  /\ start_addr_sp' = rounddown(Sub(start_addr_sp, StackSz), StackSz)
  /\ UNCHANGED <<ram_base, ram_size, ram_top, mon_len, relocaddr, tlb_addr, tlb_size,
                 new_gd, malloc_base, malloc_limit, reloc_off, mem>>

(* setup_reloc(): reloc_off is stored before gd is copied to its new place. *)
Filled(lo, n, v) == [a \in lo .. lo + n - 1 |-> v]
Written(f) == [a \in DOMAIN mem \cup DOMAIN f |-> IF a \in DOMAIN f THEN f[a] ELSE mem[a]]

setup_reloc ==
  /\ at = "setup_reloc" /\ at' = "relocate_code"
  /\ reloc_off' = Sub(relocaddr, RunBase)
  /\ moved' = <<reloc_off', 0>>
  /\ mem' = Written(Filled(new_gd, GdSize, <<"gd", 0>>))
  /\ UNCHANGED <<pgTableSize, ram_base, ram_size, ram_top, mon_len, relocaddr, tlb_addr,
                 tlb_size, start_addr_sp, new_gd, malloc_base, malloc_limit>>

-----------------------------------------------------------------------------
(* crt0_64.S and relocate_64.S.  `moved' is reloc_off as the new gd has it *)
(* and the index of the loop that runs.                                    *)

Loop(here, more, next, n) ==
  /\ at = here
  /\ at' = IF more THEN here ELSE next
  /\ moved' = <<moved[1], IF more THEN n ELSE 0>>
  /\ UNCHANGED <<pgTableSize, gdvars>>

(* relocate_code() pushes a frame of 32 bytes on the new stack; it copies  *)
(* nothing when the image is already in place.                             *)
relocate_code ==
  /\ Loop("relocate_code", FALSE,
          IF relocaddr = RunBase THEN "clear_loop" ELSE "copy_loop", 0)
  /\ mem' = Written(Filled(Sub(start_addr_sp, 4), 4, <<"stack", 0>>))

copy_loop ==
  LET k == moved[2]
  IN /\ Loop("copy_loop", k + 2 < CopyLen, "fixloop", k + 2)
     /\ mem' = Written([a \in {relocaddr + k, relocaddr + k + 1} |-> mem[RunBase + (a - relocaddr)]])

(* The offset is that from the linked address, which need not be the one   *)
(* the image runs at.                                                      *)
FixOffset_run == Sub(relocaddr, RunBase)
FixOffset == Sub(relocaddr, TextBase)

fixloop ==
  LET k == moved[2]
      rel(j) == mem[RunBase + RelStart + 3 * k + j][2]
  IN /\ Loop("fixloop", k + 1 < Len(Relocs), "clear_loop", k + 1)
     /\ mem' = IF rel(1) = 1
               THEN Written([a \in {(rel(0) + FixOffset) % Wrap} |->
                               <<"address", (rel(2) + FixOffset) % Wrap>>])
               ELSE mem

(* Execution goes on in the copy, at relocation_return plus reloc_off; the *)
(* bounds of the bss are literals of that copy.                            *)
RunsAt == (RunBase + moved[1]) % Wrap

clear_loop ==
  LET k == moved[2]
      lit(j) == mem[RunsAt + BssLits[j]][2]
  IN /\ Loop("clear_loop", lit(1) + k + 1 < lit(2), "board_init_r", k + 1)
     /\ mem' = Written([a \in {lit(1) + k} |-> <<"zero", 0>>])

NextBoard ==
  \/ setup_mon_len \/ dram_init \/ setup_dest_addr \/ reserve_mmu \/ reserve_vmimage
  \/ reserve_global_data \/ reserve_malloc \/ reserve_stacks \/ setup_reloc
  \/ relocate_code \/ copy_loop \/ fixloop \/ clear_loop

SpecBoard == InitBoard /\ [][NextBoard]_bootvars

-----------------------------------------------------------------------------
LaidOut == at \notin {"setup_mon_len", "dram_init", "setup_dest_addr", "reserve_mmu",
                      "reserve_vmimage", "reserve_global_data", "reserve_malloc",
                      "reserve_stacks"}

(* Once the reservations are made they lie one below the other in RAM:     *)
(* page tables, image with its bss, global data, heap, and the stack, for  *)
(* which SpSize words are kept above the base of RAM also when the heap    *)
(* has been shrunk.                                                        *)
LayoutCorrect ==
  LaidOut =>
    /\ tlb_addr + tlb_size <= ram_top
    /\ relocaddr + mon_len <= tlb_addr
    /\ new_gd + GdSize <= relocaddr
    /\ malloc_base + malloc_limit <= new_gd
    /\ start_addr_sp + StackSz <= malloc_base
    /\ ram_base + SpSize <= malloc_base

(* The heap is never larger than MallocLen, for which memory_init()'s      *)
(* static array mem_map has its entries, and it is as large as RAM allows. *)
HeapFits ==
  LaidOut =>
    /\ malloc_limit <= MallocLen
    /\ malloc_limit % PageSz = 0
    /\ malloc_limit + PageSz > MallocLen
       \/ malloc_base < ram_base + SpSize + PageSz

(* board_init_r() starts with the image at relocaddr: every word that the  *)
(* relocation table does not name as it was linked, every pointer moved    *)
(* with what it points to, the bss cleared; and it runs in that copy.      *)
ImageRelocated ==
  at = "board_init_r" =>
    /\ RunsAt = relocaddr
    /\ \A w \in 0 .. CopyLen - 1 :
         mem[relocaddr + w] = IF PointerAt(w) # {} THEN <<"address", relocaddr + Target(w)>>
                                                 ELSE <<"word", w>>
    /\ \A w \in BssStart .. MonLen - 1 : mem[relocaddr + w] = <<"zero", 0>>
=============================================================================
