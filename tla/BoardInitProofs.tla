--------------------------- MODULE BoardInitProofs ---------------------------
(***************************************************************************)
(* The layout that init_sequence_f makes is right for every board: any     *)
(* sizes, any load address, any page-table size up to PgMax, as long as    *)
(* RAM holds everything but the heap.                                      *)
(***************************************************************************)
EXTENDS BoardInit, TLAPS

(* What is known before each init call; each adds to the one before.       *)
Ram ==
  /\ mon_len = MonLen
  /\ ram_base = TextBase
  /\ ram_top = TextBase + RamSize

Pool ==
  /\ Ram
  /\ tlb_size = pgTableSize
  /\ tlb_addr \in Nat
  /\ tlb_addr + tlb_size <= ram_top
  /\ ram_top < tlb_addr + pgTableSize + BigSz

Placed ==
  /\ Pool
  /\ relocaddr \in Nat
  /\ relocaddr + MonLen <= tlb_addr
  /\ tlb_addr < relocaddr + MonLen + PageSz

Data ==
  /\ Placed
  /\ new_gd \in Nat
  /\ new_gd + GdSize = relocaddr

Heap ==
  /\ Data
  /\ malloc_base \in Nat
  /\ malloc_limit \in Nat
  /\ malloc_base + malloc_limit <= new_gd
  /\ ram_base + SpSize <= malloc_base
  /\ malloc_limit <= MallocLen
  /\ malloc_limit % PageSz = 0
  /\ malloc_limit + PageSz > MallocLen \/ malloc_base < ram_base + SpSize + PageSz

Moving == {"setup_reloc", "relocate_code", "copy_loop", "fixloop", "clear_loop", "board_init_r"}

BoardInv ==
  /\ pgTableSize \in 0 .. PgMax
  /\ \/ at = "setup_mon_len"
     \/ at = "dram_init" /\ mon_len = MonLen
     \/ at = "setup_dest_addr" /\ mon_len = MonLen /\ ram_size = RamSize
     \/ at = "reserve_mmu" /\ Ram /\ relocaddr = ram_top
     \/ at = "reserve_vmimage" /\ Pool /\ relocaddr = tlb_addr
     \/ at = "reserve_global_data" /\ Placed /\ start_addr_sp = relocaddr
     \/ at = "reserve_malloc" /\ Data /\ start_addr_sp = new_gd
     \/ at = "reserve_stacks" /\ Heap /\ start_addr_sp = malloc_base
     \/ at \in Moving /\ Heap /\ start_addr_sp \in Nat /\ start_addr_sp + StackSz <= malloc_base

-----------------------------------------------------------------------------
(* The sizes are numbers; what an image takes is one too. *)
LEMMA Sizes ==
  /\ TextBase \in Nat /\ RunBase \in Nat /\ RamSize \in Nat /\ GdSize \in Nat /\ MallocLen \in Nat
  /\ SpSize \in Nat /\ PgMax \in Nat /\ MonLen \in Nat
  /\ PageSz \in Nat \ {0} /\ BigSz \in Nat \ {0} /\ StackSz \in Nat \ {0} /\ Wrap \in Nat \ {0}
<1>1. Len(Relocs) \in Nat
  BY SizeAssumption
<1>2. CopyLen \in Nat /\ BssLen \in Nat
  BY SizeAssumption
<1>3. MonLen \in Nat
  BY <1>1, <1>2 DEF MonLen, BssStart, RelStart
<1>. QED  BY <1>3, SizeAssumption

(* Rounding down stays within one unit of its argument ... *)
LEMMA RoundDownBounds ==
  ASSUME NEW a \in Nat, NEW n \in Nat \ {0}
  PROVE  /\ rounddown(a, n) \in Nat
         /\ rounddown(a, n) <= a
         /\ a < rounddown(a, n) + n
BY DEF rounddown

(* ... and gives a multiple of the unit. *)
LEMMA Multiple ==
  ASSUME NEW q \in Nat, NEW n \in Nat \ {0}
  PROVE  (n * q) % n = 0
OBVIOUS

LEMMA RoundDownMultiple ==
  ASSUME NEW a \in Nat, NEW n \in Nat \ {0}
  PROVE  rounddown(a, n) % n = 0
<1>1. a \div n \in Nat /\ a % n \in Nat
  OBVIOUS
<1>2. a = n * (a \div n) + (a % n)
  OBVIOUS
<1>. QED  BY <1>1, <1>2, Multiple DEF rounddown

(* A subtraction that does not wrap is the one of the naturals. *)
LEMMA SubExact ==
  ASSUME NEW a \in Nat, NEW b \in Nat, b <= a
  PROVE  Sub(a, b) = a - b /\ Sub(a, b) \in Nat
BY DEF Sub

LEMMA MmuStep == BoardInv /\ reserve_mmu => BoardInv'
<1>. SUFFICES ASSUME BoardInv, reserve_mmu PROVE BoardInv'
  OBVIOUS
<1>. USE Sizes
<1>1. at = "reserve_mmu" /\ Ram /\ relocaddr = ram_top /\ pgTableSize \in 0 .. PgMax
  BY DEF BoardInv, reserve_mmu, Call, Moving
<1>2. pgTableSize <= relocaddr /\ relocaddr \in Nat /\ pgTableSize \in Nat
  BY <1>1, RoomAssumption DEF Ram
<1>3. Sub(relocaddr, pgTableSize) = relocaddr - pgTableSize /\ Sub(relocaddr, pgTableSize) \in Nat
  BY <1>2, SubExact
<1>4. /\ tlb_addr' \in Nat
      /\ tlb_addr' <= relocaddr - pgTableSize
      /\ relocaddr - pgTableSize < tlb_addr' + BigSz
  BY <1>3, RoundDownBounds DEF reserve_mmu
<1>5. Pool'
  BY <1>1, <1>2, <1>4 DEF Pool, Ram, reserve_mmu, Call
<1>6. at' = "reserve_vmimage" /\ relocaddr' = tlb_addr' /\ pgTableSize' = pgTableSize
  BY DEF reserve_mmu, Call
<1>. QED  BY <1>1, <1>5, <1>6 DEF BoardInv

LEMMA VmimageStep == BoardInv /\ reserve_vmimage => BoardInv'
<1>. SUFFICES ASSUME BoardInv, reserve_vmimage PROVE BoardInv'
  OBVIOUS
<1>. USE Sizes
<1>1. at = "reserve_vmimage" /\ Pool /\ relocaddr = tlb_addr /\ pgTableSize \in 0 .. PgMax
  BY DEF BoardInv, reserve_vmimage, Call, Moving
<1>2. mon_len = MonLen /\ MonLen <= relocaddr /\ relocaddr \in Nat
  BY <1>1, RoomAssumption DEF Pool, Ram
<1>3. Sub(relocaddr, MonLen) = relocaddr - MonLen /\ Sub(relocaddr, MonLen) \in Nat
  BY <1>2, SubExact
<1>4. /\ relocaddr' \in Nat
      /\ relocaddr' <= relocaddr - MonLen
      /\ relocaddr - MonLen < relocaddr' + PageSz
  BY <1>2, <1>3, RoundDownBounds DEF reserve_vmimage, ImagePlace
<1>5. Placed'
  BY <1>1, <1>2, <1>4 DEF Placed, Pool, Ram, reserve_vmimage, Call
<1>6. /\ at' = "reserve_global_data" /\ start_addr_sp' = relocaddr'
      /\ pgTableSize' = pgTableSize
  BY DEF reserve_vmimage, Call
<1>. QED  BY <1>1, <1>5, <1>6 DEF BoardInv

LEMMA GlobalDataStep == BoardInv /\ reserve_global_data => BoardInv'
<1>. SUFFICES ASSUME BoardInv, reserve_global_data PROVE BoardInv'
  OBVIOUS
<1>. USE Sizes
<1>1. /\ at = "reserve_global_data" /\ Placed /\ start_addr_sp = relocaddr
      /\ pgTableSize \in 0 .. PgMax
  BY DEF BoardInv, reserve_global_data, Call, Moving
<1>2. GdSize <= relocaddr /\ relocaddr \in Nat
  BY <1>1, RoomAssumption DEF Placed, Pool, Ram
<1>3. new_gd' = relocaddr - GdSize /\ start_addr_sp' = new_gd' /\ new_gd' \in Nat
  BY <1>1, <1>2, SubExact DEF reserve_global_data
<1>4. Data'
  BY <1>1, <1>2, <1>3 DEF Data, Placed, Pool, Ram, reserve_global_data, Call
<1>5. at' = "reserve_malloc" /\ pgTableSize' = pgTableSize
  BY DEF reserve_global_data, Call
<1>. QED  BY <1>1, <1>3, <1>4, <1>5 DEF BoardInv

(* The heart of it: whichever branch reserve_malloc() takes, no difference *)
(* wraps and SpSize words are left below the heap.                         *)
LEMMA MallocStep == BoardInv /\ reserve_malloc => BoardInv'
<1>. SUFFICES ASSUME BoardInv, reserve_malloc PROVE BoardInv'
  OBVIOUS
<1>. USE Sizes
<1>. DEFINE sp == rounddown(start_addr_sp, PageSz)
<1>1. at = "reserve_malloc" /\ Data /\ start_addr_sp = new_gd /\ pgTableSize \in 0 .. PgMax
  BY DEF BoardInv, reserve_malloc, Call, Moving
<1>2. ram_base = TextBase /\ new_gd \in Nat
  BY <1>1 DEF Data, Placed, Pool, Ram
<1>3. sp \in Nat /\ sp <= new_gd /\ new_gd < sp + PageSz
  BY <1>1, <1>2, RoundDownBounds
<1>. HIDE DEF sp
<1>4. TextBase + SpSize <= sp
  BY <1>1, <1>3, RoomAssumption DEF Data, Placed, Pool, Ram
<1>5. MallocLen <= sp /\ SpSize <= sp - MallocLen /\ sp - MallocLen \in Nat
  BY <1>3, <1>4, RoomAssumption
<1>6. TextBase <= sp /\ SpSize <= sp - TextBase /\ sp - TextBase \in Nat
  BY <1>3, <1>4
<1>7. Sub(sp, MallocLen) = sp - MallocLen
  BY <1>3, <1>5, SubExact
<1>8. Sub(Sub(sp, MallocLen), SpSize) = sp - MallocLen - SpSize
  BY <1>7, <1>5, SubExact
<1>9. Sub(Sub(sp, ram_base), SpSize) = sp - TextBase - SpSize
  <2>1. Sub(sp, ram_base) = sp - TextBase
    BY <1>2, <1>3, <1>6, SubExact
  <2>. QED  BY <2>1, <1>6, SubExact
<1>. DEFINE rest == sp - TextBase - SpSize
            size == HeapSize(sp)
<1>10. rest \in Nat
  BY <1>3, <1>4
<1>. HIDE DEF rest
<1>11. size = IF sp - MallocLen - SpSize < TextBase THEN rounddown(rest, PageSz)
                                                   ELSE rounddown(MallocLen, PageSz)
  BY <1>2, <1>8, <1>9 DEF HeapSize, rest
<1>12. /\ rounddown(rest, PageSz) \in Nat /\ rounddown(rest, PageSz) <= rest
       /\ rest < rounddown(rest, PageSz) + PageSz
       /\ rounddown(rest, PageSz) % PageSz = 0
  BY <1>10, RoundDownBounds, RoundDownMultiple
<1>13. /\ rounddown(MallocLen, PageSz) \in Nat /\ rounddown(MallocLen, PageSz) <= MallocLen
       /\ MallocLen < rounddown(MallocLen, PageSz) + PageSz
       /\ rounddown(MallocLen, PageSz) % PageSz = 0
  BY RoundDownBounds, RoundDownMultiple
<1>. HIDE DEF size
<1>14. size \in Nat /\ size % PageSz = 0
  BY <1>11, <1>12, <1>13
<1>15. size <= MallocLen /\ size <= rest
  <2>1. CASE sp - MallocLen - SpSize < TextBase
    BY <2>1, <1>3, <1>11, <1>12 DEF rest
  <2>2. CASE ~(sp - MallocLen - SpSize < TextBase)
    BY <2>2, <1>3, <1>11, <1>13 DEF rest
  <2>. QED  BY <2>1, <2>2
<1>16. size + PageSz > MallocLen \/ rest < size + PageSz
  BY <1>11, <1>12, <1>13
<1>17. size <= sp
  BY <1>3, <1>4, <1>14, <1>15 DEF rest
<1>18. Sub(sp, size) = sp - size /\ Sub(sp, size) \in Nat
  BY <1>3, <1>14, <1>17, SubExact
<1>19. malloc_limit' = size /\ malloc_base' = sp - size /\ start_addr_sp' = malloc_base'
  BY <1>18 DEF reserve_malloc, size, sp
<1>20. Data'
  BY <1>1 DEF Data, Placed, Pool, Ram, reserve_malloc, Call
<1>21. ram_base' = TextBase /\ new_gd' = new_gd
  BY <1>2 DEF reserve_malloc
<1>22. /\ malloc_base' + malloc_limit' <= new_gd' /\ ram_base' + SpSize <= malloc_base'
       /\ malloc_base' \in Nat /\ malloc_limit' \in Nat
  BY <1>2, <1>3, <1>14, <1>15, <1>18, <1>19, <1>21 DEF rest
<1>23. \/ malloc_limit' + PageSz > MallocLen
       \/ malloc_base' < ram_base' + SpSize + PageSz
  BY <1>3, <1>14, <1>16, <1>19, <1>21 DEF rest
<1>24. Heap'
  BY <1>14, <1>15, <1>19, <1>20, <1>22, <1>23 DEF Heap
<1>25. at' = "reserve_stacks" /\ pgTableSize' = pgTableSize
  BY DEF reserve_malloc, Call
<1>. QED  BY <1>1, <1>19, <1>24, <1>25 DEF BoardInv

LEMMA StacksStep == BoardInv /\ reserve_stacks => BoardInv'
<1>. SUFFICES ASSUME BoardInv, reserve_stacks PROVE BoardInv'
  OBVIOUS
<1>. USE Sizes
<1>1. at = "reserve_stacks" /\ Heap /\ start_addr_sp = malloc_base /\ pgTableSize \in 0 .. PgMax
  BY DEF BoardInv, reserve_stacks, Call, Moving
<1>2. malloc_base \in Nat /\ StackSz <= malloc_base
  BY <1>1, RoomAssumption DEF Heap, Data, Placed, Pool, Ram
<1>3. Sub(malloc_base, StackSz) = malloc_base - StackSz /\ Sub(malloc_base, StackSz) \in Nat
  BY <1>2, SubExact
<1>4. start_addr_sp' \in Nat /\ start_addr_sp' <= malloc_base - StackSz
  BY <1>1, <1>3, RoundDownBounds DEF reserve_stacks
<1>5. Heap' /\ malloc_base' = malloc_base
  BY <1>1 DEF Heap, Data, Placed, Pool, Ram, reserve_stacks, Call
<1>6. start_addr_sp' + StackSz <= malloc_base'
  <2>. DEFINE new == start_addr_sp'
  <2>. HIDE DEF new
  <2>1. new \in Nat /\ new <= malloc_base - StackSz
    BY <1>4 DEF new
  <2>2. new + StackSz <= malloc_base
    BY <2>1, <1>2
  <2>. QED  BY <2>2, <1>5 DEF new
<1>7. at' \in Moving /\ pgTableSize' = pgTableSize
  BY DEF reserve_stacks, Call, Moving
<1>. QED  BY <1>1, <1>4, <1>5, <1>6, <1>7 DEF BoardInv

(* Relocation moves the image and leaves the reservations alone. *)
LEMMA MovingStep ==
  ASSUME BoardInv, at \in Moving, at' \in Moving,
         UNCHANGED <<pgTableSize, ram_base, ram_top, mon_len, relocaddr, tlb_addr, tlb_size,
                     start_addr_sp, new_gd, malloc_base, malloc_limit>>
  PROVE  BoardInv'
<1>1. /\ Heap /\ start_addr_sp \in Nat /\ start_addr_sp + StackSz <= malloc_base
      /\ pgTableSize \in 0 .. PgMax
  BY DEF BoardInv, Moving
<1>2. Heap'
  BY <1>1 DEF Heap, Data, Placed, Pool, Ram
<1>. QED  BY <1>1, <1>2 DEF BoardInv

THEOREM BoardInvInductive == SpecBoard => []BoardInv
<1>1. InitBoard => BoardInv
  BY DEF InitBoard, BoardInv
<1>2. BoardInv /\ [NextBoard]_bootvars => BoardInv'
  <2>. SUFFICES ASSUME BoardInv, [NextBoard]_bootvars PROVE BoardInv'
    OBVIOUS
  <2>1. CASE setup_mon_len
    BY <2>1 DEF setup_mon_len, Call, BoardInv, Moving
  <2>2. CASE dram_init
    BY <2>2 DEF dram_init, Call, BoardInv, Moving
  <2>3. CASE setup_dest_addr
    <3>1. /\ at = "setup_dest_addr" /\ mon_len = MonLen /\ ram_size = RamSize
          /\ pgTableSize \in 0 .. PgMax
      BY <2>3 DEF BoardInv, setup_dest_addr, Call, Moving
    <3>2. (TextBase + RamSize) % Wrap = TextBase + RamSize
      BY Sizes, RoomAssumption
    <3>3. UsableTop(TextBase + RamSize) = TextBase + RamSize
      BY Sizes DEF UsableTop
    <3>4. Ram' /\ relocaddr' = ram_top'
      BY <2>3, <3>1, <3>2, <3>3 DEF setup_dest_addr, Call, Ram
    <3>5. at' = "reserve_mmu" /\ pgTableSize' = pgTableSize
      BY <2>3 DEF setup_dest_addr, Call
    <3>. QED  BY <3>1, <3>4, <3>5 DEF BoardInv
  <2>4. CASE reserve_mmu
    BY <2>4, MmuStep
  <2>5. CASE reserve_vmimage
    BY <2>5, VmimageStep
  <2>6. CASE reserve_global_data
    BY <2>6, GlobalDataStep
  <2>7. CASE reserve_malloc
    BY <2>7, MallocStep
  <2>8. CASE reserve_stacks
    BY <2>8, StacksStep
  <2>9. CASE setup_reloc
    BY <2>9, MovingStep DEF setup_reloc, Moving
  <2>10. CASE relocate_code
    BY <2>10, MovingStep DEF relocate_code, Loop, gdvars, Moving
  <2>11. CASE copy_loop
    BY <2>11, MovingStep DEF copy_loop, Loop, gdvars, Moving
  <2>12. CASE fixloop
    BY <2>12, MovingStep DEF fixloop, Loop, gdvars, Moving
  <2>13. CASE clear_loop
    BY <2>13, MovingStep DEF clear_loop, Loop, gdvars, Moving
  <2>14. CASE UNCHANGED bootvars
    BY <2>14 DEF bootvars, gdvars, BoardInv, Heap, Data, Placed, Pool, Ram
  <2>. QED  BY <2>1, <2>2, <2>3, <2>4, <2>5, <2>6, <2>7, <2>8, <2>9, <2>10, <2>11, <2>12,
               <2>13, <2>14 DEF NextBoard
<1>. QED  BY <1>1, <1>2, PTL DEF SpecBoard

(* Once init_sequence_f has made its reservations they lie one below the   *)
(* other inside RAM, the stack with its SpSize words included, whatever    *)
(* the sizes: reserve_malloc()'s test on the heap is the right one.        *)
THEOREM LayoutAlwaysCorrect == SpecBoard => []LayoutCorrect
<1>1. BoardInv => LayoutCorrect
  BY DEF BoardInv, LayoutCorrect, LaidOut, Heap, Data, Placed, Pool, Ram
<1>. QED  BY <1>1, BoardInvInductive, PTL

(* The heap that memory_init() divides into pages is a whole number of     *)
(* them and never larger than the array of MallocLen / PageSz entries; it  *)
(* gives up memory only for the stack.                                     *)
THEOREM HeapAlwaysFits == SpecBoard => []HeapFits
<1>1. BoardInv => HeapFits
  BY DEF BoardInv, HeapFits, LaidOut, Heap
<1>. QED  BY <1>1, BoardInvInductive, PTL
=============================================================================
