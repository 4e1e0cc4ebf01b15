-------------------------------- MODULE Boot --------------------------------
(***************************************************************************)
(* The way from reset to the main loop: the page tables are sized before   *)
(* relocation (reserve_mmu() calls get_page_table_size()), the image is    *)
(* moved below them, and board_init_r() builds the tables in the pool and  *)
(* turns the MMU on (initr_caches()).  Then the tables live on.            *)
(***************************************************************************)
EXTENDS BoardInit, PageTables

VARIABLE
  mem_map       \* the heap's pages: memory_init() of common/memory.c

vars == <<bootvars, ptvars, mem_map>>

(* A table is a page of the pool. *)
Init ==
  /\ InitTables
  /\ InitBoard
  /\ pgTableSize = get_page_table_size(memMap) * PageSz
  /\ mem_map = <<>>

(* board_init_f(): reserve_mmu() also hands the pool over to cache_v8.c. *)
BoardInitF ==
  /\ NextBoard
  /\ pt' = IF at = "reserve_mmu"
           THEN [pt EXCEPT !.tlb_addr = 1, !.tlb_size = pgTableSize \div PageSz]
           ELSE pt
  /\ UNCHANGED <<memMap, mmu, job, calls, want, splits, blind, mem_map>>

(* initr_caches(): dcache_enable(), then icache_enable(). *)
initr_caches ==
  \/ /\ at = "board_init_r" /\ at' = "icache"
     /\ dcache_enable
     /\ UNCHANGED <<pgTableSize, gdvars, moved, mem, mem_map>>
  \/ /\ at = "icache" /\ at' = "memory_init"
     /\ icache_enable
     /\ UNCHANGED <<pgTableSize, gdvars, moved, mem, mem_map>>

memory_init ==
  /\ at = "memory_init" /\ at' = "main_loop"
  /\ mem_map' = [i \in 1 .. malloc_limit \div PageSz |-> malloc_base + (i - 1) * PageSz]
  /\ UNCHANGED <<ptvars, pgTableSize, gdvars, moved, mem>>

MainLoop ==
  /\ at = "main_loop"
  /\ NextTables
  /\ UNCHANGED <<bootvars, mem_map>>

(* panic() ends in hang(). *)
hang == Stopped(pt) /\ UNCHANGED vars

Next == BoardInitF \/ initr_caches \/ memory_init \/ MainLoop \/ hang

Spec == Init /\ [][Next]_vars

-----------------------------------------------------------------------------
(* Every page that is handed out later comes from its own reservation: no  *)
(* table, of either set or from a later split, lies outside the pool of    *)
(* reserve_mmu(), and no page memory_init() enters in mem_map outside the  *)
(* heap of reserve_malloc() or beyond the PAGING_PAGES entries of mem_map. *)
PagesInPlace ==
  /\ \A t \in DOMAIN pt.tables :
       LET a == tlb_addr + (t - 1) * PageSz
       IN a >= relocaddr + mon_len /\ a + PageSz <= tlb_addr + tlb_size
  /\ Len(mem_map) <= MallocLen \div PageSz
  /\ \A i \in DOMAIN mem_map :
       mem_map[i] % PageSz = 0 /\ mem_map[i] >= malloc_base /\ mem_map[i] + PageSz <= new_gd

(* A call that changes attributes ends: each set_one_region() finishes a   *)
(* piece of the region, never reaching beyond its end, or goes one level   *)
(* down, at most to level 3.                                               *)
CallProgress ==
  [][job # Idle /\ job'.op = job.op =>
       \/ /\ job'.size < job.size /\ job'.level = 1
          /\ job'.start + job'.size = job.start + job.size
          /\ job'.size >= 0
       \/ job'.size = job.size /\ job'.level = job.level + 1 /\ job'.level <= 3
       \/ Stopped(pt)'
       \/ UNCHANGED job]_vars
=============================================================================
