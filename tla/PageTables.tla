----------------------------- MODULE PageTables -----------------------------
(***************************************************************************)
(* The translation tables of arch/arm64/kernel/cache_v8.c: they are built  *)
(* twice from mem_map, once to run on and once as the emergency copy, in a *)
(* pool whose size was estimated before; later calls change the attributes *)
(* of a region and split blocks on the way.  Another core may be walking   *)
(* the primary tables meanwhile.                                           *)
(*                                                                         *)
(* Addresses are page numbers, tables have E entries instead of 512, and a *)
(* table is named by its place in the pool.  mem_map is not defined in the *)
(* repository; regions are whole pages and, as the OR of address and       *)
(* attributes requires, a multiple of a level-1 block away from their      *)
(* physical address.                                                       *)
(***************************************************************************)
EXTENDS Naturals, Sequences, FiniteSets, FiniteSetsExt

CONSTANTS
  E,           \* MAX_PTE_ENTRIES
  VaSizes,     \* the address-space sizes get_tcr() chooses from, in pages
  Maps,        \* the mem_maps considered: sequences of regions
  Targets,     \* <<start, size>> passed to the attribute calls
  Attrs,       \* <<AttrIndx, execute-never>> pairs of an entry
  Spare,       \* tables reserved for later splits
  MaxCalls     \* bound on the number of attribute calls

ASSUME PageTableAssumption ==
  /\ E \in Nat \ {0, 1}
  /\ VaSizes \subseteq Nat \ {0}
  /\ Spare \in Nat
  /\ MaxCalls \in Nat

VARIABLES
  memMap,      \* mem_map
  pt,          \* the tables, tlb_addr, tlb_size, tlb_emerg and the panic
               \* raised, if any
  sctlr,       \* the M, C and I bits of core 0
  ttbr,        \* what core 0 walks
  core0_ttbr,  \* g_core0_ttbr0_el3
  other,       \* what another core walks, 0 while its MMU is off
  job,         \* the attribute call in progress
  calls,       \* attribute calls so far
  want,        \* history: what each mapped page was last given
  splits,      \* history: blocks split by attribute calls
  blind        \* history: pages below a table entry taken for a block

mmu == <<sctlr, ttbr, core0_ttbr, other>>
ptvars == <<memMap, pt, mmu, job, calls, want, splits, blind>>

-----------------------------------------------------------------------------
(* Geometry.  The bits of PTE_TYPE_MASK as numbers; an entry of type 2 is  *)
(* a table or page whose valid bit has been cleared.                       *)

FAULT == 0
BLOCK == 1
TABLE == 3      \* also PTE_TYPE_PAGE

LevelSize(level) == E ^ (3 - level)
Idx(addr, level) == (addr \div LevelSize(level)) % E

RegionEnd(r) == r.virt + r.size

(* get_tcr(): the smallest supported size that holds the largest address. *)
VaSize(mm) ==
  LET max_addr == Max({0} \cup {RegionEnd(mm[i]) : i \in DOMAIN mm})
      fits == {v \in VaSizes : v >= max_addr}
  IN IF fits = {} THEN Max(VaSizes) ELSE Min(fits)

StartLevel(mm) == IF VaSize(mm) < E ^ 3 THEN 1 ELSE 0

Empty == [i \in 0 .. E - 1 |-> [type |-> FAULT, addr |-> 0, attr |-> <<0, 0>>]]

Entry(s, p) == s.tables[p[1]][p[2]]
Put(s, p, e) == [s EXCEPT !.tables[p[1]][p[2]] = e]
Stop(s, why) == [s EXCEPT !.panic = why]
Stopped(s) == s.panic # "none"

RECURSIVE Walk(_, _, _, _, _)
Walk(s, t, l, addr, level) ==
  LET p == <<t, Idx(addr, l)>>
  IN CASE l = level -> p
       [] l < level /\ Entry(s, p).type # TABLE -> <<>>
       [] OTHER -> Walk(s, Entry(s, p).addr, l + 1, addr, level)

(* find_pte(): the place of an entry, <<>> for a null pointer. *)
find_pte(s, addr, level) ==
  IF level < s.start THEN <<>> ELSE Walk(s, s.tlb_addr, s.start, addr, level)

(* create_table(): the fill pointer moves before it is checked. *)
PoolShort_late(n, size) == n > size + 1
PoolShort(n, size) == n > size

create_table(s) ==
  LET n == Len(s.tables) + 1
  IN IF PoolShort(n - (s.tlb_addr - 1), s.tlb_size)
     THEN Stop(s, "pool")
     ELSE [s EXCEPT !.tables = Append(@, Empty)]

set_pte_table(s, p) ==
  Put(s, p, [type |-> TABLE, addr |-> Len(s.tables), attr |-> <<0, 0>>])

AddTable(s, p) ==
  LET s1 == create_table(s) IN IF Stopped(s1) THEN s1 ELSE set_pte_table(s1, p)

SubAddr(e, i, level) == e.addr + i * LevelSize(level + 1)

(* split_block(): the new table maps what the block mapped. *)
split_block(s, p, level) ==
  LET old == Entry(s, p)
      s1 == create_table(s)
      sub == [i \in 0 .. E - 1 |->
                [type |-> IF level + 1 = 3 THEN TABLE ELSE old.type,
                 addr |-> SubAddr(old, i, level),
                 attr |-> old.attr]]
  IN CASE old.type # BLOCK -> Stop(s, "not a block")
       [] old.type = BLOCK /\ Stopped(s1) -> s1
       [] OTHER -> set_pte_table([s1 EXCEPT !.tables[Len(s1.tables)] = sub], p)

-----------------------------------------------------------------------------
(* add_map(): one region, in the largest pieces that alignment allows. *)

RECURSIVE add_map(_, _), AddFrom(_, _, _)
AddFrom(s, r, level) ==
  LET p == find_pte(s, r.virt, level)
      b == LevelSize(level)
      leaf == [type |-> IF level = 3 THEN TABLE ELSE BLOCK,
               addr |-> r.phys, attr |-> r.attr]
  IN CASE Stopped(s) -> s
       [] ~Stopped(s) /\ p = <<>> -> Stop(s, "pte not found")
       [] ~Stopped(s) /\ p # <<>> /\ r.size >= b /\ r.virt % b = 0 ->
            add_map(Put(s, p, leaf),
                    [r EXCEPT !.virt = @ + b, !.phys = @ + b, !.size = @ - b])
       [] OTHER ->
            AddFrom(CASE Entry(s, p).type = FAULT -> AddTable(s, p)
                      [] Entry(s, p).type = BLOCK -> split_block(s, p, level)
                      [] OTHER -> s,
                    r, level + 1)
add_map(s, r) ==
  LET p == find_pte(s, r.virt, 0)
  IN CASE Stopped(s) \/ r.size = 0 -> s
       [] ~Stopped(s) /\ r.size > 0 /\ p # <<>> /\ Entry(s, p).type = FAULT ->
            AddFrom(AddTable(s, p), r, 1)
       [] OTHER -> AddFrom(s, r, 1)

(* count_required_pts() *)
Touches(lo, hi) == lo <= hi

RECURSIVE count_required_pts(_, _, _, _)
count_required_pts(mm, addr, level, maxaddr) ==
  LET size == LevelSize(level)
      sub == LevelSize(level + 1)
      lo(i) == Max({addr, mm[i].virt})
      hi(i) == Min({addr + size, RegionEnd(mm[i])})
      needs(i) == /\ Touches(lo(i), hi(i))
                  /\ \/ lo(i) % size # 0
                     \/ hi(i) % size # 0
                     \/ level <= 0
      kids == {k \in 0 .. E - 1 : k = 0 \/ addr + k * sub < maxaddr}
  IN IF \E i \in DOMAIN mm : needs(i)
     THEN 1 + FoldSet(LAMBDA k, n : n + count_required_pts(mm, addr + k * sub, level + 1, maxaddr),
                      0, kids)
     ELSE 0

(* get_page_table_size(), in tables *)
get_page_table_size_once(mm) ==
  count_required_pts(mm, 0, StartLevel(mm) - 1, VaSize(mm)) + Spare
get_page_table_size(mm) ==
  count_required_pts(mm, 0, StartLevel(mm) - 1, VaSize(mm)) * 2 + Spare

RECURSIVE AddMaps(_, _, _)
AddMaps(s, mm, i) == IF i > Len(mm) THEN s ELSE AddMaps(add_map(s, mm[i]), mm, i + 1)

setup_pgtables(s, mm) == AddMaps(create_table(s), mm, 1)

(* setup_all_pgtables(): the primary tables, then the emergency ones in    *)
(* what is left of the pool.                                               *)
setup_all_pgtables(s, mm) ==
  LET s1 == setup_pgtables(s, mm)
      n == Len(s1.tables)
      s2 == setup_pgtables([s1 EXCEPT !.tlb_addr = n + 1, !.tlb_size = @ - n], mm)
  IN IF Stopped(s1) THEN s1
     ELSE [s2 EXCEPT !.tlb_addr = s.tlb_addr, !.tlb_size = s.tlb_size,
                     !.tlb_emerg = n + 1]


(* set_one_region(): the entry is changed when start and size are both     *)
(* aligned, else split, and the caller goes one level down.                *)
is_aligned_start(addr, size, align) == addr % align = 0
is_aligned(addr, size, align) == addr % align = 0 /\ size % align = 0

ValidBit(type, valid) == (type \div 2) * 2 + (IF valid THEN 1 ELSE 0)

Changed(e, a, flag, valid) ==
  IF flag THEN [e EXCEPT !.attr = a, !.type = ValidBit(@, valid)]
          ELSE [e EXCEPT !.attr[1] = a[1]]

set_one_region(s, start, size, a, flag, valid, level) ==
  LET p == find_pte(s, start, level)
      done == is_aligned(start, size, LevelSize(level))
      split == IF Entry(s, p).type = BLOCK THEN split_block(s, p, level) ELSE s
  IN CASE p = <<>> -> [s |-> Stop(s, "null pointer"), r |-> 0]
       [] p # <<>> /\ done ->
            [s |-> Put(s, p, Changed(Entry(s, p), a, flag, valid)),
             r |-> LevelSize(level)]
       [] OTHER ->
            [s |-> IF ~Stopped(split) /\ Entry(split, p).type # TABLE
                   THEN Stop(split, "should be a table") ELSE split,
             r |-> 0]

-----------------------------------------------------------------------------
(* What the hardware makes of the tables: the page a walk ends at. *)

RECURSIVE Lookup(_, _, _, _)
Lookup(s, t, l, addr) ==
  LET e == s.tables[t][Idx(addr, l)]
      off == addr % LevelSize(l)
  IN CASE e.type = TABLE /\ l < 3 -> Lookup(s, e.addr, l + 1, addr)
       [] (e.type = TABLE /\ l = 3) \/ (e.type = BLOCK /\ l \in {1, 2}) ->
            [valid |-> TRUE, phys |-> e.addr + off, attr |-> e.attr]
       [] OTHER -> [valid |-> FALSE, phys |-> 0, attr |-> <<0, 0>>]

Translation(root, addr) == Lookup(pt, root, pt.start, addr)

Pages(start, size) == start .. start + size - 1
Mapped(mm) == UNION {Pages(mm[i].virt, mm[i].size) : i \in DOMAIN mm}

(* The region that decides about a page: the last that covers it. *)
RegionOf(mm, p) ==
  mm[Max({i \in DOMAIN mm : p \in Pages(mm[i].virt, mm[i].size)})]

Idle == [op |-> "none", start |-> 0, size |-> 0, level |-> 1,
         target |-> <<0, 0>>, attr |-> <<0, 0>>, valid |-> TRUE]

InitTables ==
  /\ memMap \in Maps
  /\ pt = [tables |-> <<>>, tlb_addr |-> 0, tlb_size |-> 0, tlb_emerg |-> 0,
           start |-> StartLevel(memMap), panic |-> "none"]
  /\ sctlr = {} /\ ttbr = 0 /\ core0_ttbr = 0 /\ other = 0
  /\ job = Idle /\ calls = 0 /\ splits = 0 /\ blind = {}
  /\ want = [p \in Mapped(memMap) |->
               LET r == RegionOf(memMap, p)
               IN [valid |-> TRUE, phys |-> r.phys + (p - r.virt), attr |-> r.attr]]

-----------------------------------------------------------------------------
(* Actions.  A panic ends everything. *)

Running == ~Stopped(pt)
SetUp == Running /\ pt.tlb_emerg # 0

(* dcache_enable() with mmu_setup(): the tables are built only once. *)
dcache_enable ==
  /\ Running /\ job = Idle
  /\ "C" \notin sctlr
  /\ IF "M" \in sctlr
     THEN /\ sctlr' = sctlr \cup {"C"}
          /\ UNCHANGED <<pt, ttbr, core0_ttbr>>
     ELSE /\ pt' = IF pt.tlb_addr = 0 THEN Stop(pt, "not set up")
                   ELSE IF pt.tables # <<>> THEN pt
                   ELSE setup_all_pgtables(pt, memMap)
          /\ IF Stopped(pt')
             THEN UNCHANGED <<sctlr, ttbr, core0_ttbr>>
             ELSE /\ ttbr' = pt'.tlb_addr
                  /\ core0_ttbr' = pt'.tlb_addr
                  /\ sctlr' = sctlr \cup {"M", "C"}
  /\ UNCHANGED <<memMap, other, job, calls, want, splits, blind>>

dcache_disable ==
  /\ Running /\ job = Idle
  /\ "C" \in sctlr
  /\ sctlr' = sctlr \ {"C", "M"}
  /\ UNCHANGED <<memMap, pt, ttbr, core0_ttbr, other, job, calls, want, splits, blind>>

icache_enable ==
  /\ Running /\ job = Idle
  /\ sctlr' = sctlr \cup {"I"}
  /\ UNCHANGED <<memMap, pt, ttbr, core0_ttbr, other, job, calls, want, splits, blind>>

icache_disable ==
  /\ Running /\ job = Idle
  /\ sctlr' = sctlr \ {"I"}
  /\ UNCHANGED <<memMap, pt, ttbr, core0_ttbr, other, job, calls, want, splits, blind>>

(* enable_other_cores_cache(): a second core takes over the tables core 0  *)
(* has published, at any time.                                             *)
enable_other_cores_cache ==
  /\ Running
  /\ other' = core0_ttbr
  /\ UNCHANGED <<memMap, pt, sctlr, ttbr, core0_ttbr, job, calls, want, splits, blind>>

Start(op, t, a, v) ==
  /\ job = Idle
  /\ calls < MaxCalls
  /\ calls' = calls + 1
  /\ job' = [op |-> op, start |-> t[1], size |-> t[2], level |-> 1,
             target |-> t, attr |-> a, valid |-> v]
  /\ UNCHANGED <<memMap, sctlr, core0_ttbr, other, want, splits, blind>>

(* mmu_set_region_dcache_behaviour(): core 0 runs on the emergency tables  *)
(* while it changes the primary ones.                                      *)
mmu_set_region_dcache_behaviour(t, a) ==
  /\ Running /\ pt.tables # <<>>
  /\ Start("dcache", t, a, TRUE)
  /\ IF pt.tlb_emerg = 0 THEN pt' = Stop(pt, "no emergency table") /\ UNCHANGED ttbr
     ELSE ttbr' = pt.tlb_emerg /\ UNCHANGED pt

(* mmu_change_region_attr(): the region is made invalid, then given its    *)
(* new attributes.                                                         *)
mmu_change_region_attr(t, a, v) ==
  /\ SetUp
  /\ Start("invalid", t, a, v)
  /\ UNCHANGED <<pt, ttbr>>

(* One call of set_one_region(). *)
RegionStep ==
  /\ Running /\ job # Idle /\ job.size > 0
  /\ LET valid == job.op = "attrs" /\ job.valid
         a == IF job.op = "invalid" THEN <<0, 0>> ELSE job.attr
         res == set_one_region(pt, job.start, job.size, a, job.op # "dcache", valid, job.level)
         p == find_pte(pt, job.start, job.level)
     IN /\ pt' = res.s
        /\ job' = IF res.r > 0
                  THEN [job EXCEPT !.start = @ + res.r, !.size = @ - res.r, !.level = 1]
                  ELSE [job EXCEPT !.level = @ + 1]
        /\ splits' = splits + Len(res.s.tables) - Len(pt.tables)
        /\ blind' = IF res.r > 0 /\ job.level < 3 /\ Entry(pt, p).type # BLOCK
                    THEN blind \cup Pages(job.start, res.r)
                    ELSE blind
  /\ UNCHANGED <<memMap, mmu, calls, want>>

(* The end of a pass over the region; the tables are switched back. *)
RegionDone ==
  /\ Running /\ job # Idle /\ job.size = 0
  /\ IF job.op = "invalid"
     THEN /\ job' = [job EXCEPT !.op = "attrs", !.start = job.target[1], !.size = job.target[2]]
          /\ UNCHANGED <<ttbr, want>>
     ELSE /\ job' = Idle
          /\ ttbr' = IF job.op = "dcache" THEN pt.tlb_addr ELSE ttbr
          /\ want' = [p \in DOMAIN want |->
               IF p \notin Pages(job.target[1], job.target[2]) THEN want[p]
               ELSE IF job.op = "dcache" THEN [want[p] EXCEPT !.attr[1] = job.attr[1]]
               ELSE [want[p] EXCEPT !.attr = job.attr, !.valid = job.valid]]
  /\ UNCHANGED <<memMap, pt, sctlr, core0_ttbr, other, calls, splits, blind>>

NextTables ==
  \/ dcache_enable
  \/ dcache_disable
  \/ icache_enable
  \/ icache_disable
  \/ enable_other_cores_cache
  \/ \E t \in Targets, a \in Attrs :
       \/ mmu_set_region_dcache_behaviour(t, a)
       \/ \E v \in BOOLEAN : mmu_change_region_attr(t, a, v)
  \/ RegionStep
  \/ RegionDone

-----------------------------------------------------------------------------
(* A region lies beside the earlier ones or inside them: none replaces     *)
(* blocks that an earlier one has split.                                   *)
Layered(mm) ==
  \A i, j \in DOMAIN mm : i < j =>
    LET P == Pages(mm[i].virt, mm[i].size)
        Q == Pages(mm[j].virt, mm[j].size)
    IN P \cap Q = {} \/ Q \subseteq P

(* For such maps the estimate of get_page_table_size() holds both sets of  *)
(* tables and leaves Spare tables for splits: the pool is exhausted only   *)
(* by more than Spare of them (create_table()'s panic).                    *)
PoolSuffices ==
  Layered(memMap) =>
    /\ pt.panic = "pool" => splits >= Spare
    /\ Len(pt.tables) > 0 => Len(pt.tables) - splits <= pt.tlb_size - Spare

(* Whatever a core is walking, the primary tables while they are being     *)
(* changed included, translates every page of mem_map to its physical      *)
(* page; only the region of a mmu_change_region_attr() call may be invalid *)
(* meanwhile, and what such a call has left invalid.                       *)
UnderChange ==
  IF job.op \in {"invalid", "attrs"} THEN Pages(job.target[1], job.target[2]) ELSE {}

InUse == (IF "M" \in sctlr THEN {ttbr} ELSE {}) \cup ({other} \ {0})


=============================================================================
