------------------------------- MODULE Malloc -------------------------------
(***************************************************************************)
(* The heap of the monitor: the page allocator of common/memory.c and the  *)
(* bucket allocator of lib/malloc.c on top of it.                          *)
(*                                                                         *)
(* A page is cut into blocks of one bucket size.  A bucket descriptor      *)
(* describes one page; the descriptors of a size form the chain of its     *)
(* bucket_dir entry, the unused ones the free_bucket_desc list.  The free  *)
(* blocks of a page form a list threaded through their first words.        *)
(*                                                                         *)
(* Two contexts use the heap: the monitor ("main") and an interrupt        *)
(* handler ("isr") that runs to completion on top of it whenever main has  *)
(* interrupts enabled.  malloc() does all its work with interrupts masked; *)
(* free() searches the chain and walks the free list with interrupts       *)
(* enabled and masks them only for the update, so those two loops are one  *)
(* step per iteration.                                                     *)
(*                                                                         *)
(* Offsets and sizes are counted in units of the smallest bucket.          *)
(***************************************************************************)
EXTENDS Naturals, FiniteSets

CONSTANTS
  PagingPages,   \* pages of the heap: gd->malloc_limit >> 12
  PageSize,      \* units in a page
  Sizes,         \* the bucket sizes of bucket_dir, in units
  DescPerPage,   \* bucket descriptors that fit in a page
  Lens,          \* lengths passed to malloc, a set for each context
  Ops,           \* the calls each context makes: "malloc", "free", "write"
  UserWords,     \* values the owner of a block stores in its first word
  DoubleFree,    \* may main free its last freed pointer again?
  RefcntMod,     \* values of an unsigned short
  MaxIrqs,       \* bound on the number of interrupts
  NULL

Ctx == {"main", "isr"}

ASSUME ShapeAssumption ==
  /\ PagingPages \in Nat
  /\ PageSize \in Nat \ {0}
  /\ Sizes \subseteq 1..PageSize
  /\ DescPerPage \in Nat \ {0}
  /\ RefcntMod \in Nat \ {0}
  /\ MaxIrqs \in Nat
  /\ DoubleFree \in BOOLEAN

(* 256 blocks of 16 bytes at most, counted by an unsigned short. *)
ASSUME RefcntAssumption == PageSize < RefcntMod

ASSUME ClientAssumption ==
  /\ Lens \in [Ctx -> SUBSET Nat]
  /\ Ops \in [Ctx -> SUBSET {"malloc", "free", "write"}]

Page == 0 .. PagingPages - 1
Addr == Page \X (0 .. PageSize - 1)
Desc == Page \X (1 .. DescPerPage)       \* identified by page and index
Word == Addr \cup UserWords \cup {NULL}

ASSUME NullAssumption == NULL \notin Addr \cup Desc \cup Page \cup Nat

(* The offsets at which a block of size s can start: multiples of s. *)
Aligned(o, s) == \E k \in 0 .. PageSize : o = k * s

(* The blocks of size s in page p. *)
Blocks(p, s) == {a \in Addr : a[1] = p /\ Aligned(a[2], s)}

VARIABLES
  use,       \* mem_map[i].use
  kmap,      \* bd_kmap[i]: the bucket size last given to page i, 0 if never
  chain,     \* bucket_dir[].chain, by size
  freeDesc,  \* free_bucket_desc
  page, next, freeptr, refcnt,     \* the fields of each bucket descriptor
  word,      \* the first word of each block
  masked,    \* are interrupts masked in main?
  pc,        \* where each context is
  bdir, bdesc, prev, obj, cur,     \* its locals (cur: freeptr in free())
  why,       \* the panic that stopped a context, if any
  irqs,      \* interrupts taken so far
  live,      \* history: blocks handed out and not freed
  dangling,  \* history: the pointer main freed last
  onlist     \* history: the list each descriptor is on

desc == <<page, next, freeptr, refcnt>>
heap == <<use, kmap, chain, freeDesc, desc, word>>
locals == <<bdir, bdesc, prev, obj, cur>>
history == <<live, dangling, onlist>>
vars == <<heap, masked, pc, locals, why, irqs, history>>

UShort == 0 .. RefcntMod - 1

Labels == {"idle", "bucket", "search", "walk", "push", "unlink", "hang"}

Panics == {"none", "oom_desc", "oom_malloc", "unalign", "bad_addr", "repeat",
           "corrupted", "wild"}

TypeOK ==
  /\ use \in [Page -> 0 .. 1]
  /\ kmap \in [Page -> Sizes \cup {0}]
  /\ chain \in [Sizes -> Desc \cup {NULL}]
  /\ freeDesc \in Desc \cup {NULL}
  /\ page \in [Desc -> Page \cup {NULL}]
  /\ next \in [Desc -> Desc \cup {NULL}]
  /\ freeptr \in [Desc -> Word]
  /\ refcnt \in [Desc -> UShort]
  /\ word \in [Addr -> Word]
  /\ masked \in BOOLEAN
  /\ pc \in [Ctx -> Labels]
  /\ bdir \in [Ctx -> Sizes \cup {0}]
  /\ bdesc \in [Ctx -> Desc \cup {NULL}]
  /\ prev \in [Ctx -> Desc \cup {NULL}]
  /\ obj \in [Ctx -> Addr \cup {NULL}]
  /\ cur \in [Ctx -> Word]
  /\ why \in [Ctx -> Panics]
  /\ irqs \in 0 .. MaxIrqs
  /\ live \subseteq Addr
  /\ dangling \in Addr \cup {NULL}
  /\ onlist \in [Desc -> Sizes \cup {0, NULL}]

(* memory_init(): every page free, no bucket yet.  onlist is NULL for a    *)
(* descriptor whose page is not a descriptor page, 0 for one on the        *)
(* free_bucket_desc list, else the size of its chain.                      *)
Init ==
  /\ use = [p \in Page |-> 0]
  /\ kmap = [p \in Page |-> 0]
  /\ chain = [s \in Sizes |-> NULL]
  /\ freeDesc = NULL
  /\ page = [d \in Desc |-> NULL]
  /\ next = [d \in Desc |-> NULL]
  /\ freeptr = [d \in Desc |-> NULL]
  /\ refcnt = [d \in Desc |-> 0]
  /\ word = [a \in Addr |-> NULL]
  /\ masked = FALSE
  /\ pc = [c \in Ctx |-> "idle"]
  /\ bdir = [c \in Ctx |-> 0]
  /\ bdesc = [c \in Ctx |-> NULL]
  /\ prev = [c \in Ctx |-> NULL]
  /\ obj = [c \in Ctx |-> NULL]
  /\ cur = [c \in Ctx |-> NULL]
  /\ why = [c \in Ctx |-> "none"]
  /\ irqs = 0
  /\ live = {}
  /\ dangling = NULL
  /\ onlist = [d \in Desc |-> NULL]

-----------------------------------------------------------------------------
(* Interrupts.  The handler preempts main between two steps of main when   *)
(* they are unmasked, and main waits until the handler has returned.       *)

Runs(c) == c = "isr" \/ pc["isr"] = "idle"

local_irq_save(c) == masked' = IF c = "main" THEN TRUE ELSE masked
local_irq_restore(c) == masked' = IF c = "main" THEN FALSE ELSE masked

(* A context enters malloc() or free(): main at will, the handler when an  *)
(* interrupt is taken.                                                     *)
Enter(c, op) ==
  /\ pc[c] = "idle"
  /\ Runs(c)
  /\ op \in Ops[c]
  /\ \/ c = "main" /\ UNCHANGED irqs
     \/ c = "isr" /\ ~masked /\ irqs < MaxIrqs /\ irqs' = irqs + 1

At(c, label) == pc[c] = label /\ Runs(c) /\ UNCHANGED irqs

Goto(c, label) == pc' = [pc EXCEPT ![c] = label]

SetLocals(c, s, d, o) ==
  /\ bdir' = [bdir EXCEPT ![c] = s]
  /\ bdesc' = [bdesc EXCEPT ![c] = d]
  /\ prev' = [prev EXCEPT ![c] = NULL]
  /\ obj' = [obj EXCEPT ![c] = o]
  /\ cur' = [cur EXCEPT ![c] = NULL]

Return(c) == Goto(c, "idle") /\ SetLocals(c, 0, NULL, NULL) /\ UNCHANGED why

(* panic(): the context hangs; interrupts stay as they are. *)
panic(c, msg) ==
  /\ Goto(c, "hang")
  /\ why' = [why EXCEPT ![c] = msg]
  /\ UNCHANGED locals

(* get_free_page(): the first page not in use. *)
FirstFree_anyPage(p) == \A q \in Page : use[q] = 0 => p <= q
FirstFree(p) == use[p] = 0 /\ \A q \in Page : use[q] = 0 => p <= q
NoFreePage == \A p \in Page : use[p] # 0

(* free_page(): only a page with use = 1 is released, and zeroed. *)
free_page(p) ==
  IF p \in Page /\ use[p] = 1
  THEN /\ use' = [use EXCEPT ![p] = 0]
       /\ word' = [a \in Addr |-> IF a[1] = p THEN NULL ELSE word[a]]
  ELSE UNCHANGED <<use, word>>

-----------------------------------------------------------------------------
(* malloc() *)

BucketFor(s, len) == s >= len /\ \A t \in Sizes : t >= len => s <= t

MallocTooLong(c, len) ==
  /\ Enter(c, "malloc")
  /\ \A s \in Sizes : s < len
  /\ UNCHANGED <<heap, masked, pc, locals, why, history>>

MallocCall(c, len) ==
  /\ Enter(c, "malloc")
  /\ \E s \in Sizes : BucketFor(s, len) /\ SetLocals(c, s, chain[s], NULL)
  /\ local_irq_save(c)
  /\ Goto(c, "bucket")
  /\ UNCHANGED <<heap, why, history>>

(* The search for a descriptor with a free block. *)
MallocSkip(c) ==
  /\ At(c, "bucket")
  /\ bdesc[c] # NULL
  /\ freeptr[bdesc[c]] = NULL
  /\ bdesc' = [bdesc EXCEPT ![c] = next[bdesc[c]]]
  /\ UNCHANGED <<heap, masked, pc, bdir, prev, obj, cur, why, history>>

(* init_bucket_desc(): a fresh page of descriptors, chained in order. *)
init_bucket_desc(c) ==
  /\ At(c, "bucket")
  /\ bdesc[c] = NULL
  /\ freeDesc = NULL
  /\ \/ /\ NoFreePage
        /\ panic(c, "oom_desc")
        /\ UNCHANGED <<use, next, freeDesc, onlist>>
     \/ \E p \in Page :
        /\ FirstFree(p)
        /\ use' = [use EXCEPT ![p] = @ + 1]
        /\ next' = [d \in Desc |->
             IF d[1] # p THEN next[d]
             ELSE IF d[2] < DescPerPage THEN <<p, d[2] + 1>> ELSE freeDesc]
        /\ freeDesc' = <<p, 1>>
        /\ onlist' = [d \in Desc |-> IF d[1] = p THEN 0 ELSE onlist[d]]
        /\ UNCHANGED <<pc, locals, why>>
  /\ UNCHANGED <<kmap, chain, page, freeptr, refcnt, word, masked, live, dangling>>

(* The words of page p after its blocks of size s have been linked. *)
Threaded_short(p, s) ==
  [a \in Addr |-> IF a \in Blocks(p, s)
                  THEN IF a[2] + 2 * s < PageSize THEN <<p, a[2] + s>> ELSE NULL
                  ELSE word[a]]
Threaded(p, s) ==
  [a \in Addr |-> IF a \in Blocks(p, s)
                  THEN IF a[2] + s < PageSize THEN <<p, a[2] + s>> ELSE NULL
                  ELSE word[a]]

(* bd_kmap[i >> 12] = bdir->size *)
SizeRecorded_once(p, s) == IF kmap[p] = 0 THEN [kmap EXCEPT ![p] = s] ELSE kmap
SizeRecorded(p, s) == [kmap EXCEPT ![p] = s]

(* A descriptor leaves the free list, gets a page whose blocks are threaded *)
(* into its free list, and heads the chain of its size.  When no page is    *)
(* left the descriptor has already left the free list.                      *)
MallocNewBucket(c) ==
  /\ At(c, "bucket")
  /\ bdesc[c] = NULL
  /\ freeDesc # NULL
  /\ freeDesc' = next[freeDesc]
  /\ refcnt' = [refcnt EXCEPT ![freeDesc] = 0]
  /\ \/ /\ NoFreePage
        /\ page' = [page EXCEPT ![freeDesc] = NULL]
        /\ freeptr' = [freeptr EXCEPT ![freeDesc] = NULL]
        /\ onlist' = [onlist EXCEPT ![freeDesc] = NULL]
        /\ panic(c, "oom_malloc")
        /\ UNCHANGED <<use, kmap, chain, next, word>>
     \/ \E p \in Page :
        /\ FirstFree(p)
        /\ use' = [use EXCEPT ![p] = @ + 1]
        /\ page' = [page EXCEPT ![freeDesc] = p]
        /\ freeptr' = [freeptr EXCEPT ![freeDesc] = <<p, 0>>]
        /\ word' = Threaded(p, bdir[c])
        /\ next' = [next EXCEPT ![freeDesc] = chain[bdir[c]]]
        /\ chain' = [chain EXCEPT ![bdir[c]] = freeDesc]
        /\ kmap' = SizeRecorded(p, bdir[c])
        /\ onlist' = [onlist EXCEPT ![freeDesc] = bdir[c]]
        /\ bdesc' = [bdesc EXCEPT ![c] = freeDesc]
        /\ UNCHANGED <<pc, bdir, prev, obj, cur, why>>
  /\ UNCHANGED <<masked, live, dangling>>

(* The head of the free list is handed out. *)
Counted_not(d) == refcnt
Counted(d) ==
  [refcnt EXCEPT ![d] = IF @ = RefcntMod - 1 THEN 0 ELSE @ + 1]

NewHead(b) == word[b]

MallocTake(c) ==
  /\ At(c, "bucket")
  /\ bdesc[c] # NULL
  /\ LET d == bdesc[c]
         b == freeptr[d]
     IN /\ b # NULL
        /\ IF b \in Addr
           THEN /\ freeptr' = [freeptr EXCEPT ![d] = NewHead(b)]
                /\ refcnt' = Counted(d)
                /\ live' = live \cup {b}
                /\ dangling' = IF b = dangling THEN NULL ELSE dangling
                /\ local_irq_restore(c)
                /\ Return(c)
           ELSE panic(c, "wild") /\ UNCHANGED <<freeptr, refcnt, live, dangling, masked>>
  /\ UNCHANGED <<use, kmap, chain, freeDesc, page, next, word, onlist>>

-----------------------------------------------------------------------------
(* free() *)

(* Blocks whose free() has begun and not yet reached the masked update. *)
Pending == {obj[c] : c \in {k \in Ctx : pc[k] \in {"search", "walk", "push"}}}

(* What a context may pass to free(): a block of a size it uses that it    *)
(* has not freed, or, with DoubleFree, the pointer it freed last.          *)
Freeable(c) ==
  {b \in live \ Pending : \E len \in Lens[c] : BucketFor(kmap[b[1]], len)}
    \cup (IF DoubleFree /\ c = "main" THEN {dangling} \ {NULL} ELSE {})

FreeCall(c, o) ==
  /\ Enter(c, "free")
  /\ LET s == kmap[o[1]]
     IN IF s = 0 \/ ~Aligned(o[2], s)
        THEN panic(c, "unalign")
        ELSE /\ SetLocals(c, s, chain[s], o)
             /\ Goto(c, "search")
             /\ UNCHANGED why
  /\ UNCHANGED <<heap, masked, history>>

(* The search of the chains for the descriptor of obj's page, from the     *)
(* size the page had last upwards; prev trails one descriptor behind.      *)
FreeSearch(c) ==
  /\ At(c, "search")
  /\ bdesc[c] # NULL
  /\ IF page[bdesc[c]] = obj[c][1]
     THEN /\ cur' = [cur EXCEPT ![c] = freeptr[bdesc[c]]]
          /\ Goto(c, IF freeptr[bdesc[c]] = NULL THEN "push" ELSE "walk")
          /\ UNCHANGED <<bdesc, prev>>
     ELSE /\ prev' = [prev EXCEPT ![c] = bdesc[c]]
          /\ bdesc' = [bdesc EXCEPT ![c] = next[bdesc[c]]]
          /\ UNCHANGED <<cur, pc>>
  /\ UNCHANGED <<heap, masked, bdir, obj, why, history>>

FreeNextBucket(c) ==
  /\ At(c, "search")
  /\ bdesc[c] = NULL
  /\ \/ /\ \A s \in Sizes : s <= bdir[c]
        /\ panic(c, "bad_addr")
     \/ \E s \in Sizes :
        /\ s > bdir[c]
        /\ \A t \in Sizes : t > bdir[c] => s <= t
        /\ SetLocals(c, s, chain[s], obj[c])
        /\ UNCHANGED <<pc, why>>
  /\ UNCHANGED <<heap, masked, history>>

FreeFind(c) == pc[c] = "search" /\ (FreeSearch(c) \/ FreeNextBucket(c))

(* The walk of the page's free list that looks for a repeated free: it     *)
(* compares the first word of obj with the links of the list.  A word that *)
(* is no address is dereferenced all the same.                             *)
LinkAfter(a) == word[a]

FreeWalk(c) ==
  /\ At(c, "walk")
  /\ IF cur[c] \notin Addr
     THEN panic(c, "wild")
     ELSE \/ /\ word[cur[c]] = NULL
             /\ Goto(c, "push")
             /\ UNCHANGED <<locals, why>>
          \/ /\ word[cur[c]] # NULL
             /\ word[cur[c]] = word[obj[c]]
             /\ panic(c, "repeat")
          \/ /\ word[cur[c]] # NULL
             /\ word[cur[c]] # word[obj[c]]
             /\ cur' = [cur EXCEPT ![c] = LinkAfter(cur[c])]
             /\ UNCHANGED <<pc, bdir, bdesc, prev, obj, why>>
  /\ UNCHANGED <<heap, masked, history>>

(* The update, with interrupts masked: obj heads the free list.  If it was *)
(* the last block in use the descriptor is unlinked; the prev found by the *)
(* search is used if it still precedes the descriptor, else the chain is   *)
(* searched for it again.                                                  *)
PrevStale_never(c) == FALSE
PrevStale(c) == IF prev[c] # NULL THEN next[prev[c]] # bdesc[c]
                                  ELSE chain[bdir[c]] # bdesc[c]

LastBlock_never(n) == FALSE
LastBlock_early(n) == n <= 1
LastBlock(n) == n = 0

FreePush(c) ==
  /\ At(c, "push")
  /\ LET d == bdesc[c]
         n == IF refcnt[d] = 0 THEN RefcntMod - 1 ELSE refcnt[d] - 1
     IN /\ word' = [word EXCEPT ![obj[c]] = freeptr[d]]
        /\ freeptr' = [freeptr EXCEPT ![d] = obj[c]]
        /\ refcnt' = [refcnt EXCEPT ![d] = n]
        /\ live' = live \ {obj[c]}
        /\ dangling' = IF c = "main" THEN obj[c] ELSE dangling
        /\ IF LastBlock(n)
           THEN /\ prev' = [prev EXCEPT ![c] = IF PrevStale(c) THEN chain[bdir[c]] ELSE @]
                /\ Goto(c, "unlink")
                /\ local_irq_save(c)
                /\ UNCHANGED <<bdir, bdesc, obj, cur, why>>
           ELSE Return(c) /\ UNCHANGED masked
  /\ UNCHANGED <<use, kmap, chain, freeDesc, page, next, onlist>>

FreeRescan(c) ==
  /\ At(c, "unlink")
  /\ prev[c] # NULL
  /\ next[prev[c]] # bdesc[c]
  /\ prev' = [prev EXCEPT ![c] = next[prev[c]]]
  /\ UNCHANGED <<heap, masked, pc, bdir, bdesc, obj, cur, why, history>>

(* The empty bucket leaves its chain, its page goes back to the page       *)
(* allocator and its descriptor to the free_bucket_desc list.              *)
Relinked_lost(d, nx) == nx
Relinked(d, nx) == [nx EXCEPT ![d] = freeDesc]

Release(c, d, nx) ==
  /\ free_page(page[d])
  /\ next' = Relinked(d, nx)
  /\ freeDesc' = d
  /\ onlist' = [onlist EXCEPT ![d] = 0]
  /\ local_irq_restore(c)
  /\ Return(c)

FreeUnlink(c) ==
  /\ At(c, "unlink")
  /\ LET d == bdesc[c]
     IN \/ /\ prev[c] # NULL
           /\ next[prev[c]] = d
           /\ Release(c, d, [next EXCEPT ![prev[c]] = next[d]])
           /\ UNCHANGED chain
        \/ /\ prev[c] = NULL
           /\ chain[bdir[c]] = d
           /\ chain' = [chain EXCEPT ![bdir[c]] = next[d]]
           /\ Release(c, d, next)
        \/ /\ prev[c] = NULL
           /\ chain[bdir[c]] # d
           /\ panic(c, "corrupted")
           /\ UNCHANGED <<use, chain, freeDesc, next, word, masked, onlist>>
  /\ UNCHANGED <<kmap, page, freeptr, refcnt, live, dangling>>

-----------------------------------------------------------------------------
(* The owner of a block stores into its first word. *)
Write(c, b, w) ==
  /\ pc[c] = "idle"
  /\ Runs(c)
  /\ "write" \in Ops[c]
  /\ c = "isr" => ~masked
  /\ word' = [word EXCEPT ![b] = w]
  /\ UNCHANGED <<use, kmap, chain, freeDesc, desc, masked, pc, locals, why, irqs, history>>

Malloc(c) ==
  \/ \E len \in Lens[c] : MallocTooLong(c, len) \/ MallocCall(c, len)
  \/ MallocSkip(c)
  \/ init_bucket_desc(c)
  \/ MallocNewBucket(c)
  \/ MallocTake(c)

Free(c) ==
  \/ \E o \in Freeable(c) : FreeCall(c, o)
  \/ FreeFind(c)
  \/ FreeWalk(c)
  \/ FreePush(c)
  \/ FreeRescan(c)
  \/ FreeUnlink(c)

Next ==
  \E c \in Ctx :
    \/ Malloc(c)
    \/ Free(c)
    \/ \E b \in live \ Pending, w \in UserWords : Write(c, b, w)

Spec == Init /\ [][Next]_vars

(* Every context that is running goes on; the handler always returns to    *)
(* the code it interrupted.                                                *)
Fairness == \A c \in Ctx : WF_vars(pc[c] # "idle" /\ (Malloc(c) \/ Free(c)))

FairSpec == Spec /\ Fairness

-----------------------------------------------------------------------------
(* Correctness. *)

Chained(d) == onlist[d] \in Sizes

(* The elements reached from h by following nxt, at most n of them. *)
Reached(h, nxt, n) ==
  LET upto[i \in 0 .. n] ==
        IF i = 0 THEN {h} \ {NULL}
        ELSE upto[i - 1] \cup ({nxt[x] : x \in upto[i - 1] \cap DOMAIN nxt} \ {NULL})
  IN upto[n]

(* malloc() and free() keep bdesc->refcnt equal to the number of blocks of *)
(* the page that are in use: the page is given back (free(), refcnt == 0)  *)
(* exactly when no block of it is.                                         *)
RefcntExact ==
  \A d \in Desc : Chained(d) =>
    refcnt[d] = Cardinality(live \cap Blocks(page[d], onlist[d]))

(* The list threaded through a bucket's page by malloc() and free() holds  *)
(* every block of the page that is not in use and no other, each of them   *)
(* once: no link leads back into the list.                                 *)
FreeListExact ==
  \A d \in Desc : Chained(d) =>
    LET free == Blocks(page[d], onlist[d]) \ live
    IN /\ Reached(freeptr[d], word, PageSize) = free
       /\ \A a, b \in free : word[a] = word[b] => (a = b \/ word[a] = NULL)
       /\ \A a \in free : word[a] # freeptr[d]

(* The chains of bucket_dir and the free_bucket_desc list share no         *)
(* descriptor and lose none, and each page in use is either a page of      *)
(* descriptors or the page of exactly one chained descriptor.              *)
ListsAccounted ==
  LET bound == Cardinality(Desc)
      on(x) == {d \in Desc : onlist[d] = x}
  IN /\ \A s \in Sizes : Reached(chain[s], next, bound) = on(s)
     /\ Reached(freeDesc, next, bound) = on(0)
     /\ \A p \in Page :
          use[p] = 1 <=>
            \/ \E d \in Desc : d[1] = p /\ onlist[d] # NULL
            \/ \E d \in Desc : Chained(d) /\ page[d] = p
     /\ \A d, e \in Desc : Chained(d) /\ Chained(e) /\ page[d] = page[e]
                             => d = e

(* Every block in use lies in the page of a chained descriptor whose size  *)
(* bd_kmap still records, so that free() finds it again.                   *)
LiveBlocksFindable ==
  \A b \in live :
    \E d \in Desc : /\ Chained(d)
                    /\ b \in Blocks(page[d], onlist[d])
                    /\ kmap[b[1]] = onlist[d]

(* A client that frees only what it allocated, once, never meets one of    *)
(* free()'s panics; the only way to stop is to run out of pages.           *)
NoFalsePanic == \A c \in Ctx : why[c] \in {"none", "oom_desc", "oom_malloc"}

(* free() gives the page of an empty bucket back at once: outside malloc() *)
(* and free() every chained bucket has a block in use.                     *)
NoEmptyBucket ==
  (\A c \in Ctx : pc[c] = "idle") =>
    \A d \in Desc : Chained(d) => refcnt[d] > 0

(* Every call of malloc() and free() returns unless a panic stops the      *)
(* system: the two loops that free() runs with interrupts enabled end      *)
(* although the lists may change under them.                               *)
CallsReturn ==
  \A c \in Ctx : pc[c] # "idle" ~> pc[c] = "idle" \/ \E k \in Ctx : pc[k] = "hang"

(* The buckets implement the promise of Heap: the extents are the blocks   *)
(* in use, with the length bd_kmap records for their page.                 *)
Promise == INSTANCE Heap WITH
  Extents <- [page: Page, start: 0 .. PageSize - 1, len: Sizes],
  allocated <- {[page |-> b[1], start |-> b[2], len |-> kmap[b[1]]] : b \in live}

ImplementsHeap == Promise!Spec

(* free() panics with "Trying to repeat free addr" instead of putting a    *)
(* block on the free list a second time.                                   *)
RepeatedFreeCaught == \A c \in Ctx : pc[c] = "push" => obj[c] \in live

(* The "Trying to repeat free addr" panic is raised for repeated frees     *)
(* only.                                                                   *)
RepeatPanicTrue == \A c \in Ctx : why[c] = "repeat" => obj[c] \notin live

(* The "Bad address passed to free()" panic is raised only for addresses   *)
(* that malloc() did not return.                                           *)
BadAddressPanicTrue == \A c \in Ctx : why[c] = "bad_addr" => obj[c] \notin live
=============================================================================
