------------------------- MODULE MallocBucketProofs --------------------------
(***************************************************************************)
(* The inductive invariant of Malloc, first part: facts about the blocks of *)
(* a page, and the steps of malloc() that set up descriptors and buckets.  *)
(***************************************************************************)
EXTENDS MallocProofs, FiniteSetTheorems

(* Blocks of a page. *)
LEMMA BlocksFacts ==
  /\ \A p, s : Blocks(p, s) \subseteq Addr
  /\ \A p, s : \A a \in Blocks(p, s) : a[1] = p /\ a = <<p, a[2]>>
  /\ \A p \in Page, s \in Sizes : <<p, 0>> \in Blocks(p, s)
<1>1. \A p, s : \A a \in Blocks(p, s) : a \in Addr /\ a[1] = p /\ a = <<p, a[2]>>
  BY DEF Blocks, Addr
<1>2. \A p \in Page, s \in Sizes : <<p, 0>> \in Blocks(p, s)
  <2> SUFFICES ASSUME NEW p \in Page, NEW s \in Sizes PROVE <<p, 0>> \in Blocks(p, s)
    OBVIOUS
  <2>1. 0 \in 0 .. PageSize /\ 0 = 0 * s
    BY ShapeAssumption
  <2>2. Aligned(0, s)
    BY <2>1 DEF Aligned
  <2> QED
    BY <2>2, Carriers DEF Blocks
<1> QED
  BY <1>1, <1>2

(* The unit after a block is the next block, if it is in the page. *)
LEMMA NextBlock ==
  ASSUME NEW p, NEW s \in Sizes, NEW a \in Blocks(p, s), a[2] + s < PageSize
  PROVE  /\ <<p, a[2] + s>> \in Blocks(p, s)
         /\ a[2] + s # 0
<1>1. a \in Addr /\ a[1] = p /\ Aligned(a[2], s) /\ a[2] \in Nat
  BY Carriers DEF Blocks
<1>2. <<p, a[2] + s>> \in Addr
  BY <1>1, Carriers
<1>3. PICK k \in 0 .. PageSize : a[2] = k * s
  BY <1>1 DEF Aligned
<1>4. s \in Nat /\ s >= 1 /\ PageSize \in Nat
  BY ShapeAssumption
<1>5. (k + 1) * s = a[2] + s
  BY <1>3, <1>4
<1>6. k * s >= k
  BY <1>4
<1>7. k + 1 \in 0 .. PageSize
  BY <1>1, <1>3, <1>4, <1>6
<1>8. Aligned(a[2] + s, s)
  BY <1>5, <1>7 DEF Aligned
<1> QED
  BY <1>1, <1>2, <1>4, <1>8 DEF Blocks

(* A page holds at most PageSize blocks, fewer than an unsigned short can  *)
(* count.                                                                  *)
LEMMA BlocksFinite ==
  ASSUME NEW p, NEW s, NEW L \in SUBSET Blocks(p, s)
  PROVE  /\ IsFiniteSet(L)
         /\ Cardinality(L) \in Nat
         /\ Cardinality(L) < RefcntMod
<1> DEFINE f == [a \in L |-> a[2]]
<1>1. f \in Injection(L, 0 .. PageSize - 1)
  <2>1. \A a \in L : a \in Addr /\ a = <<p, a[2]>>
    BY BlocksFacts
  <2>2. f \in [L -> 0 .. PageSize - 1]
    BY <2>1 DEF Addr
  <2>3. \A a, b \in L : f[a] = f[b] => a = b
    BY <2>1
  <2> QED
    BY <2>2, <2>3 DEF Injection, IsInjective
<1>2. /\ IsFiniteSet(0 .. PageSize - 1)
      /\ Cardinality(0 .. PageSize - 1) = PageSize
  BY FS_Interval, ShapeAssumption
<1>3. IsFiniteSet(L) /\ Cardinality(L) <= PageSize
  <2> HIDE DEF f
  <2> QED
    BY <1>1, <1>2, FS_Injection
<1>4. Cardinality(L) \in Nat
  BY <1>3, FS_CardinalityType
<1> QED
  BY <1>3, <1>4, RefcntAssumption, ShapeAssumption

(* A free descriptor page, or a page that was given back, is no page of a  *)
(* chained descriptor and holds no block in use.                           *)
LEMMA FreshPage ==
  ASSUME IInv, NEW p \in Page, use[p] = 0
  PROVE  /\ \A d \in Desc : Chained(d) => page[d] # p
         /\ \A d \in Desc : d[1] = p => onlist[d] = NULL
         /\ \A b \in live : b[1] # p
<1>1. \A d \in Desc : Chained(d) => page[d] # p
  BY DEF IInv, PageInv
<1>2. \A d \in Desc : d[1] = p => onlist[d] = NULL
  BY DEF IInv, PageInv
<1>3. \A b \in live : b[1] # p
  BY <1>1, BlocksFacts DEF IInv, LiveBlocksFindable
<1> QED
  BY <1>1, <1>2, <1>3
-----------------------------------------------------------------------------
(* The heap part of the invariant: everything but where the contexts are.  *)
HeapInv ==
  ChainInv /\ PageInv /\ BlockInv /\ RefcntExact /\ LiveBlocksFindable

LEMMA HeapFrame ==
  ASSUME HeapInv, UNCHANGED <<heap, live, onlist>>
  PROVE  HeapInv'
<1>1. UNCHANGED <<use, kmap, chain, freeDesc, page, next, freeptr, refcnt, word, live, onlist>>
  BY DEF heap, desc
<1>2. ChainInv'
  BY <1>1 DEF HeapInv, ChainInv
<1>3. PageInv'
  BY <1>1 DEF HeapInv, PageInv, Chained
<1>4. BlockInv'
  BY <1>1 DEF HeapInv, BlockInv, Chained, FreeBlocks, Blocks
<1>5. RefcntExact' /\ LiveBlocksFindable'
  BY <1>1 DEF HeapInv, RefcntExact, LiveBlocksFindable, Chained, Blocks
<1> QED
  BY <1>2, <1>3, <1>4, <1>5 DEF HeapInv

(* init_bucket_desc() puts the descriptors of a fresh page on the empty    *)
(* free_bucket_desc list.                                                  *)
LEMMA HeapInitDesc ==
  ASSUME IInv, NEW c \in Ctx, init_bucket_desc(c)
  PROVE  HeapInv'
<1>1. UNCHANGED <<kmap, chain, page, freeptr, refcnt, word, live>>
  BY DEF init_bucket_desc
<1>2. CASE UNCHANGED <<use, next, freeDesc, onlist>>
  BY <1>1, <1>2, HeapFrame DEF IInv, HeapInv, heap, desc
<1>3. ASSUME NEW p \in Page,
             FirstFree(p),
             use' = [use EXCEPT ![p] = @ + 1],
             next' = [d \in Desc |->
               IF d[1] # p THEN next[d]
               ELSE IF d[2] < DescPerPage THEN <<p, d[2] + 1>> ELSE freeDesc],
             freeDesc' = <<p, 1>>,
             onlist' = [d \in Desc |-> IF d[1] = p THEN 0 ELSE onlist[d]]
      PROVE  HeapInv'
  <2>1. /\ \A d \in Desc : Chained(d) => page[d] # p
        /\ \A d \in Desc : d[1] = p => onlist[d] = NULL
        /\ freeDesc = NULL
        /\ use[p] = 0
    BY <1>3, FreshPage DEF init_bucket_desc, FirstFree
  <2>2. \A d \in Desc : /\ Chained(d)' <=> Chained(d)
                        /\ Chained(d) => onlist'[d] = onlist[d]
    BY <1>3, <2>1, Carriers DEF Chained
  <2>3. \A d \in Desc : d[1] = p /\ next'[d] # NULL =>
          d[2] < DescPerPage /\ next'[d] = <<p, d[2] + 1>> /\ next'[d] \in Desc
    BY <1>3, <2>1, Carriers
  <2>4. \A d \in Desc : d[1] # p => next'[d] = next[d] /\ onlist'[d] = onlist[d]
    BY <1>3
  <2>5. \A d \in Desc : d[1] # p /\ onlist[d] # NULL /\ next[d] # NULL =>
          next[d] \in Desc /\ next[d][1] # p
    BY <2>1 DEF IInv, ChainInv, TypeInv, TypeOK
  <2>6. ChainInv'
    <3>1. \A s \in Sizes : chain'[s] # NULL => onlist'[chain'[s]] = s
      BY <1>1, <2>1, <2>4, Carriers DEF IInv, ChainInv, TypeInv, TypeOK
    <3>2. freeDesc' # NULL => onlist'[freeDesc'] = 0
      BY <1>3, Carriers
    <3>3. \A d \in Desc : onlist'[d] # NULL /\ next'[d] # NULL =>
           /\ onlist'[next'[d]] = onlist'[d]
           /\ onlist'[d] \in Sizes => next'[d] # chain'[onlist'[d]]
           /\ onlist'[d] = 0 => next'[d] # freeDesc'
      <4> SUFFICES ASSUME NEW d \in Desc, onlist'[d] # NULL, next'[d] # NULL
                   PROVE  /\ onlist'[next'[d]] = onlist'[d]
                          /\ onlist'[d] \in Sizes => next'[d] # chain'[onlist'[d]]
                          /\ onlist'[d] = 0 => next'[d] # freeDesc'
        OBVIOUS
      <4>1. CASE d[1] = p
        BY <1>3, <2>3, <4>1, Carriers
      <4>2. CASE d[1] # p
        BY <1>1, <1>3, <2>4, <2>5, <4>2 DEF IInv, ChainInv
      <4> QED
        BY <4>1, <4>2
    <3>4. \A d, e \in Desc :
            onlist'[d] # NULL /\ onlist'[d] = onlist'[e] /\ next'[d] # NULL /\ next'[d] = next'[e]
            => d = e
      <4> SUFFICES ASSUME NEW d \in Desc, NEW e \in Desc,
                          onlist'[d] # NULL, onlist'[d] = onlist'[e],
                          next'[d] # NULL, next'[d] = next'[e]
                   PROVE  d = e
        OBVIOUS
      <4>1. CASE d[1] = p /\ e[1] = p
        <5>1. d = <<d[1], d[2]>> /\ e = <<e[1], e[2]>>
          BY DEF Desc
        <5> QED
          BY <2>3, <4>1, <5>1, Carriers
      <4>2. CASE d[1] # p /\ e[1] # p
        BY <2>4, <4>2 DEF IInv, ChainInv
      <4>3. CASE (d[1] = p) # (e[1] = p)
        BY <2>3, <2>4, <2>5, <4>3
      <4> QED
        BY <4>1, <4>2, <4>3
    <3> QED
      BY <3>1, <3>2, <3>3, <3>4 DEF ChainInv
  <2>7. PageInv'
    <3>1. \A q \in Page : use[q] = 1 => use'[q] = 1
      BY <1>3, <2>1 DEF IInv, TypeInv, TypeOK
    <3>2. use'[p] = 1
      BY <1>3, <2>1 DEF IInv, TypeInv, TypeOK
    <3>3. \A d \in Desc : onlist'[d] # NULL => use'[d[1]] = 1
      BY <2>4, <3>1, <3>2, Carriers DEF IInv, PageInv
    <3>4. \A d \in Desc : Chained(d)' =>
            page'[d] \in Page /\ use'[page'[d]] = 1 /\ kmap'[page'[d]] = onlist'[d]
      BY <1>1, <2>2, <3>1 DEF IInv, PageInv
    <3>5. \A d, e \in Desc : Chained(d)' /\ e[1] = page'[d] => onlist'[e] = NULL
      BY <1>1, <2>1, <2>2, <2>4 DEF IInv, PageInv
    <3>6. \A d, e \in Desc : Chained(d)' /\ Chained(e)' /\ page'[d] = page'[e] => d = e
      BY <1>1, <2>2 DEF IInv, PageInv
    <3> QED
      BY <3>3, <3>4, <3>5, <3>6 DEF PageInv
  <2>8. BlockInv'
    BY <1>1, <2>2 DEF IInv, BlockInv, FreeBlocks, Blocks
  <2>9. RefcntExact' /\ LiveBlocksFindable'
    BY <1>1, <2>2, ZenonT(60) DEF IInv, RefcntExact, LiveBlocksFindable, Blocks
  <2> QED
    BY <2>6, <2>7, <2>8, <2>9 DEF HeapInv
<1> QED
  BY <1>2, <1>3 DEF init_bucket_desc
(* malloc() takes a descriptor off the free_bucket_desc list and gives it  *)
(* a fresh page.                                                           *)
LEMMA HeapNewBucket ==
  ASSUME IInv, NEW c \in Ctx, MallocNewBucket(c)
  PROVE  HeapInv'
<1>a. PICK fd \in Desc : fd = freeDesc
  BY DEF MallocNewBucket, IInv, TypeInv, TypeOK
<1>b. PICK s \in Sizes : s = bdir[c]
  BY DEF MallocNewBucket, At, IInv, TypeInv, Located
<1>c. /\ onlist[fd] = 0
      /\ next[fd] \in Desc \cup {NULL}
      /\ next[fd] # fd
  BY <1>a, Carriers DEF IInv, TypeInv, TypeOK, ChainInv
<1>1. /\ UNCHANGED live
      /\ fd \in Desc
      /\ s \in Sizes
      /\ freeDesc' = next[fd]
      /\ refcnt' = [refcnt EXCEPT ![fd] = 0]
      /\ onlist[fd] = 0
      /\ next[fd] \in Desc \cup {NULL}
      /\ next[fd] # fd
      /\ fd = freeDesc
  BY <1>a, <1>b, <1>c DEF MallocNewBucket
<1>2. ~Chained(fd)
  BY <1>1, Carriers DEF Chained
<1>3. CASE NoFreePage
  <2>1. /\ UNCHANGED <<use, kmap, chain, next, word>>
        /\ page' = [page EXCEPT ![fd] = NULL]
        /\ freeptr' = [freeptr EXCEPT ![fd] = NULL]
        /\ onlist' = [onlist EXCEPT ![fd] = NULL]
    BY <1>a, <1>3 DEF MallocNewBucket, NoFreePage, FirstFree
  <2>2. \A d \in Desc : d # fd =>
          /\ onlist'[d] = onlist[d]
          /\ page'[d] = page[d]
          /\ freeptr'[d] = freeptr[d]
          /\ refcnt'[d] = refcnt[d]
    BY <1>1, <2>1 DEF IInv, TypeInv, TypeOK
  <2>3. onlist'[fd] = NULL
    BY <1>1, <2>1 DEF IInv, TypeInv, TypeOK
  <2>4. \A d \in Desc : /\ Chained(d)' <=> Chained(d)
                        /\ Chained(d) => d # fd
    BY <1>2, <2>2, <2>3, Carriers DEF Chained
  <2>5. ChainInv'
    <3>1. \A t \in Sizes : chain'[t] # NULL => onlist'[chain'[t]] = t
      BY <1>1, <2>1, <2>2, Carriers DEF IInv, ChainInv, TypeInv, TypeOK
    <3>2. freeDesc' # NULL => onlist'[freeDesc'] = 0
      BY <1>1, <2>2, Carriers DEF IInv, ChainInv
    <3>3. \A d \in Desc : onlist'[d] # NULL /\ next'[d] # NULL =>
           /\ onlist'[next'[d]] = onlist'[d]
           /\ onlist'[d] \in Sizes => next'[d] # chain'[onlist'[d]]
           /\ onlist'[d] = 0 => next'[d] # freeDesc'
      BY <1>1, <2>1, <2>2, <2>3, Carriers DEF IInv, ChainInv, TypeInv, TypeOK
    <3>4. \A d, e \in Desc :
            onlist'[d] # NULL /\ onlist'[d] = onlist'[e] /\ next'[d] # NULL /\ next'[d] = next'[e]
            => d = e
      BY <2>1, <2>2, <2>3 DEF IInv, ChainInv
    <3> QED
      BY <3>1, <3>2, <3>3, <3>4 DEF ChainInv
  <2>6. PageInv'
    <3>1. \A d \in Desc : onlist'[d] # NULL => use'[d[1]] = 1
      BY <2>1, <2>2, <2>3 DEF IInv, PageInv
    <3>2. \A d \in Desc : Chained(d)' =>
            /\ page'[d] \in Page
            /\ use'[page'[d]] = 1
            /\ kmap'[page'[d]] = onlist'[d]
      BY <2>1, <2>2, <2>4 DEF IInv, PageInv
    <3>3. \A d, e \in Desc : Chained(d)' /\ e[1] = page'[d] => onlist'[e] = NULL
      BY <2>2, <2>3, <2>4 DEF IInv, PageInv
    <3>4. \A d, e \in Desc : Chained(d)' /\ Chained(e)' /\ page'[d] = page'[e] => d = e
      BY <2>2, <2>4 DEF IInv, PageInv
    <3> QED
      BY <3>1, <3>2, <3>3, <3>4 DEF PageInv
  <2>7. BlockInv'
    <3>1. \A d \in Desc : d # fd => FreeBlocks(d)' = FreeBlocks(d)
      BY <1>1, <2>2 DEF FreeBlocks, Blocks
    <3> SUFFICES ASSUME NEW d \in Desc, Chained(d), d # fd
                 PROVE  /\ freeptr'[d] # NULL => freeptr'[d] \in FreeBlocks(d)'
                        /\ \A a \in FreeBlocks(d)' : word'[a] # NULL =>
                             /\ word'[a] \in FreeBlocks(d)'
                             /\ word'[a] # freeptr'[d]
                        /\ \A a, b \in FreeBlocks(d)' :
                             word'[a] # NULL /\ word'[a] = word'[b] => a = b
      BY <2>4 DEF BlockInv
    <3>2. FreeBlocks(d)' = FreeBlocks(d) /\ freeptr'[d] = freeptr[d] /\ word' = word
      BY <2>1, <2>2, <3>1
    <3> QED
      BY <3>2 DEF IInv, BlockInv
  <2>8. RefcntExact' /\ LiveBlocksFindable'
    BY <1>1, <2>1, <2>2, <2>4 DEF IInv, RefcntExact, LiveBlocksFindable, Blocks
  <2> QED
    BY <2>5, <2>6, <2>7, <2>8 DEF HeapInv
<1>4. CASE ~NoFreePage
  <2>1. PICK p \in Page :
        /\ use[p] = 0
        /\ use' = [use EXCEPT ![p] = @ + 1]
        /\ page' = [page EXCEPT ![fd] = p]
        /\ freeptr' = [freeptr EXCEPT ![fd] = <<p, 0>>]
        /\ word' = Threaded(p, s)
        /\ next' = [next EXCEPT ![fd] = chain[s]]
        /\ chain' = [chain EXCEPT ![s] = fd]
        /\ kmap' = [kmap EXCEPT ![p] = s]
        /\ onlist' = [onlist EXCEPT ![fd] = s]
    BY <1>a, <1>b, <1>4 DEF MallocNewBucket, FirstFree, SizeRecorded
  <2>2. /\ \A d \in Desc : Chained(d) => page[d] # p
        /\ \A d \in Desc : d[1] = p => onlist[d] = NULL
        /\ \A b \in live : b[1] # p
    BY <2>1, FreshPage
  <2>3. \A d \in Desc : d # fd =>
          /\ onlist'[d] = onlist[d]
          /\ page'[d] = page[d]
          /\ freeptr'[d] = freeptr[d]
          /\ refcnt'[d] = refcnt[d]
          /\ next'[d] = next[d]
    BY <1>1, <2>1 DEF IInv, TypeInv, TypeOK
  <2>4. /\ onlist'[fd] = s
        /\ page'[fd] = p
        /\ freeptr'[fd] = <<p, 0>>
        /\ refcnt'[fd] = 0
        /\ next'[fd] = chain[s]
    BY <1>1, <2>1 DEF IInv, TypeInv, TypeOK
  <2>5. /\ chain'[s] = fd
        /\ \A t \in Sizes : t # s => chain'[t] = chain[t]
        /\ chain[s] \in Desc \cup {NULL}
    BY <1>1, <2>1 DEF IInv, TypeInv, TypeOK
  <2>6. \A d \in Desc : d # fd => (Chained(d)' <=> Chained(d))
    BY <2>3 DEF Chained
  <2>7. fd[1] # p /\ Chained(fd)'
    BY <1>1, <2>2, <2>4, Carriers DEF Chained
  <2>8. ChainInv'
    <3>1. \A t \in Sizes : chain'[t] # NULL => onlist'[chain'[t]] = t
      BY <1>1, <2>3, <2>4, <2>5, Carriers DEF IInv, ChainInv, TypeInv, TypeOK
    <3>2. freeDesc' # NULL => onlist'[freeDesc'] = 0
      BY <1>1, <2>3, Carriers DEF IInv, ChainInv
    <3>3. ASSUME NEW d \in Desc, onlist'[d] # NULL, next'[d] # NULL
          PROVE  /\ onlist'[next'[d]] = onlist'[d]
                 /\ onlist'[d] \in Sizes => next'[d] # chain'[onlist'[d]]
                 /\ onlist'[d] = 0 => next'[d] # freeDesc'
      <4>1. CASE d = fd
        BY <1>1, <2>3, <2>4, <2>5, <3>3, <4>1, Carriers DEF IInv, ChainInv
      <4>2. CASE d # fd
        <5>1. /\ onlist[d] # NULL
              /\ next[d] # NULL
              /\ next[d] \in Desc
              /\ onlist[next[d]] = onlist[d]
              /\ onlist[d] \in Sizes => next[d] # chain[onlist[d]]
              /\ onlist[d] = 0 => next[d] # fd
          BY <1>a, <2>3, <3>3, <4>2 DEF IInv, ChainInv, TypeInv, TypeOK
        <5>2. next[d] # fd
          BY <1>1, <5>1
        <5>3. onlist[d] = 0 => next[d] # next[fd]
          BY <1>1, <4>2, <5>1 DEF IInv, ChainInv
        <5> QED
          BY <1>1, <2>3, <2>5, <4>2, <5>1, <5>2, <5>3
      <4> QED
        BY <4>1, <4>2
    <3>4. ASSUME NEW d \in Desc, NEW e \in Desc,
                 onlist'[d] # NULL, onlist'[d] = onlist'[e], next'[d] # NULL, next'[d] = next'[e]
          PROVE  d = e
      <4>1. CASE d # fd /\ e # fd
        BY <2>3, <3>4, <4>1 DEF IInv, ChainInv
      <4>2. ASSUME NEW x \in Desc, x # fd, onlist'[x] = s, next'[x] # NULL
            PROVE  next'[x] # chain[s]
        BY <1>1, <2>3, <4>2, Carriers DEF IInv, ChainInv
      <4> QED
        BY <2>4, <3>4, <4>1, <4>2
    <3> QED
      BY <3>1, <3>2, <3>3, <3>4 DEF ChainInv
  <2>9. PageInv'
    <3>1. \A q \in Page : use[q] = 1 => use'[q] = 1 /\ q # p /\ kmap'[q] = kmap[q]
      BY <2>1 DEF IInv, TypeInv, TypeOK
    <3>2. use'[p] = 1 /\ kmap'[p] = s
      BY <2>1 DEF IInv, TypeInv, TypeOK
    <3>3. \A d \in Desc : onlist'[d] # NULL => use'[d[1]] = 1
      BY <1>1, <2>3, <3>1, Carriers DEF IInv, PageInv
    <3>4. \A d \in Desc : Chained(d)' =>
            page'[d] \in Page /\ use'[page'[d]] = 1 /\ kmap'[page'[d]] = onlist'[d]
      BY <2>3, <2>4, <2>6, <3>1, <3>2 DEF IInv, PageInv
    <3>5. \A d, e \in Desc : Chained(d)' /\ e[1] = page'[d] => onlist'[e] = NULL
      <4> SUFFICES ASSUME NEW d \in Desc, NEW e \in Desc, Chained(d)', e[1] = page'[d]
                   PROVE  onlist'[e] = NULL
        OBVIOUS
      <4>1. CASE d = fd
        BY <2>2, <2>3, <2>4, <2>7, <4>1
      <4>2. CASE d # fd
        BY <1>1, <2>3, <2>6, <4>2, Carriers DEF IInv, PageInv
      <4> QED
        BY <4>1, <4>2
    <3>6. \A d, e \in Desc : Chained(d)' /\ Chained(e)' /\ page'[d] = page'[e] => d = e
      BY <2>2, <2>3, <2>4, <2>6 DEF IInv, PageInv
    <3> QED
      BY <3>3, <3>4, <3>5, <3>6 DEF PageInv
  <2>10. BlockInv'
    <3>1. /\ \A a \in Addr : a[1] # p => word'[a] = word[a]
          /\ \A a \in Blocks(p, s) :
               word'[a] = IF a[2] + s < PageSize THEN <<p, a[2] + s>> ELSE NULL
      BY <2>1, BlocksFacts DEF Threaded
    <3>2. FreeBlocks(fd)' = Blocks(p, s)
      BY <1>1, <2>2, <2>4, BlocksFacts DEF FreeBlocks, Blocks
    <3>3. \A d \in Desc : Chained(d) /\ d # fd => FreeBlocks(d)' = FreeBlocks(d)
      BY <1>1, <2>3 DEF FreeBlocks, Blocks
    <3>4. ASSUME NEW d \in Desc, Chained(d), d # fd
          PROVE  \A a \in FreeBlocks(d) : word'[a] = word[a]
      BY <2>2, <3>1, <3>4, BlocksFacts DEF FreeBlocks
    <3>5. \A a \in Blocks(p, s) : word'[a] # NULL =>
            word'[a] \in Blocks(p, s) /\ word'[a] # <<p, 0>> /\ word'[a] = <<p, a[2] + s>>
      <4> SUFFICES ASSUME NEW a \in Blocks(p, s), word'[a] # NULL
                   PROVE  word'[a] \in Blocks(p, s) /\ word'[a] # <<p, 0>> /\ word'[a] = <<p, a[2] + s>>
        OBVIOUS
      <4>1. a[2] + s < PageSize /\ word'[a] = <<p, a[2] + s>>
        BY <3>1
      <4> QED
        BY <4>1, NextBlock
    <3>6. \A a, b \in Blocks(p, s) : word'[a] # NULL /\ word'[a] = word'[b] => a = b
      <4> SUFFICES ASSUME NEW a \in Blocks(p, s), NEW b \in Blocks(p, s),
                          word'[a] # NULL, word'[a] = word'[b]
                   PROVE  a = b
        OBVIOUS
      <4>1. a[2] + s = b[2] + s
        BY <3>5
      <4>2. a[2] = b[2]
        BY <1>1, <4>1, BlocksFacts, Carriers
      <4> QED
        BY <4>2, BlocksFacts
    <3>7. <<p, 0>> \in Blocks(p, s)
      BY <1>1, BlocksFacts
    <3> SUFFICES ASSUME NEW d \in Desc, Chained(d)'
                 PROVE  /\ freeptr'[d] # NULL => freeptr'[d] \in FreeBlocks(d)'
                        /\ \A a \in FreeBlocks(d)' : word'[a] # NULL =>
                             /\ word'[a] \in FreeBlocks(d)'
                             /\ word'[a] # freeptr'[d]
                        /\ \A a, b \in FreeBlocks(d)' : word'[a] # NULL /\ word'[a] = word'[b] => a = b
      BY DEF BlockInv
    <3>8. CASE d = fd
      BY <2>4, <3>2, <3>5, <3>6, <3>7, <3>8
    <3>9. CASE d # fd
      BY <2>3, <2>6, <3>3, <3>4, <3>9 DEF IInv, BlockInv
    <3> QED
      BY <3>8, <3>9
  <2>11. RefcntExact'
    <3>1. live \cap Blocks(p, s) = {}
      BY <2>2, BlocksFacts
    <3>2. (live \cap Blocks(page[fd], onlist[fd]))' = {}
      BY <1>1, <2>4, <3>1 DEF Blocks
    <3>3. \A d \in Desc : Chained(d)' /\ d # fd =>
            refcnt'[d] = Cardinality(live \cap Blocks(page[d], onlist[d]))'
      <4> SUFFICES ASSUME NEW d \in Desc, Chained(d)', d # fd
                   PROVE  refcnt'[d] = Cardinality(live \cap Blocks(page[d], onlist[d]))'
        OBVIOUS
      <4>1. Chained(d) /\ refcnt'[d] = refcnt[d]
        BY <2>3, <2>6
      <4>2. (live \cap Blocks(page[d], onlist[d]))' = live \cap Blocks(page[d], onlist[d])
        BY <1>1, <2>3 DEF Blocks
      <4> QED
        BY <4>1, <4>2 DEF IInv, RefcntExact
    <3> QED
      BY <2>4, <3>2, <3>3, FS_EmptySet DEF RefcntExact
  <2>12. LiveBlocksFindable'
    <3> SUFFICES ASSUME NEW b \in live
                 PROVE  \E d \in Desc : Chained(d)' /\ b \in Blocks(page[d], onlist[d])' /\ kmap'[b[1]] = onlist'[d]
      BY <1>1 DEF LiveBlocksFindable
    <3>1. PICK d \in Desc : Chained(d) /\ b \in Blocks(page[d], onlist[d]) /\ kmap[b[1]] = onlist[d]
      BY DEF IInv, LiveBlocksFindable
    <3>2. d # fd
      BY <1>2, <3>1
    <3>3. Chained(d)' /\ b \in Blocks(page[d], onlist[d])'
      BY <2>3, <2>6, <3>1, <3>2 DEF Blocks
    <3>4. b[1] \in Page /\ b[1] # p
      BY <2>2, BlocksFacts, Carriers, <3>1
    <3> QED
      BY <2>1, <2>3, <3>1, <3>2, <3>3, <3>4 DEF IInv, TypeInv, TypeOK
  <2> QED
    BY <2>8, <2>9, <2>10, <2>11, <2>12 DEF HeapInv
<1> QED
  BY <1>3, <1>4
=============================================================================
