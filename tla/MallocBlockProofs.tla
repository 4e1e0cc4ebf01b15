-------------------------- MODULE MallocBlockProofs --------------------------
(***************************************************************************)
(* The inductive invariant of Malloc, second part: the steps that hand out, *)
(* take back, unlink and write blocks.                                     *)
(***************************************************************************)
EXTENDS MallocBucketProofs

(* malloc() hands out the head of a free list. *)
LEMMA HeapTake ==
  ASSUME IInv, NEW c \in Ctx, MallocTake(c)
  PROVE  HeapInv'
<1>1. PICK d \in Desc : d = bdesc[c]
  BY DEF MallocTake, IInv, TypeInv, TypeOK
<1>2. PICK b : b = freeptr[d] /\ b # NULL
  BY <1>1 DEF MallocTake
<1>3. Chained(d)
  BY <1>1, Carriers DEF MallocTake, At, IInv, ContextInv, Chained
<1>4. b \in FreeBlocks(d) /\ b \in Addr /\ b \notin live /\ b \in Blocks(page[d], onlist[d])
  BY <1>2, <1>3, BlocksFacts DEF IInv, BlockInv, FreeBlocks
<1>5. /\ freeptr' = [freeptr EXCEPT ![d] = word[b]]
      /\ refcnt' = Counted(d)
      /\ live' = live \cup {b}
      /\ UNCHANGED <<use, kmap, chain, freeDesc, page, next, word, onlist>>
  BY <1>1, <1>2, <1>4 DEF MallocTake, NewHead
<1>6. \A e \in Desc : /\ Chained(e)' <=> Chained(e)
                      /\ Blocks(page[e], onlist[e])' = Blocks(page[e], onlist[e])
  BY <1>5 DEF Chained, Blocks
<1>7. \A e \in Desc : Chained(e) /\ e # d => b \notin Blocks(page[e], onlist[e])
  BY <1>3, <1>4, BlocksFacts DEF IInv, PageInv
<1>8. ChainInv' /\ PageInv'
  BY <1>5, <1>6 DEF IInv, ChainInv, PageInv
<1>9. BlockInv'
  <2>1. FreeBlocks(d)' = FreeBlocks(d) \ {b}
    BY <1>5, <1>6 DEF FreeBlocks
  <2>2. \A e \in Desc : Chained(e) /\ e # d => FreeBlocks(e)' = FreeBlocks(e)
    BY <1>5, <1>6, <1>7 DEF FreeBlocks
  <2>3. freeptr'[d] = word[b] /\ \A e \in Desc : e # d => freeptr'[e] = freeptr[e]
    BY <1>5 DEF IInv, TypeInv, TypeOK
  <2> SUFFICES ASSUME NEW e \in Desc, Chained(e)'
               PROVE  /\ freeptr'[e] # NULL => freeptr'[e] \in FreeBlocks(e)'
                      /\ \A a \in FreeBlocks(e)' : word'[a] # NULL =>
                           /\ word'[a] \in FreeBlocks(e)'
                           /\ word'[a] # freeptr'[e]
                      /\ \A x, y \in FreeBlocks(e)' : word'[x] # NULL /\ word'[x] = word'[y] => x = y
    BY DEF BlockInv
  <2>4. CASE e = d
    BY <1>2, <1>3, <1>4, <1>5, <2>1, <2>3, <2>4 DEF IInv, BlockInv
  <2>5. CASE e # d
    BY <1>5, <1>6, <2>2, <2>3, <2>5 DEF IInv, BlockInv
  <2> QED
    BY <2>4, <2>5
<1>10. RefcntExact'
  <2> SUFFICES ASSUME NEW e \in Desc, Chained(e)
               PROVE  refcnt'[e] = Cardinality(live' \cap Blocks(page[e], onlist[e]))
    BY <1>5, <1>6 DEF RefcntExact
  <2>1. refcnt[e] = Cardinality(live \cap Blocks(page[e], onlist[e]))
    BY DEF IInv, RefcntExact
  <2>2. CASE e = d
    <3> DEFINE L == live \cap Blocks(page[d], onlist[d])
    <3>1. live' \cap Blocks(page[d], onlist[d]) = L \cup {b}
      BY <1>4, <1>5
    <3>2. b \notin L /\ L \cup {b} \subseteq Blocks(page[d], onlist[d])
      BY <1>4
    <3>3. IsFiniteSet(L) /\ Cardinality(L) \in Nat
      BY BlocksFinite
    <3>4. Cardinality(L \cup {b}) < RefcntMod
      BY <3>2, BlocksFinite
    <3>5. Cardinality(L \cup {b}) = Cardinality(L) + 1
      <4> HIDE DEF L
      <4> QED
        BY <3>2, <3>3, FS_AddElement
    <3>6. refcnt[d] # RefcntMod - 1
      <4> HIDE DEF L
      <4>1. refcnt[d] = Cardinality(L)
        BY <2>1, <2>2 DEF L
      <4> QED
        BY <3>3, <3>4, <3>5, <4>1, ShapeAssumption
    <3>7. refcnt'[d] = refcnt[d] + 1
      BY <1>5, <3>6 DEF Counted, IInv, TypeInv, TypeOK
    <3> QED
      BY <2>1, <2>2, <3>1, <3>5, <3>7
  <2>3. CASE e # d
    <3>1. live' \cap Blocks(page[e], onlist[e]) = live \cap Blocks(page[e], onlist[e])
      BY <1>5, <1>7, <2>3
    <3>2. refcnt'[e] = refcnt[e]
      BY <1>5, <2>3 DEF Counted, IInv, TypeInv, TypeOK
    <3> QED
      BY <2>1, <3>1, <3>2
  <2> QED
    BY <2>2, <2>3
<1>11. LiveBlocksFindable'
  <2>1. kmap[b[1]] = onlist[d]
    BY <1>3, <1>4, BlocksFacts DEF IInv, PageInv
  <2> QED
    BY <1>3, <1>4, <1>5, <1>6, <2>1 DEF IInv, LiveBlocksFindable
<1> QED
  BY <1>8, <1>9, <1>10, <1>11 DEF HeapInv

(* free() puts a block back at the head of the free list of its page. *)
LEMMA HeapPush ==
  ASSUME IInv, NEW c \in Ctx, FreePush(c), c = "main"
  PROVE  HeapInv'
<1>1. PICK d \in Desc : d = bdesc[c]
  BY DEF FreePush, At, IInv, TypeInv, Located
<1>2. PICK o \in Addr : o = obj[c] /\ o \in live
  BY DEF FreePush, At, IInv, TypeInv, Located, ContextInv
<1>3. Chained(d) /\ page[d] = o[1]
  BY <1>1, <1>2, Carriers DEF FreePush, At, IInv, ContextInv, Chained
<1>4. o \in Blocks(page[d], onlist[d])
  <2>1. PICK e \in Desc : Chained(e) /\ o \in Blocks(page[e], onlist[e])
    BY <1>2 DEF IInv, LiveBlocksFindable
  <2>2. e = d
    BY <1>3, <2>1, BlocksFacts DEF IInv, PageInv
  <2> QED
    BY <2>1, <2>2
<1>5. /\ word' = [word EXCEPT ![o] = freeptr[d]]
      /\ freeptr' = [freeptr EXCEPT ![d] = o]
      /\ refcnt' = [refcnt EXCEPT ![d] = IF refcnt[d] = 0 THEN RefcntMod - 1 ELSE refcnt[d] - 1]
      /\ live' = live \ {o}
      /\ UNCHANGED <<use, kmap, chain, freeDesc, page, next, onlist>>
  BY <1>1, <1>2 DEF FreePush
<1>6. \A e \in Desc : /\ Chained(e)' <=> Chained(e)
                      /\ Blocks(page[e], onlist[e])' = Blocks(page[e], onlist[e])
  BY <1>5 DEF Chained, Blocks
<1>7. \A e \in Desc : Chained(e) /\ e # d => o \notin Blocks(page[e], onlist[e])
  BY <1>3, <1>4, BlocksFacts DEF IInv, PageInv
<1>8. ChainInv' /\ PageInv'
  BY <1>5, <1>6, SMTT(30) DEF IInv, ChainInv, PageInv
<1>9. BlockInv'
  <2>1. FreeBlocks(d)' = FreeBlocks(d) \cup {o} /\ o \notin FreeBlocks(d)
    BY <1>2, <1>4, <1>5, <1>6 DEF FreeBlocks
  <2>2. \A e \in Desc : Chained(e) /\ e # d => FreeBlocks(e)' = FreeBlocks(e) /\ o \notin FreeBlocks(e)
    BY <1>5, <1>6, <1>7 DEF FreeBlocks
  <2>3. freeptr'[d] = o /\ \A e \in Desc : e # d => freeptr'[e] = freeptr[e]
    BY <1>5 DEF IInv, TypeInv, TypeOK
  <2>4. word'[o] = freeptr[d] /\ \A a \in Addr : a # o => word'[a] = word[a]
    BY <1>5 DEF IInv, TypeInv, TypeOK
  <2>5. \A e : FreeBlocks(e) \subseteq Addr
    BY BlocksFacts DEF FreeBlocks
  <2> SUFFICES ASSUME NEW e \in Desc, Chained(e)'
               PROVE  /\ freeptr'[e] # NULL => freeptr'[e] \in FreeBlocks(e)'
                      /\ \A a \in FreeBlocks(e)' : word'[a] # NULL =>
                           /\ word'[a] \in FreeBlocks(e)'
                           /\ word'[a] # freeptr'[e]
                      /\ \A x, y \in FreeBlocks(e)' : word'[x] # NULL /\ word'[x] = word'[y] => x = y
    BY DEF BlockInv
  <2>6. CASE e = d
    <3>1. /\ freeptr[d] # NULL => freeptr[d] \in FreeBlocks(d)
          /\ \A a \in FreeBlocks(d) : word[a] # NULL =>
               word[a] \in FreeBlocks(d) /\ word[a] # freeptr[d]
          /\ \A x, y \in FreeBlocks(d) : word[x] # NULL /\ word[x] = word[y] => x = y
      BY <1>3 DEF IInv, BlockInv
    <3>2. \A a \in FreeBlocks(d) : word'[a] = word[a]
      BY <2>1, <2>4, <2>5
    <3> QED
      BY <2>1, <2>3, <2>4, <2>6, <3>1, <3>2
  <2>7. CASE e # d
    <3>1. \A a \in FreeBlocks(e) : word'[a] = word[a]
      BY <1>6, <2>2, <2>4, <2>5, <2>7
    <3> QED
      BY <1>6, <2>2, <2>3, <2>7, <3>1 DEF IInv, BlockInv
  <2> QED
    BY <2>6, <2>7
<1>10. RefcntExact'
  <2> SUFFICES ASSUME NEW e \in Desc, Chained(e)
               PROVE  refcnt'[e] = Cardinality(live' \cap Blocks(page[e], onlist[e]))
    BY <1>5, <1>6 DEF RefcntExact
  <2>1. refcnt[e] = Cardinality(live \cap Blocks(page[e], onlist[e]))
    BY DEF IInv, RefcntExact
  <2>2. CASE e = d
    <3> DEFINE L == live \cap Blocks(page[d], onlist[d])
    <3>1. live' \cap Blocks(page[d], onlist[d]) = L \ {o}
      BY <1>5
    <3>2. o \in L
      BY <1>2, <1>4
    <3>3. IsFiniteSet(L) /\ Cardinality(L) \in Nat
      BY BlocksFinite
    <3>4. Cardinality(L \ {o}) = Cardinality(L) - 1 /\ Cardinality(L) # 0
      <4> HIDE DEF L
      <4> QED
        BY <3>2, <3>3, FS_RemoveElement, FS_EmptySet
    <3>5. refcnt'[d] = refcnt[d] - 1
      BY <1>5, <2>1, <2>2, <3>4 DEF IInv, TypeInv, TypeOK
    <3> QED
      BY <2>1, <2>2, <3>1, <3>4, <3>5
  <2>3. CASE e # d
    <3>1. live' \cap Blocks(page[e], onlist[e]) = live \cap Blocks(page[e], onlist[e])
      BY <1>5, <1>7, <2>3
    <3>2. refcnt'[e] = refcnt[e]
      BY <1>5, <2>3 DEF IInv, TypeInv, TypeOK
    <3> QED
      BY <2>1, <3>1, <3>2
  <2> QED
    BY <2>2, <2>3
<1>11. LiveBlocksFindable'
  BY <1>5, <1>6 DEF IInv, LiveBlocksFindable
<1> QED
  BY <1>8, <1>9, <1>10, <1>11 DEF HeapInv
(* An empty bucket leaves its chain; its page and its descriptor go back.  *)
LEMMA HeapUnlink ==
  ASSUME IInv, NEW c \in Ctx, FreeUnlink(c), c = "main"
  PROVE  HeapInv'
<1>1. PICK d \in Desc : d = bdesc[c]
  BY DEF FreeUnlink, At, IInv, TypeInv, Located
<1>2. PICK s \in Sizes : s = bdir[c]
  BY DEF FreeUnlink, At, IInv, TypeInv, Located
<1>3. onlist[d] = s /\ Chained(d) /\ refcnt[d] = 0
  BY <1>1, <1>2, Carriers DEF FreeUnlink, At, IInv, ContextInv, Chained
<1>4. UNCHANGED <<kmap, page, freeptr, refcnt, live>>
  BY DEF FreeUnlink
<1>5. CASE panic(c, "corrupted")
  <2>1. pc'[c] = "hang"
    BY <1>5 DEF panic, Goto, IInv, TypeInv, TypeOK
  <2>2. UNCHANGED <<use, chain, freeDesc, next, word, onlist>>
    BY <2>1 DEF FreeUnlink, Release, Return, Goto, IInv, TypeInv, TypeOK
  <2> QED
    BY <1>4, <2>2, HeapFrame DEF IInv, HeapInv, heap, desc
<1>6. PICK p \in Page : p = page[d] /\ use[p] = 1
  BY <1>3 DEF IInv, PageInv
<1>7. \A b \in live : b[1] # p
  <2>1. live \cap Blocks(page[d], onlist[d]) = {}
    <3> DEFINE L == live \cap Blocks(page[d], onlist[d])
    <3>1. Cardinality(L) = 0
      BY <1>3 DEF IInv, RefcntExact
    <3>2. IsFiniteSet(L)
      BY BlocksFinite
    <3> HIDE DEF L
    <3>3. L = {}
      BY <3>1, <3>2, FS_EmptySet
    <3> QED
      BY <3>3 DEF L
  <2> SUFFICES ASSUME NEW b \in live, b[1] = p PROVE FALSE
    OBVIOUS
  <2>2. PICK e \in Desc : Chained(e) /\ b \in Blocks(page[e], onlist[e])
    BY DEF IInv, LiveBlocksFindable
  <2>3. e = d
    BY <1>3, <1>6, <2>2, BlocksFacts DEF IInv, PageInv
  <2> QED
    BY <2>1, <2>2, <2>3
<1>8. ASSUME NEW nx,
             next' = [nx EXCEPT ![d] = freeDesc],
             free_page(page[d]),
             freeDesc' = d,
             onlist' = [onlist EXCEPT ![d] = 0],
             ChainInv'
      PROVE  HeapInv'
  <2>1. /\ use' = [use EXCEPT ![p] = 0]
        /\ word' = [a \in Addr |-> IF a[1] = p THEN NULL ELSE word[a]]
    BY <1>6, <1>8 DEF free_page
  <2>2. onlist'[d] = 0 /\ ~Chained(d)' /\ \A e \in Desc : e # d => onlist'[e] = onlist[e]
    BY <1>8, Carriers DEF Chained, IInv, TypeInv, TypeOK
  <2>3. \A e \in Desc : Chained(e)' <=> Chained(e) /\ e # d
    BY <2>2 DEF Chained
  <2>4. \A e \in Desc : Chained(e) /\ e # d => page[e] # p /\ onlist'[e] = onlist[e]
    BY <1>3, <1>6, <2>2 DEF IInv, PageInv
  <2>5. PageInv'
    <3>1. \A q \in Page : q # p => use'[q] = use[q]
      BY <2>1 DEF IInv, TypeInv, TypeOK
    <3>2. \A e \in Desc : onlist[e] # NULL => e[1] # p
      BY <1>3, <1>6 DEF IInv, PageInv
    <3>3. \A e \in Desc : onlist'[e] # NULL => use'[e[1]] = 1
      BY <1>3, <2>2, <3>1, <3>2, Carriers DEF IInv, PageInv
    <3>4. \A e \in Desc : Chained(e)' =>
            page'[e] \in Page /\ use'[page'[e]] = 1 /\ kmap'[page'[e]] = onlist'[e]
      BY <1>4, <2>3, <2>4, <3>1 DEF IInv, PageInv
    <3>5. \A e, x \in Desc : Chained(e)' /\ x[1] = page'[e] => onlist'[x] = NULL
      <4> SUFFICES ASSUME NEW e \in Desc, NEW x \in Desc, Chained(e)', x[1] = page'[e]
                   PROVE  onlist'[x] = NULL
        OBVIOUS
      <4>1. onlist[x] = NULL
        BY <1>4, <2>3 DEF IInv, PageInv
      <4>2. x # d
        BY <1>3, <4>1, Carriers
      <4> QED
        BY <2>2, <4>1, <4>2
    <3>6. \A e, x \in Desc : Chained(e)' /\ Chained(x)' /\ page'[e] = page'[x] => e = x
      BY <1>4, <2>3 DEF IInv, PageInv
    <3> QED
      BY <3>3, <3>4, <3>5, <3>6 DEF PageInv
  <2>6. BlockInv'
    <3>1. \A e \in Desc : Chained(e) /\ e # d =>
            /\ FreeBlocks(e)' = FreeBlocks(e)
            /\ \A a \in FreeBlocks(e) : word'[a] = word[a]
      <4> SUFFICES ASSUME NEW e \in Desc, Chained(e), e # d
                   PROVE  /\ FreeBlocks(e)' = FreeBlocks(e)
                          /\ \A a \in FreeBlocks(e) : word'[a] = word[a]
        OBVIOUS
      <4>1. FreeBlocks(e)' = FreeBlocks(e)
        BY <1>4, <2>4 DEF FreeBlocks, Blocks
      <4>2. \A a \in FreeBlocks(e) : a \in Addr /\ a[1] # p
        BY <2>4, BlocksFacts DEF FreeBlocks
      <4> QED
        BY <2>1, <4>1, <4>2
    <3> QED
      BY <1>4, <2>3, <3>1 DEF IInv, BlockInv
  <2>7. RefcntExact'
    BY <1>4, <2>3, <2>4 DEF IInv, RefcntExact, Blocks
  <2>8. LiveBlocksFindable'
    <3> SUFFICES ASSUME NEW b \in live
                 PROVE  \E e \in Desc : Chained(e)' /\ b \in Blocks(page[e], onlist[e])' /\ kmap[b[1]] = onlist'[e]
      BY <1>4 DEF LiveBlocksFindable
    <3>1. PICK e \in Desc : Chained(e) /\ b \in Blocks(page[e], onlist[e]) /\ kmap[b[1]] = onlist[e]
      BY DEF IInv, LiveBlocksFindable
    <3>2. e # d
      BY <1>6, <1>7, <3>1, BlocksFacts
    <3> QED
      BY <1>4, <2>3, <2>4, <3>1, <3>2 DEF Blocks
  <2> QED
    BY <1>8, <2>5, <2>6, <2>7, <2>8 DEF HeapInv
<1>9. CASE /\ prev[c] # NULL
           /\ next[prev[c]] = d
           /\ Release(c, d, [next EXCEPT ![prev[c]] = next[d]])
           /\ UNCHANGED chain
  <2>1. PICK v \in Desc : v = prev[c] /\ onlist[v] = s /\ next[v] = d
    BY <1>2, <1>9 DEF FreeUnlink, At, IInv, ContextInv, TypeInv, TypeOK
  <2>2. /\ next' = [[next EXCEPT ![v] = next[d]] EXCEPT ![d] = freeDesc]
        /\ freeDesc' = d
        /\ onlist' = [onlist EXCEPT ![d] = 0]
        /\ free_page(page[d])
    BY <1>9, <2>1 DEF Release, Relinked
  <2>3. /\ next'[d] = freeDesc
        /\ v # d => next'[v] = next[d]
        /\ \A e \in Desc : e # d /\ e # v => next'[e] = next[e]
        /\ onlist'[d] = 0
        /\ \A e \in Desc : e # d => onlist'[e] = onlist[e]
    BY <2>1, <2>2 DEF IInv, TypeInv, TypeOK
  <2>4. \A e \in Desc : onlist[e] = s /\ next[e] = d => e = v
    BY <1>3, <2>1, Carriers DEF IInv, ChainInv
  <2>5. chain[s] # d
    BY <1>3, <2>1, Carriers DEF IInv, ChainInv
  <2>6. ChainInv'
    <3>1. \A t \in Sizes : chain'[t] # NULL => onlist'[chain'[t]] = t
      <4> SUFFICES ASSUME NEW t \in Sizes, chain[t] # NULL PROVE onlist'[chain[t]] = t
        BY <1>9
      <4>1. chain[t] \in Desc /\ onlist[chain[t]] = t
        BY DEF IInv, ChainInv, TypeInv, TypeOK
      <4>2. chain[t] # d
        BY <1>3, <2>5, <4>1
      <4> QED
        BY <2>3, <4>1, <4>2
    <3>2. freeDesc' # NULL => onlist'[freeDesc'] = 0
      BY <2>2, <2>3
    <3>3. ASSUME NEW e \in Desc, onlist'[e] # NULL, next'[e] # NULL
          PROVE  /\ onlist'[next'[e]] = onlist'[e]
                 /\ onlist'[e] \in Sizes => next'[e] # chain'[onlist'[e]]
                 /\ onlist'[e] = 0 => next'[e] # freeDesc'
      <4>1. CASE e = d
        BY <1>3, <2>2, <2>3, <3>3, <4>1, Carriers, ZenonT(60) DEF IInv, ChainInv, TypeInv, TypeOK
      <4>2. CASE e # d /\ e = v
        <5>1. next[d] # NULL /\ next[d] \in Desc /\ next'[e] = next[d] /\ onlist'[e] = s
          BY <2>1, <2>3, <3>3, <4>2 DEF IInv, TypeInv, TypeOK
        <5>2. onlist[next[d]] = s /\ next[d] # chain[s] /\ next[d] # d
          BY <1>3, <2>4, <4>2, <5>1, Carriers DEF IInv, ChainInv
        <5> QED
          BY <1>9, <2>3, <5>1, <5>2, Carriers
      <4>3. CASE e # d /\ e # v
        <5>1. /\ onlist[e] # NULL /\ next[e] # NULL /\ next[e] \in Desc
              /\ next'[e] = next[e] /\ onlist'[e] = onlist[e]
          BY <2>3, <3>3, <4>3 DEF IInv, TypeInv, TypeOK
        <5>2. /\ onlist[next[e]] = onlist[e]
              /\ onlist[e] \in Sizes => next[e] # chain[onlist[e]]
          BY <5>1 DEF IInv, ChainInv
        <5>3. next[e] # d
          BY <1>3, <2>4, <4>3, <5>2
        <5> QED
          BY <1>9, <2>2, <2>3, <5>1, <5>2, <5>3
      <4> QED
        BY <4>1, <4>2, <4>3
    <3>4. ASSUME NEW e \in Desc, NEW x \in Desc,
                 onlist'[e] # NULL, onlist'[e] = onlist'[x], next'[e] # NULL, next'[e] = next'[x]
          PROVE  e = x
      <4>1. ASSUME NEW y \in Desc, y # d, onlist'[y] = 0, next'[y] # NULL
            PROVE  next'[y] # freeDesc
        BY <1>3, <2>1, <2>3, <4>1, Carriers, SMTT(30) DEF IInv, ChainInv
      <4>2. ASSUME NEW y \in Desc, y # d, y # v, onlist[y] = s, next[y] # NULL
            PROVE  next[y] # next[d]
        BY <1>3, <4>2, Carriers DEF IInv, ChainInv
      <4>3. CASE e = d \/ x = d
        BY <2>3, <3>4, <4>1, <4>3
      <4>4. CASE e # d /\ x # d /\ (e = v \/ x = v)
        BY <2>1, <2>3, <3>4, <4>2, <4>4
      <4>5. CASE e # d /\ x # d /\ e # v /\ x # v
        BY <2>3, <3>4, <4>5 DEF IInv, ChainInv
      <4> QED
        BY <4>3, <4>4, <4>5
    <3> QED
      BY <3>1, <3>2, <3>3, <3>4 DEF ChainInv
  <2> QED
    BY <1>8, <2>2, <2>6
<1>10. CASE /\ chain[bdir[c]] = d
            /\ chain' = [chain EXCEPT ![bdir[c]] = next[d]]
            /\ Release(c, d, next)
  <2>1. /\ next' = [next EXCEPT ![d] = freeDesc]
        /\ freeDesc' = d
        /\ onlist' = [onlist EXCEPT ![d] = 0]
        /\ free_page(page[d])
    BY <1>10 DEF Release, Relinked
  <2>2. /\ next'[d] = freeDesc
        /\ \A e \in Desc : e # d => next'[e] = next[e] /\ onlist'[e] = onlist[e]
        /\ onlist'[d] = 0
        /\ chain'[s] = next[d]
        /\ chain[s] = d
        /\ \A t \in Sizes : t # s => chain'[t] = chain[t]
    BY <1>2, <1>10, <2>1 DEF IInv, TypeInv, TypeOK
  <2>3. \A e \in Desc : onlist[e] = s /\ next[e] # NULL => next[e] # d
    BY <1>3, <2>2, Carriers DEF IInv, ChainInv
  <2>4. ChainInv'
    <3>1. \A t \in Sizes : chain'[t] # NULL => onlist'[chain'[t]] = t
      <4> SUFFICES ASSUME NEW t \in Sizes, chain'[t] # NULL PROVE onlist'[chain'[t]] = t
        OBVIOUS
      <4>1. CASE t = s
        <5>1. next[d] \in Desc /\ next[d] # NULL /\ chain'[t] = next[d]
          BY <1>3, <2>2, <4>1 DEF IInv, TypeInv, TypeOK
        <5>2. onlist[next[d]] = s /\ next[d] # d
          BY <1>3, <2>3, <5>1, Carriers DEF IInv, ChainInv
        <5> QED
          BY <2>2, <4>1, <5>1, <5>2
      <4>2. CASE t # s
        <5>1. chain'[t] = chain[t] /\ chain[t] \in Desc /\ onlist[chain[t]] = t
          BY <2>2, <4>2 DEF IInv, ChainInv, TypeInv, TypeOK
        <5>2. chain[t] # d
          BY <1>3, <4>2, <5>1
        <5> QED
          BY <2>2, <5>1, <5>2
      <4> QED
        BY <4>1, <4>2
    <3>2. freeDesc' # NULL => onlist'[freeDesc'] = 0
      BY <2>1, <2>2
    <3>3. ASSUME NEW e \in Desc, onlist'[e] # NULL, next'[e] # NULL
          PROVE  /\ onlist'[next'[e]] = onlist'[e]
                 /\ onlist'[e] \in Sizes => next'[e] # chain'[onlist'[e]]
                 /\ onlist'[e] = 0 => next'[e] # freeDesc'
      <4>1. CASE e = d
        BY <1>3, <2>1, <2>2, <3>3, <4>1, Carriers, ZenonT(60) DEF IInv, ChainInv, TypeInv, TypeOK
      <4>2. CASE e # d
        <5>1. /\ onlist[e] # NULL /\ next[e] # NULL /\ next[e] \in Desc
              /\ next'[e] = next[e] /\ onlist'[e] = onlist[e]
          BY <2>2, <3>3, <4>2 DEF IInv, TypeInv, TypeOK
        <5>2. /\ onlist[next[e]] = onlist[e]
              /\ onlist[e] \in Sizes => next[e] # chain[onlist[e]]
              /\ onlist[e] = s => next[e] # next[d]
          BY <1>3, <4>2, <5>1, Carriers DEF IInv, ChainInv
        <5>3. next[e] # d
          BY <1>3, <2>3, <5>1, <5>2
        <5> QED
          BY <2>1, <2>2, <5>1, <5>2, <5>3
      <4> QED
        BY <4>1, <4>2
    <3>4. ASSUME NEW e \in Desc, NEW x \in Desc,
                 onlist'[e] # NULL, onlist'[e] = onlist'[x], next'[e] # NULL, next'[e] = next'[x]
          PROVE  e = x
      <4>1. ASSUME NEW y \in Desc, y # d, onlist'[y] = 0, next'[y] # NULL
            PROVE  next'[y] # freeDesc
        BY <2>2, <4>1, Carriers DEF IInv, ChainInv
      <4>2. CASE e = d \/ x = d
        BY <2>2, <3>4, <4>1, <4>2
      <4>3. CASE e # d /\ x # d
        BY <2>2, <3>4, <4>3 DEF IInv, ChainInv
      <4> QED
        BY <4>2, <4>3
    <3> QED
      BY <3>1, <3>2, <3>3, <3>4 DEF ChainInv
  <2> QED
    BY <1>8, <2>1, <2>4
<1> QED
  BY <1>1, <1>5, <1>9, <1>10 DEF FreeUnlink

(* The owner of a block writes to no free block. *)
LEMMA HeapWrite ==
  ASSUME IInv, NEW c \in Ctx, NEW b \in live, NEW w \in UserWords, Write(c, b, w)
  PROVE  HeapInv'
<1>1. /\ UNCHANGED <<use, kmap, chain, freeDesc, page, next, freeptr, refcnt, live, onlist>>
      /\ word' = [word EXCEPT ![b] = w]
  BY DEF Write, desc, history
<1>2. ChainInv' /\ PageInv'
  BY <1>1 DEF IInv, ChainInv, PageInv, Chained
<1>3. RefcntExact' /\ LiveBlocksFindable'
  BY <1>1 DEF IInv, RefcntExact, LiveBlocksFindable, Chained, Blocks
<1>4. BlockInv'
  <2>1. \A d \in Desc : /\ Chained(d)' <=> Chained(d)
                        /\ FreeBlocks(d)' = FreeBlocks(d)
    BY <1>1 DEF Chained, FreeBlocks, Blocks
  <2>2. \A d \in Desc : \A a \in FreeBlocks(d) : word'[a] = word[a]
    BY <1>1, BlocksFacts, ZenonT(60) DEF FreeBlocks, IInv, TypeInv, TypeOK
  <2> QED
    BY <1>1, <2>1, <2>2 DEF IInv, BlockInv
<1> QED
  BY <1>2, <1>3, <1>4 DEF HeapInv
=============================================================================
