---------------------------- MODULE MallocProofs ----------------------------
(***************************************************************************)
(* Proofs about Malloc, for every number of pages, page size, set of       *)
(* bucket sizes and set of client lengths.                                 *)
(***************************************************************************)
EXTENDS MallocInv, TLAPS

(* Facts about the carriers, so that the proofs below need not expand them. *)
LEMMA Carriers ==
  /\ Addr \subseteq Word
  /\ NULL \in Word
  /\ NULL \notin Addr
  /\ NULL \notin Desc
  /\ NULL \notin Page
  /\ NULL \notin Sizes
  /\ 0 \notin Sizes
  /\ NULL # 0
  /\ Sizes \subseteq Nat
  /\ \A p \in Page : <<p, 1>> \in Desc /\ <<p, 0>> \in Addr
  /\ \A d \in Desc : d[1] \in Page /\ d[2] \in Nat \ {0}
  /\ \A d \in Desc : d[2] < DescPerPage => <<d[1], d[2] + 1>> \in Desc
  /\ \A a \in Addr : a[1] \in Page /\ a[2] \in Nat
  /\ \A a \in Addr, s \in Sizes : a[2] + s < PageSize => <<a[1], a[2] + s>> \in Addr
<1>1. /\ PagingPages \in Nat
      /\ PageSize \in Nat \ {0}
      /\ DescPerPage \in Nat \ {0}
      /\ Sizes \subseteq 1 .. PageSize
  BY ShapeAssumption
<1>0. Sizes \subseteq Nat
  BY <1>1
<1>2. Page \subseteq Nat
  BY <1>1 DEF Page
<1>3. /\ \A p \in Page : <<p, 1>> \in Desc /\ <<p, 0>> \in Addr
      /\ \A d \in Desc : d[1] \in Page /\ d[2] \in Nat \ {0}
      /\ \A d \in Desc : d[2] < DescPerPage => <<d[1], d[2] + 1>> \in Desc
      /\ \A a \in Addr : a[1] \in Page /\ a[2] \in Nat
  BY <1>1 DEF Addr, Desc
<1>4. \A a \in Addr, s \in Sizes : a[2] + s < PageSize => <<a[1], a[2] + s>> \in Addr
  BY <1>1 DEF Addr
<1>5. /\ NULL \notin Addr
      /\ NULL \notin Desc
      /\ NULL \notin Page
      /\ NULL \notin Sizes
      /\ NULL # 0
  <2>1. NULL \notin Nat
    BY NullAssumption
  <2>2. NULL # 0
    BY <2>1
  <2>3. NULL \notin Sizes
    BY <1>0, <2>1
  <2>4. NULL \notin Addr
    BY NullAssumption
  <2>5. NULL \notin Desc /\ NULL \notin Page
    BY NullAssumption
  <2> QED
    BY <2>2, <2>3, <2>4, <2>5
<1>6. 0 \notin Sizes /\ Sizes \subseteq Nat
  BY <1>1
<1> QED
  BY <1>3, <1>4, <1>5, <1>6 DEF Word

(* A context that returns or panics leaves its locals well typed. *)
LEMMA TypeReturn ==
  ASSUME TypeOK, NEW c \in Ctx, Return(c)
  PROVE  /\ pc' \in [Ctx -> Labels]
         /\ bdir' \in [Ctx -> Sizes \cup {0}]
         /\ bdesc' \in [Ctx -> Desc \cup {NULL}]
         /\ prev' \in [Ctx -> Desc \cup {NULL}]
         /\ obj' \in [Ctx -> Addr \cup {NULL}]
         /\ cur' \in [Ctx -> Word]
         /\ why' = why
         /\ Located => Located'
<1>1. pc' \in [Ctx -> Labels]
  BY DEF Return, Goto, TypeOK, Labels
<1>2. /\ bdir' \in [Ctx -> Sizes \cup {0}]
      /\ bdesc' \in [Ctx -> Desc \cup {NULL}]
      /\ prev' \in [Ctx -> Desc \cup {NULL}]
      /\ obj' \in [Ctx -> Addr \cup {NULL}]
      /\ why' = why
  BY DEF Return, SetLocals, TypeOK
<1>3. cur' \in [Ctx -> Word]
  BY Carriers DEF Return, SetLocals, TypeOK
<1>4. Located => Located'
  BY DEF Return, Goto, SetLocals, TypeOK, Located
<1> QED
  BY <1>1, <1>2, <1>3, <1>4

LEMMA TypeMalloc ==
  ASSUME TypeInv, NEW c \in Ctx, Malloc(c)
  PROVE  TypeInv'
<1> USE DEF TypeInv
<1>1. ASSUME NEW len \in Lens[c], MallocTooLong(c, len) PROVE TypeInv'
  BY <1>1, ShapeAssumption DEF MallocTooLong, Enter, TypeOK, Located, heap, desc, locals, history
<1>2. ASSUME NEW len \in Lens[c], MallocCall(c, len) PROVE TypeInv'
  <2>1. masked' \in BOOLEAN
    BY <1>2 DEF MallocCall, local_irq_save, TypeOK
  <2>2. irqs' \in 0 .. MaxIrqs
    BY <1>2, ShapeAssumption DEF MallocCall, Enter, TypeOK
  <2>3. PICK s \in Sizes : SetLocals(c, s, chain[s], NULL)
    BY <1>2 DEF MallocCall
  <2>4. Goto(c, "bucket") /\ UNCHANGED <<heap, why, history>>
    BY <1>2 DEF MallocCall
  <2> QED
    BY <2>1, <2>2, <2>3, <2>4, Carriers
    DEF SetLocals, Goto, TypeOK, Located, heap, desc, history, Labels
<1>3. CASE MallocSkip(c)
  BY <1>3, Carriers DEF MallocSkip, At, TypeOK, Located, heap, desc, locals, history
<1>4. CASE init_bucket_desc(c)
  <2>1. /\ UNCHANGED <<irqs, kmap, chain, page, freeptr, refcnt, word, masked,
                       live, dangling, locals>>
        /\ pc[c] = "bucket"
    BY <1>4 DEF init_bucket_desc, At, panic
  <2>2. CASE NoFreePage
    <3>1. panic(c, "oom_desc") /\ UNCHANGED <<use, next, freeDesc, onlist>>
      BY <1>4, <2>2 DEF init_bucket_desc, NoFreePage, FirstFree
    <3> QED
      BY <2>1, <3>1 DEF panic, Goto, TypeOK, Located, locals, Labels, Panics
  <2>3. CASE ~NoFreePage
    <3>1. PICK p \in Page :
            /\ FirstFree(p)
            /\ use' = [use EXCEPT ![p] = @ + 1]
            /\ next' = [d \in Desc |->
                 IF d[1] # p THEN next[d]
                 ELSE IF d[2] < DescPerPage THEN <<p, d[2] + 1>> ELSE freeDesc]
            /\ freeDesc' = <<p, 1>>
            /\ onlist' = [d \in Desc |-> IF d[1] = p THEN 0 ELSE onlist[d]]
            /\ UNCHANGED <<pc, why>>
      BY <1>4, <2>3 DEF init_bucket_desc
    <3>2. use' \in [Page -> 0 .. 1]
      BY <3>1 DEF FirstFree, TypeOK
    <3>3. next' \in [Desc -> Desc \cup {NULL}]
      BY <3>1, Carriers DEF TypeOK
    <3>4. freeDesc' \in Desc \cup {NULL} /\ onlist' \in [Desc -> Sizes \cup {0, NULL}]
      BY <3>1, Carriers DEF TypeOK
    <3> QED
      BY <2>1, <3>1, <3>2, <3>3, <3>4 DEF TypeOK, Located, locals
  <2> QED
    BY <2>2, <2>3
<1>5. CASE MallocNewBucket(c)
  <2>1. /\ UNCHANGED <<irqs, masked, live, dangling, bdir, prev, obj, cur>>
        /\ pc[c] = "bucket"
        /\ freeDesc \in Desc
        /\ bdir[c] \in Sizes
    BY <1>5 DEF MallocNewBucket, At, panic, locals, TypeOK, Located
  <2>2. /\ freeDesc' \in Desc \cup {NULL}
        /\ refcnt' \in [Desc -> UShort]
    BY <1>5, <2>1, ShapeAssumption DEF MallocNewBucket, TypeOK, UShort
  <2>3. CASE NoFreePage
    <3>0. panic(c, "oom_malloc")
      BY <1>5, <2>3 DEF MallocNewBucket, NoFreePage, FirstFree
    <3>1. /\ page' \in [Desc -> Page \cup {NULL}]
          /\ freeptr' \in [Desc -> Word]
          /\ onlist' \in [Desc -> Sizes \cup {0, NULL}]
          /\ UNCHANGED <<use, kmap, chain, next, word, bdesc>>
      BY <1>5, <2>1, <2>3, <3>0, Carriers DEF MallocNewBucket, NoFreePage, FirstFree, panic, locals, TypeOK
    <3> QED
      BY <2>1, <2>2, <3>0, <3>1 DEF panic, Goto, TypeOK, Located, Labels, Panics
  <2>4. CASE ~NoFreePage
    <3>1. PICK p \in Page :
        /\ FirstFree(p)
        /\ use' = [use EXCEPT ![p] = @ + 1]
        /\ page' = [page EXCEPT ![freeDesc] = p]
        /\ freeptr' = [freeptr EXCEPT ![freeDesc] = <<p, 0>>]
        /\ word' = Threaded(p, bdir[c])
        /\ next' = [next EXCEPT ![freeDesc] = chain[bdir[c]]]
        /\ chain' = [chain EXCEPT ![bdir[c]] = freeDesc]
        /\ kmap' = SizeRecorded(p, bdir[c])
        /\ onlist' = [onlist EXCEPT ![freeDesc] = bdir[c]]
        /\ bdesc' = [bdesc EXCEPT ![c] = freeDesc]
        /\ UNCHANGED <<pc, why>>
      BY <1>5, <2>4 DEF MallocNewBucket
    <3>2. use' \in [Page -> 0 .. 1]
      BY <3>1 DEF FirstFree, TypeOK
    <3>3. word' \in [Addr -> Word]
      BY <2>1, <3>1, Carriers DEF Threaded, Blocks, TypeOK
    <3>4. /\ page' \in [Desc -> Page \cup {NULL}]
          /\ freeptr' \in [Desc -> Word]
          /\ next' \in [Desc -> Desc \cup {NULL}]
      BY <2>1, <3>1, Carriers DEF TypeOK
    <3>5. /\ chain' \in [Sizes -> Desc \cup {NULL}]
          /\ kmap' \in [Page -> Sizes \cup {0}]
          /\ onlist' \in [Desc -> Sizes \cup {0, NULL}]
          /\ bdesc' \in [Ctx -> Desc \cup {NULL}]
      BY <2>1, <3>1 DEF TypeOK, SizeRecorded
    <3>6. Located'
      BY <2>1, <3>1 DEF TypeOK, Located
    <3> QED
      BY <2>1, <2>2, <3>1, <3>2, <3>3, <3>4, <3>5, <3>6 DEF TypeOK
  <2> QED
    BY <2>3, <2>4
<1>6. CASE MallocTake(c)
  <2> DEFINE d == bdesc[c]
             b == freeptr[d]
  <2>1. /\ UNCHANGED <<irqs, use, kmap, chain, freeDesc, page, next, word, onlist>>
        /\ pc[c] = "bucket"
        /\ d \in Desc
    BY <1>6 DEF MallocTake, At, TypeOK
  <2>2. CASE b \in Addr
    <3>1. /\ freeptr' = [freeptr EXCEPT ![d] = word[b]]
          /\ refcnt' = Counted(d)
          /\ live' = live \cup {b}
          /\ dangling' = IF b = dangling THEN NULL ELSE dangling
          /\ local_irq_restore(c)
          /\ Return(c)
      BY <1>6, <2>2 DEF MallocTake, NewHead
    <3>2. freeptr' \in [Desc -> Word] /\ live' \subseteq Addr /\ dangling' \in Addr \cup {NULL}
      BY <2>1, <2>2, <3>1 DEF TypeOK
    <3>3. refcnt' \in [Desc -> UShort]
      BY <2>1, <3>1, ShapeAssumption DEF TypeOK, UShort, Counted
    <3>4. masked' \in BOOLEAN
      BY <3>1 DEF local_irq_restore, TypeOK
    <3> QED
      BY <2>1, <3>1, <3>2, <3>3, <3>4, TypeReturn DEF TypeOK
  <2>3. CASE b \notin Addr
    BY <1>6, <2>1, <2>3 DEF MallocTake, panic, Goto, locals, TypeOK, Located, Labels, Panics
  <2> QED
    BY <2>2, <2>3
<1> QED
  BY <1>1, <1>2, <1>3, <1>4, <1>5, <1>6 DEF Malloc

LEMMA TypeFree ==
  ASSUME TypeInv, NEW c \in Ctx, Free(c)
  PROVE  TypeInv'
<1> USE DEF TypeInv
<1>1. ASSUME NEW o \in Freeable(c), FreeCall(c, o) PROVE TypeInv'
  <2>1. o \in Addr
    BY <1>1 DEF Freeable, TypeOK
  <2>2. o[1] \in Page
    BY <2>1, Carriers
  <2>3. irqs' \in 0 .. MaxIrqs /\ UNCHANGED <<heap, masked, history>>
    BY <1>1, ShapeAssumption DEF FreeCall, Enter, TypeOK
  <2>4. CASE panic(c, "unalign")
    BY <2>3, <2>4 DEF panic, Goto, heap, desc, locals, history, TypeOK, Located, Labels, Panics
  <2>5. CASE /\ kmap[o[1]] # 0
             /\ SetLocals(c, kmap[o[1]], chain[kmap[o[1]]], o)
             /\ Goto(c, "search")
             /\ UNCHANGED why
    BY <2>1, <2>2, <2>3, <2>5, Carriers
    DEF SetLocals, Goto, heap, desc, history, TypeOK, Located, Labels
  <2> QED
    BY <1>1, <2>4, <2>5 DEF FreeCall
<1>2. CASE FreeSearch(c)
  <2>1. /\ UNCHANGED <<irqs, heap, masked, bdir, obj, why, history>>
        /\ pc[c] = "search"
        /\ bdesc[c] \in Desc
        /\ freeptr[bdesc[c]] \in Word
        /\ next[bdesc[c]] \in Desc \cup {NULL}
    BY <1>2 DEF FreeSearch, At, TypeOK
  <2>2. CASE \E l \in {"push", "walk"} : /\ cur' = [cur EXCEPT ![c] = freeptr[bdesc[c]]]
                                         /\ Goto(c, l)
                                         /\ UNCHANGED <<bdesc, prev>>
    BY <2>1, <2>2 DEF Goto, heap, desc, history, TypeOK, Located, Labels
  <2>3. CASE /\ prev' = [prev EXCEPT ![c] = bdesc[c]]
             /\ bdesc' = [bdesc EXCEPT ![c] = next[bdesc[c]]]
             /\ UNCHANGED <<cur, pc>>
    BY <2>1, <2>3 DEF heap, desc, history, TypeOK, Located
  <2> QED
    BY <1>2, <2>2, <2>3 DEF FreeSearch
<1>3. CASE FreeNextBucket(c)
  <2>1. CASE panic(c, "bad_addr")
    BY <1>3, <2>1
    DEF FreeNextBucket, At, panic, Goto, heap, desc, locals, history, TypeOK, Located, Labels, Panics
  <2>2. CASE \E s \in Sizes : SetLocals(c, s, chain[s], obj[c]) /\ UNCHANGED <<pc, why>>
    BY <1>3, <2>2, Carriers
    DEF FreeNextBucket, At, SetLocals, heap, desc, history, TypeOK, Located
  <2> QED
    BY <1>3, <2>1, <2>2 DEF FreeNextBucket
<1>4. CASE FreeWalk(c)
  <2>1. UNCHANGED <<irqs, heap, masked, history>> /\ pc[c] = "walk"
    BY <1>4 DEF FreeWalk, At
  <2>2. CASE \E m \in {"wild", "repeat"} : panic(c, m)
    BY <2>1, <2>2 DEF panic, Goto, heap, desc, locals, history, TypeOK, Located, Labels, Panics
  <2>3. CASE Goto(c, "push") /\ UNCHANGED <<locals, why>>
    BY <2>1, <2>3 DEF Goto, heap, desc, locals, history, TypeOK, Located, Labels
  <2>4. CASE /\ cur[c] \in Addr
             /\ cur' = [cur EXCEPT ![c] = LinkAfter(cur[c])]
             /\ UNCHANGED <<pc, bdir, bdesc, prev, obj, why>>
    BY <2>1, <2>4 DEF LinkAfter, heap, desc, history, TypeOK, Located
  <2> QED
    BY <1>4, <2>2, <2>3, <2>4 DEF FreeWalk
<1>5. CASE FreePush(c)
  <2> DEFINE d == bdesc[c]
             n == IF refcnt[d] = 0 THEN RefcntMod - 1 ELSE refcnt[d] - 1
  <2>1. /\ d \in Desc
        /\ obj[c] \in Addr
        /\ bdir[c] \in Sizes
        /\ pc[c] = "push"
        /\ UNCHANGED <<irqs, use, kmap, chain, freeDesc, page, next, onlist>>
    BY <1>5 DEF FreePush, At, Located
  <2>2. /\ word' = [word EXCEPT ![obj[c]] = freeptr[d]]
        /\ freeptr' = [freeptr EXCEPT ![d] = obj[c]]
        /\ refcnt' = [refcnt EXCEPT ![d] = n]
        /\ live' = live \ {obj[c]}
        /\ dangling' = IF c = "main" THEN obj[c] ELSE dangling
    BY <1>5 DEF FreePush
  <2>3. /\ word' \in [Addr -> Word]
        /\ freeptr' \in [Desc -> Word]
        /\ live' \subseteq Addr
        /\ dangling' \in Addr \cup {NULL}
    BY <2>1, <2>2, Carriers DEF TypeOK
  <2>4. refcnt' \in [Desc -> UShort]
    BY <2>1, <2>2, ShapeAssumption DEF TypeOK, UShort
  <2>5. CASE LastBlock(n)
    <3>1. /\ prev' = [prev EXCEPT ![c] = IF PrevStale(c) THEN chain[bdir[c]] ELSE prev[c]]
          /\ Goto(c, "unlink")
          /\ local_irq_save(c)
          /\ UNCHANGED <<bdir, bdesc, obj, cur, why>>
      BY <1>5, <2>5 DEF FreePush
    <3>2. prev' \in [Ctx -> Desc \cup {NULL}]
      BY <2>1, <3>1 DEF TypeOK
    <3>3. masked' \in BOOLEAN
      BY <3>1 DEF local_irq_save, TypeOK
    <3>4. pc' \in [Ctx -> Labels] /\ Located'
      BY <2>1, <3>1 DEF Goto, TypeOK, Located, Labels
    <3> QED
      BY <2>1, <2>3, <2>4, <3>1, <3>2, <3>3, <3>4 DEF TypeOK
  <2>6. CASE ~LastBlock(n)
    <3>1. Return(c) /\ UNCHANGED masked
      BY <1>5, <2>6 DEF FreePush
    <3> QED
      BY <2>1, <2>3, <2>4, <3>1, TypeReturn DEF TypeOK
  <2> QED
    BY <2>5, <2>6
<1>6. CASE FreeRescan(c)
  BY <1>6 DEF FreeRescan, At, heap, desc, history, TypeOK, Located
<1>7. CASE FreeUnlink(c)
  <2> DEFINE d == bdesc[c]
  <2>1. /\ d \in Desc
        /\ bdir[c] \in Sizes
        /\ UNCHANGED <<irqs, kmap, page, freeptr, refcnt, live, dangling>>
    BY <1>7 DEF FreeUnlink, At, Located
  <2>2. ASSUME NEW nx \in [Desc -> Desc \cup {NULL}],
               Release(c, d, nx),
               chain' \in [Sizes -> Desc \cup {NULL}]
        PROVE  TypeInv'
    <3>1. use' \in [Page -> 0 .. 1] /\ word' \in [Addr -> Word]
      <4>1. CASE UNCHANGED <<use, word>>
        BY <4>1 DEF TypeOK
      <4>2. CASE /\ page[d] \in Page
                 /\ use' = [use EXCEPT ![page[d]] = 0]
                 /\ word' = [a \in Addr |-> IF a[1] = page[d] THEN NULL ELSE word[a]]
        <5>1. use' \in [Page -> 0 .. 1]
          BY <4>2 DEF TypeOK
        <5>2. word' \in [Addr -> Word]
          BY <4>2, Carriers DEF TypeOK
        <5> QED
          BY <5>1, <5>2
      <4> QED
        BY <2>2, <4>1, <4>2 DEF Release, free_page
    <3>2. /\ next' \in [Desc -> Desc \cup {NULL}]
          /\ freeDesc' \in Desc \cup {NULL}
          /\ onlist' \in [Desc -> Sizes \cup {0, NULL}]
      BY <2>1, <2>2 DEF Release, Relinked, TypeOK
    <3>3. masked' \in BOOLEAN /\ Return(c)
      BY <2>2 DEF Release, local_irq_restore, TypeOK
    <3> QED
      BY <2>1, <2>2, <3>1, <3>2, <3>3, TypeReturn DEF TypeOK
  <2>3. CASE /\ prev[c] # NULL
             /\ Release(c, d, [next EXCEPT ![prev[c]] = next[d]])
             /\ UNCHANGED chain
    <3>1. [next EXCEPT ![prev[c]] = next[d]] \in [Desc -> Desc \cup {NULL}]
      BY <2>1 DEF TypeOK
    <3> QED
      BY <2>2, <2>3, <3>1 DEF TypeOK
  <2>4. CASE /\ chain' = [chain EXCEPT ![bdir[c]] = next[d]]
             /\ Release(c, d, next)
    <3>1. chain' \in [Sizes -> Desc \cup {NULL}] /\ next \in [Desc -> Desc \cup {NULL}]
      BY <2>1, <2>4 DEF TypeOK
    <3> QED
      BY <2>2, <2>4, <3>1
  <2>5. CASE /\ panic(c, "corrupted")
             /\ UNCHANGED <<use, chain, freeDesc, next, word, masked, onlist>>
    BY <2>1, <2>5 DEF panic, Goto, locals, TypeOK, Located, Labels, Panics
  <2> QED
    BY <1>7, <2>3, <2>4, <2>5 DEF FreeUnlink
<1> QED
  BY <1>1, <1>2, <1>3, <1>4, <1>5, <1>6, <1>7 DEF Free, FreeFind

(* The words a client stores are words. *)
LEMMA TypeWrite ==
  ASSUME TypeInv, NEW c \in Ctx, NEW b \in live \ Pending, NEW w \in UserWords, Write(c, b, w)
  PROVE  TypeInv'
<1>1. word' \in [Addr -> Word]
  BY DEF Write, TypeInv, TypeOK, Word
<1> QED
  BY <1>1 DEF Write, desc, locals, history, TypeInv, TypeOK, Located

LEMMA TypeInit == Init => TypeInv
<1> SUFFICES ASSUME Init PROVE TypeInv
  OBVIOUS
<1>1. /\ use \in [Page -> 0 .. 1]
      /\ refcnt \in [Desc -> UShort]
      /\ irqs \in 0 .. MaxIrqs
  BY ShapeAssumption DEF Init, UShort
<1> QED
  BY <1>1, Carriers DEF Init, TypeInv, TypeOK, Located, Labels, Panics

(* TypeOK holds throughout, whatever the clients and the handlers do: the  *)
(* counters stay in their width, every link of a chain is a descriptor or  *)
(* NULL, and every local of malloc() and free() points at what its type    *)
(* says.                                                                   *)
THEOREM TypeCorrect == Spec => []TypeOK
<1>1. Init => TypeInv
  BY TypeInit
<1>2. TypeInv /\ [Next]_vars => TypeInv'
  <2> SUFFICES ASSUME TypeInv, [Next]_vars PROVE TypeInv'
    OBVIOUS
  <2>1. CASE Next
    BY <2>1, TypeMalloc, TypeFree, TypeWrite DEF Next
  <2>2. CASE UNCHANGED vars
    BY <2>2 DEF vars, heap, desc, locals, history, TypeInv, TypeOK, Located
  <2> QED
    BY <2>1, <2>2
<1>3. TypeInv => TypeOK
  BY DEF TypeInv
<1> QED
  BY <1>1, <1>2, <1>3, PTL DEF Spec
=============================================================================
