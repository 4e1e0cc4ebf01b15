--------------------------- MODULE MallocInvProofs ---------------------------
(***************************************************************************)
(* The inductive invariant of Malloc, third part: where the two contexts   *)
(* are, and the theorems that follow, up to the refinement of Heap.        *)
(***************************************************************************)
EXTENDS MallocBlockProofs

(* The contexts. *)

(* What main is in the middle of survives the mallocs of a handler: they   *)
(* move no descriptor of a chain, change no page of one, and free nothing. *)
LEMMA ContextIsr ==
  ASSUME IInv, Malloc("isr")
  PROVE  ContextInv'
<1> DEFINE i == "isr"
           m == "main"
<1>0. i \in Ctx /\ m \in Ctx /\ i # m
  BY DEF Ctx
<1>1. /\ ~masked
      /\ masked' = masked
      /\ pc[i] \in {"idle", "bucket"}
  <2>1. ASSUME NEW len \in Lens[i], MallocTooLong(i, len)
        PROVE  ~masked /\ UNCHANGED masked /\ pc[i] = "idle"
    BY <2>1, <1>0 DEF MallocTooLong, Enter
  <2>2. ASSUME NEW len \in Lens[i], MallocCall(i, len)
        PROVE  ~masked /\ masked' = masked /\ pc[i] = "idle"
    <3>1. ~masked /\ pc[i] = "idle"
      BY <2>2, <1>0 DEF MallocCall, Enter
    <3>2. local_irq_save(i)
      BY <2>2 DEF MallocCall
    <3>3. masked' = FALSE /\ masked = FALSE
      BY <3>1, <3>2, <1>0 DEF local_irq_save, IInv, TypeInv, TypeOK
    <3> QED
      BY <3>1, <3>3
  <2>3. pc[i] = "bucket" => ~masked
    BY DEF IInv, ContextInv
  <2>4. CASE MallocSkip(i) \/ init_bucket_desc(i) \/ MallocNewBucket(i)
    BY <2>3, <2>4 DEF MallocSkip, init_bucket_desc, MallocNewBucket, At
  <2>5. CASE MallocTake(i)
    BY <2>3, <2>5, <1>0 DEF MallocTake, At, local_irq_restore, IInv, TypeInv, TypeOK
  <2> QED
    BY <2>1, <2>2, <2>4, <2>5 DEF Malloc
<1>2. /\ pc'[m] = pc[m] /\ bdir'[m] = bdir[m] /\ bdesc'[m] = bdesc[m]
      /\ prev'[m] = prev[m] /\ obj'[m] = obj[m]
  <2>1. ASSUME NEW len \in Lens[i], MallocTooLong(i, len)
        PROVE  UNCHANGED <<pc, bdir, bdesc, prev, obj>>
    BY <2>1 DEF MallocTooLong, locals
  <2>2. ASSUME NEW len \in Lens[i], MallocCall(i, len)
        PROVE  <1>2
    BY <2>2, <1>0 DEF MallocCall, SetLocals, Goto, IInv, TypeInv, TypeOK
  <2>3. CASE MallocSkip(i)
    BY <2>3, <1>0 DEF MallocSkip, IInv, TypeInv, TypeOK
  <2>4. CASE init_bucket_desc(i)
    BY <2>4, <1>0 DEF init_bucket_desc, panic, Goto, locals, IInv, TypeInv, TypeOK
  <2>5. CASE MallocNewBucket(i)
    BY <2>5, <1>0 DEF MallocNewBucket, panic, Goto, locals, IInv, TypeInv, TypeOK
  <2>6. CASE MallocTake(i)
    BY <2>6, <1>0 DEF MallocTake, panic, Return, SetLocals, Goto, locals, IInv, TypeInv, TypeOK
  <2> QED
    BY <2>1, <2>2, <2>3, <2>4, <2>5, <2>6 DEF Malloc
<1>3. /\ \A d \in Desc : Chained(d) => onlist'[d] = onlist[d] /\ page'[d] = page[d]
      /\ live \subseteq live'
  <2>1. ASSUME NEW len \in Lens[i], MallocTooLong(i, len) \/ MallocCall(i, len)
        PROVE  <1>3
    BY <2>1 DEF MallocTooLong, MallocCall, heap, desc, history
  <2>2. CASE MallocSkip(i)
    BY <2>2 DEF MallocSkip, heap, desc, history
  <2>3. CASE init_bucket_desc(i)
    <3>1. CASE UNCHANGED onlist
      BY <2>3, <3>1 DEF init_bucket_desc
    <3>2. ASSUME NEW p \in Page, FirstFree(p),
                 onlist' = [d \in Desc |-> IF d[1] = p THEN 0 ELSE onlist[d]]
          PROVE  \A d \in Desc : Chained(d) => onlist'[d] = onlist[d]
      <4>1. \A d \in Desc : d[1] = p => onlist[d] = NULL
        BY <3>2, FreshPage DEF FirstFree
      <4> QED
        BY <3>2, <4>1, Carriers DEF Chained
    <3> QED
      BY <2>3, <3>1, <3>2 DEF init_bucket_desc
  <2>4. CASE MallocNewBucket(i)
    <3>1. freeDesc \in Desc /\ ~Chained(freeDesc)
      BY <2>4, Carriers DEF MallocNewBucket, Chained, IInv, ChainInv, TypeInv, TypeOK
    <3>2. \A d \in Desc : d # freeDesc => onlist'[d] = onlist[d] /\ page'[d] = page[d]
      BY <2>4, <3>1 DEF MallocNewBucket, IInv, TypeInv, TypeOK
    <3>3. live' = live
      BY <2>4 DEF MallocNewBucket
    <3> QED
      BY <3>1, <3>2, <3>3
  <2>5. CASE MallocTake(i)
    BY <2>5 DEF MallocTake
  <2> QED
    BY <2>1, <2>2, <2>3, <2>4, <2>5 DEF Malloc
<1>4. /\ pc'[i] \in {"idle", "bucket", "hang"}
      /\ pc'[i] = "bucket" =>
           /\ bdir'[i] \in Sizes
           /\ bdesc'[i] # NULL => onlist'[bdesc'[i]] = bdir'[i]
  <2>0. pc[i] = "bucket" => bdir[i] \in Sizes /\ (bdesc[i] # NULL => onlist[bdesc[i]] = bdir[i])
    BY <1>0 DEF IInv, ContextInv
  <2>1. ASSUME NEW len \in Lens[i], MallocTooLong(i, len) PROVE <1>4
    BY <2>1 DEF MallocTooLong, Enter
  <2>2. ASSUME NEW len \in Lens[i], MallocCall(i, len) PROVE <1>4
    BY <2>2, <1>0 DEF MallocCall, SetLocals, Goto, heap, history, IInv, ChainInv, TypeInv, TypeOK
  <2>3. CASE MallocSkip(i)
    BY <2>0, <2>3, <1>0, Carriers DEF MallocSkip, At, heap, history, IInv, ChainInv, TypeInv, TypeOK
  <2>4. CASE init_bucket_desc(i)
    BY <2>0, <2>4, <1>0 DEF init_bucket_desc, At, panic, Goto, locals, IInv, TypeInv, TypeOK
  <2>5. CASE MallocNewBucket(i)
    BY <2>0, <2>5, <1>0 DEF MallocNewBucket, At, panic, Goto, locals, IInv, TypeInv, TypeOK
  <2>6. CASE MallocTake(i)
    BY <2>6, <1>0 DEF MallocTake, panic, Return, Goto, IInv, TypeInv, TypeOK
  <2> QED
    BY <2>1, <2>2, <2>3, <2>4, <2>5, <2>6 DEF Malloc
<1>5. pc[m] \notin {"bucket", "unlink"}
  BY <1>1 DEF IInv, ContextInv
<1>6. pc[m] \in {"search", "walk", "push"} =>
        /\ obj[m] \in live
        /\ bdir[m] \in Sizes
        /\ bdesc[m] # NULL => Chained(bdesc[m]) /\ bdesc[m] \in Desc /\ onlist[bdesc[m]] = bdir[m]
        /\ prev[m] # NULL => Chained(prev[m]) /\ prev[m] \in Desc /\ onlist[prev[m]] = bdir[m]
  BY <1>0 DEF IInv, ContextInv, Chained, TypeInv, TypeOK
<1>7. pc[m] \in {"walk", "push"} => bdesc[m] # NULL /\ page[bdesc[m]] = obj[m][1]
  BY DEF IInv, ContextInv
<1> QED
  BY <1>1, <1>2, <1>3, <1>4, <1>5, <1>6, <1>7 DEF ContextInv, Ctx

(* While main runs the handler is idle. *)
LEMMA ContextMalloc ==
  ASSUME IInv, Malloc("main")
  PROVE  ContextInv'
<1> DEFINE m == "main"
<1>0. m \in Ctx /\ "isr" \in Ctx /\ m # "isr"
  BY DEF Ctx
<1>1. /\ pc["isr"] = "idle"
      /\ pc'["isr"] = "idle"
      /\ pc[m] \in {"idle", "bucket"}
  <2>1. pc["isr"] = "idle" /\ pc[m] \in {"idle", "bucket"}
    BY <1>0 DEF Malloc, MallocTooLong, MallocCall, MallocSkip, init_bucket_desc, MallocNewBucket,
       MallocTake, Enter, At, Runs
  <2>2. pc' = pc \/ \E l \in Labels : pc' = [pc EXCEPT ![m] = l]
    BY DEF Malloc, MallocTooLong, MallocCall, MallocSkip, init_bucket_desc, MallocNewBucket,
       MallocTake, panic, Return, Goto, Labels
  <2> QED
    BY <1>0, <2>1, <2>2 DEF IInv, TypeInv, TypeOK
<1>2. /\ pc'[m] \in {"idle", "bucket", "hang"}
      /\ pc'[m] = "bucket" =>
           /\ masked'
           /\ bdir'[m] \in Sizes
           /\ bdesc'[m] # NULL => onlist'[bdesc'[m]] = bdir'[m]
  <2>0. pc[m] = "bucket" => masked /\ bdir[m] \in Sizes /\ (bdesc[m] # NULL => onlist[bdesc[m]] = bdir[m])
    BY <1>0 DEF IInv, ContextInv
  <2>1. ASSUME NEW len \in Lens[m], MallocTooLong(m, len) PROVE <1>2
    BY <2>1 DEF MallocTooLong, Enter
  <2>2. ASSUME NEW len \in Lens[m], MallocCall(m, len) PROVE <1>2
    <3>0. local_irq_save(m)
      BY <2>2 DEF MallocCall
    <3>1. masked'
      BY <3>0 DEF local_irq_save
    <3>2. PICK s \in Sizes : SetLocals(m, s, chain[s], NULL)
      BY <2>2 DEF MallocCall
    <3>3. pc'[m] = "bucket" /\ UNCHANGED <<onlist, chain>>
      BY <1>0, <2>2 DEF MallocCall, Goto, heap, history, IInv, TypeInv, TypeOK
    <3>4. bdir'[m] = s /\ bdesc'[m] = chain[s]
      BY <1>0, <3>2 DEF SetLocals, IInv, TypeInv, TypeOK
    <3> QED
      BY <3>1, <3>3, <3>4 DEF IInv, ChainInv
  <2>3. CASE MallocSkip(m)
    BY <2>0, <2>3, <1>0, Carriers DEF MallocSkip, At, heap, history, IInv, ChainInv, TypeInv, TypeOK
  <2>4. CASE init_bucket_desc(m)
    BY <2>0, <2>4, <1>0 DEF init_bucket_desc, At, panic, Goto, locals, IInv, TypeInv, TypeOK
  <2>5. CASE MallocNewBucket(m)
    BY <2>0, <2>5, <1>0 DEF MallocNewBucket, At, panic, Goto, locals, IInv, TypeInv, TypeOK
  <2>6. CASE MallocTake(m)
    BY <2>6, <1>0 DEF MallocTake, panic, Return, Goto, IInv, TypeInv, TypeOK
  <2> QED
    BY <2>1, <2>2, <2>3, <2>4, <2>5, <2>6 DEF Malloc
<1> QED
  BY <1>0, <1>1, <1>2 DEF ContextInv, Ctx
LEMMA ContextFree ==
  ASSUME IInv, Free("main"), ~DoubleFree
  PROVE  ContextInv'
<1> DEFINE m == "main"
           Holding == {"search", "walk", "push", "unlink"}
<1>0. m \in Ctx /\ "isr" \in Ctx /\ m # "isr"
  BY DEF Ctx
<1>1. pc["isr"] = "idle" /\ pc'["isr"] = "idle"
  <2>1. pc["isr"] = "idle"
    BY <1>0 DEF Free, FreeFind, FreeCall, FreeSearch, FreeNextBucket, FreeWalk, FreePush, FreeRescan,
       FreeUnlink, Enter, At, Runs
  <2>2. pc' = pc \/ \E l \in Labels : pc' = [pc EXCEPT ![m] = l]
    BY DEF Free, FreeFind, FreeCall, FreeSearch, FreeNextBucket, FreeWalk, FreePush, FreeRescan,
       FreeUnlink, Release, panic, Return, Goto, Labels
  <2> QED
    BY <1>0, <2>1, <2>2 DEF IInv, TypeInv, TypeOK
<1>2. pc[m] \in Holding =>
        /\ bdir[m] \in Sizes
        /\ bdesc[m] # NULL => onlist[bdesc[m]] = bdir[m]
        /\ prev[m] # NULL => onlist[prev[m]] = bdir[m]
  BY DEF IInv, ContextInv
<1>3. /\ pc[m] \in {"search", "walk", "push"} => obj[m] \in live
      /\ pc[m] \in {"walk", "push"} => bdesc[m] # NULL /\ page[bdesc[m]] = obj[m][1]
      /\ pc[m] = "unlink" => masked /\ bdesc[m] # NULL /\ refcnt[bdesc[m]] = 0
  BY DEF IInv, ContextInv
(* It suffices to look at main. *)
<1>4. SUFFICES
        /\ pc'[m] # "bucket"
        /\ pc'[m] = "unlink" => masked'
        /\ pc'[m] \in {"search", "walk", "push"} => obj'[m] \in live'
        /\ pc'[m] \in Holding =>
             /\ bdir'[m] \in Sizes
             /\ bdesc'[m] # NULL => onlist'[bdesc'[m]] = bdir'[m]
             /\ prev'[m] # NULL => onlist'[prev'[m]] = bdir'[m]
        /\ pc'[m] \in {"walk", "push"} => bdesc'[m] # NULL /\ page'[bdesc'[m]] = obj'[m][1]
        /\ pc'[m] = "unlink" => bdesc'[m] # NULL /\ refcnt'[bdesc'[m]] = 0
  BY <1>0, <1>1 DEF ContextInv, Ctx
<1>5. ASSUME pc'[m] \in {"idle", "hang"} PROVE <1>4!1
  BY <1>5
<1>6. ASSUME NEW msg, panic(m, msg) PROVE <1>4!1
  BY <1>0, <1>5, <1>6 DEF panic, Goto, IInv, TypeInv, TypeOK
<1>7. ASSUME NEW o \in Freeable(m), FreeCall(m, o) PROVE <1>4!1
  <2>1. o \in live /\ o[1] \in Page
    BY <1>7, Carriers DEF Freeable, IInv, TypeInv, TypeOK
  <2>2. CASE kmap[o[1]] # 0 /\ SetLocals(m, kmap[o[1]], chain[kmap[o[1]]], o) /\ Goto(m, "search")
    <3>1. PICK s \in Sizes : s = kmap[o[1]]
      BY <2>1, <2>2 DEF IInv, TypeInv, TypeOK
    <3>2. pc'[m] = "search"
      BY <1>0, <2>2 DEF Goto, IInv, TypeInv, TypeOK
    <3>3. bdir'[m] = s /\ bdesc'[m] = chain[s] /\ prev'[m] = NULL /\ obj'[m] = o
      BY <1>0, <2>2, <3>1 DEF SetLocals, IInv, TypeInv, TypeOK
    <3>4. UNCHANGED <<onlist, live>>
      BY <1>7 DEF FreeCall, history
    <3> QED
      BY <2>1, <3>2, <3>3, <3>4 DEF IInv, ChainInv
  <2> QED
    BY <1>6, <1>7, <2>2 DEF FreeCall
<1>8. CASE FreeSearch(m)
  <2>1. /\ UNCHANGED <<onlist, live, page, bdir, obj>>
        /\ pc[m] = "search"
        /\ bdesc[m] \in Desc
    BY <1>0, <1>8 DEF FreeSearch, At, heap, desc, history, IInv, TypeInv, TypeOK
  <2>2. CASE page[bdesc[m]] = obj[m][1]
    <3>1. pc'[m] \in {"push", "walk"} /\ UNCHANGED <<bdesc, prev>>
      BY <1>0, <1>8, <2>2 DEF FreeSearch, Goto, IInv, TypeInv, TypeOK
    <3> QED
      BY <1>2, <1>3, <2>1, <2>2, <3>1, Carriers
  <2>3. CASE page[bdesc[m]] # obj[m][1]
    <3>1. /\ prev'[m] = bdesc[m]
          /\ bdesc'[m] = next[bdesc[m]]
          /\ pc'[m] = "search"
      BY <1>0, <1>8, <2>1, <2>3 DEF FreeSearch, IInv, TypeInv, TypeOK
    <3>2. onlist[bdesc[m]] = bdir[m] /\ bdir[m] # NULL
      BY <1>2, <2>1, Carriers
    <3> QED
      BY <1>2, <1>3, <2>1, <3>1, <3>2 DEF IInv, ChainInv
  <2> QED
    BY <2>2, <2>3
<1>9. CASE FreeNextBucket(m)
  <2>1. CASE \E s \in Sizes : SetLocals(m, s, chain[s], obj[m]) /\ UNCHANGED <<pc, why>>
    <3>1. PICK s \in Sizes : SetLocals(m, s, chain[s], obj[m]) /\ UNCHANGED <<pc, why>>
      BY <2>1
    <3>2. bdir'[m] = s /\ bdesc'[m] = chain[s] /\ prev'[m] = NULL /\ obj'[m] = obj[m]
      BY <1>0, <3>1 DEF SetLocals, IInv, TypeInv, TypeOK
    <3>3. UNCHANGED <<onlist, live>> /\ pc[m] = "search"
      BY <1>9 DEF FreeNextBucket, At, history
    <3> QED
      BY <1>3, <3>1, <3>2, <3>3 DEF IInv, ChainInv
  <2> QED
    BY <1>6, <1>9, <2>1 DEF FreeNextBucket
<1>10. CASE FreeWalk(m)
  <2>1. pc[m] = "walk" /\ UNCHANGED <<onlist, live, page>>
    BY <1>10 DEF FreeWalk, At, heap, desc, history
  <2>2. CASE UNCHANGED <<bdir, bdesc, prev, obj>> /\ (pc' = pc \/ Goto(m, "push"))
    <3>1. pc'[m] \in {"walk", "push"}
      BY <1>0, <2>1, <2>2 DEF Goto, IInv, TypeInv, TypeOK
    <3> QED
      BY <1>2, <1>3, <2>1, <2>2, <3>1
  <2> QED
    BY <1>6, <1>10, <2>2 DEF FreeWalk, locals
<1>11. CASE FreePush(m)
  <2> DEFINE n == IF refcnt[bdesc[m]] = 0 THEN RefcntMod - 1 ELSE refcnt[bdesc[m]] - 1
  <2>1. pc[m] = "push" /\ UNCHANGED <<onlist, chain>> /\ bdesc[m] \in Desc
    BY <1>0, <1>11 DEF FreePush, At, IInv, TypeInv, Located
  <2>2. CASE LastBlock(n)
    <3>1. /\ prev' = [prev EXCEPT ![m] = IF PrevStale(m) THEN chain[bdir[m]] ELSE prev[m]]
          /\ Goto(m, "unlink")
          /\ local_irq_save(m)
          /\ UNCHANGED <<bdir, bdesc, obj>>
          /\ refcnt' = [refcnt EXCEPT ![bdesc[m]] = n]
      BY <1>11, <2>2 DEF FreePush
    <3>2. masked'
      BY <3>1 DEF local_irq_save
    <3>3. pc'[m] = "unlink"
      BY <1>0, <3>1 DEF Goto, IInv, TypeInv, TypeOK
    <3>4. refcnt'[bdesc[m]] = 0
      BY <2>1, <2>2, <3>1 DEF LastBlock, IInv, TypeInv, TypeOK
    <3>5. prev'[m] = prev[m] \/ prev'[m] = chain[bdir[m]]
      BY <1>0, <3>1 DEF IInv, TypeInv, TypeOK
    <3>6. prev'[m] # NULL => onlist[prev'[m]] = bdir[m]
      BY <1>2, <2>1, <3>5 DEF IInv, ChainInv
    <3> QED
      BY <1>2, <2>1, <3>1, <3>2, <3>3, <3>4, <3>6, Carriers
  <2>3. CASE ~LastBlock(n)
    <3>1. pc'[m] = "idle"
      BY <1>0, <1>11, <2>3 DEF FreePush, Return, Goto, IInv, TypeInv, TypeOK
    <3> QED
      BY <1>5, <3>1
  <2> QED
    BY <2>2, <2>3
<1>12. CASE FreeRescan(m)
  <2>1. /\ UNCHANGED <<onlist, live, page, bdir, bdesc, obj, refcnt, pc, masked>>
        /\ pc[m] = "unlink"
        /\ prev[m] \in Desc
        /\ prev'[m] = next[prev[m]]
    BY <1>0, <1>12 DEF FreeRescan, At, heap, desc, history, IInv, TypeInv, TypeOK
  <2>2. onlist[prev[m]] = bdir[m] /\ bdir[m] # NULL
    BY <1>2, <2>1, Carriers
  <2>3. prev'[m] # NULL => onlist[prev'[m]] = bdir[m]
    BY <2>1, <2>2 DEF IInv, ChainInv
  <2> QED
    BY <1>2, <1>3, <2>1, <2>3
<1>13. CASE FreeUnlink(m)
  <2>1. CASE Return(m)
    <3>1. pc'[m] = "idle"
      BY <1>0, <2>1 DEF Return, Goto, IInv, TypeInv, TypeOK
    <3> QED
      BY <1>5, <3>1
  <2> QED
    BY <1>6, <1>13, <2>1 DEF FreeUnlink, Release
<1> QED
  BY <1>7, <1>8, <1>9, <1>10, <1>11, <1>12, <1>13 DEF Free, FreeFind

(* A handler that does not free is never inside free(). *)
LEMMA IsrFreesNot ==
  ASSUME IInv, Disciplined, Free("isr")
  PROVE  FALSE
<1>1. pc["isr"] \notin {"search", "walk", "push", "unlink"}
  BY DEF IInv, ContextInv
<1> QED
  BY <1>1 DEF Disciplined, Free, FreeFind, FreeCall, FreeSearch, FreeNextBucket, FreeWalk, FreePush,
     FreeRescan, FreeUnlink, Enter, At

-----------------------------------------------------------------------------
LEMMA HeapMalloc ==
  ASSUME IInv, NEW c \in Ctx, Malloc(c)
  PROVE  HeapInv'
<1>1. ASSUME NEW len \in Lens[c], MallocTooLong(c, len) \/ MallocCall(c, len)
      PROVE  HeapInv'
  BY <1>1, HeapFrame DEF MallocTooLong, MallocCall, history, IInv, HeapInv
<1>2. CASE MallocSkip(c)
  BY <1>2, HeapFrame DEF MallocSkip, history, IInv, HeapInv
<1> QED
  BY <1>1, <1>2, HeapInitDesc, HeapNewBucket, HeapTake DEF Malloc

LEMMA HeapFree ==
  ASSUME IInv, Free("main")
  PROVE  HeapInv'
<1> DEFINE m == "main"
<1>0. m \in Ctx
  BY DEF Ctx
<1>1. ASSUME UNCHANGED heap, UNCHANGED history PROVE HeapInv'
  BY <1>1, HeapFrame DEF history, IInv, HeapInv
<1>2. ASSUME NEW o \in Freeable(m), FreeCall(m, o) PROVE HeapInv'
  BY <1>1, <1>2 DEF FreeCall
<1>3. CASE FreeSearch(m) \/ FreeNextBucket(m) \/ FreeWalk(m) \/ FreeRescan(m)
  BY <1>1, <1>3 DEF FreeSearch, FreeNextBucket, FreeWalk, FreeRescan
<1> QED
  BY <1>0, <1>2, <1>3, HeapPush, HeapUnlink DEF Free, FreeFind

LEMMA InvStep ==
  ASSUME IInv, Disciplined, Next
  PROVE  IInv'
<1>1. PICK c \in Ctx :
        Malloc(c) \/ Free(c) \/ \E b \in live \ Pending, w \in UserWords : Write(c, b, w)
  BY DEF Next
<1>2. CASE Malloc(c)
  <2>1. TypeInv'
    BY <1>2, TypeMalloc DEF IInv
  <2>2. ContextInv'
    BY <1>2, ContextIsr, ContextMalloc DEF Ctx
  <2> QED
    BY <1>2, <2>1, <2>2, HeapMalloc DEF IInv, HeapInv
<1>3. CASE Free(c)
  <2>1. c = "main"
    BY <1>3, IsrFreesNot DEF Ctx
  <2>2. TypeInv'
    BY <1>3, TypeFree DEF IInv
  <2> QED
    BY <1>3, <2>1, <2>2, HeapFree, ContextFree DEF IInv, HeapInv, Disciplined
<1>4. ASSUME NEW b \in live \ Pending, NEW w \in UserWords, Write(c, b, w) PROVE IInv'
  <2>1. TypeInv'
    BY <1>4, TypeWrite DEF IInv
  <2>2. HeapInv'
    BY <1>4, HeapWrite
  <2>3. UNCHANGED <<masked, pc, bdir, bdesc, prev, obj, cur, page, refcnt, live, onlist>>
    BY <1>4 DEF Write, desc, locals, history
  <2>4. ContextInv'
    BY <2>3 DEF IInv, ContextInv
  <2> QED
    BY <2>1, <2>2, <2>4 DEF IInv, HeapInv
<1> QED
  BY <1>1, <1>2, <1>3, <1>4

LEMMA InvInit == Init => IInv
<1> SUFFICES ASSUME Init PROVE IInv
  OBVIOUS
<1>1. TypeInv
  BY TypeInit
<1>2. \A d \in Desc : onlist[d] = NULL /\ ~Chained(d)
  BY Carriers DEF Init, Chained
<1>3. ChainInv /\ PageInv
  BY <1>2, Carriers DEF Init, ChainInv, PageInv
<1>4. BlockInv /\ RefcntExact /\ LiveBlocksFindable
  BY <1>2 DEF Init, BlockInv, RefcntExact, LiveBlocksFindable
<1>5. ContextInv
  BY DEF Init, ContextInv, Ctx
<1> QED
  BY <1>1, <1>3, <1>4, <1>5 DEF IInv

LEMMA InvStutter ==
  ASSUME IInv, UNCHANGED vars
  PROVE  IInv'
<1>1. TypeInv'
  BY DEF IInv, TypeInv, TypeOK, Located, vars, heap, desc, locals, history
<1>2. HeapInv'
  BY HeapFrame DEF IInv, HeapInv, vars, history
<1>3. ContextInv'
  BY DEF IInv, ContextInv, vars, heap, desc, locals, history
<1> QED
  BY <1>1, <1>2, <1>3 DEF IInv, HeapInv

(* The inductive invariant: with clients that free a block once and        *)
(* handlers that do not free, the chains, the pages and the free lists of  *)
(* lib/malloc.c are well formed between any two steps.                     *)
THEOREM Invariant == ASSUME Disciplined PROVE Spec => []IInv
<1>1. Init => IInv
  BY InvInit
<1>2. IInv /\ [Next]_vars => IInv'
  BY InvStep, InvStutter
<1> QED
  BY <1>1, <1>2, PTL DEF Spec

(* refcnt counts the blocks in use of every bucket: free() gives a page    *)
(* back when, and only when, no block of it is in use, and the unsigned    *)
(* short never wraps.                                                      *)
THEOREM RefcntCorrect == ASSUME Disciplined PROVE Spec => []RefcntExact
<1>1. IInv => RefcntExact
  BY DEF IInv
<1> QED
  BY <1>1, Invariant, PTL

(* Every block in use can be freed: bd_kmap and a chain still know it.     *)
THEOREM LiveFindable == ASSUME Disciplined PROVE Spec => []LiveBlocksFindable
<1>1. IInv => LiveBlocksFindable
  BY DEF IInv
<1> QED
  BY <1>1, Invariant, PTL

-----------------------------------------------------------------------------
(* Malloc implements Heap: the initial state maps to the empty heap, and   *)
(* every step maps to the allocation of one extent that overlaps no other, *)
(* to the release of one, or to a stutter.                                 *)

Extents == [page: Page, start: 0 .. PageSize - 1, len: Sizes]

Extent(b) == [page |-> b[1], start |-> b[2], len |-> kmap[b[1]]]

allocated == {Extent(b) : b \in live}

(* Two blocks of one size in one page do not overlap. *)
LEMMA BlocksApart ==
  ASSUME NEW p, NEW s \in Sizes, NEW a \in Blocks(p, s), NEW b \in Blocks(p, s),
         a[2] < b[2]
  PROVE  a[2] + s <= b[2]
<1>1. s \in Nat /\ s >= 1 /\ PageSize \in Nat
  BY ShapeAssumption
<1>2. PICK j \in 0 .. PageSize : a[2] = j * s
  BY DEF Blocks, Aligned
<1>3. PICK k \in 0 .. PageSize : b[2] = k * s
  BY DEF Blocks, Aligned
<1>4. j \in Nat /\ k \in Nat
  BY <1>1
<1>5. j < k
  <2> SUFFICES ASSUME k <= j PROVE FALSE
    BY <1>4
  <2>1. PICK i \in Nat : j = k + i
    BY <1>4
  <2>2. j * s = k * s + i * s /\ i * s \in Nat
    BY <1>1, <1>4, <2>1
  <2> QED
    BY <1>1, <1>2, <1>3, <1>4, <2>2
<1>6. PICK i \in Nat : k = j + 1 + i
  BY <1>4, <1>5
<1>7. k * s = j * s + s + i * s /\ i * s \in Nat
  BY <1>1, <1>4, <1>6
<1> QED
  BY <1>1, <1>2, <1>3, <1>4, <1>7

(* A block in use lies at a multiple of the size its page has. *)
LEMMA LiveShape ==
  ASSUME IInv, NEW b \in live
  PROVE  /\ b \in Blocks(b[1], kmap[b[1]])
         /\ kmap[b[1]] \in Sizes
         /\ Extent(b) \in Extents
<1>1. PICK d \in Desc : Chained(d) /\ b \in Blocks(page[d], onlist[d]) /\ kmap[b[1]] = onlist[d]
  BY DEF IInv, LiveBlocksFindable
<1>2. b[1] = page[d] /\ b \in Addr
  BY <1>1, BlocksFacts
<1>3. b[1] \in Page /\ b[2] \in 0 .. PageSize - 1
  BY <1>2 DEF Addr
<1> QED
  BY <1>1, <1>2, <1>3 DEF Chained, Extent, Extents

LEMMA NoOverlap ==
  ASSUME IInv, NEW a, a \in Blocks(a[1], kmap[a[1]]), kmap[a[1]] \in Sizes,
         NEW b \in live, a # b
  PROVE  ~Promise!Overlap(Extent(a), Extent(b))
<1> SUFFICES ASSUME a[1] = b[1], a[2] < b[2] + kmap[b[1]], b[2] < a[2] + kmap[a[1]]
             PROVE  FALSE
  BY DEF Promise!Overlap, Extent
<1>1. PICK s \in Sizes : s = kmap[a[1]] /\ s = kmap[b[1]]
  OBVIOUS
<1>2. a \in Blocks(a[1], s) /\ b \in Blocks(a[1], s)
  BY <1>1, LiveShape
<1>3. a[2] \in Nat /\ b[2] \in Nat /\ s \in Nat
  BY <1>2, BlocksFacts, Carriers
<1>4. a[2] # b[2]
  BY <1>2, BlocksFacts
<1>5. a[2] < b[2] => a[2] + s <= b[2]
  BY <1>2, BlocksApart
<1>6. b[2] < a[2] => b[2] + s <= a[2]
  BY <1>2, BlocksApart
<1> QED
  BY <1>1, <1>3, <1>4, <1>5, <1>6

(* A step that changes neither the blocks in use nor the size of a page    *)
(* that holds one is a stutter of Heap.                                    *)
LEMMA HeapStutter ==
  ASSUME live' = live, \A b \in live : kmap'[b[1]] = kmap[b[1]]
  PROVE  allocated' = allocated
BY DEF allocated, Extent

LEMMA TakeAllocates ==
  ASSUME IInv, IInv', NEW c \in Ctx, MallocTake(c)
  PROVE  Promise!Next \/ allocated' = allocated
<1>1. kmap' = kmap
  BY DEF MallocTake
<1>2. CASE live' = live
  BY <1>1, <1>2, HeapStutter
<1>3. CASE live' # live
  <2>1. PICK b : live' = live \cup {b}
    BY <1>3 DEF MallocTake
  <2>2. b \in live' /\ b \notin live
    BY <1>3, <2>1
  <2>3. allocated' = allocated \cup {Extent(b)}
    BY <1>1, <2>1 DEF allocated, Extent
  <2>4. b \in Blocks(b[1], kmap[b[1]]) /\ kmap[b[1]] \in Sizes
    <3>1. (b \in Blocks(b[1], kmap[b[1]]))' /\ kmap'[b[1]] \in Sizes
      <4>1. PICK d \in Desc : Chained(d)' /\ b \in Blocks(page'[d], onlist'[d]) /\ kmap'[b[1]] = onlist'[d]
        BY <2>2 DEF IInv, LiveBlocksFindable, Blocks
      <4> QED
        BY <4>1, BlocksFacts DEF Chained, Blocks
    <3> QED
      BY <1>1, <3>1 DEF Blocks
  <2>5. Extent(b) \in Extents
    BY <2>4, BlocksFacts DEF Extent, Extents, Addr
  <2>6. \A y \in allocated : ~Promise!Overlap(Extent(b), y)
    BY <2>2, <2>4, NoOverlap DEF allocated
  <2> QED
    BY <2>3, <2>5, <2>6 DEF Promise!Next, Promise!Allocate, Extents, allocated, Extent
<1> QED
  BY <1>2, <1>3
LEMMA PushReleases ==
  ASSUME IInv, NEW c \in Ctx, FreePush(c), c = "main"
  PROVE  Promise!Next
<1>1. PICK o \in live : o = obj[c]
  BY DEF FreePush, At, IInv, ContextInv
<1>2. live' = live \ {o} /\ kmap' = kmap
  BY <1>1 DEF FreePush
<1>3. \A b \in live : Extent(b) = Extent(o) => b = o
  <2> SUFFICES ASSUME NEW b \in live, Extent(b) = Extent(o) PROVE b = o
    OBVIOUS
  <2>1. b[1] = o[1] /\ b[2] = o[2]
    BY DEF Extent
  <2>2. b \in Addr /\ o \in Addr
    BY DEF IInv, TypeInv, TypeOK
  <2> QED
    BY <2>1, <2>2 DEF Addr
<1>4. allocated' = allocated \ {Extent(o)}
  BY <1>2, <1>3 DEF allocated, Extent
<1>5. Extent(o) \in allocated /\ Extent(o) \in Extents
  BY LiveShape DEF allocated
<1> QED
  BY <1>4, <1>5 DEF Promise!Next, Promise!Release, Extents, allocated, Extent

LEMMA NewBucketStutters ==
  ASSUME IInv, NEW c \in Ctx, MallocNewBucket(c)
  PROVE  allocated' = allocated
<1>1. live' = live
  BY DEF MallocNewBucket
<1>2. \A b \in live : b[1] \in Page
  BY Carriers DEF IInv, TypeInv, TypeOK
<1>3. CASE kmap' = kmap
  BY <1>1, <1>3, HeapStutter
<1>4. ASSUME NEW p \in Page, use[p] = 0, kmap' = [kmap EXCEPT ![p] = bdir[c]]
      PROVE  allocated' = allocated
  <2>1. \A b \in live : b[1] # p
    BY <1>4, FreshPage
  <2>2. \A b \in live : kmap'[b[1]] = kmap[b[1]]
    BY <1>2, <1>4, <2>1 DEF IInv, TypeInv, TypeOK
  <2> QED
    BY <1>1, <2>2, HeapStutter
<1> QED
  BY <1>3, <1>4 DEF MallocNewBucket, FirstFree, SizeRecorded

LEMMA HeapStep ==
  ASSUME IInv, IInv', Disciplined, Next
  PROVE  Promise!Next \/ allocated' = allocated
<1>0. PICK c \in Ctx :
        Malloc(c) \/ Free(c) \/ \E b \in live \ Pending, w \in UserWords : Write(c, b, w)
  BY DEF Next
<1>1. CASE UNCHANGED <<kmap, live>>
  BY <1>1, HeapStutter
<1>2. CASE Malloc(c)
  <2>1. ASSUME NEW len \in Lens[c], MallocTooLong(c, len) \/ MallocCall(c, len)
        PROVE  UNCHANGED <<kmap, live>>
    BY <2>1 DEF MallocTooLong, MallocCall, heap, history
  <2>2. CASE MallocSkip(c) \/ init_bucket_desc(c)
    BY <1>1, <2>2 DEF MallocSkip, init_bucket_desc, heap, history
  <2> QED
    BY <1>1, <1>2, <2>1, <2>2, NewBucketStutters, TakeAllocates DEF Malloc
<1>3. CASE Free(c)
  <2>1. c = "main"
    BY <1>3, IsrFreesNot DEF Ctx
  <2>2. ASSUME NEW o \in Freeable(c), FreeCall(c, o) PROVE UNCHANGED <<kmap, live>>
    BY <2>2 DEF FreeCall, heap, history
  <2>3. CASE FreeSearch(c) \/ FreeNextBucket(c) \/ FreeWalk(c) \/ FreeRescan(c) \/ FreeUnlink(c)
    BY <1>1, <2>3 DEF FreeSearch, FreeNextBucket, FreeWalk, FreeRescan, FreeUnlink, heap, history
  <2> QED
    BY <1>1, <1>3, <2>1, <2>2, <2>3, PushReleases DEF Free, FreeFind
<1>4. ASSUME NEW b \in live \ Pending, NEW w \in UserWords, Write(c, b, w)
      PROVE  UNCHANGED <<kmap, live>>
  BY <1>4 DEF Write, history
<1> QED
  BY <1>0, <1>1, <1>2, <1>3, <1>4

(* malloc() and free() implement Heap: no two blocks in use ever overlap,  *)
(* and free() takes back the block it is given and no other.               *)
THEOREM Refinement == ASSUME Disciplined PROVE Spec => ImplementsHeap
<1>1. Init => Promise!Init
  BY DEF Init, Promise!Init
<1>2. IInv /\ IInv' /\ [Next]_vars => [Promise!Next]_allocated
  <2> SUFFICES ASSUME IInv, IInv', [Next]_vars PROVE Promise!Next \/ allocated' = allocated
    OBVIOUS
  <2>1. CASE UNCHANGED vars
    BY <2>1, HeapStutter DEF vars, heap, history
  <2> QED
    BY <2>1, HeapStep
<1>3. Spec => []IInv
  BY Invariant
<1> QED
  BY <1>1, <1>2, <1>3, PTL DEF Spec, ImplementsHeap, Promise!Spec, allocated, Extent
=============================================================================
