------------------------------ MODULE MallocInv ------------------------------
(***************************************************************************)
(* The inductive invariant of Malloc for clients that free a block once    *)
(* and handlers that do not free: what the chains, the pages and the free  *)
(* lists look like between any two steps.  Lists are described without     *)
(* reachability: a list is closed under its links, and no element is       *)
(* pointed at twice.                                                       *)
(***************************************************************************)
EXTENDS Malloc

(* A context inside malloc() or free() has chosen a bucket size, and one   *)
(* past free()'s search has found a descriptor.                            *)
Located ==
  \A c \in Ctx :
    /\ pc[c] \notin {"idle", "hang"} => bdir[c] \in Sizes
    /\ pc[c] \in {"walk", "push", "unlink"} => bdesc[c] \in Desc
    /\ pc[c] \in {"search", "walk", "push", "unlink"} => obj[c] \in Addr

TypeInv == TypeOK /\ Located

(* The discipline under which the invariant is inductive. *)
Disciplined == ~DoubleFree /\ "free" \notin Ops["isr"]

(* Chains and the free_bucket_desc list. *)
ChainInv ==
  /\ \A s \in Sizes : chain[s] # NULL => onlist[chain[s]] = s
  /\ freeDesc # NULL => onlist[freeDesc] = 0
  /\ \A d \in Desc : onlist[d] # NULL /\ next[d] # NULL =>
       /\ onlist[next[d]] = onlist[d]
       /\ onlist[d] \in Sizes => next[d] # chain[onlist[d]]
       /\ onlist[d] = 0 => next[d] # freeDesc
  /\ \A d, e \in Desc :
       /\ onlist[d] # NULL
       /\ onlist[d] = onlist[e]
       /\ next[d] # NULL
       /\ next[d] = next[e]
       => d = e

(* Which page belongs to which descriptor. *)
PageInv ==
  /\ \A d \in Desc : onlist[d] # NULL => use[d[1]] = 1
  /\ \A d \in Desc : Chained(d) =>
       /\ page[d] \in Page
       /\ use[page[d]] = 1
       /\ kmap[page[d]] = onlist[d]
  /\ \A d, e \in Desc : Chained(d) /\ e[1] = page[d] => onlist[e] = NULL
  /\ \A d, e \in Desc : Chained(d) /\ Chained(e) /\ page[d] = page[e]
                          => d = e

(* The free blocks of a chained descriptor's page. *)
FreeBlocks(d) == Blocks(page[d], onlist[d]) \ live

(* The free list threaded through a page. *)
BlockInv ==
  \A d \in Desc : Chained(d) =>
    /\ freeptr[d] # NULL => freeptr[d] \in FreeBlocks(d)
    /\ \A a \in FreeBlocks(d) : word[a] # NULL =>
         /\ word[a] \in FreeBlocks(d)
         /\ word[a] # freeptr[d]
    /\ \A a, b \in FreeBlocks(d) : word[a] # NULL /\ word[a] = word[b] => a = b

(* Where the two contexts are, and what their locals point at. *)
ContextInv ==
  /\ pc["isr"] \in {"idle", "bucket", "hang"}
  /\ masked => pc["isr"] = "idle"
  /\ pc["main"] \in {"bucket", "unlink"} => masked
  /\ \A c \in Ctx : pc[c] = "bucket" =>
       /\ bdir[c] \in Sizes
       /\ bdesc[c] # NULL => onlist[bdesc[c]] = bdir[c]
  /\ pc["main"] \in {"search", "walk", "push"} => obj["main"] \in live
  /\ pc["main"] \in {"search", "walk", "push", "unlink"} =>
       /\ bdir["main"] \in Sizes
       /\ bdesc["main"] # NULL => onlist[bdesc["main"]] = bdir["main"]
       /\ prev["main"] # NULL => onlist[prev["main"]] = bdir["main"]
  /\ pc["main"] \in {"walk", "push"} =>
       /\ bdesc["main"] # NULL
       /\ page[bdesc["main"]] = obj["main"][1]
  /\ pc["main"] = "unlink" =>
       /\ bdesc["main"] # NULL
       /\ refcnt[bdesc["main"]] = 0

IInv ==
  /\ TypeInv
  /\ ChainInv
  /\ PageInv
  /\ BlockInv
  /\ ContextInv
  /\ RefcntExact
  /\ LiveBlocksFindable
=============================================================================
