-------------------------------- MODULE Heap --------------------------------
(***************************************************************************)
(* What malloc() and free() promise, with no word on how: an allocated     *)
(* extent is a range of units of one page, no two allocated extents        *)
(* overlap, and free() takes back one extent and leaves the others alone.  *)
(***************************************************************************)
EXTENDS Naturals

CONSTANTS Extents    \* the possible extents: [page, start, len] records

VARIABLE allocated

Overlap(x, y) ==
  /\ x.page = y.page
  /\ x.start < y.start + y.len
  /\ y.start < x.start + x.len

Init == allocated = {}

Allocate(x) ==
  /\ \A y \in allocated : ~Overlap(x, y)
  /\ allocated' = allocated \cup {x}

Release(x) ==
  /\ x \in allocated
  /\ allocated' = allocated \ {x}

Next == \E x \in Extents : Allocate(x) \/ Release(x)

Spec == Init /\ [][Next]_allocated
=============================================================================
