------------------------------ MODULE MCMalloc ------------------------------
(* Instances of Malloc for TLC: two bucket sizes, a page of two units.     *)
EXTENDS MallocInv

CONSTANT Data    \* a word that is no address

AllOps == {"malloc", "free", "write"}

(* The monitor as it is: no handler of the repository uses the heap. *)
MainOnlyLens == [c \in Ctx |-> IF c = "main" THEN 0 .. 3 ELSE {}]
MainOnlyOps == [c \in Ctx |-> IF c = "main" THEN AllOps ELSE {}]

(* Blocks that are freed as malloc() returned them, never written. *)
ReadOnlyOps == [c \in Ctx |-> IF c = "main" THEN {"malloc", "free"} ELSE {}]

(* Handlers that allocate. *)
AllocatingLens == [c \in Ctx |-> {1, 2}]
AllocatingOps == [c \in Ctx |-> IF c = "main" THEN AllOps ELSE {"malloc", "write"}]

(* Handlers that allocate whole pages, so that two of them put two new     *)
(* buckets before the one main is freeing.                                 *)
WholePageLens == [c \in Ctx |-> {2}]

(* Handlers that share a bucket size with main. *)
SharedLens == [c \in Ctx |-> {1}]
SharedOps == [c \in Ctx |-> {"malloc", "free"}]

MCSizes == {1, 2}
WideSizes == {1, 4}
DataWords == {Data}
ZeroWords == {NULL}
=============================================================================
