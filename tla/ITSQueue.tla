------------------------------ MODULE ITSQueue ------------------------------
(***************************************************************************)
(* The command queue of the GIC's interrupt translation service: the ring  *)
(* in memory that add_ITS_command() of module/gicv3/gicv3_its.c fills and  *)
(* the ITS empties.                                                        *)
(*                                                                         *)
(* The CPU stores the four words of a command one by one; a store reaches  *)
(* the memory the ITS reads at some later time, in any order, and the dsb  *)
(* waits until all of them have.  The ITS runs beside the CPU.             *)
(*                                                                         *)
(* Offsets are counted in commands (COMMAND_SIZE bytes).                   *)
(***************************************************************************)
EXTENDS ITSCommand, Sequences

CONSTANTS
  PerPage,      \* commands in a page: 0x1000 / COMMAND_SIZE
  FieldMod,     \* values of the size field: GENMASK_ULL(7, 0)
  Pages,        \* the values of num_pages callers pass
  Requests,     \* the commands callers ask for
  None          \* no request

ASSUME SizeAssumption ==
  /\ PerPage \in Nat \ {0, 1}
  /\ FieldMod \in Nat \ {0}
  /\ Pages \subseteq Nat

(* The ITS reads back what the add_ITS_* functions were asked for. *)
ASSUME RequestAssumption == \A r \in Requests : Decode(Encode(r)) = r

ASSUME NoneAssumption == None \notin Requests

PageField == 0 .. FieldMod - 1
Slot == 0 .. FieldMod * PerPage - 1
Word == {Encode(r)[i] : r \in Requests, i \in Part} \cup {None}

VARIABLES
  size,      \* its_cbaser.Size: pages of the queue, minus one
  cwriter,   \* its_cwriter
  creadr,    \* its_creadr
  enabled,   \* its_ctlr
  mem,       \* the words of the queue, as the ITS sees them
  pc,        \* where the caller is
  req,       \* the command it adds
  qwriter,   \* its copy of its_cwriter
  copied,    \* words it has stored
  stores,    \* the stores that have not reached memory
  last       \* history: the command the ITS executed last

registers == <<size, cwriter, creadr, enabled>>
caller == <<pc, req, qwriter, copied, stores>>
vars == <<registers, mem, caller, last>>

qsize == (size + 1) * PerPage

TypeOK ==
  /\ size \in PageField
  /\ cwriter \in Slot
  /\ creadr \in Slot
  /\ enabled \in BOOLEAN
  /\ mem \in [Slot \X Part -> Word]
  /\ pc \in {"idle", "base", "poll", "copy", "publish"}
  /\ req \in Requests \cup {None}
  /\ qwriter \in Slot
  /\ copied \in 0 .. 4
  /\ stores \subseteq Part

Init ==
  /\ size = 0
  /\ cwriter = 0
  /\ creadr = 0
  /\ enabled = FALSE
  /\ mem = [x \in Slot \X Part |-> None]
  /\ pc = "idle"
  /\ req = None
  /\ qwriter = 0
  /\ copied = 0
  /\ stores = {}
  /\ last = None

-----------------------------------------------------------------------------
(* init_ITS_command_queue(): the base register, then the write offset.  A  *)
(* write of the base register resets the read offset (the ITS does that).  *)
(* The queue is set up while the ITS is disabled; its memory is not        *)
(* cleared.  A number of pages whose low eight bits are zero is refused.   *)
init_ITS_command_queue(pages) ==
  /\ pc = "idle"
  /\ ~enabled
  /\ IF pages % FieldMod = 0
     THEN UNCHANGED <<size, creadr, pc>>
     ELSE /\ size' = (pages % FieldMod) - 1
          /\ creadr' = 0
          /\ pc' = "base"
  /\ UNCHANGED <<cwriter, enabled, mem, req, qwriter, copied, stores, last>>

ResetWriter ==
  /\ pc = "base"
  /\ cwriter' = 0
  /\ pc' = "idle"
  /\ UNCHANGED <<size, creadr, enabled, mem, req, qwriter, copied, stores, last>>

enable_ITS ==
  /\ pc = "idle"
  /\ enabled' = TRUE
  /\ UNCHANGED <<size, cwriter, creadr, mem, caller, last>>

disable_ITS ==
  /\ pc = "idle"
  /\ enabled' = FALSE
  /\ UNCHANGED <<size, cwriter, creadr, mem, caller, last>>

-----------------------------------------------------------------------------
(* add_ITS_command() *)

AddCommand(r) ==
  /\ pc = "idle"
  /\ req' = r
  /\ qwriter' = cwriter
  /\ pc' = "poll"
  /\ UNCHANGED <<registers, mem, copied, stores, last>>

(* The queue is full when the writer stands at the entry before the reader. *)
Full_never(w) == FALSE
Full_whenEmpty(w) == w = creadr
Full(w) == w = IF creadr = 0 THEN qsize - 1 ELSE creadr - 1

Poll ==
  /\ pc = "poll"
  /\ IF Full(qwriter)
     THEN UNCHANGED <<pc, copied>>
     ELSE pc' = "copy" /\ copied' = 0
  /\ UNCHANGED <<registers, mem, req, qwriter, stores, last>>

Store ==
  /\ pc = "copy"
  /\ copied < 4
  /\ stores' = stores \cup {copied}
  /\ copied' = copied + 1
  /\ UNCHANGED <<registers, mem, pc, req, qwriter, last>>

(* A store reaches memory. *)
Drain(i) ==
  /\ i \in stores
  /\ stores' = stores \ {i}
  /\ mem' = [mem EXCEPT ![<<qwriter, i>>] = Encode(req)[i]]
  /\ UNCHANGED <<registers, pc, req, qwriter, copied, last>>

Drained_ignored == TRUE
Drained == stores = {}

dsb ==
  /\ pc = "copy"
  /\ copied = 4
  /\ Drained
  /\ pc' = "publish"
  /\ UNCHANGED <<registers, mem, req, qwriter, copied, stores, last>>

Advance_noRollOver(w) == w + 1
Advance(w) == IF w + 1 = qsize THEN 0 ELSE w + 1

Publish ==
  /\ pc = "publish"
  /\ cwriter' = Advance(qwriter)
  /\ pc' = "idle"
  /\ UNCHANGED <<size, creadr, enabled, mem, req, qwriter, copied, stores, last>>

-----------------------------------------------------------------------------
(* The ITS: while enabled it executes the command at the read offset and   *)
(* moves the offset on, until it meets the write offset.                   *)
BlockAt(w) == [i \in Part |-> mem[<<w, i>>]]

Execute ==
  /\ enabled
  /\ creadr # cwriter
  /\ last' = BlockAt(creadr)
  /\ creadr' = IF creadr + 1 = qsize THEN 0 ELSE creadr + 1
  /\ UNCHANGED <<size, cwriter, enabled, mem, caller>>

Add == Poll \/ Store \/ dsb \/ Publish

Next ==
  \/ \E p \in Pages : init_ITS_command_queue(p)
  \/ ResetWriter
  \/ enable_ITS
  \/ disable_ITS
  \/ \E r \in Requests : AddCommand(r)
  \/ Add
  \/ \E i \in Part : Drain(i)
  \/ Execute

Spec == Init /\ [][Next]_vars

(* A call that has begun goes on, a store reaches memory, and an enabled   *)
(* ITS works through its queue.                                            *)
Fairness ==
  /\ WF_vars(Add)
  /\ WF_vars(\E i \in Part : Drain(i))
  /\ WF_vars(Execute)

FairSpec == Spec /\ Fairness

-----------------------------------------------------------------------------
(* Correctness. *)

(* Commands published and not executed, and where the k-th of them lies. *)
Count == IF creadr <= cwriter THEN cwriter - creadr ELSE cwriter + qsize - creadr

Position(k) == IF creadr + k - 1 < qsize THEN creadr + k - 1 ELSE creadr + k - 1 - qsize

(* While the queue is being set up again its old commands are gone. *)
Waiting == [k \in 1 .. (IF pc = "base" THEN 0 ELSE Count) |-> BlockAt(Position(k))]

Queue == INSTANCE Fifo WITH
  capacity <- qsize - 1,
  asked <- IF req = None THEN None ELSE Encode(req),
  waiting <- Waiting,
  last <- last

(* The ring implements a bounded queue: each command that was asked for is *)
(* executed once, whole and in order, however the stores of                *)
(* add_ITS_command() and the reads of the ITS interleave.                  *)
ImplementsFifo == Queue!Spec

(* add_ITS_command() writes only to an entry the ITS is not going to read: *)
(* the entry it fills lies outside the published commands until the write  *)
(* of its_cwriter.                                                         *)
FillsFreeEntry ==
  pc \in {"copy", "publish"} =>
    /\ Count < qsize - 1
    /\ \A k \in 1 .. Count : Position(k) # qwriter

(* The inductive invariant: the registers lie in the ring, a call that has *)
(* passed the wait of add_ITS_command() has a free entry, its copy of      *)
(* its_cwriter is the register, and the words that have reached memory are *)
(* those of its command.                                                   *)
RingInv ==
  /\ TypeOK
  /\ creadr < qsize
  /\ pc # "base" => cwriter < qsize
  /\ pc = "base" => creadr = 0 /\ ~enabled
  /\ pc \in {"poll", "copy", "publish"} => qwriter = cwriter /\ req # None
  /\ FillsFreeEntry
  /\ pc # "copy" => stores = {}
  /\ pc = "publish" => copied = 4
  /\ \A i \in stores : i < copied
  /\ pc \in {"copy", "publish"} =>
       \A i \in Part : i < copied /\ i \notin stores =>
         mem[<<qwriter, i>>] = Encode(req)[i]

(* While the ITS is enabled a call of add_ITS_command() returns, the wait  *)
(* for a full queue to empty included.                                     *)
AddReturns == pc \in {"poll", "copy", "publish"} /\ enabled ~> pc = "idle"
=============================================================================
