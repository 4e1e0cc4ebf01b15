--------------------------- MODULE ITSQueueProofs ---------------------------
(***************************************************************************)
(* The ring of ITSQueue is correct for every queue size and every set of   *)
(* commands: its invariant is inductive, and it implements Fifo.           *)
(***************************************************************************)
EXTENDS ITSQueue, TLAPS

(* The size of the queue lies between two entries and the whole memory. *)
LEMMA QueueSize ==
  ASSUME NEW s \in PageField
  PROVE  /\ (s + 1) * PerPage \in Nat
         /\ (s + 1) * PerPage >= 2
         /\ (s + 1) * PerPage <= FieldMod * PerPage
<1>1. PICK m \in Nat : FieldMod = s + 1 + m
  <2>1. FieldMod - s - 1 \in Nat /\ FieldMod = s + 1 + (FieldMod - s - 1)
    BY SizeAssumption DEF PageField
  <2> QED
    BY <2>1
<1>2. s \in Nat /\ PerPage \in Nat /\ PerPage >= 2
  BY SizeAssumption DEF PageField
<1>3. s * PerPage \in Nat /\ m * PerPage \in Nat
  BY <1>1, <1>2
<1>4. (s + 1) * PerPage = s * PerPage + PerPage
  BY <1>2
<1>5. FieldMod * PerPage = s * PerPage + PerPage + m * PerPage
  BY <1>1, <1>2
<1> QED
  BY <1>2, <1>3, <1>4, <1>5

(* The same for the size its_cbaser holds. *)
LEMMA QsizeFacts ==
  ASSUME TypeOK
  PROVE  /\ qsize \in Nat
         /\ qsize >= 2
         /\ qsize <= FieldMod * PerPage
         /\ FieldMod * PerPage \in Nat
  BY QueueSize, SizeAssumption DEF TypeOK, qsize

(* The words of a command are words of the memory. *)
LEMMA EncodeWord ==
  ASSUME NEW r \in Requests, NEW i \in Part
  PROVE  Encode(r)[i] \in Word
  BY DEF Word

(* The initial state. *)
LEMMA RingInit == Init => RingInv
<1> SUFFICES ASSUME Init PROVE RingInv
  OBVIOUS
<1>1. 0 \in PageField
  BY SizeAssumption DEF PageField
<1>2. /\ 1 * PerPage \in Nat
      /\ 1 * PerPage >= 2
      /\ 1 * PerPage <= FieldMod * PerPage
  BY <1>1, QueueSize
<1>3. FieldMod * PerPage \in Nat
  BY SizeAssumption
<1>4. TypeOK
  <2>1. 0 \in Slot
    BY <1>2, <1>3 DEF Slot
  <2>2. None \in Word
    BY DEF Word
  <2>3. mem \in [Slot \X Part -> Word]
    BY <2>2 DEF Init
  <2>4. enabled \in BOOLEAN
    BY DEF Init
  <2>5. /\ size \in PageField
        /\ cwriter \in Slot
        /\ creadr \in Slot
        /\ qwriter \in Slot
        /\ copied \in 0 .. 4
    BY <1>1, <2>1 DEF Init
  <2>6. /\ pc \in {"idle", "base", "poll", "copy", "publish"}
        /\ req \in Requests \cup {None}
        /\ stores \subseteq Part
    BY DEF Init
  <2> QED
    BY <2>3, <2>4, <2>5, <2>6 DEF TypeOK
<1> QED
  BY <1>2, <1>4 DEF Init, RingInv, FillsFreeEntry, qsize

-----------------------------------------------------------------------------
(* Every step preserves the invariant. *)

(* One step per action of add_ITS_command(), of the memory and of the ITS. *)
LEMMA RingStep ==
  ASSUME RingInv, [Next]_vars
  PROVE  RingInv'
<1> USE DEF RingInv
<1>0. /\ qsize \in Nat
      /\ qsize >= 2
      /\ qsize <= FieldMod * PerPage
      /\ FieldMod * PerPage \in Nat
  BY QsizeFacts
<1>1. CASE UNCHANGED vars
  BY <1>1 DEF vars, registers, caller, TypeOK, FillsFreeEntry, Count, Position, qsize
<1>2. ASSUME NEW p \in Pages, init_ITS_command_queue(p) PROVE RingInv'
  <2>1. CASE p % FieldMod = 0
    BY <1>2, <2>1 DEF init_ITS_command_queue, TypeOK, FillsFreeEntry, Count, Position, qsize
  <2>2. CASE p % FieldMod # 0
    <3>1. size' \in PageField
      BY <1>2, <2>2, SizeAssumption DEF init_ITS_command_queue, PageField
    <3>2. qsize' \in Nat /\ qsize' >= 2
      BY <3>1, QueueSize DEF qsize
    <3>3. TypeOK'
      BY <1>0, <1>2, <2>2, <3>1 DEF init_ITS_command_queue, TypeOK, Slot
    <3> QED
      BY <1>2, <2>2, <3>2, <3>3 DEF init_ITS_command_queue, FillsFreeEntry
  <2> QED
    BY <2>1, <2>2
<1>3. CASE ResetWriter
  BY <1>0, <1>3 DEF ResetWriter, TypeOK, FillsFreeEntry, qsize, Slot
<1>4. CASE enable_ITS
  BY <1>4 DEF enable_ITS, caller, TypeOK, FillsFreeEntry, qsize
<1>5. CASE disable_ITS
  BY <1>5 DEF disable_ITS, caller, TypeOK, FillsFreeEntry, qsize
<1>6. ASSUME NEW r \in Requests, AddCommand(r) PROVE RingInv'
  BY <1>6, NoneAssumption DEF AddCommand, registers, TypeOK, FillsFreeEntry, qsize
<1>7. CASE Poll
  <2>1. CASE Full(qwriter)
    BY <1>7, <2>1 DEF Poll, registers, TypeOK, FillsFreeEntry, qsize, Count, Position
  <2>2. CASE ~Full(qwriter)
    <3>1. TypeOK' /\ qsize' = qsize /\ Count' = Count /\ qwriter' = cwriter /\ cwriter' = cwriter /\ creadr' = creadr
      BY <1>7, <2>2 DEF Poll, registers, TypeOK, qsize, Count
    <3>2. Count < qsize - 1
      BY <1>0, <1>7, <2>2 DEF Poll, Full, Count, TypeOK, Slot
    <3>3. \A k \in 1 .. Count : Position(k) # cwriter
      BY <1>0, <1>7, <3>2 DEF Poll, Count, Position, TypeOK, Slot
    <3>4. \A k : Position(k)' = Position(k)
      BY <3>1 DEF Position
    <3>5. FillsFreeEntry'
      BY <3>1, <3>2, <3>3, <3>4 DEF FillsFreeEntry
    <3> QED
      BY <1>7, <2>2, <3>1, <3>5 DEF Poll, registers, Part
  <2> QED
    BY <2>1, <2>2
<1>8. CASE Store
  BY <1>8 DEF Store, registers, TypeOK, FillsFreeEntry, qsize, Count, Position, Part
<1>9. ASSUME NEW i \in Part, Drain(i) PROVE RingInv'
  <2>1. req \in Requests /\ pc = "copy"
    BY <1>9 DEF Drain, TypeOK
  <2>2. TypeOK'
    BY <1>9, <2>1, EncodeWord DEF Drain, registers, TypeOK
  <2>3. FillsFreeEntry'
    BY <1>9 DEF Drain, registers, FillsFreeEntry, qsize, Count, Position
  <2>4. \A j \in Part : mem'[<<qwriter, j>>] = IF j = i THEN Encode(req)[i] ELSE mem[<<qwriter, j>>]
    BY <1>9 DEF Drain, TypeOK
  <2> QED
    BY <1>9, <2>1, <2>2, <2>3, <2>4 DEF Drain, registers, qsize
<1>10. CASE dsb
  BY <1>10 DEF dsb, Drained, registers, TypeOK, FillsFreeEntry, qsize, Count, Position
<1>11. CASE Publish
  BY <1>0, <1>11 DEF Publish, Advance, TypeOK, FillsFreeEntry, qsize, Slot
<1>12. CASE Execute
  <2>1. /\ qsize' = qsize
        /\ cwriter' = cwriter
        /\ creadr' = IF creadr + 1 = qsize THEN 0 ELSE creadr + 1
        /\ UNCHANGED <<size, enabled, mem, pc, req, qwriter, copied, stores>>
        /\ creadr # cwriter
        /\ enabled
    BY <1>12 DEF Execute, caller, qsize
  <2>2. pc # "base" /\ cwriter < qsize
    BY <2>1
  <2>3. TypeOK' /\ creadr' < qsize
    BY <1>0, <2>1 DEF TypeOK, Slot
  <2>4. FillsFreeEntry'
    BY <1>0, <2>1, <2>2 DEF FillsFreeEntry, Count, Position, TypeOK, Slot
  <2> QED
    BY <2>1, <2>2, <2>3, <2>4
<1> QED
  BY <1>1, <1>2, <1>3, <1>4, <1>5, <1>6, <1>7, <1>8, <1>9, <1>10, <1>11, <1>12 DEF Next, Add

(* In every reachable state the entry add_ITS_command() fills is free and  *)
(* the ring is well formed.                                                *)
THEOREM RingCorrect == Spec => []RingInv
<1>1. RingInv /\ [Next]_vars => RingInv'
  BY RingStep
<1> QED
  BY <1>1, RingInit, PTL DEF Spec

(* add_ITS_command() fills an entry that holds no published command, with  *)
(* another one left free, however its steps and the reads of the ITS mix.  *)
THEOREM FreeEntry == Spec => []FillsFreeEntry
<1>1. RingInv => FillsFreeEntry
  BY DEF RingInv
<1> QED
  BY <1>1, RingCorrect, PTL

-----------------------------------------------------------------------------
(* The ring implements the queue. *)

(* What waits is a sequence. *)
Sequenced ==
  /\ Count \in Nat
  /\ Len(Waiting) = IF pc = "base" THEN 0 ELSE Count
  /\ Waiting \in Seq([Part -> Word])
  /\ DOMAIN Waiting = 1 .. Len(Waiting)
  /\ \A k \in 1 .. Len(Waiting) : /\ Position(k) \in Slot
                                 /\ Waiting[k] = BlockAt(Position(k))

(* The entries between its_creadr and its_cwriter, in order. *)
LEMMA WaitingSeq == RingInv => Sequenced
<1> SUFFICES ASSUME RingInv PROVE Sequenced
  OBVIOUS
<1> DEFINE n == IF pc = "base" THEN 0 ELSE Count
<1>1. Count \in Nat /\ (pc # "base" => Count < qsize)
  BY QsizeFacts DEF RingInv, TypeOK, Count, Slot
<1>2. n \in Nat
  BY <1>1
<1>3. \A k \in 1 .. n : Position(k) \in Slot
  BY <1>1, QsizeFacts DEF RingInv, TypeOK, Position, Slot
<1>4. \A k \in 1 .. n : BlockAt(Position(k)) \in [Part -> Word]
  BY <1>3 DEF BlockAt, RingInv, TypeOK
<1>5. Waiting = [k \in 1 .. n |-> BlockAt(Position(k))]
  BY DEF Waiting
<1> HIDE DEF n
<1>6. Waiting \in Seq([Part -> Word]) /\ Len(Waiting) = n /\ DOMAIN Waiting = 1 .. n
  BY <1>2, <1>4, <1>5
<1> QED
  BY <1>1, <1>3, <1>5, <1>6 DEF n, Sequenced

(* The same after a step. *)
LEMMA WaitingSeqNext == RingInv' => Sequenced'
  BY WaitingSeq, PTL

(* A command block has the four words of its request. *)
LEMMA EncodeBlock ==
  ASSUME NEW r
  PROVE  Encode(r) = [i \in Part |-> Encode(r)[i]]
<1>1. \A w0, w1, w2 : Block(w0, w1, w2) = [i \in Part |-> Block(w0, w1, w2)[i]]
  BY DEF Block
<1>2. \E w0, w1, w2 : Encode(r) = Block(w0, w1, w2)
  BY DEF Encode, add_ITS_INT, add_ITS_INV, add_ITS_INVALL, add_ITS_MAPC, add_ITS_MAPD,
         add_ITS_MAPI, Add_ITS_MAPTI, add_ITS_SYNC
<1> QED
  BY <1>1, <1>2

(* A step that keeps the registers and what the waiting entries hold keeps *)
(* what waits.                                                             *)
LEMMA WaitingSame ==
  ASSUME RingInv, UNCHANGED <<size, cwriter, creadr>>, (pc = "base") <=> (pc' = "base"),
         \A k \in 1 .. Len(Waiting) : \A i \in Part :
           mem'[<<Position(k), i>>] = mem[<<Position(k), i>>]
  PROVE  Waiting' = Waiting
<1>1. /\ qsize' = qsize
      /\ Count' = Count
      /\ \A k : Position(k)' = Position(k)
  BY DEF qsize, Count, Position
<1>2. \A k \in 1 .. Len(Waiting) : BlockAt(Position(k))' = BlockAt(Position(k))
  BY <1>1 DEF BlockAt
<1> QED
  BY <1>1, <1>2, WaitingSeq DEF Waiting, Sequenced

(* The empty ring is the empty queue. *)
LEMMA QueueInit == Init => Queue!Init
  BY DEF Init, Queue!Init, Waiting, Count, qsize

(* Every step of the ring is a step of the queue or a stutter. *)
LEMMA QueueStep ==
  ASSUME RingInv, RingInv', [Next]_vars
  PROVE  [Queue!Next]_(Queue!vars)
<1> DEFINE Asked == IF req = None THEN None ELSE Encode(req)
<1> DEFINE Kept == Waiting' = Waiting /\ last' = last /\ qsize' = qsize
<1>0. /\ qsize \in Nat
      /\ qsize >= 2
      /\ qsize <= FieldMod * PerPage
      /\ FieldMod * PerPage \in Nat
  BY QsizeFacts DEF RingInv
<1>1. ASSUME Kept, req' = req PROVE UNCHANGED Queue!vars
  BY <1>1 DEF Queue!vars
<1>2. ASSUME Kept PROVE Queue!Ask
  BY <1>2 DEF Queue!Ask
<1>3. ASSUME Waiting' = <<>>, last' = last, req' = req PROVE Queue!Reset
  BY <1>3 DEF Queue!Reset
<1>4. CASE UNCHANGED vars
  BY <1>1, <1>4, WaitingSame DEF vars, registers, caller, qsize
<1>5. ASSUME NEW p \in Pages, init_ITS_command_queue(p)
      PROVE  [Queue!Next]_(Queue!vars)
  <2>1. CASE p % FieldMod = 0
    BY <1>1, <1>5, <2>1, WaitingSame DEF init_ITS_command_queue, qsize
  <2>2. CASE p % FieldMod # 0
    <3>1. pc' = "base" /\ last' = last /\ req' = req
      BY <1>5, <2>2 DEF init_ITS_command_queue
    <3>2. Waiting' = <<>>
      BY <3>1 DEF Waiting
    <3> QED
      BY <1>3, <3>1, <3>2 DEF Queue!Next
  <2> QED
    BY <2>1, <2>2
<1>6. CASE ResetWriter
  <2>1. Count' = 0
    BY <1>6 DEF ResetWriter, RingInv, Count
  <2>2. Waiting' = <<>> /\ last' = last /\ req' = req
    BY <1>6, <2>1 DEF ResetWriter, Waiting
  <2> QED
    BY <1>3, <2>2 DEF Queue!Next
<1>7. CASE enable_ITS \/ disable_ITS
  BY <1>1, <1>7, WaitingSame DEF enable_ITS, disable_ITS, caller, qsize
<1>8. ASSUME NEW r \in Requests, AddCommand(r) PROVE Queue!Ask
  BY <1>2, <1>8, WaitingSame DEF AddCommand, registers, qsize
<1>9. CASE Poll
  <2>1. pc = "poll" /\ pc' # "base"
    BY <1>9 DEF Poll
  <2> QED
    BY <1>1, <1>9, <2>1, WaitingSame DEF Poll, registers, qsize
<1>10. CASE Store \/ dsb
  BY <1>1, <1>10, WaitingSame DEF Store, dsb, registers, qsize
<1>11. ASSUME NEW i \in Part, Drain(i) PROVE UNCHANGED Queue!vars
  <2>1. pc = "copy" /\ i \in stores
    BY <1>11 DEF Drain, RingInv
  <2>2. \A k \in 1 .. Len(Waiting) : Position(k) # qwriter
    BY <2>1, WaitingSeq DEF RingInv, FillsFreeEntry, Sequenced
  <2>3. \A k \in 1 .. Len(Waiting) : \A j \in Part :
          mem'[<<Position(k), j>>] = mem[<<Position(k), j>>]
    BY <1>11, <2>2, WaitingSeq DEF Drain, RingInv, TypeOK, Sequenced
  <2> QED
    BY <1>1, <1>11, <2>3, WaitingSame DEF Drain, registers, qsize
<1>12. CASE Publish
  <2>1. /\ pc = "publish"
        /\ pc' = "idle"
        /\ cwriter' = IF cwriter + 1 = qsize THEN 0 ELSE cwriter + 1
        /\ UNCHANGED <<size, creadr, mem, req, last>>
        /\ qsize' = qsize
    BY <1>12 DEF Publish, Advance, RingInv, qsize
  <2>2. Count < qsize - 1 /\ Count \in Nat
    BY <2>1, WaitingSeq DEF RingInv, FillsFreeEntry, Sequenced
  <2>3. Count' = Count + 1
    BY <1>0, <2>1, <2>2 DEF Count, RingInv, TypeOK, Slot
  <2>4. /\ Len(Waiting) = Count
        /\ Len(Waiting') = Count + 1
        /\ Waiting \in Seq([Part -> Word])
        /\ Waiting' \in Seq([Part -> Word])
        /\ \A k \in 1 .. Count : Waiting[k] = BlockAt(Position(k))
        /\ \A k \in 1 .. Count + 1 : Waiting'[k] = BlockAt(Position(k))'
    <3>1. /\ Len(Waiting') = Count'
          /\ Waiting' \in Seq([Part -> Word])
          /\ \A k \in 1 .. Len(Waiting') : Waiting'[k] = BlockAt(Position(k))'
      BY <2>1, WaitingSeqNext DEF Sequenced
    <3> QED
      BY <2>1, <2>3, <3>1, WaitingSeq DEF Sequenced
  <2>5. \A k : Position(k)' = Position(k)
    BY <2>1 DEF Position
  <2>6. \A k \in 1 .. Count + 1 : Waiting'[k] = BlockAt(Position(k))
    BY <2>1, <2>4, <2>5 DEF BlockAt
  <2>7. Position(Count + 1) = qwriter
    BY <1>0, <2>1, <2>2 DEF Position, Count, RingInv, TypeOK, Slot
  <2>8. req \in Requests /\ req # None
    BY <2>1 DEF RingInv, TypeOK
  <2>9. Waiting'[Count + 1] = Encode(req)
    <3>1. Waiting'[Count + 1] = BlockAt(qwriter)
      BY <2>2, <2>6, <2>7
    <3>2. \A i \in Part : mem[<<qwriter, i>>] = Encode(req)[i]
      BY <2>1 DEF RingInv, Part
    <3> QED
      BY <3>1, <3>2, EncodeBlock DEF BlockAt
  <2>10. Waiting' = Append(Waiting, Encode(req))
    BY <2>2, <2>4, <2>6, <2>9
  <2>11. Queue!Put
    BY <2>1, <2>2, <2>4, <2>8, <2>10 DEF Queue!Put
  <2> QED
    BY <2>11 DEF Queue!Next
<1>13. CASE Execute
  <2>1. /\ creadr # cwriter
        /\ pc # "base"
        /\ creadr' = IF creadr + 1 = qsize THEN 0 ELSE creadr + 1
        /\ last' = BlockAt(creadr)
        /\ UNCHANGED <<size, cwriter, mem, pc, req>>
        /\ qsize' = qsize
    BY <1>13 DEF Execute, caller, RingInv, qsize
  <2>2. Count \in Nat /\ Count > 0
    BY <1>0, <2>1 DEF Count, RingInv, TypeOK, Slot
  <2>3. Count' = Count - 1
    BY <1>0, <2>1, <2>2 DEF Count, RingInv, TypeOK, Slot
  <2>4. /\ Len(Waiting) = Count
        /\ Len(Waiting') = Count - 1
        /\ Waiting \in Seq([Part -> Word])
        /\ Waiting' \in Seq([Part -> Word])
        /\ \A k \in 1 .. Count : Waiting[k] = BlockAt(Position(k))
        /\ \A k \in 1 .. Count - 1 : Waiting'[k] = BlockAt(Position(k))'
    BY <2>1, <2>3, WaitingSeq, WaitingSeqNext DEF Sequenced
  <2>5. \A k \in 1 .. Count - 1 : Position(k)' = Position(k + 1)
    BY <1>0, <2>1, <2>2 DEF Position, Count, RingInv, TypeOK, Slot
  <2>6. \A k \in 1 .. Count - 1 : Waiting'[k] = Waiting[k + 1]
    <3> SUFFICES ASSUME NEW k \in 1 .. Count - 1 PROVE Waiting'[k] = Waiting[k + 1]
      OBVIOUS
    <3>1. k + 1 \in 1 .. Count
      BY <2>2
    <3>2. BlockAt(Position(k))' = BlockAt(Position(k + 1))
      BY <2>1, <2>5 DEF BlockAt
    <3> QED
      BY <2>4, <3>1, <3>2
  <2>7. Waiting' = Tail(Waiting)
    <3>1. /\ Tail(Waiting) \in Seq([Part -> Word])
          /\ Len(Tail(Waiting)) = Count - 1
          /\ \A k \in 1 .. Count - 1 : Tail(Waiting)[k] = Waiting[k + 1]
      BY <2>2, <2>4
    <3> QED
      BY <2>2, <2>4, <2>6, <3>1
  <2>8. Position(1) = creadr
    BY <1>0 DEF Position, RingInv, TypeOK, Slot
  <2>9. Waiting # <<>> /\ Head(Waiting) = BlockAt(creadr)
    BY <2>2, <2>4, <2>8
  <2>10. Queue!Take
    BY <2>1, <2>7, <2>9 DEF Queue!Take
  <2> QED
    BY <2>10 DEF Queue!Next
<1> QED
  BY <1>4, <1>5, <1>6, <1>7, <1>8, <1>9, <1>10, <1>11, <1>12, <1>13 DEF Next, Add, Queue!Next

(* The command queue implements Fifo: each command is executed once, whole *)
(* and in order.                                                           *)
THEOREM RingRefinement == Spec => ImplementsFifo
<1>1. RingInv /\ RingInv' /\ [Next]_vars => [Queue!Next]_(Queue!vars)
  BY QueueStep
<1> QED
  BY <1>1, QueueInit, RingCorrect, PTL DEF Spec, ImplementsFifo, Queue!Spec
=============================================================================
