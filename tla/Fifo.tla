-------------------------------- MODULE Fifo --------------------------------
(***************************************************************************)
(* What a command queue promises: what is asked for is executed once, in   *)
(* the order of asking, and no more than capacity commands wait.  A reset  *)
(* of the queue drops the commands that wait.                              *)
(***************************************************************************)
EXTENDS Naturals, Sequences

VARIABLES
  capacity,  \* how many commands may wait
  asked,     \* the command a caller is adding
  waiting,   \* the commands added and not executed
  last       \* the command executed last

vars == <<capacity, asked, waiting, last>>

Init == waiting = <<>>

Ask == UNCHANGED <<capacity, waiting, last>>

Put ==
  /\ Len(waiting) < capacity
  /\ waiting' = Append(waiting, asked)
  /\ UNCHANGED <<capacity, asked, last>>

Take ==
  /\ waiting # <<>>
  /\ last' = Head(waiting)
  /\ waiting' = Tail(waiting)
  /\ UNCHANGED <<capacity, asked>>

Reset ==
  /\ waiting' = <<>>
  /\ UNCHANGED <<asked, last>>

Next == Ask \/ Put \/ Take \/ Reset

Spec == Init /\ [][Next]_vars
=============================================================================
