----------------------------- MODULE MCITSQueue -----------------------------
(* Instances of ITSQueue for TLC. *)
EXTENDS ITSQueue

(* One request of each kind. *)
EveryRequest ==
  {[op |-> "INT", device |-> 1, event |-> 2],
   [op |-> "INV", device |-> 1, event |-> 2],
   [op |-> "INVALL", icid |-> 65535],
   [op |-> "MAPC", rdbase |-> 131072, icid |-> 65535],
   [op |-> "MAPD", device |-> 1, size |-> 31, itt |-> 512],
   [op |-> "MAPI", device |-> 1, event |-> 2, icid |-> 3],
   [op |-> "MAPTI", device |-> 1, event |-> 2, intid |-> 8192, icid |-> 3],
   [op |-> "SYNC", rdbase |-> 131072]}

ASSUME EveryRequestDecodes == \A r \in EveryRequest : Decode(Encode(r)) = r

TwoRequests ==
  {[op |-> "MAPTI", device |-> 1, event |-> 2, intid |-> 8192, icid |-> 3],
   [op |-> "MAPC", rdbase |-> 131072, icid |-> 65535]}
=============================================================================
