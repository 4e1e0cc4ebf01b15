----------------------------- MODULE ITSCommand -----------------------------
(***************************************************************************)
(* The command blocks of module/gicv3/gicv3_its.c: four words of two or    *)
(* three fields each.  A request is what a caller asks for; Encode is the  *)
(* block the add_ITS_* functions build for it; Decode is how the ITS reads *)
(* a block.  Fields that share a word occupy disjoint bits of it, so a     *)
(* word is a record of its fields.                                         *)
(***************************************************************************)
EXTENDS Naturals

Part == 0 .. 3                        \* index into raw_cmd64

Icid(x) == x % 65536                  \* GENMASK_ULL(15, 0)
Size(x) == x % 32                     \* GENMASK_ULL(4, 0)
Rdbase(x) == x \div 65536             \* GENMASK_ULL(50, 16), below bit 51
IttAddr(x) == x \div 256              \* GENMASK_ULL(51, 8), below bit 52

Low(op, device) == [op |-> op, device |-> device]
Second(event, intid) == [event |-> event, intid |-> intid]
Third(valid, addr, icid) == [valid |-> valid, addr |-> addr, icid |-> icid]

Zero == [zero |-> 0]

Block(w0, w1, w2) == [i \in Part |-> CASE i = 0 -> w0 [] i = 1 -> w1
                                       [] i = 2 -> w2 [] OTHER -> Zero]

add_ITS_INT(r) == Block(Low("INT", r.device), Second(r.event, 0), Third(0, 0, 0))
add_ITS_INV(r) == Block(Low("INV", r.device), Second(r.event, 0), Third(0, 0, 0))
add_ITS_INVALL(r) == Block(Low("INVALL", 0), Second(0, 0), Third(0, 0, Icid(r.icid)))
add_ITS_MAPC(r) ==
  Block(Low("MAPC", 0), Second(0, 0), Third(1, Rdbase(r.rdbase), Icid(r.icid)))
add_ITS_MAPD(r) ==
  Block(Low("MAPD", r.device), Second(Size(r.size), 0), Third(1, IttAddr(r.itt), 0))
add_ITS_MAPI(r) ==
  Block(Low("MAPI", r.device), Second(r.event, 0), Third(0, 0, Icid(r.icid)))
Add_ITS_MAPTI(r) ==
  Block(Low("MAPTI", r.device), Second(r.event, r.intid), Third(0, 0, Icid(r.icid)))
add_ITS_SYNC(r) == Block(Low("SYNC", 0), Second(0, 0), Third(0, Rdbase(r.rdbase), 0))

Encode(r) ==
  CASE r.op = "INT" -> add_ITS_INT(r)
    [] r.op = "INV" -> add_ITS_INV(r)
    [] r.op = "INVALL" -> add_ITS_INVALL(r)
    [] r.op = "MAPC" -> add_ITS_MAPC(r)
    [] r.op = "MAPD" -> add_ITS_MAPD(r)
    [] r.op = "MAPI" -> add_ITS_MAPI(r)
    [] r.op = "MAPTI" -> Add_ITS_MAPTI(r)
    [] OTHER -> add_ITS_SYNC(r)

(* The fields the ITS takes from a block, by the command number in it. *)
Decode(b) ==
  LET op == b[0].op
  IN CASE op \in {"INT", "INV"} ->
            [op |-> op, device |-> b[0].device, event |-> b[1].event]
       [] op = "INVALL" -> [op |-> op, icid |-> b[2].icid]
       [] op = "MAPC" -> [op |-> op, rdbase |-> b[2].addr * 65536, icid |-> b[2].icid]
       [] op = "MAPD" -> [op |-> op, device |-> b[0].device,
                          size |-> b[1].event, itt |-> b[2].addr * 256]
       [] op = "MAPI" -> [op |-> op, device |-> b[0].device,
                          event |-> b[1].event, icid |-> b[2].icid]
       [] op = "MAPTI" -> [op |-> op, device |-> b[0].device, event |-> b[1].event,
                           intid |-> b[1].intid, icid |-> b[2].icid]
       [] OTHER -> [op |-> op, rdbase |-> b[2].addr * 65536]
=============================================================================
