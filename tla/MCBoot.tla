------------------------------- MODULE MCBoot -------------------------------
(* A small board: tables of two entries, nine memory maps with regions side *)
(* by side, nested and overlapping, an image of 17 words that runs at       *)
(* another address than the one it is linked at, and so little RAM that the *)
(* heap has to shrink for the largest tables.                               *)
EXTENDS Boot

R(v, s, o, a) == [virt |-> v, phys |-> v + o, size |-> s, attr |-> <<a, 0>>]

MCMaps == {
  <<R(0, 4, 0, 1)>>,
  <<R(0, 3, 8, 1)>>,
  <<R(4, 12, 0, 1)>>,
  <<R(1, 1, 4, 1), R(2, 1, 0, 2)>>,
  <<R(0, 6, 0, 1), R(6, 2, 0, 2)>>,
  <<R(0, 4, 4, 1), R(1, 1, 0, 2)>>,
  <<R(0, 8, 4, 1), R(3, 4, 0, 2)>>,
  <<R(1, 2, 0, 1), R(0, 4, 0, 2), R(1, 2, 4, 1)>>,
  <<R(0, 16, 0, 1), R(5, 2, 4, 2), R(9, 1, 0, 2)>>}

MCTargets == {<<0, 4>>, <<0, 1>>, <<1, 2>>, <<2, 2>>, <<0, 3>>}
MCAttrs == {<<3, 0>>, <<4, 1>>}

(* Two pointers to the bss, its literals, and an entry of another type. *)
MCRelocs == << <<3, TRUE, 14>>, <<0, FALSE, 2>>, <<4, TRUE, 17>> >>
MCBssLits == <<3, 4>>
=============================================================================
