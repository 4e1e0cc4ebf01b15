---------------------------- MODULE MCInterrupts ----------------------------
(* Instances of Interrupts for TLC: an SGI, an SPI with a built-in handler *)
(* and an LPI.                                                             *)
EXTENDS Interrupts

CONSTANTS h1, h2, a1, a2

MCIrqs == {7, 40, 8193}
MCBuiltin == <<[irq |-> 40, handler |-> h1, arg |-> a1, gen |-> TRUE],
               [irq |-> 7, handler |-> h1, arg |-> a2, gen |-> FALSE]>>
MCRequests == {[irq |-> 40, handler |-> h2, arg |-> a2],
               [irq |-> 7, handler |-> h2, arg |-> a1],
               [irq |-> 8193, handler |-> h2, arg |-> a1],
               [irq |-> 9000, handler |-> h2, arg |-> a1]}
MCLpis == {8193}

(* An LPI and the SPI whose priority byte lies where the driver looks for  *)
(* the enable bit of the LPI.                                              *)
LpiIrqs == {384, 8193}
NoBuiltin == <<>>
LpiRequests == {[irq |-> i, handler |-> h1, arg |-> a1] : i \in LpiIrqs}
=============================================================================
