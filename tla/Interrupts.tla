----------------------------- MODULE Interrupts -----------------------------
(***************************************************************************)
(* Interrupt registration and dispatch: common/interrupt.c, the GICv3      *)
(* driver calls it makes (module/gicv3) and the exception path from the    *)
(* IRQ vector to the registered handler.                                   *)
(*                                                                         *)
(* Interrupts carry their real numbers: 0..15 SGIs, 16..31 PPIs (both in   *)
(* the redistributor), 32..1019 SPIs, 8192 and up LPIs.  The set-bit       *)
(* registers of the GIC are addressed as the driver addresses them, by     *)
(* word and bit, so that a write meant for an interrupt the register file  *)
(* does not hold lands where it lands in the hardware.                     *)
(*                                                                         *)
(* The monitor runs with interrupts enabled once interrupt_init() is over; *)
(* an exception may come between any two of its steps, runs with           *)
(* interrupts masked and handles one interrupt.                            *)
(***************************************************************************)
EXTENDS Integers, Sequences

CONSTANTS
  Irqs,        \* the interrupts modelled, by number
  GicIrqs,     \* gic_data.gic_irqs, from GICD_TYPER
  Builtin,     \* the .section_irq_table entries [irq, handler, arg, gen]
  Requests,    \* what clients install: a set of [irq, handler, arg]
  LpiEnabled,  \* LPIs enabled in the LPI configuration table
  ResetPrio,   \* priority of an interrupt before gic_init() writes it
  MaxRaises,   \* bound on the number of interrupts raised by devices
  NULL

LPI_IRQ_MIN == 8192
MAX_IRQ_ID == LPI_IRQ_MIN + 32
Special == 1020                      \* 1020..1023 are no interrupts
DefPrio == 160                       \* GICD_INT_DEF_PRI, 0xa0

ASSUME IrqsAssumption ==
  /\ Irqs \subseteq (0 .. Special - 1) \cup (LPI_IRQ_MIN .. MAX_IRQ_ID - 1)
  /\ \A i \in LpiEnabled : i \in Irqs /\ i >= LPI_IRQ_MIN
  /\ GicIrqs \in 32 .. Special
  /\ \A i \in Irqs : i < Special => i < GicIrqs
  /\ ResetPrio \in 0 .. 255
  /\ MaxRaises \in Nat

(* Everything a client or the built-in table may ask to register. *)
Builtins == {[irq |-> Builtin[k].irq, handler |-> Builtin[k].handler, arg |-> Builtin[k].arg]
               : k \in DOMAIN Builtin}
Handlers == {r.handler : r \in Requests \cup Builtins}
Args == {r.arg : r \in Requests \cup Builtins}

ASSUME RequestsAssumption ==
  /\ Builtin \in Seq([irq : Nat, handler : Handlers, arg : Args, gen : BOOLEAN])
  /\ \A r \in Requests \cup Builtins :
       /\ r \in [irq : Nat, handler : Handlers, arg : Args]
       /\ r.handler # NULL
       /\ r.irq < MAX_IRQ_ID => r.irq \in Irqs

ASSUME NullAssumption == NULL \notin Irqs

VARIABLES
  handler, arg,   \* irq_handler_tab[].handler and .arg
  enabled, pending, active,  \* GICD_/GICR_ ISENABLER, ISPENDR, ISACTIVER
  prio,     \* GICD_IPRIORITYR
  running,  \* interrupts acknowledged whose priority is not dropped yet
  eoimode,  \* ICC_CTLR_EL1.EOImode: "drop_dir" or "drop"
  ready,    \* does the redistributor of this core forward interrupts?
  line,     \* level-sensitive interrupts whose device asserts them
  masked,   \* PSTATE.I of the monitor
  mpc, mreq, mtodo, mrest,   \* the monitor: label, request, stores, entries
  ipc, irqnr,                \* the exception: label and acknowledged id
  raises,   \* interrupts raised so far
  fresh     \* history: had mreq.irq no handler when its registration began?

tab == <<handler, arg>>
gic == <<enabled, pending, active, prio, running, eoimode, ready>>
monitor == <<masked, mpc, mreq, mtodo, mrest>>
exception == <<ipc, irqnr>>
vars == <<tab, gic, line, monitor, exception, raises, fresh>>

Level(i) == 16 <= i /\ i < Special
Lpi(i) == i >= LPI_IRQ_MIN
InRdist(i) == i < 32                 \* gic_irq_in_rdist()

-----------------------------------------------------------------------------
(* The register file: word offsets of the set-bit registers. *)
ISENABLER == 64
ICENABLER == 96
ICACTIVER == 224
IPRIORITYR == 256

(* Does a write of bit irq % 32 of word reg + irq / 32 of irq's frame set  *)
(* the bit that register bank holds for interrupt i?                       *)
Hits(irq, reg, bank, i) ==
  /\ InRdist(i) <=> InRdist(irq)
  /\ ~Lpi(i)
  /\ bank + (i \div 32) = reg + (irq \div 32)
  /\ i % 32 = irq % 32

(* The priority byte of interrupt i after that write: a word of four.      *)
BIT == <<1, 2, 4, 8, 16, 32, 64, 128>>
PrioAfter(irq, reg, i) ==
  IF /\ InRdist(i) <=> InRdist(irq)
     /\ ~Lpi(i)
     /\ IPRIORITYR + (i \div 4) = reg + (irq \div 32)
  THEN IF (irq % 32) \div 8 = i % 4 THEN BIT[(irq % 8) + 1] ELSE 0
  ELSE prio[i]

(* gic_poke_irq(), with the wait for the write to take effect. *)
gic_poke_irq(irq, reg) ==
  /\ enabled' = (enabled \cup {i \in Irqs : Hits(irq, reg, ISENABLER, i)})
                  \ {i \in Irqs : Hits(irq, reg, ICENABLER, i)}
  /\ active' = active \ {i \in Irqs : Hits(irq, reg, ICACTIVER, i)}
  /\ prio' = [i \in Irqs |-> PrioAfter(irq, reg, i)]
  /\ UNCHANGED <<pending, running, eoimode, ready>>

enable_irq(irq) == gic_poke_irq(irq, ISENABLER)
disable_irq_deactivates(irq) == gic_poke_irq(irq, ICACTIVER)
disable_irq(irq) == gic_poke_irq(irq, ICENABLER)
gicv3_clean_active_irq_missing(irq) == UNCHANGED gic
gicv3_clean_active_irq(irq) == gic_poke_irq(irq, ICACTIVER)

-----------------------------------------------------------------------------
TypeOK ==
  /\ handler \in [Irqs -> Handlers \cup {NULL}]
  /\ arg \in [Irqs -> Args \cup {NULL}]
  /\ enabled \subseteq Irqs /\ pending \subseteq Irqs /\ active \subseteq Irqs
  /\ running \subseteq Irqs /\ line \subseteq {i \in Irqs : Level(i)}
  /\ prio \in [Irqs -> 0 .. 255]
  /\ eoimode \in {"drop_dir", "drop"}
  /\ ready \in BOOLEAN /\ masked \in BOOLEAN
  /\ mpc \in {"boot", "unregister", "store", "enable", "scan", "idle", "hang"}
  /\ ipc \in {"none", "entry", "acked", "dropped", "called"}
  /\ mpc \in {"unregister", "store", "enable"} => mreq.irq \in Irqs
  /\ mtodo \subseteq {"handler", "arg"}
  /\ irqnr \in Irqs \cup {NULL}
  /\ raises \in 0 .. MaxRaises
  /\ fresh \in BOOLEAN

Init ==
  /\ handler = [i \in Irqs |-> NULL]
  /\ arg = [i \in Irqs |-> NULL]
  /\ enabled \in SUBSET {i \in Irqs : ~Lpi(i)}
  /\ pending = {} /\ active \in {{}, {i \in Irqs : ~Lpi(i)}}
  /\ prio = [i \in Irqs |-> ResetPrio]
  /\ running = {} /\ eoimode = "drop_dir" /\ ready = FALSE
  /\ line = {}
  /\ masked = TRUE
  /\ mpc = "boot" /\ mreq = NULL /\ mtodo = {} /\ mrest = <<>>
  /\ ipc = "none" /\ irqnr = NULL
  /\ raises = 0
  /\ fresh = FALSE

-----------------------------------------------------------------------------
(* interrupt_init(): interrupts are masked, the GIC is set up and the      *)
(* table of built-in handlers registered.                                  *)

(* gic_dist_init() and gic_dist_config(): SPIs inactive, disabled, and the *)
(* words GIC_DIST_PRI + i / 8 written for i = 32, 64, ...                  *)
Spi(i) == 32 <= i /\ i < GicIrqs
PrioWritten(i) == \E k \in 1 .. (GicIrqs - 1) \div 32 : i \div 4 = k

(* gic_cpu_config(): SGIs enabled, PPIs disabled, all of them inactive and *)
(* of the default priority.                                                *)
DistConfigured == {i \in Irqs : Spi(i)}
CpuConfigured == {i \in Irqs : InRdist(i)}

ConfigRegs(configured) ==
  /\ enabled' = (enabled \ configured) \cup {i \in configured : i < 16}
  /\ active' = active \ configured
  /\ prio' = [i \in Irqs |->
       IF i \in configured /\ (InRdist(i) \/ PrioWritten(i)) THEN DefPrio ELSE prio[i]]

(* gic_init().  Without a distributor, or when the system registers cannot *)
(* be enabled, it panics; without a redistributor gic_cpu_init() returns   *)
(* early; a redistributor that does not wake up is only reported.          *)
gic_init ==
  /\ mpc = "boot"
  /\ \/ /\ mpc' = "hang"
        /\ UNCHANGED <<enabled, active, prio, eoimode, ready, mrest>>
     \/ /\ ConfigRegs(DistConfigured)
        /\ mpc' = "scan"
        /\ mrest' = Builtin
        /\ UNCHANGED <<eoimode, ready>>
     \/ /\ ConfigRegs(DistConfigured \cup CpuConfigured)
        /\ eoimode' = "drop"
        /\ ready' \in BOOLEAN
        /\ mpc' = "scan"
        /\ mrest' = Builtin
  /\ UNCHANGED <<tab, pending, running, line, masked, mreq, mtodo, exception,
                 raises, fresh>>

(* The monitor runs while no exception is being handled. *)
At(label) == mpc = label /\ ipc = "none"

(* The end of interrupt_init() enables interrupts; a call returns. *)
ScanDone ==
  /\ At("scan")
  /\ mrest = <<>>
  /\ masked' = FALSE
  /\ mpc' = "idle"
  /\ mreq' = NULL
  /\ UNCHANGED <<tab, gic, line, mtodo, mrest, exception, raises, fresh>>

(* gic_register_irq() and gic_unregister_irq() refuse numbers from         *)
(* MAX_IRQ_ID upwards.                                                     *)
Refused_never(irq) == FALSE
Refused(irq) == irq >= MAX_IRQ_ID

(* A call of gic_register_irq() begins. *)
Register(r) ==
  IF Refused(r.irq)
  THEN mpc' = "scan" /\ UNCHANGED <<mreq, mtodo, fresh>>
  ELSE /\ mpc' = "store"
       /\ mreq' = r
       /\ mtodo' = {"handler", "arg"}
       /\ fresh' = (r.irq \in Irqs /\ handler[r.irq] = NULL)

(* irq_table_init() registers every entry with ISR_ATTR_GEN,               *)
(* irq_free_handler() those of the interrupt it has freed; both flags are  *)
(* the same bit.                                                           *)
ScanEntry ==
  /\ At("scan")
  /\ mrest # <<>>
  /\ mrest' = Tail(mrest)
  /\ LET e == Head(mrest)
     IN IF e.gen /\ (masked \/ mreq.irq = e.irq)
        THEN Register([irq |-> e.irq, handler |-> e.handler, arg |-> e.arg])
        ELSE UNCHANGED <<mreq, mtodo, mpc, fresh>>
  /\ UNCHANGED <<tab, gic, line, masked, exception, raises>>

irq_install_handler(r) ==
  /\ At("idle")
  /\ Register(r)
  /\ UNCHANGED <<tab, gic, line, masked, mrest, exception, raises>>

(* gic_register_irq() stores the handler and the argument, in the order    *)
(* the compiler emits, and enables the interrupt unless it is an LPI.      *)
AllStored_early(field) == TRUE
AllStored(field) == mtodo = {field}

Store(field) ==
  /\ At("store")
  /\ field \in mtodo
  /\ IF field = "handler"
     THEN handler' = [handler EXCEPT ![mreq.irq] = mreq.handler] /\ UNCHANGED arg
     ELSE arg' = [arg EXCEPT ![mreq.irq] = mreq.arg] /\ UNCHANGED handler
  /\ mtodo' = mtodo \ {field}
  /\ mpc' = IF AllStored(field) THEN "enable" ELSE "store"
  /\ UNCHANGED <<gic, line, masked, mreq, mrest, exception, raises, fresh>>

Enable ==
  /\ At("enable")
  /\ IF mreq.irq < LPI_IRQ_MIN THEN enable_irq(mreq.irq) ELSE UNCHANGED gic
  /\ mpc' = "scan"
  /\ UNCHANGED <<tab, line, masked, mreq, mtodo, mrest, exception, raises, fresh>>

(* irq_free_handler(): gic_unregister_irq() clears the handler and then    *)
(* disables the interrupt; built-in handlers of the interrupt come back.   *)
irq_free_handler(irq) ==
  /\ At("idle")
  /\ mreq' = [irq |-> irq, handler |-> NULL, arg |-> NULL]
  /\ IF Refused(irq)
     THEN mpc' = "scan" /\ mrest' = Builtin /\ UNCHANGED handler
     ELSE /\ handler' = [handler EXCEPT ![irq] = NULL]
          /\ mpc' = "unregister"
          /\ UNCHANGED mrest
  /\ UNCHANGED <<arg, gic, line, masked, mtodo, exception, raises, fresh>>

Disable ==
  /\ At("unregister")
  /\ disable_irq(mreq.irq)
  /\ mrest' = Builtin
  /\ mpc' = "scan"
  /\ UNCHANGED <<tab, line, masked, mreq, mtodo, exception, raises, fresh>>

-----------------------------------------------------------------------------
(* The exception: vectors -> do_irq() -> do_irq_handle() -> eret. *)

Pending(i) == i \in pending \/ i \in line
Enabled(i) == i \in enabled \/ i \in LpiEnabled

(* What the GIC offers to this core. *)
Signalled ==
  IF ready /\ running = {}
  THEN {i \in Irqs : Pending(i) /\ Enabled(i) /\ i \notin active}
  ELSE {}

TakeIrq ==
  /\ ipc = "none"
  /\ ~masked
  /\ Signalled # {}
  /\ ipc' = "entry"
  /\ UNCHANGED <<tab, gic, line, monitor, irqnr, raises, fresh>>

(* ICC_IAR1_EL1 returns the signalled interrupt of highest priority, which *)
(* becomes active (an LPI has no active state), or 1023 when the interrupt *)
(* has been withdrawn: do_irq_handle() leaves its loop at once.            *)
ReadIar ==
  /\ ipc = "entry"
  /\ \/ /\ Signalled = {}
        /\ ipc' = "none"
        /\ UNCHANGED <<pending, active, running, irqnr>>
     \/ \E i \in Signalled :
        /\ \A j \in Signalled : prio[i] <= prio[j]
        /\ irqnr' = i
        /\ pending' = pending \ {i}
        /\ active' = IF Lpi(i) THEN active ELSE active \cup {i}
        /\ running' = {i}
        /\ ipc' = "acked"
  /\ UNCHANGED <<tab, enabled, prio, eoimode, ready, line, monitor, raises, fresh>>

(* gic_write_eoir(): the priority drop and, in the other EOI mode, the     *)
(* deactivation.                                                           *)
RunningAfterEoi_same == running
RunningAfterEoi == {}

Eoi ==
  /\ ipc = "acked"
  /\ running' = RunningAfterEoi
  /\ active' = IF eoimode = "drop" THEN active ELSE active \ {irqnr}
  /\ ipc' = "dropped"
  /\ UNCHANGED <<tab, enabled, pending, prio, eoimode, ready, line, monitor, irqnr,
                 raises, fresh>>

(* The handler services its device, which stops asserting the interrupt;   *)
(* an interrupt with no handler is only reported.                          *)
CallHandler ==
  /\ ipc = "dropped"
  /\ line' = IF handler[irqnr] # NULL THEN line \ {irqnr} ELSE line
  /\ ipc' = "called"
  /\ UNCHANGED <<tab, gic, monitor, irqnr, raises, fresh>>

(* gicv3_clean_active_irq(), and the return from the exception. *)
Eret ==
  /\ ipc = "called"
  /\ IF irqnr < Special THEN gicv3_clean_active_irq(irqnr) ELSE UNCHANGED gic
  /\ ipc' = "none"
  /\ irqnr' = NULL
  /\ UNCHANGED <<tab, line, monitor, raises, fresh>>

(* Devices assert an interrupt at any time, and may withdraw it. *)
Raise(i) ==
  /\ raises < MaxRaises
  /\ raises' = raises + 1
  /\ IF Level(i) THEN line' = line \cup {i} /\ UNCHANGED pending
                 ELSE pending' = pending \cup {i} /\ UNCHANGED line
  /\ UNCHANGED <<tab, enabled, active, prio, running, eoimode, ready, monitor,
                 exception, fresh>>

Withdraw(i) ==
  /\ i \in line
  /\ line' = line \ {i}
  /\ UNCHANGED <<tab, gic, monitor, exception, raises, fresh>>

Monitor ==
  \/ ScanDone \/ ScanEntry \/ Enable \/ Disable
  \/ \E field \in {"handler", "arg"} : Store(field)

Exception == ReadIar \/ Eoi \/ CallHandler \/ Eret

Next ==
  \/ gic_init
  \/ Monitor
  \/ \E r \in Requests : irq_install_handler(r)
  \/ \E irq \in Irqs \cup {r.irq : r \in Requests} : irq_free_handler(irq)
  \/ TakeIrq
  \/ Exception
  \/ \E i \in Irqs : Raise(i) \/ Withdraw(i)

Spec == Init /\ [][Next]_vars

(* The core goes on with what it runs and takes a signalled interrupt.     *)
(* The monitor has no claim to run while interrupts keep arriving.         *)
Fairness == WF_vars(Monitor) /\ WF_vars(TakeIrq) /\ WF_vars(Exception)

FairSpec == Spec /\ Fairness

-----------------------------------------------------------------------------
(* Correctness. *)

(* Once the GIC is set up every PPI and SPI that is enabled has a handler: *)
(* gic_register_irq() fills the table before it enables, and the only      *)
(* exception is the moment between the two statements of                   *)
(* gic_unregister_irq().  A level-sensitive interrupt taken without a      *)
(* handler would be taken again for ever.                                  *)
EnabledHasHandler ==
  ready => \A i \in enabled :
    i >= 16 => handler[i] # NULL \/ (mpc = "unregister" /\ mreq.irq = i)

(* do_irq_handle() balances every acknowledgement with a priority drop and *)
(* a deactivation, so outside an exception nothing is active and nothing   *)
(* blocks the next interrupt.                                              *)
AckBalanced ==
  ready => /\ running = IF ipc = "acked" THEN {irqnr} ELSE {}
           /\ active = IF ipc \in {"acked", "dropped", "called"} /\ ~Lpi(irqnr)
                       THEN {irqnr} ELSE {}

(* A handler is called with the argument registered with it.  The one      *)
(* exception is an interrupt that can already be taken when                *)
(* gic_register_irq() overwrites its entry: an LPI, an SGI (gic_cpu_config *)
(* enables them all), or an interrupt that already had a handler.          *)
CalledAsRegistered ==
  ipc = "dropped" /\ handler[irqnr] # NULL =>
    \/ [irq |-> irqnr, handler |-> handler[irqnr], arg |-> arg[irqnr]]
         \in Requests \cup Builtins
    \/ mpc = "store" /\ mreq.irq = irqnr /\ (~fresh \/ Lpi(irqnr) \/ irqnr < 16)

(* An interrupt that is asserted with no handler to silence its device. *)
Storm == \E i \in enabled : Pending(i) /\ handler[i] = NULL

(* An interrupt that is pending, enabled and has a handler is handled, and *)
(* every call of the monitor returns, unless interrupts without a handler  *)
(* are pending again and again: do_irq_handle() leaves nothing behind that *)
(* would block the next interrupt.                                         *)
Served ==
  []<>Storm \/
  /\ mpc \in {"unregister", "store", "enable", "scan"} ~> mpc = "idle"
  /\ \A i \in Irqs : (ready /\ Pending(i) /\ Enabled(i) /\ handler[i] # NULL /\ ~masked)
      ~> (~Pending(i) \/ ~Enabled(i) \/ handler[i] = NULL)

(* LPIs are enabled in the LPI table, not in the distributor: "LPI IRQ     *)
(* enabled by GICR in LPI table" (gic_register_irq()).  Registering or     *)
(* freeing one leaves the registers of the other interrupts alone.         *)
LpiLeavesDistributor ==
  [][(Enable \/ Disable) /\ Lpi(mreq.irq) => UNCHANGED <<enabled, active, prio>>]_vars

-----------------------------------------------------------------------------
(* The inductive invariant behind the three state properties. *)

Busy == {"unregister", "store", "enable"}

(* What the monitor is doing agrees with the table it fills. *)
MonitorInv ==
  /\ handler \in [Irqs -> Handlers \cup {NULL}]
  /\ arg \in [Irqs -> Args \cup {NULL}]
  /\ mrest \in Seq([irq : Nat, handler : Handlers, arg : Args, gen : BOOLEAN])
  /\ \A k \in DOMAIN mrest :
       [irq |-> mrest[k].irq, handler |-> mrest[k].handler, arg |-> mrest[k].arg]
         \in Builtins
  /\ mpc \in Busy => mreq.irq \in Irqs
  /\ mpc \in {"store", "enable"} => mreq \in Requests \cup Builtins
  /\ mpc = "store" => mtodo # {}
  /\ mpc = "store" /\ "handler" \notin mtodo => handler[mreq.irq] = mreq.handler
  /\ mpc = "store" /\ "arg" \notin mtodo => arg[mreq.irq] = mreq.arg
  /\ mpc = "enable" => /\ handler[mreq.irq] = mreq.handler
                       /\ arg[mreq.irq] = mreq.arg
  /\ mtodo \subseteq {"handler", "arg"}

(* An entry that is not being filled holds a registered pair. *)
TableInv ==
  \A i \in Irqs : handler[i] # NULL =>
    \/ [irq |-> i, handler |-> handler[i], arg |-> arg[i]]
         \in Requests \cup Builtins
    \/ mpc = "store" /\ mreq.irq = i

(* What the GIC holds, and that an interrupt being handled is one that may *)
(* be taken.                                                               *)
GicInv ==
  /\ enabled \subseteq {i \in Irqs : ~Lpi(i)}
  /\ active \subseteq {i \in Irqs : ~Lpi(i)}
  /\ ready => eoimode = "drop" /\ mpc # "boot"
  /\ ~ready => ipc = "none" /\ running = {}
  /\ ipc \in {"none", "entry", "acked", "dropped", "called"}
  /\ ipc \in {"acked", "dropped", "called"} => irqnr \in Irqs /\ Enabled(irqnr)
  /\ ready /\ mpc = "store" /\ fresh /\ mreq.irq >= 16 => mreq.irq \notin enabled

IInv ==
  /\ MonitorInv /\ TableInv /\ GicInv
  /\ EnabledHasHandler /\ AckBalanced
=============================================================================
