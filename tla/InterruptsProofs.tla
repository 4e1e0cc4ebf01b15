-------------------------- MODULE InterruptsProofs --------------------------
(***************************************************************************)
(* The inductive invariant of Interrupts, for every set of interrupts,     *)
(* every built-in table and every set of clients.  The address arithmetic  *)
(* of gic_poke_irq() is settled first; after that a step is a matter of    *)
(* which register or table entry it touches.                               *)
(***************************************************************************)
EXTENDS Interrupts, TLAPS

USE DEF LPI_IRQ_MIN, MAX_IRQ_ID, Special, Lpi

(* Every interrupt modelled is a natural number of one of the two ranges. *)
LEMMA IrqRange ==
  ASSUME NEW i \in Irqs
  PROVE  i \in Nat /\ (i < 1020 \/ (8192 <= i /\ i < 8224))
  BY IrqsAssumption

(* Only LPIs are enabled in the LPI table. *)
LEMMA LpisOnly ==
  ASSUME NEW i \in LpiEnabled
  PROVE  i \in Irqs /\ Lpi(i)
<1>1. i \in Irqs
  BY IrqsAssumption
<1>2. i \in Nat
  BY <1>1, IrqRange
<1> QED
  BY <1>1, <1>2, IrqsAssumption

(* Quotient and remainder by 32 determine a number. *)
LEMMA Word32 ==
  ASSUME NEW i \in Nat
  PROVE  /\ i \div 32 \in Nat /\ i % 32 \in Nat
         /\ i = 32 * (i \div 32) + (i % 32)
         /\ 0 <= i % 32 /\ i % 32 < 32
  OBVIOUS

(* A write to the enable-set register reaches the bit of its interrupt.    *)
LEMMA HitsSet ==
  ASSUME NEW irq \in Irqs, NEW i \in Irqs, irq < 1020
  PROVE  /\ Hits(irq, ISENABLER, ISENABLER, i) <=> i = irq
         /\ ~Hits(irq, ISENABLER, ICENABLER, i)
         /\ ~Hits(irq, ISENABLER, ICACTIVER, i)
  BY IrqRange, Word32 DEF Hits, InRdist, ISENABLER, ICENABLER, ICACTIVER

(* A write to the enable-clear register reaches the bit of its interrupt   *)
(* and, for an LPI, no enable or active bit at all.                        *)
LEMMA HitsClear ==
  ASSUME NEW irq \in Irqs, NEW i \in Irqs
  PROVE  /\ Hits(irq, ICENABLER, ICENABLER, i) <=> i = irq /\ irq < 1020
         /\ ~Hits(irq, ICENABLER, ISENABLER, i)
         /\ ~Hits(irq, ICENABLER, ICACTIVER, i)
  BY IrqRange, Word32 DEF Hits, InRdist, ISENABLER, ICENABLER, ICACTIVER

(* A write to the active-clear register reaches the bit of its interrupt.  *)
LEMMA HitsActive ==
  ASSUME NEW irq \in Irqs, NEW i \in Irqs, irq < 1020
  PROVE  /\ Hits(irq, ICACTIVER, ICACTIVER, i) <=> i = irq
         /\ ~Hits(irq, ICACTIVER, ISENABLER, i)
         /\ ~Hits(irq, ICACTIVER, ICENABLER, i)
  BY IrqRange, Word32 DEF Hits, InRdist, ISENABLER, ICENABLER, ICACTIVER

(* enable_irq(), disable_irq() and gicv3_clean_active_irq() change the bit *)
(* of their interrupt and no other enable or active bit.                   *)
LEMMA Poke ==
  ASSUME NEW irq \in Irqs
  PROVE  /\ irq < 8192 /\ enable_irq(irq) =>
              enabled' = enabled \cup {irq} /\ active' = active
         /\ disable_irq(irq) =>
              /\ enabled' = enabled \ (IF irq < 1020 THEN {irq} ELSE {})
              /\ active' = active
         /\ irq < 1020 /\ gicv3_clean_active_irq(irq) =>
              enabled' = enabled /\ active' = active \ {irq}
<1>1. ASSUME irq < 8192, enable_irq(irq)
      PROVE  enabled' = enabled \cup {irq} /\ active' = active
  <2>1. irq < 1020
    BY <1>1, IrqRange
  <2>2. {i \in Irqs : Hits(irq, ISENABLER, ISENABLER, i)} = {irq}
    BY <2>1, HitsSet
  <2>3. {i \in Irqs : Hits(irq, ISENABLER, ICENABLER, i)} = {}
    BY <2>1, HitsSet
  <2>4. {i \in Irqs : Hits(irq, ISENABLER, ICACTIVER, i)} = {}
    BY <2>1, HitsSet
  <2> QED
    BY <1>1, <2>2, <2>3, <2>4 DEF enable_irq, gic_poke_irq
<1>2. ASSUME disable_irq(irq)
      PROVE  /\ enabled' = enabled \ (IF irq < 1020 THEN {irq} ELSE {})
             /\ active' = active
  <2>1. {i \in Irqs : Hits(irq, ICENABLER, ISENABLER, i)} = {}
    BY HitsClear
  <2>2. {i \in Irqs : Hits(irq, ICENABLER, ICENABLER, i)}
          = (IF irq < 1020 THEN {irq} ELSE {})
    BY HitsClear
  <2>3. {i \in Irqs : Hits(irq, ICENABLER, ICACTIVER, i)} = {}
    BY HitsClear
  <2> QED
    BY <1>2, <2>1, <2>2, <2>3 DEF disable_irq, gic_poke_irq
<1>3. ASSUME irq < 1020, gicv3_clean_active_irq(irq)
      PROVE  enabled' = enabled /\ active' = active \ {irq}
  <2>1. {i \in Irqs : Hits(irq, ICACTIVER, ISENABLER, i)} = {}
    BY <1>3, HitsActive
  <2>2. {i \in Irqs : Hits(irq, ICACTIVER, ICENABLER, i)} = {}
    BY <1>3, HitsActive
  <2>3. {i \in Irqs : Hits(irq, ICACTIVER, ICACTIVER, i)} = {irq}
    BY <1>3, HitsActive
  <2> QED
    BY <1>3, <2>1, <2>2, <2>3 DEF gicv3_clean_active_irq, gic_poke_irq
<1> QED
  BY <1>1, <1>2, <1>3

(* The rows of the built-in table, from which every scan starts. *)
LEMMA BuiltinEntries ==
  /\ Builtin \in Seq([irq : Nat, handler : Handlers, arg : Args, gen : BOOLEAN])
  /\ \A k \in DOMAIN Builtin :
       [irq |-> Builtin[k].irq, handler |-> Builtin[k].handler, arg |-> Builtin[k].arg]
         \in Builtins
  BY RequestsAssumption DEF Builtins

(* The invariant holds initially. *)
LEMMA InvInit == Init => IInv
<1> SUFFICES ASSUME Init PROVE IInv
  OBVIOUS
<1>1. MonitorInv
  BY DEF Init, MonitorInv, Busy
<1>2. TableInv
  BY DEF Init, TableInv
<1>3. GicInv
  BY DEF Init, GicInv
<1>4. EnabledHasHandler /\ AckBalanced
  BY DEF Init, EnabledHasHandler, AckBalanced
<1> QED
  BY <1>1, <1>2, <1>3, <1>4 DEF IInv

(* A call of gic_register_irq() begins. *)
LEMMA RegisterStep ==
  ASSUME IInv, NEW r \in Requests \cup Builtins,
         ipc = "none", mpc \in {"idle", "scan"}, Register(r),
         UNCHANGED <<tab, gic, exception>>,
         mrest' \in Seq([irq : Nat, handler : Handlers, arg : Args, gen : BOOLEAN]),
         \A k \in DOMAIN mrest' :
           [irq |-> mrest'[k].irq, handler |-> mrest'[k].handler, arg |-> mrest'[k].arg]
             \in Builtins
  PROVE  IInv'
<1>1. r.irq < 8224 => r.irq \in Irqs
  BY RequestsAssumption
<1>2. r.irq \in Nat /\ r.handler # NULL
  BY RequestsAssumption
<1>3. CASE Refused(r.irq)
  <2>1. mpc' = "scan" /\ UNCHANGED <<mreq, mtodo, fresh>>
    BY <1>3 DEF Register
  <2>2. MonitorInv'
    BY <2>1 DEF IInv, MonitorInv, Busy, tab
  <2>3. TableInv'
    BY <2>1 DEF IInv, TableInv, tab
  <2>4. GicInv'
    BY <2>1 DEF IInv, GicInv, gic, exception, Enabled
  <2>5. EnabledHasHandler' /\ AckBalanced'
    BY <2>1 DEF IInv, EnabledHasHandler, AckBalanced, tab, gic, exception
  <2> QED
    BY <2>2, <2>3, <2>4, <2>5 DEF IInv
<1>4. CASE ~Refused(r.irq)
  <2>1. /\ mpc' = "store" /\ mreq' = r /\ mtodo' = {"handler", "arg"}
        /\ fresh' => handler[r.irq] = NULL
    BY <1>4 DEF Register
  <2>2. r.irq \in Irqs
    BY <1>1, <1>2, <1>4 DEF Refused
  <2>3. MonitorInv'
    BY <2>1, <2>2 DEF IInv, MonitorInv, Busy, tab
  <2>4. TableInv'
    BY <2>1 DEF IInv, TableInv, tab
  <2>5. GicInv'
    BY <2>1, <2>2 DEF IInv, GicInv, EnabledHasHandler, gic, exception, Enabled
  <2>6. EnabledHasHandler' /\ AckBalanced'
    BY <2>1 DEF IInv, EnabledHasHandler, AckBalanced, tab, gic, exception
  <2> QED
    BY <2>3, <2>4, <2>5, <2>6 DEF IInv
<1> QED
  BY <1>3, <1>4

(* Every step preserves the invariant. *)
LEMMA InvStep == IInv /\ [Next]_vars => IInv'
<1> SUFFICES ASSUME IInv, [Next]_vars PROVE IInv'
  OBVIOUS
<1> USE DEF At
<1>1. CASE gic_init
  <2>1. mrest' = mrest \/ mrest' = Builtin
    BY <1>1 DEF gic_init
  <2>2. Irqs \subseteq DistConfigured \cup CpuConfigured \cup {i \in Irqs : Lpi(i)}
    BY IrqsAssumption, IrqRange DEF DistConfigured, CpuConfigured, Spi, InRdist
  <2>3. MonitorInv'
    BY <1>1, <2>1, BuiltinEntries DEF gic_init, IInv, MonitorInv, Busy, tab
  <2>4. TableInv'
    BY <1>1 DEF gic_init, IInv, TableInv, tab
  <2>5. ~ready /\ ipc = "none" /\ running = {}
    BY <1>1 DEF gic_init, IInv, GicInv
  <2>6. /\ enabled' \subseteq {i \in Irqs : ~Lpi(i)}
        /\ active' \subseteq {i \in Irqs : ~Lpi(i)}
    <3>1. \A i \in DistConfigured \cup CpuConfigured : i \in Irqs /\ ~Lpi(i)
      BY IrqsAssumption, IrqRange DEF DistConfigured, CpuConfigured, Spi, InRdist
    <3> QED
      BY <1>1, <3>1 DEF gic_init, ConfigRegs, IInv, GicInv
  <2>7. CASE ready'
    <3>1. ConfigRegs(DistConfigured \cup CpuConfigured) /\ eoimode' = "drop" /\ mpc' = "scan"
      BY <1>1, <2>5, <2>7 DEF gic_init
    <3>2. (\A i \in enabled' : i < 16) /\ active' = {}
      BY <3>1, <2>2 DEF ConfigRegs, IInv, GicInv
    <3>3. \A i \in enabled' : ~(i >= 16)
      BY <3>2, <2>6, IrqRange
    <3>4. EnabledHasHandler'
      BY <3>3 DEF EnabledHasHandler
    <3>5. AckBalanced'
      BY <1>1, <2>5, <3>2 DEF gic_init, AckBalanced, exception
    <3>6. GicInv'
      BY <1>1, <2>5, <2>6, <2>7, <3>1 DEF gic_init, GicInv, exception
    <3> QED
      BY <2>3, <2>4, <3>4, <3>5, <3>6 DEF IInv
  <2>8. CASE ~ready'
    <3>1. GicInv'
      BY <1>1, <2>5, <2>6, <2>8 DEF gic_init, GicInv, exception
    <3> QED
      BY <2>3, <2>4, <2>8, <3>1 DEF IInv, EnabledHasHandler, AckBalanced
  <2> QED
    BY <2>7, <2>8
<1>2. CASE ScanDone
  <2>1. MonitorInv' /\ TableInv'
    BY <1>2 DEF ScanDone, IInv, MonitorInv, TableInv, Busy, tab
  <2>2. GicInv' /\ EnabledHasHandler' /\ AckBalanced'
    BY <1>2 DEF ScanDone, IInv, GicInv, EnabledHasHandler, AckBalanced, tab, gic,
       exception, Enabled
  <2> QED
    BY <2>1, <2>2 DEF IInv
<1>3. CASE ScanEntry
  <2> DEFINE e == Head(mrest)
             r == [irq |-> e.irq, handler |-> e.handler, arg |-> e.arg]
  <2>1. /\ mrest' \in Seq([irq : Nat, handler : Handlers, arg : Args, gen : BOOLEAN])
        /\ \A k \in DOMAIN mrest' :
             [irq |-> mrest'[k].irq, handler |-> mrest'[k].handler, arg |-> mrest'[k].arg]
               \in Builtins
        /\ r \in Builtins
    BY <1>3 DEF ScanEntry, IInv, MonitorInv
  <2>2. CASE Register(r)
    BY <1>3, <2>1, <2>2, RegisterStep DEF ScanEntry
  <2>3. CASE UNCHANGED <<mreq, mtodo, mpc, fresh>>
    <3>1. MonitorInv' /\ TableInv'
      BY <1>3, <2>1, <2>3 DEF ScanEntry, IInv, MonitorInv, TableInv, Busy, tab
    <3>2. GicInv' /\ EnabledHasHandler' /\ AckBalanced'
      BY <1>3, <2>3 DEF ScanEntry, IInv, GicInv, EnabledHasHandler, AckBalanced, tab,
         gic, exception, Enabled
    <3> QED
      BY <3>1, <3>2 DEF IInv
  <2> QED
    BY <1>3, <2>2, <2>3 DEF ScanEntry
<1>4. CASE Enable
  <2>1. mreq.irq \in Irqs /\ handler[mreq.irq] # NULL
    BY <1>4, RequestsAssumption DEF Enable, IInv, MonitorInv, Busy
  <2>2. /\ enabled' \in {enabled, enabled \cup {mreq.irq}}
        /\ mreq.irq >= 8192 => enabled' = enabled
        /\ active' = active
        /\ UNCHANGED <<running, eoimode, ready>>
    BY <1>4, <2>1, IrqRange, Poke DEF Enable, gic, enable_irq, gic_poke_irq
  <2>3. MonitorInv'
    BY <1>4 DEF Enable, IInv, MonitorInv, Busy, tab
  <2>4. TableInv'
    BY <1>4 DEF Enable, IInv, TableInv, tab
  <2>5. GicInv'
    BY <1>4, <2>1, <2>2, IrqRange DEF Enable, IInv, GicInv, exception, Enabled
  <2>6. EnabledHasHandler' /\ AckBalanced'
    BY <1>4, <2>1, <2>2 DEF Enable, IInv, EnabledHasHandler, AckBalanced, tab, exception
  <2> QED
    BY <2>3, <2>4, <2>5, <2>6 DEF IInv
<1>5. CASE Disable
  <2>1. mreq.irq \in Irqs
    BY <1>5 DEF Disable, IInv, MonitorInv, Busy
  <2>2. /\ enabled' = enabled \ {mreq.irq}
        /\ active' = active
        /\ UNCHANGED <<running, eoimode, ready>>
    BY <1>5, <2>1, IrqRange, Poke DEF Disable, disable_irq, gic_poke_irq, IInv, GicInv
  <2>3. MonitorInv'
    BY <1>5, BuiltinEntries DEF Disable, IInv, MonitorInv, Busy, tab
  <2>4. TableInv'
    BY <1>5 DEF Disable, IInv, TableInv, tab
  <2>5. GicInv'
    BY <1>5, <2>2 DEF Disable, IInv, GicInv, exception, Enabled
  <2>6. EnabledHasHandler' /\ AckBalanced'
    BY <1>5, <2>1, <2>2 DEF Disable, IInv, EnabledHasHandler, AckBalanced, tab, exception
  <2> QED
    BY <2>3, <2>4, <2>5, <2>6 DEF IInv
<1>6. ASSUME NEW field \in {"handler", "arg"}, Store(field) PROVE IInv'
  <2>1. mreq.irq \in Irqs /\ mreq \in Requests \cup Builtins
    BY <1>6 DEF Store, IInv, MonitorInv, Busy
  <2>2. /\ mreq.handler # NULL /\ mreq.handler \in Handlers /\ mreq.arg \in Args
        /\ mreq = [irq |-> mreq.irq, handler |-> mreq.handler, arg |-> mreq.arg]
    BY <2>1, RequestsAssumption
  <2>3. MonitorInv'
    BY <1>6, <2>1, <2>2 DEF Store, AllStored, IInv, MonitorInv, Busy
  <2>4. TableInv'
    BY <1>6, <2>1, <2>2 DEF Store, AllStored, IInv, MonitorInv, TableInv
  <2>5. GicInv'
    BY <1>6 DEF Store, IInv, GicInv, gic, exception, Enabled
  <2>6. EnabledHasHandler' /\ AckBalanced'
    BY <1>6, <2>1, <2>2 DEF Store, IInv, MonitorInv, GicInv, EnabledHasHandler, AckBalanced,
       gic, exception
  <2> QED
    BY <2>3, <2>4, <2>5, <2>6 DEF IInv
<1>7. ASSUME NEW r \in Requests, irq_install_handler(r) PROVE IInv'
  <2>1. /\ mrest' \in Seq([irq : Nat, handler : Handlers, arg : Args, gen : BOOLEAN])
        /\ \A k \in DOMAIN mrest' :
             [irq |-> mrest'[k].irq, handler |-> mrest'[k].handler, arg |-> mrest'[k].arg]
               \in Builtins
    BY <1>7 DEF irq_install_handler, IInv, MonitorInv
  <2> QED
    BY <1>7, <2>1, RegisterStep DEF irq_install_handler
<1>8. ASSUME NEW irq \in Irqs \cup {r.irq : r \in Requests}, irq_free_handler(irq)
      PROVE  IInv'
  <2>1. irq \in Nat /\ (irq < 8224 => irq \in Irqs)
    BY RequestsAssumption, IrqRange
  <2>2. mpc' = "unregister" => irq \in Irqs
    BY <1>8, <2>1 DEF irq_free_handler, Refused
  <2>3. MonitorInv'
    <3>1. /\ mrest' \in Seq([irq : Nat, handler : Handlers, arg : Args, gen : BOOLEAN])
          /\ \A k \in DOMAIN mrest' :
               [irq |-> mrest'[k].irq, handler |-> mrest'[k].handler, arg |-> mrest'[k].arg]
                 \in Builtins
      BY <1>8, BuiltinEntries DEF irq_free_handler, IInv, MonitorInv
    <3>2. handler' \in [Irqs -> Handlers \cup {NULL}] /\ arg' = arg /\ mtodo' = mtodo
      BY <1>8 DEF irq_free_handler, IInv, MonitorInv
    <3>3. mpc' \in {"scan", "unregister"} /\ (mpc' = "unregister" => mreq'.irq \in Irqs)
      BY <1>8, <2>2 DEF irq_free_handler
    <3> QED
      BY <3>1, <3>2, <3>3 DEF IInv, MonitorInv, Busy
  <2>4. TableInv'
    BY <1>8 DEF irq_free_handler, IInv, MonitorInv, TableInv
  <2>5. GicInv'
    BY <1>8 DEF irq_free_handler, IInv, GicInv, gic, exception, Enabled
  <2>6. AckBalanced'
    BY <1>8 DEF irq_free_handler, IInv, AckBalanced, gic, exception
  <2>7. CASE Refused(irq)
    <3>1. EnabledHasHandler'
      BY <1>8, <2>7 DEF irq_free_handler, IInv, EnabledHasHandler, gic
    <3> QED
      BY <3>1, <2>3, <2>4, <2>5, <2>6 DEF IInv
  <2>8. CASE ~Refused(irq)
    <3>1. /\ handler' = [handler EXCEPT ![irq] = NULL]
          /\ mpc' = "unregister" /\ mreq'.irq = irq
          /\ mpc = "idle" /\ UNCHANGED <<enabled, ready>>
      BY <1>8, <2>8 DEF irq_free_handler, gic
    <3>2. \A i \in Irqs : handler'[i] = handler[i] \/ i = irq
      BY <3>1 DEF IInv, MonitorInv
    <3>3. EnabledHasHandler'
      BY <3>1, <3>2 DEF IInv, GicInv, EnabledHasHandler
    <3> QED
      BY <3>3, <2>3, <2>4, <2>5, <2>6 DEF IInv
  <2> QED
    BY <2>7, <2>8
<1>9. CASE TakeIrq
  <2>1. MonitorInv' /\ TableInv'
    BY <1>9 DEF TakeIrq, IInv, MonitorInv, TableInv, tab, monitor
  <2>2. ready
    BY <1>9 DEF TakeIrq, Signalled
  <2>3. GicInv' /\ EnabledHasHandler' /\ AckBalanced'
    BY <1>9, <2>2 DEF TakeIrq, IInv, GicInv, EnabledHasHandler, AckBalanced, tab, gic,
       monitor, Enabled
  <2> QED
    BY <2>1, <2>3 DEF IInv
<1>10. CASE ReadIar
  <2>1. MonitorInv' /\ TableInv'
    BY <1>10 DEF ReadIar, IInv, MonitorInv, TableInv, tab, monitor
  <2>2. ready /\ active = {} /\ running = {}
    BY <1>10 DEF ReadIar, IInv, GicInv, AckBalanced
  <2>3. CASE ipc' = "none" /\ UNCHANGED <<active, running, irqnr>>
    BY <1>10, <2>1, <2>2, <2>3 DEF ReadIar, IInv, GicInv, EnabledHasHandler, AckBalanced,
       tab, monitor, Enabled
  <2>4. ASSUME NEW i \in Signalled, irqnr' = i, running' = {i}, ipc' = "acked",
               active' = IF Lpi(i) THEN active ELSE active \cup {i}
        PROVE  IInv'
    <3>1. i \in Irqs /\ Enabled(i)
      BY <2>4 DEF Signalled
    <3>2. GicInv'
      BY <1>10, <2>2, <2>4, <3>1 DEF ReadIar, IInv, GicInv, monitor, Enabled
    <3>3. EnabledHasHandler' /\ AckBalanced'
      BY <1>10, <2>2, <2>4 DEF ReadIar, IInv, EnabledHasHandler, AckBalanced, tab, monitor
    <3> QED
      BY <2>1, <3>2, <3>3 DEF IInv
  <2> QED
    BY <1>10, <2>3, <2>4 DEF ReadIar
<1>11. CASE Eoi
  <2>1. MonitorInv' /\ TableInv'
    BY <1>11 DEF Eoi, IInv, MonitorInv, TableInv, tab, monitor
  <2>2. ready /\ eoimode = "drop"
    BY <1>11 DEF Eoi, IInv, GicInv
  <2>3. GicInv' /\ EnabledHasHandler' /\ AckBalanced'
    BY <1>11, <2>2 DEF Eoi, RunningAfterEoi, IInv, GicInv, EnabledHasHandler, AckBalanced,
       tab, monitor, Enabled
  <2> QED
    BY <2>1, <2>3 DEF IInv
<1>12. CASE CallHandler
  <2>1. MonitorInv' /\ TableInv'
    BY <1>12 DEF CallHandler, IInv, MonitorInv, TableInv, tab, monitor
  <2>2. GicInv' /\ EnabledHasHandler' /\ AckBalanced'
    BY <1>12 DEF CallHandler, IInv, GicInv, EnabledHasHandler, AckBalanced, tab, gic,
       monitor, Enabled
  <2> QED
    BY <2>1, <2>2 DEF IInv
<1>13. CASE Eret
  <2>1. MonitorInv' /\ TableInv'
    BY <1>13 DEF Eret, IInv, MonitorInv, TableInv, tab, monitor
  <2>2. irqnr \in Irqs /\ ready
    BY <1>13 DEF Eret, IInv, GicInv
  <2>3. /\ enabled' = enabled
        /\ active' = active \ {irqnr}
        /\ UNCHANGED <<running, eoimode, ready>>
    <3>1. CASE irqnr < 1020
      BY <1>13, <2>2, <3>1, Poke DEF Eret, gicv3_clean_active_irq, gic_poke_irq
    <3>2. CASE ~(irqnr < 1020)
      <4>1. irqnr >= 8192
        BY <2>2, <3>2, IrqRange
      <4> QED
        BY <1>13, <3>2, <4>1 DEF Eret, gic, IInv, GicInv
    <3> QED
      BY <3>1, <3>2
  <2>4. GicInv' /\ EnabledHasHandler' /\ AckBalanced'
    BY <1>13, <2>2, <2>3 DEF Eret, IInv, GicInv, EnabledHasHandler, AckBalanced, tab,
       monitor, Enabled
  <2> QED
    BY <2>1, <2>4 DEF IInv
<1>14. ASSUME NEW i \in Irqs, Raise(i) \/ Withdraw(i) PROVE IInv'
  <2>1. MonitorInv' /\ TableInv'
    BY <1>14 DEF Raise, Withdraw, IInv, MonitorInv, TableInv, tab, monitor
  <2>2. GicInv' /\ EnabledHasHandler' /\ AckBalanced'
    BY <1>14 DEF Raise, Withdraw, IInv, GicInv, EnabledHasHandler, AckBalanced, tab, gic,
       monitor, exception, Enabled
  <2> QED
    BY <2>1, <2>2 DEF IInv
<1>15. CASE UNCHANGED vars
  <2>1. MonitorInv' /\ TableInv'
    BY <1>15 DEF vars, IInv, MonitorInv, TableInv, tab, monitor
  <2>2. GicInv' /\ EnabledHasHandler' /\ AckBalanced'
    BY <1>15 DEF vars, IInv, GicInv, EnabledHasHandler, AckBalanced, tab, gic, monitor,
       exception, Enabled
  <2> QED
    BY <2>1, <2>2 DEF IInv
<1> QED
  BY <1>1, <1>2, <1>3, <1>4, <1>5, <1>6, <1>7, <1>8, <1>9, <1>10, <1>11, <1>12, <1>13,
     <1>14, <1>15 DEF Next, Monitor, Exception

(* The table, the GIC and what the monitor and the exception are doing     *)
(* agree in every reachable state.                                         *)
THEOREM Invariant == Spec => []IInv
  BY InvInit, InvStep, PTL DEF Spec

(* A write to the set-bit registers leaves a byte in every priority, also  *)
(* where it lands in the priority registers.                               *)
LEMMA PrioByte ==
  ASSUME TypeOK, NEW irq \in Nat, NEW reg \in Nat, gic_poke_irq(irq, reg)
  PROVE  prio' \in [Irqs -> 0 .. 255]
<1> SUFFICES ASSUME NEW i \in Irqs PROVE PrioAfter(irq, reg, i) \in 0 .. 255
  BY DEF gic_poke_irq
<1>1. prio[i] \in 0 .. 255
  BY DEF TypeOK
<1>2. (irq % 8) + 1 \in 1 .. 8
  OBVIOUS
<1>3. \A k \in 1 .. 8 : BIT[k] \in 0 .. 255
  BY DEF BIT
<1> QED
  BY <1>1, <1>2, <1>3 DEF PrioAfter

(* Every step keeps the types. *)
LEMMA TypeStep ==
  ASSUME IInv, TypeOK, [Next]_vars
  PROVE  TypeOK'
<1> USE DEF TypeOK
<1>1. CASE gic_init
  <2>1. ASSUME NEW configured \in {DistConfigured, DistConfigured \cup CpuConfigured}, ConfigRegs(configured)
        PROVE  enabled' \subseteq Irqs /\ active' \subseteq Irqs /\ prio' \in [Irqs -> 0 .. 255]
    BY <2>1 DEF ConfigRegs, DistConfigured, CpuConfigured, DefPrio
  <2> QED
    BY <1>1, <2>1 DEF gic_init, tab, exception
<1>2. CASE ScanDone
  BY <1>2 DEF ScanDone, tab, gic, exception
<1>3. ASSUME NEW r \in Requests \cup Builtins, Register(r), UNCHANGED <<tab, gic, line, masked, exception, raises>>
      PROVE  TypeOK'
  <2>1. ~Refused(r.irq) => r.irq \in Irqs
    BY RequestsAssumption DEF Refused
  <2> QED
    BY <1>3, <2>1 DEF Register, tab, gic, exception
<1>4. CASE ScanEntry
  <2>1. mrest # <<>> /\ UNCHANGED <<tab, gic, line, masked, exception, raises>>
    BY <1>4 DEF ScanEntry
  <2>2. CASE UNCHANGED <<mreq, mtodo, mpc, fresh>>
    BY <2>1, <2>2 DEF tab, gic, exception
  <2>3. CASE ~UNCHANGED <<mreq, mtodo, mpc, fresh>>
    <3> DEFINE e == Head(mrest)
    <3>1. Register([irq |-> e.irq, handler |-> e.handler, arg |-> e.arg])
      BY <1>4, <2>3 DEF ScanEntry
    <3>2. [irq |-> e.irq, handler |-> e.handler, arg |-> e.arg] \in Builtins
      BY <2>1 DEF IInv, MonitorInv
    <3> QED
      BY <1>3, <2>1, <3>1, <3>2
  <2> QED
    BY <2>2, <2>3
<1>5. CASE Enable
  <2>1. mreq.irq \in Nat
    BY <1>5, IrqRange DEF Enable, At
  <2>2. CASE UNCHANGED gic
    BY <1>5, <2>2 DEF Enable, tab, gic, exception
  <2>3. CASE gic_poke_irq(mreq.irq, ISENABLER)
    <3>1. prio' \in [Irqs -> 0 .. 255]
      BY <2>1, <2>3, PrioByte DEF ISENABLER
    <3> QED
      BY <1>5, <2>3, <3>1 DEF Enable, gic_poke_irq, tab, exception
  <2> QED
    BY <1>5, <2>2, <2>3 DEF Enable, enable_irq
<1>6. CASE Disable
  <2>1. mreq.irq \in Nat
    BY <1>6, IrqRange DEF Disable, At
  <2>2. gic_poke_irq(mreq.irq, ICENABLER)
    BY <1>6 DEF Disable, disable_irq
  <2>3. prio' \in [Irqs -> 0 .. 255]
    BY <2>1, <2>2, PrioByte DEF ICENABLER
  <2> QED
    BY <1>6, <2>2, <2>3 DEF Disable, gic_poke_irq, tab, exception
<1>7. ASSUME NEW field \in {"handler", "arg"}, Store(field) PROVE TypeOK'
  <2>1. mreq.irq \in Irqs /\ mreq \in Requests \cup Builtins
    BY <1>7 DEF Store, At, IInv, MonitorInv
  <2>2. mreq.handler \in Handlers /\ mreq.arg \in Args
    BY <2>1 DEF Handlers, Args
  <2>3. handler' \in [Irqs -> Handlers \cup {NULL}] /\ arg' \in [Irqs -> Args \cup {NULL}]
    BY <1>7, <2>1, <2>2 DEF Store
  <2> QED
    BY <1>7, <2>1, <2>3 DEF Store, gic, exception
<1>8. ASSUME NEW r \in Requests, irq_install_handler(r) PROVE TypeOK'
  BY <1>3, <1>8 DEF irq_install_handler
<1>9. ASSUME NEW irq \in Irqs \cup {r.irq : r \in Requests}, irq_free_handler(irq) PROVE TypeOK'
  <2>1. ~Refused(irq) => irq \in Irqs
    BY RequestsAssumption DEF Refused
  <2> QED
    BY <1>9, <2>1 DEF irq_free_handler, gic, exception
<1>10. CASE TakeIrq \/ ReadIar
  <2>1. CASE TakeIrq
    BY <2>1 DEF TakeIrq, tab, gic, monitor
  <2>2. CASE ReadIar
    <3>1. Signalled \subseteq Irqs
      BY DEF Signalled
    <3>2. /\ pending' \subseteq Irqs /\ active' \subseteq Irqs /\ running' \subseteq Irqs
          /\ irqnr' \in Irqs \cup {NULL}
          /\ ipc' \in {"none", "acked"}
      BY <2>2, <3>1 DEF ReadIar
    <3> QED
      BY <2>2, <3>2 DEF ReadIar, tab, monitor
  <2> QED
    BY <1>10, <2>1, <2>2
<1>11. CASE Eoi
  BY <1>11 DEF Eoi, RunningAfterEoi, tab, monitor
<1>12. CASE CallHandler
  BY <1>12 DEF CallHandler, tab, gic, monitor
<1>13. CASE Eret
  <2>1. CASE UNCHANGED gic
    BY <1>13, <2>1 DEF Eret, tab, gic, monitor
  <2>2. CASE gic_poke_irq(irqnr, ICACTIVER)
    <3>1. irqnr \in Nat
      BY <1>13, IrqRange DEF Eret, IInv, GicInv
    <3>2. prio' \in [Irqs -> 0 .. 255]
      BY <2>2, <3>1, PrioByte DEF ICACTIVER
    <3> QED
      BY <1>13, <2>2, <3>2 DEF Eret, gic_poke_irq, tab, monitor
  <2> QED
    BY <1>13, <2>1, <2>2 DEF Eret, gicv3_clean_active_irq
<1>14. ASSUME NEW i \in Irqs, Raise(i) \/ Withdraw(i) PROVE TypeOK'
  <2>1. raises' \in 0 .. MaxRaises
    BY <1>14, IrqsAssumption DEF Raise, Withdraw
  <2>2. line' \subseteq {j \in Irqs : Level(j)} /\ pending' \subseteq Irqs
    BY <1>14 DEF Raise, Withdraw, gic
  <2>3. UNCHANGED <<tab, enabled, active, prio, running, eoimode, ready, monitor, exception, fresh>>
    BY <1>14 DEF Raise, Withdraw, gic
  <2> QED
    BY <2>1, <2>2, <2>3 DEF tab, monitor, exception
<1>15. CASE UNCHANGED vars
  BY <1>15 DEF vars, tab, gic, monitor, exception
<1> QED
  BY <1>1, <1>2, <1>4, <1>5, <1>6, <1>7, <1>8, <1>9, <1>10, <1>11, <1>12, <1>13, <1>14, <1>15
     DEF Next, Monitor, Exception

(* The registers, the table and the monitor stay within their types: no    *)
(* write of gic_poke_irq() spoils a priority and no request outside the    *)
(* table is stored.                                                        *)
THEOREM TypesCorrect == Spec => []TypeOK
<1>1. Init => TypeOK
  <2> SUFFICES ASSUME Init PROVE TypeOK
    OBVIOUS
  <2>0. ready = FALSE /\ masked = TRUE /\ fresh = FALSE
    BY DEF Init
  <2>1. ready \in BOOLEAN /\ masked \in BOOLEAN /\ fresh \in BOOLEAN
    BY <2>0
  <2>2. prio \in [Irqs -> 0 .. 255] /\ raises \in 0 .. MaxRaises
    BY IrqsAssumption DEF Init
  <2> QED
    BY <2>1, <2>2 DEF Init, TypeOK
<1>2. IInv /\ TypeOK /\ [Next]_vars => TypeOK'
  BY TypeStep
<1> QED
  BY <1>1, <1>2, Invariant, PTL DEF Spec

(* An enabled PPI or SPI has a handler, save between the two statements of *)
(* gic_unregister_irq().                                                   *)
THEOREM HandlerPresent == Spec => []EnabledHasHandler
<1>1. IInv => EnabledHasHandler
  BY DEF IInv
<1> QED
  BY <1>1, Invariant, PTL

(* do_irq_handle() leaves nothing active and nothing running.              *)
THEOREM Balanced == Spec => []AckBalanced
<1>1. IInv => AckBalanced
  BY DEF IInv
<1> QED
  BY <1>1, Invariant, PTL

(* A first registration is never seen half done by the exception.          *)
THEOREM RegisteredPairs == Spec => []CalledAsRegistered
<1>1. IInv => CalledAsRegistered
  <2> SUFFICES ASSUME IInv, ipc = "dropped", handler[irqnr] # NULL,
                      mpc = "store", mreq.irq = irqnr, fresh, ~Lpi(irqnr), irqnr >= 16
               PROVE  FALSE
    BY IrqRange DEF IInv, GicInv, TableInv, CalledAsRegistered
  <2>1. irqnr \in enabled
    <3>1. irqnr \notin LpiEnabled
      BY LpisOnly
    <3>2. Enabled(irqnr)
      BY DEF IInv, GicInv
    <3> QED
      BY <3>1, <3>2 DEF Enabled
  <2>2. ready
    BY DEF IInv, GicInv
  <2> QED
    BY <2>1, <2>2 DEF IInv, GicInv
<1> QED
  BY <1>1, Invariant, PTL
=============================================================================
