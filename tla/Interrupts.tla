----------------------------- MODULE Interrupts -----------------------------
(***************************************************************************)
(* Hardware interrupts: the generic layer of eza/generic_api/interrupt.c   *)
(* (irqs[], register_irq() and friends, do_irq()), the I8259A driver       *)
(* behind it, the entry code of asm.S, and the part of the boot in main.c  *)
(* that brings them up while they already arrive.                          *)
(*                                                                         *)
(* Spinlocks are empty in this build and one CPU runs, so an interrupt may *)
(* come between any two steps of the code it interrupts, and that code     *)
(* moves only when every interrupt on top of it has returned: stack holds  *)
(* the interrupt frames, and main acts only when it is empty.  The pair of *)
(* 8259 chips is modelled from the commands the driver sends it; a chip    *)
(* has PicWidth lines, line Cascade of the first is the second.            *)
(***************************************************************************)
EXTENDS Integers, Sequences, SequencesExt, FiniteSets

CONSTANTS
  PicWidth,    (* lines of one chip; 8 in the hardware                     *)
  Cascade,     (* the master line of the slave chip: 2                     *)
  Devices,     (* lines that devices are wired to                          *)
  TimerLine,   (* TIMER_IRQ_LINE                                           *)
  Data,        (* private_data a driver may register with                  *)
  MaxActions,  (* length of descs[] in allocate_irq_action()               *)
  MaxRaises,   (* bound: requests the devices make                         *)
  MaxOps,      (* bound: calls the drivers make after the boot             *)
  MaxDepth     (* bound: nested interrupt frames                           *)

Lines  == 0 .. 2 * PicWidth - 1          (* 0 .. NUM_IRQS - 1 *)
Pins   == 0 .. PicWidth - 1
Chips  == {0, 1}
NoData == "NULL"

ASSUME LinesAssumption ==
  /\ PicWidth \in Nat /\ PicWidth > 1
  /\ Cascade \in Pins
  /\ Devices \subseteq Lines \ {Cascade}
  /\ TimerLine \in Pins \ {Cascade}
  /\ {MaxActions, MaxRaises, MaxOps, MaxDepth} \subseteq Nat

Action == [handler : {"timer", "driver"}, data : Data \cup {NoData}]
Frame  == [irq : Lines, at : {"enter", "ack", "spurious"}, phantom : BOOLEAN]

VARIABLES
  main,       (* where the boot is, or what the kernel threads do          *)
  regIrq,     (* the line register_irq() is about to unmask                *)
  ops, raises,       (* counters for the bounds                            *)
  ifFlag,     (* RFLAGS.IF                                                 *)
  stack,      (* interrupt frames, the innermost last                      *)
  controller, (* irqs[].controller is set                                  *)
  actions,    (* irqs[].actions                                            *)
  descs,      (* idx of allocate_irq_action()                              *)
  ticks,      (* swks.system_ticks_64                                      *)
  irqStat,    (* swks.cpu_stat[0].irq_stat                                 *)
  irr, isr, imr,     (* the chips: requests, in service, masked            *)
  phantom,    (* the master asserted INTR and the request is gone          *)
  blind       (* history: lines unmasked without regard to a handler       *)

mainVars == <<main, regIrq, ops>>
lineVars == <<controller, actions, descs>>
swksVars == <<ticks, irqStat>>
picVars  == <<irr, isr, imr, phantom>>
vars == <<mainVars, raises, ifFlag, stack, lineVars, swksVars, picVars,
          blind>>

AllMasked == [c \in Chips |-> Pins]
NoneOf    == [c \in Chips |-> {}]

Init ==
  /\ main = "initialize_irqs" /\ regIrq = 0 /\ ops = 0 /\ raises = 0
  /\ ifFlag = FALSE /\ stack = <<>>
  /\ controller = [l \in Lines |-> FALSE]
  /\ actions = [l \in Lines |-> <<>>]
  /\ descs = 0 /\ ticks = 0 /\ irqStat = [l \in Lines |-> 0]
  /\ irr = {} /\ isr = NoneOf
  /\ imr \in {NoneOf, AllMasked}                 (* as the BIOS left them *)
  /\ phantom = FALSE /\ blind = {}

-----------------------------------------------------------------------------
(* The I8259A chips *)

Chip(irq) == irq \div PicWidth
Pin(irq)  == irq % PicWidth

(* Mutant: the mask is an int, and the bit of a slave line is kept. *)
MaskBit_Wide(irq) == {irq}

(* (1 << irq) in the uint8_t mask: nothing is left of it for a slave line. *)
MaskBit(irq) == IF irq < PicWidth THEN {irq} ELSE {}

(* Mutant: the complement is missing. *)
Unmask_NoComplement(mask, irq) ==
  [mask EXCEPT ![Chip(irq)] = @ \cap MaskBit(irq)]

Unmask(mask, irq) == [mask EXCEPT ![Chip(irq)] = @ \ MaskBit(irq)]
Mask(mask, irq)   == [mask EXCEPT ![Chip(irq)] = @ \cup MaskBit(irq)]

(* A slave line also needs the cascade line of the master. *)
Open(mask, irq) ==
  /\ Pin(irq) \notin mask[Chip(irq)]
  /\ Chip(irq) = 1 => Cascade \notin mask[0]

(* The pin of the master through which a line reaches the CPU. *)
MasterPin(irq) == IF Chip(irq) = 0 THEN irq ELSE Cascade

Above(served, pin) == \A s \in served : pin < s

(* The chips present this request to the CPU. *)
Presented(irq) ==
  /\ irq \in irr /\ Open(imr, irq)
  /\ Above(isr[0], MasterPin(irq))
  /\ Chip(irq) = 1 => Above(isr[1], Pin(irq))

(* Priority: master pins in order, the slave's lines at the cascade pin. *)
Before(a, b) == \/ MasterPin(a) < MasterPin(b)
                \/ MasterPin(a) = MasterPin(b) /\ a < b

InService(irq) ==
  [c \in Chips |-> IF c = 0 THEN {MasterPin(irq)}
                   ELSE IF Chip(irq) = 1 THEN {Pin(irq)} ELSE {}]

(* A non-specific EOI ends the highest-priority service of a chip. *)
Eoi(served) == served \ {s \in served : \A t \in served : s <= t}

(* Mutant: the slave chip is not told. *)
AckIrq_MasterOnly(irq) == [isr EXCEPT ![0] = Eoi(@)]

(* Mutant: for a line of the slave the master is not told. *)
AckIrq_SlaveOnly(irq) == [isr EXCEPT ![Chip(irq)] = Eoi(@)]

AckIrq(irq) ==
  IF Chip(irq) = 1 THEN [c \in Chips |-> Eoi(isr[c])]
                   ELSE [isr EXCEPT ![0] = Eoi(@)]

Raise(irq) ==
  /\ raises < MaxRaises /\ irq \notin irr
  /\ irr' = irr \cup {irq}
  /\ raises' = raises + 1
  /\ UNCHANGED <<mainVars, ifFlag, stack, lineVars, swksVars, isr, imr,
                 phantom, blind>>

-----------------------------------------------------------------------------
(* Interrupt entry and do_irq() *)

Interruptible == ifFlag /\ main # "wild" /\ Len(stack) < MaxDepth
Top == stack[Len(stack)]
SetTop(at) == [stack EXCEPT ![Len(stack)].at = at]

Push(irq, isPhantom) ==
  stack' = Append(stack, [irq |-> irq, at |-> "enter", phantom |-> isPhantom])

(* Mutant: the gate is a trap gate, which leaves IF set. *)
IfInGate_Trap == TRUE

(* IF after an interrupt gate is passed. *)
IfInGate == FALSE

(* The CPU takes the request of the highest priority. *)
Accept(irq) ==
  /\ Interruptible /\ Presented(irq)
  /\ \A other \in irr : Presented(other) => ~Before(other, irq)
  /\ irr' = irr \ {irq}
  /\ isr' = [c \in Chips |-> isr[c] \cup InService(irq)[c]]
  /\ Push(irq, FALSE)
  /\ ifFlag' = IfInGate
  /\ UNCHANGED <<mainVars, raises, lineVars, swksVars, imr, phantom, blind>>

(* The request went away: the master answers with its last line, and       *)
(* nothing is in service.                                                  *)
AcceptPhantom ==
  /\ Interruptible /\ phantom
  /\ phantom' = FALSE
  /\ Push(PicWidth - 1, TRUE)
  /\ ifFlag' = IfInGate
  /\ UNCHANGED <<mainVars, raises, lineVars, swksVars, irr, isr, imr, blind>>

Timers(irq) == {i \in DOMAIN actions[irq] : actions[irq][i].handler = "timer"}

(* irq_stat[irq]++, then every handler of the line. *)
RunHandlers ==
  /\ stack # <<>> /\ Top.at = "enter"
  /\ ticks' = ticks + Cardinality(Timers(Top.irq))
  /\ irqStat' = [irqStat EXCEPT ![Top.irq] = @ + 1]
  /\ stack' = SetTop("ack")
  /\ UNCHANGED <<mainVars, raises, ifFlag, lineVars, picVars, blind>>

(* ack_irq(), then iretq restores IF of the interrupted code. *)
AckAndReturn ==
  /\ stack # <<>> /\ Top.at = "ack" /\ actions[Top.irq] # <<>>
  /\ isr' = AckIrq(Top.irq)
  /\ stack' = Front(stack)
  /\ ifFlag' = TRUE
  /\ UNCHANGED <<mainVars, raises, lineVars, swksVars, irr, imr, phantom,
                 blind>>

(* ack_irq(), no handler: interrupts_enable() inside the handler. *)
AckSpurious ==
  /\ stack # <<>> /\ Top.at = "ack" /\ actions[Top.irq] = <<>>
  /\ isr' = AckIrq(Top.irq)
  /\ stack' = SetTop("spurious")
  /\ ifFlag' = TRUE
  /\ UNCHANGED <<mainVars, raises, lineVars, swksVars, irr, imr, phantom,
                 blind>>

(* The message is printed; iretq. *)
SpuriousReturn ==
  /\ stack # <<>> /\ Top.at = "spurious"
  /\ stack' = Front(stack)
  /\ UNCHANGED <<mainVars, raises, ifFlag, lineVars, swksVars, picVars,
                 blind>>

DoIrq == RunHandlers \/ AckAndReturn \/ AckSpurious \/ SpuriousReturn

-----------------------------------------------------------------------------
(* The boot, main_routine() and main_routine_stage1() *)

At(label) == main = label /\ stack = <<>>

InitializeIrqs ==
  /\ At("initialize_irqs")
  /\ actions' = [l \in Lines |-> <<>>]
  /\ controller' = [l \in Lines |-> FALSE]
  /\ main' = "initialize_timer"
  /\ UNCHANGED <<regIrq, ops, raises, ifFlag, stack, descs, swksVars, picVars,
                 blind>>

(* disable_hw_irq() and enable_hw_irq() do nothing, and say so in a result *)
(* nobody reads, while the line has no controller.                         *)
HwDisabled(mask, irq) == IF controller[irq] THEN Mask(mask, irq) ELSE mask
HwEnabled(mask, irq)  == IF controller[irq] THEN Unmask(mask, irq) ELSE mask

(* Masking a line, or the cascade it comes through, while it is presented  *)
(* may leave the CPU with an interrupt whose request is gone.              *)
ChangeMask(mask) ==
  /\ imr' = mask
  /\ phantom' \in {phantom, \/ phantom
                           \/ \E irq \in irr : Presented(irq) /\ ~Open(mask, irq)}

(* The blindly unmasked lines, of these, that are still unmasked. *)
StillBlind(set) == {l \in set : Pin(l) \notin imr'[Chip(l)]}

InitializeTimer ==
  /\ At("initialize_timer")
  /\ imr' = HwEnabled(HwDisabled(imr, TimerLine), TimerLine)
  /\ main' = "i8259a_init"
  /\ UNCHANGED <<regIrq, ops, raises, ifFlag, stack, lineVars, swksVars, irr,
                 isr, phantom, blind>>

(* initialize_pic(), then register_hw_interrupt_controller(), which claims *)
(* every line.                                                             *)
I8259aInit ==
  /\ At("i8259a_init")
  /\ irr' = {} /\ isr' = NoneOf /\ imr' = AllMasked /\ phantom' = FALSE
  /\ controller' = [l \in Lines |-> TRUE]
  /\ main' = "install_irq_handlers"
  /\ UNCHANGED <<regIrq, ops, raises, ifFlag, stack, actions, descs, swksVars,
                 blind>>

(* The first half of register_irq(): the descriptor joins the line. *)
InstallAction(irq, action) ==
  /\ actions' = [actions EXCEPT ![irq] = Append(@, action)]
  /\ descs' = descs + 1
  /\ regIrq' = irq

InstallIrqHandlers ==
  /\ At("install_irq_handlers")
  /\ InstallAction(TimerLine, [handler |-> "timer", data |-> NoData])
  /\ main' = "unmask_timer"
  /\ UNCHANGED <<ops, raises, ifFlag, stack, controller, swksVars, picVars,
                 blind>>

(* The second half of register_irq(): enable_irq() of the controller. *)
UnmaskRegistered ==
  /\ At("unmask_timer") \/ At("unmask")
  /\ imr' = Unmask(imr, regIrq)
  /\ main' = IF main = "unmask_timer" THEN "interrupts_enable" ELSE "idle"
  /\ UNCHANGED <<regIrq, ops, raises, ifFlag, stack, lineVars, swksVars, irr,
                 isr, phantom, blind>>

InterruptsEnable ==
  /\ At("interrupts_enable")
  /\ ifFlag' = TRUE
  /\ main' = "zero_swks"
  /\ UNCHANGED <<regIrq, ops, raises, stack, lineVars, swksVars, picVars,
                 blind>>

(* initialize_swks() zeroes swks from its first byte on, interrupts being  *)
(* on: the tick counter first ...                                          *)
ZeroTicks ==
  /\ At("zero_swks")
  /\ ticks' = 0
  /\ main' = "zero_stat"
  /\ UNCHANGED <<regIrq, ops, raises, ifFlag, stack, lineVars, irqStat, picVars,
                 blind>>

(* ... the statistics behind it ... *)
ZeroStat ==
  /\ At("zero_stat")
  /\ irqStat' = [l \in Lines |-> 0]
  /\ main' = "set_ticks"
  /\ UNCHANGED <<regIrq, ops, raises, ifFlag, stack, lineVars, ticks, picVars,
                 blind>>

(* Mutant: relies on the zeroing, and does not set the counter again. *)
SetTicks_Omitted ==
  /\ At("set_ticks")
  /\ main' = "calibrate_disable"
  /\ UNCHANGED <<regIrq, ops, raises, ifFlag, stack, lineVars, swksVars,
                 picVars, blind>>

(* ... then sets INITIAL_TICKS_VALUE ... *)
SetTicks ==
  /\ At("set_ticks")
  /\ ticks' = 0
  /\ main' = "calibrate_disable"
  /\ UNCHANGED <<regIrq, ops, raises, ifFlag, stack, lineVars, irqStat, picVars,
                 blind>>

(* ... and __arch_i8254_init(), which masks the timer while it sets it up. *)
CalibrateDisable ==
  /\ At("calibrate_disable")
  /\ ChangeMask(HwDisabled(imr, TimerLine))
  /\ main' = "calibrate_enable"
  /\ UNCHANGED <<regIrq, ops, raises, ifFlag, stack, lineVars, swksVars, irr,
                 isr, blind>>

CalibrateEnable ==
  /\ At("calibrate_enable")
  /\ imr' = HwEnabled(imr, TimerLine)
  /\ main' = "enable_all_irqs"
  /\ UNCHANGED <<regIrq, ops, raises, ifFlag, stack, lineVars, swksVars, irr,
                 isr, phantom, blind>>

BootEnableAll ==
  /\ At("enable_all_irqs")
  /\ imr' = NoneOf /\ blind' = Lines
  /\ main' = "idle"
  /\ UNCHANGED <<regIrq, ops, raises, ifFlag, stack, lineVars, swksVars, irr,
                 isr, phantom>>

Boot == \/ InitializeIrqs \/ InitializeTimer \/ I8259aInit
        \/ InstallIrqHandlers \/ UnmaskRegistered \/ InterruptsEnable
        \/ ZeroTicks \/ ZeroStat \/ SetTicks
        \/ CalibrateDisable \/ CalibrateEnable \/ BootEnableAll

-----------------------------------------------------------------------------
(* The calls a driver makes once the kernel idles *)

Call == At("idle") /\ ops < MaxOps /\ ops' = ops + 1

(* allocate_irq_action() never checks its 128 descriptors, nor gets one    *)
(* back: past the last it writes over what follows descs[].                *)
RegisterIrq(irq, data) ==
  /\ Call
  /\ InstallAction(irq, [handler |-> "driver", data |-> data])
  /\ main' = IF descs < MaxActions THEN "unmask" ELSE "wild"
  /\ UNCHANGED <<raises, ifFlag, stack, controller, swksVars, picVars, blind>>

Entries(irq, data) == {i \in DOMAIN actions[irq] : actions[irq][i].data = data}

(* The walk goes on from the entry it has just deleted, whose next pointer *)
(* is LIST_POISON1: what it reads and unlinks from there is anything.      *)
UnregisterIrq(irq, data) ==
  /\ Call
  /\ \/ Entries(irq, data) = {} /\ UNCHANGED <<actions, main>>
     \/ \E i \in Entries(irq, data) :
          /\ \A j \in Entries(irq, data) : i <= j
          /\ actions' = [actions EXCEPT ![irq] = RemoveAt(@, i)]
          /\ main' = "wild"
  /\ UNCHANGED <<regIrq, raises, ifFlag, stack, controller, descs, swksVars,
                 picVars, blind>>

MaskCallUnchanged == UNCHANGED <<main, regIrq, raises, ifFlag, stack, lineVars,
                                 swksVars, irr, isr>>

EnableHwIrq(irq) ==
  /\ Call
  /\ ChangeMask(HwEnabled(imr, irq))
  /\ blind' = StillBlind(blind \cup {irq})
  /\ MaskCallUnchanged

DisableHwIrq(irq) ==
  /\ Call
  /\ ChangeMask(HwDisabled(imr, irq))
  /\ blind' = StillBlind(blind)
  /\ MaskCallUnchanged

EnableAllIrqs ==
  /\ Call
  /\ ChangeMask(NoneOf)
  /\ blind' = Lines
  /\ MaskCallUnchanged

DisableAllIrqs ==
  /\ Call
  /\ ChangeMask(AllMasked)
  /\ blind' = StillBlind(blind)
  /\ MaskCallUnchanged

Drivers ==
  \/ \E irq \in Devices : \/ \E data \in Data : \/ RegisterIrq(irq, data)
                                                \/ UnregisterIrq(irq, data)
                          \/ EnableHwIrq(irq) \/ DisableHwIrq(irq)
  \/ EnableAllIrqs \/ DisableAllIrqs

(* The idle loop spins; of a corrupted kernel nothing is claimed. *)
Idle == (At("idle") \/ main = "wild") /\ UNCHANGED vars

Next == \/ \E irq \in Devices : Raise(irq)
        \/ \E irq \in Lines : Accept(irq)
        \/ AcceptPhantom \/ DoIrq \/ Boot \/ Drivers \/ Idle

(* The CPU executes: the boot code, the handlers and, while IF is set, the *)
(* acceptance of what the chips present go on.  Drivers need not call.     *)
Spec == /\ Init /\ [][Next]_vars
        /\ WF_vars(Boot) /\ WF_vars(DoIrq) /\ WF_vars(AcceptPhantom)
        /\ WF_vars(\E irq \in Lines : Accept(irq))

-----------------------------------------------------------------------------
(* Properties *)

BootLabels == {"initialize_irqs", "initialize_timer", "i8259a_init",
               "install_irq_handlers", "unmask_timer", "interrupts_enable",
               "zero_swks", "zero_stat", "set_ticks", "calibrate_disable",
               "calibrate_enable", "enable_all_irqs"}

(* Every variable keeps the kind of value its C type and use give it; the  *)
(* masks are bytes.                                                        *)
TypeOK ==
  /\ main \in BootLabels \cup {"idle", "unmask", "wild"}
  /\ regIrq \in Lines
  /\ {ops, raises, descs, ticks} \subseteq Nat
  /\ ifFlag \in BOOLEAN /\ phantom \in BOOLEAN
  /\ stack \in Seq(Frame)
  /\ controller \in [Lines -> BOOLEAN]
  /\ actions \in [Lines -> Seq(Action)]
  /\ irqStat \in [Lines -> Nat]
  /\ irr \subseteq Lines /\ blind \subseteq Lines
  /\ isr \in [Chips -> SUBSET Pins] /\ imr \in [Chips -> SUBSET Pins]

(* A handler is never interrupted: do_irq() opens the CPU to interrupts    *)
(* only after its walk and its EOI, on the path of a spurious interrupt,   *)
(* so only such a frame ever lies under another.                           *)
HandlersNotPreempted ==
  /\ \A i \in 1 .. Len(stack) - 1 : stack[i].at = "spurious"
  /\ ifFlag => stack = <<>> \/ Top.at = "spurious"

(* The chips serve exactly the interrupt whose EOI do_irq() still owes:    *)
(* no EOI ends another line's service, and none is left in service when    *)
(* do_irq() returns, which would block the lines below it for good.        *)
InServiceMatchesStack ==
  isr = IF stack # <<>> /\ Top.at # "spurious" /\ ~Top.phantom
          THEN InService(Top.irq) ELSE NoneOf

(* register_irq() links the handler before it unmasks the line: the        *)
(* spurious path, which enables interrupts inside the handler, is only     *)
(* taken for lines unmasked by enable_all_irqs() or enable_hw_irq(), or    *)
(* for a request that went away.                                           *)
SpuriousOnlyIfBlind ==
  \A i \in 1 .. Len(stack) :
    stack[i].at = "spurious" => stack[i].irq \in blind \/ stack[i].phantom

(* initialize_swks() runs while the timer already ticks.  It may lose      *)
(* ticks, but leaves no tick without the interrupt that counted it.        *)
TicksWithinStat ==
  main \notin {"zero_stat", "set_ticks"} => ticks <= irqStat[TimerLine]

(* A request on an open line is taken: whatever came before it, on either  *)
(* chip, was acknowledged to both, and interrupts come on again.           *)
OpenRequestsTaken ==
  \A irq \in Devices :
    irq \in irr /\ Open(imr, irq) /\ ifFlag
      ~> irq \notin irr \/ ~Open(imr, irq) \/ main = "wild"
=============================================================================
