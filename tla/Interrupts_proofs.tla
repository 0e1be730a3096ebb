-------------------------- MODULE Interrupts_proofs --------------------------
(***************************************************************************)
(* Theorems about Interrupts for every width of the chips, every set of    *)
(* devices and drivers, and without the bounds of the model checker.       *)
(***************************************************************************)
EXTENDS Interrupts, FiniteSetTheorems, SequenceTheorems, TLAPS

(* Every line of irqs[] is a pin of one of the two chips. *)
LEMMA LineFacts ==
  ASSUME NEW irq \in Lines
  PROVE  Chip(irq) \in Chips /\ Pin(irq) \in Pins /\ MasterPin(irq) \in Pins
  <1> PICK w \in Nat \ {0, 1} : w = PicWidth
    BY LinesAssumption
  <1>1. irq \in 0 .. 2 * w - 1
    BY DEF Lines
  <1>2. irq \div w \in {0, 1} /\ irq % w \in 0 .. w - 1
        /\ (irq \div w = 0 => irq \in 0 .. w - 1)
    BY <1>1
  <1> QED BY <1>2, LinesAssumption DEF Chip, Pin, Pins, Chips, MasterPin

(* Acknowledging the one interrupt in service, or one that never was,      *)
(* leaves nothing in service on either chip.                               *)
LEMMA AckEndsService ==
  ASSUME NEW irq \in Lines, isr = InService(irq) \/ isr = NoneOf
  PROVE  AckIrq(irq) = NoneOf
  <1>1. MasterPin(irq) \in Nat /\ Pin(irq) \in Nat /\ Chip(irq) \in {0, 1}
    BY LineFacts DEF Pins, Chips
  <1>2. Eoi({}) = {} /\ \A x \in Nat : Eoi({x}) = {}
    BY DEF Eoi
  <1>3. CASE Chip(irq) = 1
    <2>1. \A c \in Chips : Eoi(isr[c]) = {}
      BY <1>1, <1>2, <1>3 DEF InService, NoneOf, Chips
    <2> QED BY <2>1, <1>3 DEF AckIrq, NoneOf
  <1>4. CASE Chip(irq) = 0
    <2>1. isr[1] = {} /\ Eoi(isr[0]) = {} /\ DOMAIN isr = Chips
          /\ isr = [c \in Chips |-> isr[c]]
      BY <1>1, <1>2, <1>4 DEF InService, NoneOf, Chips
    <2>2. AckIrq(irq) = [isr EXCEPT ![0] = {}]
      BY <2>1, <1>4 DEF AckIrq
    <2> QED BY <2>1, <2>2 DEF NoneOf, Chips
  <1> QED BY <1>1, <1>3, <1>4

Inv == TypeOK /\ HandlersNotPreempted /\ InServiceMatchesStack

(* The invariant holds before initialize_irqs() has run. *)
LEMMA InitInv == Init => Inv
  <1> SUFFICES ASSUME Init PROVE Inv
    OBVIOUS
  <1>1. TypeOK
    <2>1. 0 \in Lines
      BY LinesAssumption DEF Lines
    <2>2. {ops, raises, descs, ticks} \subseteq Nat
      BY DEF Init
    <2>3. stack \in Seq(Frame) /\ actions \in [Lines -> Seq(Action)]
      BY DEF Init
    <2> QED BY <2>1, <2>2, <2>3
            DEF Init, TypeOK, BootLabels, NoneOf, AllMasked, Chips, Pins
  <1>2. HandlersNotPreempted
    BY DEF Init, HandlersNotPreempted
  <1>3. InServiceMatchesStack
    BY DEF Init, InServiceMatchesStack
  <1> QED BY <1>1, <1>2, <1>3 DEF Inv

(* Entering an interrupt: the interrupted code was the kernel or a          *)
(* spurious frame, with nothing in service.                                 *)
LEMMA EntryInv ==
  ASSUME Inv, (\E irq \in Lines : Accept(irq)) \/ AcceptPhantom
  PROVE  Inv'
  <1> USE DEF Inv
  <1>1. stack \in Seq(Frame) /\ ifFlag /\ isr = NoneOf
        /\ \A i \in 1 .. Len(stack) : stack[i].at = "spurious"
    <2>1. stack \in Seq(Frame) /\ ifFlag
      BY DEF Accept, AcceptPhantom, Interruptible, TypeOK
    <2>2. stack = <<>> \/ Top.at = "spurious"
      BY <2>1 DEF HandlersNotPreempted
    <2>3. isr = NoneOf
      BY <2>2 DEF InServiceMatchesStack
    <2>4. \A i \in 1 .. Len(stack) : stack[i].at = "spurious"
      BY <2>1, <2>2 DEF HandlersNotPreempted, Top
    <2> QED BY <2>1, <2>3, <2>4
  <1> PICK irq \in Lines, gone \in BOOLEAN :
         /\ Push(irq, gone) /\ ifFlag' = FALSE
         /\ isr' = IF gone THEN isr
                   ELSE [c \in Chips |-> isr[c] \cup InService(irq)[c]]
         /\ irr' \subseteq irr /\ phantom' \in BOOLEAN
         /\ UNCHANGED <<main, regIrq, ops, raises, controller, actions, descs,
                        ticks, irqStat, imr, blind>>
    <2>1. CASE \E irq \in Lines : Accept(irq)
      <3> PICK irq \in Lines : Accept(irq)
        BY <2>1
      <3> QED BY DEF Accept, IfInGate, mainVars, lineVars, swksVars, TypeOK
    <2>2. CASE AcceptPhantom
      <3>1. PicWidth - 1 \in Lines
        BY LinesAssumption DEF Lines
      <3> QED BY <2>2, <3>1 DEF AcceptPhantom, IfInGate, mainVars, lineVars,
                                swksVars, TypeOK
    <2> QED BY <2>1, <2>2
  <1> PICK new \in Frame : new = [irq |-> irq, at |-> "enter", phantom |-> gone]
    BY DEF Frame
  <1>2. stack' = Append(stack, new)
    BY DEF Push
  <1>3. /\ stack' \in Seq(Frame) /\ Len(stack') = Len(stack) + 1
        /\ Len(stack) \in Nat /\ stack'[Len(stack) + 1] = new
        /\ \A i \in 1 .. Len(stack) : stack'[i] = stack[i]
    BY <1>1, <1>2
  <1>4. TypeOK'
    <2>1. InService(irq) \in [Chips -> SUBSET Pins]
      BY LineFacts DEF InService
    <2>2. isr' \in [Chips -> SUBSET Pins]
      BY <2>1 DEF TypeOK
    <2>3. {ops, raises, descs, ticks}' \subseteq Nat
      BY DEF TypeOK
    <2> QED BY <2>2, <2>3, <1>3 DEF TypeOK
  <1>5. HandlersNotPreempted'
    BY <1>1, <1>3 DEF HandlersNotPreempted
  <1>6. InServiceMatchesStack'
    <2>1. stack' # <<>> /\ Top' = new
      BY <1>3 DEF Top
    <2>2. new.at = "enter" /\ new.irq = irq /\ new.phantom = gone
      OBVIOUS
    <2>3. isr' = IF gone THEN NoneOf ELSE InService(irq)
      BY <1>1 DEF NoneOf, InService
    <2> QED BY <2>1, <2>2, <2>3 DEF InServiceMatchesStack, InService, NoneOf
  <1> QED BY <1>4, <1>5, <1>6

(* do_irq() and its return: the EOI is sent once, for the frame on top.     *)
LEMMA DoIrqInv ==
  ASSUME Inv, DoIrq
  PROVE  Inv'
  <1> USE DEF Inv
  <1>1. /\ stack \in Seq(Frame) /\ stack # <<>> /\ Len(stack) \in Nat \ {0}
        /\ Top \in Frame /\ Top.irq \in Lines
        /\ \A i \in 1 .. Len(stack) - 1 : stack[i].at = "spurious"
    <2>1. stack \in Seq(Frame) /\ stack # <<>>
      BY DEF DoIrq, RunHandlers, AckAndReturn, AckSpurious, SpuriousReturn,
             TypeOK
    <2>2. Len(stack) \in Nat \ {0} /\ Top \in Frame
      BY <2>1 DEF Top
    <2> QED BY <2>1, <2>2 DEF Frame, HandlersNotPreempted
  <1>2. isr = InService(Top.irq) \/ isr = NoneOf
    BY DEF InServiceMatchesStack
  <1>3. UNCHANGED <<main, regIrq, ops, raises, controller, actions, descs, irr,
                    imr, phantom, blind>>
    BY DEF DoIrq, RunHandlers, AckAndReturn, AckSpurious, SpuriousReturn,
           mainVars, lineVars, picVars
  <1>4. \A at \in {"ack", "spurious"} :
          stack' = SetTop(at) =>
            /\ stack' \in Seq(Frame) /\ Len(stack') = Len(stack)
            /\ Top'.at = at /\ Top'.irq = Top.irq /\ Top'.phantom = Top.phantom
            /\ stack' # <<>>
            /\ \A i \in 1 .. Len(stack) - 1 : stack'[i] = stack[i]
    <2> TAKE at \in {"ack", "spurious"}
    <2> HAVE stack' = SetTop(at)
    <2> PICK f \in Frame : f = [Top EXCEPT !.at = at]
      BY <1>1 DEF Frame
    <2>1. f.at = at /\ f.irq = Top.irq /\ f.phantom = Top.phantom
      BY <1>1 DEF Frame
    <2>2. stack' = [stack EXCEPT ![Len(stack)] = f]
      BY DEF SetTop, Top
    <2>3. /\ stack' \in Seq(Frame) /\ Len(stack') = Len(stack)
          /\ stack'[Len(stack)] = f
          /\ \A i \in 1 .. Len(stack) - 1 : stack'[i] = stack[i]
      BY <1>1, <2>2
    <2> QED BY <1>1, <2>1, <2>3 DEF Top
  <1>5. stack' = Front(stack) =>
          /\ stack' \in Seq(Frame) /\ Len(stack') = Len(stack) - 1
          /\ \A i \in 1 .. Len(stack) - 1 : stack'[i] = stack[i]
          /\ stack' = <<>> \/ Top'.at = "spurious"
    <2> SUFFICES ASSUME stack' = Front(stack)
                 PROVE  /\ stack' \in Seq(Frame) /\ Len(stack') = Len(stack) - 1
                        /\ \A i \in 1 .. Len(stack) - 1 : stack'[i] = stack[i]
                        /\ stack' = <<>> \/ Top'.at = "spurious"
      OBVIOUS
    <2>1. stack' = SubSeq(stack, 1, Len(stack) - 1)
      BY DEF Front
    <2>2. /\ stack' \in Seq(Frame) /\ Len(stack') = Len(stack) - 1
          /\ \A i \in 1 .. Len(stack) - 1 : stack'[i] = stack[i]
      <3>1. \A i \in 1 .. Len(stack) - 1 : stack[i] \in Frame
        BY <1>1
      <3>2. 1 \in Int /\ Len(stack) - 1 \in Int
        BY <1>1
      <3>3. /\ stack' \in Seq(Frame)
            /\ Len(stack') = IF 1 <= Len(stack) - 1 THEN Len(stack) - 1 - 1 + 1
                             ELSE 0
            /\ \A i \in 1 .. Len(stack) - 1 - 1 + 1 :
                 stack'[i] = stack[1 + i - 1]
        BY <2>1, <3>1, <3>2, SubSeqProperties
      <3>4. \A i \in 1 .. Len(stack) - 1 : 1 + i - 1 = i
        OBVIOUS
      <3>5. /\ Len(stack) - 1 - 1 + 1 = Len(stack) - 1
            /\ Len(stack) - 1 = 0 \/ 1 <= Len(stack) - 1
            /\ ~(1 <= 0)
        <4> PICK n \in Nat \ {0} : n = Len(stack)
          BY <1>1
        <4>1. n - 1 - 1 + 1 = n - 1 /\ (n - 1 = 0 \/ 1 <= n - 1) /\ ~(1 <= 0)
          OBVIOUS
        <4> QED BY <4>1
      <3>6. Len(stack') = Len(stack) - 1
        BY <3>3, <3>5
      <3>7. \A i \in 1 .. Len(stack) - 1 : stack'[i] = stack[i]
        BY <3>3, <3>4, <3>5
      <3> QED BY <3>3, <3>6, <3>7
    <2>3. CASE Len(stack) = 1
      BY <2>2, <2>3
    <2>4. CASE Len(stack) # 1
      <3>1. Len(stack') \in 1 .. Len(stack) - 1
        BY <1>1, <2>2, <2>4
      <3> QED BY <1>1, <2>2, <3>1 DEF Top
    <2> QED BY <2>2, <2>3, <2>4
  <1>6. CASE RunHandlers
    <2>1. /\ Top.at = "enter" /\ stack' = SetTop("ack")
          /\ UNCHANGED <<ifFlag, isr>>
      BY <1>6 DEF RunHandlers, picVars
    <2>2. ~ifFlag
      BY <1>1, <2>1 DEF HandlersNotPreempted
    <2>3. TypeOK'
      <3>1. {ticks}' \subseteq Nat
        <4>1. actions[Top.irq] \in Seq(Action)
          BY <1>1 DEF TypeOK
        <4>2. IsFiniteSet(1 .. Len(actions[Top.irq]))
          BY <4>1, FS_Interval
        <4>3. Timers(Top.irq) \subseteq 1 .. Len(actions[Top.irq])
          BY <4>1 DEF Timers
        <4>4. Cardinality(Timers(Top.irq)) \in Nat
          BY <4>2, <4>3, FS_Subset, FS_CardinalityType
        <4> QED BY <4>4, <1>6 DEF RunHandlers, TypeOK
      <3>2. irqStat' \in [Lines -> Nat]
        BY <1>1, <1>6 DEF RunHandlers, TypeOK
      <3>3. {ops, raises, descs, ticks}' \subseteq Nat
        BY <3>1, <1>3 DEF TypeOK
      <3> QED BY <3>2, <3>3, <1>3, <1>4, <2>1 DEF TypeOK
    <2>4. HandlersNotPreempted'
      BY <1>1, <1>4, <2>1, <2>2 DEF HandlersNotPreempted
    <2>5. InServiceMatchesStack'
      BY <1>1, <1>4, <2>1 DEF InServiceMatchesStack, InService, NoneOf
    <2> QED BY <2>3, <2>4, <2>5
  <1>7. CASE AckAndReturn \/ AckSpurious \/ SpuriousReturn
    <2>1. UNCHANGED <<ticks, irqStat>>
      BY <1>7 DEF AckAndReturn, AckSpurious, SpuriousReturn, swksVars
    <2>2. isr' = NoneOf
      <3>1. CASE AckAndReturn \/ AckSpurious
        BY <3>1, <1>1, <1>2, AckEndsService DEF AckAndReturn, AckSpurious
      <3>2. CASE SpuriousReturn
        BY <3>2 DEF SpuriousReturn, picVars, InServiceMatchesStack
      <3> QED BY <1>7, <3>1, <3>2
    <2>3. /\ stack' \in Seq(Frame) /\ ifFlag' \in BOOLEAN
          /\ stack' = <<>> \/ Top'.at = "spurious"
          /\ \A i \in 1 .. Len(stack') - 1 : stack'[i].at = "spurious"
      <3>1. CASE AckSpurious
        <4>1. stack' = SetTop("spurious") /\ ifFlag' = TRUE
          BY <3>1 DEF AckSpurious
        <4> QED BY <4>1, <1>1, <1>4
      <3>2. CASE AckAndReturn \/ SpuriousReturn
        <4>1. stack' = Front(stack) /\ ifFlag' \in BOOLEAN
          BY <3>2 DEF AckAndReturn, SpuriousReturn, TypeOK
        <4>2. \A i \in 1 .. Len(stack') - 1 : i \in 1 .. Len(stack) - 1
          BY <4>1, <1>1, <1>5
        <4> QED BY <4>1, <4>2, <1>1, <1>5
      <3> QED BY <1>7, <3>1, <3>2
    <2>4. TypeOK'
      <3>1. isr' \in [Chips -> SUBSET Pins]
        BY <2>2 DEF NoneOf
      <3>2. {ops, raises, descs, ticks}' \subseteq Nat
        BY <2>1, <1>3 DEF TypeOK
      <3> QED BY <3>1, <3>2, <1>3, <2>1, <2>3 DEF TypeOK
    <2>5. HandlersNotPreempted'
      BY <2>3 DEF HandlersNotPreempted
    <2>6. InServiceMatchesStack'
      BY <2>2, <2>3 DEF InServiceMatchesStack, NoneOf
    <2> QED BY <2>4, <2>5, <2>6
  <1> QED BY <1>6, <1>7 DEF DoIrq

(* What a driver call or boot step may do to the masks keeps them bytes.    *)
LEMMA MaskTyped ==
  ASSUME TypeOK
  PROVE  \A irq \in Lines :
           /\ Unmask(imr, irq) \in [Chips -> SUBSET Pins]
           /\ HwEnabled(imr, irq) \in [Chips -> SUBSET Pins]
           /\ HwDisabled(imr, irq) \in [Chips -> SUBSET Pins]
           /\ HwEnabled(HwDisabled(imr, irq), irq) \in [Chips -> SUBSET Pins]
  <1> TAKE irq \in Lines
  <1>1. MaskBit(irq) \subseteq Pins
    BY LinesAssumption DEF MaskBit, Pins, Lines
  <1>2. \A mask \in [Chips -> SUBSET Pins] :
          /\ Unmask(mask, irq) \in [Chips -> SUBSET Pins]
          /\ Mask(mask, irq) \in [Chips -> SUBSET Pins]
    BY <1>1 DEF Unmask, Mask
  <1>3. imr \in [Chips -> SUBSET Pins]
    BY DEF TypeOK
  <1> QED BY <1>2, <1>3 DEF HwEnabled, HwDisabled

(* The line that install_irq_handlers() registers exists. *)
LEMMA TimerLineIsLine == TimerLine \in Lines
  BY LinesAssumption DEF Lines, Pins

(* A descriptor joins the tail of its line's list.                          *)
LEMMA InstallTyped ==
  ASSUME TypeOK, NEW irq \in Lines, NEW a \in Action, InstallAction(irq, a)
  PROVE  /\ actions' \in [Lines -> Seq(Action)] /\ regIrq' \in Lines
         /\ descs' \in Nat
  <1>1. actions \in [Lines -> Seq(Action)] /\ descs \in Nat
    BY DEF TypeOK
  <1>2. Append(actions[irq], a) \in Seq(Action)
    BY <1>1
  <1>3. actions' = [actions EXCEPT ![irq] = Append(actions[irq], a)]
        /\ descs' = descs + 1 /\ regIrq' = irq
    BY DEF InstallAction
  <1> QED BY <1>1, <1>2, <1>3

(* The boot acts between interrupts only, and leaves the stack empty.       *)
LEMMA BootTyped ==
  ASSUME TypeOK, Boot
  PROVE  TypeOK' /\ stack = <<>> /\ stack' = <<>> /\ (isr' = isr \/ isr' = NoneOf)
  <1> USE DEF mainVars, lineVars, swksVars, picVars, At, BootLabels
  <1>1. CASE InitializeIrqs
    BY <1>1 DEF InitializeIrqs, TypeOK
  <1>2. CASE InitializeTimer
    BY <1>2, MaskTyped, TimerLineIsLine DEF InitializeTimer, TypeOK
  <1>3. CASE I8259aInit
    BY <1>3 DEF I8259aInit, TypeOK, NoneOf, AllMasked
  <1>4. CASE InstallIrqHandlers
    <2>1. /\ InstallAction(TimerLine, [handler |-> "timer", data |-> NoData])
          /\ [handler |-> "timer", data |-> NoData] \in Action
      BY <1>4 DEF InstallIrqHandlers, Action
    <2>2. /\ actions' \in [Lines -> Seq(Action)] /\ regIrq' \in Lines
          /\ descs' \in Nat
      BY <2>1, InstallTyped, TimerLineIsLine
    <2>3. {ops, raises, descs, ticks}' \subseteq Nat
      BY <1>4, <2>2 DEF InstallIrqHandlers, TypeOK
    <2> QED BY <1>4, <2>2, <2>3 DEF InstallIrqHandlers, TypeOK
  <1>5. CASE UnmaskRegistered
    BY <1>5, MaskTyped DEF UnmaskRegistered, TypeOK
  <1>6. CASE InterruptsEnable
    BY <1>6 DEF InterruptsEnable, TypeOK
  <1>7. CASE ZeroTicks
    BY <1>7 DEF ZeroTicks, TypeOK
  <1>8. CASE ZeroStat
    BY <1>8 DEF ZeroStat, TypeOK
  <1>9. CASE SetTicks
    BY <1>9 DEF SetTicks, TypeOK
  <1>10. CASE CalibrateDisable
    BY <1>10, MaskTyped, TimerLineIsLine DEF CalibrateDisable, TypeOK, ChangeMask
  <1>11. CASE CalibrateEnable
    BY <1>11, MaskTyped, TimerLineIsLine DEF CalibrateEnable, TypeOK
  <1>12. CASE BootEnableAll
    BY <1>12 DEF BootEnableAll, TypeOK, NoneOf
  <1> QED BY <1>1, <1>2, <1>3, <1>4, <1>5, <1>6, <1>7, <1>8, <1>9, <1>10, <1>11,
             <1>12 DEF Boot

(* list_del() of any entry leaves a list of what was on it.                 *)
LEMMA RemoveAtTyped ==
  ASSUME NEW S, NEW s \in Seq(S), NEW k \in 1 .. Len(s)
  PROVE  RemoveAt(s, k) \in Seq(S)
  <1>1. Len(s) \in Nat /\ k \in Int /\ k - 1 \in Int /\ k + 1 \in Int
        /\ 1 \in Int /\ Len(s) \in Int
    OBVIOUS
  <1>2. \A i \in 1 .. k - 1 : s[i] \in S
    OBVIOUS
  <1>3. \A i \in k + 1 .. Len(s) : s[i] \in S
    OBVIOUS
  <1>4. SubSeq(s, 1, k - 1) \in Seq(S)
    BY <1>1, <1>2, SubSeqProperties
  <1>5. SubSeq(s, k + 1, Len(s)) \in Seq(S)
    BY <1>1, <1>3, SubSeqProperties
  <1> QED BY <1>4, <1>5 DEF RemoveAt

(* A call of a driver acts between interrupts, and leaves the chips' service *)
(* alone.                                                                   *)
LEMMA DriversTyped ==
  ASSUME TypeOK, Drivers
  PROVE  TypeOK' /\ stack = <<>> /\ stack' = <<>> /\ isr' = isr
  <1> USE DEF mainVars, lineVars, swksVars, picVars, At, BootLabels, Call,
              MaskCallUnchanged, ChangeMask
  <1>0. Devices \subseteq Lines
    BY LinesAssumption
  <1>1. CASE \E irq \in Devices, data \in Data : RegisterIrq(irq, data)
    <2> PICK irq \in Lines, data \in Data : RegisterIrq(irq, data)
      BY <1>0, <1>1
    <2>1. [handler |-> "driver", data |-> data] \in Action
      BY DEF Action
    <2>2. /\ actions' \in [Lines -> Seq(Action)] /\ regIrq' \in Lines
          /\ descs' \in Nat
      BY <2>1, InstallTyped DEF RegisterIrq
    <2>3. {ops, raises, descs, ticks}' \subseteq Nat
      BY <2>2 DEF RegisterIrq, TypeOK
    <2> QED BY <2>2, <2>3 DEF RegisterIrq, TypeOK
  <1>2. CASE \E irq \in Devices, data \in Data : UnregisterIrq(irq, data)
    <2> PICK irq \in Lines, data \in Data : UnregisterIrq(irq, data)
      BY <1>0, <1>2
    <2>1. actions' \in [Lines -> Seq(Action)]
      <3>1. actions \in [Lines -> Seq(Action)]
        BY DEF TypeOK
      <3>2. CASE UNCHANGED actions
        BY <3>1, <3>2
      <3>3. CASE \E i \in Entries(irq, data) :
                   actions' = [actions EXCEPT ![irq] = RemoveAt(@, i)]
        <4> PICK k \in Entries(irq, data) :
                   actions' = [actions EXCEPT ![irq] = RemoveAt(@, k)]
          BY <3>3
        <4> PICK s \in Seq(Action) : s = actions[irq]
          BY <3>1
        <4>1. k \in 1 .. Len(s)
          BY DEF Entries
        <4>2. RemoveAt(s, k) \in Seq(Action)
          BY <4>1, RemoveAtTyped
        <4>3. actions' = [actions EXCEPT ![irq] = RemoveAt(s, k)]
          OBVIOUS
        <4> QED BY <3>1, <4>2, <4>3
      <3> QED BY <3>2, <3>3 DEF UnregisterIrq
    <2>2. {ops, raises, descs, ticks}' \subseteq Nat
      BY DEF UnregisterIrq, TypeOK
    <2> QED BY <2>1, <2>2 DEF UnregisterIrq, TypeOK
  <1>3. CASE \E irq \in Devices : EnableHwIrq(irq)
    <2> PICK irq \in Lines : EnableHwIrq(irq)
      BY <1>0, <1>3
    <2>1. imr' \in [Chips -> SUBSET Pins] /\ blind' \subseteq Lines
      BY MaskTyped DEF EnableHwIrq, TypeOK, StillBlind
    <2>2. phantom' \in BOOLEAN
      BY DEF EnableHwIrq, TypeOK
    <2>3. {ops, raises, descs, ticks}' \subseteq Nat
      BY DEF EnableHwIrq, TypeOK
    <2> QED BY <2>1, <2>2, <2>3 DEF EnableHwIrq, TypeOK
  <1>4. CASE \E irq \in Devices : DisableHwIrq(irq)
    <2> PICK irq \in Lines : DisableHwIrq(irq)
      BY <1>0, <1>4
    <2>1. imr' \in [Chips -> SUBSET Pins] /\ blind' \subseteq Lines
      BY MaskTyped DEF DisableHwIrq, TypeOK, StillBlind
    <2>2. phantom' \in BOOLEAN
      BY DEF DisableHwIrq, TypeOK
    <2>3. {ops, raises, descs, ticks}' \subseteq Nat
      BY DEF DisableHwIrq, TypeOK
    <2> QED BY <2>1, <2>2, <2>3 DEF DisableHwIrq, TypeOK
  <1>5. CASE EnableAllIrqs
    <2>1. imr' \in [Chips -> SUBSET Pins] /\ blind' \subseteq Lines
      BY <1>5 DEF EnableAllIrqs, TypeOK, NoneOf
    <2>2. phantom' \in BOOLEAN
      BY <1>5 DEF EnableAllIrqs, TypeOK
    <2>3. {ops, raises, descs, ticks}' \subseteq Nat
      BY <1>5 DEF EnableAllIrqs, TypeOK
    <2> QED BY <1>5, <2>1, <2>2, <2>3 DEF EnableAllIrqs, TypeOK
  <1>6. CASE DisableAllIrqs
    <2>1. imr' \in [Chips -> SUBSET Pins] /\ blind' \subseteq Lines
      BY <1>6 DEF DisableAllIrqs, TypeOK, AllMasked, StillBlind
    <2>2. phantom' \in BOOLEAN
      BY <1>6 DEF DisableAllIrqs, TypeOK
    <2>3. {ops, raises, descs, ticks}' \subseteq Nat
      BY <1>6 DEF DisableAllIrqs, TypeOK
    <2> QED BY <1>6, <2>1, <2>2, <2>3 DEF DisableAllIrqs, TypeOK
  <1> QED BY <1>1, <1>2, <1>3, <1>4, <1>5, <1>6 DEF Drivers

(* Every step of the hardware, the kernel and the drivers keeps Inv.        *)
LEMMA InvInductive == Inv /\ [Next]_vars => Inv'
  <1> SUFFICES ASSUME Inv, [Next]_vars PROVE Inv'
    OBVIOUS
  <1>1. CASE \E irq \in Devices : Raise(irq)
    <2> PICK irq \in Lines : Raise(irq)
      BY <1>1, LinesAssumption
    <2>1. {ops, raises, descs, ticks}' \subseteq Nat
          /\ UNCHANGED <<main, regIrq, ifFlag, stack, controller, actions,
                         irqStat, isr, imr, phantom, blind>>
      BY DEF Inv, TypeOK, Raise, mainVars, lineVars, swksVars
    <2>2. TypeOK'
      BY <2>1 DEF Inv, TypeOK, Raise
    <2> QED BY <2>1, <2>2 DEF Inv, HandlersNotPreempted, InServiceMatchesStack, Top
  <1>2. CASE (\E irq \in Lines : Accept(irq)) \/ AcceptPhantom
    BY <1>2, EntryInv
  <1>3. CASE DoIrq
    BY <1>3, DoIrqInv
  <1>4. CASE Boot \/ Drivers
    <2>1. /\ TypeOK' /\ stack = <<>> /\ stack' = <<>>
          /\ isr' = isr \/ isr' = NoneOf
      BY <1>4, BootTyped, DriversTyped DEF Inv
    <2>2. isr = NoneOf
      BY <2>1 DEF Inv, InServiceMatchesStack
    <2> QED BY <2>1, <2>2
            DEF Inv, HandlersNotPreempted, InServiceMatchesStack, NoneOf
  <1>5. CASE UNCHANGED vars
    BY <1>5 DEF Inv, TypeOK, HandlersNotPreempted, InServiceMatchesStack, Top,
                vars, mainVars, lineVars, swksVars, picVars
  <1> QED BY <1>1, <1>2, <1>3, <1>4, <1>5 DEF Next, Idle

(* The invariant holds in every state of every run. *)
LEMMA InvHolds == Spec => []Inv
  BY InitInv, InvInductive, PTL DEF Spec

(* Every variable keeps its type: the masks stay bytes, the lists stay      *)
(* lists of descriptors.                                                    *)
THEOREM TypeCorrect == Spec => []TypeOK
  <1>1. Inv => TypeOK
    BY DEF Inv
  <1> QED BY <1>1, InvHolds, PTL

(* do_irq() is never interrupted while it walks the handlers of a line or   *)
(* owes an EOI, however deep spurious interrupts nest.                      *)
THEOREM NoPreemption == Spec => []HandlersNotPreempted
  <1>1. Inv => HandlersNotPreempted
    BY DEF Inv
  <1> QED BY <1>1, InvHolds, PTL

(* Each EOI of ack_irq() ends the service it is meant for, on both chips,   *)
(* so that no line is left blocked once do_irq() has returned.              *)
THEOREM EoiMatched == Spec => []InServiceMatchesStack
  <1>1. Inv => InServiceMatchesStack
    BY DEF Inv
  <1> QED BY <1>1, InvHolds, PTL

-----------------------------------------------------------------------------
(* Why an interrupt may find no handler *)

(* The labels of the boot at which the lines have no controller yet.        *)
Unready == {"initialize_irqs", "initialize_timer", "i8259a_init"}

(* From install_irq_handlers() until __arch_i8254_init() is done.           *)
WithTimer == {"unmask_timer", "interrupts_enable", "zero_swks", "zero_stat",
              "set_ticks", "calibrate_disable", "calibrate_enable"}

(* Interrupts are off until the chips are set up, and a corrupted kernel    *)
(* has none on its stack.                                                   *)
NotYetInterrupted ==
  /\ main \in Unready \cup {"wild"} => stack = <<>>
  /\ main \in Unready => ~ifFlag

(* No handler is linked before install_irq_handlers().                      *)
EmptyUntilInstalled ==
  main \in Unready \cup {"install_irq_handlers"} =>
    \A l \in Lines : actions[l] = <<>>

(* What the boot and register_irq() are about to unmask has a handler.      *)
LinkedBeforeUnmask ==
  /\ main \in {"unmask_timer", "unmask"} => actions[regIrq] # <<>>
  /\ main \in WithTimer => actions[TimerLine] # <<>>

(* A line whose own pin is unmasked has a handler, or was unmasked blindly. *)
OpenLinesExplained ==
  main \notin Unready \cup {"wild"} =>
    \A l \in Lines :
      Pin(l) \notin imr[Chip(l)] => l \in blind \/ actions[l] # <<>>

(* The same of an interrupt taken: the kernel moves only when it is over.   *)
Explained(f) == \/ f.phantom \/ f.irq \in blind
                \/ f.at # "spurious" /\ actions[f.irq] # <<>>

FramesExplained == \A i \in 1 .. Len(stack) : Explained(stack[i])

Provenance == /\ NotYetInterrupted /\ EmptyUntilInstalled
              /\ LinkedBeforeUnmask /\ OpenLinesExplained /\ FramesExplained

(* Before initialize_irqs() nothing is linked and nothing interrupts.       *)
LEMMA InitProvenance == Init => Provenance
  BY DEF Init, Provenance, NotYetInterrupted, EmptyUntilInstalled, Unready,
         LinkedBeforeUnmask, WithTimer, OpenLinesExplained, FramesExplained

(* A line is its chip and its pin.                                          *)
LEMMA LineOfPin ==
  ASSUME NEW a \in Lines, NEW b \in Lines, Chip(a) = Chip(b), Pin(a) = Pin(b)
  PROVE  a = b
  <1> PICK w \in Nat \ {0, 1} : w = PicWidth
    BY LinesAssumption
  <1>1. a \in 0 .. 2 * w - 1 /\ b \in 0 .. 2 * w - 1
    BY DEF Lines
  <1>2. a \div w = b \div w /\ a % w = b % w
    BY DEF Chip, Pin
  <1>3. a = w * (a \div w) + (a % w) /\ b = w * (b \div w) + (b % w)
    BY <1>1
  <1> QED BY <1>2, <1>3

(* enable_irq() opens no line but its own.                                  *)
LEMMA UnmaskOpens ==
  ASSUME TypeOK, NEW irq \in Lines, NEW l \in Lines,
         NEW mask \in [Chips -> SUBSET Pins],
         Pin(l) \notin Unmask(mask, irq)[Chip(l)], l # irq
  PROVE  Pin(l) \notin mask[Chip(l)]
  <1>1. Chip(l) \in Chips /\ Chip(irq) \in Chips /\ Pin(l) \in Pins
    BY LineFacts
  <1>2. CASE Chip(l) # Chip(irq)
    BY <1>1, <1>2 DEF Unmask
  <1>3. CASE Chip(l) = Chip(irq)
    <2>1. MaskBit(irq) \subseteq {Pin(irq)}
      <3> PICK w \in Nat \ {0, 1} : w = PicWidth
        BY LinesAssumption
      <3>1. irq \in 0 .. 2 * w - 1
        BY DEF Lines
      <3>2. irq < w => irq % w = irq
        BY <3>1
      <3> QED BY <3>2 DEF MaskBit, Pin
    <2>2. Unmask(mask, irq)[Chip(l)] = mask[Chip(l)] \ MaskBit(irq)
      BY <1>1, <1>3 DEF Unmask
    <2>3. Pin(l) # Pin(irq)
      BY <1>3, LineOfPin
    <2> QED BY <2>1, <2>2, <2>3
  <1> QED BY <1>2, <1>3

(* disable_irq() opens no line.                                             *)
LEMMA MaskOpens ==
  ASSUME NEW irq \in Lines, NEW l \in Lines,
         NEW mask \in [Chips -> SUBSET Pins],
         Pin(l) \notin Mask(mask, irq)[Chip(l)]
  PROVE  Pin(l) \notin mask[Chip(l)]
  BY LineFacts DEF Mask

(* list_add_tail() leaves no line without a handler that had one.           *)
LEMMA AppendLinks ==
  ASSUME TypeOK, NEW irq \in Lines, NEW a \in Action,
         actions' = [actions EXCEPT ![irq] = Append(@, a)]
  PROVE  /\ \A l \in Lines : actions[l] # <<>> => actions'[l] # <<>>
         /\ actions'[irq] # <<>>
  <1>0. actions[irq] \in Seq(Action)
    BY DEF TypeOK
  <1> PICK old \in Seq(Action) : old = actions[irq]
    BY <1>0
  <1>00. Append(old, a) \in Seq(Action) /\ Len(Append(old, a)) # 0
    OBVIOUS
  <1> PICK s \in Seq(Action) : s = Append(actions[irq], a) /\ Len(s) # 0
    BY <1>00
  <1>1. actions' = [actions EXCEPT ![irq] = s] /\ s # <<>>
    OBVIOUS
  <1>2. actions'[irq] = s /\ \A l \in Lines \ {irq} : actions'[l] = actions[l]
    BY <1>1 DEF TypeOK
  <1> QED BY <1>1, <1>2

(* The part of Provenance that the boot and the drivers can disturb.        *)
LineState == /\ main \in Unready => ~ifFlag
             /\ EmptyUntilInstalled /\ LinkedBeforeUnmask /\ OpenLinesExplained

(* While nothing interrupts, the rest of Provenance holds by itself.        *)
LEMMA ProvenanceBetween ==
  /\ Provenance => LineState
  /\ stack' = <<>> /\ LineState' => Provenance'
  BY DEF Provenance, LineState, NotYetInterrupted, FramesExplained

(* The boot links the timer's handler before it unmasks its line, and masks *)
(* every line when it sets up the chips.                                    *)
LEMMA BootLineState ==
  ASSUME TypeOK, LineState, Boot
  PROVE  LineState'
  <1> USE DEF At, Unready, WithTimer
  <1>1. CASE InitializeIrqs
    BY <1>1 DEF InitializeIrqs, LineState, EmptyUntilInstalled,
                LinkedBeforeUnmask, OpenLinesExplained
  <1>2. CASE InitializeTimer
    BY <1>2 DEF InitializeTimer, LineState, EmptyUntilInstalled,
                LinkedBeforeUnmask, OpenLinesExplained, lineVars
  <1>3. CASE I8259aInit
    <2>1. \A l \in Lines : Pin(l) \in imr'[Chip(l)]
      BY <1>3, LineFacts DEF I8259aInit, AllMasked
    <2> QED BY <1>3, <2>1 DEF I8259aInit, LineState, EmptyUntilInstalled,
                              LinkedBeforeUnmask, OpenLinesExplained
  <1>4. CASE InstallIrqHandlers
    <2> PICK a \in Action : a = [handler |-> "timer", data |-> NoData]
      BY DEF Action
    <2>1. /\ actions' = [actions EXCEPT ![TimerLine] = Append(@, a)]
          /\ regIrq' = TimerLine /\ main' = "unmask_timer"
          /\ main = "install_irq_handlers"
          /\ UNCHANGED <<ifFlag, imr, blind>>
      BY <1>4 DEF InstallIrqHandlers, InstallAction, picVars
    <2>2. \A l \in Lines : actions[l] # <<>> => actions'[l] # <<>>
      BY <2>1, AppendLinks, TimerLineIsLine
    <2>3. actions'[TimerLine] # <<>>
      BY <2>1, AppendLinks, TimerLineIsLine
    <2> QED BY <2>1, <2>2, <2>3 DEF LineState, EmptyUntilInstalled,
                                    LinkedBeforeUnmask, OpenLinesExplained
  <1>5. CASE UnmaskRegistered
    <2>1. /\ imr' = Unmask(imr, regIrq) /\ main \in {"unmask_timer", "unmask"}
          /\ main' \in {"interrupts_enable", "idle"}
          /\ main' = "interrupts_enable" => main = "unmask_timer"
          /\ UNCHANGED <<ifFlag, actions, blind>>
      BY <1>5 DEF UnmaskRegistered, lineVars
    <2>2. actions[regIrq] # <<>> /\ regIrq \in Lines
          /\ imr \in [Chips -> SUBSET Pins]
      BY <2>1 DEF LineState, LinkedBeforeUnmask, TypeOK
    <2>3. \A l \in Lines : Pin(l) \notin imr'[Chip(l)] /\ l # regIrq
                             => Pin(l) \notin imr[Chip(l)]
      BY <2>1, <2>2, UnmaskOpens
    <2>4. OpenLinesExplained'
      BY <2>1, <2>2, <2>3 DEF LineState, OpenLinesExplained
    <2> QED BY <2>1, <2>4 DEF LineState, EmptyUntilInstalled, LinkedBeforeUnmask
  <1>6. CASE InterruptsEnable \/ ZeroTicks \/ ZeroStat \/ SetTicks
    <2>1. UNCHANGED <<actions, imr, blind>> /\ main \in WithTimer
          /\ main' \in WithTimer \ {"unmask_timer"}
      BY <1>6 DEF InterruptsEnable, ZeroTicks, ZeroStat, SetTicks, lineVars,
                  picVars
    <2> QED BY <2>1 DEF LineState, EmptyUntilInstalled, LinkedBeforeUnmask,
                        OpenLinesExplained
  <1>7. CASE CalibrateDisable
    <2>1. /\ imr' = HwDisabled(imr, TimerLine) /\ UNCHANGED <<actions, blind>>
          /\ main = "calibrate_disable" /\ main' = "calibrate_enable"
          /\ imr \in [Chips -> SUBSET Pins]
      BY <1>7 DEF CalibrateDisable, ChangeMask, lineVars, TypeOK
    <2>2. \A l \in Lines : Pin(l) \notin imr'[Chip(l)] => Pin(l) \notin imr[Chip(l)]
      BY <2>1, MaskOpens, TimerLineIsLine DEF HwDisabled
    <2> QED BY <2>1, <2>2 DEF LineState, EmptyUntilInstalled,
                              LinkedBeforeUnmask, OpenLinesExplained
  <1>8. CASE CalibrateEnable
    <2>1. /\ imr' = HwEnabled(imr, TimerLine) /\ UNCHANGED <<actions, blind>>
          /\ main = "calibrate_enable" /\ main' = "enable_all_irqs"
          /\ imr \in [Chips -> SUBSET Pins]
      BY <1>8 DEF CalibrateEnable, lineVars, TypeOK
    <2>2. actions[TimerLine] # <<>>
      BY <2>1 DEF LineState, LinkedBeforeUnmask
    <2>3. \A l \in Lines : Pin(l) \notin imr'[Chip(l)] /\ l # TimerLine
                             => Pin(l) \notin imr[Chip(l)]
      BY <2>1, UnmaskOpens, TimerLineIsLine DEF HwEnabled
    <2> QED BY <2>1, <2>2, <2>3 DEF LineState, EmptyUntilInstalled,
                                    LinkedBeforeUnmask, OpenLinesExplained
  <1>9. CASE BootEnableAll
    BY <1>9 DEF BootEnableAll, LineState, EmptyUntilInstalled,
                LinkedBeforeUnmask, OpenLinesExplained
  <1> QED BY <1>1, <1>2, <1>3, <1>4, <1>5, <1>6, <1>7, <1>8, <1>9 DEF Boot

(* What disable_hw_irq() and enable_hw_irq() do to the masks.               *)
LEMMA HwMaskOpens ==
  ASSUME TypeOK, NEW irq \in Lines, NEW l \in Lines
  PROVE  /\ Pin(l) \notin HwDisabled(imr, irq)[Chip(l)]
              => Pin(l) \notin imr[Chip(l)]
         /\ Pin(l) \notin HwEnabled(imr, irq)[Chip(l)] /\ l # irq
              => Pin(l) \notin imr[Chip(l)]
  <1>1. imr \in [Chips -> SUBSET Pins]
    BY DEF TypeOK
  <1> QED BY <1>1, MaskOpens, UnmaskOpens DEF HwDisabled, HwEnabled

(* A driver opens a line to a handler, or blindly.                          *)
LEMMA DriversLineState ==
  ASSUME TypeOK, LineState, Drivers
  PROVE  LineState'
  <1> USE DEF At, Call, Unready, WithTimer
  <1>0. Devices \subseteq Lines /\ main = "idle"
    BY LinesAssumption
       DEF Drivers, RegisterIrq, UnregisterIrq, EnableHwIrq, DisableHwIrq,
           EnableAllIrqs, DisableAllIrqs
  <1>1. CASE \E irq \in Devices, data \in Data : RegisterIrq(irq, data)
    <2> PICK irq \in Lines, data \in Data : RegisterIrq(irq, data)
      BY <1>0, <1>1
    <2> PICK a \in Action : a = [handler |-> "driver", data |-> data]
      BY DEF Action
    <2>1. /\ actions' = [actions EXCEPT ![irq] = Append(@, a)]
          /\ regIrq' = irq /\ main' \in {"unmask", "wild"}
          /\ UNCHANGED <<ifFlag, imr, blind>>
      BY DEF RegisterIrq, InstallAction, picVars
    <2>2. \A l \in Lines : actions[l] # <<>> => actions'[l] # <<>>
      BY <2>1, AppendLinks
    <2>3. actions'[irq] # <<>>
      BY <2>1, AppendLinks
    <2> QED BY <1>0, <2>1, <2>2, <2>3 DEF LineState, EmptyUntilInstalled,
                                    LinkedBeforeUnmask, OpenLinesExplained
  <1>2. CASE \E irq \in Devices, data \in Data : UnregisterIrq(irq, data)
    <2>1. UNCHANGED <<ifFlag, imr, blind>>
          /\ (UNCHANGED <<actions, main>> \/ main' = "wild")
      BY <1>2 DEF UnregisterIrq, picVars
    <2> QED BY <1>0, <2>1 DEF LineState, EmptyUntilInstalled,
                              LinkedBeforeUnmask, OpenLinesExplained
  <1>3. CASE \/ \E irq \in Devices : EnableHwIrq(irq) \/ DisableHwIrq(irq)
             \/ EnableAllIrqs \/ DisableAllIrqs
    <2>1. UNCHANGED <<main, regIrq, ifFlag, actions>>
      BY <1>3 DEF EnableHwIrq, DisableHwIrq, EnableAllIrqs, DisableAllIrqs,
                  MaskCallUnchanged, lineVars
    <2>2. SUFFICES ASSUME NEW l \in Lines, Pin(l) \notin imr'[Chip(l)]
                   PROVE  l \in blind' \/ actions[l] # <<>>
      BY <1>0, <2>1 DEF LineState, EmptyUntilInstalled, LinkedBeforeUnmask,
                        OpenLinesExplained
    <2>3. Pin(l) \notin imr[Chip(l)] => l \in blind \/ actions[l] # <<>>
      BY <1>0 DEF LineState, OpenLinesExplained
    <2>4. CASE \E irq \in Devices : EnableHwIrq(irq)
      <3> PICK irq \in Lines : EnableHwIrq(irq)
        BY <1>0, <2>4
      <3>1. imr' = HwEnabled(imr, irq) /\ blind' = StillBlind(blind \cup {irq})
        BY DEF EnableHwIrq, ChangeMask
      <3>2. l # irq => Pin(l) \notin imr[Chip(l)]
        BY <2>2, <3>1, HwMaskOpens
      <3> QED BY <2>2, <2>3, <3>1, <3>2 DEF StillBlind
    <2>5. CASE \E irq \in Devices : DisableHwIrq(irq)
      <3> PICK irq \in Lines : DisableHwIrq(irq)
        BY <1>0, <2>5
      <3>1. imr' = HwDisabled(imr, irq) /\ blind' = StillBlind(blind)
        BY DEF DisableHwIrq, ChangeMask
      <3>2. Pin(l) \notin imr[Chip(l)]
        BY <2>2, <3>1, HwMaskOpens
      <3> QED BY <2>2, <2>3, <3>1, <3>2 DEF StillBlind
    <2>6. CASE EnableAllIrqs
      BY <2>6 DEF EnableAllIrqs
    <2>7. CASE DisableAllIrqs
      BY <2>2, <2>7, LineFacts DEF DisableAllIrqs, ChangeMask, AllMasked
    <2> QED BY <1>3, <2>4, <2>5, <2>6, <2>7
  <1> QED BY <1>1, <1>2, <1>3 DEF Drivers

(* An interrupt is taken from an open line, and the kernel that opened it    *)
(* stands still until it is over.                                           *)
LEMMA EntryProvenance ==
  ASSUME TypeOK, Provenance, (\E irq \in Lines : Accept(irq)) \/ AcceptPhantom
  PROVE  Provenance'
  <1>1. UNCHANGED <<main, regIrq, actions, imr, blind>> /\ ifFlag
        /\ main # "wild" /\ ifFlag' = FALSE
    BY DEF Accept, AcceptPhantom, Interruptible, IfInGate, mainVars, lineVars
  <1>2. main \notin Unready \cup {"wild"}
    BY <1>1 DEF Provenance, NotYetInterrupted
  <1> PICK new \in Frame : stack' = Append(stack, new) /\ Explained(new)
    <2>1. CASE \E irq \in Lines : Accept(irq)
      <3> PICK irq \in Lines : Accept(irq)
        BY <2>1
      <3> PICK new \in Frame :
                 new = [irq |-> irq, at |-> "enter", phantom |-> FALSE]
        BY DEF Frame
      <3>1. stack' = Append(stack, new)
        BY DEF Accept, Push
      <3>2. Pin(irq) \notin imr[Chip(irq)]
        BY DEF Accept, Presented, Open
      <3>3. irq \in blind \/ actions[irq] # <<>>
        BY <1>2, <3>2 DEF Provenance, OpenLinesExplained
      <3> QED BY <3>1, <3>3 DEF Explained
    <2>2. CASE AcceptPhantom
      <3>1. PicWidth - 1 \in Lines
        BY LinesAssumption DEF Lines
      <3> PICK new \in Frame :
                 new = [irq |-> PicWidth - 1, at |-> "enter", phantom |-> TRUE]
        BY <3>1 DEF Frame
      <3> QED BY <2>2 DEF AcceptPhantom, Push, Explained
    <2> QED BY <2>1, <2>2
  <1>3. Explained(new)'
    BY <1>1 DEF Explained
  <1>4. stack \in Seq(Frame)
    BY DEF TypeOK
  <1>5. \A i \in 1 .. Len(stack) : Explained(stack[i])'
    <2> TAKE i \in 1 .. Len(stack)
    <2>1. Explained(stack[i]) /\ stack'[i] = stack[i]
      BY <1>4 DEF Provenance, FramesExplained
    <2> QED BY <1>1, <2>1 DEF Explained
  <1>6. FramesExplained'
    BY <1>3, <1>4, <1>5 DEF FramesExplained
  <1> QED BY <1>1, <1>2, <1>6
          DEF Provenance, NotYetInterrupted, EmptyUntilInstalled,
              LinkedBeforeUnmask, OpenLinesExplained

(* do_irq() takes the spurious path for a line that has no handler, and      *)
(* returns to frames that are as they were.                                 *)
LEMMA DoIrqProvenance ==
  ASSUME Inv, Provenance, DoIrq
  PROVE  Provenance'
  <1>1. UNCHANGED <<main, regIrq, actions, imr, blind>>
    BY DEF DoIrq, RunHandlers, AckAndReturn, AckSpurious, SpuriousReturn,
           mainVars, lineVars, picVars
  <1>2. stack # <<>> /\ main \notin Unready \cup {"wild"}
    BY DEF DoIrq, RunHandlers, AckAndReturn, AckSpurious, SpuriousReturn,
           Provenance, NotYetInterrupted
  <1>3. /\ stack \in Seq(Frame) /\ Len(stack) \in Nat \ {0}
        /\ Top \in Frame /\ Explained(Top)
        /\ \A i \in 1 .. Len(stack) : Explained(stack[i])
    <2>1. stack \in Seq(Frame)
      BY DEF Inv, TypeOK
    <2>2. Len(stack) \in Nat \ {0} /\ Len(stack) \in 1 .. Len(stack)
      BY <1>2, <2>1
    <2>3. Top \in Frame
      BY <2>1, <2>2 DEF Top
    <2> QED BY <2>1, <2>2, <2>3 DEF Top, Provenance, FramesExplained
  <1>4. FramesExplained'
    <2>1. CASE AckAndReturn \/ SpuriousReturn
      <3>1. stack' = SubSeq(stack, 1, Len(stack) - 1)
        BY <2>1 DEF AckAndReturn, SpuriousReturn, Front
      <3>2. \A i \in 1 .. Len(stack') : i \in 1 .. Len(stack)
                                        /\ stack'[i] = stack[i]
        BY <1>3, <3>1
      <3> QED BY <1>1, <1>3, <3>2 DEF FramesExplained, Explained
    <2>2. CASE RunHandlers \/ AckSpurious
      <3> PICK f \in Frame :
             /\ stack' = [stack EXCEPT ![Len(stack)] = f] /\ f.irq = Top.irq
             /\ f.phantom = Top.phantom /\ Explained(f)
        <4>1. CASE RunHandlers
          <5> PICK f \in Frame : f = [Top EXCEPT !.at = "ack"]
            BY <1>3 DEF Frame
          <5>1. stack' = [stack EXCEPT ![Len(stack)] = f]
            BY <4>1 DEF RunHandlers, SetTop, Top
          <5>2. f.irq = Top.irq /\ f.phantom = Top.phantom /\ f.at = "ack"
                /\ Top.at = "enter"
            BY <1>3, <4>1 DEF Frame, RunHandlers
          <5> QED BY <1>3, <5>1, <5>2 DEF Explained
        <4>2. CASE AckSpurious
          <5> PICK f \in Frame : f = [Top EXCEPT !.at = "spurious"]
            BY <1>3 DEF Frame
          <5>1. stack' = [stack EXCEPT ![Len(stack)] = f]
            BY <4>2 DEF AckSpurious, SetTop, Top
          <5>2. f.irq = Top.irq /\ f.phantom = Top.phantom
            BY <1>3 DEF Frame
          <5>3. actions[Top.irq] = <<>>
            BY <4>2 DEF AckSpurious
          <5> QED BY <1>3, <5>1, <5>2, <5>3 DEF Explained
        <4> QED BY <2>2, <4>1, <4>2
      <3>1. /\ Len(stack') = Len(stack) /\ stack'[Len(stack)] = f
            /\ \A i \in 1 .. Len(stack) - 1 : stack'[i] = stack[i]
        BY <1>3
      <3>2. ASSUME NEW i \in 1 .. Len(stack') PROVE Explained(stack'[i])
        <4> PICK n \in Nat \ {0} : n = Len(stack)
          BY <1>3
        <4>1. i \in 1 .. n
          BY <3>1
        <4>2. i = n \/ i \in 1 .. n - 1
          BY <4>1
        <4> QED BY <1>3, <3>1, <4>1, <4>2
      <3> QED BY <1>1, <3>2 DEF FramesExplained, Explained
    <2> QED BY <2>1, <2>2 DEF DoIrq
  <1> QED BY <1>1, <1>2, <1>4
          DEF Provenance, NotYetInterrupted, EmptyUntilInstalled,
              LinkedBeforeUnmask, OpenLinesExplained

(* Every step keeps it.                                                     *)
LEMMA ProvenanceInductive == Inv /\ Provenance /\ [Next]_vars => Provenance'
  <1> SUFFICES ASSUME Inv, Provenance, [Next]_vars PROVE Provenance'
    OBVIOUS
  <1>0. TypeOK
    BY DEF Inv
  <1>1. CASE UNCHANGED vars \/ \E irq \in Devices : Raise(irq)
    <2>1. UNCHANGED <<main, regIrq, ifFlag, stack, actions, imr, blind>>
      BY <1>1 DEF Raise, vars, mainVars, lineVars, picVars
    <2> QED BY <2>1 DEF Provenance, NotYetInterrupted, EmptyUntilInstalled,
              LinkedBeforeUnmask, OpenLinesExplained, FramesExplained, Explained
  <1>2. CASE (\E irq \in Lines : Accept(irq)) \/ AcceptPhantom
    BY <1>0, <1>2, EntryProvenance
  <1>3. CASE DoIrq
    BY <1>3, DoIrqProvenance
  <1>4. CASE Boot
    BY <1>0, <1>4, BootTyped, BootLineState, ProvenanceBetween
  <1>5. CASE Drivers
    BY <1>0, <1>5, DriversTyped, DriversLineState, ProvenanceBetween
  <1> QED BY <1>1, <1>2, <1>3, <1>4, <1>5 DEF Next, Idle

(* The spurious path of do_irq(), which enables interrupts inside the       *)
(* handler, is taken only for lines that were unmasked without regard to a  *)
(* handler and for requests that went away: register_irq() links before it  *)
(* unmasks.                                                                 *)
THEOREM SpuriousExplained == Spec => []SpuriousOnlyIfBlind
  <1>1. Provenance => SpuriousOnlyIfBlind
    BY DEF Provenance, FramesExplained, Explained, SpuriousOnlyIfBlind
  <1> QED BY <1>1, InvHolds, InitProvenance, ProvenanceInductive, PTL DEF Spec

-----------------------------------------------------------------------------
(* Ticks and the statistics of the timer's line *)

(* The timer's handler is linked once, at the head of its line.             *)
TimerLinkedOnce ==
  \A l \in Lines : \A i \in DOMAIN actions[l] :
    actions[l][i].handler = "timer" => l = TimerLine /\ i = 1

TickInv == EmptyUntilInstalled /\ TimerLinkedOnce /\ TicksWithinStat

(* One interrupt of the timer's line counts at most one tick, and one of     *)
(* another line none.                                                       *)
LEMMA TimersOfLine ==
  ASSUME TypeOK, TimerLinkedOnce, NEW l \in Lines
  PROVE  Cardinality(Timers(l)) \in Nat
         /\ Cardinality(Timers(l)) <= IF l = TimerLine THEN 1 ELSE 0
  <1>1. Timers(l) \subseteq IF l = TimerLine THEN {1} ELSE {}
    BY DEF Timers, TimerLinkedOnce
  <1>2. IsFiniteSet({1}) /\ Cardinality({1}) = 1
    BY FS_Singleton
  <1>3. IsFiniteSet({}) /\ Cardinality({}) = 0
    BY FS_EmptySet
  <1> PICK bound : bound = IF l = TimerLine THEN {1} ELSE {}
    OBVIOUS
  <1>4. Cardinality(Timers(l)) <= Cardinality(bound)
        /\ Cardinality(Timers(l)) \in Nat
    BY <1>1, <1>2, <1>3, FS_Subset, FS_CardinalityType
  <1> QED BY <1>2, <1>3, <1>4

(* list_del() of an entry behind the timer's leaves that where it is.       *)
LEMMA RemoveAtEntries ==
  ASSUME NEW S, NEW s \in Seq(S), NEW k \in 1 .. Len(s),
         NEW i \in DOMAIN RemoveAt(s, k)
  PROVE  \/ i \in 1 .. Len(s) /\ RemoveAt(s, k)[i] = s[i]
         \/ i \in 1 .. Len(s) - 1 /\ RemoveAt(s, k)[i] = s[i + 1] /\ k <= i
  <1> PICK n \in Nat, front \in Seq(S), back \in Seq(S) :
         /\ n = Len(s) /\ Len(front) = k - 1 /\ Len(back) = n - k
         /\ \A j \in 1 .. k - 1 : front[j] = s[j]
         /\ \A j \in 1 .. n - k : back[j] = s[j + k]
         /\ RemoveAt(s, k) = front \o back
    <2>1. Len(s) \in Nat /\ k \in Int /\ k - 1 \in Int /\ k + 1 \in Int
          /\ 1 \in Int /\ Len(s) \in Int
      OBVIOUS
    <2>2. \A j \in 1 .. k - 1 : s[j] \in S
      OBVIOUS
    <2>3. \A j \in k + 1 .. Len(s) : s[j] \in S
      OBVIOUS
    <2>4. /\ SubSeq(s, 1, k - 1) \in Seq(S)
          /\ Len(SubSeq(s, 1, k - 1)) = k - 1
          /\ \A j \in 1 .. k - 1 : SubSeq(s, 1, k - 1)[j] = s[j]
      BY <2>1, <2>2, SubSeqProperties
    <2>5. /\ SubSeq(s, k + 1, Len(s)) \in Seq(S)
          /\ Len(SubSeq(s, k + 1, Len(s))) = Len(s) - k
          /\ \A j \in 1 .. Len(s) - k : SubSeq(s, k + 1, Len(s))[j] = s[j + k]
      BY <2>1, <2>3, SubSeqProperties
    <2> QED BY <2>1, <2>4, <2>5 DEF RemoveAt
  <1>1. i \in 1 .. (k - 1) + (n - k) /\ DOMAIN (front \o back) = 1 .. n - 1
    OBVIOUS
  <1>2. CASE i <= k - 1
    <2>1. (front \o back)[i] = front[i]
      BY <1>1, <1>2
    <2> QED BY <1>1, <1>2, <2>1
  <1>3. CASE ~(i <= k - 1)
    <2>1. (front \o back)[i] = back[i - (k - 1)]
      BY <1>1, <1>3
    <2>2. i - (k - 1) \in 1 .. n - k /\ (i - (k - 1)) + k = i + 1
      BY <1>1, <1>3
    <2> QED BY <1>1, <1>3, <2>1, <2>2
  <1> QED BY <1>2, <1>3

(* The timer's handler joins an empty line; what a driver registers or      *)
(* unregisters is behind it.                                                *)
LEMMA TimerStaysFirst ==
  ASSUME TypeOK, TickInv, Boot \/ Drivers
  PROVE  TimerLinkedOnce'
  <1>0. Devices \subseteq Lines /\ actions \in [Lines -> Seq(Action)]
    BY LinesAssumption DEF TypeOK
  <1>1. CASE UNCHANGED actions
    BY <1>1 DEF TickInv, TimerLinkedOnce
  <1>2. CASE InitializeIrqs
    BY <1>2 DEF InitializeIrqs, TimerLinkedOnce
  <1>3. CASE \E irq \in Lines, a \in Action :
               /\ actions' = [actions EXCEPT ![irq] = Append(@, a)]
               /\ a.handler = "timer" => irq = TimerLine /\ actions[irq] = <<>>
    <2> PICK irq \in Lines, a \in Action :
               /\ actions' = [actions EXCEPT ![irq] = Append(@, a)]
               /\ a.handler = "timer" => irq = TimerLine /\ actions[irq] = <<>>
      BY <1>3
    <2> PICK old \in Seq(Action) : old = actions[irq]
      BY <1>0
    <2>0. Append(old, a) \in Seq(Action)
      OBVIOUS
    <2> PICK new \in Seq(Action) : new = Append(old, a)
      BY <2>0
    <2>1. actions' = [actions EXCEPT ![irq] = new]
      OBVIOUS
    <2>2. \A l \in Lines : actions'[l] = IF l = irq THEN new ELSE actions[l]
      BY <1>0, <2>1
    <2>3. ASSUME NEW i \in DOMAIN new, new[i].handler = "timer"
          PROVE  irq = TimerLine /\ i = 1
      <3>1. \/ i \in DOMAIN old /\ new[i] = old[i]
            \/ i = Len(old) + 1 /\ new[i] = a
        OBVIOUS
      <3>2. old = <<>> => Len(old) = 0
        OBVIOUS
      <3> QED BY <2>3, <3>1, <3>2 DEF TickInv, TimerLinkedOnce
    <2> QED BY <2>2, <2>3 DEF TickInv, TimerLinkedOnce
  <1>4. CASE \E irq \in Lines, data \in Data : UnregisterIrq(irq, data)
    <2> PICK irq \in Lines, data \in Data : UnregisterIrq(irq, data)
      BY <1>4
    <2> SUFFICES ASSUME NEW k \in Entries(irq, data),
                        actions' = [actions EXCEPT ![irq] = RemoveAt(@, k)]
                 PROVE  TimerLinkedOnce'
      BY <1>1 DEF UnregisterIrq
    <2> PICK old \in Seq(Action) : old = actions[irq]
      BY <1>0
    <2> PICK new : new = RemoveAt(old, k)
      OBVIOUS
    <2>1. k \in 1 .. Len(old)
      BY DEF Entries
    <2>2. actions' = [actions EXCEPT ![irq] = new]
      OBVIOUS
    <2>3. \A l \in Lines : actions'[l] = IF l = irq THEN new ELSE actions[l]
      BY <1>0, <2>2
    <2>4. ASSUME NEW i \in DOMAIN new, new[i].handler = "timer"
          PROVE  irq = TimerLine /\ i = 1
      <3>1. \/ i \in 1 .. Len(old) /\ new[i] = old[i]
            \/ i \in 1 .. Len(old) - 1 /\ new[i] = old[i + 1] /\ k <= i
        BY <2>1, RemoveAtEntries
      <3>2. CASE i \in 1 .. Len(old) /\ new[i] = old[i]
        BY <2>4, <3>2 DEF TickInv, TimerLinkedOnce
      <3>3. CASE i \in 1 .. Len(old) - 1 /\ new[i] = old[i + 1]
        <4>1. i + 1 \in DOMAIN old /\ i + 1 # 1
          BY <3>3
        <4> QED BY <2>4, <3>3, <4>1 DEF TickInv, TimerLinkedOnce
      <3> QED BY <3>1, <3>2, <3>3
    <2> QED BY <2>3, <2>4 DEF TickInv, TimerLinkedOnce
  <1>5. CASE InstallIrqHandlers
    <2> PICK a \in Action : a = [handler |-> "timer", data |-> NoData]
      BY DEF Action
    <2>1. actions' = [actions EXCEPT ![TimerLine] = Append(@, a)]
          /\ actions[TimerLine] = <<>>
      BY <1>5, TimerLineIsLine
         DEF InstallIrqHandlers, InstallAction, At, TickInv, EmptyUntilInstalled
    <2> QED BY <2>1, <1>3, TimerLineIsLine
  <1>6. CASE \E irq \in Devices, data \in Data : RegisterIrq(irq, data)
    <2> PICK irq \in Lines, data \in Data : RegisterIrq(irq, data)
      BY <1>0, <1>6
    <2> PICK a \in Action : a = [handler |-> "driver", data |-> data]
      BY DEF Action
    <2>1. actions' = [actions EXCEPT ![irq] = Append(@, a)]
          /\ a.handler = "driver"
      BY DEF RegisterIrq, InstallAction
    <2> QED BY <2>1, <1>3
  <1>7. CASE Boot
    <2>1. \/ InitializeIrqs \/ InstallIrqHandlers \/ UNCHANGED actions
      BY <1>7 DEF Boot, InitializeTimer, I8259aInit, UnmaskRegistered,
                  InterruptsEnable, ZeroTicks, ZeroStat, SetTicks,
                  CalibrateDisable, CalibrateEnable, BootEnableAll, lineVars
    <2> QED BY <2>1, <1>1, <1>2, <1>5
  <1>8. CASE Drivers
    <2>1. \/ UNCHANGED actions
          \/ \E irq \in Devices, data \in Data :
               RegisterIrq(irq, data) \/ UnregisterIrq(irq, data)
      BY <1>8 DEF Drivers, EnableHwIrq, DisableHwIrq, EnableAllIrqs,
                  DisableAllIrqs, MaskCallUnchanged, lineVars
    <2> QED BY <2>1, <1>0, <1>1, <1>4, <1>6
  <1> QED BY <1>7, <1>8

(* initialize_swks() zeroes the ticks before the statistics and sets the     *)
(* ticks again after them; nothing else of the boot touches either.          *)
LEMMA BootTicks ==
  ASSUME TypeOK, TicksWithinStat, Boot \/ Drivers
  PROVE  TicksWithinStat'
  <1> USE DEF TicksWithinStat, At
  <1>1. CASE ZeroTicks
    BY <1>1 DEF ZeroTicks
  <1>2. CASE ZeroStat
    BY <1>2 DEF ZeroStat
  <1>3. CASE SetTicks
    BY <1>3, TimerLineIsLine DEF SetTicks, TypeOK
  <1>4. CASE UNCHANGED <<ticks, irqStat>> /\ main \notin {"zero_stat", "set_ticks"}
    BY <1>4
  <1>5. CASE Boot
    <2>1. \/ ZeroTicks \/ ZeroStat \/ SetTicks
          \/ UNCHANGED <<ticks, irqStat>> /\ main \notin {"zero_stat", "set_ticks"}
      BY <1>5 DEF Boot, InitializeIrqs, InitializeTimer, I8259aInit, UnmaskRegistered,
                  InstallIrqHandlers, InterruptsEnable,
                  CalibrateDisable, CalibrateEnable, BootEnableAll, swksVars
    <2> QED BY <2>1, <1>1, <1>2, <1>3, <1>4
  <1>6. CASE Drivers
    BY <1>6 DEF Drivers, RegisterIrq, UnregisterIrq, EnableHwIrq, DisableHwIrq,
                EnableAllIrqs, DisableAllIrqs, MaskCallUnchanged, Call, swksVars
  <1> QED BY <1>5, <1>6

(* Every step keeps the account of the ticks.                               *)
LEMMA TickInductive == Inv /\ Provenance /\ TickInv /\ Provenance' /\ [Next]_vars
                         => TickInv'
  <1> SUFFICES ASSUME Inv, Provenance, TickInv, Provenance', [Next]_vars
               PROVE  TickInv'
    OBVIOUS
  <1>0. TypeOK /\ EmptyUntilInstalled'
    BY DEF Inv, Provenance
  <1>1. CASE UNCHANGED <<main, actions, ticks, irqStat>>
    BY <1>0, <1>1 DEF TickInv, TimerLinkedOnce, TicksWithinStat
  <1>2. CASE RunHandlers
    <2>1. /\ ticks' = ticks + Cardinality(Timers(Top.irq))
          /\ irqStat' = [irqStat EXCEPT ![Top.irq] = @ + 1]
          /\ UNCHANGED <<main, actions>>
      BY <1>2 DEF RunHandlers, mainVars, lineVars
    <2>2. Top.irq \in Lines
      <3>1. stack \in Seq(Frame) /\ stack # <<>>
        BY <1>0, <1>2 DEF TypeOK, RunHandlers
      <3>2. Top \in Frame
        BY <3>1 DEF Top
      <3> QED BY <3>2 DEF Frame
    <2> PICK n \in Nat : /\ n = Cardinality(Timers(Top.irq))
                         /\ n <= IF Top.irq = TimerLine THEN 1 ELSE 0
      BY <1>0, <2>2, TimersOfLine DEF TickInv
    <2>3. ticks \in Nat /\ irqStat \in [Lines -> Nat]
      BY <1>0 DEF TypeOK
    <2>4. TicksWithinStat'
      <3>1. irqStat'[TimerLine] = irqStat[TimerLine]
                                  + (IF Top.irq = TimerLine THEN 1 ELSE 0)
        BY <2>1, <2>2, <2>3, TimerLineIsLine
      <3>2. irqStat[TimerLine] \in Nat
        BY <2>3, TimerLineIsLine
      <3> QED BY <2>1, <2>3, <3>1, <3>2 DEF TickInv, TicksWithinStat
    <2>5. TimerLinkedOnce'
      BY <2>1 DEF TickInv, TimerLinkedOnce
    <2> QED BY <1>0, <2>4, <2>5 DEF TickInv
  <1>3. CASE Boot \/ Drivers
    BY <1>0, <1>3, TimerStaysFirst, BootTicks DEF TickInv
  <1>4. CASE \/ AckAndReturn \/ AckSpurious \/ SpuriousReturn \/ AcceptPhantom
             \/ \E irq \in Lines : Accept(irq)
             \/ \E irq \in Devices : Raise(irq)
             \/ UNCHANGED vars
    <2>1. UNCHANGED <<main, actions, ticks, irqStat>>
      BY <1>4 DEF AckAndReturn, AckSpurious, SpuriousReturn, AcceptPhantom,
                  Accept, Raise, vars, mainVars, lineVars, swksVars
    <2> QED BY <2>1, <1>1
  <1> QED BY <1>2, <1>3, <1>4 DEF Next, DoIrq, Idle

(* initialize_swks() zeroes the counters while the timer already ticks.     *)
(* Once it is done no tick is counted that the statistics do not have.      *)
THEOREM TicksCounted == Spec => []TicksWithinStat
  <1>1. Init => TickInv
    BY TimerLineIsLine DEF Init, TickInv, EmptyUntilInstalled, TimerLinkedOnce,
       TicksWithinStat
  <1>2. TickInv => TicksWithinStat
    BY DEF TickInv
  <1> QED BY <1>1, <1>2, InvHolds, InitProvenance, ProvenanceInductive,
             TickInductive, PTL DEF Spec

=============================================================================
