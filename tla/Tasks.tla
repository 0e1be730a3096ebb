------------------------------- MODULE Tasks -------------------------------
(***************************************************************************)
(* The idle task and the kernel thread it starts (idletask.c), which hand  *)
(* the processor to each other with arch_activate_task(), and the code     *)
(* that saves and restores their contexts: SAVE_ALL and RESTORE_ALL        *)
(* (context.h), arch_hw_activate_task() (context.S), the interrupt and     *)
(* exception entries (asm.S, fault.c), the first stack of a thread         *)
(* (task.c).                                                               *)
(*                                                                         *)
(* A stack is the sequence of the words between its high address and rsp,  *)
(* so rsp is its length and an address is a multiple of n words iff its    *)
(* distance from the page aligned high address is.  Words and register     *)
(* contents are pairs of a kind and a value.  The code a task runs for its *)
(* own ends is left out but for the registers it relies on: Own(t).        *)
(***************************************************************************)
EXTENDS Integers, Sequences, SequencesExt, Functions

CONSTANTS
  FxWords,     (* words of the FXSAVE image and its alignment: 64          *)
  First,       (* ticks to the first report after a switch: 100            *)
  Again,       (* ticks from one report to the next: [idle: 10000, thread: *)
               (* 10150]                                                   *)
  Rounds,      (* reports before the switch: 3                             *)
  Vectors,     (* exceptions the tasks' own code raises                    *)
  Depths,      (* words the tasks have on their stacks when they loop      *)
  MaxWords,    (* bound: a stack longer than this is not interrupted       *)
  MaxStrays    (* bound: interrupts other than the timer's, exceptions     *)

NMI == 2
ASSUME TasksAssumption ==
  /\ FxWords \in Nat /\ FxWords > 2 /\ FxWords % 2 = 0
  /\ First \in Nat \ {0} /\ Again \in [{"idle", "thread"} -> Nat \ {0}]
  /\ Rounds \in Nat \ {0}
  /\ Vectors \subseteq 0 .. 30 /\ Depths \subseteq Nat
  /\ {MaxWords, MaxStrays} \subseteq Nat

Tasks    == {"idle", "thread"}
Other(t) == IF t = "idle" THEN "thread" ELSE "idle"

(* SAVE_GPR pushes these from the left *)
SavedGprs == <<"r8", "r9", "r10", "r11", "r12", "r13", "r14", "r15", "rbx",
               "rcx", "rdx", "rdi", "rsi", "rbp">>
Gprs        == {"rax"} \cup Range(SavedGprs)
CalleeSaved == {"rbx", "rbp", "r12", "r13", "r14", "r15"}

Own(t) == [r \in Gprs |-> <<t, r>>]
Junk   == <<"junk", "">>
Num(n) == <<"num", n>>
Pc(p)  == <<"pc", p>>

VARIABLES
  cur,       (* the task whose stack is in rsp                             *)
  pc,        (* where the processor is: a place, and a path or a vector    *)
  ifOn,      (* RFLAGS.IF                                                  *)
  regs, fx,  (* the general registers; whose XMM state is loaded           *)
  stack,     (* the stacks of the tasks                                    *)
  ctxRsp,    (* arch_context.rsp of the tasks                              *)
  togo,      (* ticks until target_tick of the tasks; -1: never, it is     *)
             (* over or no tick                                            *)
  rounds,    (* the rounds of the task that runs                           *)
  kthread1,  (* kernel_thread() succeeded in idle_loop()                   *)
  depth,     (* the words of Depths the tasks have                         *)
  strays,    (* interrupts and exceptions so far, for the bound            *)
  raised,    (* history: exceptions raised by the tasks' code              *)
  lost       (* history: the target set last is no int, or a tick came     *)
             (* while it was due and the task that runs did not see it     *)

cpuVars  == <<pc, ifOn, regs, fx, stack>>
timeVars == <<togo, lost>>
taskVars == <<cur, ctxRsp, rounds, timeVars>>
vars == <<cpuVars, taskVars, kthread1, depth, strays, raised>>

---------------------------------------------------------------------------
(* Stacks *)
Rsp       == Len(stack[cur])
Below(n)  == SubSeq(stack[cur], 1, Rsp - n)
Top       == stack[cur][Rsp]
Has(n)    == Rsp >= n
ToAlign(s, n) == (-Len(s)) % n
Padding(n)    == [k \in 1 .. n |-> Junk]

(* SAVE_GPR and SAVE_MM, with the contents of the registers as arguments *)
SaveGpr(s, r) == s \o [k \in DOMAIN SavedGprs |-> r[SavedGprs[k]]]
SaveMm_NoDelta(s, x) ==
  s \o Padding(ToAlign(s, FxWords)) \o [k \in 1 .. FxWords |-> <<"fx", x>>]
    \o <<Num(FxWords)>>
SaveMm(s, x) ==
  s \o Padding(ToAlign(s, FxWords)) \o [k \in 1 .. FxWords |-> <<"fx", x>>]
    \o <<Num(ToAlign(s, FxWords) + FxWords)>>
AfterSaveMm(r) == [r EXCEPT !["r8"] = Junk, !["r9"] = Junk]

(* The image RESTORE_MM finds below the word on top of s: its first word   *)
(* is at the distance fxrstor must find aligned                            *)
ImageIn(s) == SubSeq(s, Len(s) - FxWords, Len(s) - 1)
FxTop(s) ==
  /\ Len(s) > FxWords /\ s[Len(s)][1] = "num"
  /\ (Len(s) - 1) % FxWords = 0
  /\ s[Len(s)][2] \in FxWords .. Len(s) - 1
  /\ \E x \in Tasks \cup {"zero", "junk"} :
        \A k \in 1 .. FxWords : ImageIn(s)[k] = <<"fx", x>>

(* What the processor pushes, after aligning rsp to two words *)
InterruptFrame(s) ==
  s \o Padding(ToAlign(s, 2))
    \o <<<<"ss", "kernel">>, Num(Len(s)), <<"if", ifOn>>, <<"cs", "kernel">>,
         Pc(pc)>>

(* arch_setup_task_context() and kernel_thread(): regs_t from its end,     *)
(* then a zeroed image for RESTORE_ALL, then the return address            *)
ThreadRegs == [r \in Gprs |-> CASE r = "rdi" -> <<"clone_fn", "">>
                                [] r = "rsi" -> <<"data", "">>
                                [] OTHER     -> Num(0)]
SetupRflags == <<"if", TRUE>>
arch_setup_task_context ==
  LET regs_t == SaveGpr(<<<<"ss", "kernel">>, Num(0), SetupRflags,
                          <<"cs", "kernel">>, Pc(<<"helper", "own">>)>>,
                        ThreadRegs)
  IN  SaveMm(regs_t, "zero") \o <<Pc(<<"restore_mm", "fork">>)>>

---------------------------------------------------------------------------
Init ==
  /\ cur = "idle" /\ pc = <<"loop", "own">> /\ ifOn = TRUE
  /\ regs = Own("idle") /\ fx = "idle"
  /\ depth \in [Tasks -> Depths] /\ kthread1 \in BOOLEAN
  /\ stack = [t \in Tasks |-> IF t = "idle" THEN Padding(depth[t])
                              ELSE IF kthread1 THEN arch_setup_task_context
                              ELSE <<>>]
  /\ ctxRsp = [t \in Tasks |-> IF t = "idle" THEN 0 ELSE Len(stack[t])]
  /\ togo = [t \in Tasks |-> IF t = "idle" THEN First ELSE -1] /\ rounds = 0
  /\ lost = FALSE /\ strays = 0 /\ raised = {}

Go(p)     == pc' = p
At(place) == pc[1] = place
Wild      == pc' = <<"wild", "">>
OnStack(s) == stack' = [stack EXCEPT ![cur] = s]

---------------------------------------------------------------------------
(* target_tick is an int and the counter of ticks has 64 bits: what does   *)
(* not fit becomes negative, and as 64 bits a tick that never comes.       *)
SetTarget(n) ==
  \/ togo' = [togo EXCEPT ![cur] = n]  /\ lost' = FALSE
  \/ togo' = [togo EXCEPT ![cur] = -1] /\ lost' = TRUE

(* idle_loop() and clone_fn(): a look at the ticks that finds the target.  *)
(* The next one is counted from it and not from the tick the message ends  *)
(* at.                                                                     *)
Poll ==
  /\ At("loop") /\ togo[cur] = 0
  /\ IF rounds + 1 >= Rounds
     THEN rounds' = 0 /\ Go(<<"activate", "own">>)
     ELSE rounds' = rounds + 1 /\ UNCHANGED pc
  /\ SetTarget(Again[cur])
  /\ UNCHANGED <<cur, ctxRsp, ifOn, regs, fx, stack, kthread1, depth, strays,
                 raised>>

(* arch_activate_task(): the arguments, and the call.  Through the NULL    *)
(* pointer any stack may be loaded.                                        *)
Exists(t) == t = "idle" \/ kthread1
arch_activate_task ==
  /\ At("activate")
  /\ IF Exists(Other(cur))
     THEN /\ regs' = [regs EXCEPT !["rsi"] = Num(ctxRsp[Other(cur)]),
                                  !["rdi"] = <<"cr3", "">>,
                                  !["rdx"] = <<"ctx", cur>>]
          /\ OnStack(Append(stack[cur], Pc(<<"resumed", "own">>)))
          /\ Go(<<"push_rax", "activate">>)
     ELSE Wild /\ UNCHANGED <<regs, stack>>
  /\ UNCHANGED <<ifOn, fx, taskVars, kthread1, depth, strays, raised>>

(* arch_hw_activate_task: pushq %rax and SAVE_GPR; interrupts are on *)
PushGprs ==
  /\ At("push_rax") /\ pc[2] = "activate"
  /\ OnStack(SaveGpr(Append(stack[cur], regs["rax"]), regs))
  /\ Go(<<"switch", "activate">>)
  /\ UNCHANGED <<ifOn, regs, fx, taskVars, kthread1, depth, strays, raised>>

(* cli, SAVE_MM, the return address, the exchange of stacks and retq.  The *)
(* two tasks share their page tables.                                      *)
LoadedRsp == regs["rsi"][2]
Switch ==
  /\ At("switch")
  /\ ifOn' = FALSE
  /\ LET from == Append(SaveMm(stack[cur], fx), Pc(<<"restore_mm", "sleep">>))
         to   == SubSeq(stack[Other(cur)], 1, LoadedRsp)
     IN  /\ ctxRsp' = [ctxRsp EXCEPT ![cur] = Len(from)]
         /\ stack' = [stack EXCEPT ![cur] = from, ![Other(cur)] = Front(to)]
         /\ IF Last(to)[1] = "pc" THEN Go(Last(to)[2]) ELSE Wild
  /\ cur' = Other(cur)
  /\ regs' = [AfterSaveMm(regs) EXCEPT !["rax"] = <<"cr3", "">>]
  /\ UNCHANGED <<fx, timeVars, rounds, kthread1, depth, strays, raised>>

(* Back in idle_loop() or clone_fn(), or there for the first time: the     *)
(* target set before the switch is over by now.                            *)
NewTarget_Stale == UNCHANGED togo /\ lost' = FALSE
NewTarget == SetTarget(First)
AfterSwitch ==
  /\ At("resumed")
  /\ NewTarget
  /\ regs' = [r \in Gprs |-> IF r \in CalleeSaved THEN regs[r] ELSE Own(cur)[r]]
  /\ Go(<<"loop", "own">>)
  /\ UNCHANGED <<cur, ctxRsp, rounds, ifOn, fx, stack, kthread1, depth, strays,
                 raised>>

kernel_thread_helper ==
  /\ At("helper")
  /\ OnStack(stack[cur] \o Padding(depth[cur]))
  /\ SetTarget(First) /\ rounds' = 0 /\ regs' = Own(cur) /\ fx' = cur
  /\ Go(<<"loop", "own">>)
  /\ UNCHANGED <<cur, ctxRsp, ifOn, kthread1, depth, strays, raised>>

---------------------------------------------------------------------------
(* RESTORE_ALL, and what follows it on the paths it stands on *)
RESTORE_MM ==
  /\ At("restore_mm")
  /\ IF FxTop(stack[cur])
     THEN /\ fx' = stack[cur][Rsp - 1][2]
          /\ OnStack(Below(1 + Top[2]))
          /\ regs' = [regs EXCEPT !["r10"] = Top]
          /\ Go(<<"restore_gpr", pc[2]>>)
     ELSE Wild /\ UNCHANGED <<fx, stack, regs>>
  /\ UNCHANGED <<ifOn, taskVars, kthread1, depth, strays, raised>>

RestoreOrder_Swapped ==
  <<"rbp", "rdi", "rsi", "rdx", "rcx", "rbx", "r15", "r14", "r13", "r12", "r11",
    "r10", "r9", "r8">>
RestoreOrder == <<"rbp", "rsi", "rdi", "rdx", "rcx", "rbx", "r15", "r14", "r13",
                  "r12", "r11", "r10", "r9", "r8">>
RESTORE_GPR ==
  /\ At("restore_gpr")
  /\ IF Has(Len(RestoreOrder))
     THEN /\ regs' = [r \in Gprs |->
                        IF r = "rax" THEN regs[r]
                        ELSE stack[cur][Rsp + 1 - AntiFunction(RestoreOrder)[r]]]
          /\ OnStack(Below(Len(RestoreOrder)))
          /\ Go(<<"restored", pc[2]>>)
     ELSE Wild /\ UNCHANGED <<regs, stack>>
  /\ UNCHANGED <<ifOn, fx, taskVars, kthread1, depth, strays, raised>>

(* __return_from_sleep: popq %rax, sti and retq, which sti still covers *)
ReturnFromSleep ==
  /\ At("restored") /\ pc[2] = "sleep"
  /\ IF Has(2) /\ stack[cur][Rsp - 1][1] = "pc"
     THEN /\ regs' = [regs EXCEPT !["rax"] = Top]
          /\ ifOn' = TRUE /\ Go(stack[cur][Rsp - 1][2]) /\ OnStack(Below(2))
     ELSE Wild /\ UNCHANGED <<regs, ifOn, stack>>
  /\ UNCHANGED <<fx, taskVars, kthread1, depth, strays, raised>>

PopRax ==
  /\ At("restored") /\ pc[2] = "irq"
  /\ IF Has(1) THEN /\ regs' = [regs EXCEPT !["rax"] = Top]
                    /\ OnStack(Below(1)) /\ Go(<<"iretq", "irq">>)
               ELSE Wild /\ UNCHANGED <<regs, stack>>
  /\ UNCHANGED <<ifOn, fx, taskVars, kthread1, depth, strays, raised>>

(* rip, cs, rflags, rsp and ss; child_fork_path pops no rax *)
Iretq ==
  /\ At("iretq") \/ pc = <<"restored", "fork">>
  /\ IF Has(5) /\ Top[1] = "pc" /\ stack[cur][Rsp - 2][1] = "if"
     THEN /\ ifOn' = stack[cur][Rsp - 2][2]
          /\ OnStack(SubSeq(stack[cur], 1, stack[cur][Rsp - 3][2]))
          /\ Go(Top[2])
     ELSE Wild /\ UNCHANGED <<ifOn, stack>>
  /\ UNCHANGED <<regs, fx, taskVars, kthread1, depth, strays, raised>>

---------------------------------------------------------------------------
(* What a C function leaves to its caller *)
Clobbered(r) == [g \in Gprs |-> IF g \in CalleeSaved THEN r[g] ELSE Junk]

(* An interrupt gate, the stub, common_interrupt as far as do_irq(): off   *)
(* are the interrupts from the first instruction.                          *)
Irqs == {"timer", "spurious"}
Interrupt(irq) ==
  /\ ifOn /\ ~At("wild") /\ Rsp <= MaxWords
  /\ IF irq = "timer" THEN UNCHANGED strays
                      ELSE strays < MaxStrays /\ strays' = strays + 1
  /\ OnStack(SaveMm(SaveGpr(Append(InterruptFrame(stack[cur]), regs["rax"]),
                            regs), fx))
  /\ regs' = [AfterSaveMm(regs) EXCEPT !["rax"] = <<"irq", irq>>,
                                       !["rdi"] = <<"irq", irq>>]
  /\ ifOn' = FALSE /\ Go(<<"do_irq", irq>>)
  /\ UNCHANGED <<fx, taskVars, kthread1, depth, raised>>

(* do_irq() with its handler: the timer's counts the tick, be it seen by   *)
(* the loop or not; one that finds no handler enables the interrupts for   *)
(* its message                                                             *)
Tick ==
  /\ togo' = [t \in Tasks |-> IF togo[t] > -1 THEN togo[t] - 1 ELSE -1]
  /\ lost' = (lost \/ togo[cur] = 0)
do_irq ==
  /\ At("do_irq")
  /\ IF pc[2] = "timer" THEN Tick ELSE UNCHANGED timeVars
  /\ ifOn' = (pc[2] = "spurious")
  /\ regs' = Clobbered(regs) /\ fx' = "junk"
  /\ Go(<<"restore_mm", "irq">>)
  /\ UNCHANGED <<stack, cur, ctxRsp, rounds, kthread1, depth, strays, raised>>

---------------------------------------------------------------------------
(* Exceptions: a trap gate leaves the interrupts as they were.  The NMI    *)
(* comes anywhere, once.                                                   *)
WithErrorCode == {8, 10, 11, 12, 13, 14, 17, 30}
reserved(n)   == [k \in 1 .. n |-> "reserved"]
hi_level_fault_handlers ==
  <<"DE", "DB", "NMI", "BP", "OF", "BR", "UD", "NM", "DF">> \o reserved(1)
  \o <<"TS", "NP", "SS", "GP", "PF">> \o reserved(1)
  \o <<"MF", "AC", "MC", "XF">> \o reserved(10) \o <<"SX">> \o reserved(1)

(* faults_to_install[]: the vectors that have a gate *)
faults_to_install == (0 .. 8) \cup (10 .. 14) \cup (16 .. 19) \cup {30}

Raise(v) ==
  /\ v \in faults_to_install
  /\ IF v = NMI THEN pc[1] \notin {"wild", "stopped"} /\ NMI \notin raised
                ELSE At("loop")
  /\ Rsp <= MaxWords /\ strays < MaxStrays /\ strays' = strays + 1
  /\ raised' = raised \cup {v}
  /\ OnStack(InterruptFrame(stack[cur])
             \o (IF v \in WithErrorCode THEN <<<<"error", "">>>> ELSE <<>>))
  /\ Go(<<"trap", v>>)
  /\ UNCHANGED <<ifOn, regs, fx, taskVars, kthread1, depth>>

(* The stub: pushq %rax, the vector, SAVE_GPR *)
TrapGprs ==
  /\ At("trap")
  /\ OnStack(SaveGpr(Append(stack[cur], regs["rax"]),
                     [regs EXCEPT !["rax"] = Num(pc[2])]))
  /\ regs' = [regs EXCEPT !["rax"] = Num(pc[2])]
  /\ Go(<<"trap_mm", pc[2]>>)
  /\ UNCHANGED <<ifOn, fx, taskVars, kthread1, depth, strays, raised>>

(* cli, SAVE_MM, the argument from r10, the call *)
ArgumentFrom(r10) ==
  IF r10[1] = "num" THEN Num(r10[2] - Len(SavedGprs) - 1) ELSE <<"off", r10>>
CallHandler ==
  /\ At("trap_mm")
  /\ OnStack(SaveMm(stack[cur], fx))
  /\ regs' = [AfterSaveMm(regs) EXCEPT !["rdi"] = ArgumentFrom(regs["r10"])]
  /\ ifOn' = FALSE
  /\ Go(<<"fault", hi_level_fault_handlers[regs["rax"][2] + 1]>>)
  /\ UNCHANGED <<fx, taskVars, kthread1, depth, strays, raised>>

(* The handlers of fault.c: two of them print and stop, the rest return *)
FaultHandler ==
  /\ At("fault")
  /\ regs' = Clobbered(regs) /\ fx' = "junk"
  /\ Go(IF pc[2] \in {"GP", "PF"} THEN <<"stopped", "">>
                                  ELSE <<"restore_mm", "irq">>)
  /\ UNCHANGED <<ifOn, stack, taskVars, kthread1, depth, strays, raised>>

---------------------------------------------------------------------------
OwnCode == Poll \/ arch_activate_task \/ PushGprs \/ Switch \/ AfterSwitch
             \/ kernel_thread_helper
Restore == RESTORE_MM \/ RESTORE_GPR \/ ReturnFromSleep \/ PopRax \/ Iretq
Handler == do_irq \/ TrapGprs \/ CallHandler \/ FaultHandler
Execute == OwnCode \/ Restore \/ Handler
Next    == \/ Execute
           \/ \E irq \in Irqs : Interrupt(irq)
           \/ \E v \in Vectors : Raise(v)

(* The processor executes, and the timer keeps ticking; its handler takes  *)
(* less than the 10 ms between two ticks, so that the code it interrupts   *)
(* gets on, however often it is interrupted.                               *)
Fairness == /\ WF_vars(Execute) /\ SF_vars(ifOn /\ Execute)
            /\ WF_vars(Interrupt("timer"))
Spec     == Init /\ [][Next]_vars /\ Fairness

---------------------------------------------------------------------------
(* Whatever came between two of its instructions, a task's own code finds  *)
(* its registers, its XMM state, its stack and the interrupts as it left   *)
(* them, and a new thread its arguments; control is lost only by returning *)
(* over an error code or through a thread that was never created, and only *)
(* the two handlers made for it stop the machine.                          *)
Stoppers == {13, 14}
ContextKept ==
  /\ At("loop") => /\ regs = Own(cur) /\ fx = cur /\ ifOn
                   /\ Rsp = depth[cur]
  /\ At("helper") => /\ regs["rdi"] = <<"clone_fn", "">>
                     /\ regs["rsi"] = <<"data", "">>
                     /\ ifOn /\ Rsp = 0
  /\ At("wild") => \/ ~kthread1
                   \/ raised \cap (WithErrorCode \ Stoppers) # {}
  /\ At("stopped") => raised \cap Stoppers # {}

(* The stack of a task that does not run stays what its saved rsp says,    *)
(* and ends in a way back: an address, below it a whole XMM image, aligned *)
(* as fxrstor asks, with the size that leads from it to the registers the  *)
(* task saved (SAVE_MM, arch_hw_activate_task(),                           *)
(* arch_setup_task_context()).                                             *)
Saved(t, path) == Len(SavedGprs)
  + (IF path = "fork" THEN 5 ELSE depth[t] + 2)  (* frame; address and rax *)
SleepersResumable ==
  \A t \in Tasks \ {cur} : Exists(t) /\ ~At("wild") =>
     /\ ctxRsp[t] = Len(stack[t])
     /\ Last(stack[t])[1] = "pc" /\ Last(stack[t])[2][1] = "restore_mm"
     /\ FxTop(Front(stack[t]))
     /\ Len(stack[t]) - 2 - Last(Front(stack[t]))[2]
          = Saved(t, Last(stack[t])[2][2])

(* A task keeps the processor for one of two reasons only: a tick came     *)
(* while its loop did not look, or the ticks have outgrown the int of its  *)
(* target (lost).  Otherwise idle_loop() and clone_fn() find every target  *)
(* they wait for and switch: no switch, interrupt or exception makes them  *)
(* wait for a tick that is over.                                           *)
Dead == pc[1] \in {"wild", "stopped"}
Alternates == \A t \in Tasks : cur = t ~> (cur # t \/ Dead \/ lost)

(* asm.S:148: a handler's argument is the address of the frame that the    *)
(* processor pushed for its exception.                                     *)
FrameArgument ==
  At("fault") => regs["rdi"] = Num(Rsp - 1 - Top[2] - Len(SavedGprs) - 1)
=============================================================================
