------------------------------ MODULE Bringup ------------------------------
(***************************************************************************)
(* From the loader to the local APIC: boot.S, then main_routine() as far   *)
(* as arch_specific_init() (eza/amd64/platform.c), which maps the page of  *)
(* the APIC, initialises it and its timer, and switches to APIC mode.      *)
(***************************************************************************)
EXTENDS Boot, Apic

VARIABLES
  stage,       (* of arch_specific_init()                                  *)
  mapped,      (* the APIC's page is mapped                                *)
  present,     (* __local_apic_check() has passed                          *)
  cmosIndex, cmos   (* behind ports 0x70 and 0x71: bytes written          *)

portVars == <<cmosIndex, cmos>>
vars == <<bootVars, apicVars, stage, mapped, present, portVars>>

Init ==
  /\ BootInit /\ apic = Unmapped /\ ro = TRUE /\ todo = <<>>
  /\ stage = "boot" /\ mapped = FALSE /\ present = FALSE
  /\ cmosIndex = 0 /\ cmos = {}

Boot ==
  /\ BootStep
  /\ UNCHANGED <<apicVars, stage, mapped, present, portVars>>

(* __map_apic_page(): an unsigned result is never negative, so that a      *)
(* failure to map the page is none.                                        *)
MapApicPage ==
  /\ at = "main" /\ stage = "boot"
  /\ mapped' \in BOOLEAN /\ stage' = "check"
  /\ apic' \in (IF mapped' THEN FirmwarePages ELSE {Unmapped})
  /\ ro' \in (IF mapped' THEN BOOLEAN ELSE {TRUE})
  /\ UNCHANGED <<bootVars, todo, present, portVars>>

PageFault ==
  /\ stage = "check" /\ ~mapped /\ stage' = "fault"
  /\ UNCHANGED <<bootVars, apicVars, mapped, present, portVars>>

(* local_bsp_apic_init(); without an APIC the timer is initialised still *)
CheckApic ==
  /\ stage = "check" /\ mapped
  /\ apic' = CheckWrite /\ present' = CheckPassed
  /\ stage' = (IF CheckPassed THEN "clear" ELSE "timer")
  /\ todo' = (IF CheckPassed THEN LocalApicClear ELSE TimerInit)
  /\ UNCHANGED <<bootVars, ro, mapped, portVars>>

Assign ==
  /\ todo # <<>>
  /\ LET member == todo[1][1] IN
       apic' = [apic EXCEPT ![Offset(member)] = With(@, member, todo[1][2], todo[1][3])]
  /\ todo' = Tail(todo)
  /\ UNCHANGED <<bootVars, ro, stage, mapped, present, portVars>>

After(a, b, assignments) ==
  /\ stage = a /\ todo = <<>> /\ stage' = b /\ todo' = assignments
  /\ UNCHANGED <<bootVars, apic, ro, mapped, present>>
Enable    == After("clear", "enable", EnableApic \o Lints) /\ UNCHANGED portVars
InitTimer == After("enable", "timer", TimerInit) /\ UNCHANGED portVars

(* local_apic_bsp_switch(): ports and values are the wrong way round, and  *)
(* a byte of the CMOS is written.                                          *)
BspSwitch ==
  \/ After("timer", "switch", <<>>) /\ cmosIndex' = 34 /\ UNCHANGED cmos
  \/ /\ After("switch", "done", <<>>)
     /\ cmos' = cmos \cup {<<cmosIndex, 35>>} /\ UNCHANGED cmosIndex

Stopped == at = "halted" \/ stage \in {"fault", "done"}
Next == \/ Boot \/ MapApicPage \/ PageFault \/ CheckApic \/ Assign
        \/ Enable \/ InitTimer \/ BspSwitch
        \/ Stopped /\ UNCHANGED vars

Spec == Init /\ [][Next]_vars

---------------------------------------------------------------------------
(* Once the driver has cleared it, an APIC that can deliver interrupts     *)
(* delivers none on a vector of the firmware from an entry that            *)
(* __local_apic_clear() knows of: each of them that this APIC has is       *)
(* masked, or is the NMI's or the old controllers' line.  The entry of the *)
(* thermal sensor is in struct __local_apic_t and in no function: where an *)
(* APIC has it, it stays as the firmware left it.                          *)
Quiet(l) == Masked(l) \/ HwMode(l) \in {4, 7}
Delivering == present /\ stage \notin {"boot", "check", "clear"} /\ HwEnabled
QuietWhenCleared == Delivering => \A l \in Lvts \ {"lvt_thermal_sensor"} : Quiet(l)

(* An assignment through the structures of apic.h changes the register and *)
(* the bits the architecture has for it, and nothing the firmware has set  *)
(* beside them, nor an entry that this APIC does not have.                 *)
MeantBits(o) ==
  CASE o = HwOffset.version   -> 0 .. 7
    [] o = HwOffset.svr       -> {8, 9}
    [] o = HwOffset.lvt_timer -> {16, 17}
    [] o \in {HwOffset.lvt_lint0, HwOffset.lvt_lint1} -> 0 .. 10 \cup {12, 13, 16}
    [] o = HwOffset.lvt_error -> IF "lvt_error" \in Lvts THEN 0 .. 7 \cup {16} ELSE {}
    [] o = HwOffset.lvt_pc    -> IF "lvt_pc" \in Lvts THEN {16} ELSE {}
    [] o = HwOffset.timer_dcr -> 0 .. 3
    [] OTHER                  -> {}
RegistersAsMeant ==
  [][mapped => \A o \in DOMAIN apic : apic'[o] \ MeantBits(o) = apic[o] \ MeantBits(o)]_apic
=============================================================================
