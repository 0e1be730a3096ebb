-------------------------------- MODULE Apic --------------------------------
(***************************************************************************)
(* The local APIC: the layout include/eza/amd64/apic.h gives its page and  *)
(* the fields of its registers, and the driver in eza/amd64/apic.c, which  *)
(* assigns one field after the other.                                      *)
(*                                                                         *)
(* The hardware's registers are sets of bits, by their offsets as the      *)
(* architecture has them; the driver reaches them through the structures.  *)
(***************************************************************************)
EXTENDS Integers, Sequences, SequencesExt

CONSTANTS
  MaxLvts,     (* what the version register may give as the last LVT entry *)
  Versions     (* and as the version                                       *)

VARIABLES
  apic,        (* the page, once it is mapped: registers by offset         *)
  ro,          (* the version register ignores writes                      *)
  todo         (* assignments the driver has yet to make                   *)

apicVars == <<apic, ro, todo>>

---------------------------------------------------------------------------
(* struct __local_apic_t: the members in order, each of a number of        *)
(* 16-byte units.                                                          *)
Layout == <<
  <<"reserved", 2>>, <<"id", 1>>, <<"version", 1>>, <<"reserved", 4>>, <<"tpr", 1>>,
  <<"apr", 1>>, <<"ppr", 1>>, <<"eoi", 1>>, <<"reserved", 1>>, <<"ldr", 1>>, <<"dfr", 1>>,
  <<"svr", 1>>, <<"isr", 8>>, <<"tmr", 8>>, <<"irr", 8>>, <<"esr", 1>>, <<"reserved", 7>>,
  <<"icr1", 1>>, <<"icr2", 1>>, <<"lvt_timer", 1>>, <<"lvt_thermal_sensor", 1>>,
  <<"lvt_pc", 1>>, <<"lvt_lint0", 1>>, <<"lvt_lint1", 1>>, <<"lvt_error", 1>>,
  <<"timer_icr", 1>>, <<"timer_ccr", 1>>, <<"reserved", 4>>, <<"timer_dcr", 1>>, <<"reserved", 1>> >>

(* Where a named part begins, in a sequence of names and sizes *)
Begin(parts, name) ==
  LET n == SelectInSeq(parts, LAMBDA p : p[1] = name)
  IN  FoldLeft(LAMBDA sum, p : sum + p[2], 0, SubSeq(parts, 1, n - 1))
Size(parts, name) == parts[SelectInSeq(parts, LAMBDA p : p[1] = name)][2]
Offset(member)    == 16 * Begin(Layout, member)

(* The bit fields of the registers the driver uses *)
LvtFields_NoStatus == <<<<"vector", 8>>, <<"tx_mode", 3>>, <<"res", 1>>, <<"res", 3>>, <<"mask", 1>>>>
LvtFields == <<<<"vector", 8>>, <<"tx_mode", 3>>, <<"res", 1>>, <<"tx_status", 1>>,
               <<"res", 3>>, <<"mask", 1>>>>
LintFields == <<<<"vector", 8>>, <<"tx_mode", 3>>, <<"res", 1>>, <<"tx_status", 1>>,
                <<"polarity", 1>>, <<"remote_irr", 1>>, <<"trigger", 1>>, <<"mask", 1>>>>
TimerFields   == <<<<"vector", 8>>, <<"res", 4>>, <<"tx_status", 1>>, <<"res", 3>>,
                   <<"mask", 1>>, <<"timer_mode", 1>>>>
VersionFields == <<<<"version", 8>>, <<"res", 8>>, <<"max_lvt", 8>>>>
SvrFields     == <<<<"spurious_vector", 8>>, <<"apic_enabled", 1>>, <<"cpu_focus", 1>>>>
DcrFields     == <<<<"divisor", 4>>>>
Fields(member) ==
  CASE member = "version"   -> VersionFields
    [] member = "svr"       -> SvrFields
    [] member = "lvt_timer" -> TimerFields
    [] member = "timer_dcr" -> DcrFields
    [] member \in {"lvt_lint0", "lvt_lint1"} -> LintFields
    [] member \in {"lvt_pc", "lvt_error"}    -> LvtFields

BitsOf(v)     == {b \in 0 .. 7 : (v \div 2^b) % 2 = 1}
ValueOf(bits) == FoldLeft(LAMBDA n, b : IF b \in bits THEN n + 2^b ELSE n, 0, [b \in 1 .. 8 |-> b - 1])
FieldBits(member, field) ==
  LET from == Begin(Fields(member), field) IN from .. from + Size(Fields(member), field) - 1
Get(member, field) ==
  LET bits == apic[Offset(member)] \cap FieldBits(member, field)
  IN  ValueOf({b - Begin(Fields(member), field) : b \in bits})
With(old, member, field, v) ==
  (old \ FieldBits(member, field))
    \cup {b + Begin(Fields(member), field) : b \in BitsOf(v)}

(* member.field = v; where the code has |= 1 the field is a single bit *)
Set(member, field, v) == <<member, field, v>>

---------------------------------------------------------------------------
(* The driver *)
GetMaxLvt == Get("version", "max_lvt")

LocalApicClear_TimerLeft == <<Set("lvt_lint0", "mask", 1), Set("lvt_lint1", "mask", 1)>>
LocalApicClear ==
  (IF GetMaxLvt >= 3 THEN <<Set("lvt_error", "vector", 254), Set("lvt_error", "mask", 1)>> ELSE <<>>)
  \o <<Set("lvt_timer", "mask", 1), Set("lvt_lint0", "mask", 1), Set("lvt_lint1", "mask", 1)>>
  \o (IF GetMaxLvt >= 4 THEN <<Set("lvt_pc", "mask", 1)>> ELSE <<>>)

EnableApic == <<Set("svr", "apic_enabled", 1), Set("svr", "cpu_focus", 1)>>

Lints ==
  <<Set("lvt_lint0", "vector", 0), Set("lvt_lint1", "vector", 0),
    Set("lvt_lint0", "tx_mode", 7), Set("lvt_lint1", "tx_mode", 4),
    Set("lvt_lint0", "tx_status", 1), Set("lvt_lint0", "polarity", 1),
    Set("lvt_lint1", "tx_status", 1), Set("lvt_lint1", "polarity", 1)>>

TimerDivisor(x) ==
  CASE x = 1 -> 11 [] x = 2 -> 0 [] x = 4 -> 1 [] x = 8 -> 2
    [] x = 16 -> 3 [] x = 32 -> 8 [] x = 64 -> 9 [] x = 128 -> 10
TimerEnable  == <<Set("lvt_timer", "mask", 1)>>
TimerInit ==
  <<Set("timer_dcr", "divisor", TimerDivisor(128)), Set("lvt_timer", "timer_mode", 1)>> \o TimerEnable

(* __local_apic_check(), with what it writes to the version register *)
CheckWrite  == [apic EXCEPT ![Offset("version")] = IF ro THEN @ ELSE With(@, "version", "version", 0)]
CheckPassed ==
  LET v0 == Get("version", "version")
      v1 == IF ro THEN v0 ELSE 0
  IN  v0 = v1 /\ v1 \notin {0, 255} /\ GetMaxLvt >= 2 /\ GetMaxLvt # 255

---------------------------------------------------------------------------
(* The hardware: offsets and bits of the architecture *)
HwOffset == [version |-> 48, svr |-> 240, lvt_timer |-> 800, lvt_thermal_sensor |-> 816,
             lvt_pc |-> 832, lvt_lint0 |-> 848, lvt_lint1 |-> 864, lvt_error |-> 880,
             timer_dcr |-> 992]
HwMask == 16
HwEnabled == 8 \in apic[HwOffset.svr]
Lvts == {"lvt_timer", "lvt_lint0", "lvt_lint1"}
        \cup (IF GetMaxLvt >= 3 THEN {"lvt_error"} ELSE {})
        \cup (IF GetMaxLvt >= 4 THEN {"lvt_pc"} ELSE {})
        \cup (IF GetMaxLvt >= 5 THEN {"lvt_thermal_sensor"} ELSE {})
Masked(l)   == HwMask \in apic[HwOffset[l]]
HwMode(l)   == ValueOf({b - 8 : b \in apic[HwOffset[l]] \cap {8, 9, 10}})

(* As the firmware leaves it: the entries masked or not, in fixed mode or  *)
(* as the board needs them, on vectors of its own, the APIC enabled or not *)
FirmwarePages ==
  {[o \in {16 * n : n \in 0 .. 63} |->
      CASE o = HwOffset.version -> BitsOf(v) \cup {b + 16 : b \in BitsOf(max)}
        [] o = HwOffset.svr -> {0, 1, 2, 3} \cup on
        [] o \in {HwOffset.lvt_timer, HwOffset.lvt_error, HwOffset.lvt_pc} -> {5} \cup m
        [] o = HwOffset.lvt_thermal_sensor -> IF max >= 5 THEN {5} \cup m ELSE {}
        [] o = HwOffset.lvt_lint0 -> {8, 9, 10} \cup m
        [] o = HwOffset.lvt_lint1 -> {10} \cup m
        [] OTHER -> {}] :
   max \in MaxLvts, v \in Versions, on \in SUBSET {8}, m \in SUBSET {HwMask}}
Unmapped == [o \in {16 * n : n \in 0 .. 63} |-> {}]
=============================================================================
