--------------------------- MODULE Bringup_proofs ---------------------------
(***************************************************************************)
(* Theorems about the way into long mode, for every loader, every          *)
(* processor and every position of the cursor; about what boot.S copies    *)
(* from a loader that keeps to the protocol; and about the driver of the   *)
(* local APIC, for every version and number of entries it may report.      *)
(***************************************************************************)
EXTENDS Bringup, FiniteSetTheorems, SequenceTheorems, WellFoundedInduction, TLAPS

(* What is set at each label of boot.S: the features checked, the bits of  *)
(* the machine's registers.                                                *)
Labels  == {"check", "halted", "pae", "cr3", "lme", "pg", "jump", "mods", "mmap",
            "count", "main"}
Running == {"jump", "mods", "mmap", "count", "main"}
FeaturesChecked ==
  /\ at = "check" => step \in 1 .. 5 /\ \A i \in 1 .. step - 1 : Features[i] \in cpu
  /\ at \notin {"check", "halted"} => \A i \in 1 .. 5 : Features[i] \in cpu
BitsSet ==
  /\ at \in {"cr3", "lme", "pg"} \cup Running => "PAE" \in mode
  /\ at \in {"lme", "pg"} \cup Running        => "CR3" \in mode
  /\ at \in {"pg"} \cup Running               => "LME" \in mode
  /\ "PG" \in mode => at \in Running
MessageShown ==
  at = "halted" => message \subseteq 0 .. ScreenCells - 1 /\ cursor \in 0 .. ScreenCells - 1
BootInv == at \in Labels /\ FeaturesChecked /\ BitsSet /\ MessageShown

LEMMA FiveFeatures ==
  /\ Len(Features) = 5 /\ Range(Features) = {Features[i] : i \in 1 .. 5}
  /\ Features[2] = "longMode"
  BY DEF Features, Range

(* The longest message, from the last line on, ends on the screen.         *)
LEMMA MessageFits ==
  ASSUME NEW c \in Cursors, NEW s \in 1 .. 5
  PROVE  /\ CursorOk(c) .. CursorOk(c) + MessageLen[s] - 1 \subseteq 0 .. ScreenCells - 1
         /\ CursorOk(c) + MessageLen[s] \in 0 .. ScreenCells - 1
  <1> DEFINE k == CursorOk(c)
             l == MessageLen[s]
  <1>1. l \in 1 .. 59
    BY DEF MessageLen
  <1>2. k \in 0 .. 1920
    BY CursorsAssumption DEF CursorOk, LastLine
  <1>3. 0 .. ScreenCells - 1 = 0 .. 1999
    BY DEF ScreenCells
  <1> HIDE DEF k, l
  <1>4. k + l \in 0 .. 1999
    BY <1>1, <1>2
  <1>5. \A i \in k .. k + l - 1 : i \in 0 .. 1999
    BY <1>1, <1>2
  <1>6. k .. k + l - 1 \subseteq 0 .. 1999
    BY <1>5
  <1>7. k .. k + l - 1 \subseteq 0 .. ScreenCells - 1
    BY <1>3, <1>6
  <1>8. k + l \in 0 .. ScreenCells - 1
    BY <1>3, <1>4
  <1> QED BY <1>7, <1>8 DEF k, l

LEMMA InvInitially == Init => BootInv
  BY DEF Init, BootInit, BootInv, Labels, Running, FeaturesChecked, BitsSet, MessageShown

LEMMA CheckKeeps ==
  ASSUME BootInv, CheckFeature
  PROVE  BootInv'
  <1>1. /\ at = "check" /\ step \in 1 .. 5 /\ Features[step] \in cpu
        /\ \A i \in 1 .. step - 1 : Features[i] \in cpu
        /\ step' = step + 1 /\ cpu' = cpu /\ mode' = mode /\ message' = message
        /\ cursor' = cursor /\ "PG" \notin mode
    BY DEF BootInv, CheckFeature, FeaturesChecked, Machine, BitsSet, Running
  <1>2. \A i \in 1 .. step : Features[i] \in cpu
    BY <1>1
  <1>3. CASE step = 5
    <2>1. at' = "pae"
      BY <1>3, FiveFeatures DEF CheckFeature, NextCheck
    <2> QED BY <1>1, <1>2, <1>3, <2>1
         DEF BootInv, FeaturesChecked, BitsSet, MessageShown, Labels, Running
  <1>4. CASE step # 5
    <2>1. at' = "check" /\ step' \in 1 .. 5
      BY <1>1, <1>4, FiveFeatures DEF CheckFeature, NextCheck
    <2>2. \A i \in 1 .. step' - 1 : Features[i] \in cpu'
      BY <1>1, <1>2
    <2> QED BY <1>1, <2>1, <2>2
         DEF BootInv, FeaturesChecked, BitsSet, MessageShown, Labels, Running
  <1> QED BY <1>3, <1>4

LEMMA HaltKeeps ==
  ASSUME BootInv, ErrorHalt
  PROVE  BootInv'
  <1>1. at = "check" /\ at' = "halted" /\ step \in 1 .. 5 /\ mode' = mode /\ "PG" \notin mode
    BY DEF BootInv, ErrorHalt, Goto, FeaturesChecked, BitsSet, Running
  <1>2. PICK c \in Cursors :
          /\ message' = CursorOk(c) .. CursorOk(c) + MessageLen[step] - 1
          /\ cursor' = CursorOk(c) + MessageLen[step]
    BY DEF ErrorHalt
  <1>3. MessageShown'
    BY <1>1, <1>2, MessageFits DEF MessageShown
  <1> QED BY <1>1, <1>3 DEF BootInv, FeaturesChecked, BitsSet, Labels, Running

LEMMA ModeKeeps ==
  ASSUME BootInv, EnterLongMode
  PROVE  BootInv'
  <1>1. /\ at \in {"pae", "cr3", "lme", "pg"} /\ cpu' = cpu
        /\ mode' = mode \cup {ModeStep[at][1]} /\ at' = ModeStep[at][2]
    BY DEF EnterLongMode, ModeStep
  <1>2. /\ at = "pae" => mode' = mode \cup {"PAE"} /\ at' = "cr3"
        /\ at = "cr3" => mode' = mode \cup {"CR3"} /\ at' = "lme"
        /\ at = "lme" => mode' = mode \cup {"LME"} /\ at' = "pg"
        /\ at = "pg"  => mode' = mode \cup {"PG"}  /\ at' = "jump"
    BY <1>1 DEF ModeStep
  <1> QED BY <1>1, <1>2
       DEF BootInv, FeaturesChecked, BitsSet, MessageShown, Labels, Running

(* From start64 on nothing of this changes any more.                       *)
LEMMA RunningKeeps ==
  ASSUME BootInv, at \in Running, at' \in Running, UNCHANGED Machine
  PROVE  BootInv'
  BY DEF BootInv, FeaturesChecked, BitsSet, MessageShown, Labels, Running, Machine

LEMMA BootKeeps ==
  ASSUME BootInv, BootStep
  PROVE  BootInv'
  <1>1. CASE CheckFeature
    BY <1>1, CheckKeeps
  <1>2. CASE ErrorHalt
    BY <1>2, HaltKeeps
  <1>3. CASE EnterLongMode
    BY <1>3, ModeKeeps
  <1>4. CASE InvalidBoot \/ ModsValid
    BY <1>4, RunningKeeps DEF InvalidBoot, ModsValid, Goto, Running
  <1>5. CASE ModsLoop \/ ModsEnd
    BY <1>5, RunningKeeps DEF ModsLoop, ModsEnd, Goto, Running
  <1>6. CASE MmapLoop \/ MmapEnd \/ StoreCount
    BY <1>6, RunningKeeps DEF MmapLoop, MmapEnd, StoreCount, Goto, Running
  <1> QED BY <1>1, <1>2, <1>3, <1>4, <1>5, <1>6 DEF BootStep

LEMMA StepKeeps ==
  ASSUME BootInv, [Next]_vars
  PROVE  BootInv'
  <1>1. CASE Boot
    BY <1>1, BootKeeps DEF Boot
  <1>2. CASE UNCHANGED bootVars
    BY <1>2 DEF bootVars, BootInv, FeaturesChecked, BitsSet, MessageShown
  <1>3. MapApicPage \/ PageFault \/ CheckApic \/ Assign => UNCHANGED bootVars
    BY DEF MapApicPage, PageFault, CheckApic, Assign
  <1>4. Enable \/ InitTimer \/ BspSwitch => UNCHANGED bootVars
    BY DEF Enable, InitTimer, BspSwitch, After
  <1>5. UNCHANGED vars => UNCHANGED bootVars
    BY DEF vars
  <1> QED BY <1>1, <1>2, <1>3, <1>4, <1>5 DEF Next

LEMMA Invariant == Spec => []BootInv
  BY InvInitially, StepKeeps, PTL DEF Spec

(* boot.S sets the bits of CR4, CR3, EFER and CR0 in the order the         *)
(* processor demands, and reaches 64-bit code only on a processor with     *)
(* every feature it has checked for.                                       *)
THEOREM EntersLongMode == Spec => []LongModeSafe
  <1>1. BootInv => LongModeSafe
    BY FiveFeatures DEF BootInv, FeaturesChecked, BitsSet, LongModeSafe, Running
  <1> QED BY <1>1, Invariant, PTL

(* The message of error_halt lies on the screen, and the cursor behind it, *)
(* wherever the loader has left the cursor.                                *)
THEOREM MessageOnScreen == Spec => []HaltMessageVisible
  <1>1. BootInv => HaltMessageVisible
    BY DEF BootInv, MessageShown, HaltMessageVisible
  <1> QED BY <1>1, Invariant, PTL
---------------------------------------------------------------------------
(* Of numbers one is the least, since < is well-founded on them. Below,    *)
(* what holds for all of them is shown by the least for which it would not *)
(* hold.                                                                   *)
LEMMA Least ==
  ASSUME NEW T, T \subseteq Nat, T # {}
  PROVE  \E k \in T : \A y \in T : k <= y
  <1>1. PICK k \in T : \A y \in T : ~(<<y, k>> \in OpToRel(<, Nat))
    BY NatLessThanWellFounded, WFMin
  <1>2. \A x, y \in Nat : y < x => <<y, x>> \in OpToRel(<, Nat)
    BY DEF OpToRel
  <1>3. \A y \in T : ~(y < k)
    BY <1>1, <1>2
  <1>4. \A y \in T : k <= y
    BY <1>3
  <1> QED BY <1>4

---------------------------------------------------------------------------
(* What the loader passes.  A map is laid out as the multiboot protocol    *)
(* has it when its records follow one another from its start, at the       *)
(* offsets off[1], off[2], ...; the last of off is the end of the last     *)
(* record.  The length reaches into the last record and need not reach its *)
(* end.                                                                    *)
LaidOut(l, off) ==
  /\ off \in Seq(Nat) /\ Len(off) \in 1 .. 256
  /\ off[1] = 0 /\ l.mmapLength \in Nat /\ l.mmapLength <= off[Len(off)]
  /\ \A i \in 1 .. Len(off) - 1 : off[i] < l.mmapLength
  /\ DOMAIN l.mmap = {off[i] : i \in 1 .. Len(off) - 1}
  /\ \A i \in 1 .. Len(off) - 1 :
       l.mmap[off[i]].size \in Nat /\ off[i + 1] = off[i] + l.mmap[off[i]].size + 4
LoadersRegular ==
  \A l \in Loaders : /\ l.mods \in Seq([start : Nat, end : Nat])
                     /\ \E off : LaidOut(l, off)

Off  == CHOOSE off : LaidOut(loader, off)
N    == Len(Off) - 1
Mods == IF 3 \in loader.flags THEN Len(loader.mods) ELSE 0

(* The records lie one behind the other.                                   *)
LEMMA OffsetsGrow ==
  ASSUME NEW l, NEW off, LaidOut(l, off)
  PROVE  \A i, j \in 1 .. Len(off) : i < j => off[i] < off[j]
  <1>0. /\ off \in Seq(Nat) /\ Len(off) \in 1 .. 256
        /\ \A i \in 1 .. Len(off) - 1 :
             l.mmap[off[i]].size \in Nat /\ off[i + 1] = off[i] + l.mmap[off[i]].size + 4
    BY DEF LaidOut
  <1> PICK n \in 1 .. 256 : n = Len(off)
    BY <1>0
  <1>1. \A i \in 1 .. n : off[i] \in Nat
    <2>0. off \in Seq(Nat)
      BY <1>0
    <2>1. \A i \in 1 .. Len(off) : off[i] \in Nat
      BY ONLY <2>0
    <2> QED BY ONLY <2>1, n = Len(off)
  <1>2. ASSUME NEW i \in 1 .. n, i + 1 \in 1 .. n
        PROVE  off[i] < off[i + 1]
    <2>0. i \in 1 .. n - 1
      BY ONLY <1>2, i \in 1 .. n, n \in 1 .. 256
    <2>1. i \in 1 .. Len(off) - 1
      BY ONLY <2>0, n = Len(off)
    <2> PICK z : z = l.mmap[off[i]].size
      OBVIOUS
    <2>2. z \in Nat /\ off[i + 1] = off[i] + z + 4
      BY <1>0, <2>1
    <2>3. off[i] \in Nat
      BY <1>1
    <2> QED BY ONLY <2>2, <2>3
  <1>3. \A i, j \in 1 .. n : i < j => off[i] < off[j]
    <2> SUFFICES ASSUME NEW i \in 1 .. n, NEW j \in 1 .. n, i < j, ~(off[i] < off[j])
                 PROVE  FALSE
      OBVIOUS
    <2> DEFINE T == {k \in 1 .. n : i < k /\ ~(off[i] < off[k])}
    <2>3. PICK k \in T : \A m \in T : k <= m
      <3>1. T \subseteq Nat
        BY ONLY n \in 1 .. 256
      <3>2. j \in T
        BY ONLY j \in 1 .. n, i < j, ~(off[i] < off[j])
      <3> HIDE DEF T
      <3> QED BY ONLY <3>1, <3>2, Least
    <2>4. k \in 1 .. n /\ i < k /\ ~(off[i] < off[k])
      BY <2>3
    <2> PICK m \in 1 .. n : k = m + 1
      <3>1. k - 1 \in 1 .. n /\ k = (k - 1) + 1
        BY ONLY <2>4, i \in 1 .. n, n \in 1 .. 256
      <3> QED BY <3>1
    <2>5. off[m] < off[k]
      BY <1>2, <2>4
    <2>6. i # m
      BY <2>4, <2>5
    <2>7. i < m /\ m < k
      BY ONLY <2>4, <2>6, k = m + 1, i \in 1 .. n, m \in 1 .. n, n \in 1 .. 256
    <2>8. off[i] < off[m]
      <3> SUFFICES ASSUME ~(off[i] < off[m]) PROVE FALSE
        OBVIOUS
      <3>1. m \in T
        BY <2>7
      <3>2. k <= m
        BY <2>3, <3>1
      <3> QED BY ONLY <2>7, <3>2, k = m + 1, m \in 1 .. n, n \in 1 .. 256
    <2>9. off[i] \in Nat /\ off[m] \in Nat /\ off[k] \in Nat
      BY <1>1, <2>4
    <2> QED BY ONLY <2>4, <2>5, <2>8, <2>9
  <1> QED
    BY <1>3, n = Len(off)

(* As many as n different elements are n.                                  *)
LEMMA CountOf ==
  ASSUME NEW n \in Nat, NEW f, \A i, j \in 1 .. n : f[i] = f[j] => i = j
  PROVE  Cardinality({f[i] : i \in 1 .. n}) = n
  <1> DEFINE S == {f[i] : i \in 1 .. n}
             g == [i \in 1 .. n |-> f[i]]
  <1>1. g \in [1 .. n -> S] /\ (\A i, j \in 1 .. n : g[i] = g[j] => i = j)
        /\ (\A s \in S : \E i \in 1 .. n : g[i] = s)
    OBVIOUS
  <1> HIDE DEF S, g
  <1>2. g \in Bijection(1 .. n, S)
    BY <1>1 DEF Bijection, Injection, Surjection, IsInjective
  <1>3. ExistsBijection(1 .. n, S)
    BY <1>2 DEF ExistsBijection
  <1>4. IsFiniteSet(1 .. n) /\ Cardinality(1 .. n) = n
    <2>1. 1 \in Int /\ n \in Int /\ (1 <= n \/ n = 0)
      OBVIOUS
    <2> QED BY <2>1, FS_Interval
  <1>5. Cardinality(S) = n
    BY <1>3, <1>4, FS_Bijection
  <1> QED BY <1>5 DEF S

(* So the place of a record in the map is its number.                      *)
LEMMA Places ==
  ASSUME NEW off, LaidOut(loader, off)
  PROVE  /\ Cardinality(Records) = Len(off) - 1
         /\ \A i \in 1 .. Len(off) - 1 : Place(off[i]) = i
  <1>0. off \in Seq(Nat) /\ Len(off) \in 1 .. 256
    BY DEF LaidOut
  <1> PICK n \in Nat : n = Len(off) - 1
    <2> PICK x \in 1 .. 256 : x = Len(off)
      BY <1>0
    <2>1. x - 1 \in Nat
      OBVIOUS
    <2> QED BY <2>1
  <1>1. \A i \in 1 .. n : i \in 1 .. Len(off) /\ off[i] \in Nat
    BY ONLY <1>0, n = Len(off) - 1
  <1>2. \A i, j \in 1 .. n : i < j => off[i] < off[j]
    BY <1>1, OffsetsGrow
  <1>3. \A i, j \in 1 .. n : off[i] = off[j] => i = j
    <2> SUFFICES ASSUME NEW i \in 1 .. n, NEW j \in 1 .. n, off[i] = off[j], i # j
                 PROVE  FALSE
      OBVIOUS
    <2>1. i < j \/ j < i
      OBVIOUS
    <2>2. off[i] < off[j] \/ off[j] < off[i]
      BY <1>2, <2>1
    <2> QED BY <1>1, <2>2
  <1>4. Records = {off[i] : i \in 1 .. n}
    BY DEF Records, LaidOut
  <1>5. Cardinality(Records) = n
    BY <1>3, <1>4, CountOf
  <1>6. ASSUME NEW k \in 1 .. n
        PROVE  Place(off[k]) = k
    <2>1. \A i \in 1 .. n : off[i] <= off[k] <=> i <= k
      <3> SUFFICES ASSUME NEW i \in 1 .. n PROVE off[i] <= off[k] <=> i <= k
        OBVIOUS
      <3>1. off[i] \in Nat /\ off[k] \in Nat
        BY <1>1
      <3>2. i < k => off[i] < off[k]
        BY <1>2
      <3>3. k < i => off[k] < off[i]
        BY <1>2
      <3> QED BY <3>1, <3>2, <3>3
    <2>2. {p \in Records : p <= off[k]} = {off[i] : i \in 1 .. k}
      <3>1. \A i \in 1 .. k : i \in 1 .. n /\ i <= k
        OBVIOUS
      <3>2. \A i \in 1 .. n : i <= k => i \in 1 .. k
        OBVIOUS
      <3> QED BY <1>4, <2>1, <3>1, <3>2
    <2>3. k \in Nat /\ \A i, j \in 1 .. k : off[i] = off[j] => i = j
      <3>1. \A i \in 1 .. k : i \in 1 .. n
        OBVIOUS
      <3> QED BY <1>3, <3>1
    <2>4. Cardinality({off[i] : i \in 1 .. k}) = k
      BY ONLY <2>3, CountOf
    <2> QED BY <2>2, <2>4 DEF Place
  <1> QED BY <1>5, <1>6

---------------------------------------------------------------------------
(* The invariant: what boot.S has copied at each of its labels.            *)
ModsCopied(k) ==
  /\ init.c = Mods
  /\ \A i \in 1 .. k : i <= MaxTasks => init.task_[i] = Module(loader.mods[i])
MapCopied(k) ==
  \A i \in 1 .. k : i <= MaxRecords => e820table[i] = loader.mmap[Off[i]]
LoaderOk  == LaidOut(loader, Off) /\ loader.mods \in Seq([start : Nat, end : Nat])
TablesOk  == /\ DOMAIN e820table = 1 .. MaxRecords
             /\ init = [c |-> init.c, task_ |-> init.task_]
             /\ DOMAIN init.task_ = 1 .. MaxTasks
OverrunOk == overrun => N > MaxRecords \/ Len(loader.mods) > MaxTasks
AtMods ==
  at = "mods" => /\ loader.magic /\ step \in 1 .. Mods + 1 /\ left = Mods + 1 - step
                 /\ ModsCopied(step - 1)
ModsDone == at \in {"mmap", "count", "main"} /\ loader.magic => ModsCopied(Mods)
AtMmap ==
  at = "mmap" => /\ loader.magic /\ 6 \in loader.flags /\ step \in 0 .. N
                 /\ src = Off[step + 1] /\ left = loader.mmapLength - src
                 /\ MapCopied(step)
AtCount ==
  at = "count" => /\ loader.magic
                  /\ step = (IF 6 \in loader.flags THEN N ELSE 0)
                  /\ 6 \in loader.flags => MapCopied(N)
AtMain ==
  at = "main" => /\ e820count = IF loader.magic /\ 6 \in loader.flags THEN N ELSE 0
                 /\ loader.magic /\ 6 \in loader.flags => MapCopied(N)
LoadInv == /\ LoaderOk /\ TablesOk /\ OverrunOk
           /\ AtMods /\ ModsDone /\ AtMmap /\ AtCount /\ AtMain

(* The numbers of records and of modules.                                  *)
LEMMA Counts ==
  ASSUME LoaderOk
  PROVE  /\ N \in 0 .. 255 /\ Mods \in Nat /\ Mods <= Len(loader.mods) /\ Len(loader.mods) \in Nat
         /\ Off[1] = 0 /\ loader.mmapLength \in Nat /\ loader.mmapLength <= Off[N + 1]
         /\ \A i \in 1 .. N + 1 : Off[i] \in Nat
         /\ \A i \in 1 .. N : /\ Off[i] \in DOMAIN loader.mmap /\ loader.mmap[Off[i]].size \in Nat
                              /\ Off[i + 1] = Off[i] + loader.mmap[Off[i]].size + 4
                              /\ Off[i] < loader.mmapLength
  <1> PICK off : off = Off
    OBVIOUS
  <1>1. /\ off \in Seq(Nat) /\ Len(off) \in 1 .. 256
        /\ off[1] = 0 /\ loader.mmapLength \in Nat /\ loader.mmapLength <= off[Len(off)]
    BY DEF LoaderOk, LaidOut
  <1> PICK l \in 1 .. 256 : l = Len(off)
    BY <1>1
  <1> PICK n \in 0 .. 255 : l = n + 1
    <2>1. \A n \in Int : n = l - 1 => n \in 0 .. 255 /\ l = n + 1
      BY ONLY l \in 1 .. 256
    <2>2. l - 1 \in Int
      BY ONLY l \in 1 .. 256
    <2> QED BY ONLY <2>1, <2>2
  <1>2. N = n
    BY DEF N
  <1>3. \A i \in 1 .. n + 1 : off[i] \in Nat
    <2>1. \A i \in 1 .. Len(off) : off[i] \in Nat
      BY ONLY <1>1
    <2> QED BY ONLY <2>1, l = Len(off), l = n + 1
  <1>4. \A i \in 1 .. n : /\ off[i] \in DOMAIN loader.mmap /\ loader.mmap[off[i]].size \in Nat
                          /\ off[i + 1] = off[i] + loader.mmap[off[i]].size + 4
    <2>1. 1 .. Len(off) - 1 = 1 .. n
      OBVIOUS
    <2> QED BY <2>1 DEF LoaderOk, LaidOut
  <1>5. \A i \in 1 .. n : off[i] < loader.mmapLength
    <2>1. 1 .. Len(off) - 1 = 1 .. n
      OBVIOUS
    <2> QED BY <2>1 DEF LoaderOk, LaidOut
  <1>6. Len(loader.mods) \in Nat
    BY DEF LoaderOk
  <1>7. Mods \in Nat /\ Mods <= Len(loader.mods)
    BY <1>6 DEF Mods
  <1>8. loader.mmapLength <= off[n + 1]
    BY <1>1
  <1> QED BY <1>1, <1>2, <1>3, <1>4, <1>5, <1>6, <1>7, <1>8

(* The protocol holds for the loader that has started the kernel.          *)
LEMMA LoadInitially ==
  ASSUME LoadersRegular, Init
  PROVE  LoadInv
  <1>1. /\ at = "check" /\ loader \in Loaders /\ overrun = FALSE
        /\ init = [c |-> 0, task_ |-> [i \in 1 .. MaxTasks |-> Zero]]
        /\ e820table = [i \in 1 .. MaxRecords |-> Garbage]
    BY DEF Init, BootInit
  <1>2. LoaderOk
    BY <1>1 DEF LoadersRegular, LoaderOk, Off
  <1>3. TablesOk
    BY <1>1 DEF TablesOk
  <1> QED BY <1>1, <1>2, <1>3
       DEF LoadInv, OverrunOk, AtMods, ModsDone, AtMmap, AtCount, AtMain

(* A step that leaves the loader alone leaves its map alone.               *)
LEMMA SameLoader ==
  ASSUME LoaderOk, loader' = loader
  PROVE  /\ LoaderOk' /\ Off' = Off /\ N' = N /\ Mods' = Mods
  <1>1. Off' = Off
    BY DEF Off, LaidOut
  <1> QED BY <1>1 DEF LoaderOk, LaidOut, N, Mods

(* Until start64 nothing is copied.                                        *)
LEMMA EarlyKeeps ==
  ASSUME LoadInv, CheckFeature \/ ErrorHalt \/ EnterLongMode
  PROVE  LoadInv'
  <1>1. /\ loader' = loader /\ init' = init /\ e820table' = e820table /\ overrun' = overrun
        /\ at' \in {"pae", "check", "halted", "cr3", "lme", "pg", "jump"}
    <2>1. CASE CheckFeature
      BY <2>1 DEF CheckFeature, NextCheck, Machine, Tables
    <2>2. CASE ErrorHalt
      BY <2>2 DEF ErrorHalt, Goto, Tables
    <2>3. CASE EnterLongMode
      BY <2>3 DEF EnterLongMode, ModeStep, Tables
    <2> QED BY <2>1, <2>2, <2>3
  <1>2. LoaderOk' /\ N' = N
    BY <1>1, SameLoader DEF LoadInv
  <1> QED BY <1>1, <1>2
       DEF LoadInv, TablesOk, OverrunOk, AtMods, ModsDone, AtMmap, AtCount, AtMain

(* From start64 a loader without the magic number leads past the loops.    *)
LEMMA JumpKeeps ==
  ASSUME LoadInv, InvalidBoot \/ ModsValid
  PROVE  LoadInv'
  <1>1. loader' = loader /\ e820table' = e820table /\ overrun' = overrun /\ at = "jump"
    BY DEF InvalidBoot, ModsValid, Goto, Machine
  <1>2. LoaderOk' /\ N' = N /\ Off' = Off /\ Mods' = Mods
    BY <1>1, SameLoader DEF LoadInv
  <1>3. OverrunOk'
    BY <1>1, <1>2 DEF LoadInv, OverrunOk
  <1>4. CASE InvalidBoot
    <2>1. at' = "main" /\ ~loader.magic /\ e820count' = 0 /\ init' = init
      BY <1>4 DEF InvalidBoot, Goto
    <2> QED BY <1>1, <1>2, <1>3, <2>1
         DEF LoadInv, TablesOk, AtMods, ModsDone, AtMmap, AtCount, AtMain
  <1>5. CASE ModsValid
    <2>1. /\ at' = "mods" /\ loader.magic /\ left' = Mods /\ step' = 1
          /\ init' = [init EXCEPT !.c = Mods]
      BY <1>5 DEF ModsValid, Goto, Mods
    <2>2. init'.c = Mods /\ TablesOk'
      BY <1>1, <2>1 DEF LoadInv, TablesOk
    <2>3. AtMods'
      <3>1. Mods \in Nat
        BY Counts DEF LoadInv
      <3> QED BY <1>1, <1>2, <2>1, <2>2, <3>1 DEF AtMods, ModsCopied
    <2> QED BY <1>2, <1>3, <2>1, <2>2, <2>3
         DEF LoadInv, ModsDone, AtMmap, AtCount, AtMain
  <1> QED BY <1>4, <1>5

(* mods_loop copies the next module, or runs over the end of init.         *)
LEMMA ModsLoopKeeps ==
  ASSUME LoadInv, ModsLoop
  PROVE  LoadInv'
  <1>1. /\ loader' = loader /\ e820table' = e820table /\ at = "mods" /\ at' = "mods"
        /\ left > 0 /\ left' = left - 1 /\ step' = step + 1
    BY DEF ModsLoop, Goto, Machine
  <1>2. LoaderOk' /\ N' = N /\ Off' = Off /\ Mods' = Mods
    BY <1>1, SameLoader DEF LoadInv
  <1> PICK k \in Nat \ {0} : k = step
    BY <1>1 DEF LoadInv, AtMods
  <1>3. Mods \in Nat /\ Mods <= Len(loader.mods) /\ Len(loader.mods) \in Nat
    BY Counts DEF LoadInv
  <1>4. k <= Mods /\ left = Mods + 1 - k /\ loader.magic /\ ModsCopied(k - 1)
    BY <1>1, <1>3 DEF LoadInv, AtMods
  <1>5. CASE k <= MaxTasks
    <2>1. /\ init' = [init EXCEPT !.task_[k] = Module(loader.mods[k])]
          /\ overrun' = overrun
      BY <1>5 DEF ModsLoop
    <2>2. k \in DOMAIN init.task_
      BY <1>5, TablesAssumption DEF LoadInv, TablesOk
    <2>3. /\ init' = [c |-> init'.c, task_ |-> init'.task_] /\ init'.c = init.c
          /\ init'.task_ = [init.task_ EXCEPT ![k] = Module(loader.mods[k])]
      BY <2>1 DEF LoadInv, TablesOk
    <2>4. TablesOk'
      BY <1>1, <2>3 DEF LoadInv, TablesOk
    <2>5. ASSUME NEW i \in 1 .. k, i <= MaxTasks
          PROVE  init'.task_[i] = Module(loader.mods[i])
      <3>1. i \in DOMAIN init.task_
        BY <2>5, TablesAssumption DEF LoadInv, TablesOk
      <3>2. i = k \/ i \in 1 .. k - 1
        OBVIOUS
      <3> QED BY <1>4, <2>2, <2>3, <2>5, <3>1, <3>2 DEF ModsCopied
    <2>6. AtMods'
      <3>1. step' = k + 1 /\ step' - 1 = k
        BY <1>1
      <3>2. step' \in 1 .. Mods + 1 /\ left' = Mods + 1 - step'
        BY <1>1, <1>3, <1>4
      <3>3. init'.c = Mods
        BY <1>4, <2>3 DEF ModsCopied
      <3>4. loader' = loader /\ Mods' = Mods
        BY <1>1, <1>2
      <3>5. \A m : Module(m)' = Module(m)
        BY DEF Module
      <3> QED BY <1>4, <2>5, <3>1, <3>2, <3>3, <3>4 DEF AtMods, ModsCopied, Module
    <2>7. OverrunOk'
      BY <1>1, <1>2, <2>1 DEF LoadInv, OverrunOk
    <2> QED BY <1>1, <1>2, <2>4, <2>6, <2>7
         DEF LoadInv, ModsDone, AtMmap, AtCount, AtMain
  <1>6. CASE ~(k <= MaxTasks)
    <2>1. init' = init
      BY <1>6 DEF ModsLoop
    <2>2. Len(loader.mods) > MaxTasks
      BY <1>3, <1>4, <1>6, TablesAssumption
    <2>3. OverrunOk'
      BY <1>1, <2>2 DEF OverrunOk
    <2>4. AtMods'
      <3>1. step' = k + 1 /\ step' - 1 = k
        BY <1>1
      <3>2. step' \in 1 .. Mods + 1 /\ left' = Mods + 1 - step'
        BY <1>1, <1>3, <1>4
      <3>3. \A i \in 1 .. k : i <= MaxTasks => i \in 1 .. k - 1
        BY <1>6, TablesAssumption
      <3> QED BY <1>1, <1>2, <1>4, <2>1, <3>1, <3>2, <3>3 DEF AtMods, ModsCopied, Module
    <2> QED BY <1>1, <1>2, <2>1, <2>3, <2>4
         DEF LoadInv, TablesOk, ModsDone, AtMmap, AtCount, AtMain
  <1> QED BY <1>5, <1>6

(* After the last module the map is next, if there is one.                 *)
LEMMA ModsEndKeeps ==
  ASSUME LoadInv, ModsEnd
  PROVE  LoadInv'
  <1>1. /\ loader' = loader /\ init' = init /\ e820table' = e820table /\ overrun' = overrun
        /\ at = "mods" /\ left = 0 /\ step' = 0 /\ src' = 0
        /\ at' = (IF 6 \in loader.flags THEN "mmap" ELSE "count")
        /\ left' = (IF 6 \in loader.flags THEN loader.mmapLength ELSE 0)
    BY DEF ModsEnd, Goto, Machine, Tables
  <1>2. LoaderOk' /\ N' = N /\ Off' = Off /\ Mods' = Mods
    BY <1>1, SameLoader DEF LoadInv
  <1>3. /\ N \in 0 .. 255 /\ Mods \in Nat /\ Off[1] = 0 /\ loader.mmapLength \in Nat
    BY Counts DEF LoadInv
  <1>4. loader.magic /\ ModsCopied(Mods)
    <2>1. loader.magic /\ step \in 1 .. Mods + 1 /\ left = Mods + 1 - step /\ ModsCopied(step - 1)
      BY <1>1 DEF LoadInv, AtMods
    <2>2. step - 1 = Mods
      BY <1>1, <1>3, <2>1
    <2> QED BY <2>1, <2>2
  <1>5. ModsDone'
    BY <1>1, <1>2, <1>4 DEF ModsDone, ModsCopied, Module
  <1>6. AtMmap'
    <2> SUFFICES ASSUME 6 \in loader.flags PROVE AtMmap'
      BY <1>1 DEF AtMmap
    <2>1. step' \in 0 .. N /\ src' = Off[step' + 1] /\ left' = loader.mmapLength - src'
      BY <1>1, <1>3
    <2>2. MapCopied(step)'
      BY <1>1 DEF MapCopied
    <2> QED BY <1>1, <1>2, <1>4, <2>1, <2>2 DEF AtMmap
  <1>7. AtCount'
    BY <1>1, <1>4 DEF AtCount
  <1> QED BY <1>1, <1>2, <1>5, <1>6, <1>7
       DEF LoadInv, TablesOk, OverrunOk, AtMods, AtMain

(* mmap_loop copies the next record and steps over its size.               *)
LEMMA MmapLoopKeeps ==
  ASSUME LoadInv, MmapLoop
  PROVE  LoadInv'
  <1>1. /\ loader' = loader /\ init' = init /\ at = "mmap" /\ at' = "mmap" /\ left > 0
        /\ src' = src + RecordBytes(RecordAt) /\ left' = left - RecordBytes(RecordAt)
        /\ step' = step + 1
    BY DEF MmapLoop, Goto, Machine
  <1>2. LoaderOk' /\ N' = N /\ Off' = Off /\ Mods' = Mods
    BY <1>1, SameLoader DEF LoadInv
  <1> PICK n \in 0 .. 255 : n = N
    BY Counts DEF LoadInv
  <1> PICK k \in 0 .. n : k = step
    BY <1>1 DEF LoadInv, AtMmap
  <1> PICK end : end = loader.mmapLength
    OBVIOUS
  <1>3. /\ loader.magic /\ 6 \in loader.flags /\ src = Off[k + 1] /\ left = end - src
        /\ MapCopied(k)
    BY <1>1 DEF LoadInv, AtMmap
  <1>4. \A i \in 1 .. n + 1 : Off[i] \in Nat
    BY Counts DEF LoadInv
  <1>5. end <= Off[n + 1] /\ end \in Nat /\ Off[n + 1] \in Nat
    <2>1. end <= Off[n + 1] /\ end \in Nat
      BY Counts DEF LoadInv
    <2> QED BY <1>4, <2>1
  <1>6. k < n
    <2> SUFFICES ASSUME k = n PROVE FALSE
      OBVIOUS
    <2>1. src = Off[n + 1]
      BY <1>3
    <2> QED BY <1>1, <1>3, <1>5, <2>1
  <1> PICK j \in 1 .. n : j = k + 1
    BY <1>6
  <1>7. /\ Off[j] \in DOMAIN loader.mmap /\ loader.mmap[Off[j]].size \in Nat
        /\ Off[j + 1] = Off[j] + loader.mmap[Off[j]].size + 4
    BY Counts DEF LoadInv
  <1>8. RecordAt = loader.mmap[Off[j]] /\ src = Off[j]
    BY <1>3, <1>7 DEF RecordAt
  <1>9. src' = Off[j + 1] /\ left' = end - src'
    <2> PICK z \in Nat, o \in Nat, p \in Nat, e \in Nat :
           z = loader.mmap[Off[j]].size /\ o = Off[j] /\ p = Off[j + 1] /\ e = end
      BY <1>4, <1>5, <1>7
    <2>1. p = o + z + 4 /\ src = o /\ left = e - o /\ RecordBytes(RecordAt) = z + 4
      BY <1>3, <1>7, <1>8 DEF RecordBytes
    <2>2. src' = o + (z + 4) /\ left' = (e - o) - (z + 4)
      BY <1>1, <2>1
    <2>3. src' = p /\ left' = e - p
      BY ONLY <2>1, <2>2, z \in Nat, o \in Nat, p \in Nat, e \in Nat
    <2> QED BY <2>3
  <1>10. TablesOk' /\ MapCopied(step)' /\ OverrunOk'
    <2>1. CASE k < MaxRecords
      <3>1. /\ e820table' = [e820table EXCEPT ![j] = loader.mmap[Off[j]]] /\ overrun' = overrun
        BY <1>8, <2>1 DEF MmapLoop
      <3>2. DOMAIN e820table = 1 .. MaxRecords /\ j \in 1 .. MaxRecords
        BY <2>1, TablesAssumption DEF LoadInv, TablesOk
      <3>3. ASSUME NEW i \in 1 .. j, i <= MaxRecords
            PROVE  e820table'[i] = loader.mmap[Off[i]]
        <4>1. i \in 1 .. MaxRecords /\ (i = j \/ i \in 1 .. k)
          BY <3>3, TablesAssumption
        <4> QED BY <1>3, <3>1, <3>2, <3>3, <4>1 DEF MapCopied
      <3>4. MapCopied(step)'
        BY <1>1, <1>2, <3>3 DEF MapCopied
      <3> QED BY <1>1, <1>2, <3>1, <3>2, <3>4 DEF LoadInv, TablesOk, OverrunOk
    <2>2. CASE ~(k < MaxRecords)
      <3>1. e820table' = e820table
        BY <2>2 DEF MmapLoop
      <3>2. N > MaxRecords
        BY <1>6, <2>2, TablesAssumption
      <3>3. \A i \in 1 .. j : i <= MaxRecords => i \in 1 .. k
        BY <2>2, TablesAssumption
      <3>4. MapCopied(step)'
        BY <1>1, <1>2, <1>3, <3>1, <3>3 DEF MapCopied
      <3> QED BY <1>1, <1>2, <3>1, <3>2, <3>4 DEF LoadInv, TablesOk, OverrunOk
    <2> QED BY <2>1, <2>2
  <1>11. AtMmap'
    <2>1. step' = j /\ step' \in 0 .. N
      BY <1>1
    <2> QED BY <1>1, <1>2, <1>3, <1>9, <1>10, <2>1 DEF AtMmap
  <1>12. ModsDone'
    BY <1>1, <1>2 DEF LoadInv, ModsDone, ModsCopied, Module
  <1> QED BY <1>1, <1>2, <1>10, <1>11, <1>12 DEF LoadInv, AtMods, AtCount, AtMain

(* mmap_loop ends behind the last record, where the length has run out.    *)
LEMMA MmapEndKeeps ==
  ASSUME LoadInv, MmapEnd
  PROVE  LoadInv'
  <1>1. /\ loader' = loader /\ init' = init /\ e820table' = e820table /\ overrun' = overrun
        /\ at = "mmap" /\ at' = "count" /\ left <= 0 /\ step' = step
    BY DEF MmapEnd, Goto, Machine, Tables
  <1>2. LoaderOk' /\ N' = N /\ Off' = Off /\ Mods' = Mods
    BY <1>1, SameLoader DEF LoadInv
  <1> PICK n \in 0 .. 255 : n = N
    BY Counts DEF LoadInv
  <1> PICK k \in 0 .. n : k = step
    BY <1>1 DEF LoadInv, AtMmap
  <1>3. /\ loader.magic /\ 6 \in loader.flags /\ left = loader.mmapLength - Off[k + 1]
        /\ MapCopied(k)
    BY <1>1 DEF LoadInv, AtMmap
  <1>4. k = n
    <2> SUFFICES ASSUME k < n PROVE FALSE
      OBVIOUS
    <2> PICK j \in 1 .. n : j = k + 1
      OBVIOUS
    <2>1. Off[j] < loader.mmapLength
      BY Counts DEF LoadInv
    <2>2. Off[j] \in Nat /\ loader.mmapLength \in Nat
      <3>1. \A i \in 1 .. n + 1 : Off[i] \in Nat
        BY Counts DEF LoadInv
      <3>2. loader.mmapLength \in Nat
        BY Counts DEF LoadInv
      <3> QED BY <3>1, <3>2
    <2> QED BY <1>1, <1>3, <2>1, <2>2
  <1>5. AtCount'
    BY <1>1, <1>2, <1>3, <1>4 DEF AtCount, MapCopied
  <1>6. ModsDone'
    BY <1>1, <1>2 DEF LoadInv, ModsDone, ModsCopied, Module
  <1> QED BY <1>1, <1>2, <1>5, <1>6 DEF LoadInv, TablesOk, OverrunOk, AtMods, AtMmap, AtMain

(* The number of the records fits into the byte it is stored in.           *)
LEMMA StoreKeeps ==
  ASSUME LoadInv, StoreCount
  PROVE  LoadInv'
  <1>1. /\ loader' = loader /\ init' = init /\ e820table' = e820table /\ overrun' = overrun
        /\ at = "count" /\ at' = "main" /\ e820count' = step % 256
    BY DEF StoreCount, Goto, Machine
  <1>2. LoaderOk' /\ N' = N /\ Off' = Off /\ Mods' = Mods
    BY <1>1, SameLoader DEF LoadInv
  <1> PICK n \in 0 .. 255 : n = N
    BY Counts DEF LoadInv
  <1>3. loader.magic /\ step = (IF 6 \in loader.flags THEN n ELSE 0)
    BY <1>1 DEF LoadInv, AtCount
  <1>4. e820count' = (IF 6 \in loader.flags THEN n ELSE 0)
    <2>1. n % 256 = n /\ 0 % 256 = 0
      OBVIOUS
    <2> QED BY <1>1, <1>3, <2>1
  <1>5. AtMain'
    BY <1>1, <1>2, <1>3, <1>4 DEF LoadInv, AtCount, AtMain, MapCopied
  <1>6. ModsDone'
    BY <1>1, <1>2 DEF LoadInv, ModsDone, ModsCopied, Module
  <1> QED BY <1>1, <1>2, <1>5, <1>6 DEF LoadInv, TablesOk, OverrunOk, AtMods, AtMmap, AtCount

(* Every step keeps it.                                                    *)
LEMMA LoadStepKeeps ==
  ASSUME LoadInv, [Next]_vars
  PROVE  LoadInv'
  <1>1. CASE BootStep
    <2>1. CASE CheckFeature \/ ErrorHalt \/ EnterLongMode
      BY <2>1, EarlyKeeps
    <2>2. CASE InvalidBoot \/ ModsValid
      BY <2>2, JumpKeeps
    <2>3. CASE ModsLoop
      BY <2>3, ModsLoopKeeps
    <2>4. CASE ModsEnd
      BY <2>4, ModsEndKeeps
    <2>5. CASE MmapLoop
      BY <2>5, MmapLoopKeeps
    <2>6. CASE MmapEnd
      BY <2>6, MmapEndKeeps
    <2>7. CASE StoreCount
      BY <2>7, StoreKeeps
    <2> QED BY <1>1, <2>1, <2>2, <2>3, <2>4, <2>5, <2>6, <2>7 DEF BootStep
  <1>2. CASE UNCHANGED bootVars
    <2>1. /\ loader' = loader /\ init' = init /\ e820table' = e820table /\ overrun' = overrun
          /\ at' = at /\ step' = step /\ left' = left /\ src' = src /\ e820count' = e820count
      BY <1>2 DEF bootVars
    <2>2. LoaderOk' /\ N' = N /\ Off' = Off /\ Mods' = Mods
      BY <2>1, SameLoader DEF LoadInv
    <2>3. \A k : ModsCopied(k)' = ModsCopied(k) /\ MapCopied(k)' = MapCopied(k)
      BY <2>1, <2>2 DEF ModsCopied, MapCopied, Module
    <2> QED BY <2>1, <2>2, <2>3
         DEF LoadInv, TablesOk, OverrunOk, AtMods, ModsDone, AtMmap, AtCount, AtMain,
             ModsCopied, MapCopied, Module
  <1>3. MapApicPage \/ PageFault \/ CheckApic \/ Assign => UNCHANGED bootVars
    BY DEF MapApicPage, PageFault, CheckApic, Assign
  <1>4. Enable \/ InitTimer \/ BspSwitch => UNCHANGED bootVars
    BY DEF Enable, InitTimer, BspSwitch, After
  <1>5. UNCHANGED vars => UNCHANGED bootVars
    BY DEF vars
  <1> QED BY <1>1, <1>2, <1>3, <1>4, <1>5 DEF Next, Boot

(* boot.S hands main_routine() the modules and the memory map it was       *)
(* given, for any number of modules and up to 255 records of any sizes.    *)
THEOREM TablesAsPassed ==
  ASSUME LoadersRegular
  PROVE  Spec => []TablesMatchLoader
  <1>1. LoadInv => TablesMatchLoader
    <2> SUFFICES ASSUME LoadInv, at = "main" PROVE TablesMatchLoader
      BY DEF TablesMatchLoader
    <2> PICK off : off = Off
      OBVIOUS
    <2>1. LaidOut(loader, off) /\ N = Len(off) - 1
      BY DEF LoadInv, LoaderOk, N
    <2>2. Cardinality(Records) = N /\ \A i \in 1 .. N : Place(off[i]) = i
      BY <2>1, Places
    <2>3. Records = {off[i] : i \in 1 .. N}
      BY <2>1 DEF LaidOut, Records
    <2>4. e820count = IF loader.magic /\ 6 \in loader.flags THEN Cardinality(Records) ELSE 0
      BY <2>2 DEF LoadInv, AtMain
    <2>5. ASSUME loader.magic, 6 \in loader.flags, NEW o \in Records, Place(o) <= MaxRecords
          PROVE  e820table[Place(o)] = loader.mmap[o]
      <3>1. PICK i \in 1 .. N : o = off[i]
        BY <2>3
      <3>2. Place(o) = i
        BY <2>2, <3>1
      <3> QED BY <2>5, <3>1, <3>2 DEF LoadInv, AtMain, MapCopied
    <2>6. ASSUME loader.magic, 3 \in loader.flags
          PROVE  /\ init.c = Len(loader.mods)
                 /\ \A i \in 1 .. init.c : i <= MaxTasks =>
                      /\ init.task_[i].start - KernelHalf = loader.mods[i].start
                      /\ init.task_[i].start + init.task_[i].size - KernelHalf
                           = loader.mods[i].end
      <3>1. ModsCopied(Mods) /\ Mods = Len(loader.mods) /\ Len(loader.mods) \in Nat
        BY <2>6, Counts DEF LoadInv, ModsDone, Mods
      <3>2. init.c = Len(loader.mods)
        BY <3>1 DEF ModsCopied
      <3>3. ASSUME NEW i \in 1 .. init.c, i <= MaxTasks
            PROVE  /\ init.task_[i].start - KernelHalf = loader.mods[i].start
                   /\ init.task_[i].start + init.task_[i].size - KernelHalf
                        = loader.mods[i].end
        <4>1. init.task_[i] = Module(loader.mods[i])
          BY <3>1, <3>2, <3>3 DEF ModsCopied
        <4>2. loader.mods[i] \in [start : Nat, end : Nat]
          <5> PICK m : m = loader.mods
            OBVIOUS
          <5> PICK M : M = [start : Nat, end : Nat]
            OBVIOUS
          <5>1. m \in Seq(M) /\ i \in 1 .. Len(m)
            BY <3>2 DEF LoadInv, LoaderOk
          <5>2. m[i] \in M
            BY ONLY <5>1
          <5> QED BY <5>2
        <4> PICK a \in Nat, b \in Nat, k \in Nat :
               a = loader.mods[i].start /\ b = loader.mods[i].end /\ k = KernelHalf
          BY <4>2, TablesAssumption
        <4>3. init.task_[i].start = k + a /\ init.task_[i].size = b - a
          BY <4>1 DEF Module
        <4>4. (k + a) - k = a /\ ((k + a) + (b - a)) - k = b
          OBVIOUS
        <4> QED BY <4>3, <4>4
      <3> QED BY <3>2, <3>3
    <2>7. overrun => Cardinality(Records) > MaxRecords \/ Len(loader.mods) > MaxTasks
      BY <2>2 DEF LoadInv, OverrunOk
    <2> QED BY <2>4, <2>5, <2>6, <2>7 DEF TablesMatchLoader
  <1> QED BY <1>1, LoadInitially, LoadStepKeeps, PTL DEF Spec

---------------------------------------------------------------------------
(* The structures of apic.h.  Begin() sums up the sizes of the members in  *)
(* front of one with FoldLeft(), whose recursive function is first shown   *)
(* to exist; after that the offsets are a matter of addition.              *)

(* What Max() chooses, once the greatest number is known.                  *)
LEMMA Greatest ==
  ASSUME NEW t, NEW k \in t, t \subseteq Int, \A y \in t : k >= y
  PROVE  Max(t) = k
  <1>1. \A x \in t : (\A y \in t : x >= y) => x = k
    <2> SUFFICES ASSUME NEW x \in t, \A y \in t : x >= y PROVE x = k
      OBVIOUS
    <2>1. x >= k /\ k >= x /\ x \in Int /\ k \in Int
      OBVIOUS
    <2> QED BY <2>1
  <1> QED BY <1>1 DEF Max

(* The recursion of FoldLeft() that sums up the sizes of the parts p[1],   *)
(* ..., p[k].                                                              *)
Summing(p, k, f) ==
  f = [t \in SUBSET (1 .. k) |-> IF t = {} THEN 0 ELSE f[t \ {Max(t)}] + p[Max(t)][2]]

(* There is such a function for any number of parts: a least number for    *)
(* which there were none would be neither 0 nor one more than another.     *)
LEMMA SummingExists ==
  ASSUME NEW p
  PROVE  \A k \in Nat : \E f : Summing(p, k, f)
  <1> DEFINE T == {k \in Nat : ~\E f : Summing(p, k, f)}
  <1> SUFFICES ASSUME T # {} PROVE FALSE
    OBVIOUS
  <1>1. PICK k \in T : \A y \in T : k <= y
    <2>1. T \subseteq Nat
      OBVIOUS
    <2> HIDE DEF T
    <2> QED BY <2>1, Least
  <1>2. k # 0
    <2>1. 1 .. 0 = {}
      OBVIOUS
    <2> DEFINE f == [t \in SUBSET (1 .. 0) |-> 0]
    <2>2. \A t \in SUBSET (1 .. 0) : t = {}
      BY <2>1
    <2>3. f = [t \in SUBSET (1 .. 0) |-> IF t = {} THEN 0 ELSE f[t \ {Max(t)}] + p[Max(t)][2]]
      BY <2>2
    <2>4. Summing(p, 0, f)
      BY <2>3 DEF Summing
    <2> QED BY <2>4
  <1>3. k \in Nat /\ k - 1 \in Nat
    BY <1>2
  <1> PICK j \in Nat : j = k - 1
    BY <1>3
  <1>4. \E f : Summing(p, j, f)
    BY <1>1, <1>3
  <1> PICK f : Summing(p, j, f)
    BY <1>4
  <1>5. k = j + 1 /\ 1 .. k = (1 .. j) \cup {k} /\ k \notin 1 .. j
    BY <1>3
  <1> DEFINE g == [t \in SUBSET (1 .. k) |->
                     IF k \in t THEN f[t \ {k}] + p[k][2] ELSE f[t]]
  <1>6. ASSUME NEW t \in SUBSET (1 .. k)
        PROVE  g[t] = IF t = {} THEN 0 ELSE g[t \ {Max(t)}] + p[Max(t)][2]
    <2>1. CASE k \in t
      <3>1. Max(t) = k
        <4>1. \A y \in t : k >= y
          BY <1>3
        <4>2. t \subseteq Int
          OBVIOUS
        <4> QED BY <2>1, <4>1, <4>2, Greatest
      <3>2. t \ {k} \in SUBSET (1 .. j) /\ t \ {k} \in SUBSET (1 .. k)
        BY <1>5
      <3>3. g[t \ {k}] = f[t \ {k}]
        BY <3>2
      <3> QED BY <2>1, <3>1, <3>3
    <2>2. CASE k \notin t
      <3>1. t \in SUBSET (1 .. j)
        BY <1>5, <2>2
      <3>2. f[t] = IF t = {} THEN 0 ELSE f[t \ {Max(t)}] + p[Max(t)][2]
        BY <3>1 DEF Summing
      <3>3. g[t] = f[t]
        BY <2>2
      <3>4. t \ {Max(t)} \in SUBSET (1 .. k) /\ k \notin t \ {Max(t)}
        BY <2>2
      <3>5. g[t \ {Max(t)}] = f[t \ {Max(t)}]
        BY <3>4
      <3> QED BY <3>2, <3>3, <3>5
    <2> QED BY <2>1, <2>2
  <1>7. DOMAIN g = SUBSET (1 .. k) /\ g = [t \in SUBSET (1 .. k) |-> g[t]]
    OBVIOUS
  <1> HIDE DEF g
  <1>8. Summing(p, k, g)
    BY <1>6, <1>7 DEF Summing
  <1> QED BY <1>8

Total(p) == FoldLeft(LAMBDA sum, q : sum + q[2], 0, p)

(* FoldLeft() applied to the sizes is such a function of the parts.        *)
LEMMA TotalIsSum ==
  ASSUME NEW p, NEW k \in Nat, DOMAIN p = 1 .. k
  PROVE  \E f : Summing(p, k, f) /\ Total(p) = f[1 .. k]
  <1> DEFINE iter[s \in SUBSET (1 .. k)] ==
               IF s = {} THEN 0 ELSE iter[s \ {Max(s)}] + p[Max(s)][2]
  <1>1. iter = CHOOSE f : Summing(p, k, f)
    BY DEF Summing
  <1>2. Summing(p, k, iter)
    BY <1>1, SummingExists
  <1>3. Total(p) = iter[1 .. k]
    BY DEF Total, FoldLeft, MapThenFoldSet
  <1> QED BY <1>2, <1>3

(* It adds up the parts one after the other.                               *)
LEMMA SummingStep ==
  ASSUME NEW p, NEW k \in Nat, NEW f, Summing(p, k, f)
  PROVE  /\ f[1 .. 0] = 0
         /\ \A j \in Nat : j < k => f[1 .. j + 1] = f[1 .. j] + p[j + 1][2]
  <1>1. f[1 .. 0] = 0
    <2>1. 1 .. 0 = {}
      OBVIOUS
    <2> QED BY <2>1 DEF Summing
  <1>2. ASSUME NEW j \in Nat, j < k
        PROVE  f[1 .. j + 1] = f[1 .. j] + p[j + 1][2]
    <2> PICK t, s : t = 1 .. j + 1 /\ s = 1 .. j
      OBVIOUS
    <2>1. t \in SUBSET (1 .. k) /\ t # {} /\ t \ {j + 1} = s
      BY <1>2
    <2>2. Max(t) = j + 1
      <3>1. j + 1 \in t /\ t \subseteq Int /\ \A y \in t : j + 1 >= y
        OBVIOUS
      <3> QED BY <3>1, Greatest
    <2>3. f[t] = IF t = {} THEN 0 ELSE f[t \ {Max(t)}] + p[Max(t)][2]
      BY <2>1 DEF Summing
    <2> QED BY <2>1, <2>2, <2>3
  <1> QED BY <1>1, <1>2

(* Two sequences that begin alike have the same sums there.                *)
LEMMA SameSums ==
  ASSUME NEW p, NEW k \in Nat, NEW f, Summing(p, k, f),
         NEW q, NEW l \in Nat, NEW g, Summing(q, l, g), k <= l,
         \A i \in 1 .. k : p[i] = q[i]
  PROVE  \A j \in Nat : j <= k => f[1 .. j] = g[1 .. j]
  <1> DEFINE T == {j \in Nat : j <= k /\ f[1 .. j] # g[1 .. j]}
  <1> SUFFICES ASSUME T # {} PROVE FALSE
    OBVIOUS
  <1>1. PICK j \in T : \A y \in T : j <= y
    <2>1. T \subseteq Nat
      OBVIOUS
    <2> HIDE DEF T
    <2> QED BY <2>1, Least
  <1>2. j \in Nat /\ j <= k /\ f[1 .. j] # g[1 .. j]
    BY <1>1
  <1>3. j # 0
    BY <1>2, SummingStep
  <1> PICK i \in Nat : i = j - 1
    BY <1>2, <1>3
  <1>4. i < k /\ i < l /\ j = i + 1 /\ i + 1 \in 1 .. k
    BY <1>2
  <1>5. f[1 .. i] = g[1 .. i]
    BY <1>1, <1>4
  <1>6. /\ f[1 .. i + 1] = f[1 .. i] + p[i + 1][2]
        /\ g[1 .. i + 1] = g[1 .. i] + q[i + 1][2]
    BY <1>4, SummingStep
  <1>7. p[i + 1] = q[i + 1]
    BY <1>4
  <1> QED BY <1>2, <1>4, <1>5, <1>6, <1>7

(* What is in front of a part grows by the part.                           *)
LEMMA PrefixTotal ==
  ASSUME NEW p, NEW n \in Nat, p = [i \in 1 .. n |-> p[i]]
  PROVE  /\ Len(p) = n /\ Total(SubSeq(p, 1, 0)) = 0
         /\ \A m \in Nat : m < n =>
              Total(SubSeq(p, 1, m + 1)) = Total(SubSeq(p, 1, m)) + p[m + 1][2]
  <1> DEFINE S == {p[i] : i \in 1 .. n}
  <1>0. \A i \in 1 .. n : p[i] \in S
    OBVIOUS
  <1> HIDE DEF S
  <1>7. p \in Seq(S) /\ Len(p) = n
    BY <1>0
  <1>1. \A m \in Nat : m <= n => /\ DOMAIN SubSeq(p, 1, m) = 1 .. m
                                 /\ \A i \in 1 .. m : SubSeq(p, 1, m)[i] = p[i]
    BY <1>7
  <1>2. DOMAIN p = 1 .. n
    BY <1>7
  <1>3. PICK g : Summing(p, n, g)
    BY SummingExists
  <1>4. ASSUME NEW m \in Nat, m <= n
        PROVE  Total(SubSeq(p, 1, m)) = g[1 .. m]
    <2> PICK s : s = SubSeq(p, 1, m)
      OBVIOUS
    <2>1. DOMAIN s = 1 .. m /\ \A i \in 1 .. m : s[i] = p[i]
      BY <1>1, <1>4
    <2>2. PICK f : Summing(s, m, f) /\ Total(s) = f[1 .. m]
      BY <2>1, TotalIsSum
    <2>3. \A j \in Nat : j <= m => f[1 .. j] = g[1 .. j]
      <3>1. Summing(s, m, f) /\ Summing(p, n, g) /\ m <= n
        BY <1>3, <1>4, <2>2
      <3> QED BY ONLY <2>1, <3>1, m \in Nat, n \in Nat, SameSums
    <2> QED BY <2>2, <2>3
  <1>5. Total(SubSeq(p, 1, 0)) = 0
    BY <1>3, <1>4, SummingStep
  <1>6. ASSUME NEW m \in Nat, m < n
        PROVE  Total(SubSeq(p, 1, m + 1)) = Total(SubSeq(p, 1, m)) + p[m + 1][2]
    <2>1. Total(SubSeq(p, 1, m)) = g[1 .. m]
      BY <1>4, <1>6
    <2>2. Total(SubSeq(p, 1, m + 1)) = g[1 .. m + 1]
      <3> PICK x \in Nat : x = m + 1
        OBVIOUS
      <3>1. x <= n
        BY <1>6
      <3> QED BY <1>4, <3>1
    <2> QED BY <1>3, <1>6, <2>1, <2>2, SummingStep
  <1> QED BY <1>5, <1>6, <1>7

(* Where the n-th part begins, if its name is its own.                     *)
LEMMA BeginIs ==
  ASSUME NEW p, NEW l \in Nat, Len(p) = l, NEW n \in 1 .. l, NEW name,
         \A i \in 1 .. l : p[i][1] = name <=> i = n
  PROVE  /\ Begin(p, name) = Total(SubSeq(p, 1, n - 1))
         /\ Size(p, name) = p[n][2]
  <1> DEFINE I == {i \in 1 .. Len(p) : p[i][1] = name}
  <1>1. I = {n}
    OBVIOUS
  <1>2. SelectInSeq(p, LAMBDA q : q[1] = name) = IF I # {} THEN Min(I) ELSE 0
    BY DEF SelectInSeq
  <1>3. Min({n}) = n
    BY DEF Min
  <1> HIDE DEF I
  <1>4. SelectInSeq(p, LAMBDA q : q[1] = name) = n
    BY <1>1, <1>2, <1>3
  <1> QED BY <1>4 DEF Begin, Size, Total

(* The fields of the entries for errors and for the performance counters.  *)
LEMMA LvtFieldsSums ==
  /\ Begin(LvtFields, "vector") = 0 /\ Size(LvtFields, "vector") = 8
  /\ Begin(LvtFields, "mask") = 16 /\ Size(LvtFields, "mask") = 1
  <1> PICK p : p = LvtFields
    OBVIOUS
  <1>1. p = [i \in 1 .. 6 |-> p[i]] /\ 6 \in Nat
    BY DEF LvtFields
  <1>2. /\ p[1] = <<"vector", 8>> /\ p[2] = <<"tx_mode", 3>> /\ p[3] = <<"res", 1>>
        /\ p[4] = <<"tx_status", 1>> /\ p[5] = <<"res", 3>> /\ p[6] = <<"mask", 1>>
    BY DEF LvtFields
  <1> DEFINE T(m) == Total(SubSeq(p, 1, m))
  <1>3. Len(p) = 6 /\ T(0) = 0 /\ \A m \in Nat : m < 6 => T(m + 1) = T(m) + p[m + 1][2]
    BY <1>1, PrefixTotal
  <1> HIDE DEF T
  <1>4. T(1) = 8 /\ T(2) = 11 /\ T(3) = 12 /\ T(4) = 13 /\ T(5) = 16
    <2>1. /\ T(1) = T(0) + p[1][2] /\ T(2) = T(1) + p[2][2]
          /\ T(3) = T(2) + p[3][2] /\ T(4) = T(3) + p[4][2]
          /\ T(5) = T(4) + p[5][2]
      BY <1>3
    <2> QED BY <1>2, <1>3, <2>1
  <1>5. Begin(p, "vector") = T(0) /\ Size(p, "vector") = 8
    <2>1. \A i \in 1 .. 6 : p[i][1] = "vector" <=> i = 1
      BY <1>2
    <2>2. Len(p) = 6 /\ 1 \in 1 .. 6 /\ 6 \in Nat
      BY <1>3
    <2>3. Begin(p, "vector") = Total(SubSeq(p, 1, 1 - 1)) /\ Size(p, "vector") = p[1][2]
      BY ONLY <2>1, <2>2, BeginIs
    <2> QED BY <1>2, <2>3 DEF T
  <1>6. Begin(p, "mask") = T(5) /\ Size(p, "mask") = 1
    <2>1. \A i \in 1 .. 6 : p[i][1] = "mask" <=> i = 6
      BY <1>2
    <2>2. Len(p) = 6 /\ 6 \in 1 .. 6 /\ 6 \in Nat
      BY <1>3
    <2>3. Begin(p, "mask") = Total(SubSeq(p, 1, 6 - 1)) /\ Size(p, "mask") = p[6][2]
      BY ONLY <2>1, <2>2, BeginIs
    <2> QED BY <1>2, <2>3 DEF T
  <1> QED BY <1>3, <1>4, <1>5, <1>6

(* The fields of the entries for the two interrupt lines.                  *)
LEMMA LintFieldsSums ==
  /\ Begin(LintFields, "vector") = 0 /\ Size(LintFields, "vector") = 8
  /\ Begin(LintFields, "tx_mode") = 8 /\ Size(LintFields, "tx_mode") = 3
  /\ Begin(LintFields, "tx_status") = 12 /\ Size(LintFields, "tx_status") = 1
  /\ Begin(LintFields, "polarity") = 13 /\ Size(LintFields, "polarity") = 1
  /\ Begin(LintFields, "mask") = 16 /\ Size(LintFields, "mask") = 1
  <1> PICK p : p = LintFields
    OBVIOUS
  <1>1. p = [i \in 1 .. 8 |-> p[i]] /\ 8 \in Nat
    BY DEF LintFields
  <1>2. /\ p[1] = <<"vector", 8>> /\ p[2] = <<"tx_mode", 3>> /\ p[3] = <<"res", 1>>
        /\ p[4] = <<"tx_status", 1>> /\ p[5] = <<"polarity", 1>> /\ p[6] = <<"remote_irr", 1>>
        /\ p[7] = <<"trigger", 1>> /\ p[8] = <<"mask", 1>>
    BY DEF LintFields
  <1> DEFINE T(m) == Total(SubSeq(p, 1, m))
  <1>3. Len(p) = 8 /\ T(0) = 0 /\ \A m \in Nat : m < 8 => T(m + 1) = T(m) + p[m + 1][2]
    BY <1>1, PrefixTotal
  <1> HIDE DEF T
  <1>4. T(1) = 8 /\ T(2) = 11 /\ T(3) = 12 /\ T(4) = 13 /\ T(5) = 14 /\ T(6) = 15
    <2>1. /\ T(1) = T(0) + p[1][2] /\ T(2) = T(1) + p[2][2]
          /\ T(3) = T(2) + p[3][2] /\ T(4) = T(3) + p[4][2]
          /\ T(5) = T(4) + p[5][2] /\ T(6) = T(5) + p[6][2]
      BY <1>3
    <2> QED BY <1>2, <1>3, <2>1
  <1>5. T(7) = 16
    <2>1. /\ T(7) = T(6) + p[7][2]
      BY <1>3
    <2> QED BY <1>2, <1>4, <2>1
  <1>6. Begin(p, "vector") = T(0) /\ Size(p, "vector") = 8
    <2>1. \A i \in 1 .. 8 : p[i][1] = "vector" <=> i = 1
      BY <1>2
    <2>2. Len(p) = 8 /\ 1 \in 1 .. 8 /\ 8 \in Nat
      BY <1>3
    <2>3. Begin(p, "vector") = Total(SubSeq(p, 1, 1 - 1)) /\ Size(p, "vector") = p[1][2]
      BY ONLY <2>1, <2>2, BeginIs
    <2> QED BY <1>2, <2>3 DEF T
  <1>7. Begin(p, "tx_mode") = T(1) /\ Size(p, "tx_mode") = 3
    <2>1. \A i \in 1 .. 8 : p[i][1] = "tx_mode" <=> i = 2
      BY <1>2
    <2>2. Len(p) = 8 /\ 2 \in 1 .. 8 /\ 8 \in Nat
      BY <1>3
    <2>3. Begin(p, "tx_mode") = Total(SubSeq(p, 1, 2 - 1)) /\ Size(p, "tx_mode") = p[2][2]
      BY ONLY <2>1, <2>2, BeginIs
    <2> QED BY <1>2, <2>3 DEF T
  <1>8. Begin(p, "tx_status") = T(3) /\ Size(p, "tx_status") = 1
    <2>1. \A i \in 1 .. 8 : p[i][1] = "tx_status" <=> i = 4
      BY <1>2
    <2>2. Len(p) = 8 /\ 4 \in 1 .. 8 /\ 8 \in Nat
      BY <1>3
    <2>3. Begin(p, "tx_status") = Total(SubSeq(p, 1, 4 - 1)) /\ Size(p, "tx_status") = p[4][2]
      BY ONLY <2>1, <2>2, BeginIs
    <2> QED BY <1>2, <2>3 DEF T
  <1>9. Begin(p, "polarity") = T(4) /\ Size(p, "polarity") = 1
    <2>1. \A i \in 1 .. 8 : p[i][1] = "polarity" <=> i = 5
      BY <1>2
    <2>2. Len(p) = 8 /\ 5 \in 1 .. 8 /\ 8 \in Nat
      BY <1>3
    <2>3. Begin(p, "polarity") = Total(SubSeq(p, 1, 5 - 1)) /\ Size(p, "polarity") = p[5][2]
      BY ONLY <2>1, <2>2, BeginIs
    <2> QED BY <1>2, <2>3 DEF T
  <1>10. Begin(p, "mask") = T(7) /\ Size(p, "mask") = 1
    <2>1. \A i \in 1 .. 8 : p[i][1] = "mask" <=> i = 8
      BY <1>2
    <2>2. Len(p) = 8 /\ 8 \in 1 .. 8 /\ 8 \in Nat
      BY <1>3
    <2>3. Begin(p, "mask") = Total(SubSeq(p, 1, 8 - 1)) /\ Size(p, "mask") = p[8][2]
      BY ONLY <2>1, <2>2, BeginIs
    <2> QED BY <1>2, <2>3 DEF T
  <1> QED BY <1>3, <1>4, <1>5, <1>6, <1>7, <1>8, <1>9, <1>10

(* The fields of the timer's entry.                                        *)
LEMMA TimerFieldsSums ==
  /\ Begin(TimerFields, "mask") = 16 /\ Size(TimerFields, "mask") = 1
  /\ Begin(TimerFields, "timer_mode") = 17 /\ Size(TimerFields, "timer_mode") = 1
  <1> PICK p : p = TimerFields
    OBVIOUS
  <1>1. p = [i \in 1 .. 6 |-> p[i]] /\ 6 \in Nat
    BY DEF TimerFields
  <1>2. /\ p[1] = <<"vector", 8>> /\ p[2] = <<"res", 4>> /\ p[3] = <<"tx_status", 1>>
        /\ p[4] = <<"res", 3>> /\ p[5] = <<"mask", 1>> /\ p[6] = <<"timer_mode", 1>>
    BY DEF TimerFields
  <1> DEFINE T(m) == Total(SubSeq(p, 1, m))
  <1>3. Len(p) = 6 /\ T(0) = 0 /\ \A m \in Nat : m < 6 => T(m + 1) = T(m) + p[m + 1][2]
    BY <1>1, PrefixTotal
  <1> HIDE DEF T
  <1>4. T(1) = 8 /\ T(2) = 12 /\ T(3) = 13 /\ T(4) = 16 /\ T(5) = 17
    <2>1. /\ T(1) = T(0) + p[1][2] /\ T(2) = T(1) + p[2][2]
          /\ T(3) = T(2) + p[3][2] /\ T(4) = T(3) + p[4][2]
          /\ T(5) = T(4) + p[5][2]
      BY <1>3
    <2> QED BY <1>2, <1>3, <2>1
  <1>5. Begin(p, "mask") = T(4) /\ Size(p, "mask") = 1
    <2>1. \A i \in 1 .. 6 : p[i][1] = "mask" <=> i = 5
      BY <1>2
    <2>2. Len(p) = 6 /\ 5 \in 1 .. 6 /\ 6 \in Nat
      BY <1>3
    <2>3. Begin(p, "mask") = Total(SubSeq(p, 1, 5 - 1)) /\ Size(p, "mask") = p[5][2]
      BY ONLY <2>1, <2>2, BeginIs
    <2> QED BY <1>2, <2>3 DEF T
  <1>6. Begin(p, "timer_mode") = T(5) /\ Size(p, "timer_mode") = 1
    <2>1. \A i \in 1 .. 6 : p[i][1] = "timer_mode" <=> i = 6
      BY <1>2
    <2>2. Len(p) = 6 /\ 6 \in 1 .. 6 /\ 6 \in Nat
      BY <1>3
    <2>3. Begin(p, "timer_mode") = Total(SubSeq(p, 1, 6 - 1)) /\ Size(p, "timer_mode") = p[6][2]
      BY ONLY <2>1, <2>2, BeginIs
    <2> QED BY <1>2, <2>3 DEF T
  <1> QED BY <1>3, <1>4, <1>5, <1>6

(* The fields of the version register.                                     *)
LEMMA VersionFieldsSums ==
  /\ Begin(VersionFields, "version") = 0 /\ Size(VersionFields, "version") = 8
  /\ Begin(VersionFields, "max_lvt") = 16 /\ Size(VersionFields, "max_lvt") = 8
  <1> PICK p : p = VersionFields
    OBVIOUS
  <1>1. p = [i \in 1 .. 3 |-> p[i]] /\ 3 \in Nat
    BY DEF VersionFields
  <1>2. /\ p[1] = <<"version", 8>> /\ p[2] = <<"res", 8>> /\ p[3] = <<"max_lvt", 8>>
    BY DEF VersionFields
  <1> DEFINE T(m) == Total(SubSeq(p, 1, m))
  <1>3. Len(p) = 3 /\ T(0) = 0 /\ \A m \in Nat : m < 3 => T(m + 1) = T(m) + p[m + 1][2]
    BY <1>1, PrefixTotal
  <1> HIDE DEF T
  <1>4. T(1) = 8 /\ T(2) = 16
    <2>1. /\ T(1) = T(0) + p[1][2] /\ T(2) = T(1) + p[2][2]
      BY <1>3
    <2> QED BY <1>2, <1>3, <2>1
  <1>5. Begin(p, "version") = T(0) /\ Size(p, "version") = 8
    <2>1. \A i \in 1 .. 3 : p[i][1] = "version" <=> i = 1
      BY <1>2
    <2>2. Len(p) = 3 /\ 1 \in 1 .. 3 /\ 3 \in Nat
      BY <1>3
    <2>3. Begin(p, "version") = Total(SubSeq(p, 1, 1 - 1)) /\ Size(p, "version") = p[1][2]
      BY ONLY <2>1, <2>2, BeginIs
    <2> QED BY <1>2, <2>3 DEF T
  <1>6. Begin(p, "max_lvt") = T(2) /\ Size(p, "max_lvt") = 8
    <2>1. \A i \in 1 .. 3 : p[i][1] = "max_lvt" <=> i = 3
      BY <1>2
    <2>2. Len(p) = 3 /\ 3 \in 1 .. 3 /\ 3 \in Nat
      BY <1>3
    <2>3. Begin(p, "max_lvt") = Total(SubSeq(p, 1, 3 - 1)) /\ Size(p, "max_lvt") = p[3][2]
      BY ONLY <2>1, <2>2, BeginIs
    <2> QED BY <1>2, <2>3 DEF T
  <1> QED BY <1>3, <1>4, <1>5, <1>6

(* The fields of the spurious vector register.                             *)
LEMMA SvrFieldsSums ==
  /\ Begin(SvrFields, "apic_enabled") = 8 /\ Size(SvrFields, "apic_enabled") = 1
  /\ Begin(SvrFields, "cpu_focus") = 9 /\ Size(SvrFields, "cpu_focus") = 1
  <1> PICK p : p = SvrFields
    OBVIOUS
  <1>1. p = [i \in 1 .. 3 |-> p[i]] /\ 3 \in Nat
    BY DEF SvrFields
  <1>2. /\ p[1] = <<"spurious_vector", 8>> /\ p[2] = <<"apic_enabled", 1>> /\ p[3] = <<"cpu_focus", 1>>
    BY DEF SvrFields
  <1> DEFINE T(m) == Total(SubSeq(p, 1, m))
  <1>3. Len(p) = 3 /\ T(0) = 0 /\ \A m \in Nat : m < 3 => T(m + 1) = T(m) + p[m + 1][2]
    BY <1>1, PrefixTotal
  <1> HIDE DEF T
  <1>4. T(1) = 8 /\ T(2) = 9
    <2>1. /\ T(1) = T(0) + p[1][2] /\ T(2) = T(1) + p[2][2]
      BY <1>3
    <2> QED BY <1>2, <1>3, <2>1
  <1>5. Begin(p, "apic_enabled") = T(1) /\ Size(p, "apic_enabled") = 1
    <2>1. \A i \in 1 .. 3 : p[i][1] = "apic_enabled" <=> i = 2
      BY <1>2
    <2>2. Len(p) = 3 /\ 2 \in 1 .. 3 /\ 3 \in Nat
      BY <1>3
    <2>3. Begin(p, "apic_enabled") = Total(SubSeq(p, 1, 2 - 1)) /\ Size(p, "apic_enabled") = p[2][2]
      BY ONLY <2>1, <2>2, BeginIs
    <2> QED BY <1>2, <2>3 DEF T
  <1>6. Begin(p, "cpu_focus") = T(2) /\ Size(p, "cpu_focus") = 1
    <2>1. \A i \in 1 .. 3 : p[i][1] = "cpu_focus" <=> i = 3
      BY <1>2
    <2>2. Len(p) = 3 /\ 3 \in 1 .. 3 /\ 3 \in Nat
      BY <1>3
    <2>3. Begin(p, "cpu_focus") = Total(SubSeq(p, 1, 3 - 1)) /\ Size(p, "cpu_focus") = p[3][2]
      BY ONLY <2>1, <2>2, BeginIs
    <2> QED BY <1>2, <2>3 DEF T
  <1> QED BY <1>3, <1>4, <1>5, <1>6

(* The field of the timer's divide configuration register.                 *)
LEMMA DcrFieldsSums ==
  /\ Begin(DcrFields, "divisor") = 0 /\ Size(DcrFields, "divisor") = 4
  <1> PICK p : p = DcrFields
    OBVIOUS
  <1>1. p = [i \in 1 .. 1 |-> p[i]] /\ 1 \in Nat
    BY DEF DcrFields
  <1>2. /\ p[1] = <<"divisor", 4>>
    BY DEF DcrFields
  <1> DEFINE T(m) == Total(SubSeq(p, 1, m))
  <1>3. Len(p) = 1 /\ T(0) = 0 /\ \A m \in Nat : m < 1 => T(m + 1) = T(m) + p[m + 1][2]
    BY <1>1, PrefixTotal
  <1> HIDE DEF T
  <1>4. Begin(p, "divisor") = T(0) /\ Size(p, "divisor") = 4
    <2>1. \A i \in 1 .. 1 : p[i][1] = "divisor" <=> i = 1
      BY <1>2
    <2>2. Len(p) = 1 /\ 1 \in 1 .. 1 /\ 1 \in Nat
      BY <1>3
    <2>3. Begin(p, "divisor") = Total(SubSeq(p, 1, 1 - 1)) /\ Size(p, "divisor") = p[1][2]
      BY ONLY <2>1, <2>2, BeginIs
    <2> QED BY <1>2, <2>3 DEF T
  <1> QED BY <1>3, <1>4

(* Where struct __local_apic_t has the registers, in units of 16 bytes.    *)
LEMMA LayoutSums ==
  /\ Begin(Layout, "version") = 3
  /\ Begin(Layout, "svr") = 15
  /\ Begin(Layout, "lvt_timer") = 50
  /\ Begin(Layout, "lvt_pc") = 52
  /\ Begin(Layout, "lvt_lint0") = 53
  /\ Begin(Layout, "lvt_lint1") = 54
  /\ Begin(Layout, "lvt_error") = 55
  /\ Begin(Layout, "timer_dcr") = 62
  <1> PICK p : p = Layout
    OBVIOUS
  <1>1. p = [i \in 1 .. 30 |-> p[i]] /\ 30 \in Nat
    BY DEF Layout
  <1>2. /\ p[1] = <<"reserved", 2>> /\ p[2] = <<"id", 1>> /\ p[3] = <<"version", 1>>
        /\ p[4] = <<"reserved", 4>> /\ p[5] = <<"tpr", 1>> /\ p[6] = <<"apr", 1>>
        /\ p[7] = <<"ppr", 1>> /\ p[8] = <<"eoi", 1>> /\ p[9] = <<"reserved", 1>>
        /\ p[10] = <<"ldr", 1>> /\ p[11] = <<"dfr", 1>> /\ p[12] = <<"svr", 1>>
        /\ p[13] = <<"isr", 8>> /\ p[14] = <<"tmr", 8>> /\ p[15] = <<"irr", 8>>
        /\ p[16] = <<"esr", 1>> /\ p[17] = <<"reserved", 7>> /\ p[18] = <<"icr1", 1>>
        /\ p[19] = <<"icr2", 1>> /\ p[20] = <<"lvt_timer", 1>> /\ p[21] = <<"lvt_thermal_sensor", 1>>
        /\ p[22] = <<"lvt_pc", 1>> /\ p[23] = <<"lvt_lint0", 1>> /\ p[24] = <<"lvt_lint1", 1>>
        /\ p[25] = <<"lvt_error", 1>> /\ p[26] = <<"timer_icr", 1>> /\ p[27] = <<"timer_ccr", 1>>
        /\ p[28] = <<"reserved", 4>> /\ p[29] = <<"timer_dcr", 1>> /\ p[30] = <<"reserved", 1>>
    BY DEF Layout
  <1> DEFINE T(m) == Total(SubSeq(p, 1, m))
  <1>3. Len(p) = 30 /\ T(0) = 0 /\ \A m \in Nat : m < 30 => T(m + 1) = T(m) + p[m + 1][2]
    BY <1>1, PrefixTotal
  <1> HIDE DEF T
  <1>4. T(1) = 2 /\ T(2) = 3 /\ T(3) = 4 /\ T(4) = 8 /\ T(5) = 9 /\ T(6) = 10
    <2>1. /\ T(1) = T(0) + p[1][2] /\ T(2) = T(1) + p[2][2]
          /\ T(3) = T(2) + p[3][2] /\ T(4) = T(3) + p[4][2]
          /\ T(5) = T(4) + p[5][2] /\ T(6) = T(5) + p[6][2]
      BY <1>3
    <2> QED BY <1>2, <1>3, <2>1
  <1>5. T(7) = 11 /\ T(8) = 12 /\ T(9) = 13 /\ T(10) = 14 /\ T(11) = 15 /\ T(12) = 16
    <2>1. /\ T(7) = T(6) + p[7][2] /\ T(8) = T(7) + p[8][2]
          /\ T(9) = T(8) + p[9][2] /\ T(10) = T(9) + p[10][2]
          /\ T(11) = T(10) + p[11][2] /\ T(12) = T(11) + p[12][2]
      BY <1>3
    <2> QED BY <1>2, <1>4, <2>1
  <1>6. T(13) = 24 /\ T(14) = 32 /\ T(15) = 40 /\ T(16) = 41 /\ T(17) = 48 /\ T(18) = 49
    <2>1. /\ T(13) = T(12) + p[13][2] /\ T(14) = T(13) + p[14][2]
          /\ T(15) = T(14) + p[15][2] /\ T(16) = T(15) + p[16][2]
          /\ T(17) = T(16) + p[17][2] /\ T(18) = T(17) + p[18][2]
      BY <1>3
    <2> QED BY <1>2, <1>5, <2>1
  <1>7. T(19) = 50 /\ T(20) = 51 /\ T(21) = 52 /\ T(22) = 53 /\ T(23) = 54 /\ T(24) = 55
    <2>1. /\ T(19) = T(18) + p[19][2] /\ T(20) = T(19) + p[20][2]
          /\ T(21) = T(20) + p[21][2] /\ T(22) = T(21) + p[22][2]
          /\ T(23) = T(22) + p[23][2] /\ T(24) = T(23) + p[24][2]
      BY <1>3
    <2> QED BY <1>2, <1>6, <2>1
  <1>8. T(25) = 56 /\ T(26) = 57 /\ T(27) = 58 /\ T(28) = 62
    <2>1. /\ T(25) = T(24) + p[25][2] /\ T(26) = T(25) + p[26][2]
          /\ T(27) = T(26) + p[27][2] /\ T(28) = T(27) + p[28][2]
      BY <1>3
    <2> QED BY <1>2, <1>7, <2>1
  <1>9. Begin(p, "version") = T(2) /\ Size(p, "version") = 1
    <2>1. \A i \in 1 .. 30 : p[i][1] = "version" <=> i = 3
      BY <1>2
    <2>2. Len(p) = 30 /\ 3 \in 1 .. 30 /\ 30 \in Nat
      BY <1>3
    <2>3. Begin(p, "version") = Total(SubSeq(p, 1, 3 - 1)) /\ Size(p, "version") = p[3][2]
      BY ONLY <2>1, <2>2, BeginIs
    <2> QED BY <1>2, <2>3 DEF T
  <1>10. Begin(p, "svr") = T(11) /\ Size(p, "svr") = 1
    <2>1. \A i \in 1 .. 30 : p[i][1] = "svr" <=> i = 12
      BY <1>2
    <2>2. Len(p) = 30 /\ 12 \in 1 .. 30 /\ 30 \in Nat
      BY <1>3
    <2>3. Begin(p, "svr") = Total(SubSeq(p, 1, 12 - 1)) /\ Size(p, "svr") = p[12][2]
      BY ONLY <2>1, <2>2, BeginIs
    <2> QED BY <1>2, <2>3 DEF T
  <1>11. Begin(p, "lvt_timer") = T(19) /\ Size(p, "lvt_timer") = 1
    <2>1. \A i \in 1 .. 30 : p[i][1] = "lvt_timer" <=> i = 20
      BY <1>2
    <2>2. Len(p) = 30 /\ 20 \in 1 .. 30 /\ 30 \in Nat
      BY <1>3
    <2>3. Begin(p, "lvt_timer") = Total(SubSeq(p, 1, 20 - 1)) /\ Size(p, "lvt_timer") = p[20][2]
      BY ONLY <2>1, <2>2, BeginIs
    <2> QED BY <1>2, <2>3 DEF T
  <1>12. Begin(p, "lvt_pc") = T(21) /\ Size(p, "lvt_pc") = 1
    <2>1. \A i \in 1 .. 30 : p[i][1] = "lvt_pc" <=> i = 22
      BY <1>2
    <2>2. Len(p) = 30 /\ 22 \in 1 .. 30 /\ 30 \in Nat
      BY <1>3
    <2>3. Begin(p, "lvt_pc") = Total(SubSeq(p, 1, 22 - 1)) /\ Size(p, "lvt_pc") = p[22][2]
      BY ONLY <2>1, <2>2, BeginIs
    <2> QED BY <1>2, <2>3 DEF T
  <1>13. Begin(p, "lvt_lint0") = T(22) /\ Size(p, "lvt_lint0") = 1
    <2>1. \A i \in 1 .. 30 : p[i][1] = "lvt_lint0" <=> i = 23
      BY <1>2
    <2>2. Len(p) = 30 /\ 23 \in 1 .. 30 /\ 30 \in Nat
      BY <1>3
    <2>3. Begin(p, "lvt_lint0") = Total(SubSeq(p, 1, 23 - 1)) /\ Size(p, "lvt_lint0") = p[23][2]
      BY ONLY <2>1, <2>2, BeginIs
    <2> QED BY <1>2, <2>3 DEF T
  <1>14. Begin(p, "lvt_lint1") = T(23) /\ Size(p, "lvt_lint1") = 1
    <2>1. \A i \in 1 .. 30 : p[i][1] = "lvt_lint1" <=> i = 24
      BY <1>2
    <2>2. Len(p) = 30 /\ 24 \in 1 .. 30 /\ 30 \in Nat
      BY <1>3
    <2>3. Begin(p, "lvt_lint1") = Total(SubSeq(p, 1, 24 - 1)) /\ Size(p, "lvt_lint1") = p[24][2]
      BY ONLY <2>1, <2>2, BeginIs
    <2> QED BY <1>2, <2>3 DEF T
  <1>15. Begin(p, "lvt_error") = T(24) /\ Size(p, "lvt_error") = 1
    <2>1. \A i \in 1 .. 30 : p[i][1] = "lvt_error" <=> i = 25
      BY <1>2
    <2>2. Len(p) = 30 /\ 25 \in 1 .. 30 /\ 30 \in Nat
      BY <1>3
    <2>3. Begin(p, "lvt_error") = Total(SubSeq(p, 1, 25 - 1)) /\ Size(p, "lvt_error") = p[25][2]
      BY ONLY <2>1, <2>2, BeginIs
    <2> QED BY <1>2, <2>3 DEF T
  <1>16. Begin(p, "timer_dcr") = T(28) /\ Size(p, "timer_dcr") = 1
    <2>1. \A i \in 1 .. 30 : p[i][1] = "timer_dcr" <=> i = 29
      BY <1>2
    <2>2. Len(p) = 30 /\ 29 \in 1 .. 30 /\ 30 \in Nat
      BY <1>3
    <2>3. Begin(p, "timer_dcr") = Total(SubSeq(p, 1, 29 - 1)) /\ Size(p, "timer_dcr") = p[29][2]
      BY ONLY <2>1, <2>2, BeginIs
    <2> QED BY <1>2, <2>3 DEF T
  <1> QED BY <1>3, <1>4, <1>5, <1>6, <1>7, <1>8, <1>9, <1>10, <1>11, <1>12, <1>13, <1>14, <1>15, <1>16

---------------------------------------------------------------------------
(* The driver in eza/amd64/apic.c.                                         *)

(* The registers lie in the structure of apic.h where the hardware has     *)
(* them.                                                                   *)
LEMMA OffsetsMeant ==
  \A m \in {"version", "svr", "lvt_timer", "lvt_pc", "lvt_lint0", "lvt_lint1", "lvt_error",
            "timer_dcr"} : Offset(m) = HwOffset[m]
  BY LayoutSums DEF Offset, HwOffset

(* A field that the driver assigns: of which member, from which bit on,    *)
(* how many bits.                                                          *)
Field == {
  <<"lvt_error", "vector", 0, 8>>, <<"lvt_error", "mask", 16, 1>>, <<"lvt_pc", "mask", 16, 1>>,
  <<"lvt_timer", "mask", 16, 1>>, <<"lvt_timer", "timer_mode", 17, 1>>,
  <<"lvt_lint0", "vector", 0, 8>>, <<"lvt_lint1", "vector", 0, 8>>,
  <<"lvt_lint0", "tx_mode", 8, 3>>, <<"lvt_lint1", "tx_mode", 8, 3>>,
  <<"lvt_lint0", "tx_status", 12, 1>>, <<"lvt_lint1", "tx_status", 12, 1>>,
  <<"lvt_lint0", "polarity", 13, 1>>, <<"lvt_lint1", "polarity", 13, 1>>,
  <<"lvt_lint0", "mask", 16, 1>>, <<"lvt_lint1", "mask", 16, 1>>,
  <<"svr", "apic_enabled", 8, 1>>, <<"svr", "cpu_focus", 9, 1>>, <<"timer_dcr", "divisor", 0, 4>>,
  <<"version", "version", 0, 8>> }

(* The bit fields of apic.h put each of them there.                        *)
LEMMA FieldsPlaced ==
  ASSUME NEW f \in Field
  PROVE  Begin(Fields(f[1]), f[2]) = f[3] /\ Size(Fields(f[1]), f[2]) = f[4]
  <1>1. CASE f[1] = "lvt_error" \/ f[1] = "lvt_pc"
    <2>1. Fields(f[1]) = LvtFields
      BY <1>1 DEF Fields
    <2> QED BY <1>1, <2>1, LvtFieldsSums DEF Field
  <1>2. CASE f[1] = "lvt_timer"
    <2>1. Fields(f[1]) = TimerFields
      BY <1>2 DEF Fields
    <2> QED BY <1>2, <2>1, TimerFieldsSums DEF Field
  <1>3. CASE f[1] = "lvt_lint0" \/ f[1] = "lvt_lint1"
    <2>1. Fields(f[1]) = LintFields
      BY <1>3 DEF Fields
    <2> QED BY <1>3, <2>1, LintFieldsSums DEF Field
  <1>4. CASE f[1] = "svr"
    <2>1. Fields(f[1]) = SvrFields
      BY <1>4 DEF Fields
    <2> QED BY <1>4, <2>1, SvrFieldsSums DEF Field
  <1>5. CASE f[1] = "timer_dcr"
    <2>1. Fields(f[1]) = DcrFields
      BY <1>5 DEF Fields
    <2> QED BY <1>5, <2>1, DcrFieldsSums DEF Field
  <1>6. CASE f[1] = "version"
    <2>1. Fields(f[1]) = VersionFields
      BY <1>6 DEF Fields
    <2> QED BY <1>6, <2>1, VersionFieldsSums DEF Field
  <1> QED BY <1>1, <1>2, <1>3, <1>4, <1>5, <1>6 DEF Field

(* The bits of the values the driver assigns.                              *)
LEMMA BitsOfValues ==
  /\ BitsOf(0) = {} /\ BitsOf(1) = {0} /\ BitsOf(4) = {2} /\ BitsOf(7) = {0, 1, 2}
  /\ BitsOf(10) = {1, 3} /\ BitsOf(254) \subseteq 0 .. 7
  <1>1. 2^0 = 1 /\ 2^1 = 2 /\ 2^2 = 4 /\ 2^3 = 8 /\ 2^4 = 16 /\ 2^5 = 32 /\ 2^6 = 64 /\ 2^7 = 128
    OBVIOUS
  <1>2. 0 .. 7 = {0, 1, 2, 3, 4, 5, 6, 7}
    OBVIOUS
  <1> DEFINE Bit(v, b) == (v \div 2^b) % 2
  <1>3. \A v : BitsOf(v) = {b \in {0, 1, 2, 3, 4, 5, 6, 7} : Bit(v, b) = 1}
    BY <1>2 DEF BitsOf
  <1>4. /\ Bit(0, 0) = 0 /\ Bit(0, 1) = 0 /\ Bit(0, 2) = 0 /\ Bit(0, 3) = 0
        /\ Bit(0, 4) = 0 /\ Bit(0, 5) = 0 /\ Bit(0, 6) = 0 /\ Bit(0, 7) = 0
    BY <1>1
  <1>5. /\ Bit(1, 0) = 1 /\ Bit(1, 1) = 0 /\ Bit(1, 2) = 0 /\ Bit(1, 3) = 0
        /\ Bit(1, 4) = 0 /\ Bit(1, 5) = 0 /\ Bit(1, 6) = 0 /\ Bit(1, 7) = 0
    BY <1>1
  <1>6. /\ Bit(4, 0) = 0 /\ Bit(4, 1) = 0 /\ Bit(4, 2) = 1 /\ Bit(4, 3) = 0
        /\ Bit(4, 4) = 0 /\ Bit(4, 5) = 0 /\ Bit(4, 6) = 0 /\ Bit(4, 7) = 0
    BY <1>1
  <1>7. /\ Bit(7, 0) = 1 /\ Bit(7, 1) = 1 /\ Bit(7, 2) = 1 /\ Bit(7, 3) = 0
        /\ Bit(7, 4) = 0 /\ Bit(7, 5) = 0 /\ Bit(7, 6) = 0 /\ Bit(7, 7) = 0
    BY <1>1
  <1>8. /\ Bit(10, 0) = 0 /\ Bit(10, 1) = 1 /\ Bit(10, 2) = 0 /\ Bit(10, 3) = 1
        /\ Bit(10, 4) = 0 /\ Bit(10, 5) = 0 /\ Bit(10, 6) = 0 /\ Bit(10, 7) = 0
    BY <1>1
  <1> HIDE DEF Bit
  <1>9. BitsOf(0) = {}
    BY <1>3, <1>4
  <1>10. BitsOf(1) = {0}
    BY <1>3, <1>5
  <1>11. BitsOf(4) = {2}
    BY <1>3, <1>6
  <1>12. BitsOf(7) = {0, 1, 2}
    BY <1>3, <1>7
  <1>13. BitsOf(10) = {1, 3}
    BY <1>3, <1>8
  <1>14. BitsOf(254) \subseteq 0 .. 7
    BY DEF BitsOf
  <1> QED BY <1>9, <1>10, <1>11, <1>12, <1>13, <1>14

(* The assignments of the driver, those to the entries for errors and for  *)
(* the performance counters only where the APIC has the entry.             *)
Assignments ==
  {<<"lvt_timer", "mask", 1>>, <<"lvt_timer", "timer_mode", 1>>,
   <<"lvt_lint0", "mask", 1>>, <<"lvt_lint1", "mask", 1>>,
   <<"lvt_lint0", "vector", 0>>, <<"lvt_lint1", "vector", 0>>,
   <<"lvt_lint0", "tx_mode", 7>>, <<"lvt_lint1", "tx_mode", 4>>,
   <<"lvt_lint0", "tx_status", 1>>, <<"lvt_lint0", "polarity", 1>>,
   <<"lvt_lint1", "tx_status", 1>>, <<"lvt_lint1", "polarity", 1>>,
   <<"svr", "apic_enabled", 1>>, <<"svr", "cpu_focus", 1>>, <<"timer_dcr", "divisor", 10>>}
  \cup (IF "lvt_error" \in Lvts THEN {<<"lvt_error", "vector", 254>>, <<"lvt_error", "mask", 1>>}
        ELSE {})
  \cup (IF "lvt_pc" \in Lvts THEN {<<"lvt_pc", "mask", 1>>} ELSE {})

(* Each of them is an assignment to a field, whose value fits into it.     *)
LEMMA AssignmentsFit ==
  ASSUME NEW a \in Assignments
  PROVE  \E f \in Field : f[1] = a[1] /\ f[2] = a[2] /\ BitsOf(a[3]) \subseteq 0 .. f[4] - 1
  <1>1. \A f, v : f[4] = 1 /\ v = 1 => BitsOf(v) \subseteq 0 .. f[4] - 1
    BY BitsOfValues
  <1>2. \A f, v : f[4] = 8 /\ v \in {0, 254} => BitsOf(v) \subseteq 0 .. f[4] - 1
    BY BitsOfValues
  <1>3. \A f, v : f[4] = 3 /\ v \in {4, 7} => BitsOf(v) \subseteq 0 .. f[4] - 1
    BY BitsOfValues
  <1>4. \A f, v : f[4] = 4 /\ v = 10 => BitsOf(v) \subseteq 0 .. f[4] - 1
    BY BitsOfValues
  <1>5. CASE a[3] = 1
    <2>1. \E f \in Field : f[1] = a[1] /\ f[2] = a[2] /\ f[4] = 1
      <3> PICK f : f = <<a[1], a[2], IF a[2] = "mask" THEN 16 ELSE
                         IF a[2] = "timer_mode" THEN 17 ELSE
                         IF a[2] = "tx_status" THEN 12 ELSE
                         IF a[2] = "polarity" THEN 13 ELSE
                         IF a[2] = "apic_enabled" THEN 8 ELSE 9, 1>>
        OBVIOUS
      <3> f \in Field
        BY <1>5 DEF Assignments, Field
      <3> QED OBVIOUS
    <2> QED BY <1>1, <1>5, <2>1
  <1>6. CASE a[3] \in {0, 254}
    <2>1. \E f \in Field : f[1] = a[1] /\ f[2] = a[2] /\ f[4] = 8
      <3> PICK f : f = <<a[1], "vector", 0, 8>>
        OBVIOUS
      <3> f \in Field /\ a[2] = "vector"
        BY <1>6 DEF Assignments, Field
      <3> QED OBVIOUS
    <2> QED BY <1>2, <1>6, <2>1
  <1>7. CASE a[3] \in {4, 7}
    <2>1. \E f \in Field : f[1] = a[1] /\ f[2] = a[2] /\ f[4] = 3
      <3> PICK f : f = <<a[1], "tx_mode", 8, 3>>
        OBVIOUS
      <3> f \in Field /\ a[2] = "tx_mode"
        BY <1>7 DEF Assignments, Field
      <3> QED OBVIOUS
    <2> QED BY <1>3, <1>7, <2>1
  <1>8. CASE a[3] = 10
    <2>1. \E f \in Field : f[1] = a[1] /\ f[2] = a[2] /\ f[4] = 4
      <3> PICK f : f = <<"timer_dcr", "divisor", 0, 4>>
        OBVIOUS
      <3> f \in Field /\ a[1] = "timer_dcr" /\ a[2] = "divisor"
        BY <1>8 DEF Assignments, Field
      <3> QED OBVIOUS
    <2> QED BY <1>4, <1>8, <2>1
  <1>9. a[3] = 1 \/ a[3] \in {0, 254} \/ a[3] \in {4, 7} \/ a[3] = 10
    BY DEF Assignments
  <1> QED BY <1>5, <1>6, <1>7, <1>8, <1>9

(* What a member's fields are meant to change.                             *)
LEMMA MeantOfMembers ==
  /\ MeantBits(HwOffset["version"]) = 0 .. 7
  /\ MeantBits(HwOffset["svr"]) = {8, 9}
  /\ MeantBits(HwOffset["lvt_timer"]) = {16, 17}
  /\ MeantBits(HwOffset["timer_dcr"]) = 0 .. 3
  /\ \A m \in {"lvt_lint0", "lvt_lint1"} :
       MeantBits(HwOffset[m]) = 0 .. 10 \cup {12, 13, 16}
  /\ "lvt_error" \in Lvts => MeantBits(HwOffset["lvt_error"]) = 0 .. 7 \cup {16}
  /\ "lvt_pc" \in Lvts => MeantBits(HwOffset["lvt_pc"]) = {16}
  BY DEF MeantBits, HwOffset

(* A field lies inside the bits its register is meant to have for it.      *)
LEMMA FieldsMeant ==
  ASSUME NEW f \in Field, f[1] \in {"lvt_error", "lvt_pc"} => f[1] \in Lvts
  PROVE  f[3] .. f[3] + f[4] - 1 \subseteq MeantBits(HwOffset[f[1]])
  <1>1. CASE f[1] = "lvt_error" \/ f[1] = "lvt_pc"
    <2>1. f[1] = "lvt_error" =>
            f[3] .. f[3] + f[4] - 1 \subseteq 0 .. 7 \cup {16}
      BY DEF Field
    <2>2. f[1] = "lvt_pc" => f[3] .. f[3] + f[4] - 1 \subseteq {16}
      BY DEF Field
    <2> QED BY <1>1, <2>1, <2>2, MeantOfMembers
  <1>2. CASE f[1] = "lvt_timer"
    <2>1. f[3] .. f[3] + f[4] - 1 \subseteq {16, 17}
      BY <1>2 DEF Field
    <2> QED BY <1>2, <2>1, MeantOfMembers
  <1>3. CASE f[1] \in {"lvt_lint0", "lvt_lint1"}
    <2>1. f[3] .. f[3] + f[4] - 1 \subseteq 0 .. 10 \cup {12, 13, 16}
      BY <1>3 DEF Field
    <2> QED BY <1>3, <2>1, MeantOfMembers
  <1>4. CASE f[1] = "svr"
    <2>1. f[3] .. f[3] + f[4] - 1 \subseteq {8, 9}
      BY <1>4 DEF Field
    <2> QED BY <1>4, <2>1, MeantOfMembers
  <1>5. CASE f[1] = "timer_dcr"
    <2>1. f[3] .. f[3] + f[4] - 1 \subseteq 0 .. 3
      BY <1>5 DEF Field
    <2> QED BY <1>5, <2>1, MeantOfMembers
  <1>6. CASE f[1] = "version"
    <2>1. f[3] .. f[3] + f[4] - 1 \subseteq 0 .. 7
      BY <1>6 DEF Field
    <2> QED BY <1>6, <2>1, MeantOfMembers
  <1> QED BY <1>1, <1>2, <1>3, <1>4, <1>5, <1>6 DEF Field

(* An assignment to a field changes the bits of the field alone.           *)
LEMMA FieldAssigned ==
  ASSUME NEW f \in Field, NEW v, BitsOf(v) \subseteq 0 .. f[4] - 1, NEW old
  PROVE  LET bits == f[3] .. f[3] + f[4] - 1
         IN  /\ With(old, f[1], f[2], v) \ bits = old \ bits
             /\ With(old, f[1], f[2], v) \cap bits = {b + f[3] : b \in BitsOf(v)}
  <1> PICK from \in Nat, size \in Nat : from = f[3] /\ size = f[4]
    BY DEF Field
  <1> PICK bits : bits = from .. from + size - 1
    OBVIOUS
  <1> PICK written : written = {b + from : b \in BitsOf(v)}
    OBVIOUS
  <1>1. With(old, f[1], f[2], v) = (old \ bits) \cup written
    <2>1. FieldBits(f[1], f[2]) = bits
      BY FieldsPlaced DEF FieldBits
    <2>2. Begin(Fields(f[1]), f[2]) = from
      BY FieldsPlaced
    <2> QED BY <2>1, <2>2 DEF With
  <1>2. written \subseteq bits
    <2> SUFFICES ASSUME NEW b \in BitsOf(v) PROVE b + from \in bits
      OBVIOUS
    <2>1. b \in 0 .. size - 1
      OBVIOUS
    <2> QED BY <2>1
  <1>3. /\ With(old, f[1], f[2], v) \ bits = old \ bits
        /\ With(old, f[1], f[2], v) \cap bits = written
    BY ONLY <1>1, <1>2
  <1> QED BY <1>3

(* What an assignment of the driver does to its register.                  *)
LEMMA Assigned ==
  ASSUME NEW a \in Assignments, NEW old
  PROVE  /\ Offset(a[1]) = HwOffset[a[1]]
         /\ HwOffset[a[1]] # HwOffset["version"]
         /\ With(old, a[1], a[2], a[3]) \ MeantBits(HwOffset[a[1]])
              = old \ MeantBits(HwOffset[a[1]])
         /\ HwMask \in old \/ a[2] = "mask" => HwMask \in With(old, a[1], a[2], a[3])
  <1>1. PICK f \in Field : f[1] = a[1] /\ f[2] = a[2] /\ BitsOf(a[3]) \subseteq 0 .. f[4] - 1
    BY AssignmentsFit
  <1> PICK bits : bits = f[3] .. f[3] + f[4] - 1
    OBVIOUS
  <1> PICK new : new = With(old, a[1], a[2], a[3])
    OBVIOUS
  <1>2. /\ new \ bits = old \ bits
        /\ new \cap bits = {b + f[3] : b \in BitsOf(a[3])}
    <2> PICK v : v = a[3]
      OBVIOUS
    <2>1. BitsOf(v) \subseteq 0 .. f[4] - 1
      BY <1>1
    <2>2. /\ With(old, f[1], f[2], v) \ bits = old \ bits
          /\ With(old, f[1], f[2], v) \cap bits = {b + f[3] : b \in BitsOf(v)}
      BY <2>1, FieldAssigned
    <2>3. new = With(old, f[1], f[2], v)
      BY <1>1
    <2> QED BY <2>2, <2>3
  <1>3. bits \subseteq MeantBits(HwOffset[a[1]])
    <2>1. f[1] \in {"lvt_error", "lvt_pc"} => f[1] \in Lvts
      BY <1>1 DEF Assignments
    <2> QED BY <1>1, <2>1, FieldsMeant
  <1>4. Offset(a[1]) = HwOffset[a[1]]
    <2>1. a[1] \in {"svr", "lvt_timer", "lvt_pc", "lvt_lint0", "lvt_lint1", "lvt_error",
                    "timer_dcr"}
      BY DEF Assignments
    <2> QED BY <2>1, OffsetsMeant
  <1>5. HwOffset[a[1]] # HwOffset["version"]
    BY DEF Assignments, HwOffset
  <1>6. new \ MeantBits(HwOffset[a[1]]) = old \ MeantBits(HwOffset[a[1]])
    BY <1>2, <1>3
  <1>7. a[2] = "mask" => f[3] = 16 /\ f[4] = 1 /\ BitsOf(a[3]) = {0}
    <2>1. a[2] = "mask" => a[3] = 1
      BY DEF Assignments
    <2>2. a[2] = "mask" => f[3] = 16 /\ f[4] = 1
      BY <1>1 DEF Field
    <2> QED BY <2>1, <2>2, BitsOfValues
  <1>8. a[2] = "mask" => HwMask \in new
    <2> SUFFICES ASSUME a[2] = "mask" PROVE 16 \in new
      BY DEF HwMask
    <2>1. 0 \in BitsOf(a[3]) /\ 0 + f[3] = 16
      BY <1>7
    <2> QED BY <1>2, <2>1
  <1>9. a[2] # "mask" => 16 \notin bits
    BY <1>1 DEF Field
  <1>10. HwMask \in old => HwMask \in new
    BY <1>2, <1>8, <1>9 DEF HwMask
  <1> QED BY <1>4, <1>5, <1>6, <1>8, <1>10

---------------------------------------------------------------------------
(* The invariant: the page is the APIC's once it is mapped; what the       *)
(* driver has yet to assign is one of its assignments; while it clears the *)
(* APIC every entry is masked or has its masking still to come, and from   *)
(* then on every entry is masked.                                          *)
Stages == {"boot", "check", "fault", "clear", "enable", "timer", "switch", "done"}
Masking(l)  == <<l, "mask", 1>>
DriverLvts  == Lvts \ {"lvt_thermal_sensor"}
PageOk      == DOMAIN apic = {16 * n : n \in 0 .. 63}
TodoOk      == /\ todo \in Seq(Assignments)
               /\ stage \in {"boot", "check", "fault"} => todo = <<>>
StageOk     == /\ stage \in Stages
               /\ stage = "boot" => ~mapped
               /\ stage \in {"boot", "check", "fault"} => ~present
ClearedSoFar ==
  stage = "clear" =>
    \A l \in DriverLvts : Masked(l) \/ \E i \in 1 .. Len(todo) : todo[i] = Masking(l)
Cleared ==
  present /\ stage \in {"enable", "timer", "switch", "done"} => \A l \in DriverLvts : Masked(l)
ApicInv == PageOk /\ TodoOk /\ StageOk /\ ClearedSoFar /\ Cleared

(* Before arch_specific_init() nothing of the APIC is mapped.              *)
LEMMA ApicInitially == Init => ApicInv
  <1> SUFFICES ASSUME Init PROVE ApicInv
    OBVIOUS
  <1>1. stage = "boot" /\ todo = <<>> /\ ~mapped /\ ~present /\ apic = Unmapped
    BY DEF Init
  <1>2. PageOk
    BY <1>1 DEF PageOk, Unmapped
  <1> QED BY <1>1, <1>2 DEF ApicInv, TodoOk, StageOk, ClearedSoFar, Cleared, Stages

(* Every register of the structures is on the page.                        *)
LEMMA OnPage ==
  \A m \in {"version", "svr", "lvt_timer", "lvt_pc", "lvt_lint0", "lvt_lint1", "lvt_error",
            "timer_dcr"} : HwOffset[m] \in {16 * n : n \in 0 .. 63}
  <1>1. /\ 48 = 16 * 3 /\ 240 = 16 * 15 /\ 800 = 16 * 50 /\ 832 = 16 * 52 /\ 848 = 16 * 53
        /\ 864 = 16 * 54 /\ 880 = 16 * 55 /\ 992 = 16 * 62
    OBVIOUS
  <1>2. \A k : k \in {48, 240, 800, 832, 848, 864, 880, 992} => k \in {16 * n : n \in 0 .. 63}
    BY <1>1
  <1>3. \A m \in {"version", "svr", "lvt_timer", "lvt_pc", "lvt_lint0", "lvt_lint1",
                  "lvt_error", "timer_dcr"} :
          HwOffset[m] \in {48, 240, 800, 832, 848, 864, 880, 992}
    BY DEF HwOffset
  <1> QED BY <1>2, <1>3

(* The number of entries is read from bits of the version register that    *)
(* the driver never writes.                                                *)
LEMMA EntriesStay ==
  ASSUME apic'[HwOffset["version"]] \ (0 .. 7) = apic[HwOffset["version"]] \ (0 .. 7)
  PROVE  GetMaxLvt' = GetMaxLvt /\ DriverLvts' = DriverLvts /\ Assignments' = Assignments
  <1>1. FieldBits("version", "max_lvt") = 16 .. 23
    <2>1. Fields("version") = VersionFields
      BY DEF Fields
    <2> QED BY <2>1, VersionFieldsSums DEF FieldBits
  <1>2. apic'[Offset("version")] \cap FieldBits("version", "max_lvt")
          = apic[Offset("version")] \cap FieldBits("version", "max_lvt")
    <2>1. \A b \in 16 .. 23 : b \notin 0 .. 7
      OBVIOUS
    <2> QED BY <1>1, <2>1, OffsetsMeant
  <1>3. GetMaxLvt' = GetMaxLvt
    BY <1>2 DEF GetMaxLvt, Get
  <1>4. Lvts' = Lvts
    BY <1>3 DEF Lvts
  <1> QED BY <1>3, <1>4 DEF Assignments, DriverLvts

(* One assignment of the driver.                                           *)
LEMMA AssignChanges ==
  ASSUME ApicInv, Assign
  PROVE  /\ todo # <<>> /\ Head(todo) \in Assignments /\ todo' = Tail(todo)
         /\ PageOk'
         /\ \A o \in DOMAIN apic : apic'[o] \ MeantBits(o) = apic[o] \ MeantBits(o)
         /\ GetMaxLvt' = GetMaxLvt /\ DriverLvts' = DriverLvts /\ Assignments' = Assignments
         /\ \A l \in DriverLvts : Masked(l) \/ Head(todo) = Masking(l) => Masked(l)'
  <1> PICK a : a = todo[1]
    OBVIOUS
  <1>1. todo # <<>> /\ todo \in Seq(Assignments) /\ todo' = Tail(todo) /\ PageOk
    BY DEF ApicInv, TodoOk, Assign
  <1>2. a \in Assignments /\ Head(todo) = a
    BY <1>1
  <1> PICK o : o = HwOffset[a[1]]
    OBVIOUS
  <1>3. /\ Offset(a[1]) = o /\ o # HwOffset["version"]
        /\ With(apic[o], a[1], a[2], a[3]) \ MeantBits(o) = apic[o] \ MeantBits(o)
        /\ HwMask \in apic[o] \/ a[2] = "mask" => HwMask \in With(apic[o], a[1], a[2], a[3])
    BY <1>2, Assigned
  <1>4. apic' = [apic EXCEPT ![o] = With(@, a[1], a[2], a[3])]
    BY <1>3 DEF Assign
  <1>5. o \in DOMAIN apic
    <2>1. a[1] \in {"svr", "lvt_timer", "lvt_pc", "lvt_lint0", "lvt_lint1", "lvt_error",
                    "timer_dcr"}
      BY <1>2 DEF Assignments
    <2> QED BY <1>1, <2>1, OnPage DEF PageOk
  <1>6. /\ DOMAIN apic' = DOMAIN apic
        /\ apic'[o] = With(apic[o], a[1], a[2], a[3])
        /\ \A p \in DOMAIN apic : p # o => apic'[p] = apic[p]
    BY <1>4, <1>5
  <1>7. PageOk'
    BY <1>1, <1>6 DEF PageOk
  <1>8. \A p \in DOMAIN apic : apic'[p] \ MeantBits(p) = apic[p] \ MeantBits(p)
    BY <1>3, <1>6
  <1>9. GetMaxLvt' = GetMaxLvt /\ DriverLvts' = DriverLvts /\ Assignments' = Assignments
    <2>1. HwOffset["version"] \in DOMAIN apic
      BY <1>1, OnPage DEF PageOk
    <2>2. apic'[HwOffset["version"]] = apic[HwOffset["version"]]
      BY <1>3, <1>6, <2>1
    <2> QED BY <2>2, EntriesStay
  <1>10. ASSUME NEW l \in DriverLvts, Masked(l) \/ a = Masking(l)
         PROVE  Masked(l)'
    <2>1. HwOffset[l] \in DOMAIN apic
      <3>1. l \in {"lvt_timer", "lvt_lint0", "lvt_lint1", "lvt_error", "lvt_pc"}
        BY DEF Lvts, DriverLvts
      <3> QED BY <1>1, <3>1, OnPage DEF PageOk
    <2>2. CASE HwOffset[l] = o
      <3>1. HwMask \in apic[o] \/ a[2] = "mask"
        BY <1>10, <2>2 DEF Masked, Masking
      <3> QED BY <1>3, <1>6, <2>2, <3>1 DEF Masked
    <2>3. CASE HwOffset[l] # o
      <3>1. a # Masking(l)
        <4> SUFFICES ASSUME a = Masking(l) PROVE FALSE
          OBVIOUS
        <4>1. a[1] = l
          BY DEF Masking
        <4> QED BY <2>3, <4>1
      <3> QED BY <1>6, <1>10, <2>1, <2>3, <3>1 DEF Masked
    <2> QED BY <2>2, <2>3
  <1> QED BY <1>1, <1>2, <1>7, <1>8, <1>9, <1>10

(* local_apic_clear() masks every entry the APIC has.                      *)
LEMMA ClearsAll ==
  /\ LocalApicClear \in Seq(Assignments)
  /\ \A l \in DriverLvts : \E i \in 1 .. Len(LocalApicClear) : LocalApicClear[i] = Masking(l)
  <1> PICK A : A = Assignments
    OBVIOUS
  <1> DEFINE e == IF GetMaxLvt >= 3
                  THEN <<Set("lvt_error", "vector", 254), Set("lvt_error", "mask", 1)>> ELSE <<>>
             m == <<Set("lvt_timer", "mask", 1), Set("lvt_lint0", "mask", 1),
                    Set("lvt_lint1", "mask", 1)>>
             p == IF GetMaxLvt >= 4 THEN <<Set("lvt_pc", "mask", 1)>> ELSE <<>>
  <1>1. LocalApicClear = e \o m \o p
    BY DEF LocalApicClear
  <1>2. e \in Seq(A) /\ ("lvt_error" \in Lvts => Len(e) = 2 /\ e[2] = Masking("lvt_error"))
    <2>1. CASE GetMaxLvt >= 3
      <3>1. "lvt_error" \in Lvts
        BY <2>1 DEF Lvts
      <3>2. Set("lvt_error", "vector", 254) \in A /\ Set("lvt_error", "mask", 1) \in A
        BY <3>1 DEF Assignments, Set
      <3> QED BY <2>1, <3>2 DEF Set, Masking
    <2>2. CASE ~(GetMaxLvt >= 3)
      <3>1. "lvt_error" \notin Lvts
        BY <2>2 DEF Lvts
      <3> QED BY <2>2, <3>1
    <2> QED BY <2>1, <2>2
  <1>3. /\ m \in Seq(A) /\ Len(m) = 3 /\ m[1] = Masking("lvt_timer")
        /\ m[2] = Masking("lvt_lint0") /\ m[3] = Masking("lvt_lint1")
    <2>1. /\ Set("lvt_timer", "mask", 1) \in A /\ Set("lvt_lint0", "mask", 1) \in A
          /\ Set("lvt_lint1", "mask", 1) \in A
      BY DEF Assignments, Set
    <2> QED BY <2>1 DEF Set, Masking
  <1>4. p \in Seq(A) /\ ("lvt_pc" \in Lvts => Len(p) = 1 /\ p[1] = Masking("lvt_pc"))
    <2>1. CASE GetMaxLvt >= 4
      <3>1. "lvt_pc" \in Lvts
        BY <2>1 DEF Lvts
      <3>2. Set("lvt_pc", "mask", 1) \in A
        BY <3>1 DEF Assignments, Set
      <3> QED BY <2>1, <3>2 DEF Set, Masking
    <2>2. CASE ~(GetMaxLvt >= 4)
      <3>1. "lvt_pc" \notin Lvts
        BY <2>2 DEF Lvts
      <3> QED BY <2>2, <3>1
    <2> QED BY <2>1, <2>2
  <1> HIDE DEF e, m, p
  <1> PICK x \in Seq(A), y \in Seq(A), z \in Seq(A) : x = e /\ y = m /\ z = p
    BY <1>2, <1>3, <1>4
  <1> PICK k \in Nat, n \in Nat : k = Len(x) /\ n = Len(z)
    OBVIOUS
  <1> PICK t : t = x \o y
    OBVIOUS
  <1> PICK s : s = t \o z
    OBVIOUS
  <1>5. /\ t \in Seq(A) /\ Len(t) = k + 3 /\ \A i \in 1 .. k : t[i] = x[i]
        /\ \A i \in 1 .. 3 : t[k + i] = y[i]
    <2>1. Len(y) = 3
      BY <1>3
    <2>2. /\ x \o y \in Seq(A) /\ Len(x \o y) = Len(x) + Len(y)
          /\ \A i \in 1 .. Len(x) + Len(y) :
               (x \o y)[i] = IF i <= Len(x) THEN x[i] ELSE y[i - Len(x)]
      BY ONLY x \in Seq(A), y \in Seq(A), ConcatProperties
    <2>3. \A i \in 1 .. k + 3 : t[i] = IF i <= k THEN x[i] ELSE y[i - k]
      BY ONLY <2>1, <2>2, t = x \o y, k = Len(x)
    <2>4. \A i \in 1 .. 3 : t[k + i] = y[i]
      <3> SUFFICES ASSUME NEW i \in 1 .. 3 PROVE t[k + i] = y[i]
        OBVIOUS
      <3> PICK j \in 1 .. k + 3 : j = k + i
        BY ONLY k \in Nat, i \in 1 .. 3
      <3>1. ~(j <= k) /\ j - k = i
        BY ONLY k \in Nat, i \in 1 .. 3, j = k + i
      <3> QED BY ONLY <2>3, <3>1, j = k + i, j \in 1 .. k + 3
    <2>5. \A i \in 1 .. k : t[i] = x[i]
      BY ONLY <2>3, k \in Nat
    <2> QED BY ONLY <2>1, <2>2, <2>4, <2>5, t = x \o y, k = Len(x)
  <1>6. /\ s \in Seq(A) /\ Len(s) = k + 3 + n /\ \A i \in 1 .. k + 3 : s[i] = t[i]
        /\ \A i \in 1 .. n : s[k + 3 + i] = z[i]
    <2>1. t \in Seq(A) /\ Len(t) = k + 3
      BY <1>5
    <2>2. /\ t \o z \in Seq(A) /\ Len(t \o z) = Len(t) + Len(z)
          /\ \A i \in 1 .. Len(t) + Len(z) :
               (t \o z)[i] = IF i <= Len(t) THEN t[i] ELSE z[i - Len(t)]
      BY ONLY <2>1, z \in Seq(A), ConcatProperties
    <2>3. \A i \in 1 .. k + 3 + n : s[i] = IF i <= k + 3 THEN t[i] ELSE z[i - (k + 3)]
      BY ONLY <2>1, <2>2, s = t \o z, n = Len(z)
    <2>4. \A i \in 1 .. n : s[k + 3 + i] = z[i]
      <3> SUFFICES ASSUME NEW i \in 1 .. n PROVE s[k + 3 + i] = z[i]
        OBVIOUS
      <3> PICK j \in 1 .. k + 3 + n : j = k + 3 + i
        BY ONLY k \in Nat, n \in Nat, i \in 1 .. n
      <3>1. ~(j <= k + 3) /\ j - (k + 3) = i
        BY ONLY k \in Nat, n \in Nat, i \in 1 .. n, j = k + 3 + i
      <3> QED BY ONLY <2>3, <3>1, j = k + 3 + i, j \in 1 .. k + 3 + n
    <2>5. \A i \in 1 .. k + 3 : s[i] = t[i]
      <3>1. \A i \in 1 .. k + 3 : i \in 1 .. k + 3 + n /\ i <= k + 3
        BY ONLY k \in Nat, n \in Nat
      <3> QED BY ONLY <2>3, <3>1
    <2> QED BY ONLY <2>1, <2>2, <2>4, <2>5, s = t \o z, n = Len(z)
  <1>7. /\ \A i \in 1 .. k : i \in 1 .. Len(s) /\ s[i] = x[i]
        /\ \A i \in 1 .. 3 : k + i \in 1 .. Len(s) /\ s[k + i] = y[i]
        /\ \A i \in 1 .. n : k + 3 + i \in 1 .. Len(s) /\ s[k + 3 + i] = z[i]
    BY ONLY <1>5, <1>6, k \in Nat, n \in Nat
  <1>8. ASSUME NEW l \in DriverLvts
        PROVE  \E i \in 1 .. Len(s) : s[i] = Masking(l)
    <2>1. CASE l = "lvt_error"
      <3>1. "lvt_error" \in Lvts
        BY <1>8, <2>1 DEF DriverLvts
      <3>2. 2 \in 1 .. k /\ x[2] = Masking(l)
        <4>1. Len(e) = 2 /\ e[2] = Masking("lvt_error")
          BY ONLY <1>2, <3>1
        <4> QED BY ONLY <2>1, <4>1, x = e, k = Len(x)
      <3>3. 2 \in 1 .. Len(s) /\ s[2] = x[2]
        BY ONLY <1>7, <3>2
      <3> QED BY ONLY <3>2, <3>3
    <2>2. CASE l = "lvt_pc"
      <3>1. "lvt_pc" \in Lvts
        BY <1>8, <2>2 DEF DriverLvts
      <3>2. 1 \in 1 .. n /\ z[1] = Masking(l)
        <4>1. Len(p) = 1 /\ p[1] = Masking("lvt_pc")
          BY ONLY <1>4, <3>1
        <4> QED BY ONLY <2>2, <4>1, z = p, n = Len(z)
      <3>3. k + 3 + 1 \in 1 .. Len(s) /\ s[k + 3 + 1] = z[1]
        BY ONLY <1>7, <3>2
      <3> QED BY ONLY <3>2, <3>3
    <2>3. CASE l \in {"lvt_timer", "lvt_lint0", "lvt_lint1"}
      <3>1. PICK i \in 1 .. 3 : y[i] = Masking(l)
        BY <1>3, <2>3
      <3>2. k + i \in 1 .. Len(s) /\ s[k + i] = y[i]
        BY ONLY <1>7, i \in 1 .. 3
      <3> QED BY ONLY <3>1, <3>2
    <2> QED BY <2>1, <2>2, <2>3 DEF Lvts, DriverLvts
  <1>9. LocalApicClear = s
    BY <1>1
  <1> QED BY <1>6, <1>8, <1>9

(* So are the other lists of the driver lists of its assignments.          *)
LEMMA ListsOfAssignments ==
  EnableApic \o Lints \in Seq(Assignments) /\ TimerInit \in Seq(Assignments)
  <1> PICK A : A = Assignments
    OBVIOUS
  <1>1. EnableApic \in Seq(A)
    <2>1. Set("svr", "apic_enabled", 1) \in A /\ Set("svr", "cpu_focus", 1) \in A
      BY DEF Assignments, Set
    <2> QED BY <2>1 DEF EnableApic
  <1>2. Lints \in Seq(A)
    <2> PICK a, b, c, d, e, f, g, h :
          /\ a = Set("lvt_lint0", "vector", 0) /\ b = Set("lvt_lint1", "vector", 0)
          /\ c = Set("lvt_lint0", "tx_mode", 7) /\ d = Set("lvt_lint1", "tx_mode", 4)
          /\ e = Set("lvt_lint0", "tx_status", 1) /\ f = Set("lvt_lint0", "polarity", 1)
          /\ g = Set("lvt_lint1", "tx_status", 1) /\ h = Set("lvt_lint1", "polarity", 1)
      OBVIOUS
    <2>1. a \in A /\ b \in A /\ c \in A /\ d \in A /\ e \in A /\ f \in A /\ g \in A /\ h \in A
      BY DEF Assignments, Set
    <2>2. Lints = <<a, b, c, d, e, f, g, h>>
      BY DEF Lints
    <2> QED BY <2>1, <2>2
  <1>3. TimerInit \in Seq(A)
    <2> PICK a, b, c : /\ a = Set("timer_dcr", "divisor", 10)
                       /\ b = Set("lvt_timer", "timer_mode", 1)
                       /\ c = Set("lvt_timer", "mask", 1)
      OBVIOUS
    <2>1. a \in A /\ b \in A /\ c \in A
      BY DEF Assignments, Set
    <2>2. TimerDivisor(128) = 10
      BY DEF TimerDivisor
    <2>3. TimerInit = <<a, b>> \o <<c>>
      BY <2>2 DEF TimerInit, TimerEnable
    <2> QED BY <2>1, <2>3
  <1> QED BY <1>1, <1>2, <1>3

(* The bits an access of the driver may change, and the entries it relies  *)
(* on: what every step leaves as it was once the page is mapped.           *)
BitsKept ==
  mapped => \A o \in DOMAIN apic : apic'[o] \ MeantBits(o) = apic[o] \ MeantBits(o)

(* boot.S and a stutter leave the APIC alone.                              *)
LEMMA UntouchedKeeps ==
  ASSUME ApicInv, UNCHANGED <<apicVars, stage, mapped, present>>
  PROVE  ApicInv' /\ BitsKept
  <1>1. apic' = apic /\ todo' = todo /\ stage' = stage /\ mapped' = mapped /\ present' = present
    BY DEF apicVars
  <1>2. GetMaxLvt' = GetMaxLvt
    BY <1>1 DEF GetMaxLvt, Get
  <1>3. Lvts' = Lvts /\ DriverLvts' = DriverLvts
    BY <1>2 DEF Lvts, DriverLvts
  <1>4. Assignments' = Assignments
    BY <1>3 DEF Assignments
  <1>5. \A l : Masked(l)' = Masked(l)
    BY <1>1 DEF Masked
  <1>6. TodoOk'
    BY <1>1, <1>4 DEF ApicInv, TodoOk
  <1>7. ClearedSoFar' /\ Cleared'
    BY <1>1, <1>3, <1>5 DEF ApicInv, ClearedSoFar, Cleared
  <1> QED BY <1>1, <1>6, <1>7 DEF ApicInv, PageOk, StageOk, BitsKept

(* __map_apic_page() finds what the firmware left, or maps nothing.        *)
LEMMA MapKeeps ==
  ASSUME ApicInv, MapApicPage
  PROVE  ApicInv' /\ BitsKept
  <1>1. /\ stage = "boot" /\ ~mapped /\ ~present /\ todo = <<>>
        /\ stage' = "check" /\ todo' = todo /\ present' = present
        /\ apic' \in FirmwarePages \cup {Unmapped}
    BY DEF ApicInv, StageOk, TodoOk, MapApicPage
  <1>2. PageOk'
    BY <1>1 DEF PageOk, FirmwarePages, Unmapped
  <1>3. TodoOk'
    BY <1>1 DEF TodoOk
  <1> QED BY <1>1, <1>2, <1>3
       DEF ApicInv, StageOk, Stages, ClearedSoFar, Cleared, BitsKept

(* An access to a page that was not mapped goes no further.                *)
LEMMA FaultKeeps ==
  ASSUME ApicInv, PageFault
  PROVE  ApicInv' /\ BitsKept
  <1>1. /\ stage = "check" /\ ~mapped /\ ~present /\ todo = <<>>
        /\ stage' = "fault" /\ todo' = todo /\ present' = present /\ apic' = apic
    BY DEF ApicInv, StageOk, TodoOk, PageFault, apicVars
  <1>2. TodoOk'
    BY <1>1 DEF TodoOk
  <1> QED BY <1>1, <1>2
       DEF ApicInv, PageOk, StageOk, Stages, ClearedSoFar, Cleared, BitsKept

(* __local_apic_check() writes the version alone.                          *)
LEMMA CheckKeepsApic ==
  ASSUME ApicInv, CheckApic
  PROVE  ApicInv' /\ BitsKept
  <1> PICK o : o = HwOffset["version"]
    OBVIOUS
  <1>1. /\ stage = "check" /\ ~present /\ PageOk /\ present' = CheckPassed
        /\ stage' = (IF CheckPassed THEN "clear" ELSE "timer")
        /\ todo' = (IF CheckPassed THEN LocalApicClear ELSE TimerInit)
        /\ mapped' = mapped
    BY DEF ApicInv, StageOk, CheckApic
  <1>2. /\ apic' = [apic EXCEPT ![o] = IF ro THEN @ ELSE With(@, "version", "version", 0)]
        /\ o \in DOMAIN apic
    BY <1>1, OffsetsMeant, OnPage DEF CheckApic, CheckWrite, PageOk
  <1>3. /\ DOMAIN apic' = DOMAIN apic
        /\ apic'[o] = IF ro THEN apic[o] ELSE With(apic[o], "version", "version", 0)
        /\ \A p \in DOMAIN apic : p # o => apic'[p] = apic[p]
    BY <1>2
  <1>4. apic'[o] \ (0 .. 7) = apic[o] \ (0 .. 7)
    <2> PICK f : f = <<"version", "version", 0, 8>>
      OBVIOUS
    <2>1. f \in Field
      BY DEF Field
    <2>2. f[1] = "version" /\ f[2] = "version" /\ f[3] .. f[3] + f[4] - 1 = 0 .. 7
      OBVIOUS
    <2> PICK v, old : v = 0 /\ old = apic[o]
      OBVIOUS
    <2>3. BitsOf(v) \subseteq 0 .. f[4] - 1
      BY BitsOfValues
    <2> PICK bits : bits = f[3] .. f[3] + f[4] - 1
      OBVIOUS
    <2>4. With(old, f[1], f[2], v) \ bits = old \ bits
      BY ONLY <2>1, <2>3, FieldAssigned, bits = f[3] .. f[3] + f[4] - 1
    <2>5. With(apic[o], "version", "version", 0) \ (0 .. 7) = apic[o] \ (0 .. 7)
      BY <2>2, <2>4
    <2> QED BY <1>3, <2>5
  <1>5. DriverLvts' = DriverLvts /\ Assignments' = Assignments
    BY <1>4, EntriesStay
  <1>6. BitsKept
    <2>1. apic'[o] \ MeantBits(o) = apic[o] \ MeantBits(o)
      BY <1>4, MeantOfMembers
    <2> QED BY <1>3, <2>1 DEF BitsKept
  <1>7. PageOk'
    BY <1>1, <1>3 DEF PageOk
  <1>8. TodoOk'
    BY <1>1, <1>5, ClearsAll, ListsOfAssignments DEF TodoOk
  <1>9. ClearedSoFar'
    <2> SUFFICES ASSUME stage' = "clear", NEW l \in DriverLvts'
                 PROVE  \E i \in 1 .. Len(todo') : todo'[i] = Masking(l)
      BY DEF ClearedSoFar, Masking
    <2>1. CheckPassed /\ todo' = LocalApicClear
      BY <1>1
    <2> QED BY <1>5, <2>1, ClearsAll
  <1>10. Cleared' /\ StageOk'
    BY <1>1 DEF Cleared, StageOk, Stages
  <1> QED BY <1>6, <1>7, <1>8, <1>9, <1>10 DEF ApicInv

(* A masking that is done leaves the list and shows in the register.       *)
LEMMA AssignKeepsApic ==
  ASSUME ApicInv, Assign
  PROVE  ApicInv' /\ BitsKept
  <1>1. /\ todo # <<>> /\ Head(todo) \in Assignments /\ todo' = Tail(todo)
        /\ PageOk'
        /\ \A o \in DOMAIN apic : apic'[o] \ MeantBits(o) = apic[o] \ MeantBits(o)
        /\ DriverLvts' = DriverLvts /\ Assignments' = Assignments
        /\ \A l \in DriverLvts : Masked(l) \/ Head(todo) = Masking(l) => Masked(l)'
    BY AssignChanges
  <1>2. stage' = stage /\ mapped' = mapped /\ present' = present
    BY DEF Assign
  <1>3. todo \in Seq(Assignments) /\ stage \notin {"boot", "check", "fault"}
    BY <1>1 DEF ApicInv, TodoOk
  <1>4. TodoOk'
    <2>1. Tail(todo) \in Seq(Assignments)
      BY <1>1, <1>3
    <2> QED BY <1>1, <1>2, <1>3, <2>1 DEF TodoOk
  <1>5. ClearedSoFar'
    <2> SUFFICES ASSUME stage' = "clear", NEW l \in DriverLvts', ~Masked(l)'
                 PROVE  \E i \in 1 .. Len(todo') : todo'[i] = Masking(l)
      BY DEF ClearedSoFar, Masking
    <2>1. ~Masked(l) /\ Head(todo) # Masking(l) /\ l \in DriverLvts
      BY <1>1
    <2>2. PICK i \in 1 .. Len(todo) : todo[i] = Masking(l)
      BY <1>2, <2>1 DEF ApicInv, ClearedSoFar
    <2>3. i # 1
      BY <1>1, <1>3, <2>1, <2>2
    <2> PICK j : j = i - 1
      OBVIOUS
    <2>4. j \in 1 .. Len(Tail(todo)) /\ Tail(todo)[j] = todo[i]
      <3>1. j \in Nat \ {0} /\ j + 1 = i /\ Len(todo) \in Nat
        BY <1>3, <2>3
      <3>2. Len(Tail(todo)) = Len(todo) - 1
        BY <1>1, <1>3
      <3>3. j \in 1 .. Len(todo) - 1
        BY <3>1
      <3> QED BY <1>1, <1>3, <3>1, <3>2, <3>3
    <2> QED BY <1>1, <2>2, <2>4
  <1>6. Cleared'
    BY <1>1, <1>2 DEF ApicInv, Cleared
  <1>7. StageOk' /\ BitsKept
    BY <1>1, <1>2 DEF ApicInv, StageOk, BitsKept
  <1> QED BY <1>1, <1>4, <1>5, <1>6, <1>7 DEF ApicInv

(* The driver goes on to its next function.                                *)
LEMMA AfterKeeps ==
  ASSUME ApicInv, Enable \/ InitTimer \/ BspSwitch
  PROVE  ApicInv' /\ BitsKept
  <1>1. /\ apic' = apic /\ mapped' = mapped /\ present' = present /\ todo = <<>>
        /\ \/ stage = "clear" /\ stage' = "enable" /\ todo' = EnableApic \o Lints
           \/ stage = "enable" /\ stage' = "timer" /\ todo' = TimerInit
           \/ stage = "timer" /\ stage' = "switch" /\ todo' = <<>>
           \/ stage = "switch" /\ stage' = "done" /\ todo' = <<>>
    BY DEF Enable, InitTimer, BspSwitch, After
  <1>2. GetMaxLvt' = GetMaxLvt
    BY <1>1 DEF GetMaxLvt, Get
  <1>3. Lvts' = Lvts /\ DriverLvts' = DriverLvts
    BY <1>2 DEF Lvts, DriverLvts
  <1>4. Assignments' = Assignments
    BY <1>3 DEF Assignments
  <1>5. \A l : Masked(l)' = Masked(l)
    BY <1>1 DEF Masked
  <1>6. TodoOk'
    <2> PICK A : A = Assignments
      OBVIOUS
    <2> PICK e, t : e = EnableApic \o Lints /\ t = TimerInit
      OBVIOUS
    <2>0. e \in Seq(A) /\ t \in Seq(A)
      BY ListsOfAssignments
    <2>1. todo' \in Seq(A)
      <3>1. todo' = e \/ todo' = t \/ todo' = <<>>
        BY <1>1
      <3>2. <<>> \in Seq(A)
        OBVIOUS
      <3> QED BY ONLY <2>0, <3>1, <3>2, Zenon
    <2>2. stage' \notin {"boot", "check", "fault"}
      BY <1>1
    <2> QED BY <1>4, <2>1, <2>2 DEF TodoOk
  <1>7. Cleared' /\ ClearedSoFar'
    BY <1>1, <1>3, <1>5 DEF ApicInv, Cleared, ClearedSoFar
  <1>8. StageOk' /\ PageOk' /\ BitsKept
    BY <1>1 DEF ApicInv, StageOk, Stages, PageOk, BitsKept
  <1> QED BY <1>6, <1>7, <1>8 DEF ApicInv

(* Every step keeps the invariant and the bits beside the fields.          *)
LEMMA ApicStepKeeps ==
  ASSUME ApicInv, [Next]_vars
  PROVE  ApicInv' /\ BitsKept
  <1>1. Boot \/ UNCHANGED vars => UNCHANGED <<apicVars, stage, mapped, present>>
    BY DEF Boot, vars
  <1>2. CASE Boot \/ UNCHANGED vars
    BY <1>1, <1>2, UntouchedKeeps
  <1>3. CASE MapApicPage
    BY <1>3, MapKeeps
  <1>4. CASE PageFault
    BY <1>4, FaultKeeps
  <1>5. CASE CheckApic
    BY <1>5, CheckKeepsApic
  <1>6. CASE Assign
    BY <1>6, AssignKeepsApic
  <1>7. CASE Enable \/ InitTimer \/ BspSwitch
    BY <1>7, AfterKeeps
  <1> QED BY <1>2, <1>3, <1>4, <1>5, <1>6, <1>7 DEF Next

(* The invariant holds in every state.                                     *)
LEMMA ApicInvariant == Spec => []ApicInv
  BY ApicInitially, ApicStepKeeps, PTL DEF Spec

(* In an APIC that the driver has cleared every vector table entry but the *)
(* thermal sensor's is masked, whatever firmware left in its registers.    *)
THEOREM ClearedQuiet == Spec => []QuietWhenCleared
  <1>1. ApicInv => QuietWhenCleared
    BY DEF ApicInv, StageOk, Stages, Cleared, DriverLvts, QuietWhenCleared, Delivering, Quiet
  <1> QED BY <1>1, ApicInvariant, PTL

(* No assignment through the structures of apic.h reaches a bit or an      *)
(* entry that it does not mean.                                            *)
THEOREM StructuresMatch == Spec => RegistersAsMeant
  <1>1. ASSUME ApicInv, [Next]_vars
        PROVE  [mapped => \A o \in DOMAIN apic :
                            apic'[o] \ MeantBits(o) = apic[o] \ MeantBits(o)]_apic
    BY <1>1, ApicStepKeeps DEF BitsKept
  <1> QED BY <1>1, ApicInvariant, PTL DEF Spec, RegistersAsMeant
=============================================================================
