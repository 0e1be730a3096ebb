-------------------------------- MODULE Boot --------------------------------
(***************************************************************************)
(* eza/amd64/boot.S, from the entry by the loader to main_routine() or to  *)
(* the message of error_halt: the checks of the processor, the switch to   *)
(* long mode, and the loops that copy the loader's modules and memory map  *)
(* to init and e820table.                                                  *)
(*                                                                         *)
(* The loader's memory map is a function from byte offsets to the records  *)
(* that start there; any other offset reads as Garbage.                    *)
(***************************************************************************)
EXTENDS Integers, Sequences, FiniteSets, SequencesExt

CONSTANTS
  Loaders,      (* what the loader may pass                                *)
  MaxRecords,   (* E820MAP_E820_MAXRECORDS                                 *)
  MaxTasks,     (* PROFILE_INIT_TASK                                       *)
  Cursors,      (* values of the hardware's cursor at boot                 *)
  KernelHalf,   (* 0xffff800000000000                                      *)
  Garbage

ASSUME CursorsAssumption == Cursors \subseteq Nat   (* what two bytes read as *)
ASSUME TablesAssumption  == {MaxRecords, MaxTasks, KernelHalf} \subseteq Nat

(* The features in the order of the checks, with the lengths of the        *)
(* messages about them.                                                    *)
Features   == <<"extendedCpuid", "longMode", "noExecute", "fxsave", "sse2">>
MessageLen == <<44, 46, 46, 59, 43>>
ScreenCells == 80 * 25
LastLine    == 1920

VARIABLES
  at,        (* where boot.S is                                            *)
  step,      (* the feature to check, or a loop's number of rounds         *)
  cpu,       (* features of the processor                                  *)
  loader,    (* grub_eax and grub_ebx                                      *)
  mode,      (* bits of CR4, EFER and CR0 set, and CR3 loaded              *)
  left,      (* %ecx                                                       *)
  src,       (* %esi, from the start of what is read                       *)
  init,      (* init: c and task_                                          *)
  e820count, e820table,
  overrun,   (* a record was written behind the end of a table             *)
  cursor,    (* the hardware's cursor, once error_halt has read it         *)
  message    (* cells error_halt has written                               *)

bootVars == <<at, step, cpu, loader, mode, left, src, init, e820count,
              e820table, overrun, cursor, message>>

Zero == [start |-> 0, size |-> 0]
BootInit ==
  /\ at = "check" /\ step = 1
  /\ cpu \in SUBSET Range(Features) /\ loader \in Loaders
  /\ mode = {} /\ left = 0 /\ src = 0
  /\ init = [c |-> 0, task_ |-> [i \in 1 .. MaxTasks |-> Zero]]
  /\ e820count = 255 /\ e820table = [i \in 1 .. MaxRecords |-> Garbage]
  /\ overrun = FALSE /\ cursor = 0 /\ message = {}

Goto(a, b) == at = a /\ at' = b
Tables     == <<init, e820count, e820table, overrun>>
Machine    == <<cpu, loader, mode, cursor, message>>

(* cpuid, bt, jc *)
NextCheck == IF step = Len(Features) THEN "pae" ELSE "check"
CheckFeature ==
  /\ at = "check" /\ Features[step] \in cpu
  /\ at' = NextCheck /\ step' = step + 1
  /\ UNCHANGED <<Machine, left, src, Tables>>

(* error_halt: the message begins at the cursor, or on the last line *)
CursorOk_Unchecked(c) == c
CursorOk(c) == IF c <= LastLine THEN c ELSE LastLine
ErrorHalt ==
  /\ Goto("check", "halted") /\ Features[step] \notin cpu
  /\ \E c \in Cursors :
       /\ message' = CursorOk(c) .. CursorOk(c) + MessageLen[step] - 1
       /\ cursor' = CursorOk(c) + MessageLen[step]
  /\ UNCHANGED <<step, cpu, loader, mode, left, src, Tables>>

(* CR4.PAE, CR3, EFER.LME, CR0.PG.  With LME and without PAE, setting PG   *)
(* is a fault, and every fault here a reset.                               *)
ModeStep_PgEarly ==
  [pae |-> <<"PAE", "pg">>, pg |-> <<"PG", "cr3">>, cr3 |-> <<"CR3", "lme">>, lme |-> <<"LME", "jump">>]
ModeStep ==
  [pae |-> <<"PAE", "cr3">>, cr3 |-> <<"CR3", "lme">>, lme |-> <<"LME", "pg">>, pg |-> <<"PG", "jump">>]
EnterLongMode ==
  /\ at \in DOMAIN ModeStep
  /\ mode' = mode \cup {ModeStep[at][1]} /\ at' = ModeStep[at][2]
  /\ UNCHANGED <<step, cpu, loader, left, src, cursor, message, Tables>>

(* start64: without the loader's magic number there is no memory map *)
InvalidBoot ==
  /\ ~loader.magic /\ Goto("jump", "main")
  /\ e820count' = 0
  /\ UNCHANGED <<Machine, step, left, src, init, e820table, overrun>>
ModsValid ==
  /\ loader.magic /\ Goto("jump", "mods")
  /\ left' = (IF 3 \in loader.flags THEN Len(loader.mods) ELSE 0)
  /\ init' = [init EXCEPT !.c = left'] /\ step' = 1
  /\ UNCHANGED <<Machine, src, e820count, e820table, overrun>>

(* mods_loop: one module a round *)
Module(m) == [start |-> KernelHalf + m.start, size |-> m.end - m.start]
ModsLoop ==
  /\ left > 0 /\ Goto("mods", "mods")
  /\ IF step <= MaxTasks
     THEN init' = [init EXCEPT !.task_[step] = Module(loader.mods[step])] /\ UNCHANGED overrun
     ELSE overrun' = TRUE /\ UNCHANGED init
  /\ left' = left - 1 /\ step' = step + 1
  /\ UNCHANGED <<Machine, src, e820count, e820table>>
ModsEnd ==
  /\ left = 0 /\ step' = 0 /\ src' = 0
  /\ Goto("mods", IF 6 \in loader.flags THEN "mmap" ELSE "count")
  /\ left' = (IF 6 \in loader.flags THEN loader.mmapLength ELSE 0)
  /\ UNCHANGED <<Machine, Tables>>

(* mmap_loop: a record is as long as its size says, and four bytes more *)
RecordAt == IF src \in DOMAIN loader.mmap THEN loader.mmap[src] ELSE Garbage
RecordBytes_SizeOnly(r) == r.size
RecordBytes(r) == r.size + 4
MmapLoop ==
  /\ left > 0 /\ Goto("mmap", "mmap")
  /\ IF step < MaxRecords
     THEN e820table' = [e820table EXCEPT ![step + 1] = RecordAt] /\ UNCHANGED overrun
     ELSE overrun' = TRUE /\ UNCHANGED e820table
  /\ src' = src + RecordBytes(RecordAt) /\ left' = left - RecordBytes(RecordAt)
  /\ step' = step + 1
  /\ UNCHANGED <<Machine, init, e820count>>
MmapEnd ==
  /\ left <= 0 /\ Goto("mmap", "count")
  /\ UNCHANGED <<Machine, step, left, src, Tables>>
StoreCount ==
  /\ Goto("count", "main") /\ e820count' = step % 256
  /\ UNCHANGED <<Machine, step, left, src, init, e820table, overrun>>

BootStep == \/ CheckFeature \/ ErrorHalt \/ EnterLongMode \/ InvalidBoot \/ ModsValid
            \/ ModsLoop \/ ModsEnd \/ MmapLoop \/ MmapEnd \/ StoreCount

---------------------------------------------------------------------------
(* Paging goes on only with everything long mode needs in place, and 64-   *)
(* bit code runs only on a processor that has all the features the kernel  *)
(* uses.                                                                   *)
LongModeSafe ==
  /\ "PG" \in mode => {"PAE", "CR3", "LME"} \subseteq mode /\ "longMode" \in cpu
  /\ at \in {"mods", "mmap", "count", "main"} => Range(Features) \subseteq cpu

(* When main_routine() starts, e820table and init hold what the loader     *)
(* passed, record by record, whatever the records' sizes, as far as the    *)
(* tables reach; a loader that is none, or has no map, leaves no records.  *)
Records  == DOMAIN loader.mmap
Place(o) == Cardinality({p \in Records : p <= o})
TablesMatchLoader ==
  at = "main" =>
    /\ e820count = IF loader.magic /\ 6 \in loader.flags THEN Cardinality(Records) ELSE 0
    /\ loader.magic /\ 6 \in loader.flags =>
         \A o \in Records : Place(o) <= MaxRecords => e820table[Place(o)] = loader.mmap[o]
    /\ loader.magic /\ 3 \in loader.flags =>
         /\ init.c = Len(loader.mods)
         /\ \A i \in 1 .. init.c : i <= MaxTasks =>
              /\ init.task_[i].start - KernelHalf = loader.mods[i].start
              /\ init.task_[i].start + init.task_[i].size - KernelHalf = loader.mods[i].end
    /\ overrun => Cardinality(Records) > MaxRecords \/ Len(loader.mods) > MaxTasks

(* The message of error_halt stays on the screen, and leaves the cursor    *)
(* behind itself there, wherever the loader left the cursor.               *)
HaltMessageVisible ==
  at = "halted" => message \subseteq 0 .. ScreenCells - 1 /\ cursor \in 0 .. ScreenCells - 1
=============================================================================
