# MuiString in TLA+

MuiString (`src/`) is an early amd64 microkernel: about 10,600 lines that boot,
set up memory, interrupts and a timer, create idle tasks and kernel threads and
switch between them. This directory models it: one module per component, TLC
configurations that check small instances, and TLAPS proofs for every instance.

Three facts about the code shape everything below:

* `CONFIG_SMP` is set with two CPUs, but only CPU 0 runs: `cpu_id()` returns 0
  and the second CPU is never started.
* `include/eza/spinlock.h` defines the locks as nothing and `LOCK_CACHE` in
  `mm/pagealloc.c` is empty. What runs concurrently is one thread of kernel code
  and the interrupts on top of it.
* There is no operation that frees a page, a stack or a task, and none that
  unmaps a page. Error paths leave what they took.

## 1 Inventory

| Part | State | Operations | Talks to | What is hard | What makes it correct |
|---|---|---|---|---|---|
| Page frames (`mm/mm.c`, `mm/pagealloc.c`) | frame array, two zones with lists and counters, per-CPU caches | `build_page_array`, `alloc_page` | the BIOS map; everybody who allocates | unaligned or disordered maps; a scan that stays on its page; counters kept apart from lists; a cache that runs dry | each frame in one place, exact counters, only RAM outside kernel and DMA zone handed out, the scan ends |
| Page tables (`eza/amd64/mm/pt.c`, `mm/pageaccs.c`) | four levels of tables, accessor contexts | `mm_map_pages`, `mm_pin_virtual_address` | `alloc_page` for tables | boundaries of tables, wrap-around at the top of the address space, running out of frames half way | the translation changes by the pages asked for and nothing else; tables form a tree |
| Address space (`eza/amd64/mm/mm.c`) | the kernel's page directory | `arch_remap_memory`, `verify_mapping` | page tables, `swks` | memory sizes | all memory at `KERNEL_BASE`, page 0 unmapped, for good |
| Kernel stacks (`eza/generic_api/kstack.c`) | a bitmap, a counter | `allocate_kernel_stack`, `free_kernel_stack` (empty) | task creation | the counter counts words, the bitmap bits | no stack twice, gaps between stacks |
| Tasks (`task.c`, `process.c`, `sched/task.c`, `context.S`, `context.h`, `idletask.c`) | task structures, their stacks and saved contexts, `kthread1` | `initialize_idle_tasks`, `kernel_thread`, `create_new_task`, activation, idle loops | pages, tables, stacks, ticks, interrupts | failures half way; interrupts inside the saving of a context; a loop that waits for one exact tick | tasks share no memory; errors reach the caller; a task resumes with what it had; a waiting task goes on |
| Interrupt lines (`interrupt.c`, `i8259.c`, `amd64/interrupt.c`, `asm.S`) | `irqs[]`, action descriptors, the two chips | `register_irq`, `unregister_irq`, enabling and disabling, `do_irq` | the chips; the timer handler; the boot | interrupts between any two instructions; a non-specific EOI; spurious interrupts | handlers not interrupted, every EOI ends its own service, open requests are taken |
| Time, SWKS, boot (`main.c`, `swks.c`, `i8254.c`, `timer.c`) | `swks`, the timer chip | `main_routine`, `initialize_swks`, calibration | everything | `swks` is zeroed after parts of it were set and while the timer counts in it | no later part of the boot undoes an earlier one |
| Local APIC, platform (`apic.c`, `platform.c`) | APIC registers | check, clearing, enabling, timer | `__mm_map_pages` | what the firmware left; entries an APIC does not have; order of register writes | only the bits meant change; an entry that the clearing knows of cannot fire |
| Buddy allocator (`mm/bbuddy.c`) | a bitmap tree | allocate, free | nobody yet | splitting and merging | blocks are disjoint, freeing restores |
| VGA console (`vga.c`, `kconsole.c`) | screen buffer, cursor, CRT registers | put, scroll, move | `kprintf`, from tasks and handlers | edges of the screen; a handler that prints in the middle of a character | what was printed is shown; plain text stays in text memory |
| Kernel printf (`mlibc/kprintf.c`, `panic.c`) | the parser's attributes, an output buffer | `kprintf`, `vsnprintf`, `panic` | console | the end of the buffer; stepping back over what was not understood | never writes past its limit, ends, prints what printf prints |
| Spinlocks (`include/eza/spinlock.h`, `include/eza/amd64/spinlock.h`) | lock words | lock, unlock, read-write locks | unused: empty in this build | CPUs interleaving | mutual exclusion |
| Faults, GDT, IDT (`fault.c`, `asm.S`, `pmm.c`) | descriptor tables | install; entries; handlers that print, and some that stop | tasks' stacks | error codes on the stack; the frame given to a handler | the interrupted code goes on, or the machine stops |
| Boot assembly (`boot.S`) | CR0, CR4, EFER, `init`, `e820table` | feature checks, long mode, copying of what the loader left | the loader; `PageFrames`' input | the order the processor demands; records of any size; a halt nobody sees | long mode or a visible message; tables that say what the loader said |
| BIOS data, CPU identification, system-call stub, C library | - | - | - | straight-line code | - |

`PROJECT.json` lists the same parts with their sources, and every hazard at its
line.

## 2 Plan

Done, in this order, the most used parts first:

1. `PageFrames` (with the abstract `FramePool`) and `PageFrames_proofs`
2. `Interrupts` and `Interrupts_proofs`
3. `PageTable`, `MapCalls` (with the abstract `AddressSpace`),
   `PageTable_proofs` and `MapCalls_proofs`
4. `KernelSpace`: remapping, kernel stacks and task creation, composed with
   `PageTable`, and `KernelSpace_proofs`

5. `KPrintf` and `Printing_proofs`
6. `Console`, with its theorems in `Printing_proofs` (whence the names
   `ConsoleInit`, `ConsoleNext` and `ConsoleSpec`)
7. `Boot`, `Apic` and `Bringup`, which composes them, and `Bringup_proofs`
8. `Tasks`: the context switch, the idle loops and every entry into the kernel,
   and `Tasks_proofs`

What else could be added is little, and section 6 says why it was left: the rest
of `swks` and the i8254's rate, the descriptor tables, and the code that nothing
calls (`mm/bbuddy.c`, the lock instructions).

## 3 Modules

### PageFrames, FramePool

`build_page_array()` one loop iteration a step (`pc`): detection of main
memory, the scan that gives every page a zone and a list, the filling of the
caches; then `alloc_page()` for ever. Variables are the C variables under their
names; the intrusive lists are sequences. Addresses are counted in units, of
which `PageSize` make a page, so that rounding of unaligned records shows.
Arithmetic of addresses is modulo `AddrSpace`.

An empty cache whose counter is still positive is the interesting state:
`list_del()` then unlinks the list head. `cacheHead = "poisoned"` is what the
list is after that, `result.kind = "head"` what the caller got. `pc = "halted"`
is the page fault handler's endless loop, `"wild"` a kernel that follows a
poison pointer, or has zeroed a page in use because the list head it took for a
frame has that page's number; nothing is claimed of it. `HoldsImage` and
`HoldsKernel` say where the kernel image and `page_frames_array` really lie, and
`LeftOut` what `kernel_end_page` does not count.

`FramePool` is what a caller may rely on: a frame it gets was in the pool and
nobody else's. `PageFrames` implements it (`PoolRefinement`) until the cache
runs dry.

### Interrupts

`main` is the place of the boot or of a driver's call, `stack` the interrupt
frames on top of it. Interrupted code moves only when the stack is empty. The
8259 pair is modelled from the commands the driver sends: request, in-service
and mask registers, fixed priority, non-specific EOI, the cascade, and a
request that goes away while it is presented (`phantom`). `do_irq()` is three
steps (handlers, acknowledgement, return), since the spurious path enables
interrupts inside. `blind` remembers the lines that were unmasked by calls that
do not look for a handler.

### PageTable, AddressSpace, MapCalls

`PageTable` holds the machine: `mem` is what frames hold seen as tables, `walk`
the stack of activation records of the nested range functions, one loop
iteration a step, and `pacc` the page accessor. Addresses are counted in pages;
the address space is `Entries^4` pages and wraps, as 64-bit addresses do at the
end of the kernel's half. Loops are C loops: they run once before their test,
their pointers grow without a bound, and a pointer past its table is `Overrun`.
`AddressSpace` is the abstract view, in which a request maps its pages one by
one and an error leaves a prefix. `MapCalls` puts `PageTable` into the hands of
any caller.

### KernelSpace

The actual callers: `arch_remap_memory()` (`MapDma` .. `DirectMapped`), the
stack allocator, the idle tasks, the APIC page, then `kernel_thread()` for as
long as somebody calls it. `job` is the task under creation; `GiveUp`,
`NoStackLeft` and `MapFailed` are its error paths, which give nothing back. It
extends `PageTable`, so that every mapping is the real walk. `alloc_page()` is
taken at its word when the cache is dry (NULL), or, as `PageFrames` shows, does
not come back (`"wild"`); the models allow both.

### KPrintf

`vsnprintf()` as the state machine it is, a step for each character of the format:
`pers` and `fa` are its variables, `cinf` the count of characters it goes back by
over a conversion it does not understand. `%`, digits, flags, `.`, lengths, `*`,
conversions and plain characters are actions, guarded by the tests of the
`switch` (`FlagAllowed`, `StarAllowed`, `LetterTwice`, `Understood`). `Digit` is
`__digit()`, with the widths of `int` and `long` as constants, and `PutBytes`,
`PutDigits` and `PutWhole` are its ways to write up to the limit. A `*` stores eight
bytes over an `int` and its neighbour, which a negative argument makes -1 (`Sign`), and
`Excess` is the mixture of `int` and `size_t` that follows from it. `caller` tells
`kprintf()` from `panic()`, which formats twice; `Junk` is what follows a text
that is not terminated. `tmp_buf` has `TmpBufSize` bytes on the stack and a far larger
limit: once more is written (`Smashed`), `Smash` may at any moment make the
kernel `"wild"`. `StandardItem` says what standard printf prints, from the items a
format was written from and not from the format; `Bits` are the widths of the types
that the standard's lengths name, `char` and `short` among them.

### Console

A task's `vga_putch()` in the loads and stores of the compiled code (there is no
optimisation in the build): `LoadCursor`, `Write`, `StoreCursor`, `WrapTest`,
`Diff`, `Copy`, and `vga_update_cursor()` port by port. `Interrupt` is a whole
message printed by a handler in between, which is what
`spurious_interrupt_handler` and the end of `do_irq()` do. `Putch`, `Scroll` and
`UpdateCursor` are the same functions undisturbed. `dev.wild` is a store that
missed text memory; `plain` says that only plain text was printed, printable characters
and ends of line that do not pile up below the screen (`StaysPlain`); `raced` says that a handler has printed in the middle of a character, `misread` that the test
of `x` found it behind the last column and the second reading did not; `log` is what
was printed, line by line.

### Boot, Apic, Bringup

`Boot` is `boot.S`: the feature checks with their message on the screen and the
halt, CR4, CR3, EFER and CR0 one by one, and the loops over the loader's modules
and memory map. `Apic` is the local APIC: registers are sets of bits, the
structures of `apic.h` are tables of offsets and fields, and a driver function is
the sequence of its assignments (`todo`), each a read and a write of one register.
The hardware's own offsets and bits stand beside them (`HwOffset`), so that
a wrong structure would show. `Bringup` composes them in the order of
`main_routine()` and `arch_specific_init()`, with the page that maps or not.

### Tasks

The idle loop and the thread it creates. A stack is the sequence of the words on
it, so that alignment and what a `pop` finds are real: `SaveGpr`, `SaveMm`,
`RESTORE_MM`, `RESTORE_GPR`, `Switch`, `Iretq` push and pop what the instructions
do, and `arch_setup_task_context` builds the first stack of a thread by hand.
`Interrupt` may come between any two of these steps while interrupts are on,
the NMI also while they are not; `Raise` is an exception of the tasks' own code,
`TrapGprs`, `CallHandler` and `FaultHandler` its way through `asm.S`. Own code is
reduced to the registers it relies on. `togo` is how many ticks are left to the
target of each task, `-1` for a target that never comes: it is over (`Tick` counts it
down wherever the loop is, also while the task sleeps or is at the switch), or the
`int` does not hold it (`SetTarget`). `lost` is history: one of the two has happened
to the task that runs.

## 4 What the runs check

| Run | Instance | Shows |
|---|---|---|
| `page_frames` | eleven maps: aligned, unaligned at their ends and at their beginnings (`build_page_array()` rounds a beginning down), holes, out of order, a record within one page, too small, not starting at 0; 4 units a page, a kernel image of 3 units, DMA zone of 5 pages, 2 CPUs | types; every frame on exactly one list or with one caller (`FramesPartitioned`); zone counters (`ZoneCountersExact`); nothing of the kernel image or the DMA zone is handed out, and of the frame array what a rounding loses at most (`PoolAvoidsKernelAndDma`); only RAM is (`FreeIsRam`); on a regular map none is lost (`NoRamLost`); the cache counter is never short (`CounterCoversCache`); the boot ends (`BootEnds`); `FramePool` is implemented (`PoolRefinement`) |
| `interrupts` | chips of 4 lines, timer on 0, a master line, a slave line, 3 requests, 2 driver calls, 3 nested frames | `HandlersNotPreempted`, `InServiceMatchesStack`, `SpuriousOnlyIfBlind`, `TicksWithinStat`, `OpenRequestsTaken` |
| `map_calls` | tables of 2 entries, so 16 pages; 4 or 8 frames for tables; two calls, each any range within one PML4 entry, with linear and list accessors, a refused one and a flagged one | `MapsTheRequest` (refinement of `AddressSpace`), `TablesFormTree`, `CallEnds` |
| `kernel_space` | tables of 8 entries, the real stack geometry (4 pages, 1 gap, steps of 8), 1 to 66 pages of memory, 0 to 60 frames in the cache, 3 stacks, 2 idle tasks, 2 threads | `DirectMapKept`, `TasksApart`, `NoLiveRemap`, `TablesFormTree`, `WorkEnds` |
| `kprintf` | char of 2 bits, short of 3, int of 4, long of 6; buffer of 8, limit 11, 5 in `panic`; formats of one or two items over every flag, width, precision, length and conversion, and 12 written by hand that no item gives; `*` with 0, 3 and -2 | nothing is written past the limit (`WithinLimit`); conversions the kernel's messages are made of print as standard if the text fits `tmp_buf` (`MessagesStandard`); every call ends or overruns `tmp_buf` (`CallsEnd`) |
| `console` | a screen of 3 by 3 in 9 rows of text memory; 7 messages of tasks, one of them of ends of line alone, and 2 of handlers, 4 in all | the last lines stay shown, in order, with the hardware's cursor behind them (`LogShown`); plain text stays in text memory but for one race, the second reading of `x` (`PlainInMemory`); the index register survives a handler's update (`IndexAsSelected`) |
| `bringup` | every set of the 5 features; loaders with and without magic, modules, map; records of 20 and 24 bytes, lengths that end with a record and inside one; APICs of 2 to 6 entries in every state, pages without an APIC | `LongModeSafe`, `TablesMatchLoader`, `HaltMessageVisible`, `QuietWhenCleared`, `RegistersAsMeant` |
| `tasks` | XMM images of 4 words, waits of 1 and 2 ticks, 3 rounds, stacks of 1 or 4 words below the loop, up to 2 spurious interrupts and exceptions, exceptions with and without error codes | a task's code finds its registers, stack and flags as it left them (`ContextKept`), a sleeping task's stack is a way back (`SleepersResumable`), neither task keeps the processor unless its tick was lost (`Alternates`) |

Violations, each a disagreement of the code with what the source says of
itself (`findings` in `PROJECT.json` quotes the lines):

| Run | What happens |
|---|---|
| `alloc_contract` | `alloc_page()` returns the list head of an empty cache as a frame: its counter is twice what was moved |
| `big_memory` | more memory than one third-level entry covers (1 GB): the end of the next one wraps to 0 and the walk runs off its table |
| `kernel_end` | the last page of `page_frames_array` is free for `alloc_page()`: `kernel_end_page` adds two quotients that were rounded down one by one, and `kernel.ld.S` does not align `kdata_end` |
| `fault_frame` | fault handlers get r10 plus a constant for their frame: the macro that once set r10 no longer does |

Other divergences, seen while modelling. The models contain what the code does in
each case where the function is modelled; no run states what it should do, and a
property that would be false for one of them says in its comment what it leaves out.

* Memory: a request for a clean page that cannot be had ends in a page fault,
  since `NULL` is cleaned too (`mm/pagealloc.c:62`). The test for a minimum of
  memory subtracts the wrong way round and accepts too little (`mm/mm.c:74`).
  A request for a clean page from a cache that ran dry takes the list head for a
  frame and zeroes the page that its counter numbers (`mm/pagealloc.c:62`).
  Half of each CPU's share of pages stays in the zone, where `alloc_page()`
  never looks (`mm/mm.c:234`). `mem_total_pages` is recorded before
  `initialize_swks()` zeroes it (`mm/mm.c:213`).
* Page tables: `mm_map_pages()` returns 0 for a range that crosses a 512 GB boundary
  after mapping it up to there (`pt.c:333`); its flags are also those of
  `alloc_page()`, for which the bit of `PF_KERNEL_PAGE` asks for DMA memory it
  never gives (`pt.c:93`).
* Interrupts: enabling a line of the second chip changes nothing, `1 << irq` does
  not fit its mask byte (`i8259.c:54`). `unregister_irq()` steps on from the entry it
  deleted (`interrupt.c:152`). The timer line is already open when `main.c:62`
  says all are masked; `initialize_swks()` drops the ticks counted before it.
  The low byte of the timer's divisor is masked with `0xf` (`i8254.c:38`).
* Tasks: without a stack, `kernel_thread()` takes the error 1 for success and
  writes through NULL (`task.c:125`); `idle_loop()` does not look at its result, and
  switches to a NULL thread. The recorded address range of a stack chunk
  (`kstack.c:37`) does not hold its stacks. A fault handler that returns
  from an exception with an error code leaves through that code (`asm.S:160`).
* APIC: `__map_apic_page()` tests an unsigned result for a negative value, so that an
  unmapped page is found by the fault (`platform.c:46`). "enable wire mode"
  (`apic.c:149`) leaves the old controllers' entry masked;
  `local_apic_timer_enable()` masks the timer (`apic.c:180`);
  `local_apic_bsp_switch()` has ports and values the wrong way round and writes
  a byte of the CMOS (`apic.c:171`). `__local_apic_clear()` (`apic.c:82`), though to
  "mask timer and LVTs" and "clear APIC to avoid magical results", never touches the
  entry of the thermal sensor (`include/eza/amd64/apic.h:266`), which an APIC with more
  than five entries has: what the firmware left unmasked there stays unmasked, and
  `QuietWhenCleared` excepts it.
* Formatted printing: `kprintf()` "acts just like standard printf", its header says.
  A negative number prints as a large positive one, since the sign test is on an
  unsigned copy (`kprintf.c:376`); `%hu` and `%hhu` print a whole `int`, since
  `__ident_num_size()` looks at neither flag (`kprintf.c:491`). A text longer than 1024
  bytes is written behind `tmp_buf`, on the stack, for `vsprintf()` gives a limit of 2 GB
  (`kprintf.c:114`), and the test that is to report it comes afterwards
  (`kprintf.c:96`). `MessagesStandard` is about the numbers and texts for which none of
  this shows, `CallsEnd` about calls that end or overrun the buffer.
* Console: a handler that prints a newline between a task's test of `x` and its
  second reading of it makes the difference negative, and the next store lands far
  outside text memory (`vga.c:235`). Newline and TAB do not scroll: two newlines at the
  bottom lose a character, and enough of either take the cursor out of text memory
  (`vga.c:194`), and `vga_cons_display_char()` prints only when
  the console is disabled.
* Boot: `e820count` is stored as 32 bits over a `uint8_t`, and neither table has a
  bound check (`boot.S:245`). `smpap.S:62`, never run, loads the page table's
  address into CR4.

### Bounds

* Nothing but the data is bounded in `page_frames`: allocation goes on for ever,
  and the state space is finite since frames are never given back. The maps
  were chosen so that each branch of the scan runs and each kind of bad map
  occurs once. The kernel image ends inside a page (`KernelImageSize = 3` of 4
  units), as nothing aligns it; with the maps of the run the rounding of
  `kernel_end_page` then loses a page in some and none in others.
* `interrupts`: three requests and three frames give nesting of spurious
  interrupts on both chips and every order of arrival; two calls of drivers suffice
  for registration against unregistration or masking on the same line.
  `MaxRaises` bounds the requests, so a device that never stops requesting is
  outside `OpenRequestsTaken`: a higher line that requests for ever does starve
  a lower one, on the hardware too. `MaxDepth` cuts off deeper nesting.
* `map_calls`: with two entries a table every range of three pages crosses a
  boundary at some level, and four pages fill a third-level entry. Four frames
  are one too few for a second branch, so running out happens in every
  position. Two calls are enough for a range over, next to or apart from an
  earlier one. Ranges that cross a PML4 entry or reach the last third-level
  entry are left out, since the code does not keep its promise there (see
  above); `kernel_space` and `big_memory` do reach the latter.
* `kernel_space`: the cache sizes were chosen so that the frames run out at each
  kind of allocation: in the remapping, at the stack allocator's page, at a
  task structure, a stack page, a table. Three stacks for four tasks make the stacks run
  out. With 66 pages the direct mapping exceeds a third-level entry.

* `kprintf`: integer widths are small so that every argument class occurs; the
  output of most calls fits and that of some does not, for each kind of conversion.
  `VsprintfSize` is above `TmpBufSize`, as in the code, though by 3 and not by
  2 GB: some texts of the run are longer than the buffer, and some longer than the limit.
* `console`: four messages scroll a screen of three rows by two and three
  times, and three of the message that only ends lines leave text memory. `MaxPrints`
  is a bound of the model, and no deadlock is checked because of it. Three rows is
  the smallest screen on which scrolling by two keeps a line.
* `bringup`: one module and one record more than the tables hold are in the
  input, so that the write behind a table happens; `TablesMatchLoader` says
  that it happens then only, and what the tables hold. `MaxLvts` are the entries of an
  APIC less one, around the two tests of the clearing; from 5 on the APIC has the
  thermal sensor's.
* `tasks`: stacks of one and four words have every remainder that matters to the
  alignment of a pair and differ in that of an image. Two strays nest inside each
  other, inside a timer interrupt and inside either half of a switch. `MaxWords`
  cuts off deeper nesting. There is no check for deadlock since a fault handler
  stops the machine.

### Fairness

* `WF(BuildPageArray)`, `WF(Work)` and `WF(Step)`: one CPU that executes what it
  has begun; interrupts return (`Interrupts`), and nothing else preempts.
* `Interrupts`: `WF` of the boot, of `do_irq()` and of the acceptance of what
  the chips present: while IF is set the CPU takes a presented interrupt between
  two instructions. No fairness for devices and drivers.
* `KPrintf`: `WF` of the steps of a call that has begun; nobody has to call.
* `Tasks`: `WF(Execute)`, one CPU that executes, and `WF` of the timer's interrupt,
  a periodic device whose line stays open. `SF(ifOn /\ Execute)`: the interrupted
  code gets on however often it is interrupted, for a tick is 10 ms and its handler
  takes far less. Nothing is assumed of when a loop looks at the counter. The
  code's `==` needs that it does in each tick, which a message that takes longer to
  print breaks, and that the `int` of `target_tick` holds the 64 bits of the
  counter, which it does for 2^31 ticks: a task then keeps the processor for good, and
  `Alternates` says that it does so for no other reason.

## 5 What is proved

In `PageFrames_proofs`, from `SizesAssumption` and `MapsAssumption` (sizes are
natural numbers, maps are sequences of records), for all maps, sizes and CPUs:
`TypeCorrect`, `NoFrameLostOrShared` (`FramesPartitioned`), `CountersExact`
(`ZoneCountersExact`), `CounterNeverShort` (`CounterCoversCache`),
`PoolImplemented` (`PoolRefinement`), `FreeMemoryIsRam` (`FreeIsRam`) and
`RamNotLost` (`NoRamLost`).

*Argument.* None of these is inductive alone. `Inv` adds to their conjunction
`BootInv` (how far the boot is: caches that were not reached yet are empty,
nobody owns a frame before the boot is over, `e820count` is the length of the
map once it was accepted), `NormalFramesFit` and `PoolUnreserved` (frames on the
list of the normal zone, and those that came from there into a cache or to a
caller, lie past the DMA zone and are not the kernel's). Lemmas on append and
unlink say what a list operation does to the set of entries; each step then
moves one frame from one list to another.

`PoolIsFit` proves `PoolAvoidsKernelAndDma` wherever `kdata_end` and the records end.
Its second invariant, `ArrayInv`, says that the frame array has an entry for every
page the scan has come to and that the scan stays below the end of a record, which
bounds the array's entries (`EntriesBound`). `BehindKernelEnd` is the arithmetic: what
`kernel_end_page` leaves out are the remainders of its two divisions and the entry of
a last page that is not full (`LeftOut`), which is at most two pages of
the array beyond the one it counts too many, and never the image. That none is
left out holds only where the remainders fit in that one; the run
`kernel_end` is a case where they do not. `SizesAssumption` has a `page_frame_t`
that is no larger than a page.

`PoolImplemented` maps every step to one of `FramePool` or to none: a boot step
changes only what has not been offered yet, and an allocation takes the head of a
list, which `Inv` says is nobody's. `FreeMemoryIsRam` needs `RamInv`: while the scan
runs, the window is that of the record `e820id` stands at (`WindowOfRecord`), and a
page that was not reserved ends in a usable record. `RamNotLost` needs `LossInv`,
which on a regular map says where the scan is: every record before `e820id` ends
at or before the page, the page is not behind the end of the window, and it is
inside the window unless `just_left` is set (`ScanPosition`). Without the last
a record's first page would be taken for a hole.

In `Interrupts_proofs`, from `LinesAssumption`, for any chip width, devices,
drivers and depth of nesting: `TypeCorrect`, `NoPreemption`
(`HandlersNotPreempted`), `EoiMatched` (`InServiceMatchesStack`),
`SpuriousExplained` (`SpuriousOnlyIfBlind`) and `TicksCounted` (`TicksWithinStat`).
The invariant of the first three is their conjunction: that nothing but the interrupt on
top is in service needs that handlers are not interrupted, and the other way
round the interrupt flag is only set where nothing is in service.
`AckEndsService` is the lemma on the EOI sequence.

A spurious interrupt is explained only by looking back to how its line was opened:
`Provenance` says that a line whose pin is unmasked has a handler or is in `blind`
(`OpenLinesExplained`), since what is about to be unmasked has one already
(`LinkedBeforeUnmask`), and that an interrupt on the stack that is neither of a blind
line nor `phantom` has a handler and is not on the spurious path (`FramesExplained`). `TickInv` adds to `TicksWithinStat` that the timer's handler is
linked once, on its own line, so that an interrupt counts one tick at most.

In `MapCalls_proofs`, from `TableAssumption` and `CallsAssumption`, for any size
of the tables, any frames and any sequence of calls with any arguments: `Typed`
(`TypeOK`) and `TreeAlways` (`TablesFormTree`); and, from the hypothesis
`RequestsFit`, `MapsExactly` (`MapsTheRequest`), each step of the walk being one of
`AddressSpace` or none.

*Argument.* `PageTable_proofs` shows that each step of `PageTable` keeps
`TablesInv`. `TablesFormTree` is not inductive alone: a step writes where the
innermost activation record points, so `WalkInTree` adds that every range
function works on a table of its own level, and `PoolFresh` that `alloc_page()`
has no frame twice and not the root's. The lemmas do the rest once: `TreeGrown`
(a clean frame of the pool, linked into an empty entry of an upper table, makes
a tree), `TreeKept` and `Untouched` (a write to anything but the three upper
levels does not touch the tree), `EnterTyped`, `AdvanceTyped`, `ToAddrTyped` and
the lemmas on addresses (arithmetic stays in the address space, an index in its
table, an advanced pointer at most one entry behind it).

That a call maps what was asked for needs `PathInv`: the innermost range function
works on the table that the page it has come to is translated through, at that
page's entry, and each function below it waits at the entry that leads there
(`OnPath`). `MapStepMoves` says that a step then writes the entry of that page or adds
an empty table where nothing was translated (`TablesAdded`), and nothing else
changes. `RequestsFit` demands of a request that is not refused that its pages lie
below one PML4 entry and below the last range of level three (the last gigabyte);
others lose their place (section 4). All requests of the kernel but the direct
mapping of a large memory fulfil it.

In `KernelSpace_proofs`, from `TableAssumption` and `LayoutAssumption`, for any
layout of the address space, size of memory and of the pool, number of stacks, CPUs
and threads: `Typed` (`TypeOK`), `TreeAlways` (`TablesFormTree`) and
`StacksNeverShared` (`StacksApart`, the part of `TasksApart` about virtual
addresses). From `RegionsAssumption` too, and for machines whose memory fits
(`RamFits`): `NoTlbFlushNeeded` (`NoLiveRemap`), `DirectMapStays` (`DirectMapKept`) and
`TasksLiveApart` (`TasksApart`).

*Argument.* `TablesInv` again, since the callers change tables only through
`PageTable` or write to frames they took from the pool (`TakeFramesInv`). That
the addresses they ask for are addresses needs the stack allocator's invariant:
its counter counts words and its bitmap bits, 64 times as many, so the bound on
stacks is not in the bitmap. `BitsMatchCounter` says that the set bits are those
from `StackWords - freeItems` on, so that the first of them, the stack that is
given, lies above address 0 (`StackAddresses`). `StacksTaken` and `NoTaskYet`
say that the bit of a stack in use is reset and was not set again by the
initialisation.

The rest needs to know what is mapped. `RegionsAssumption` says how the regions of
the kernel's layout lie: the one-to-one mapping of the DMA zone below the APIC's page
and in the first PML4 entry, that page below the stacks, the stacks and the
direct mapping in the last PML4 entry, as `include/eza/amd64/page.h`, `apic.h` and
`include/eza/kstack.h` place them. `RamFits` says that the direct mapping ends below
the last gigabyte; a machine with more is the run `big_memory`. `SpaceInv` adds to
the above `Parts`: which request each place in the boot and in a creation has made
(`AskedFor`), that what it asks for is not mapped ahead of the walk
(`UnmappedAhead`), where pages may be mapped at all (`MappedWhere`), and that what
`verify_mapping()` has found stays so (`VerifiedKept`). Then a mapped page is never mapped again,
and what the boot has mapped stays.

`OwnInv` adds to whom the frames belong: those mapped in the tasks' area came from
the pool, none is mapped twice there or is in the hands of the creation that runs
(`FramesOwned`); the accessor has a frame for each page to come (`FramesSuffice`); all
of every task is mapped, and of the one under creation what the walk has passed
(`TasksMapped`, `JobMapped`). A creation that fails leaves pages mapped and frames
lost, but its stack is not given again.

In `Printing_proofs`, from `SizesAssumption` and `FormatsAssumption`, for any formats,
arguments, integer widths and sizes of the buffers: `FormatNotLeft` (`TypeOK`) and
`NothingBehindLimit` (`WithinLimit`). `IInv` adds `CanStepBack`, that a rejected
conversion never steps back to before the format's beginning: `cinf` counts at most
the characters read since the '%', or is -1 after a negative `*`, whatever "*", "hh" or "ll" do to it.
`DigitGrows` and `CopyStringGrows` say that a conversion adds to the buffer and
not beyond its limit, whatever is padded, cut or left out, and that `__digit()`
writes a byte where there is room for one: it reports the limit exactly when it
has reached it. `FormatsAssumption` says that a format is a sequence of characters;
it is put together by `FlattenSeq`, a fold, and TLC evaluates it in the runs.

In `Printing_proofs`, without assumptions on the screen or the messages:
`IndexUndisturbed` (`IndexAsSelected`). `IndexInv` says which register is selected
at each port access, and that what was saved is one of the two values from outside;
`UpdateKeepsIndex` is the lemma that a whole update gives the index back, which makes
a handler's invisible.

Also there, from `ConsoleAssumption` (at least three rows and two columns, a text
memory of twice the screen that `uint16_t` positions reach, messages that are
sequences): `PlainTextShown` (`LogShown`) and `PlainStaysInMemory`, that plain text,
however long, is never stored outside of text memory as long as handlers print
between characters (`UnracedInMemory`). The argument has three layers.
`Holds(y, cell, l)` says that the rows up to row `y` are the last lines of the log,
counted from the end, since lines are forgotten at the other one; it is
kept by an end of line (`NewLineHolds`), by forgetting (`RecentHolds`), by scrolling two
rows up, the one below the screen with them (`ScrollHolds`), and by a character
(`LongerHolds`), for rows are `Cols` words apart (`RowsOfMemory`). From these comes
`PutchShows`: `vga_putch()` as a whole keeps a screen showing the log, and
`PrintedShows`, the same of a handler's whole text, which is a fold. Last, `Stage`
relates a task in the middle of `vga_putch()` to the screen before the character:
what is in its register, which stores are done. Only at the character's end does the
log change, so the next screen is the one of `PutchShows`, and a handler that comes
between characters finds a screen it can go on from. `CursorStaged` is the same for
the accesses of `vga_update_cursor()`, of which `IndexInv` says where they go.
Without the restriction to handlers that come between characters it is false:
that is what `raced` is for.

In `Bringup_proofs`: `EntersLongMode` (`LongModeSafe`), for all processors and
loaders, and, from `CursorsAssumption` (a cursor is a natural number),
`MessageOnScreen` (`HaltMessageVisible`). `BootInv` says which features have been
checked and which bits are set at each label of `boot.S`; `MessageFits` is the
arithmetic of the longest message on the last line.

`TablesAsPassed` (`TablesMatchLoader`) has the hypothesis `LoadersRegular`: records
follow one another without gaps up to `mmap_length`, at most 255 of them (`e820count`
is a byte), the last of which `mmap_length` may end inside of, and modules have natural
numbers as addresses; from `TablesAssumption`, the
sizes of the tables are natural numbers. The loaders of the run are such, with maps of up to one record more than the table holds. `LoadInv` says at each
label how much is copied: in the round `step` of `mmap_loop`, `%esi` is at the
record of that number (`AtMmap`), so that `%ecx` is used up exactly after the last
one. `Places` says that the n-th record in the order of addresses is the n-th of
the walk.

`ClearedQuiet` (`QuietWhenCleared`, every entry but the thermal sensor's, which
the code does not clear, see section 4) and `StructuresMatch` (`RegistersAsMeant`), for any
version and number of entries the APIC may report, need to know where the
structures of `apic.h` put each field. `Begin()` sums sizes up with `FoldLeft`, which is a
recursive function; `SummingExists` shows that there is one, `PrefixTotal` that a prefix
grows by its last part, and `LayoutSums`, `LintFieldsSums` and the others add up the
structures' 30 members and their fields. `Assigned` says what one assignment of
the driver does: it changes bits of its own field alone, and never unmasks.
`ApicInv` is then what remains: every pending assignment is one of the driver's
(`TodoOk`), and while it clears the APIC an entry that is not masked has its masking still
pending (`ClearedSoFar`). That the number of entries stays as it was read needs that
nothing writes beyond the low byte of the version register (`EntriesStay`).

In `Tasks_proofs`, from `TasksAssumption` (the XMM image is an even number of words,
more than two; depths are natural numbers), for any image, depths, vectors and bounds
on nesting: `ContextsKept` (`ContextKept`) and `SleepersStay` (`SleepersResumable`).

*Argument.* What a task finds again is decided by words pushed long before, under
any number of frames. `ContextInv` says that there is a chain of contexts from the
running task's own code to the present (`Chain`): each context is a place, RFLAGS.IF,
the registers, the XMM state and a stack, and each `Handles` the one before it. That is, its
stack is the stack of the interrupted context with the processor's frame and
what the stub has pushed so far, or has not popped yet (`Entering`, `Leaving`), so
that the frame, `rax`, the registers and the image on it are those of the interrupted
context. An interrupt or exception adds a context to the chain, `iretq` takes
one off, and everything else changes the last one only. The first is the task's own
(`OwnContext`): in its loop, on its way through `arch_activate_task()`, on its way back
through `RESTORE_ALL`, or a thread that starts. Of the other task `Asleep` says that its stack
is such a way back with the address on top. `MmSaved`, `GprsSaved`, `GprsRestored` and
`FrameFacts` say that `RESTORE_MM`, `RESTORE_GPR` and `iretq` find what `SAVE_MM`,
`SAVE_GPR` and the processor pushed, whatever the padding: they need that the image's
size is even and that the order of the pops is the reverse of that of the pushes
(`RestoreOrderReversed`). An exception with an error code puts a word
between the frame and the stub's; its handler stops (`HandlerNames`: vectors 13 and
14), or `iretq` takes that word for an address and control is lost. That is why
`Leaving` has an error code only when one has been raised whose handler returns
(`Lost`), as `ContextKept` allows.

### Only model-checked

* Liveness: `BootEnds`, `OpenRequestsTaken`, `CallEnds`, `CallsEnd`, `WorkEnds`,
  `Alternates`. Liveness under fairness and ENABLED are out of the prover's reach.
* `MessagesStandard`, what a conversion prints.
* `PlainInMemory`, which lets handlers print between any two steps of a character.
  `PlainStaysInMemory` is the part that has been proved, in which they print between
  two characters.

The library's induction theorems take an operator as a parameter, which the
provers cannot instantiate. Where a proof needs induction it takes the least
counterexample instead (`Least`, from the well-foundedness of < on the naturals), as
the sums and offsets of `Bringup_proofs` and the texts of `Printing_proofs` do. No module uses a RECURSIVE operator:
where a sum or a text is built element by element, it is a fold of the community
modules.

## 6 What is not modelled, and why

* Code that nothing calls, so that the program has no behaviour to check:
  `mm/bbuddy.c`, the lock instructions of `include/eza/amd64/spinlock.h`, `kbuf_*` in
  `kprintf.c`, `frames_left` of the page accessors, the APIC's disabling functions,
  `smpap.S` (copied, but no processor is sent there).
* Straight-line set-up whose state is never looked at again by anything with
  alternatives: GDT, IDT and TSS (`pmm.c`), CPU identification, the system-call
  stub, the printing of BIOS tables, the divisor and the delay calibration of the
  i8254, `mem_total_pages` and the process counters of `swks`.
* The C library's string functions: pure, and modelled by what they do where one
  matters.
* Linker script and build scripts.

Within the modelled parts, left out are: the sign extension of a table's address,
`base_0_19 << 12` in an `int`, where the table lies at 2 GB or above (the
frames for tables come from the lowest of the normal zone, and a machine with more
than 1 GB does not get past `arch_remap_memory()`, see `big_memory`); access and caching bits of table
entries, the TLB (`NoLiveRemap` states why its contents do not matter), colours and the
cursor's shape on the console, and what messages say.
