# Raccoon: a TLA+ model of the exokernel

Raccoon boots through Limine (stivale2), brings every processor up, reads an
init file that gives each core one program, and sends each core to its program
in user mode. There is no scheduler: a core runs one program for ever. What has
to be right is therefore the boot: several cores run the same kernel code with a
few spinlocks, a global flag that changes every core's identity, and a frame
allocator that has no lock of its own.

Paths below are relative to the repository: `kernel/` is `src/kernel/`, `arch/`
is `src/arch/x86_64/`.

## 1. Inventory

| Component | State | Operations | Who uses it, and what is hard |
|---|---|---|---|
| Spinlocks: `kernel/include/multicore/lock.h`, `common_locks.c` | one byte per lock | `GRAB_LOCK` (compare-and-swap loop), `RELEASE_LOCK` | everything; unfair, not reentrant, nested three deep in `entry_launch` |
| Interrupt lock: `kernel/src/interrupt_lock.c` | `lock_level[32]`, RFLAGS.IF | `lock_ints`, `unlock_ints`, `set_ints` (no caller) | indexed by `COREID`, which several cores share during boot |
| Logging: `log.h`, `print.c` | the print lock, the serial port | `LOG_*` | every component; each call takes both locks |
| SMP bring-up: `arch/src/smp.c`, end of `arch.c` | `smp_status`, `booted_cpus_count`, `launching_addresses`, Bootstrap and lock 1 | `launch_APs`, `_start_core` | non-atomic counter, identity that changes under other cores |
| kernel_main: `main.c`, `launch.c`, `protocol_init.c`, `vmmwrapper.c` | `parsed`, the address spaces | the launch loop, `entry_launch`, `space_alloc` | waits for other cores' progress, shares page maps |
| Page map recorder: `pmap_recorder.c` | `pmaps`, `entries` | store and get | read by the boot core while another core writes |
| Physical memory: `arch/src/pmm.c` | `available`, `nframes`, the bitmap, `loc_datas` | `get_size_in_bits`, `get_frame` (two modes), `init_pmm`, `free_frame` | three independent numberings of the frames, no lock |
| Virtual memory: `arch/src/vmm.c`, `vmmwrapper.c` | page tables, the kmmap and space_alloc locks | `kmmap`, `kmmap_physical`, `map_physical`, `kmunmap`, `create_page_directory`, the searches, `space_alloc`, `space_free` | allocates tables while it walks them with four nested indices of 9 bits; `kmunmap` takes no lock |
| Capabilities: `capability_recorder.c`, `syscall_handler.c` | `caps[].core_number` | `get_capability`, `release_capability` by system call | test and store on several cores with no lock |
| Capability map parser: `parse_capability_map.c` | two cursors over a text | `get_section`, `fill_capabilities` | nested loops over the same lines, an index that is not advanced |
| Init file parser: `parse_init.c` | `parsed` | `parse_init` | cuts the text it walks over into strings |
| initfs: `initfs.c` | the file table | `register_new_file`, lookup | a full table, truncated names |
| Traps: `idt.c`, `kernel_exceptions.c` | the IDT, the handlers | set up, dispatch, one handler per vector | a handler that logs while its core holds the print lock; error codes on the stack |
| APIC, HPET, ACPI: `apic.c`, `hpet.c`, `rsdt.c` | device registers | table walks, set-up per core, timer calibration | one HPET mapped on one core only; chains of table entries |
| GDT, CPUID, serial, tags | tables | set up | none: straight-line code |
| Legacy boot stage: `arch/bootload` | a text screen, the number in `tab`, two 8259s | `putch`, `keyboard_handling`, `printf`, stubs and handlers | interrupts inside handlers that print; built beside the kernel, not linked into it |

How they interact: `bootstrap_arch` registers the modules, finds the RSDP, sets up
memory (pmm, then vmm) and its own interrupt controller, calls `launch_APs`, waits until `booted_cpus_count` reaches the processor count and
returns `launching_addresses` to `kernel_main`. Each application processor goes
through two locks (`Bootstrap`, then lock 1 around its own set-up), counts
itself, and polls its slot of `launching_addresses`. `kernel_main` writes
`entry_launch` there. `entry_launch` loads the program into the core's page map
(`space_alloc` lock, then `kmmap` lock, print lock inside both), stores the entry
point and leaves with `sysretq`.

`PROJECT.json` lists the hazards of this code one by one, each with its line.

## 2. Modules

| Module | Models | Built on |
|---|---|---|
| `Cores` | spinlocks, interrupt lock, `LOG`, `kmmap`/`get_frame` as critical sections | |
| `Smp` | `launch_APs`, `_start_core`, the end of `bootstrap_arch` | `Cores` |
| `KernelMain` | `kernel_main`, `entry_launch`, `space_alloc`, `init_protocol` | `Smp` |
| `KernelProperties` | the properties of the kernel's boot and launch | `KernelMain` |
| `KernelProofs` | the inductive invariants, and proofs for any number of cores | `KernelProperties` |
| `Counting` | facts about numbers, sequences and recursive functions that the proofs share | |
| `FrameAllocator` | what a frame allocator promises | |
| `Pmm` | `pmm.c` and its use in `bootstrap_arch` | refines `FrameAllocator` |
| `PmmProofs` | proofs for any memory map | `Pmm` |
| `Vmm` | `vmm.c`, `vmmwrapper.c` and the calls `entry_launch` and `init_protocol` make | |
| `VmmProofs` | the inductive invariant, and proofs for any table size, page size and script | `Vmm`, `Counting` |
| `Cells` | the characters of an init file | |
| `InitFiles` | `initfs.c`, `parse_init.c` | `Cells` |
| `Firmware` | `rsdt.c`, `apic.c`, `hpet.c` | |
| `Capabilities` | `parse_capability_map.c`, `capability_recorder.c`, the two system calls | |
| `Setup` | the three above in the order of `bootstrap_arch` and `kernel_main` | `InitFiles`, `Firmware`, `Capabilities` |
| `SetupProofs` | invariants and proofs for any files, tables and number of cores | `Setup`, `Counting` |
| `Traps` | `stubs.s`, `idt.c`, `kernel_exceptions.c`, the timer of `apic.c` | |
| `TrapsProofs` | the inductive invariant, and proofs for any number of cores and vectors | `Traps` |
| `Terminal` | what a text screen promises | |
| `Screen` | the screen of `bootload/scrn.c` | refines `Terminal` |
| `ScreenProofs` | proofs for any width, height and tab stop | `Screen`, `Counting` |
| `LegacyIrq` | stubs, gates, handlers and controllers of `bootload` | `Screen` |
| `BootStage` | interrupts, screen and printing side by side | `LegacyIrq`, `Screen`, `Format` |
| `LegacyProofs` | the inductive invariant of the interrupts, and proofs for any interrupt lines, screens, formats and numbers | `BootStage`, `ScreenProofs` |
| `Format` | `print.c`, `convert.c`, the number printing of `bootload/scrn.c` | |
| `MCKernel`, `MCPmm`, `MCVmm`, `MCSetup`, `MCBootStage` | instances for TLC | |

**Cores, Smp, KernelMain.** `pc[c]` is where core `c` is, named after the line or
the operation (`bs_` for `launch_APs` and `bootstrap_arch`, `ap_` for
`_start_core`, `km_` for `kernel_main`, `el_` for `entry_launch`, `sa_` and `ip_`
for `space_alloc` and `init_protocol`). `sub[c]` is the position inside a called
`LOG`, `kmmap` or `get_frame`. A step is a piece of code with at most one access
to shared state: `booted_cpus_count++` is a load and a store, the two tests of the
polling loop and the call read `COREID` and the slot separately. `LOG` is four
steps (lock the interrupts, take the print lock, release it, unlock the
interrupts); only its locks are modelled, not what it prints. `lock_ints` is one step
here, although the code raises the level before its `cli`: this model has no timer
interrupt that could come in between, and a level has one core at a time
(`LevelOwner`). `get_frame` is one
interval `sub[c] = "frame"`: what matters here is that two cores are not in it
together, what it computes is module `Pmm`. `COREID` is the core's number when
`smp_status` is set and 0 otherwise. A program is a name with a number of loadable
segments; a file that `check_elf` refuses has none and its entry is still called,
as in the code. Every core has a program: the `NULL` that `parse_init` leaves for a core
the file does not name (`main.c:38` compares it all the same) is excluded
(`FileAssumption`). Waiting is an action that is not enabled. A core that executed a
fault, `hlt`, or reached user mode has no further step.

**Pmm.** Frames are numbers, addresses are in whole frames: the boot protocol
aligns usable entries, on which `align` is the identity. Each loop of the C code
is one step per turn, so there is no recursion. `used` is the set of bits that are
set; `flip_frame` toggles, as in the code, so a wrong number would set a bit.
Handing out a frame zeroes it: if it holds a part of the bitmap, `BitsIn` clears
those bits. `boot` are the frames handed out before the bitmap, `held[f]` counts
how often `f` was handed out since and not freed. `get_frame` runs one call at a
time, which is `FrameMutex` of the kernel model. `free_frame` is called with a frame its caller holds.

**Vmm.** One core makes the calls of a script on one address space; every turn of a
loop is a step. `pt` holds the entries that are not 0, an entry named by its level
and the page numbers above it, so that the recursive mapping needs no model of its
own; its entry is the last of the L4 table here and the 50th in the code, and none of the
calls comes to either. An index that is incremented keeps its nine bits (`Bump`): it wraps inside its
table. Sizes wrap at `Word`; the shifts drop the bits of an
address above the L4 index (`Low`). `get_frame` gives the least free frame, and a walk
that needs one when there is none stops (`OutOfFrames`). `pre` and `res` record what the tables were when a call
began and what it returned; the properties compare them.

**InitFiles.** A text is a sequence of cells, one for a run of digits and one for any
other character; `parse_init` overwrites cells with 0 as the code does, and the
names it returns are pointers into that text. `doc` is the file as it was written;
`ParsesMeaning` compares the two for well-formed files.

**Firmware.** A table is a name, a checksum that fits or not and an address space; the
MADT is a sequence of entries. `step[c]` is where core `c` is between `parse_RSDP` and
the end of its set-up. `maps[c]` are the devices in that core's page map and
`missed` the accesses to others. The HPET counts by itself (`Tick`).

**Capabilities.** The file is a sequence of lines with their words. A system call is
three steps: find the record, test its owner, store the new one. `raced` remembers on
which records two cores were between test and store, `held` what each program was told.

**Setup.** The parts share no variable in the code but the files and the order:
registration, tables and controllers on every core, `parse_init`, then the
capabilities. `init_capabilities_record` has no caller in this commit; machines whose
`records` is `"none"` leave the record zeroed as the kernel does, the others run it.

**Traps.** A core is a stack of activations: the kernel's code, and the handlers that
interrupted it. An activation is the list of steps it has left. A `LOG` has seven:
`lock_ints` raises the level and then runs `cli`, `unlock_ints` lowers it and then runs
`sti`, and the timer can come between the two. The kernel's code faults outside a `LOG`
or on what it prints; with the trap flag the debug exception comes at every step.

**Screen, Terminal.** The buffer is a function of cells, the cursor a column and a row;
`Shows` maps both to the lines of `Terminal`, which has neither buffer nor
scrolling.

**LegacyIrq.** The code of `start.s` behind `lmain`'s `sti`, interrupted at each step by
the lines the 8259s offer and by NMIs. The processor holds NMIs back from one to the next
`iret`. The handler of an NMI has none, but its gate leaves the flag on, and the `iret`
of an interrupt that comes to it lets the next NMI in: the handlers nest as deep as there
are NMIs. `putch` is two steps here (advance, scroll):
a keyboard interrupt can come between them. What runs behind `Disable_Paging` cannot be
reached: the routine has no `ret` and runs on into `Set_Paging`.

**Format.** `sprintf` one turn at a time; `dec`, `decX`, `putint`, `puthex` and the
`sput*` functions as recursive functions and operators, checked against the value of
the digits they produce. `putint` overflows an int when it multiplies `count` for the
numbers with the most digits, and when it negates the least int; both are undefined, so
`putint` is the set of the texts that builds print (it wraps at `-O0`, and the
multiplication and the division that follows cancel out at `-Ofast`). `puthex` writes to a
string literal that keeps the digits of the numbers before (`arr`).

**BootStage.** The three above have nothing in common but a console; one of them, chosen at the
start, moves. Its screen is one that no interrupt handler prints on.

Abstractions common to all: register values are reduced to what is on, masked or
mapped; names of programs stand for their bytes; the per-core stack and the
descriptor tables are not state the modelled code reads. External parts, modelled from
how the code uses them: the 8259s, the HPET's counter, the frame the processor pushes,
the memory map of the boot protocol.

## 3. Runs

| Run | Instance | Shows |
|---|---|---|
| `kernel_safety` | 3 cores, 7 init files | type, `FrameMutex`, `CoreIdReadable`, `LevelOwner`, `LevelsBalanced`, `MainMasksInts`, `BootBarrier`, `JoinsLoadedSpace`, `StatusStable` |
| `kernel_liveness` | 3 cores, two programs and a hanging core | `BootCompletes`: the wait for `booted_cpus_count` ends; `LaunchedCoreEnds`: the nested locks never block a loading core for ever |
| `kernel_wakeup` | 2 cores | violated: `AwokenCoresRun` |
| `kernel_shared` | 3 cores, a shared program | violated: `RunsOwnProgram` |
| `kernel_call` | 3 cores | violated: `CallsOnlyEntryLaunch` |
| `pmm_bitmap` | 6 memory maps, up to 10 frames | type, `Exclusive`, `BitmapExact`, `PanicOnlyWhenFull`, and `Implements`: the abstract allocator |
| `pmm_tight` | 2 maps with a short first entry | violated: `BootFramesKept` |
| `vmm_map` | tables of 6 entries, pages of 4 bytes, 96 scripts | type; `TreeOK`: no frame is in two places; `MapsRange`: exactly the pages asked for are mapped; `SearchesFree`: a search whose indices stay in their tables returns only pages that were free; `UnmapsRange`; `WalksEnd`: every walk ends, with two named exceptions |
| `vmm_stack` | one launch | violated: `StackUsable` |
| `setup` | 3 cores; families of machines | type; `LookupExact`, `ParsesMeaning`, `TablesRecorded`, `DevicesMapped`, `Calibrated`, `RecordsAgree`; `SetupEnds`: set-up ends or stops at a named place |
| `trap_flow` | 2 cores, exceptions 17, 127, the debug exception and the timer, 3 activations | type; `LevelCountsLogs`, `ReturnAligned`, `MaskedNotInterrupted`; `PrintComesBack`: the print lock is released unless its holder faulted inside a `LOG` |
| `boot_stage` | interrupts 0, 1, 12 and two NMIs on a 2x2 screen; a 4x3 screen alone; formats of up to 3 pieces, 12-bit numbers | type, and the blank rows below the cursor (`Screen`'s `IInv`); `IrqsServed`: an interrupt reaches its own handler and the master controller is ready again; `ScreenImplements`; `SprintfMeaning`; `NumbersExact` |

*Bounds of the kernel and the frame allocator.* Three cores are the fewest with two
application processors that race each other as well as the boot core. The init files
have every case `kernel_main` tells apart: hanging cores, distinct programs, a program
shared by two application processors or with the boot core, a file that is not an ELF
file, a missing file, fewer and more cores than the machine has. Segment counts 0, 1
and 2 are the refused header, one turn and several turns of the loop. The memory maps
have reserved entries, entries of one frame, several usable entries, a single one, and
none; a page of 4 bytes and words of 2 bits keep what matters: several frames are taken
before the bitmap, and the last word of the bitmap is incomplete and never searched.
The bitmap fits in its first frame in these instances; bitmaps of several frames are
covered by the proof. Counters that can wrap keep their width (`booted_cpus_count` and
the levels are bytes).

*Bounds of the other parts.* Six entries per table leave room for the search to meet
holes of one and two pages, and for ranges that cross the end of a table and of the
table above it. The scripts vary where a range begins and ends inside a page, and ask the searches for up
to 37 pages, one more than two levels of tables have, with one request of each kind that
`SearchesFree` excludes. Of the 48 frames
most scripts leave some; two need more than there are. In
`setup` each family varies what one part starts from and leaves the others as a usual
machine has them, since the parts share no state: init files of up to two lines (and
one of four) over lookups that hit, miss and meet truncated names; RSDTs in several orders, with a wrong
checksum and an HPET outside memory; MADTs of up to seven entries of every type; all
capability files with three body lines; and the repository's own capability file with
three cores that call. Three activations are the kernel's code, an
exception's handler and the timer's inside it. Vector 17 has no handler and a stub that gets
its frame wrong, 127 has one that returns and sets the trap flag, from which vector 1
comes; the others differ in the number of their `LOG`s. Two NMIs are the fewest
of which one comes to the handler of the other. Ints of 12 bits have numbers of four digits, for which
`count` overflows as it does for those of ten in 32 bits. A 4x3 screen with tab stops every two columns wraps,
tabs over the end of a line and scrolls.

*Fairness.* `FairSpec` of the kernel is weak fairness of each core's steps: every
processor executes instructions for ever, and nothing preempts it. The spinlocks are
not fair and none is assumed to be: `GRAB_LOCK` is a test and a swap, weak fairness of
the whole core does not make a particular grab succeed. `BootCompletes` and
`LaunchedCoreEnds` hold because the other cores' demand for the locks is finite. `Vmm`
has weak fairness of its one core, `Traps` of each core, `Setup` of each phase and core
and of the HPET's counter while it is on; no program has to make a system call and no
interrupt has to come. Liveness is checked without symmetry. Deadlock is checked
everywhere but in `boot_stage`, whose parts end: the boot stage in a halt or a wild
jump, `sprintf` at the end of its format.

## 4. What the violated runs show

* `kernel_wakeup`, `smp.c:94`: an application processor counts itself before it
  clears its launching slot. The boot core can write `entry_launch` in between; the
  clear erases it and the core polls for ever.
* `kernel_shared`, `main.c:49`: when two cores have the same program, the boot core
  itself enters the first one's address space in the middle of its loop and runs
  it. The later cores are not awoken.
* `kernel_call`, `smp.c:95`: `COREID` is 0 on all cores while another core boots, so
  the two tests of the polling loop can look at two different slots and the core
  calls an empty one.
* `pmm_tight`, `pmm.c:119`: before the bitmap, `get_frame` never uses the last frame
  of an entry and goes on with the next one; `init_pmm` marks the numbers 0 to n-1
  all the same. When the first usable entry is short, a frame reserved for the
  bitmap is handed out again.
* `vmm_stack`, `launch.c:181`: the stack is mapped writable, but the tables on the way
  to it were made by `space_alloc` for the read-only protocol page and `kmmap` keeps
  tables that are there. The program cannot write to its stack.

### Behaviour the models have and no property states

The models follow the code in these places too; the properties name them as exceptions
or leave them out:

* `vmm.c:114`: in `kmunmap` the bytes of a partial first page are subtracted from an
  unsigned size. A range inside one page wraps, and the walk frees the pages behind it;
  `UnmapsRange` is about the ranges that reach the end of their first page.
* `vmmwrapper.c:19`: `space_alloc` keeps its lock when no address is found, so the next
  call of the same core waits for itself (`LockKept`, an exception of `WalksEnd`).
* `vmm.c:284` and `vmm.c:394`: the searches compare a 9-bit index with 512, so a search
  in a table without room never ends (`Crowded`, the other exception).
* `vmm.c:375`: `search_available` returns the address of a table that is not there at once,
  however large the request, and it counts the pages of one table again from its start. A
  request of more pages than a table has, less one, can get pages that are in use.
* `vmm.c:241`: `get_size` goes on at the start of a table whose end it has passed. That is
  harmless when the table's first page is in use, which ends the count, and when its last
  entry is, which the index does not pass; after the first page of a table was freed, an
  address can be counted whose range runs into used pages. `Packed` is the condition in
  `SearchesFree`: no table of the devices has both of these free.
* `parse_init.c:5-11`: the comment numbers the cores from 1, the array and the
  repository's `init` file from 0.
* `parse_capability_map.c:126`: the lines of the first capability run to the end of the
  section, so further capabilities of it are lost. `TablesRecorded` is about sections
  with one.
* `capability_recorder.c:33`: two cores between test and store both get the capability
  (`raced`, the exception of `RecordsAgree`).
* `rsdt.c:23`: `parse_RSDP` reads the revision through a descriptor that is still null;
  where the byte there is 0, `parse_RSDT` has no table (a named stop of `SetupEnds`).
* `apic.c:79` writes the redirection entry of the irq, not of the global system
  interrupt of the override; `apic.c:133` gives NMIs fixed delivery.
* `kernel_exceptions.c:8`: when a `LOG` faults on what it prints, its handler waits for
  the print lock of the same core (`Orphaned`, the exception of `PrintComesBack`).
* `idt.c:227`: the timer is started and its handler never attached; its first interrupt
  ends in `LOG_PANIC` and `hlt`. The boot core waits for the others with interrupts on and
  the timer armed (`arch.c:124`), and the kernel model has no timer interrupt: what
  `BootCompletes` says is that the wait ends if that interrupt does not come first.
* `interrupt_lock.c:24-26`: `lock_ints` raises the level before it runs `cli`, so the
  timer can come at level 1. `MaskedNotInterrupted` is about code that has returned
  from `lock_ints`.
* `bootload/irq.c:101`: the second controller gets no end of interrupt; `IrqsServed` is
  about the first. `bootload/isr.c:189`: an interrupt may replace the number of an
  exception in `tab`. `bootload/start.s:23`: the stubs change `eax` before they save it.
  `bootload/Paging.s:4`: no `ret`. `bootload/scrn.c:132`: a key between the new line and
  the scroll is written behind the screen.
* `bootload/scrn.c:161-165`: the `count` of `putint` overflows for a number of ten digits;
  as built without optimisation, other digits are printed. `bootload/scrn.c:170`: the digits of a
  negative number are no characters for digits. `bootload/scrn.c:186`: `puthex` of zero and of negative numbers
  prints what is in its literal, and of a positive one the digits of longer numbers before its
  own. `NumbersExact` says nothing of the first three, and of the last only that the
  number's own digits end the text.

## 5. Proofs

Every theorem is about all values of the constants that the named assumptions allow, so
about any number of cores, files, frames, tables, records and calls, where a run has a
few of each. No property below is inductive; the tables say which invariant is, and TLC
checks these invariants on the runs' instances before they are proved.

### The kernel: `KernelProofs`

Any number of cores from 1 to 32 (`CountAssumption`, the `ASSERT` of `bootstrap_arch` and
`MAX_CORE`), any init files and programs (`FileAssumption`).

| Theorem | States |
|---|---|
| `TypeCorrect` | `Spec => []TypeOK` |
| `FrameExclusion` | `Spec => []FrameMutex` |
| `CoreIdSafe` | `Spec => []CoreIdReadable` |
| `BarrierHolds` | `Spec => []BootBarrier` |
| `LevelsOwned` | `Spec => []LevelOwner` |
| `StatusSafe` | `Spec => StatusStable` |
| `LevelsExact` | `Spec => []LevelsBalanced` |
| `MainMasked` | `Spec => []MainMasksInts` |
| `JoinSafe` | `Spec => []JoinsLoadedSpace` |

`IInv` says why the first six hold: the Bootstrap lock and lock 1 are owned by exactly
the core in the section they guard (`LockInv`); no application processor passes Bootstrap during `launch_APs`
(`LaunchInv`); `booted_cpus_count` is one more than the number of cores past their
increment, which lock 1 makes true although the increment is two steps
(`CountInv`); `smp_status` is clear exactly while one core is between its two
stores of it (`StatusInv`); slots are empty until the boot core is past its wait
(`PublishInv`); page maps are recorded and mapped in the order of the code
(`MapInv`). `FrameMutex` then follows by cases: the three ways into `get_frame` are
guarded by three different locks, and what keeps the first two apart from the
third is the phase of the boot, not a lock. `StatusStable` needs that a core
outside lock 1 logs only inside `launch_APs` or behind the barrier.

The last three need `LaunchIInv`. `LevelInv` gives the exact value of every lock level:
one for the `LOG` in progress under that identity and one for `kernel_main`'s
`lock_ints`. It rests on `LevelsOwned`, that two cores which share identity 0 are never in a
`LOG` at once. `EntryInv` and `JoinInv` follow an entry point from the core
that stores it to the boot core that enters its address space: the boot core leaves
its own page map only for one whose program is loaded.

### The frame allocator: `PmmProofs`

Any memory map with disjoint, non-empty entries (`MemmapAssumption`), any page and word
size (`SizeAssumption`).

| Theorem | States |
|---|---|
| `PmmTypeCorrect` | `Spec => []TypeOK` |
| `FramesExclusive` | `Spec => []Exclusive` |
| `PanicsWhenFull` | `Spec => []PanicOnlyWhenFull` |
| `BitmapIsExact` | `Spec => []BitmapExact` |
| `PmmRefines` | `Spec /\ []InFirstEntry => Implements` |

`PInv` says that the usable entries are disjoint
(`EntryInv`), that `loc_datas` is the running total of their lengths (`LocInv`), so
that the number of a frame is one to one (`NumInjective`), that the frames taken
before the bitmap are the first of the first entry (`BootInv`), and that a bit is
set exactly for the frames taken and the one being freed (`UsedInv`). That the
frames arch.c takes are enough for the bitmap is `BitmapFits`, from which the zeroing of a
frame never touches the bitmap. `SumInv` adds the lengths of the
entries up, in the order of `init_pmm` and of `get_frame`'s walk, so that a number below the
frame count is met before the entries end; `PanicsWhenFull` needs it. `InFirstEntry`, the condition under which the
allocator is right, is a hypothesis of the refinement: `pmm_tight` shows what happens
without it.

### The memory manager: `VmmProofs`

Any number of entries in a table, any page and word size that fit together, any script of calls
whose addresses and sizes are words (`VmmAssumption`).

| Theorem | States |
|---|---|
| `TypeCorrect` | `Spec => []TypeOK` |
| `Tree` | `Spec => []TreeOK` |
| `RangesMapped` | `Spec => []MapsRange` |
| `RangesUnmapped` | `Spec => []UnmapsRange` |
| `SearchesSafe` | `Spec => []SearchesFree` |

`TreeInv` adds to `TreeOK` that the calls are words and that an entry is named by its
level and number. `MappedInv` is the loop invariant of `kmmap`: page, offset and size left
add up to the end of the range, however the end of a table is crossed, and the entries that
are new are the pages passed. `UnmappedInv` is the one of `kmunmap`, for the ranges that
reach the end of their first page. `LockInv` says who can hold the two locks, so that
a call that returns has freed them.

`SearchesSafe` needs `SearchInv` besides. The searches read only entries, so the proof
has to say which pages an entry that is missing stands for (`NoLeaf`, `EntryPages`) and where an
index goes that is incremented (`BumpCases`, `BumpTable`). `SoughtInv`: `search_available` never
leaves the first table, and the pages it has counted are those before the current one; pages
counted before the index wrapped would have negative numbers, and the address made of
them lies in the kernel half, from where `kmmap` does not come back (`BelowZero`).
`SizeInv`: `get_size` has added up the pages between the address and the
current one, each time from the first page of a missing entry on (`Aligned`); where its index
has wrapped it stands on a page in use, so that the search goes on behind the table.
`PlacedInv` is the loop invariant of `kmmap_physical` behind a search: as the range was free, it
overwrites nothing. `KernelInv` keeps all of this below the kernel half.

### The set-up: `SetupProofs`

Any machines whose modules have names, whose init file has lines, whose RSDT has
one MADT and one HPET table, whose MADT has no more entries than there is room for, and whose
capability file has at least a line and addresses in hexadecimal digits (`SetupAssumption`, the assumptions of the
three parts).

| Theorem | States |
|---|---|
| `TypeCorrect` | `Spec => []TypeOK` |
| `Lookups` | `Spec => []LookupExact` |
| `DevicesSafe` | `Spec => []DevicesMapped` |
| `TimersCalibrated` | `Spec => []Calibrated` |
| `RecordsHeld` | `Spec => []RecordsAgree` |
| `TablesKept` | `Spec => []TablesRecorded` |
| `InitFileRead` | `Spec => []ParsesMeaning` |

`IInv` has one part for each module composed, and every step leaves two of the parts
alone (`Frames`). `FilesIInv`: the files are the modules registered so far, each under
its name cut to the array (`FilesInv`), and the text keeps its length while the parser
writes 0s into it (`TextInv`). `FirmwareIInv`: the boot core goes first and each `ONCE` has run by the time
the others start (`StepInv`), the walk has mapped the HPET once it is past its table (`MapsInv`), the
LAPIC and the HPET count together from the reset on (`TicksInv`), and `apic_info` has no more
entries than the walk has passed (`InfoInv`). `CapIInv`: no core runs while the records are
set up (`RecordInv`); between test and store a record is as the test saw it unless
another core is there too (`StoreInv`); what a core holds can be found again, and a core is only in
records that the search by name ends at (`HoldInv`), without which a record behind another of
the same name could be held for ever.

The last two compare what a parser has recorded with the whole of what it reads.
`MadtInv`: the lists of `apic_info` are those of the entries passed. `CapReadInv`: before the
first `CAPABILITY` line of the section the record is empty, behind it the record holds what the lines up
to the current one say (`ReadTo`). `ParseInv`: what is left of the text is laid out as the
lines of the file that are still to come, and each pointer returned so far is at the start
of a name that a 0 ends. It is about well-formed files, whose names have neither a new line nor an
end character (`WellFormed`): that the parser overwrites the text it walks over never touches
what is still to be read or what was returned.

### The traps: `TrapsProofs`

Any number of cores and any set of vectors.

| Theorem | States |
|---|---|
| `TypeCorrect` | `Spec => []TypeOK` |
| `LevelsCounted` | `Spec => []LevelCountsLogs` |
| `ReturnsAligned` | `Spec => []ReturnAligned` |
| `MaskedSafe` | `Spec => MaskedNotInterrupted` |

`IInv`: a core is in its code, at most one exception and the timer, each activation with the
steps it can have left (`StackInv`, `FlagInv`); a level counts the `LOG`s on the
stack (`LevelCountsLogs`); and interrupts are on only where no activation has returned
from a `lock_ints` that it has not undone, both now and in every
frame that a handler will return to (`MaskInv`). Only the innermost of these activations may
be between the level and the `cli`, where the timer finds the level at 1; it has the
interrupts off from there on. `MaskInv` is what an `iretq` in the middle
of a `LOG` could break. `MainInv` says that `kernel_main` logs nothing inside its own `lock_ints`.

### The screen: `ScreenProofs`

Any width and height and any tab stop that divides the width (`ScreenAssumption`; the code
has 80, 25 and 8). The assumption is a hypothesis of the theorems, as `Screen` is only ever
instantiated; `LegacyProofs` instantiates them too.

| Theorem | States |
|---|---|
| `Invariance` | `ScreenAssumption => (Spec => []IInv)` |
| `TypeCorrect` | `ScreenAssumption => (Spec => []TypeOK)` |
| `Implementation` | `ScreenAssumption => (Spec => ScreenImplements)` |

`IInv` adds to the type that the rows below the cursor's are blank (`BelowBlank`):
`putch` never clears the line it comes to, so that a fresh line of the terminal is one only because
nothing has been written below. `GoodScreens` says the same of a screen as a value.
The argument goes from the arithmetic of rows and columns (`Place`, `Rows`)
to what each operator leaves in the cells (`Settle`, `PutCases`, `UpCells`, `RubCells`), from
there to the lines (`FeedLine`, `PutView`, `RubView`), and then by the kind of character
(`PutchStep`) and of key (`KeyStep`). `supprl`'s loop is `SupprlRub`, with `Induct`.
A tab that reaches the width starts a new line like any other (`NextStops`), which needs that the tab
stop divides the width. The theorems are about a screen that no interrupt
handler prints on in the middle of a `putch`; `LegacyIrq` has that interleaving.

### The boot stage: `LegacyProofs`

Any interrupt lines and exceptions, any text, and devices that raise their lines any number of
times (`LegacyAssumption`); any two screens and any formats (`BootStageAssumption`).

| Theorem | States |
|---|---|
| `TypeCorrect` | `Spec => []TypeOK`, of `LegacyIrq` |
| `Served` | `Spec => []IrqsServed`, of `LegacyIrq` |
| `ScreenShows` | `BootSpec => ScreenImplements` |
| `BootTypeCorrect` | `BootSpec => []BootTypeOK` |
| `SprintfMeans` | `BootSpec => []SprintfMeaning` |
| `NumbersAreExact` | `BootSpec => []NumbersExact` |

`StackInv` says that of the handlers on the stack, of which there may be any number, only
a device's returns, and `OneIrq` that there is one of these at most; `ServeInv` that the flag is clear while an interrupt's
handler is anywhere on it and that the number in `tab` is that of the handler about to read it.
`ScreenShows` and `BootTypeCorrect` take those of `ScreenProofs` for the screen of `BootStage`: `Parts`
says that each part moves as it does alone, `SameScreen` and `SameTerminal` that the two instances of
`Screen` are the same.

The last two are about `Format`. They assume that a format does not contain the end
character and has an argument for each of its directives, as at every call of
the kernel, and that the numbers printed are ints (`FormatAssumption`). `NumbersAreExact` excludes
what its property does: `%d` of negative numbers and of those for which `count` overflows,
the screen's `%x` of zero and of negative numbers. `TextInv`: what is read of the format is written, the place is
never inside a directive, and the arguments taken are those of the directives
before. `NumberInv`: the digits written last are those of the number, and the literal of
`puthex` keeps its length and digits, so that a positive number stands at the end of it
whatever was there (`LiteralNumeral`). `putint`
makes the digits from the highest place down, `dec` and `decX` from the quotients, so that the
proofs go by induction on the place and on the number (`Strong`, `RecurBack`).

### Loops and searches: `Counting`

The code is full of searches for the first match and of loops that make a
value from the one before. `Smallest` (a set of numbers has a least one) is proved from
the well-foundedness of `<`. `Induct` and `Strong` state induction with a set for the
property, so that no operator parameter is needed; `Recur` and `RecurBack` say that a recursive
function exists, whose value is made from the one before or from that at any smaller number. With these, facts about recursive functions are proved for every
length: that the frames of the entries sum up (`PmmProofs`), that a number read by
`strtoul` fits a word however many digits it has (`NumberFits`), that the digits of a
number are worth it. `FlatIs` and `FlatStep` do the same for `FlattenSeq`, so that a text can
be built line by line, and `Prefixes` says that it keeps what it has. `Dividing` and `DivIs` are the division of
whole numbers.

### Only model-checked

Every invariant and every action property of the passing runs, and both refinements, are
theorems. Liveness is not: `BootCompletes`, `LaunchedCoreEnds`, `WalksEnd`, `SetupEnds` and
`PrintComesBack` need rules for fairness and `ENABLED` that these provers do not have. TLC
checks them on the instances of section 3.

## 6. Not modelled

* GDT, CPUID, control registers and tag look-up (`gdt.c`, `cpuinfo.c`, `cpu_regs.c`,
  `tagmgr.c`), straight-line code whose results nothing reads back; the serial port; the headers of the boot protocols.
* `set_ints`, `map_shdr`, `hpet_wait` and `send_interrupt_to_core`, which have no caller.
* The overflow of `available[20]` on machines with 20 usable entries, of printf's buffer
  of 500 bytes and of a count of ten digits in the init file: what lies behind these
  depends on the build.
* Machines without an APIC or an HPET table, or with two of them.
* Limine's half of the address space, which `create_page_directory` copies, and two
  address spaces at once in `Vmm`; what other cores do meanwhile is in `Cores`, where
  `kmmap` is a critical section. `kmunmap` takes no lock and only `space_free`, which has
  no caller, calls it.
* Exceptions inside handlers in `Traps`; in `LegacyIrq` the NMI stands for all
  exceptions.
* In the boot stage the walk of `printf` over its format, the GDT, `convert.c`, the serial
  port, and what lies behind the switch to paging, which cannot be reached.

## 7. Plan

Done: models of every component that has state of its own, and proofs of all that the runs
check but liveness. What would come next:

1. Two address spaces in `Vmm`, with `FrameAllocator` in place of its own frames.
2. The walk of the boot stage's `printf` over its format.
3. In `Firmware`, machines with no HPET table or with two of them.
