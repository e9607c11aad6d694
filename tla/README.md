# linda: a verification project

linda is a small x86 kernel in C for one CPU: multiboot entry, physical and
virtual memory, a heap, interrupts, a console, a keyboard, a round-robin
scheduler with user processes, one system call, and the beginnings of a disk
driver. The modules here model its logic from `src/`; TLC checks them on small
instances, and TLAPS proves what they check, but for liveness and the string
functions, for every value of the constants. Paths below are relative to `src/`.

## Inventory

| component | source | state | operations |
|---|---|---|---|
| locks, interrupt masking | `kernel/spinlock.c` | `locked` of each lock, `curcpu.ncli`, `curcpu.intena`, IF | acquire, release, pushcli, popcli |
| scheduler, context switch | `kernel/scheduler.c`, `arch/x86/switch.S` | `curcpu.curprocess`, `curcpu.scheduler`, tss, cr3, the scan's `proc` | scheduler, goto_scheduler, yield_cpu, switch_context |
| process table | `kernel/process.c` | `ptable`, `nextpid` | alloc_process, uinitproc_setup, forkret (fork, exit, wait, sleep, wakeup, kill are commented out) |
| traps | `arch/x86/trap.c`, `trapasm.S` | `idt`, `trap_handlers`, the PIC's pending requests | trap_init, register_trap_handler, interrupt_handler_dispatcher, trapret |
| timer | `drivers/timer.c` | none | timer_setup, timer_handler |
| keyboard | `drivers/kbd.c`, `kbd.h` | `shift` | kbd_read, kbd_trap_handler |
| console | `drivers/console.c` | `console_x`, `console_y`, the frame buffer, the cursor, lock `cons` | console_put, console_write, console_clear, their colour variants |
| system calls | `kernel/syscall.c`, `sysapi.c` | none (reads `tf`, `size`) | syscall, fetch_int, fetch_str, argint, argptr, argstr, print |
| page frames | `mm/memory.c` | `mem_map`, a stack of frames | phy_mem_init, phy_mem_alloc, phy_mem_free |
| kernel pages | `mm/vmmgr.c` | `kvmlist` | kvm_init, kvm_alloc_page, kvm_alloc_umapped_page, kvm_free_page, kvm_map_page, kvm_unmap_page |
| page maps | `mm/mmap.c` | `kpgdir`, each `pgdir`, `mmaplist` | kmap_init, mmap_do_map, mmap_do_unmap, umap_init, uvm_init, page_fault_handler, switch_to_uvm, switch_to_kvm |
| kernel heap | `mm/kmalloc.c` | `kmem_list` | kmalloc, kmfree, chunk_split, chunk_glue |
| disk buffers, IDE | `fs/buf.c`, `drivers/ide.c` | `bufs`, `idelock`, each buf's lock and flags | buf_read, buf_write, buf_remove, buf_get, ide_execute, ide_handler |
| library | `lib/kprintf.c`, `lib/string.c`, `lib/ctypes.c` | `___strtok` | vsprintf, number, kprintf, panic, the string functions |

How they interact, and what makes each correct:

- **Everything runs on one CPU and shares its interrupt flag.** `kern_bootstrap()`
  executes `sti()` before it sets up the first process, so the boot code, the
  scheduler loop, system calls (a trap gate leaves IF set) and user programs can be
  interrupted anywhere; the timer, keyboard and page-fault handlers cannot. Locks are
  taken with interrupts masked and are never spun on: a taken lock is a panic. The
  correctness of locking is that IF is clear while a lock is held, that nesting is
  undone exactly, and that no check of the code ever fails.
- **Processes share one `curcpu`.** `ncli`, `intena`, `curprocess`, the TSS and cr3
  belong to the CPU, not to a stack; `ptable.lock` is taken on one stack and released
  on another. The switch is correct if the stack, the address space, the trap stack
  and `curprocess` always agree, at most one process is RUNNING, and everyone ready is
  served in turn.
- **Memory is layered.** `page_fault_handler()` and `uvm_init()` take frames of
  `mm/memory.c`, record mappings in blocks of `kmalloc()`, whose pages come from
  `kvm_alloc_page()`. None of these has a lock. They are correct if no two threads are
  ever inside them at once, no frame has two owners, the heap's blocks never overlap,
  and one process's mapping never disturbs another's.
- **The disk queue is shared** by processes in `buf_read()` and `buf_write()`, which are
  preempted between any two accesses of it, and `ide_handler()`, which takes from it in
  an interrupt. It is correct if a request gets to the drive however the processes
  preempt each other, and the drive's answers reach the buffers they are for, each once.
- **A system call's argument** goes from the process's stack to its memory to the
  format of `vsprintf()`, which reads characters, and pointers to more of them. It is
  correct if the kernel reads nothing outside the process's memory, and the text
  produced says what was passed.
- **The console is shared** by `kprintf()` in any thread and by the keyboard
  interrupt, under `cons`, except for `console_clear()`. It is correct if text stays
  in order and on the screen.

Hard to test: interrupts between any two instructions outside masked code, `intena`
overwritten by other stacks, the hand-over of `ptable.lock`, starvation, long
sequences of `kmalloc`/`kmfree` that fragment and glue chunks, exhaustion of frames,
boundaries of the memory map, scan codes of several keys interleaved. `PROJECT.json`
lists each at its line.

## Plan

| order | module | what | status |
|---|---|---|---|
| 1 | `Kernel` | locks, scheduler, process table, traps, timer, and the console lock, keyboard, system calls and page faults as far as they interact with them | done |
| 2 | `RoundRobin` | abstract scheduler, implemented by `Kernel` | done |
| 3 | `KernelInv`, `MCKernel`, `KernelProofs` | inductive invariant, safety theorems, refinement, bounded waiting | done |
| 4 | `KHeap`, `Heap`, `KHeapProofs` | the heap, its abstract specification, theorems | done |
| 5 | `PhysMem`, `FramePool`, `PhysMemProofs` | frames and kernel pages, abstract ownership, theorems | done |
| 6 | `PageMaps`, `PageMapsProofs` | page tables, `mmaplist`, `uvm_init()`, page faults, theorems | done |
| 7 | `Keyboard`, `Console`, `KeyboardProofs`, `ConsoleProofs` | decoding of keys, the screen, theorems | done |
| 8 | `Disk`, `DiskProofs` | buffer queue, `ide_execute()`, `ide_handler()`, the drive, theorems | done |
| 9 | `Strings`, `Format`, `Syscall`, `Library` | string functions and formatting against reference definitions; fetching of system call arguments | done |
| 10 | `LibraryProofs` | the kernel stays in the process's memory, `vsprintf()` in its format | done |
| 11 | `LibraryProofs` | what the string functions, `number()` and `simple_strtoul()` compute, by least counterexample | done |

## The modules

### Kernel: the CPU, locks, processes

`Kernel` composes the locks, the scheduler, the process table and every way into the
kernel, because their correctness is one question: what happens between an interrupt
and the return from it. A *thread* is a kernel stack: 0 is the stack of
`kern_bootstrap()` and then `scheduler()`, `p` the one of process `p`. `code[t]` is the
frame of what the thread itself does, `irq[t]` that of a hardware interrupt on top of
it; a frame has the function, the place reached in it, and its locals (the eflags
`pushcli()` read, the `intena` that `goto_scheduler()` saved, the characters left to
put). `cpu` is the thread whose stack is in esp.

Steps are as large as interrupts allow: code that runs with IF clear is one step, code
with IF set one step per access to shared state, so that a handler can come between
the read of eflags in `pushcli()` and its `cli()`. The actions are those of the code:
`Pushcli`, `Cli`, `Take`, `Drop`, `Popcli` (spinlock.c); `Sti`, `AllocProcess`,
`UinitprocSetup`, `MakeRunable` (process.c); `ScanStart` to `ScanEnd`, `SwitchToUvm`,
`SwitchToProcess`, `SwitchToKvm`, `YieldCpu`, `GotoScheduler`, `Resumed` (scheduler.c);
`TimerHandler`, `KbdHandler`, `ConsolePut`, `MmapDoMap`, `Iret`; and the environment:
`Syscall`, `PageFault`, `Interrupt`, `Tick`, `Key`. A panic sets `fault` and stops the
model. `RoundRobin` is the scheduler without locks, stacks and interrupts: when the
CPU is free it goes to the first ready process cyclically after the last one. In the
refinement a process owns the CPU from `proc->state = RUNNING` to the `RUNABLE` of
`yield_cpu()`.

### KHeap: kmalloc and kmfree

`KHeap` keeps `kmem_list` as a sequence of chunks in link order and takes one step per
iteration of `kmalloc()`'s search; `Grow` appends a page and glues, `Kmfree` clears,
frees and glues. `holds` tracks what is in a chunk's bytes: zeros, what the RAM came up
with, or what a caller or a merged header has left. Neither `kvm_alloc_page()` nor
`alloc_free_chunk_from_kvm()` clears a page, so a new chunk holds the second. Pages come
in ascending order, some of them to others (`OtherPage`). `Heap` is its abstract
specification: blocks that overlap nothing, taken back one by one; a block of `Heap`
is a used chunk.

### PhysMem and PageMaps: pages

`PhysMem` runs the boot's memory steps in order, `PhyMemInit`, `KmapInit`, `KmapPop`
for each round of the popping loop, `KmapPush`, `KvmInit`, and then lets callers use
both allocators in any order. Kernel page p is frame p. Only what is compared with
`kern_end`, which need not be page aligned, is counted in words. `FramePool` is the
abstract specification of both together: a frame has at most one owner.

`PageMaps` keeps each page directory as a function from pages to frames, `mmaplist` as a
sequence of blocks and `heap` as the set of blocks `kmalloc()` has given out. `DoMap`
and `DoUnmap` are `mmap_do_map()` and `mmap_do_unmap()` as functions on that state,
because `mmap_do_map()` begins with a call of the other. `UvmInit` is a whole
`uinitproc_setup()`; `PageFault` a whole fault. `umap_init()` sets the kernel's half of
a page directory and nobody clears the other, so `DIRTY` is the set of processes whose
page did not come up zero; the link of a fresh block, which nobody sets either, is taken
to be 0. It uses `phy_mem_alloc()` and `kmalloc()` as `FramePool` and `Heap` specify
them, and that its steps do not overlap is `AllocatorExclusive` of `Kernel`.

### Keyboard and Console: devices

`Keyboard` has the keyboard (keys held, bytes on the wire) as environment and
`kbd_read()` in three actions by the kind of byte. `shift` is the set of its bits. No key
has code 0x60, whose release would be the prefix itself.
Macros are modelled by what they expand to: `~E0ESC` is `~1<<6`.

`Console` has `console_put()` and `console_put_color()` as one step each, since they run
under `cons` with interrupts off, and `console_clear()` access by access, since it does
not: each cell, each coordinate, the position, and each of the four port writes of the
cursor. The cursor shown is two byte registers and the one selected; `console_init()`
leaves it where the boot loader had it (`CURSOR`), and the position is a `ushort_t`. The
frame buffer goes one row beyond the screen on both sides, where the code reads
(scrolling) and writes (a column below 0).

### Disk: buffers and the drive

`Disk` has one action per access of the queue: `Look`, `SetQueue`, `Head`, `Walk`,
`Hop`, `LinkNext`, `LinkPrev`, `Count` are the code that `buf_read()` and `buf_write()`
have in common; what `Look` and `Walk` test, `Head` and `Hop` load again, and a walk
without a header (`WalkNull`) ends the model. `count` is read by nobody, so its `++` is
one step. `Acquire` and `Command` are `ide_execute()`, where IF is clear. `Tick` gives
the CPU to the other process between any two of them, `IdeHandler` is a whole interrupt.
The drive is the environment: it transfers a sector, or fails, and pends its interrupt
each time. `insl()` reads a whole buffer whatever the drive has ready, and the drive may
be quick enough for more than one sector. Nobody sets the links of a new buffer: they
hold `UNSET`, what the memory of `kmalloc()` has there, which is NULL in the runs and,
as the assumption `LinksUnset`, in the theorems. `acquire()` with the lock held and
`goto_scheduler()` with `ncli` above 0 panic, which ends the model; `idelock` is never
released, so the second request does.

### Strings, Format, Syscall: the library and its caller

`Strings` has the functions of `string.c` as operators on a memory, a function from
addresses to characters; a loop that looks for an end is the first place where its
condition fails, another a recursive function of the index it runs over, and one that
writes gives the memory it leaves, byte by byte in the order of the code.
`strtok()` is two actions, because of the pointer it keeps. `Format` has `number()`,
`simple_strtoul()` and `skip_atoi()` as operators and `vsprintf()` as a machine that reads
the format character by character, one action per part of a conversion; arguments are
chosen where `va_arg()` takes them, and `%s` reads the memory of `Strings`. `Syscall` takes
the argument of `print()` from that memory, which is then the process's, and goes on with
its string as the format. `Library` puts the three together for TLC.

## The runs

| run | instance | shows |
|---|---|---|
| `kernel` | 4 slots, 3 processes, texts up to 2 characters | all safety properties of the core, the refinement to `RoundRobin`, and, under fairness, `NoStarvation` and `TickServed` |
| `kernel_inductive` | 3 slots, all used | `IInv`, the inductive invariant of the proofs, and `BoundedBypass`: while a process waits, fewer dispatches of others go by than there are processes |
| `heap` | pages of 9 words, headers of 2, 4 pages, requests of 2 and 4 | tiling, no leftovers in what is handed out, refinement to `Heap` |
| `heap_split` | 3 pages | violated `RoomToSplit`: a fitting chunk makes `chunk_split()` panic |
| `phys_mem` | pages of 4 words, frames 1 to 7, kernel below 5 | ownership, the split of memory, the end of the boot's loop |
| `phys_mem_available` | the same | violated `AvailableOnly`: the page behind the memory is handed out |
| `page_maps` | 3 processes, 3 pages each, 5 frames | list and heap agree, frames are private, pages stay |
| `page_maps_null` | 2 processes, 3 frames | violated `NoNullFrame`: an exhausted fault maps frame 0 |
| `keyboard` | 8 keys, 3 bytes buffered | no stuck modifier, no stray prefix |
| `console` | 3 rows of 4, tabs of 2, all kinds of characters, clearing | row on the screen, text in order |
| `disk` | 2 processes, 3 buffers of 2 sectors | the head of the queue stays the buffer asked for, answers reach their own buffer, each once, the first request gets through, every command is answered or the kernel stops |
| `library` | memories of 6 characters of 4 kinds, ints of 8 bits, 2,600 formats; system calls with 2-character addresses | string functions and numbers against reference definitions, `vsprintf()` inside its format, the kernel inside the process's memory |

Why the bounds are enough. Three processes are the least for which an unfair scan
differs from a fair one, and for a process to be preempted while two others run; one
more slot makes the scan skip, a full table makes it end behind a process. Two
characters let an interrupt come between the characters of one `kprintf()`. `CHARS`,
`NPROC` and `NBOOT` are the only bounds of `Kernel`; its proofs hold for every value.
In `heap`, requests of 2 and 4 words in a page of 9 with headers of 2 make every
outcome of the search happen: an exact fit, a split, a chunk too small, one too small
to split, merges of two neighbours and of neighbours in different pages, and four
pages give non-adjacent ones, a full heap and the panic for want of a page. `phys_mem`
has frames of the kernel image, of the stack of frames, of the kernel's mapping, of
the rest and behind the end. In `page_maps` the second and third processes go through
the window that the first has used, and the frames run out. In `keyboard` two bytes of
a prefixed key and the byte of another fit the buffer, and both sides' modifiers, a
lock, a letter and an arrow are among the keys. In `disk` two processes are enough for
one to be preempted while another changes the queue, and two sectors for an interrupt
that comes after the answer. `library`: in six bytes two strings overlap in every way, and
a text of three characters with a delimiter has none, one or two tokens; differences of
characters and of addresses wrap; the formats have every combination of the flags that
affect each other, width, precision and qualifier, ended at every place, and the numbers
LONG_MIN, -1 and 0. Each behaviour there makes one call, or one series of calls of
`strtok()`, since nothing else is kept between calls. `MARGIN` and the sizes of the screen
bound `console`: every put is made at the last column, the last row and behind both.

`CHECK_DEADLOCK FALSE` is set where the system stops: in `PhysMem` after the panic of
`kvm_alloc_page()`, in `PageMaps` when every page is mapped, in `heap_split`
and in `Disk` after panics, in `Library` when the call has returned.

Fairness. `Kernel` assumes weak fairness of `KernelStep`, the CPU executing, and of
`Tick`, the timer, which the hardware gives. It assumes nothing of user programs or
of the keyboard, and the properties hold under any storm of keys. `NoStarvation` is
conditioned on the scheduler having run once: before, interrupts back to back can
keep the boot code from ever ending. `PhysMem` assumes that the boot code goes on
(`WF_vars(Boot)`); interrupts are off there. `Disk` assumes that the CPU goes on
(`WF_vars(Step)`), that the drive answers (`Drive`), and that a pending interrupt is taken
while IF stays set (`Handle`); it assumes nothing of callers or ticks.

## Findings

Three runs end in a violation and are the findings of `PROJECT.json`. The modules state
more properties that the code does not have. They are not among the runs; each is
refuted by TLC when it is made the only `INVARIANT` of the configuration named.

| predicate | configuration | what happens |
|---|---|---|
| `Kernel!SchedulerRestoresIF` (`scheduler.h:19`) | `Kernel.cfg` | `intena` is written by the processes in between, so `release()` in `scheduler()` leaves interrupts off after the first switch. Harmless: `TickServed` |
| `KHeap!FreeIsZero` (`mmap.c:97`, `buf.c:22`) | `KHeapSplit.cfg` | nobody clears a fresh page, though `mmap_do_map()` and `buf_read()` set no link: `NoLeftovers` is what holds of every block, zero only what the RAM came up with |
| `KHeap!AllGlued` (`kmalloc.c:45`) | `KHeapSplit.cfg` | a pass of `chunk_glue()` merges at most one pair |
| `KHeap!SearchesGrownHeap` (`kmalloc.c:141`) | `KHeapSplit.cfg` | after the heap has grown the search goes on from a header that may have been merged away, and returns NULL |
| `PhysMem!ReturnsFreed` (`memory.c:74`) | `PhysMemAvailableOnly.cfg` with `GARBAGE = 9` | the last frame before NULL is the unwritten slot 0 |
| `PageMaps!DirectoryEmpty` (`mmap.c:223`) | `PageMaps.cfg` with `DIRTY = {1}` | `umap_init()` leaves the user half of a page directory as the RAM came up; `FramesPrivate` and `PagesStay` fail as well |
| `PageMaps!RecordOfEach` (`mmap.c:128`) | `PageMapsNoNullFrame.cfg` | a fault of one process removes the record of another's page |
| `Console!ColumnShown` (`console.c:14`) | `Console.cfg` | backspace at column 0 gives column -1 |
| `Console!Cleared` (`console.c:145`) | `Console.cfg` | `console_clear()` runs without its lock: a key's character stays among the cells already cleared |
| `Console!CursorMoved` (`console.c:35`) | `Console.cfg` | a character put while `console_clear()` moves the cursor leaves it shown elsewhere than the next character goes |
| `Keyboard!HeldIsSet` (`kbd.h:22`) | `MCKeyboard.cfg` | `~E0ESC` is `~1<<6`, so a key that sends 0xE0 clears shift, control, alt and the locks |
| `Disk!TaskCarriedOut` (`ide.c:126`) | `Disk.cfg` | `idelock` is not released: the second request panics in `acquire()` |
| `Disk!Emptied` (`buf.c:100`) | `Disk.cfg` | a removed head leaves its successor a `prev`, so that `buf_remove()` of the last buffer takes it for one at the end and keeps it as the queue |
| `Disk!HeaderStays` (`buf.c:48`) | `Disk.cfg` | `ide_handler()` empties the queue after it was tested and before it is loaded again: the walk has no header |
| `Disk!HandlerHasBuf` (`buf.c:119`) | `Disk.cfg` | the second sector of a block interrupts with the queue empty |
| `Disk!ReadIsOwn` (`ide.c:110`) | `Disk.cfg` | `ide_wait()` does not look at ERR, and `insl()` takes sectors that are not there: junk is marked as read |
| `Syscall!StaysInTable` (`syscall.c:119`) | `Library.cfg` | a number above `SYS_PRINT` calls what lies behind the table |
| `Library!FitsBuffer` (`kprintf.c:305`) | `Library.cfg` | `vsprintf()` has no bound: a wide field is longer than the buffer |
| `Library!ShortsConvert` (`kprintf.c:144`) | `Library.cfg` | gcc makes `va_arg(args, short)` an invalid instruction, the two `ud2` of `linda.asm:4726` |

## The proofs

**The core** (`KernelInv`, `KernelProofs`). None of the safety properties is inductive:
`NoPanic` needs to know which lock state goes with each place of the code, that in
turn what the interrupted stacks look like. `IInv` says it in five parts:

- `StackInv`: which function can be at which place on which stack, and what a thread
  without the CPU looks like (never built, never run, or preempted inside a tick);
- `MaskInv`: the places that imply IF set or clear, and that a process returns to user
  mode with IF set;
- `LockInv`: `ncli`, `held` and IF by the place of the running frame, and
  `intena = fl` inside every critical section that closes on its own stack;
- `BootInv`: the process table during the boot, one embryo at a time;
- `ScheduleInv`: RUNNING, `curprocess`, cr3, esp0 and the cursor by the place of the
  boot thread.

`Init => IInv` and `IInv /\ [Next]_vars => IInv'`, one step per action and under it one
per part, give `Invariance`; `TypeCorrect`, `PanicFree`, `MaskDisciplineHolds`,
`ContextMatchesHolds`, `OneRunningHolds`, `AllocatorExclusiveHolds` and
`RestoresOwnIFHolds` follow from it, and `ScheduleUnderLockHolds` from it and the
actions. Assumption: `ProcAssumption`.

**The refinement** (`KernelProofs`, second part). That a dispatch picks the first ready process
after the last one is a fact about slots already scanned: `ScanInv` says that nothing
between the process picked last and the cursor is RUNABLE, which needs the lock to be
held during the scan, from `IInv`. With both, every step maps to a step of `RoundRobin`
or a stutter (`ImplementsRoundRobin`). `BoundedBypassHolds` rests on the same facts:
`PassedInv` bounds the count of `MCKernel` by how far round the table the CPU has come
since it was at p's slot, and a dispatch that passes p moves it on by one slot at least.

**The heap** (`KHeapProofs`). `HeapInv` strengthens `Tiling` and `NoLeftovers` by the
place of the next page (new chunks lie above the old ones). Lemmas say of each list
operation, split, merge, append, change of flags, that it keeps chunks apart, in
ascending order and covering the same pages. From the invariant: `HeapTiles`,
`HeapKeepsNothing`, `KmfreeFreesItsOwn` and `HeapImplementsBlocks`, the refinement of `Heap`.
Assumption: `HeapAssumption`.

**Frames and kernel pages** (`PhysMemProofs`). `KernelKeptHolds` needs `PagesInv` only:
`kvm_init()` marks every page the kernel uses and nothing unmarks one. That no frame is
given out twice needs the whole stack: `BootInv` says that the boot's pops come in order
of address, so that `kmap_init()` stops at the first frame that is not the kernel's, and
`StackInv` that from then on each frame of the others is on the stack once or with one
owner. The stack never grows beyond its end, because its height and the number of owned
frames together never exceed the number of frames there were. `OneOwnerHolds` is the
refinement of `FramePool`. It assumes, as `NoPage`, that the word at slot 0, which
`phy_mem_init()` never writes and the last `phy_mem_alloc()` before NULL returns
(`memory.c:78`), is not the number of a page; TLC finds `OneOwner` violated when it is.
`SplitHolds` assumes that the word is 0, as in memory that was cleared. Assumption:
`MemAssumption`.

**Page maps** (`PageMapsProofs`). Removing the first block of `mmaplist` makes the list
empty, whatever else is on it; the kernel loses no block (`ListIsHeapHolds`) only because
the first one is removed once, when it is alone: the window's, in the first `uvm_init()`.
`OrderInv` says why it is not afterwards: it is for a page 0, and a process maps its page 0
while it has no page table, so that `mmap_do_unmap()` returns before it looks at the
list. The lemmas say what removing a block does to a list without
duplicates, that opening and shutting the window leaves every page table and the list as
they were (`WindowShut`), and that a fresh block exists. From `MapsInv`: `ListIsHeapHolds`,
`FramesPrivateHolds`, and with the actions `PagesStayHolds`. All four assume `RamIsZero`,
that the pages that become page directories came up zero: the code relies on it, and with
another page `FramesPrivate` is false. Assumption: `MapsAssumption`.

**The disk** (`DiskProofs`). Processes are preempted anywhere in `buf_read()` and
`buf_write()`, so the queue can lose buffers; what is true of it is `LinksInv`, until
the first answer: the head has no predecessor, nothing leads to a buffer before its
process has linked it, none is queued by two processes. Afterwards no command is given
any more: `idelock` is never released and `ncli` never returns to 0 (`LockInv`), which
keeps every tick from changing the process. So the one command ever given is answered
with its buffer at the head (`HeadIsAsked`) and its data stays (`AnswerIsItsOwn`).
`FirstGetsThroughHolds` rests on the same: until that command, whoever finds the queue
in use finds a head in it (`QueueThere`), since no interrupt of the drive takes it away,
and the lock is free. All of them assume `LinksUnset`, that the links of a new buffer
come up NULL. `AnsweredOnceHolds` also assumes `SECTORS <= 2`, the size of a block of
`fs.h` in sectors: with three, TLC finds a head that is removed although it has a
predecessor, stays, and is taken as answered again. Assumption: `DiskAssumption`.

**The console** (`ConsoleProofs`). `ScreenInv` adds to the two properties that, while
text is put straight on, the column leaves room for one more character. `SettleShown` and
`SettleBlank` are about `console_scroll()` and `console_move()`: the row stays on the
screen, and what follows the cursor stays blank when the text moves up with it; `PutInv`
shows that each kind of character moves the cursor forward. Assumption:
`ConsoleAssumption`.

**The keyboard** (`KeyboardProofs`). That no modifier sticks is a fact about bytes not yet
read. `KeyInv` states it by position: for each modifier that no key holds down, either it
is clear and no byte to come presses it, or some byte to come releases it and none after
that presses it. What a byte means depends only on whether the byte before it is the
prefix, so reading shifts the positions by one (`ReadShifts`), and sending adds one byte
with a meaning at the end (`SendMeans`), which needs that the wire never ends in a prefix.
That a prefixed press clears all modifiers (the finding `HeldIsSet`) does no harm here.
Assumption: `KeyAssumption`.

**The library** (`LibraryProofs`). A user picks esp, the number of the call and the string
that `print()` reads as a format, so the bounds checks have to hold for all of them.
`LibraryInv` says that what has been read of the process is its own, that `*fmt` is at a
character of the format or at its terminator, and that memory and esp are sound. The place
where `strlen()` and `skip_atoi()` stop is the least of a set of naturals that is not
empty (`LeastNatural`, `FirstEnd`, `DigitsEnd`); `ArgIntInside` and `ArgStrInside` treat
the sums that wrap: the size of a process is at most half of the address space, so that
a check whose sum would wrap has refused the address before; where the address of the
argument itself wraps, the checks see only the result. `FormattingStays` has one step
per action of `vsprintf()`: only one that saw a character other than the terminator moves
on. From the invariant: `KernelStaysInside`, `PointersStayInside`, `FormatStaysInside`.
Assumptions: `StringsAssumption`, `FormatAssumption`, `SyscallAssumption` and
`LibraryAssumption` (the four characters that `Library` tells apart), and for numbers
`PowerAssumption`, the arithmetic of `2^W`, which the provers do not know.

What the functions compute is proved for every memory and count too. A loop is a
recursive function `f`, a choice among the solutions of its equation, so each proof first
shows a solution and then that every solution has its values at the places the loop
reaches: the least place where it had not would follow one where it has
(`SameRecursion`, by `LeastNatural`; no induction theorem is used). For a copy the
solution is the memory after `k` bytes, moved at once; `ForwardMoves` needs that the
destination does not begin inside the source, and `memmove()` turns round just where it
does. A search has its value from the first place it stops at (`SearchUp`, `SearchDown`),
which needs one it can stop at: the terminator, where the domain of the function ends.
`CopiesHold` and `FindsHold` follow, the latter from what the comparisons do at the first
characters that differ.

`TokensAllHold` takes an invariant between the calls of `strtok()`. `Cut` says that behind
the place where it goes on, its frontier, memory is as the text was, and that the frontier
does not follow a character of a token; that every token returned begins a run of the
text and has its characters and a terminator before the frontier; and that every run that
begins before the frontier was returned. A call cuts at the first delimiter behind the
next run (`StrSpnIs`, `StrPBrkIs`, `NewToken`), or leaves the last one to the text's own
terminator.

`RoundTripHolds` says what digits are for: `Spells(ds, v, b)` that there is a run of
partial sums, as `simple_strtoul()` keeps it, from 0 to `v` over `ds`. One more digit takes
`v` to `v * b + d` (`OneDigit`), which is what `do_div()` took apart, so `number()`'s digits
spell its number (`DigitsSpell`, for the least number whose digits did not); zeros in front
spell nothing (`ZerosInFront`); no sum reaches `2^W`, so none wraps (`ReadsDigits`).
Whatever the flags, the text is padding and sign, prefix, zeros, digits and padding
(`LaidOut`), and reading starts at its first digit (`TextReads`). `NumberReads` adds the
sign: `-LONG_MIN` wraps to itself, and its digits, taken as unsigned, are right. The
widths have to be integers: `SkipAtoiNumber`.

Only model-checked: liveness (`NoStarvation`, `TickServed`, `BootEnds`, `Answered`), which
TLAPS does not reach with fairness. Every other property of a passing run is a theorem,
under the assumptions named above.

## What is not modelled

- In `Disk`: the two processes go to user mode between calls, nobody frees a buffer, and
  another interrupt than the timer's and the drive's is left out, since none touches the
  queue. The locks of buffers are taken and released inside one handler.
- In `Strings`: `memset()` and `bcopy()`. In `Format`: the stores of `%n`, widths near the
  limits of an int, and where the text goes, which is `Console`; `sprintf()` and `panic()`
  call the same `vsprintf()`. The arguments of a format that a process passes to
  `print()` are not its own but what is on the kernel's stack: any number or string.
- In `Kernel`: a program raises only system calls and page faults at user addresses;
  memory suffices, so that allocations during boot and faults succeed (`PhysMem`,
  `PageMaps` and `KHeap` say what happens otherwise); end-of-interrupt commands, IRQ7,
  traps without a handler; after a panic the model stops. `NBOOT` generalises the one
  call of `uinitproc_setup()` that `kern_bootstrap()` makes.
- In `PhysMem`: the memory map has one available region above 1 MB that reaches beyond
  `MEM_NORMAL`, as `bochs.cfg` configures the machine; with less, `kmap_init()` never
  ends. `kvm_unmap_page()` is called for free pages only.
- In `PageMaps`: the kernel's half of the page directories, faults at kernel addresses
  (marked `@TODO`), contents of pages, `kmalloc()` returning NULL, page tables beyond
  the first of a process. That no page that was used comes back to `kvm_alloc_page()`
  does not make it zero: the runs have `DIRTY = {}` and the theorems assume it
  (`RamIsZero`), as memory that an emulator clears gives it. That the unset link of a
  fresh block is 0 is assumed by the model; with another link `mmap_do_map()` follows it
  out of the list.
- In `Keyboard`: the character tables. In `Console`: colours; the memory around
  the screen starts blank.
- `drivers/pic.c`, entry code, the boot loader: port writes and machine set-up.
  `fs/fs.c`, `fs/file.c`, `fs/exec.c`, `kernel/exec.c` hold no code; `linda.asm`,
  `linda.sym` and `linda.elf` are build products; most files of `usr/` are empty.
