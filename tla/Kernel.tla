------------------------------- MODULE Kernel -------------------------------
(***************************************************************************)
(* The core of linda: the one CPU with its interrupt flag, the two         *)
(* spinlocks (ptable.lock and the console's cons), the process table, the  *)
(* context switch between the boot/scheduler stack and the kernel stacks   *)
(* of the processes, and the paths by which the kernel is entered: timer   *)
(* and keyboard interrupts, the trap gate of system calls, page faults.    *)
(*                                                                         *)
(* A thread is a kernel stack: 0 is the stack kern_bootstrap() and then    *)
(* scheduler() run on, p in Procs is the kernel stack of process p.  A     *)
(* stack holds at most two frames: code[t], what the thread itself does,   *)
(* and irq[t], the handler of a hardware interrupt taken on top of it.     *)
(* A frame is the function running, the place it has reached and its       *)
(* locals.  Steps are as large as interrupts allow: one step for code that *)
(* runs with IF clear, one step per access to shared state with IF set.    *)
(***************************************************************************)
EXTENDS Naturals, FiniteSets

CONSTANTS NPROC,            \* slots of ptable
          NBOOT,            \* times the boot code runs uinitproc_setup()
          CHARS             \* longest text one kprintf() writes (a bound)

ASSUME ProcAssumption ==
  NPROC \in Nat /\ NBOOT \in 1..NPROC /\ CHARS \in Nat \ {0}

Procs == 1..NPROC
Threads == 0..NPROC

IRQ0 == 32
IRQ1 == 33

VARIABLES
  cpu,          \* thread whose stack is in esp
  fl_if,        \* IF of eflags
  ncli, intena, \* curcpu.ncli, curcpu.intena
  held,         \* names of the spinlocks whose locked is 1
  state,        \* proc->state
  pid, nextpid, \* proc->pid and the counter
  built,        \* processes with a kstack, a context and a pgdir
  curprocess,   \* curcpu.curprocess, 0 for NULL
  cr3,          \* thread whose page directory is loaded, 0 for kpgdir
  esp0,         \* thread whose stack is in tss.esp0
  code, irq,    \* frames on the stacks
  tf_if,        \* IF in the eflags saved in proc->tf
  cursor,       \* the local variable proc of the boot thread, 0 for NULL
  irr,          \* interrupts the PIC holds pending
  fault         \* "none", or the panic the kernel has stopped with

hardware == <<cr3, esp0, irr>>
table == <<state, pid, nextpid, built, tf_if>>
counts == <<ncli, intena>>
stacks == <<code, irq>>
vars == <<cpu, fl_if, counts, held, table, curprocess, hardware, stacks,
          cursor, fault>>

-----------------------------------------------------------------------------
(* Frames                                                                  *)

Functions == {"idle", "boot", "alloc", "ready", "scheduler", "forkret",
              "print", "fault", "timer", "yield", "kbd"}

Places == {"idle", "sti", "pushcli", "cli", "take", "body", "scan", "uvm",
           "switch", "resume", "sched", "resumed", "drop", "popcli", "setup",
           "map", "check", "iret"}

\* fl is the eflags pushcli() read, saved the intena goto_scheduler() keeps,
\* n the characters console_write() has still to put.
Frames == [fn : Functions, at : Places, fl : BOOLEAN, saved : BOOLEAN,
           n : 1..CHARS]

Frame(f, w) == [fn |-> f, at |-> w, fl |-> FALSE, saved |-> FALSE, n |-> 1]

Idle == Frame("idle", "idle")

Top(t) == IF irq[t] = Idle THEN code[t] ELSE irq[t]
Here == Top(cpu)

\* Nothing of the kernel is on the stack of the running process.
InUser == cpu # 0 /\ Here = Idle

\* The next instruction runs: the kernel has not stopped in a panic and no
\* interrupt is delivered first.
Executing == fault = "none" /\ ~(fl_if /\ irr # {})

At(w) == Executing /\ Here.at = w
In(f, w) == At(w) /\ Here.fn = f

Become(f) ==
  IF irq[cpu] = Idle
    THEN code' = [code EXCEPT ![cpu] = f] /\ irq' = irq
    ELSE irq' = [irq EXCEPT ![cpu] = f] /\ code' = code

Goto(w) == Become([Here EXCEPT !.at = w])

\* The panics by the function that calls panic(), and the two ways a stack could
\* be overrun.
Faults == {"none", "acquire", "release", "popcli", "uinitproc_setup",
           "switch_to_uvm", "goto_scheduler", "stack in use",
           "nested interrupt"}

Panic(failed, why) == fault' = IF failed THEN why ELSE "none"

\* The lock a function takes: console_put() takes cons, the others ptable.lock.
LockOf(f) == IF f \in {"print", "fault", "kbd"} THEN "cons" ELSE "ptable"

Lock == LockOf(Here.fn)

\* Mutant: every gate is a trap gate.
TrapGates(gate) == fl_if

\* Interrupt gates clear IF on entry; only the gate of system calls is a trap
\* gate, which leaves it.
GateIF(gate) == fl_if /\ gate = "syscall"

-----------------------------------------------------------------------------
(* kernel/spinlock.c: acquire() is pushcli(), read then clear, and the     *)
(* exchange; release() is the store and popcli().                          *)

Pushcli ==
  /\ At("pushcli")
  /\ Become([Here EXCEPT !.at = "cli", !.fl = fl_if])
  /\ UNCHANGED <<cpu, fl_if, counts, held, table, curprocess, hardware,
                 cursor, fault>>

\* Mutant: pushcli() forgets to record IF.
KeepIntena(eflags) == intena

\* intena is recorded by the outermost pushcli() only.
Intena(eflags) == IF ncli = 0 THEN eflags ELSE intena

\* Mutant: pushcli() counts but does not mask.
CliUnmasked ==
  /\ At("cli")
  /\ intena' = Intena(Here.fl)
  /\ ncli' = ncli + 1
  /\ Goto("take")
  /\ UNCHANGED <<cpu, fl_if, held, table, curprocess, hardware, cursor, fault>>

Cli ==
  /\ At("cli")
  /\ fl_if' = FALSE
  /\ intena' = Intena(Here.fl)
  /\ ncli' = ncli + 1
  /\ Goto("take")
  /\ UNCHANGED <<cpu, held, table, curprocess, hardware, cursor, fault>>

Take ==
  /\ At("take")
  /\ Panic(Lock \in held, "acquire")
  /\ held' = held \cup {Lock}
  /\ Goto("body")
  /\ UNCHANGED <<cpu, fl_if, counts, table, curprocess, hardware, cursor>>

Drop ==
  /\ At("drop")
  /\ Panic(Lock \notin held, "release")
  /\ held' = held \ {Lock}
  /\ Goto("popcli")
  /\ UNCHANGED <<cpu, fl_if, counts, table, curprocess, hardware, cursor>>

\* Where a function goes on once its popcli() has returned.
After(f) ==
  CASE f.fn = "alloc" -> [f EXCEPT !.at = "setup"]
    [] f.fn = "ready" ->
         Frame(IF nextpid > NBOOT THEN "scheduler" ELSE "alloc", "pushcli")
    [] f.fn = "scheduler" -> [f EXCEPT !.at = "pushcli"]
    [] f.fn \in {"print", "fault"} /\ f.n > 1 ->
         [f EXCEPT !.at = "pushcli", !.n = f.n - 1]
    [] f.fn = "fault" /\ f.n = 1 -> [f EXCEPT !.at = "map"]
    [] OTHER -> [f EXCEPT !.at = "iret"]

Popcli ==
  /\ At("popcli")
  /\ Panic(fl_if \/ ncli = 0, "popcli")
  /\ ncli' = IF ncli = 0 THEN 0 ELSE ncli - 1
  /\ fl_if' = (fl_if \/ (ncli = 1 /\ intena))
  /\ Become(After(Here))
  /\ UNCHANGED <<cpu, intena, held, table, curprocess, hardware, cursor>>

-----------------------------------------------------------------------------
(* init/bootstrap.c and kernel/process.c: the boot thread                  *)

Sti ==
  /\ At("sti")
  /\ fl_if' = TRUE
  /\ Become(Frame("alloc", "pushcli"))
  /\ UNCHANGED <<cpu, counts, held, table, curprocess, hardware, cursor,
                 fault>>

FirstUnused(p) ==
  IF p = 0 THEN \A q \in Procs : state[q] # "UNUSED"
  ELSE /\ state[p] = "UNUSED"
       /\ \A q \in Procs : state[q] = "UNUSED" => p <= q

\* alloc_process() under the lock: the first free slot, if there is one.
AllocProcess ==
  /\ In("alloc", "body")
  /\ \E p \in Threads :
       /\ FirstUnused(p)
       /\ cursor' = p
       /\ state' = [q \in Procs |-> IF q = p THEN "EMBRYO" ELSE state[q]]
       /\ pid' = [q \in Procs |-> IF q = p THEN nextpid ELSE pid[q]]
       /\ nextpid' = IF p = 0 THEN nextpid ELSE nextpid + 1
  /\ Goto("drop")
  /\ UNCHANGED <<cpu, fl_if, counts, held, built, tf_if, curprocess, hardware,
                 fault>>

\* Mutant: uinitproc_setup() leaves tf->eflags zeroed.
UserIFClear == FALSE

\* tf->eflags = FL_IF.
UserIF == TRUE

\* The kernel stack, the page directory and the trap frame, none of it under
\* a lock: the rest of alloc_process() and uinitproc_setup() up to acquire().
UinitprocSetup ==
  /\ In("alloc", "setup")
  /\ Panic(cursor = 0, "uinitproc_setup")
  /\ built' = built \cup ({cursor} \cap Procs)
  /\ tf_if' = [p \in Procs |-> IF p = cursor THEN UserIF ELSE tf_if[p]]
  /\ code' = [t \in Threads |->
                IF t = 0 THEN Frame("ready", "pushcli")
                ELSE IF t = cursor THEN Frame("forkret", "drop")
                ELSE code[t]]
  /\ UNCHANGED <<cpu, fl_if, counts, held, state, pid, nextpid, curprocess,
                 hardware, irq, cursor>>

MakeRunable ==
  /\ In("ready", "body")
  /\ state' = [state EXCEPT ![cursor] = "RUNABLE"]
  /\ Goto("drop")
  /\ UNCHANGED <<cpu, fl_if, counts, held, pid, nextpid, built, tf_if,
                 curprocess, hardware, cursor, fault>>

-----------------------------------------------------------------------------
(* kernel/scheduler.c and kernel/process.c: scheduling                     *)

\* Mutant: the scan starts over after each process.
StartOver == IF At("resume") THEN 1 ELSE cursor + 1

\* proc++ of the for loop.
NextSlot == cursor + 1

ScanStart ==
  /\ In("scheduler", "body")
  /\ cursor' = 1
  /\ Goto("scan")
  /\ UNCHANGED <<cpu, fl_if, counts, held, table, curprocess, hardware, fault>>

ScanSkip ==
  /\ At("scan")
  /\ cursor \in Procs /\ state[cursor] # "RUNABLE"
  /\ cursor' = NextSlot
  /\ UNCHANGED <<cpu, fl_if, counts, held, table, curprocess, hardware, stacks,
                 fault>>

\* Mutant: the scheduler does not record whom it runs.
ScanRunUnnamed ==
  /\ At("scan")
  /\ cursor \in Procs /\ state[cursor] = "RUNABLE"
  /\ state' = [state EXCEPT ![cursor] = "RUNNING"]
  /\ Goto("uvm")
  /\ UNCHANGED <<cpu, fl_if, counts, held, pid, nextpid, built, tf_if,
                 curprocess, hardware, cursor, fault>>

ScanRun ==
  /\ At("scan")
  /\ cursor \in Procs /\ state[cursor] = "RUNABLE"
  /\ curprocess' = cursor
  /\ state' = [state EXCEPT ![cursor] = "RUNNING"]
  /\ Goto("uvm")
  /\ UNCHANGED <<cpu, fl_if, counts, held, pid, nextpid, built, tf_if, hardware,
                 cursor, fault>>

ScanEnd ==
  /\ At("scan")
  /\ cursor \notin Procs
  /\ Goto("drop")
  /\ UNCHANGED <<cpu, fl_if, counts, held, table, curprocess, hardware, cursor,
                 fault>>

\* Its pushcli() and popcli() cancel out, but for the flags they leave.
SwitchToUvm ==
  /\ At("uvm")
  /\ Panic(cursor \notin built, "switch_to_uvm")
  /\ esp0' = cursor
  /\ cr3' = cursor
  /\ intena' = Intena(fl_if)
  /\ fl_if' = (fl_if /\ ncli = 0)
  /\ Goto("switch")
  /\ UNCHANGED <<cpu, ncli, held, table, curprocess, irr, cursor>>

\* switch_context(): the scheduler's stack is left where it is, the stack of
\* the process goes on where it was left.
SwitchToProcess ==
  /\ At("switch")
  /\ cpu' = cursor
  /\ Goto("resume")
  /\ UNCHANGED <<fl_if, counts, held, table, curprocess, hardware, cursor,
                 fault>>

\* Mutant: the scheduler stays in the address space of the process.
StayInUvm ==
  /\ At("resume")
  /\ cursor' = NextSlot
  /\ Goto("scan")
  /\ UNCHANGED <<cpu, fl_if, counts, held, table, curprocess, hardware, fault>>

SwitchToKvm ==
  /\ At("resume")
  /\ cr3' = 0
  /\ cursor' = NextSlot
  /\ Goto("scan")
  /\ UNCHANGED <<cpu, fl_if, counts, held, table, curprocess, esp0, irr, fault>>

YieldCpu ==
  /\ In("yield", "body")
  /\ state' = [state EXCEPT ![curprocess] = "RUNABLE"]
  /\ Goto("sched")
  /\ UNCHANGED <<cpu, fl_if, counts, held, pid, nextpid, built, tf_if,
                 curprocess, hardware, cursor, fault>>

\* The four checks, then switch_context() to the stack of the scheduler.
GotoScheduler ==
  /\ At("sched")
  /\ Panic(\/ "ptable" \notin held
           \/ ncli # 1
           \/ fl_if
           \/ state[curprocess] = "RUNNING", "goto_scheduler")
  /\ Become([Here EXCEPT !.at = "resumed", !.saved = intena])
  /\ cpu' = 0
  /\ UNCHANGED <<fl_if, counts, held, table, curprocess, hardware, cursor>>

\* The rest of goto_scheduler(), when the process has the CPU again.
Resumed ==
  /\ At("resumed")
  /\ intena' = Here.saved
  /\ Goto("drop")
  /\ UNCHANGED <<cpu, fl_if, ncli, held, table, curprocess, hardware, cursor,
                 fault>>

-----------------------------------------------------------------------------
(* The handlers, and the way out of the kernel                             *)

\* console_put() itself: the cursor and the frame buffer belong to cons.
ConsolePut ==
  /\ At("body") /\ Lock = "cons"
  /\ Goto("drop")
  /\ UNCHANGED <<cpu, fl_if, counts, held, table, curprocess, hardware, cursor,
                 fault>>

\* Mutant: yield_cpu() without acquire().
YieldUnlocked == Frame("yield", "body")

\* yield_cpu() begins with acquire().
Yield == Frame("yield", "pushcli")

TimerHandler ==
  /\ In("timer", "check")
  /\ IF curprocess # 0 /\ state[curprocess] = "RUNNING"
       THEN Become(Yield)
       ELSE Goto("iret")
  /\ UNCHANGED <<cpu, fl_if, counts, held, table, curprocess, hardware, cursor,
                 fault>>

\* kbd_read() has a character for console_put(), or -1.
KbdHandler ==
  /\ In("kbd", "check")
  /\ \E w \in {"pushcli", "iret"} : Goto(w)
  /\ UNCHANGED <<cpu, fl_if, counts, held, table, curprocess, hardware, cursor,
                 fault>>

\* mmap_do_map(): the page allocator, the kernel heap and mmaplist, no lock.
MmapDoMap ==
  /\ At("map")
  /\ Goto("iret")
  /\ UNCHANGED <<cpu, fl_if, counts, held, table, curprocess, hardware, cursor,
                 fault>>

\* trapret: an interrupt was taken with IF set, a thread returns to user mode.
Iret ==
  /\ At("iret")
  /\ Become(Idle)
  /\ fl_if' = (irq[cpu] # Idle \/ tf_if[cpu])
  /\ UNCHANGED <<cpu, counts, held, table, curprocess, hardware, cursor, fault>>

-----------------------------------------------------------------------------
(* arch/x86: entry through the gates.  From user mode the CPU takes the    *)
(* stack in tss.esp0; in the kernel it stays on the stack it is on.        *)

EnterFromUser(gate, f) ==
  /\ Executing /\ InUser
  /\ cpu' = esp0
  /\ Panic(Top(esp0) # Idle, "stack in use")
  /\ code' = [code EXCEPT ![esp0] = f]
  /\ tf_if' = [tf_if EXCEPT ![esp0] = fl_if]
  /\ fl_if' = GateIF(gate)
  /\ UNCHANGED <<counts, held, state, pid, nextpid, built, curprocess, hardware,
                 irq, cursor>>

\* int $64: print() or the message about an unknown call, 1 to CHARS long.
Syscall ==
  \E n \in 1..CHARS :
    EnterFromUser("syscall", [Frame("print", "pushcli") EXCEPT !.n = n])

\* page_fault_handler() prints the address first.
PageFault ==
  \E n \in 1..CHARS :
    EnterFromUser("page fault", [Frame("fault", "pushcli") EXCEPT !.n = n])

\* The PIC delivers IRQ0 before IRQ1; interrupt_handler_dispatcher() sends the
\* end of interrupt before it calls the handler.
Interrupt ==
  /\ fault = "none" /\ fl_if /\ irr # {}
  /\ LET v == IF IRQ0 \in irr THEN IRQ0 ELSE IRQ1
         t == IF InUser THEN esp0 ELSE cpu
     IN  /\ irr' = irr \ {v}
         /\ cpu' = t
         /\ Panic(irq[t] # Idle, "nested interrupt")
         /\ irq' = [irq EXCEPT ![t] =
                      Frame(IF v = IRQ0 THEN "timer" ELSE "kbd", "check")]
  /\ fl_if' = GateIF("interrupt")
  /\ UNCHANGED <<counts, held, table, curprocess, cr3, esp0, code, cursor>>

\* The devices, at any moment.
Raise(v) ==
  /\ fault = "none" /\ v \notin irr
  /\ irr' = irr \cup {v}
  /\ UNCHANGED <<cpu, fl_if, counts, held, table, curprocess, cr3, esp0, stacks,
                 cursor, fault>>

Tick == Raise(IRQ0)
Key == Raise(IRQ1)

-----------------------------------------------------------------------------
Init ==
  /\ cpu = 0
  /\ fl_if = FALSE
  /\ ncli = 0 /\ intena = FALSE
  /\ held = {}
  /\ state = [p \in Procs |-> "UNUSED"]
  /\ pid = [p \in Procs |-> 0]
  /\ nextpid = 1
  /\ built = {}
  /\ curprocess = 0
  /\ cr3 = 0 /\ esp0 = 0
  /\ code = [t \in Threads |-> IF t = 0 THEN Frame("boot", "sti") ELSE Idle]
  /\ irq = [t \in Threads |-> Idle]
  /\ tf_if = [p \in Procs |-> FALSE]
  /\ cursor = 0
  /\ irr = {}
  /\ fault = "none"

LockStep == Pushcli \/ Cli \/ Take \/ Drop \/ Popcli
BootStep == Sti \/ AllocProcess \/ UinitprocSetup \/ MakeRunable
ScheduleStep ==
  \/ ScanStart \/ ScanSkip \/ ScanRun \/ ScanEnd
  \/ SwitchToUvm \/ SwitchToProcess \/ SwitchToKvm
  \/ YieldCpu \/ GotoScheduler \/ Resumed
HandlerStep ==
  ConsolePut \/ TimerHandler \/ KbdHandler \/ MmapDoMap \/ Iret

\* What the CPU does without being asked to by a user program or a device.
KernelStep == LockStep \/ BootStep \/ ScheduleStep \/ HandlerStep \/ Interrupt

Next == KernelStep \/ Syscall \/ PageFault \/ Tick \/ Key

\* The CPU never stops between two instructions and the timer always ticks
\* again; user programs and the keyboard owe nothing.
Fairness == WF_vars(KernelStep) /\ WF_vars(Tick)

Safety == Init /\ [][Next]_vars
Spec == Safety /\ Fairness

-----------------------------------------------------------------------------
TypeOK ==
  /\ cpu \in Threads
  /\ fl_if \in BOOLEAN
  /\ ncli \in Nat /\ intena \in BOOLEAN
  /\ held \subseteq {"ptable", "cons"}
  /\ state \in [Procs -> {"UNUSED", "EMBRYO", "RUNABLE", "RUNNING"}]
  /\ pid \in [Procs -> Nat] /\ nextpid \in Nat
  /\ built \subseteq Procs
  /\ curprocess \in Threads
  /\ cr3 \in Threads /\ esp0 \in Threads
  /\ code \in [Threads -> Frames] /\ irq \in [Threads -> Frames]
  /\ tf_if \in [Procs -> BOOLEAN]
  /\ cursor \in 0..(NPROC + 1)
  /\ irr \subseteq {IRQ0, IRQ1}
  /\ fault \in Faults

\* No check of the kernel's own fails (acquire, release, popcli, goto_scheduler,
\* switch_to_uvm), no handler is interrupted and no kernel stack is entered while
\* it is in use, whatever the order of ticks, keys, calls and faults.
NoPanic == fault = "none"

\* spinlock.c keeps IF clear as long as a lock is held or a pushcli() is open:
\* otherwise a handler on the same CPU would spin on, or panic over, the lock of
\* the code it interrupted.
MaskDiscipline ==
  /\ fl_if => ncli = 0 /\ held = {}
  /\ held # {} => ncli = 1 /\ Cardinality(held) = 1

\* The process that executes is the one curcpu names, in its own address space,
\* and a trap would land on its own stack; the scheduler is in a process's address
\* space only between switch_to_uvm() and switch_to_kvm(), under the lock; user
\* mode is entered with interrupts on and nothing held.
ContextMatches ==
  /\ cpu # 0 => curprocess = cpu /\ cr3 = cpu /\ esp0 = cpu
  /\ cpu = 0 /\ cr3 # 0 =>
       cr3 = curprocess /\ held = {"ptable"} /\ Here.at \in {"switch", "resume"}
  /\ InUser => fl_if /\ held = {} /\ ncli = 0 /\ state[cpu] = "RUNNING"

\* RUNNING means to have the CPU: at most one process is RUNNING, and when
\* ptable.lock is free it is the one whose stack executes.
OneRunning ==
  /\ \A p \in Procs : state[p] = "RUNNING" => curprocess = p
  /\ "ptable" \notin held =>
       \A p \in Procs : state[p] = "RUNNING" <=> cpu = p

\* The page allocator, the heap and mmaplist have no lock: at most one thread is
\* ever inside them, although the boot thread is interruptible there and page
\* faults of several processes alternate.
InAllocator(t) == \E f \in {code[t], irq[t]} : f.at \in {"setup", "map"}

AllocatorExclusive ==
  \A t, u \in Threads : InAllocator(t) /\ InAllocator(u) => t = u

\* curcpu.intena is one word for all stacks: the popcli() that closes a function's
\* critical section still finds there the IF its own pushcli() read, even if other
\* stacks ran in between.  scheduler() and forkret() are left out: their release
\* closes an acquire made on another stack.
RestoresOwnIF ==
  Here.at = "popcli" /\ Here.fn \notin {"scheduler", "forkret"} =>
    intena = Here.fl

\* A process changes state, or the CPU changes stack, only under ptable.lock with
\* interrupts off, and the lock is handed over with the CPU.
ScheduleUnderLock ==
  [][state' # state \/ cpu' # cpu =>
       /\ held = {"ptable"} /\ held' = held
       /\ ncli = 1 /\ ~fl_if /\ ~fl_if']_vars

\* What RoundRobin sees of the kernel: a process owns the CPU from the moment the
\* scheduler picks it to the moment yield_cpu() puts it back.
Owner ==
  IF \E p \in Procs : state[p] = "RUNNING"
    THEN CHOOSE p \in Procs : state[p] = "RUNNING" ELSE 0

Ready == {p \in Procs : state[p] = "RUNABLE"}

\* scheduler() and yield_cpu() share the CPU round robin: each process picked is
\* the first ready one cyclically after the one before it.
RR == INSTANCE RoundRobin WITH
        N <- NPROC, owner <- Owner, ready <- Ready, last <- curprocess

RoundRobinSafety == RR!Safety

\* Once the scheduler has begun to hand the CPU out, a process that waits for it
\* gets it, even under a storm of keys and of ticks.
NoStarvation ==
  \A p \in Procs : state[p] = "RUNABLE" /\ curprocess # 0 ~> cpu = p

\* A tick is not left pending for ever, although the scheduler runs masked: each
\* process it enters sets IF again.
TickServed == IRQ0 \in irr ~> IRQ0 \notin irr

\* scheduler.h:19 says of intena that it records whether interrupts were on before
\* pushcli(): the scheduler's popcli() would then find what its own acquire() read.
SchedulerRestoresIF ==
  Here.at = "popcli" /\ Here.fn = "scheduler" => intena = Here.fl

=============================================================================
