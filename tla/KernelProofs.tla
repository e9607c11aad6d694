---------------------------- MODULE KernelProofs ----------------------------
(***************************************************************************)
(* Theorems about the kernel core for every size of the process table,     *)
(* every number of processes booted and every length of text: the          *)
(* invariant IInv and what follows from it; that the kernel implements the *)
(* round-robin scheduler RoundRobin, the scan of scheduler(), the          *)
(* preemptions in its middle and yield_cpu() included; and that no process *)
(* waits longer than one round.                                            *)
(***************************************************************************)
EXTENDS MCKernel, FiniteSetTheorems, TLAPS

-----------------------------------------------------------------------------
(* Frames                                                                  *)

LEMMA FrameType ==
  ASSUME NEW f \in Functions, NEW w \in Places
  PROVE  Frame(f, w) \in Frames
BY ProcAssumption DEF Frame, Frames

LEMMA ThreadsOfProcs ==
  /\ 0 \in Threads
  /\ \A p \in Procs : p \in Threads /\ p # 0
  /\ \A t \in Threads : t = 0 \/ t \in Procs
BY ProcAssumption DEF Threads, Procs

LEMMA IdleType == Idle \in Frames
BY FrameType DEF Idle, Functions, Places

LEMMA HereType ==
  ASSUME TypeOK
  PROVE  Here \in Frames
BY DEF TypeOK, Here, Top

\* What Become(f) leaves behind on the stacks has the type of a frame.
LEMMA BecomeType ==
  ASSUME TypeOK, NEW f \in Frames, Become(f)
  PROVE  /\ code' \in [Threads -> Frames]
         /\ irq' \in [Threads -> Frames]
BY DEF TypeOK, Become

LEMMA GotoType ==
  ASSUME TypeOK, NEW w \in Places, Goto(w)
  PROVE  /\ code' \in [Threads -> Frames]
         /\ irq' \in [Threads -> Frames]
<1>1. [Here EXCEPT !.at = w] \in Frames
  BY HereType DEF Frames
<1> QED BY <1>1, BecomeType DEF Goto

\* A function goes on, after its popcli(), at one of its places.
LEMMA AfterType ==
  ASSUME NEW f \in Frames
  PROVE  After(f) \in Frames
<1>1. [f EXCEPT !.at = "setup"] \in Frames
  BY DEF Frames, Places
<1>2. Frame(IF nextpid > NBOOT THEN "scheduler" ELSE "alloc", "pushcli") \in Frames
  BY FrameType DEF Functions, Places
<1>3. [f EXCEPT !.at = "pushcli"] \in Frames
  BY DEF Frames, Places
<1>4. f.n > 1 => [f EXCEPT !.at = "pushcli", !.n = f.n - 1] \in Frames
  <2>1. f.n \in 1..CHARS /\ CHARS \in Nat
    BY ProcAssumption DEF Frames
  <2>2. f.n > 1 => f.n - 1 \in 1..CHARS
    BY <2>1
  <2>3. "pushcli" \in Places
    BY DEF Places
  <2> QED BY <2>2, <2>3 DEF Frames
<1>5. [f EXCEPT !.at = "map"] \in Frames
  BY DEF Frames, Places
<1>6. [f EXCEPT !.at = "iret"] \in Frames
  BY DEF Frames, Places
<1> QED BY <1>1, <1>2, <1>3, <1>4, <1>5, <1>6 DEF After

-----------------------------------------------------------------------------
(* Type correctness                                                        *)

\* The locations a step may move a frame to.
LEMMA PlaceTypes ==
  /\ \A w \in {"pushcli", "cli", "take", "body", "scan", "uvm", "switch",
               "resume", "sched", "resumed", "drop", "popcli", "setup", "map",
               "check", "iret"} : w \in Places
  /\ \A f \in {"print", "fault", "timer", "yield", "kbd", "alloc", "ready",
               "scheduler", "forkret"} : f \in Functions
BY DEF Places, Functions

LEMMA TypeInit == Init => TypeOK
<1> SUFFICES ASSUME Init PROVE TypeOK
  OBVIOUS
<1>1. Frame("boot", "sti") \in Frames
  BY FrameType DEF Functions, Places
<1>2. code \in [Threads -> Frames] /\ irq \in [Threads -> Frames]
  BY <1>1, IdleType DEF Init
<1>3. 0 \in Threads /\ 0 \in 0..(NPROC + 1) /\ 1 \in Nat
  BY ProcAssumption DEF Threads
<1>4. fault \in Faults
  BY DEF Init, Faults
<1>5. cpu \in Threads /\ curprocess \in Threads /\ cr3 \in Threads /\ esp0 \in Threads
  BY <1>3 DEF Init
<1>6. cursor \in 0..(NPROC + 1) /\ nextpid \in Nat /\ ncli \in Nat
  BY <1>3 DEF Init
<1>7. held \subseteq {"ptable", "cons"} /\ irr \subseteq {IRQ0, IRQ1} /\ built \subseteq Procs
  BY DEF Init
<1>8. state \in [Procs -> {"UNUSED", "EMBRYO", "RUNABLE", "RUNNING"}]
  BY DEF Init
<1>9. pid \in [Procs -> Nat] /\ tf_if \in [Procs -> BOOLEAN]
  BY DEF Init
<1>10. fl_if \in BOOLEAN /\ intena \in BOOLEAN
  BY DEF Init
<1> QED BY <1>2, <1>4, <1>5, <1>6, <1>7, <1>8, <1>9, <1>10 DEF TypeOK

-----------------------------------------------------------------------------
(* What a step that moves only the running frame keeps                     *)

\* The running frame is the one Become() has put there.
LEMMA BecomeHere ==
  ASSUME TypeOK, NEW f \in Frames, f # Idle, Become(f), cpu' = cpu
  PROVE  Here' = f
<1>1. CASE irq[cpu] = Idle
  BY <1>1 DEF TypeOK, Become, Here, Top, Idle, Frame
<1>2. CASE irq[cpu] # Idle
  BY <1>2 DEF TypeOK, Become, Here, Top, Idle, Frame
<1> QED BY <1>1, <1>2

LEMMA BecomeStack ==
  ASSUME TypeOK, StackInv, NEW f \in Frames,
         f.at # "idle", f.fn = Here.fn, ShapeOK(f), Become(f),
         UNCHANGED <<cpu, built>>,
         irq[cpu] # Idle => ~f.fl /\ ~f.saved /\ ~fl_if',
         f.fn = "fault" => ~f.fl
  PROVE  StackInv'
<1>1. CASE irq[cpu] = Idle
  <2>1. code' = [code EXCEPT ![cpu] = f] /\ irq' = irq /\ code[cpu].fn = f.fn
    BY <1>1 DEF Become, Here, Top
  <2>2. \A p \in Procs : p # cpu => Suspended(p)'
    BY <2>1 DEF StackInv, Suspended, TypeOK, Threads, Procs, Interruptible
  <2> QED BY <1>1, <2>1, <2>2 DEF StackInv, TypeOK, Threads, Procs, ShapeOK
<1>2. CASE irq[cpu] # Idle
  <2>1. irq' = [irq EXCEPT ![cpu] = f] /\ code' = code /\ irq[cpu].fn = f.fn
    BY <1>2 DEF Become, Here, Top
  <2>2. \A p \in Procs : p # cpu => Suspended(p)'
    BY <2>1 DEF StackInv, Suspended, TypeOK, Threads, Procs, Interruptible
  <2> QED BY <1>2, <2>1, <2>2
        DEF StackInv, TypeOK, Threads, Procs, ShapeOK, Interruptible
<1> QED BY <1>1, <1>2

\* A step that leaves the process table and the address space alone, and does
\* not leave or enter the places where they are out of step with the stacks.
Aligned(f) == f.at \notin {"idle", "uvm", "switch", "resume", "sched"}

LEMMA BecomeTables ==
  ASSUME TypeOK, StackInv, BootInv, ScheduleInv, NEW f \in Frames,
         f.fn = Here.fn, Become(f), Aligned(f), Aligned(Here),
         Embryonic(f) <=> Embryonic(Here),
         UNCHANGED <<cpu, table, curprocess, cr3, esp0, cursor>>
  PROVE  BootInv' /\ ScheduleInv'
<1>1. Here' = f
  BY BecomeHere DEF Aligned, Idle, Frame
<1>2. CASE irq[cpu] = Idle /\ cpu = 0
  <2>1. code'[0] = f /\ irq' = irq /\ Here = code[0]
    BY <1>2 DEF Become, Here, Top, TypeOK
  <2>2. BootInv'
    BY <1>2, <2>1 DEF BootInv, Embryonic, table
  <2>3. ScheduleInv'
    BY <1>1, <1>2, <2>1 DEF ScheduleInv, Aligned, table
  <2> QED BY <2>2, <2>3
<1>3. CASE irq[cpu] # Idle \/ cpu # 0
  <2>1. code'[0] = code[0] /\ \A p \in Procs : p # cpu => irq'[p] = irq[p]
    BY <1>3, ProcAssumption DEF Become, TypeOK, Threads, Procs
  <2>2. BootInv'
    BY <2>1, ProcAssumption DEF BootInv, Embryonic, table, Procs
  <2>3. ScheduleInv'
    BY <1>1, <2>1 DEF ScheduleInv, Aligned, table
  <2> QED BY <2>2, <2>3
<1> QED BY <1>2, <1>3

\* A step that moves the running frame within its function.
LEMMA GotoFrame ==
  ASSUME TypeOK, NEW w \in Places
  PROVE  LET f == [Here EXCEPT !.at = w]
         IN  /\ f \in Frames
             /\ f.at = w /\ f.fn = Here.fn /\ f.fl = Here.fl
             /\ f.saved = Here.saved /\ f.n = Here.n
BY HereType DEF Frames

\* The frame of a handler was entered with IF clear; so was that of a fault.
LEMMA HereStack ==
  ASSUME TypeOK, StackInv
  PROVE  /\ ShapeOK(Here)
         /\ irq[cpu] # Idle => ~Here.fl /\ ~Here.saved
         /\ Here.fn = "fault" => ~Here.fl
         /\ irq[cpu] # Idle <=> Here.fn \in {"timer", "yield", "kbd"}
         /\ cpu = 0 /\ irq[cpu] = Idle <=>
              Here.fn \in {"boot", "alloc", "ready", "scheduler"}
<1>1. cpu \in Threads /\ (cpu = 0 \/ cpu \in Procs)
  BY ProcAssumption DEF TypeOK, Threads, Procs
<1>2. CASE irq[cpu] = Idle
  <2>1. Here = code[cpu]
    BY <1>2 DEF Here, Top
  <2>2. cpu \in Procs => Here.fn \in {"idle", "forkret", "print", "fault"}
    BY <2>1 DEF StackInv
  <2>3. cpu = 0 => Here.fn \in {"boot", "alloc", "ready", "scheduler"}
    BY <2>1 DEF StackInv
  <2>4. ShapeOK(Here) /\ (Here.fn = "fault" => ~Here.fl)
    BY <1>1, <2>1 DEF StackInv
  <2> QED BY <1>1, <1>2, <2>2, <2>3, <2>4
<1>3. CASE irq[cpu] # Idle
  <2>1. Here = irq[cpu]
    BY <1>3 DEF Here, Top
  <2>2. ShapeOK(Here) /\ ~Here.fl /\ ~Here.saved
    BY <1>1, <2>1 DEF StackInv
  <2>3. Here.fn \in {"idle", "timer", "yield", "kbd"}
    BY <1>1, <2>1 DEF StackInv
  <2>4. Here.fn # "idle"
    BY <1>3, <2>1, <2>2 DEF ShapeOK
  <2> QED BY <1>3, <2>2, <2>3, <2>4
<1> QED BY <1>2, <1>3

LEMMA PushcliStep ==
  ASSUME IInv, Pushcli
  PROVE  IInv'
<1> DEFINE f == [Here EXCEPT !.at = "cli", !.fl = fl_if]
<1> USE DEF IInv
<1>1. /\ f \in Frames
      /\ f.at = "cli" /\ f.fn = Here.fn /\ f.fl = fl_if /\ f.saved = Here.saved
  BY HereType, PlaceTypes DEF TypeOK, Frames
<1>2. Here.at = "pushcli" /\ Become(f)
  BY DEF Pushcli, At
<1> HIDE DEF f
<1>3. Here' = f
  BY <1>1, <1>2, BecomeHere DEF Pushcli, Idle, Frame
<1>4. TypeOK'
  BY <1>1, <1>2, BecomeType DEF Pushcli, TypeOK, table, counts, hardware
<1>5. StackInv'
  <2>1. ShapeOK(f)
    BY <1>1, <1>2, HereStack DEF ShapeOK, Idle, Frame
  <2>2. irq[cpu] # Idle => ~f.fl /\ ~f.saved /\ ~fl_if'
    BY <1>1, HereStack DEF Pushcli, StackInv
  <2>3. f.fn = "fault" => ~f.fl
    BY <1>1 DEF MaskInv
  <2> QED BY <1>1, <1>2, <2>1, <2>2, <2>3, BecomeStack DEF Pushcli, table
<1>6. BootInv' /\ ScheduleInv'
  BY <1>1, <1>2, BecomeTables DEF Pushcli, Aligned, Embryonic, hardware
<1>7. MaskInv' /\ LockInv' /\ NoPanic'
  BY <1>1, <1>2, <1>3 DEF MaskInv, LockInv, Locked, NoPanic, Pushcli, table, counts
<1> QED BY <1>4, <1>5, <1>6, <1>7

\* The places a function other than the boot code may be moved to.
Fits(g, w) ==
  /\ g \notin {"idle", "boot"} /\ w \notin {"idle", "sti"}
  /\ w \in {"scan", "uvm", "switch", "resume"} => g = "scheduler"
  /\ w \in {"sched", "resumed"} => g = "yield"
  /\ w = "setup" => g = "alloc"
  /\ w = "map" => g = "fault"
  /\ w = "check" => g \in {"timer", "kbd"}
  /\ w = "iret" => g \in {"forkret", "print", "fault", "timer", "yield", "kbd"}
  /\ g = "timer" => w \in {"check", "iret"}
  /\ g = "forkret" => w \in {"drop", "popcli", "iret"}

LEMMA GotoStack ==
  ASSUME TypeOK, StackInv, NEW w \in Places, Goto(w), Fits(Here.fn, w),
         UNCHANGED <<cpu, built>>, irq[cpu] # Idle => ~fl_if'
  PROVE  /\ Here' \in Frames
         /\ Here'.at = w /\ Here'.fn = Here.fn /\ Here'.fl = Here.fl
         /\ Become(Here')
         /\ code' \in [Threads -> Frames] /\ irq' \in [Threads -> Frames]
         /\ StackInv'
<1> DEFINE f == [Here EXCEPT !.at = w]
<1>1. /\ f \in Frames
      /\ f.at = w /\ f.fn = Here.fn /\ f.fl = Here.fl /\ f.saved = Here.saved
  BY GotoFrame
<1>2. Become(f)
  BY DEF Goto
<1> HIDE DEF f
<1>3. Here' = f
  BY <1>1, <1>2, BecomeHere DEF Idle, Frame, Fits
<1>4. ShapeOK(f)
  BY <1>1 DEF ShapeOK, Fits
<1>5. StackInv'
  BY <1>1, <1>2, <1>4, HereStack, BecomeStack DEF Fits
<1> QED BY <1>1, <1>2, <1>3, <1>5, BecomeType

LEMMA CliStep ==
  ASSUME IInv, Cli
  PROVE  IInv'
<1> USE DEF IInv
<1>1. Here.at = "cli" /\ Goto("take") /\ Fits(Here.fn, "take")
  BY HereStack DEF Cli, At, Fits, ShapeOK, Idle, Frame
<1>2. /\ Here'.at = "take" /\ Here'.fn = Here.fn /\ Here'.fl = Here.fl
      /\ Here' \in Frames /\ Become(Here') /\ StackInv'
      /\ code' \in [Threads -> Frames] /\ irq' \in [Threads -> Frames]
  BY <1>1, GotoStack, PlaceTypes DEF Cli, table
<1>3. Here.fl \in BOOLEAN
  BY HereType DEF Frames
<1>4. TypeOK'
  <2>1. intena' \in BOOLEAN /\ fl_if' \in BOOLEAN
    BY <1>3, Zenon DEF Cli, Intena, TypeOK
  <2>2. ncli' \in Nat
    BY DEF Cli, TypeOK
  <2> QED BY <1>2, <2>1, <2>2 DEF Cli, TypeOK, table, hardware
<1>5. BootInv' /\ ScheduleInv'
  BY <1>1, <1>2, BecomeTables DEF Cli, Aligned, Embryonic, hardware
<1>6. MaskInv' /\ LockInv' /\ NoPanic'
  BY <1>1, <1>2 DEF MaskInv, LockInv, Locked, NoPanic, Cli, Intena, table
<1> QED BY <1>2, <1>4, <1>5, <1>6

LEMMA TakeStep ==
  ASSUME IInv, Take
  PROVE  IInv'
<1> USE DEF IInv
<1>1. Here.at = "take" /\ Goto("body") /\ Fits(Here.fn, "body")
  BY HereStack DEF Take, At, Fits, ShapeOK, Idle, Frame
<1>2. ncli = 1 /\ held = {} /\ ~fl_if
  BY <1>1 DEF LockInv
<1>3. /\ Here'.at = "body" /\ Here'.fn = Here.fn /\ Here'.fl = Here.fl
      /\ Here' \in Frames /\ Become(Here') /\ StackInv'
      /\ code' \in [Threads -> Frames] /\ irq' \in [Threads -> Frames]
  BY <1>1, <1>2, GotoStack, PlaceTypes DEF Take, table
<1>4. Lock \in {"ptable", "cons"} /\ Lock' = Lock
  BY <1>3 DEF Lock, LockOf
<1>5. TypeOK' /\ NoPanic'
  BY <1>2, <1>3, <1>4
     DEF Take, Panic, Faults, NoPanic, TypeOK, table, counts, hardware
<1>6. BootInv' /\ ScheduleInv'
  BY <1>1, <1>3, BecomeTables DEF Take, Aligned, Embryonic, hardware
<1>7. MaskInv' /\ LockInv'
  BY <1>1, <1>2, <1>3, <1>4
     DEF MaskInv, LockInv, Locked, Take, table, counts
<1> QED BY <1>3, <1>5, <1>6, <1>7

LEMMA DropStep ==
  ASSUME IInv, Drop
  PROVE  IInv'
<1> USE DEF IInv
<1>1. Here.at = "drop" /\ Goto("popcli") /\ Fits(Here.fn, "popcli")
  BY HereStack DEF Drop, At, Fits, ShapeOK, Idle, Frame
<1>2. ncli = 1 /\ held = {Lock} /\ ~fl_if
  BY <1>1 DEF LockInv, Locked
<1>3. /\ Here'.at = "popcli" /\ Here'.fn = Here.fn /\ Here'.fl = Here.fl
      /\ Here' \in Frames /\ Become(Here') /\ StackInv'
      /\ code' \in [Threads -> Frames] /\ irq' \in [Threads -> Frames]
  BY <1>1, <1>2, GotoStack, PlaceTypes DEF Drop, table
<1>4. held' = {}
  BY <1>2 DEF Drop
<1>5. TypeOK' /\ NoPanic'
  BY <1>2, <1>3, <1>4
     DEF Drop, Panic, Faults, NoPanic, TypeOK, table, counts, hardware
<1>6. BootInv' /\ ScheduleInv'
  BY <1>1, <1>3, BecomeTables DEF Drop, Aligned, Embryonic, hardware
<1>7. MaskInv' /\ LockInv'
  BY <1>1, <1>2, <1>3, <1>4
     DEF MaskInv, LockInv, Locked, Drop, table, counts
<1> QED BY <1>3, <1>5, <1>6, <1>7

\* Where the functions other than the boot code's last go on after popcli().
LEMMA AfterFrame ==
  ASSUME NEW f \in Frames, f.fn # "ready"
  PROVE  /\ After(f).fn = f.fn /\ After(f).fl = f.fl /\ After(f).saved = f.saved
         /\ f.fn = "alloc" => After(f).at = "setup"
         /\ f.fn = "scheduler" => After(f).at = "pushcli"
         /\ f.fn \in {"print", "fault"} =>
              After(f).at \in {"pushcli", "iret", "map"}
         /\ After(f).at = "map" => f.fn = "fault"
         /\ f.fn \notin {"alloc", "scheduler", "print", "fault"} =>
              After(f).at = "iret"
<1>1. CASE f.fn = "alloc" \/ f.fn = "scheduler"
  BY <1>1 DEF After, Frames
<1>2. CASE f.fn \in {"print", "fault"} /\ f.n > 1
  <2>1. After(f) = [f EXCEPT !.at = "pushcli", !.n = f.n - 1]
    BY <1>2 DEF After
  <2> QED BY <1>2, <2>1 DEF Frames
<1>3. CASE f.fn = "fault" /\ f.n = 1
  <2>1. After(f) = [f EXCEPT !.at = "map"]
    BY <1>3 DEF After
  <2> QED BY <1>3, <2>1 DEF Frames
<1>4. CASE /\ f.fn \notin {"alloc", "scheduler"}
           /\ ~(f.fn \in {"print", "fault"} /\ f.n > 1)
           /\ ~(f.fn = "fault" /\ f.n = 1)
  <2>1. After(f) = [f EXCEPT !.at = "iret"]
    BY <1>4 DEF After
  <2> QED BY <1>4, <2>1 DEF Frames
<1> QED BY <1>1, <1>2, <1>3, <1>4

LEMMA PopcliStep ==
  ASSUME IInv, Popcli
  PROVE  IInv'
<1> DEFINE f == After(Here)
<1> USE DEF IInv
<1>1. Here.at = "popcli" /\ Become(f) /\ Here \in Frames /\ f \in Frames
  BY HereType, AfterType DEF Popcli, At
<1>2. ncli = 1 /\ held = {} /\ ~fl_if
  BY <1>1 DEF LockInv
<1>3. ncli' = 0
  BY <1>2 DEF Popcli
<1>4. fl_if' = intena
  <2>1. fl_if' = (FALSE \/ (TRUE /\ intena))
    BY <1>2 DEF Popcli
  <2> QED BY <2>1 DEF TypeOK
<1>5. ShapeOK(Here) /\ Here.fn \notin {"idle", "boot", "timer"}
  BY <1>1, HereStack DEF ShapeOK, Idle, Frame
<1>6. TypeOK' /\ NoPanic'
  <2>1. code' \in [Threads -> Frames] /\ irq' \in [Threads -> Frames]
    BY <1>1, BecomeType
  <2>2. fl_if' \in BOOLEAN
    BY <1>4 DEF TypeOK
  <2> QED BY <1>2, <1>3, <2>1, <2>2
        DEF Popcli, Panic, Faults, NoPanic, TypeOK, table, hardware
<1>7. CASE Here.fn # "ready"
  <2>0. Here.fn \in {"alloc", "scheduler", "forkret", "print", "fault", "yield",
                     "kbd"}
    BY <1>1, <1>5, <1>7 DEF Frames, Functions
  <2>1. /\ f.fn = Here.fn /\ f.fl = Here.fl /\ f.saved = Here.saved
        /\ f.at \in {"pushcli", "setup", "map", "iret"}
        /\ f.at = "setup" => f.fn = "alloc"
        /\ f.at = "map" => f.fn = "fault"
        /\ f.at = "iret" => f.fn \in {"forkret", "print", "fault", "yield", "kbd"}
        /\ f.fn = "forkret" => f.at = "iret"
        /\ f.fn = "alloc" => f.at = "setup"
    BY <1>1, <1>7, <2>0, AfterFrame
  <2> HIDE DEF f
  <2>2. Here' = f
    BY <1>1, <2>1, BecomeHere DEF Popcli, Idle, Frame
  <2>3. ShapeOK(f)
    BY <1>5, <2>1 DEF ShapeOK
  <2>4. Here.fn \notin {"scheduler", "forkret"} => fl_if' = Here.fl
    BY <1>1, <1>4 DEF LockInv
  <2>5. StackInv'
    BY <1>1, <2>1, <2>3, <2>4, HereStack, BecomeStack DEF Popcli, table
  <2>6. BootInv' /\ ScheduleInv'
    BY <1>1, <1>7, <2>1, BecomeTables DEF Popcli, Aligned, Embryonic, hardware
  <2>7. LockInv'
    BY <1>2, <1>3, <2>1, <2>2 DEF LockInv, Locked, Popcli
  <2>8. MaskInv'
    <3>1. f.fn = "fault" => ~fl_if'
      BY <2>1, <2>4, HereStack
    <3>2. f.fn # "boot"
      BY <1>5, <2>1
    <3> QED BY <2>1, <2>2, <3>1, <3>2 DEF MaskInv, Popcli, table
  <2> QED BY <1>6, <2>5, <2>6, <2>7, <2>8
<1>8. CASE Here.fn = "ready"
  <2> DEFINE g == IF nextpid > NBOOT THEN "scheduler" ELSE "alloc"
  <2>1. f = Frame(g, "pushcli")
    BY <1>8 DEF After
  <2>2. cpu = 0 /\ irq[0] = Idle /\ code[0] = Here
    BY <1>8, HereStack DEF Here, Top
  <2>3. code' = [code EXCEPT ![0] = f] /\ irq' = irq
    BY <1>1, <2>2 DEF Become
  <2>4. /\ f.fn = g /\ f.at = "pushcli" /\ f.fl = FALSE /\ f.saved = FALSE
        /\ g \in {"scheduler", "alloc"}
    BY <2>1 DEF Frame
  <2> HIDE DEF f
  <2>5. Here' = f /\ code'[0] = f
    BY <1>1, <2>2, <2>3, <2>4, BecomeHere DEF Popcli, TypeOK, Threads, Idle, Frame
  <2>6. ShapeOK(f)
    BY <2>4 DEF ShapeOK, Frame
  <2>7. StackInv'
    <3>1. \A p \in Procs : code'[p] = code[p] /\ p # 0
      BY <2>3 DEF Procs
    <3> QED BY <2>2, <2>3, <2>4, <2>5, <2>6, <3>1
          DEF StackInv, Suspended, Interruptible, Popcli, table, TypeOK, Threads, Procs
  <2>8. BootInv'
    <3>1. ~Embryonic(code[0]) /\ ~Embryonic(f)
      BY <1>1, <1>8, <2>2, <2>4 DEF Embryonic
    <3>2. g = "alloc" => nextpid <= NBOOT
      BY ProcAssumption DEF TypeOK
    <3> QED BY <1>8, <2>2, <2>3, <2>4, <2>5, <3>1, <3>2
          DEF BootInv, Popcli, table, hardware
  <2>9. ScheduleInv'
    BY <1>1, <1>8, <2>2, <2>3, <2>4, <2>5 DEF ScheduleInv, Popcli, table, hardware
  <2>10. MaskInv' /\ LockInv'
    BY <1>2, <1>3, <2>4, <2>5 DEF MaskInv, LockInv, Locked, Popcli, table
  <2> QED BY <1>6, <2>7, <2>8, <2>9, <2>10
<1> QED BY <1>7, <1>8

-----------------------------------------------------------------------------
(* The boot thread                                                         *)

LEMMA StiStep ==
  ASSUME IInv, Sti
  PROVE  IInv'
<1> DEFINE f == Frame("alloc", "pushcli")
<1> USE DEF IInv
<1>1. /\ f \in Frames /\ f.at = "pushcli" /\ f.fn = "alloc" /\ ~f.fl
      /\ ~f.saved
  BY FrameType, PlaceTypes DEF Frame
<1>2. Become(f) /\ Here.at = "sti" /\ Here.fn = "boot"
  BY HereStack DEF Sti, At, ShapeOK
<1>3. cpu = 0 /\ irq[0] = Idle /\ code[0] = Here
  BY <1>2, HereStack DEF Here, Top
<1> HIDE DEF f
<1>4. code' = [code EXCEPT ![0] = f] /\ irq' = irq
  BY <1>2, <1>3 DEF Become
<1>5. Here' = f /\ code'[0] = f
  BY <1>1, <1>2, <1>3, <1>4, BecomeHere
     DEF Sti, TypeOK, Threads, Idle, Frame
<1>6. TypeOK' /\ NoPanic'
  BY <1>1, <1>2, BecomeType
     DEF Sti, NoPanic, TypeOK, table, counts, hardware
<1>7. StackInv'
  <2>1. ShapeOK(f)
    BY <1>1 DEF ShapeOK
  <2>2. \A p \in Procs : code'[p] = code[p] /\ p # 0
    BY <1>4 DEF Procs
  <2> QED BY <1>1, <1>3, <1>4, <1>5, <2>1, <2>2
        DEF StackInv, Suspended, Interruptible, Sti, table, TypeOK, Threads, Procs
<1>8. BootInv'
  <2>1. ~Embryonic(code[0]) /\ ~Embryonic(f) /\ nextpid <= NBOOT
    BY <1>1, <1>2, <1>3 DEF Embryonic, BootInv
  <2> QED BY <1>1, <1>2, <1>3, <1>4, <1>5, <2>1
        DEF BootInv, Sti, table, hardware
<1>9. ScheduleInv'
  BY <1>1, <1>2, <1>3, <1>4, <1>5 DEF ScheduleInv, Sti, table, hardware
<1>10. MaskInv' /\ LockInv'
  BY <1>1, <1>2, <1>5 DEF MaskInv, LockInv, Locked, Sti, table, counts
<1> QED BY <1>6, <1>7, <1>8, <1>9, <1>10

LEMMA AllocProcessStep ==
  ASSUME IInv, AllocProcess
  PROVE  IInv'
<1> USE DEF IInv
<1>1. Here.at = "body" /\ Here.fn = "alloc" /\ Goto("drop")
  BY DEF AllocProcess, In, At
<1>2. cpu = 0 /\ irq[0] = Idle /\ code[0] = Here
  BY <1>1, HereStack DEF Here, Top
<1>3. nextpid <= NBOOT /\ nextpid \in Procs /\ ~Embryonic(code[0])
  BY <1>1, <1>2, ProcAssumption DEF BootInv, Embryonic, TypeOK, Procs
<1>4. /\ cursor' = nextpid /\ nextpid' = nextpid + 1
      /\ state' = [state EXCEPT ![nextpid] = "EMBRYO"]
      /\ pid' \in [Procs -> Nat]
  <2>1. PICK p \in Threads :
          /\ FirstUnused(p)
          /\ cursor' = p
          /\ state' = [q \in Procs |-> IF q = p THEN "EMBRYO" ELSE state[q]]
          /\ pid' = [q \in Procs |-> IF q = p THEN nextpid ELSE pid[q]]
          /\ nextpid' = IF p = 0 THEN nextpid ELSE nextpid + 1
    BY DEF AllocProcess
  <2>2. state[nextpid] = "UNUSED"
    BY <1>3 DEF BootInv
  <2>3. p # 0 /\ p \in Procs
    BY <1>3, <2>1, <2>2, ProcAssumption DEF FirstUnused, Threads, Procs
  <2>4. p = nextpid
    BY <1>3, <2>1, <2>2, <2>3, ProcAssumption DEF FirstUnused, BootInv, Procs
  <2> QED BY <2>1, <2>3, <2>4 DEF TypeOK
<1>5. Fits(Here.fn, "drop")
  BY <1>1 DEF Fits
<1>6. /\ Here'.at = "drop" /\ Here'.fn = Here.fn /\ Here'.fl = Here.fl
      /\ Here' \in Frames /\ Become(Here') /\ StackInv'
      /\ code' \in [Threads -> Frames] /\ irq' \in [Threads -> Frames]
  BY <1>1, <1>2, <1>5, GotoStack, PlaceTypes DEF AllocProcess
<1>7. code'[0] = Here' /\ irq' = irq
  BY <1>2, <1>6 DEF Become, TypeOK, Threads
<1>8. TypeOK' /\ NoPanic'
  BY <1>3, <1>4, <1>6, ProcAssumption
     DEF AllocProcess, NoPanic, TypeOK, counts, hardware, Procs
<1>9. BootInv'
  <2>1. Embryonic(code[0])'
    BY <1>1, <1>6, <1>7 DEF Embryonic
  <2>2. \A p \in Procs : state[p] # "EMBRYO"
    BY <1>3 DEF BootInv
  <2>3. nextpid' \in 1..(NBOOT + 1)
    BY <1>3, <1>4, ProcAssumption DEF TypeOK, BootInv
  <2>4. \A p \in Procs : p >= nextpid' <=> state'[p] = "UNUSED"
    BY <1>3, <1>4, ProcAssumption DEF BootInv, TypeOK, Procs
  <2>5. code'[0].fn = "alloc"
    BY <1>1, <1>6, <1>7
  <2> QED BY <1>1, <1>2, <1>3, <1>4, <1>7, <2>1, <2>2, <2>3, <2>4, <2>5
        DEF BootInv, AllocProcess, TypeOK, hardware
<1>10. ScheduleInv'
  <2>1. cpu' = 0 /\ curprocess' = 0 /\ cr3' = 0 /\ \A p \in Procs : state'[p] # "RUNNING"
    BY <1>1, <1>2, <1>4 DEF BootInv, AllocProcess, TypeOK, hardware
  <2>2. code'[0].at = "drop"
    BY <1>6, <1>7
  <2> QED BY <2>1, <2>2 DEF ScheduleInv
<1>11. MaskInv' /\ LockInv'
  BY <1>1, <1>6 DEF MaskInv, LockInv, Locked, AllocProcess, Lock, LockOf, counts
<1> QED BY <1>6, <1>8, <1>9, <1>10, <1>11

LEMMA UinitprocSetupStep ==
  ASSUME IInv, UinitprocSetup
  PROVE  IInv'
<1> DEFINE f == Frame("ready", "pushcli")
           g == Frame("forkret", "drop")
<1> USE DEF IInv
<1>1. /\ f \in Frames /\ f.at = "pushcli" /\ f.fn = "ready" /\ ~f.fl /\ ~f.saved
      /\ g \in Frames /\ g.at = "drop" /\ g.fn = "forkret" /\ ~g.fl /\ ~g.saved
  BY FrameType, PlaceTypes DEF Frame
<1>2. Here.at = "setup" /\ Here.fn = "alloc"
  BY DEF UinitprocSetup, In, At
<1>3. cpu = 0 /\ irq[0] = Idle /\ code[0] = Here /\ Embryonic(code[0])
  BY <1>2, HereStack DEF Here, Top, Embryonic
<1>4. cursor \in Procs /\ cursor # 0 /\ state[cursor] = "EMBRYO"
  BY <1>3 DEF BootInv, Procs
<1>5. /\ code' = [t \in Threads |-> IF t = 0 THEN f
                                    ELSE IF t = cursor THEN g ELSE code[t]]
      /\ irq' = irq /\ cpu' = 0 /\ 0 \in Threads
      /\ built' = built \cup {cursor}
      /\ tf_if' = [p \in Procs |-> IF p = cursor THEN TRUE ELSE tf_if[p]]
  BY <1>3, <1>4, ProcAssumption
     DEF UinitprocSetup, UserIF, Threads, Procs
<1>6. /\ code'[0] = f /\ code'[cursor] = g
      /\ \A p \in Procs : p # cursor => code'[p] = code[p]
  BY <1>4, <1>5 DEF Threads, Procs
<1>7. f # Idle /\ g # Idle
  BY DEF Idle, Frame
<1>8. Here' = f
  BY <1>3, <1>5, <1>6 DEF Here, Top
<1>9. TypeOK' /\ NoPanic'
  <2>1. code' \in [Threads -> Frames]
    BY <1>1, <1>5 DEF TypeOK
  <2> QED BY <1>4, <1>5, <2>1
        DEF UinitprocSetup, Panic, Faults, NoPanic, TypeOK, counts, hardware
<1>10. StackInv'
  <2> HIDE DEF f, g
  <2>1. ShapeOK(f) /\ ShapeOK(g)
    BY <1>1 DEF ShapeOK
  <2>2. \A p \in Procs : irq[p] = Idle
    BY <1>2, <1>3 DEF BootInv
  <2>3. \A p \in Procs : Suspended(p)'
    <3>1. ASSUME NEW p \in Procs, p = cursor
          PROVE  Suspended(p)'
      BY <1>5, <1>6, <2>2, <3>1 DEF Suspended, g
    <3>2. ASSUME NEW p \in Procs, p # cursor
          PROVE  Suspended(p)'
      <4>0. p # cpu
        BY <1>3 DEF Procs
      <4>1. Suspended(p) /\ code'[p] = code[p] /\ irq'[p] = irq[p]
        BY <1>5, <1>6, <3>2, <4>0 DEF StackInv
      <4>2. p \in built' <=> p \in built
        BY <1>5, <3>2
      <4> QED BY <4>1, <4>2 DEF Suspended, Interruptible
    <3> QED BY <3>1, <3>2
  <2>4. \A p \in Procs : code'[p].fn \in {"idle", "forkret", "print", "fault"}
    BY <1>1, <1>6 DEF StackInv
  <2>5. ASSUME NEW t \in Threads
        PROVE  /\ ShapeOK(code'[t]) /\ ShapeOK(irq'[t])
               /\ ~irq'[t].fl /\ ~irq'[t].saved
               /\ code'[t].fn = "fault" => ~code'[t].fl
    <3>1. code'[t] \in {f, g, code[t]}
      BY <1>5
    <3> QED BY <1>1, <1>5, <2>1, <3>1 DEF StackInv
  <2>6. ~(irq'[cpu'] # Idle)
    BY <1>3, <1>5
  <2> QED BY <1>1, <1>3, <1>5, <1>6, <2>3, <2>4, <2>5, <2>6
        DEF StackInv, ShapeOK
<1>11. BootInv'
  <2>1. Embryonic(f)
    BY <1>1 DEF Embryonic
  <2> QED BY <1>1, <1>2, <1>3, <1>4, <1>5, <1>6, <2>1
        DEF BootInv, UinitprocSetup, hardware
<1>12. ScheduleInv'
  BY <1>1, <1>2, <1>3, <1>5, <1>6, <1>8
     DEF ScheduleInv, BootInv, UinitprocSetup, hardware
<1>13. MaskInv' /\ LockInv'
  <2>1. \A p \in built' : tf_if'[p]
    BY <1>4, <1>5 DEF MaskInv, TypeOK
  <2> QED BY <1>1, <1>2, <1>8, <2>1
        DEF MaskInv, LockInv, Locked, UinitprocSetup, counts
<1> QED BY <1>9, <1>10, <1>11, <1>12, <1>13

LEMMA MakeRunableStep ==
  ASSUME IInv, MakeRunable
  PROVE  IInv'
<1> USE DEF IInv
<1>1. Here.at = "body" /\ Here.fn = "ready" /\ Goto("drop")
  BY DEF MakeRunable, In, At
<1>2. cpu = 0 /\ irq[0] = Idle /\ code[0] = Here
  BY <1>1, HereStack DEF Here, Top
<1>3. Embryonic(code[0]) /\ cursor \in Procs /\ cursor \in built /\ state[cursor] = "EMBRYO"
  BY <1>1, <1>2 DEF BootInv, Embryonic
<1>4. state' = [state EXCEPT ![cursor] = "RUNABLE"]
  BY DEF MakeRunable
<1>5. Fits(Here.fn, "drop")
  BY <1>1 DEF Fits
<1>6. /\ Here'.at = "drop" /\ Here'.fn = Here.fn /\ Here'.fl = Here.fl
      /\ Here' \in Frames /\ Become(Here') /\ StackInv'
      /\ code' \in [Threads -> Frames] /\ irq' \in [Threads -> Frames]
  BY <1>1, <1>2, <1>5, GotoStack, PlaceTypes DEF MakeRunable
<1>7. code'[0] = Here' /\ irq' = irq
  BY <1>2, <1>6 DEF Become, TypeOK, Threads
<1>8. TypeOK' /\ NoPanic'
  BY <1>3, <1>4, <1>6 DEF MakeRunable, NoPanic, TypeOK, counts, hardware
<1>9. BootInv'
  <2>1. ~Embryonic(code[0])' /\ code'[0].fn = "ready"
    BY <1>1, <1>6, <1>7 DEF Embryonic
  <2> QED BY <1>1, <1>2, <1>3, <1>4, <1>7, <2>1
        DEF BootInv, MakeRunable, TypeOK, hardware
<1>10. ScheduleInv'
  <2>1. cpu' = 0 /\ curprocess' = 0 /\ cr3' = 0 /\ \A p \in Procs : state'[p] # "RUNNING"
    BY <1>1, <1>2, <1>4 DEF BootInv, MakeRunable, TypeOK, hardware
  <2>2. code'[0].at = "drop"
    BY <1>6, <1>7
  <2> QED BY <2>1, <2>2 DEF ScheduleInv
<1>11. MaskInv' /\ LockInv'
  BY <1>1, <1>6 DEF MaskInv, LockInv, Locked, MakeRunable, Lock, LockOf, counts
<1> QED BY <1>6, <1>8, <1>9, <1>10, <1>11

-----------------------------------------------------------------------------
(* The scheduler                                                           *)

\* What holds while the boot thread scans the table.
LEMMA Scanning ==
  ASSUME IInv, Here.fn = "scheduler"
  PROVE  /\ cpu = 0 /\ irq[0] = Idle /\ code[0] = Here
         /\ ~Embryonic(code[0]) /\ Lock = "ptable"
         /\ \A p \in Procs : state[p] # "EMBRYO"
BY HereStack
   DEF IInv, Here, Top, Embryonic, BootInv, Lock, LockOf

\* A step of scheduler() to place w that changes neither the table nor the
\* address space.
LEMMA ScanGoto ==
  ASSUME IInv, Here.fn = "scheduler", NEW w \in Places, Goto(w),
         Fits("scheduler", w), Here.at \in Locked, w \in Locked,
         UNCHANGED <<cpu, fl_if, counts, held, tf_if, built>>
  PROVE  /\ Here'.at = w /\ Here'.fn = "scheduler" /\ code'[0] = Here' /\ irq' = irq
         /\ code' \in [Threads -> Frames] /\ irq' \in [Threads -> Frames]
         /\ ~Embryonic(code[0])'
         /\ StackInv' /\ MaskInv' /\ LockInv'
<1> USE DEF IInv
<1>1. cpu = 0 /\ irq[0] = Idle /\ code[0] = Here /\ Lock = "ptable"
  BY Scanning
<1>2. /\ Here'.at = w /\ Here'.fn = "scheduler" /\ Become(Here') /\ StackInv'
      /\ code' \in [Threads -> Frames] /\ irq' \in [Threads -> Frames]
  BY <1>1, GotoStack
<1>3. code'[0] = Here' /\ irq' = irq
  BY <1>1, <1>2, ProcAssumption DEF Become, TypeOK, Threads
<1>4. MaskInv'
  BY <1>2 DEF MaskInv, Locked
<1>5. LockInv'
  <2>1. Lock' = "ptable"
    BY <1>2 DEF Lock, LockOf
  <2> QED BY <1>1, <1>2, <2>1 DEF LockInv, Locked, counts
<1> QED BY <1>2, <1>3, <1>4, <1>5 DEF Embryonic

LEMMA ScanStartStep ==
  ASSUME IInv, ScanStart
  PROVE  IInv'
<1> USE DEF IInv
<1>1. Here.at = "body" /\ Here.fn = "scheduler" /\ Goto("scan") /\ cursor' = 1
  BY DEF ScanStart, In, At
<1>2. /\ cpu = 0 /\ irq[0] = Idle /\ code[0] = Here /\ ~Embryonic(code[0])
      /\ \A p \in Procs : state[p] # "EMBRYO"
  BY <1>1, Scanning
<1>3. /\ Here'.at = "scan" /\ Here'.fn = "scheduler" /\ code'[0] = Here' /\ irq' = irq
      /\ code' \in [Threads -> Frames] /\ irq' \in [Threads -> Frames]
      /\ ~Embryonic(code[0])'
      /\ StackInv' /\ MaskInv' /\ LockInv'
  BY <1>1, ScanGoto, PlaceTypes DEF ScanStart, table, Fits, Locked
<1>4. TypeOK' /\ NoPanic'
  <2>1. 1 \in 0..(NPROC + 1)
    BY ProcAssumption
  <2> QED BY <1>1, <1>3, <2>1
        DEF ScanStart, NoPanic, TypeOK, table, counts, hardware
<1>5. BootInv'
  BY <1>1, <1>2, <1>3 DEF BootInv, ScanStart, table, hardware
<1>6. ScheduleInv'
  BY <1>1, <1>2, <1>3 DEF ScheduleInv, ScanStart, table, hardware
<1> QED BY <1>3, <1>4, <1>5, <1>6

LEMMA ScanSkipStep ==
  ASSUME IInv, ScanSkip
  PROVE  IInv'
<1> USE DEF IInv
<1>1. Here.at = "scan" /\ Here.fn = "scheduler"
  BY HereStack DEF ScanSkip, At, ShapeOK
<1>2. /\ cpu = 0 /\ irq[0] = Idle /\ code[0] = Here /\ ~Embryonic(code[0])
      /\ \A p \in Procs : state[p] # "EMBRYO"
  BY <1>1, Scanning
<1>3. code' = code /\ irq' = irq /\ Here' = Here /\ cursor \in Procs /\ cursor' = cursor + 1
  BY DEF ScanSkip, stacks, Here, Top, NextSlot
<1>4. TypeOK' /\ NoPanic'
  <2>1. cursor + 1 \in 0..(NPROC + 1)
    BY <1>3, ProcAssumption DEF Procs
  <2> QED BY <1>3, <2>1
        DEF ScanSkip, NoPanic, TypeOK, table, counts, hardware
<1>5. BootInv'
  BY <1>1, <1>2, <1>3 DEF BootInv, ScanSkip, table, hardware, Embryonic
<1>6. ScheduleInv'
  BY <1>1, <1>2, <1>3 DEF ScheduleInv, ScanSkip, table, hardware
<1>7. StackInv' /\ MaskInv' /\ LockInv'
  BY <1>3 DEF StackInv, MaskInv, LockInv, ScanSkip, Suspended, Lock, table, counts,
              hardware, ShapeOK, Interruptible
<1> QED BY <1>4, <1>5, <1>6, <1>7

LEMMA ScanRunStep ==
  ASSUME IInv, ScanRun
  PROVE  IInv'
<1> USE DEF IInv
<1>1. /\ Here.at = "scan" /\ Here.fn = "scheduler" /\ Goto("uvm")
      /\ cursor \in Procs /\ state[cursor] = "RUNABLE"
      /\ state' = [state EXCEPT ![cursor] = "RUNNING"] /\ curprocess' = cursor
  BY HereStack DEF ScanRun, At, ShapeOK
<1>2. /\ cpu = 0 /\ irq[0] = Idle /\ code[0] = Here /\ ~Embryonic(code[0])
      /\ \A p \in Procs : state[p] # "EMBRYO"
  BY <1>1, Scanning
<1>3. /\ Here'.at = "uvm" /\ Here'.fn = "scheduler" /\ code'[0] = Here' /\ irq' = irq
      /\ code' \in [Threads -> Frames] /\ irq' \in [Threads -> Frames]
      /\ ~Embryonic(code[0])'
      /\ StackInv' /\ MaskInv' /\ LockInv'
  BY <1>1, ScanGoto, PlaceTypes DEF ScanRun, Fits, Locked
<1>4. \A p \in Procs : state[p] # "RUNNING"
  BY <1>1, <1>2 DEF ScheduleInv, Procs
<1>5. TypeOK' /\ NoPanic'
  <2>1. cursor \in Threads
    BY <1>1, ProcAssumption DEF Procs, Threads
  <2> QED BY <1>1, <1>3, <2>1
        DEF ScanRun, NoPanic, TypeOK, counts, hardware
<1>6. BootInv'
  BY <1>1, <1>2, <1>3 DEF BootInv, ScanRun, hardware, TypeOK
<1>7. ScheduleInv'
  BY <1>1, <1>2, <1>3, <1>4 DEF ScheduleInv, ScanRun, hardware, TypeOK
<1> QED BY <1>3, <1>5, <1>6, <1>7

LEMMA ScanEndStep ==
  ASSUME IInv, ScanEnd
  PROVE  IInv'
<1> USE DEF IInv
<1>1. Here.at = "scan" /\ Here.fn = "scheduler" /\ Goto("drop")
  BY HereStack DEF ScanEnd, At, ShapeOK
<1>2. /\ cpu = 0 /\ irq[0] = Idle /\ code[0] = Here /\ ~Embryonic(code[0])
      /\ \A p \in Procs : state[p] # "EMBRYO"
  BY <1>1, Scanning
<1>3. /\ Here'.at = "drop" /\ Here'.fn = "scheduler" /\ code'[0] = Here' /\ irq' = irq
      /\ code' \in [Threads -> Frames] /\ irq' \in [Threads -> Frames]
      /\ ~Embryonic(code[0])'
      /\ StackInv' /\ MaskInv' /\ LockInv'
  BY <1>1, ScanGoto, PlaceTypes DEF ScanEnd, table, Fits, Locked
<1>4. TypeOK' /\ NoPanic'
  BY <1>3 DEF ScanEnd, NoPanic, TypeOK, table, counts, hardware
<1>5. BootInv'
  BY <1>1, <1>2, <1>3 DEF BootInv, ScanEnd, table, hardware
<1>6. ScheduleInv'
  BY <1>1, <1>2, <1>3 DEF ScheduleInv, ScanEnd, table, hardware
<1> QED BY <1>3, <1>4, <1>5, <1>6

LEMMA SwitchToUvmStep ==
  ASSUME IInv, SwitchToUvm
  PROVE  IInv'
<1> USE DEF IInv
<1>1. Here.at = "uvm" /\ Here.fn = "scheduler" /\ Goto("switch")
  BY HereStack DEF SwitchToUvm, At, ShapeOK
<1>2. /\ cpu = 0 /\ irq[0] = Idle /\ code[0] = Here /\ ~Embryonic(code[0])
      /\ \A p \in Procs : state[p] # "EMBRYO"
  BY <1>1, Scanning
<1>3. /\ cursor \in Procs /\ cursor = curprocess /\ state[cursor] = "RUNNING"
      /\ cursor \in built
  BY <1>1, <1>2 DEF ScheduleInv, BootInv
<1>4. ncli = 1 /\ ~fl_if /\ held = {"ptable"}
  BY <1>1, Scanning DEF LockInv, Locked
<1>5. intena' = intena /\ ~fl_if' /\ fl_if' \in BOOLEAN
  <2>1. ncli # 0
    BY <1>4
  <2>2. intena' = intena
    BY <2>1 DEF SwitchToUvm, Intena
  <2>3. fl_if' = (fl_if /\ ncli = 0)
    BY DEF SwitchToUvm
  <2>4. fl_if' = FALSE
    BY <2>1, <2>3, Zenon
  <2> QED BY <2>2, <2>4
<1>6. fl_if' = fl_if
  BY <1>4, <1>5 DEF TypeOK
<1>7. /\ Here'.at = "switch" /\ Here'.fn = "scheduler" /\ code'[0] = Here' /\ irq' = irq
      /\ code' \in [Threads -> Frames] /\ irq' \in [Threads -> Frames]
      /\ ~Embryonic(code[0])'
      /\ StackInv' /\ MaskInv' /\ LockInv'
  BY <1>1, <1>5, <1>6, ScanGoto, PlaceTypes
     DEF SwitchToUvm, table, counts, Fits, Locked
<1>8. TypeOK' /\ NoPanic'
  <2>1. cursor \in Threads
    BY <1>3, ProcAssumption DEF Procs, Threads
  <2> QED BY <1>3, <1>5, <1>7, <2>1
        DEF SwitchToUvm, Panic, Faults, NoPanic, TypeOK, table
<1>9. BootInv'
  BY <1>1, <1>2, <1>3, <1>7 DEF BootInv, SwitchToUvm, table
<1>10. ScheduleInv'
  BY <1>1, <1>2, <1>3, <1>7 DEF ScheduleInv, SwitchToUvm, table
<1> QED BY <1>7, <1>8, <1>9, <1>10

LEMMA SwitchToKvmStep ==
  ASSUME IInv, SwitchToKvm
  PROVE  IInv'
<1> USE DEF IInv
<1>1. Here.at = "resume" /\ Here.fn = "scheduler" /\ Goto("scan")
  BY HereStack DEF SwitchToKvm, At, ShapeOK
<1>2. /\ cpu = 0 /\ irq[0] = Idle /\ code[0] = Here /\ ~Embryonic(code[0])
      /\ \A p \in Procs : state[p] # "EMBRYO"
  BY <1>1, Scanning
<1>3. cursor \in Procs /\ cursor = curprocess /\ cursor' = cursor + 1
  BY <1>1, <1>2 DEF ScheduleInv, SwitchToKvm, NextSlot
<1>4. /\ Here'.at = "scan" /\ Here'.fn = "scheduler" /\ code'[0] = Here' /\ irq' = irq
      /\ code' \in [Threads -> Frames] /\ irq' \in [Threads -> Frames]
      /\ ~Embryonic(code[0])'
      /\ StackInv' /\ MaskInv' /\ LockInv'
  BY <1>1, ScanGoto, PlaceTypes DEF SwitchToKvm, table, Fits, Locked
<1>5. TypeOK' /\ NoPanic'
  <2>1. cursor + 1 \in 0..(NPROC + 1) /\ 0 \in Threads
    BY <1>3, ProcAssumption DEF Procs, Threads
  <2> QED BY <1>3, <1>4, <2>1
        DEF SwitchToKvm, NoPanic, TypeOK, table, counts
<1>6. BootInv'
  BY <1>1, <1>2, <1>4 DEF BootInv, SwitchToKvm, table
<1>7. ScheduleInv'
  BY <1>1, <1>2, <1>4 DEF ScheduleInv, SwitchToKvm, table, Procs
<1> QED BY <1>4, <1>5, <1>6, <1>7

LEMMA SwitchToProcessStep ==
  ASSUME IInv, SwitchToProcess
  PROVE  IInv'
<1> DEFINE r == [Here EXCEPT !.at = "resume"]
<1> USE DEF IInv
<1>1. Here.at = "switch" /\ Here.fn = "scheduler" /\ Become(r) /\ cpu' = cursor
  BY HereStack DEF SwitchToProcess, At, ShapeOK, Goto
<1>2. /\ cpu = 0 /\ irq[0] = Idle /\ code[0] = Here /\ ~Embryonic(code[0])
      /\ Lock = "ptable"
  BY <1>1, Scanning
<1>3. /\ cursor \in Procs /\ cursor = curprocess /\ state[cursor] = "RUNNING"
      /\ cursor \in built /\ cr3 = cursor /\ esp0 = cursor
      /\ cursor \in Threads /\ cursor # 0
  BY <1>1, <1>2, ProcAssumption DEF ScheduleInv, BootInv, Procs, Threads
<1>4. r \in Frames /\ r.at = "resume" /\ r.fn = "scheduler" /\ r.fl = Here.fl
  BY <1>1, GotoFrame, PlaceTypes
<1> HIDE DEF r
<1>5. /\ code' = [code EXCEPT ![0] = r] /\ irq' = irq
      /\ code'[0] = r /\ code'[cursor] = code[cursor]
  BY <1>1, <1>2, <1>3, ProcAssumption DEF Become, TypeOK, Threads
<1>6. Suspended(cursor)
  BY <1>2, <1>3 DEF StackInv
<1>7. /\ Here' = Top(cursor)
      /\ \/ Here'.fn = "forkret" /\ Here'.at = "drop" /\ irq[cursor] = Idle
         \/ /\ Here'.fn = "yield" /\ Here'.at = "resumed" /\ irq[cursor] # Idle
            /\ Interruptible(code[cursor])
  <2>1. Here' = IF irq[cursor] = Idle THEN code[cursor] ELSE irq[cursor]
    BY <1>1, <1>5 DEF Here, Top
  <2> QED BY <1>3, <1>6, <2>1 DEF Top, Suspended, Idle, Frame
<1>8. ncli = 1 /\ ~fl_if /\ held = {"ptable"}
  BY <1>1, <1>2 DEF LockInv, Locked
<1>9. TypeOK' /\ NoPanic'
  <2>1. code' \in [Threads -> Frames]
    BY <1>4, <1>5 DEF TypeOK
  <2> QED BY <1>1, <1>3, <1>5, <2>1
        DEF SwitchToProcess, NoPanic, TypeOK, table, counts, hardware
<1>10. StackInv'
  <2>1. ShapeOK(r)
    BY <1>4 DEF ShapeOK
  <2>2. \A p \in Procs : p # 0 /\ code'[p] = code[p] /\ irq'[p] = irq[p]
    BY <1>5 DEF Procs
  <2>3. ASSUME NEW p \in Procs
        PROVE  Suspended(p)'
    <3>1. Suspended(p)
      BY <1>2, <2>2 DEF StackInv
    <3> QED BY <2>2, <3>1
          DEF Suspended, Interruptible, SwitchToProcess, table
  <2>4. ASSUME NEW t \in Threads
        PROVE  /\ ShapeOK(code'[t]) /\ ShapeOK(irq'[t])
               /\ ~irq'[t].fl /\ ~irq'[t].saved
               /\ code'[t].fn = "fault" => ~code'[t].fl
    <3>1. code'[t] \in {r, code[t]}
      BY <1>5 DEF TypeOK
    <3> QED BY <1>4, <1>5, <2>1, <3>1 DEF StackInv
  <2>5. irq'[cpu'] # Idle => ~fl_if' /\ Interruptible(code'[cpu'])
    BY <1>1, <1>5, <1>7, <1>8 DEF SwitchToProcess
  <2> QED BY <1>2, <1>4, <1>5, <2>2, <2>3, <2>4, <2>5 DEF StackInv, ShapeOK
<1>11. MaskInv'
  BY <1>7 DEF MaskInv, SwitchToProcess, table
<1>12. LockInv'
  BY <1>7, <1>8 DEF LockInv, Locked, Lock, LockOf, SwitchToProcess, counts
<1>13. BootInv'
  BY <1>1, <1>2, <1>4, <1>5
     DEF BootInv, Embryonic, SwitchToProcess, table, hardware
<1>14. ScheduleInv'
  BY <1>1, <1>2, <1>3, <1>5, <1>7
     DEF ScheduleInv, SwitchToProcess, table, hardware
<1> QED BY <1>9, <1>10, <1>11, <1>12, <1>13, <1>14

\* What holds while a process yields.
LEMMA Yielding ==
  ASSUME IInv, Here.fn = "yield"
  PROVE  /\ cpu # 0 /\ cpu \in Procs /\ irq[cpu] # Idle /\ irq[cpu] = Here
         /\ Lock = "ptable" /\ ~Here.fl /\ ~Here.saved
         /\ curprocess = cpu /\ code[0].at = "resume" /\ code[0].fn = "scheduler"
         /\ irq[0] = Idle
<1> USE DEF IInv
<1>1. irq[cpu] # Idle /\ irq[cpu] = Here /\ ~Here.fl /\ ~Here.saved
  BY HereStack DEF Here, Top
<1>2. cpu # 0
  BY <1>1 DEF StackInv
<1>3. cpu \in Procs /\ 0 \in Threads
  BY <1>2, ProcAssumption DEF TypeOK, Threads, Procs
<1> QED BY <1>1, <1>2, <1>3 DEF StackInv, ShapeOK, ScheduleInv, Lock, LockOf

LEMMA YieldCpuStep ==
  ASSUME IInv, YieldCpu
  PROVE  IInv'
<1> USE DEF IInv
<1>1. /\ Here.at = "body" /\ Here.fn = "yield" /\ Goto("sched")
      /\ state' = [state EXCEPT ![curprocess] = "RUNABLE"]
  BY DEF YieldCpu, In, At
<1>2. /\ cpu # 0 /\ cpu \in Procs /\ irq[cpu] # Idle
      /\ Lock = "ptable" /\ curprocess = cpu
      /\ code[0].fn = "scheduler" /\ ~Embryonic(code[0])
  BY <1>1, Yielding DEF Embryonic
<1>3. ncli = 1 /\ ~fl_if /\ held = {"ptable"} /\ intena = Here.fl
  BY <1>1, <1>2 DEF LockInv, Locked
<1>4. /\ Here'.at = "sched" /\ Here'.fn = Here.fn /\ Here'.fl = Here.fl
      /\ Here' \in Frames /\ Become(Here') /\ StackInv'
      /\ code' \in [Threads -> Frames] /\ irq' \in [Threads -> Frames]
  BY <1>1, <1>3, GotoStack, PlaceTypes DEF YieldCpu, Fits
<1>5. code' = code
  BY <1>2, <1>4 DEF Become
<1>6. TypeOK' /\ NoPanic'
  BY <1>1, <1>4 DEF YieldCpu, NoPanic, TypeOK, counts, hardware
<1>7. BootInv'
  BY <1>1, <1>2, <1>5
     DEF BootInv, Embryonic, ScheduleInv, YieldCpu, hardware, TypeOK
<1>8. ScheduleInv'
  <2>1. state'[cpu] = "RUNABLE" /\ \A p \in Procs : state'[p] # "RUNNING"
    BY <1>1, <1>2 DEF ScheduleInv, TypeOK
  <2> QED BY <1>2, <1>4, <2>1 DEF ScheduleInv, YieldCpu, hardware
<1>9. LockInv'
  <2>1. Lock' = "ptable"
    BY <1>1, <1>4 DEF Lock, LockOf
  <2> QED BY <1>3, <1>4, <2>1 DEF LockInv, Locked, YieldCpu, counts
<1>10. MaskInv'
  BY <1>1, <1>4 DEF MaskInv, YieldCpu
<1> QED BY <1>4, <1>6, <1>7, <1>8, <1>9, <1>10

LEMMA GotoSchedulerStep ==
  ASSUME IInv, GotoScheduler
  PROVE  IInv'
<1> DEFINE f == [Here EXCEPT !.at = "resumed", !.saved = intena]
<1> USE DEF IInv
<1>1. Here.at = "sched" /\ Here.fn = "yield" /\ Become(f) /\ cpu' = 0
  BY HereStack DEF GotoScheduler, At, ShapeOK
<1>2. /\ cpu # 0 /\ cpu \in Procs /\ irq[cpu] # Idle /\ ~Here.fl
      /\ Lock = "ptable" /\ curprocess = cpu /\ irq[0] = Idle
      /\ code[0].fn = "scheduler" /\ code[0].at = "resume"
  BY <1>1, Yielding
<1>3. ncli = 1 /\ ~fl_if /\ held = {"ptable"} /\ intena = Here.fl
  BY <1>1, <1>2 DEF LockInv, Locked
<1>4. f \in Frames /\ f.at = "resumed" /\ f.fn = "yield" /\ ~f.fl /\ ~f.saved
  <2>1. /\ f \in Frames /\ f.at = "resumed" /\ f.fn = Here.fn
        /\ f.fl = Here.fl /\ f.saved = intena
    BY HereType, PlaceTypes DEF TypeOK, Frames
  <2> HIDE DEF f
  <2>2. Here.fl = FALSE
    BY <1>2, HereType DEF Frames
  <2>3. intena = FALSE
    BY <1>3, <2>2
  <2>4. f.fl = FALSE /\ f.saved = FALSE
    BY <2>1, <2>2, <2>3
  <2> QED BY <1>1, <2>1, <2>4
<1> HIDE DEF f
<1>5. irq' = [irq EXCEPT ![cpu] = f] /\ code' = code /\ irq'[0] = Idle
  <2>1. irq' = [irq EXCEPT ![cpu] = f] /\ code' = code
    BY <1>1, <1>2 DEF Become
  <2>2. irq \in [Threads -> Frames] /\ 0 \in Threads
    BY ProcAssumption DEF TypeOK, Threads
  <2> QED BY <1>2, <2>1, <2>2
<1>6. Here' = code[0]
  BY <1>1, <1>5 DEF Here, Top
<1>7. state[cpu] = "RUNABLE" /\ cpu \in built
  BY <1>1, <1>2 DEF ScheduleInv
<1>8. TypeOK' /\ NoPanic'
  <2>1. irq' \in [Threads -> Frames] /\ 0 \in Threads
    BY <1>4, <1>5, ProcAssumption DEF TypeOK, Threads
  <2> QED BY <1>1, <1>2, <1>3, <1>5, <1>7, <2>1
        DEF GotoScheduler, Panic, Faults, NoPanic, TypeOK, table, counts, hardware
<1>9. StackInv'
  <2>1. ShapeOK(f)
    BY <1>4 DEF ShapeOK
  <2>2. ASSUME NEW p \in Procs
        PROVE  Suspended(p)'
    <3>1. CASE p = cpu
      <4>1. irq'[p] = f /\ Interruptible(code[p])
        BY <1>2, <1>5, <3>1, ProcAssumption
           DEF TypeOK, StackInv, Threads, Procs
      <4> QED BY <1>4, <1>5, <1>7, <3>1, <4>1
            DEF Suspended, Interruptible, GotoScheduler, table
    <3>2. CASE p # cpu
      BY <1>5, <3>2 DEF StackInv, Suspended, Interruptible, GotoScheduler, table
    <3> QED BY <3>1, <3>2
  <2>3. ASSUME NEW t \in Threads
        PROVE  /\ ShapeOK(code'[t]) /\ ShapeOK(irq'[t])
               /\ ~irq'[t].fl /\ ~irq'[t].saved
               /\ code'[t].fn = "fault" => ~code'[t].fl
    <3>1. irq'[t] \in {f, irq[t]}
      BY <1>5 DEF TypeOK
    <3> QED BY <1>4, <1>5, <2>1, <3>1 DEF StackInv
  <2>4. \A p \in Procs : irq'[p].fn \in {"idle", "timer", "yield", "kbd"}
    BY <1>4, <1>5 DEF StackInv, TypeOK, Threads, Procs
  <2> QED BY <1>1, <1>2, <1>5, <2>2, <2>3, <2>4 DEF StackInv, Idle, Frame
<1>10. MaskInv'
  BY <1>2, <1>6 DEF MaskInv, GotoScheduler, table
<1>11. LockInv'
  BY <1>2, <1>3, <1>6 DEF LockInv, Locked, Lock, LockOf, GotoScheduler, counts
<1>12. BootInv'
  BY <1>1, <1>2, <1>5
     DEF BootInv, Embryonic, GotoScheduler, table, hardware
<1>13. ScheduleInv'
  <2>1. \A p \in Procs : state[p] # "RUNNING"
    BY <1>2, <1>7 DEF ScheduleInv
  <2> QED BY <1>1, <1>2, <1>5, <2>1
        DEF ScheduleInv, GotoScheduler, table, hardware
<1> QED BY <1>8, <1>9, <1>10, <1>11, <1>12, <1>13

LEMMA ResumedStep ==
  ASSUME IInv, Resumed
  PROVE  IInv'
<1> USE DEF IInv
<1>1. Here.at = "resumed" /\ Here.fn = "yield" /\ Goto("drop") /\ intena' = Here.saved
  BY HereStack DEF Resumed, At, ShapeOK
<1>2. Lock = "ptable" /\ ~Here.fl /\ ~Here.saved
  BY <1>1, Yielding
<1>3. ncli = 1 /\ ~fl_if /\ held = {"ptable"}
  BY <1>1, <1>2 DEF LockInv, Locked
<1>4. /\ Here'.at = "drop" /\ Here'.fn = Here.fn /\ Here'.fl = Here.fl
      /\ Here' \in Frames /\ Become(Here') /\ StackInv'
      /\ code' \in [Threads -> Frames] /\ irq' \in [Threads -> Frames]
  BY <1>1, <1>3, GotoStack, PlaceTypes DEF Resumed, table, Fits
<1>5. Here.saved \in BOOLEAN /\ Here.fl \in BOOLEAN
  BY HereType DEF Frames
<1>6. TypeOK' /\ NoPanic'
  BY <1>1, <1>4, <1>5 DEF Resumed, NoPanic, TypeOK, table, hardware
<1>7. BootInv' /\ ScheduleInv'
  BY <1>1, <1>4, BecomeTables DEF Resumed, Aligned, Embryonic, hardware
<1>8. LockInv'
  <2>1. Lock' = "ptable"
    BY <1>1, <1>4 DEF Lock, LockOf
  <2>2. intena' = Here'.fl
    BY <1>1, <1>2, <1>4, <1>5
  <2> QED BY <1>3, <1>4, <2>1, <2>2 DEF LockInv, Locked, Resumed
<1>9. MaskInv'
  BY <1>1, <1>4 DEF MaskInv, Resumed, table
<1> QED BY <1>4, <1>6, <1>7, <1>8, <1>9

-----------------------------------------------------------------------------
(* Handlers                                                                *)

LEMMA ConsolePutStep ==
  ASSUME IInv, ConsolePut
  PROVE  IInv'
<1> USE DEF IInv
<1>1. Here.at = "body" /\ Here.fn \in {"print", "fault", "kbd"} /\ Goto("drop")
  BY DEF ConsolePut, At, Lock, LockOf
<1>2. ncli = 1 /\ ~fl_if /\ held = {Lock} /\ intena = Here.fl
  BY <1>1 DEF LockInv, Locked
<1>3. /\ Here'.at = "drop" /\ Here'.fn = Here.fn /\ Here'.fl = Here.fl
      /\ Here' \in Frames /\ Become(Here') /\ StackInv'
      /\ code' \in [Threads -> Frames] /\ irq' \in [Threads -> Frames]
  BY <1>1, <1>2, GotoStack, PlaceTypes DEF ConsolePut, table, Fits
<1>4. TypeOK' /\ NoPanic'
  BY <1>3 DEF ConsolePut, NoPanic, TypeOK, table, counts, hardware
<1>5. BootInv' /\ ScheduleInv'
  BY <1>1, <1>3, BecomeTables DEF ConsolePut, Aligned, Embryonic, hardware
<1>6. LockInv'
  <2>1. Lock' = Lock
    BY <1>3 DEF Lock
  <2> QED BY <1>2, <1>3, <2>1 DEF LockInv, Locked, ConsolePut, counts
<1>7. MaskInv'
  BY <1>2, <1>3 DEF MaskInv, ConsolePut, table
<1> QED BY <1>3, <1>4, <1>5, <1>6, <1>7

\* A step outside every critical section.
LEMMA OutsideStep ==
  ASSUME IInv, NEW w \in {"pushcli", "iret"}, Goto(w), Fits(Here.fn, w),
         Here.at \in {"check", "map"},
         UNCHANGED <<cpu, fl_if, counts, held, table, curprocess, hardware,
                     cursor, fault>>
  PROVE  IInv'
<1> USE DEF IInv
<1>1. /\ ncli = 0 /\ held = {}
      /\ Here.fn \in {"timer", "kbd", "fault"}
      /\ irq[cpu] # Idle => ~fl_if
  BY HereStack DEF LockInv, Locked, StackInv, ShapeOK
<1>2. /\ Here'.at = w /\ Here'.fn = Here.fn /\ Here'.fl = Here.fl
      /\ Here' \in Frames /\ Become(Here') /\ StackInv'
      /\ code' \in [Threads -> Frames] /\ irq' \in [Threads -> Frames]
  BY <1>1, GotoStack, PlaceTypes DEF table
<1>3. TypeOK' /\ NoPanic'
  BY <1>2 DEF NoPanic, TypeOK, table, counts, hardware
<1>4. BootInv' /\ ScheduleInv'
  BY <1>1, <1>2, BecomeTables DEF Aligned, Embryonic, hardware
<1>5. LockInv' /\ MaskInv'
  BY <1>1, <1>2 DEF LockInv, Locked, MaskInv, table, counts
<1> QED BY <1>2, <1>3, <1>4, <1>5

LEMMA KbdHandlerStep ==
  ASSUME IInv, KbdHandler
  PROVE  IInv'
<1>1. Here.at = "check" /\ Here.fn = "kbd"
  BY DEF KbdHandler, In, At
<1>2. PICK w \in {"pushcli", "iret"} : Goto(w)
  BY DEF KbdHandler
<1>3. Fits(Here.fn, w)
  BY <1>1, <1>2 DEF Fits
<1> QED BY <1>1, <1>2, <1>3, OutsideStep DEF KbdHandler

LEMMA MmapDoMapStep ==
  ASSUME IInv, MmapDoMap
  PROVE  IInv'
<1>1. Here.at = "map" /\ Here.fn = "fault" /\ Goto("iret")
  BY HereStack DEF IInv, MmapDoMap, At, ShapeOK
<1>2. Fits(Here.fn, "iret")
  BY <1>1 DEF Fits
<1> QED BY <1>1, <1>2, OutsideStep DEF MmapDoMap

LEMMA TimerHandlerStep ==
  ASSUME IInv, TimerHandler
  PROVE  IInv'
<1> USE DEF IInv
<1>1. Here.at = "check" /\ Here.fn = "timer"
  BY DEF TimerHandler, In, At
<1>2. CASE ~(curprocess # 0 /\ state[curprocess] = "RUNNING")
  <2>1. Goto("iret") /\ Fits(Here.fn, "iret")
    BY <1>1, <1>2 DEF TimerHandler, Fits
  <2> QED BY <1>1, <2>1, OutsideStep DEF TimerHandler
<1>3. CASE curprocess # 0 /\ state[curprocess] = "RUNNING"
  <2> DEFINE f == Frame("yield", "pushcli")
  <2>1. Become(f)
    BY <1>3 DEF TimerHandler, Yield
  <2>2. f \in Frames /\ f.at = "pushcli" /\ f.fn = "yield" /\ ~f.fl /\ ~f.saved
    BY FrameType, PlaceTypes DEF Frame
  <2>3. irq[cpu] # Idle /\ ~fl_if /\ Interruptible(code[cpu]) /\ irq[cpu] = Here
    BY <1>1, HereStack DEF StackInv, Here, Top
  <2>4. curprocess \in Procs
    BY <1>3, ProcAssumption DEF TypeOK, Threads, Procs
  <2>5. cpu = curprocess /\ cpu \in Procs /\ cpu # 0
    <3>1. cpu = 0 => code[0].at \notin {"uvm", "switch"}
      BY <2>3 DEF Interruptible
    <3> QED BY <1>3, <2>4, <3>1 DEF ScheduleInv, Procs
  <2> HIDE DEF f
  <2>6. code' = code /\ irq' = [irq EXCEPT ![cpu] = f]
    BY <2>1, <2>3 DEF Become
  <2>7. Here' = f
    BY <2>1, <2>2, BecomeHere DEF TimerHandler, Idle, Frame
  <2>8. TypeOK' /\ NoPanic'
    BY <2>1, <2>2, BecomeType
       DEF TimerHandler, NoPanic, TypeOK, table, counts, hardware
  <2>9. StackInv'
    <3>1. ShapeOK(f)
      BY <2>2 DEF ShapeOK
    <3>2. ASSUME NEW t \in Threads
          PROVE  ShapeOK(irq'[t]) /\ ~irq'[t].fl /\ ~irq'[t].saved
      <4>1. irq'[t] \in {f, irq[t]}
        BY <2>6 DEF TypeOK
      <4> QED BY <2>2, <3>1, <4>1 DEF StackInv
    <3>3. \A p \in Procs : p # cpu => irq'[p] = irq[p]
      BY <2>6 DEF TypeOK, Threads, Procs
    <3>4. \A p \in Procs : irq'[p].fn \in {"idle", "timer", "yield", "kbd"}
      BY <2>2, <2>6 DEF StackInv, TypeOK, Threads, Procs
    <3>5. irq'[0] = irq[0]
      BY <2>5, <2>6, ProcAssumption DEF TypeOK, Threads
    <3> QED BY <2>3, <2>5, <2>6, <3>2, <3>3, <3>4, <3>5
          DEF StackInv, Suspended, Interruptible, TimerHandler, table
  <2>10. BootInv'
    BY <2>5, <2>6 DEF BootInv, Embryonic, TimerHandler, table, hardware
  <2>11. ScheduleInv'
    BY <1>1, <2>2, <2>5, <2>6, <2>7 DEF ScheduleInv, TimerHandler, table, hardware
  <2>12. LockInv' /\ MaskInv'
    BY <1>1, <2>2, <2>7
       DEF LockInv, Locked, MaskInv, TimerHandler, table, counts
  <2> QED BY <2>8, <2>9, <2>10, <2>11, <2>12
<1> QED BY <1>2, <1>3

LEMMA IretStep ==
  ASSUME IInv, Iret
  PROVE  IInv'
<1> USE DEF IInv
<1>1. /\ Here.at = "iret" /\ Become(Idle) /\ cpu' = cpu
      /\ fl_if' = (irq[cpu] # Idle \/ tf_if[cpu])
  BY DEF Iret, At
<1>2. ncli = 0 /\ held = {}
  BY <1>1 DEF LockInv, Locked
<1>3. Idle.fn = "idle" /\ Idle.at = "idle" /\ ~Idle.fl /\ ~Idle.saved /\ ShapeOK(Idle)
  BY DEF Idle, Frame, ShapeOK
<1>4. /\ code' \in [Threads -> Frames] /\ irq' \in [Threads -> Frames]
      /\ cpu \in Threads /\ (cpu = 0 \/ cpu \in Procs) /\ 0 \in Threads
      /\ \A p \in Procs : p \in Threads /\ p # 0
  BY <1>1, IdleType, BecomeType, ProcAssumption DEF TypeOK, Threads, Procs
<1>5. CASE irq[cpu] # Idle
  <2>1. /\ irq' = [irq EXCEPT ![cpu] = Idle] /\ code' = code
        /\ Interruptible(code[cpu]) /\ fl_if' = TRUE
    BY <1>1, <1>5, Zenon DEF Become, StackInv
  <2>2. Here' = code[cpu] /\ irq'[cpu] = Idle
    BY <1>1, <1>4, <2>1 DEF Here, Top, TypeOK
  <2>4. TypeOK' /\ NoPanic'
    <3>1. fl_if' \in BOOLEAN
      BY <2>1
    <3> QED BY <1>1, <1>4, <3>1 DEF Iret, NoPanic, TypeOK, table, counts, hardware
  <2>5. StackInv'
    <3>1. ASSUME NEW t \in Threads
          PROVE  ShapeOK(irq'[t]) /\ ~irq'[t].fl /\ ~irq'[t].saved
      <4>1. irq'[t] \in {Idle, irq[t]}
        BY <2>1 DEF TypeOK
      <4> QED BY <1>3, <4>1 DEF StackInv
    <3>2. \A p \in Procs : p # cpu => irq'[p] = irq[p]
      BY <1>4, <2>1 DEF TypeOK
    <3>3. \A p \in Procs : irq'[p].fn \in {"idle", "timer", "yield", "kbd"}
      BY <1>3, <2>2, <3>2 DEF StackInv
    <3>4. irq'[0].fn \in {"idle", "timer", "kbd"} /\ (cpu # 0 => irq'[0] = Idle)
      <4>1. irq'[0] = Idle \/ irq'[0] = irq[0]
        BY <1>4, <2>1 DEF TypeOK
      <4> QED BY <1>3, <4>1 DEF StackInv
    <3> QED BY <1>1, <2>1, <2>2, <3>1, <3>2, <3>3, <3>4
          DEF StackInv, Suspended, Interruptible, Iret, table
  <2>6. BootInv'
    <3>1. \A p \in Procs : irq[p] = Idle => irq'[p] = Idle
      BY <1>4, <2>1 DEF TypeOK
    <3> QED BY <1>1, <2>1, <3>1 DEF BootInv, Embryonic, Iret, table, hardware
  <2>7. ScheduleInv'
    BY <1>1, <2>1, <2>2 DEF ScheduleInv, Interruptible, Iret, table, hardware
  <2>8. LockInv' /\ MaskInv'
    <3>1. LockInv'
      BY <1>2, <2>1, <2>2 DEF LockInv, Locked, Interruptible, Iret, counts
    <3>2. Here'.at = "cli" => Here'.fl = fl_if'
      <4>1. code[cpu] \in Frames
        BY <1>4 DEF TypeOK
      <4> QED BY <2>1, <2>2, <4>1 DEF Interruptible, Frames
    <3>3. /\ Here'.fn \in {"boot", "fault"} => ~fl_if'
          /\ Here'.at = "idle" => fl_if'
      BY <2>1, <2>2 DEF Interruptible
    <3> QED BY <3>1, <3>2, <3>3 DEF MaskInv, Iret, table
  <2> QED BY <2>4, <2>5, <2>6, <2>7, <2>8
<1>6. CASE irq[cpu] = Idle
  <2>1. Here = code[cpu] /\ code' = [code EXCEPT ![cpu] = Idle] /\ irq' = irq
    BY <1>1, <1>6 DEF Become, Here, Top
  <2>2. cpu # 0 /\ cpu \in Procs /\ cpu \in built
    <3>1. Here.fn \notin {"boot", "alloc", "ready", "scheduler"}
      BY <1>1, HereStack DEF ShapeOK
    <3> QED BY <1>4, <1>6, <3>1, HereStack DEF ScheduleInv
  <2>3. fl_if' = TRUE
    <3>1. tf_if[cpu] = TRUE
      BY <2>2 DEF MaskInv, TypeOK
    <3> QED BY <1>1, <3>1, Zenon
  <2>4. Here' = Idle /\ code'[cpu] = Idle /\ code'[0] = code[0]
    BY <1>1, <1>4, <1>6, <2>1, <2>2 DEF Here, Top, TypeOK
  <2>5. TypeOK' /\ NoPanic'
    BY <1>4, <2>3 DEF Iret, NoPanic, TypeOK, table, counts, hardware
  <2>6. StackInv'
    <3>1. ASSUME NEW t \in Threads
          PROVE  ShapeOK(code'[t]) /\ (code'[t].fn = "fault" => ~code'[t].fl)
      <4>1. code'[t] \in {Idle, code[t]}
        BY <2>1 DEF TypeOK
      <4> QED BY <1>3, <4>1 DEF StackInv
    <3>2. \A p \in Procs : p # cpu => code'[p] = code[p]
      BY <1>4, <2>1 DEF TypeOK
    <3>3. \A p \in Procs : code'[p].fn \in {"idle", "forkret", "print", "fault"}
      BY <1>3, <2>4, <3>2 DEF StackInv
    <3> QED BY <1>1, <1>6, <2>1, <2>2, <2>4, <3>1, <3>2, <3>3
          DEF StackInv, Suspended, Interruptible, Iret, table
  <2>7. BootInv'
    BY <1>1, <2>1, <2>2, <2>4 DEF BootInv, Embryonic, Iret, table, hardware
  <2>8. ScheduleInv'
    BY <1>1, <1>3, <2>2, <2>4 DEF ScheduleInv, Iret, table, hardware
  <2>9. LockInv' /\ MaskInv'
    BY <1>2, <1>3, <2>3, <2>4 DEF LockInv, Locked, MaskInv, Iret, table, counts
  <2> QED BY <2>5, <2>6, <2>7, <2>8, <2>9
<1> QED BY <1>5, <1>6

-----------------------------------------------------------------------------
(* Entry through the gates                                                 *)

\* What holds in user mode.
LEMMA UserMode ==
  ASSUME IInv, InUser
  PROVE  /\ cpu # 0 /\ cpu \in Procs /\ cpu \in built /\ cpu = esp0
         /\ irq[cpu] = Idle /\ code[cpu] = Idle /\ Here = Idle
         /\ Here.at = "idle" /\ fl_if /\ ncli = 0 /\ held = {}
         /\ code[0].at = "resume" /\ code[0].fn = "scheduler"
<1> USE DEF IInv
<1>1. cpu # 0 /\ Here = Idle /\ Idle.at = "idle" /\ Idle.fn = "idle"
  BY DEF InUser, Idle, Frame
<1>2. irq[cpu] = Idle /\ code[cpu] = Idle
  BY <1>1 DEF Here, Top
<1>3. cpu \in Procs /\ 0 \in Threads
  BY <1>1, ProcAssumption DEF TypeOK, Threads, Procs
<1>4. code[0].at = "resume" /\ code[0].fn = "scheduler"
  BY <1>1, <1>3 DEF StackInv, ShapeOK
<1>5. fl_if /\ ncli = 0 /\ held = {}
  BY <1>1 DEF MaskInv, LockInv, Locked
<1> QED BY <1>1, <1>2, <1>3, <1>4, <1>5 DEF ScheduleInv

LEMMA EnterStep ==
  ASSUME IInv, NEW gate \in {"syscall", "page fault"}, NEW f \in Frames,
         EnterFromUser(gate, f), f.at = "pushcli", ~f.fl, ~f.saved,
         f.fn = IF gate = "syscall" THEN "print" ELSE "fault"
  PROVE  IInv'
<1> USE DEF IInv
<1>1. /\ cpu # 0 /\ cpu \in Procs /\ cpu \in built /\ cpu = esp0
      /\ irq[cpu] = Idle /\ code[cpu] = Idle /\ Here = Idle
      /\ Here.at = "idle" /\ fl_if /\ ncli = 0 /\ held = {}
      /\ code[0].at = "resume" /\ code[0].fn = "scheduler"
  BY UserMode DEF EnterFromUser
<1>2. /\ cpu' = cpu /\ code' = [code EXCEPT ![cpu] = f] /\ irq' = irq
      /\ tf_if' = [tf_if EXCEPT ![cpu] = fl_if]
      /\ fault' = IF Top(cpu) # Idle THEN "stack in use" ELSE "none"
  BY <1>1 DEF EnterFromUser, Panic
<1>3. fl_if' \in BOOLEAN /\ (gate = "page fault" => ~fl_if')
  BY <1>1 DEF EnterFromUser, GateIF
<1>4. cpu \in Threads /\ 0 \in Threads /\ \A p \in Procs : p \in Threads /\ p # 0
  BY ThreadsOfProcs DEF TypeOK
<1>5. Here' = f /\ code'[cpu] = f /\ code'[0] = code[0]
  <2>1. code'[cpu] = f /\ code'[0] = code[0] /\ irq'[cpu] = Idle
    BY <1>1, <1>2, <1>4 DEF TypeOK
  <2> QED BY <1>2, <2>1 DEF Here, Top
<1>6. TypeOK' /\ NoPanic'
  <2>1. code' \in [Threads -> Frames] /\ tf_if' \in [Procs -> BOOLEAN]
    BY <1>2 DEF TypeOK
  <2>2. fault' = "none"
    BY <1>1, <1>2 DEF Top
  <2> QED BY <1>2, <1>3, <2>1, <2>2
        DEF EnterFromUser, NoPanic, TypeOK, counts, hardware
<1>7. StackInv'
  <2>1. ShapeOK(f)
    BY DEF ShapeOK
  <2>2. ASSUME NEW t \in Threads
        PROVE  ShapeOK(code'[t]) /\ (code'[t].fn = "fault" => ~code'[t].fl)
    <3>1. code'[t] \in {f, code[t]}
      BY <1>2 DEF TypeOK
    <3> QED BY <2>1, <3>1 DEF StackInv
  <2>3. \A p \in Procs : p # cpu => code'[p] = code[p]
    BY <1>2, <1>4 DEF TypeOK
  <2>4. \A p \in Procs : code'[p].fn \in {"idle", "forkret", "print", "fault"}
    BY <1>5, <2>3 DEF StackInv
  <2>5. ASSUME NEW p \in Procs, p # cpu
        PROVE  Suspended(p)'
    <3>1. Suspended(p)
      BY <2>5 DEF StackInv
    <3> QED BY <1>2, <2>3, <2>5, <3>1
          DEF Suspended, Interruptible, EnterFromUser
  <2> QED BY <1>1, <1>2, <1>5, <2>2, <2>4, <2>5 DEF StackInv
<1>8. BootInv'
  BY <1>1, <1>2, <1>5 DEF BootInv, Embryonic, EnterFromUser, hardware
<1>9. ScheduleInv'
  BY <1>1, <1>2, <1>5 DEF ScheduleInv, EnterFromUser, hardware
<1>10. LockInv'
  BY <1>1, <1>5 DEF LockInv, Locked, EnterFromUser, counts
<1>11. MaskInv'
  <2>1. f.fn = "fault" => ~fl_if'
    BY <1>3
  <2>2. \A p \in built : tf_if'[p]
    BY <1>1, <1>2 DEF MaskInv, TypeOK
  <2> QED BY <1>5, <2>1, <2>2 DEF MaskInv, EnterFromUser
<1> QED BY <1>6, <1>7, <1>8, <1>9, <1>10, <1>11

LEMMA TrapStep ==
  ASSUME IInv, Syscall \/ PageFault
  PROVE  IInv'
<1>1. ASSUME NEW n \in 1..CHARS, NEW g \in {"print", "fault"}
      PROVE  LET f == [Frame(g, "pushcli") EXCEPT !.n = n]
             IN  f \in Frames /\ f.at = "pushcli" /\ f.fn = g /\ ~f.fl /\ ~f.saved
  <2>1. Frame(g, "pushcli") \in Frames
    BY FrameType, PlaceTypes
  <2>2. Frame(g, "pushcli").at = "pushcli" /\ Frame(g, "pushcli").fn = g
        /\ ~Frame(g, "pushcli").fl /\ ~Frame(g, "pushcli").saved
    BY DEF Frame
  <2> QED BY <2>1, <2>2 DEF Frames
<1>2. CASE Syscall
  <2>1. PICK n \in 1..CHARS :
          EnterFromUser("syscall", [Frame("print", "pushcli") EXCEPT !.n = n])
    BY <1>2 DEF Syscall
  <2> QED BY <1>1, <2>1, EnterStep
<1>3. CASE PageFault
  <2>1. PICK n \in 1..CHARS :
          EnterFromUser("page fault", [Frame("fault", "pushcli") EXCEPT !.n = n])
    BY <1>3 DEF PageFault
  <2> QED BY <1>1, <2>1, EnterStep
<1> QED BY <1>2, <1>3

LEMMA InterruptStep ==
  ASSUME IInv, Interrupt
  PROVE  IInv'
<1> DEFINE v == IF IRQ0 \in irr THEN IRQ0 ELSE IRQ1
           f == Frame(IF v = IRQ0 THEN "timer" ELSE "kbd", "check")
<1> USE DEF IInv
<1>1. fl_if /\ ncli = 0 /\ held = {} /\ irq[cpu] = Idle /\ Here = code[cpu]
  BY DEF Interrupt, LockInv, Locked, StackInv, Here, Top
<1>2. cpu' = cpu /\ irr' = irr \ {v} /\ irq' = [irq EXCEPT ![cpu] = f] /\ code' = code
  <2>1. (IF InUser THEN esp0 ELSE cpu) = cpu
    BY UserMode
  <2> QED BY <2>1 DEF Interrupt
<1>3. /\ f \in Frames /\ f.at = "check" /\ f.fn \in {"timer", "kbd"}
      /\ ~f.fl /\ ~f.saved
  <2>1. /\ Frame("timer", "check") \in Frames /\ Frame("kbd", "check") \in Frames
    BY FrameType, PlaceTypes
  <2> QED BY <2>1 DEF Frame
<1> HIDE DEF f
<1>4. fl_if' = FALSE
  BY DEF Interrupt, GateIF
<1>5. cpu \in Threads /\ 0 \in Threads /\ \A p \in Procs : p \in Threads /\ p # 0
  BY ThreadsOfProcs DEF TypeOK
<1>6. irq'[cpu] = f /\ Here' = f
  <2>1. irq'[cpu] = f
    BY <1>2, <1>5 DEF TypeOK
  <2>2. f # Idle
    BY <1>3 DEF Idle, Frame
  <2> QED BY <1>2, <2>1, <2>2 DEF Here, Top
<1>7. Interruptible(code[cpu])
  <2>1. ShapeOK(Here) /\ Here.fn \notin {"timer", "yield", "kbd"}
    BY <1>1, HereStack
  <2>2. Here.at \notin Locked \cup {"take", "popcli"}
    BY <1>1 DEF LockInv, Locked
  <2>3. Here.fn \notin {"boot", "fault"}
    BY <1>1 DEF MaskInv
  <2>4. Here.at \in Places
    BY HereType DEF Frames
  <2>5. Here.at \in {"idle", "pushcli", "cli", "setup", "iret"}
    BY <2>1, <2>2, <2>3, <2>4 DEF Places, Locked, ShapeOK
  <2>6. Here.at = "cli" => Here.fl
    BY <1>1 DEF MaskInv
  <2> QED BY <1>1, <2>3, <2>5, <2>6 DEF Interruptible
<1>8. TypeOK' /\ NoPanic'
  <2>1. fault' = "none"
    <3>1. (IF InUser THEN esp0 ELSE cpu) = cpu
      BY UserMode
    <3> QED BY <1>1, <3>1 DEF Interrupt, Panic
  <2>2. irq' \in [Threads -> Frames] /\ irr' \subseteq {IRQ0, IRQ1}
    BY <1>2, <1>3 DEF TypeOK
  <2> QED BY <1>2, <1>4, <2>1, <2>2
        DEF Interrupt, NoPanic, TypeOK, table, counts, hardware
<1>9. StackInv'
  <2>1. ShapeOK(f)
    BY <1>3 DEF ShapeOK
  <2>2. ASSUME NEW t \in Threads
        PROVE  ShapeOK(irq'[t]) /\ ~irq'[t].fl /\ ~irq'[t].saved
    <3>1. irq'[t] \in {f, irq[t]}
      BY <1>2 DEF TypeOK
    <3> QED BY <1>3, <2>1, <3>1 DEF StackInv
  <2>3. \A p \in Procs : p # cpu => irq'[p] = irq[p]
    BY <1>2, <1>5 DEF TypeOK
  <2>4. \A p \in Procs : irq'[p].fn \in {"idle", "timer", "yield", "kbd"}
    BY <1>3, <1>6, <2>3 DEF StackInv
  <2>5. irq'[0].fn \in {"idle", "timer", "kbd"} /\ (cpu # 0 => irq'[0] = irq[0])
    <3>1. cpu = 0 => irq'[0] = f
      BY <1>6
    <3>2. cpu # 0 => irq'[0] = irq[0]
      BY <1>2, <1>5 DEF TypeOK
    <3> QED BY <1>3, <3>1, <3>2 DEF StackInv
  <2>6. ASSUME NEW p \in Procs, p # cpu
        PROVE  Suspended(p)'
    <3>1. Suspended(p)
      BY <2>6 DEF StackInv
    <3> QED BY <1>2, <2>3, <2>6, <3>1
          DEF Suspended, Interruptible, Interrupt, table
  <2> QED BY <1>2, <1>4, <1>7, <2>2, <2>4, <2>5, <2>6
        DEF StackInv, Interruptible
<1>10. BootInv'
  <2>1. \A p \in Procs : cpu = 0 => irq'[p] = irq[p]
    BY <1>2, <1>5 DEF TypeOK
  <2> QED BY <1>2, <2>1 DEF BootInv, Embryonic, Interrupt, table
<1>11. ScheduleInv'
  <2>1. Here.at # "sched"
    BY <1>1 DEF LockInv, Locked
  <2> QED BY <1>2, <1>3, <1>6, <2>1 DEF ScheduleInv, Interrupt, table
<1>12. LockInv' /\ MaskInv'
  BY <1>1, <1>3, <1>4, <1>6 DEF LockInv, Locked, MaskInv, Interrupt, table, counts
<1> QED BY <1>8, <1>9, <1>10, <1>11, <1>12

\* A device raises its line, or nothing happens at all.
LEMMA RaiseStep ==
  ASSUME IInv, Tick \/ Key \/ UNCHANGED vars
  PROVE  IInv'
<1>1. /\ irr' \subseteq {IRQ0, IRQ1}
      /\ UNCHANGED <<cpu, fl_if, ncli, intena, held, state, pid, nextpid, built,
                     tf_if, curprocess, cr3, esp0, code, irq, cursor, fault>>
  BY DEF Tick, Key, Raise, vars, table, counts, hardware, stacks, IInv, TypeOK
<1> QED BY <1>1
      DEF IInv, TypeOK, NoPanic, StackInv, MaskInv, LockInv, BootInv, ScheduleInv,
          Suspended, Embryonic, Here, Top, Lock

-----------------------------------------------------------------------------
(* The invariant                                                           *)

LEMMA InvInit == Init => IInv
<1> SUFFICES ASSUME Init PROVE IInv
  OBVIOUS
<1> DEFINE f == Frame("boot", "sti")
<1>1. f.fn = "boot" /\ f.at = "sti" /\ ~f.fl /\ f # Idle
  BY DEF Frame, Idle
<1>2. /\ 0 \in Threads /\ \A p \in Procs : p \in Threads /\ p # 0
      /\ nextpid \in 1..(NBOOT + 1) /\ \A p \in Procs : p >= nextpid
      /\ nextpid <= NBOOT
  BY ThreadsOfProcs, ProcAssumption DEF Init, Procs
<1>3. /\ code[0] = f /\ \A t \in Threads : irq[t] = Idle /\ code[t] \in {f, Idle}
      /\ \A p \in Procs : code[p] = Idle
  BY <1>2 DEF Init
<1>4. Here = f
  BY <1>2, <1>3 DEF Here, Top, Init
<1>5. ShapeOK(f) /\ ShapeOK(Idle) /\ ~Idle.fl /\ ~Idle.saved /\ Idle.fn = "idle"
  BY DEF ShapeOK, Frame, Idle
<1> HIDE DEF f
<1>6. StackInv
  BY <1>1, <1>2, <1>3, <1>5 DEF StackInv, Suspended, Init
<1>7. MaskInv /\ LockInv /\ NoPanic
  BY <1>1, <1>4 DEF MaskInv, LockInv, Locked, NoPanic, Init
<1>8. BootInv
  BY <1>1, <1>2, <1>3 DEF BootInv, Embryonic, Init
<1>9. ScheduleInv
  BY <1>1, <1>3 DEF ScheduleInv, Init
<1> QED BY <1>6, <1>7, <1>8, <1>9, TypeInit DEF IInv

LEMMA InvNext == IInv /\ [Next]_vars => IInv'
<1> SUFFICES ASSUME IInv, [Next]_vars PROVE IInv'
  OBVIOUS
<1>1. CASE LockStep
  BY <1>1, PushcliStep, CliStep, TakeStep, DropStep, PopcliStep DEF LockStep
<1>2. CASE BootStep
  BY <1>2, StiStep, AllocProcessStep, UinitprocSetupStep, MakeRunableStep
     DEF BootStep
<1>3. CASE ScheduleStep
  BY <1>3, ScanStartStep, ScanSkipStep, ScanRunStep, ScanEndStep,
     SwitchToUvmStep, SwitchToProcessStep, SwitchToKvmStep,
     YieldCpuStep, GotoSchedulerStep, ResumedStep
     DEF ScheduleStep
<1>4. CASE HandlerStep
  BY <1>4, ConsolePutStep, TimerHandlerStep, KbdHandlerStep, MmapDoMapStep,
     IretStep DEF HandlerStep
<1>5. CASE Interrupt
  BY <1>5, InterruptStep
<1>6. CASE Syscall \/ PageFault
  BY <1>6, TrapStep
<1>7. CASE Tick \/ Key \/ UNCHANGED vars
  BY <1>7, RaiseStep
<1> QED BY <1>1, <1>2, <1>3, <1>4, <1>5, <1>6, <1>7 DEF Next, KernelStep

\* The inductive invariant holds in every reachable state.
THEOREM Invariance == Safety => []IInv
BY InvInit, InvNext, PTL DEF Safety

-----------------------------------------------------------------------------
(* What it implies                                                         *)

\* Every variable keeps its type; cursor, for one, stays inside ptable whenever
\* scheduler() writes through it.
THEOREM TypeCorrect == Safety => []TypeOK
<1>1. IInv => TypeOK
  BY DEF IInv
<1> QED BY <1>1, Invariance, PTL

\* No check of acquire(), release(), popcli(), switch_to_uvm() or goto_scheduler()
\* ever fails, no handler is interrupted, no kernel stack is entered while in use.
THEOREM PanicFree == Safety => []NoPanic
<1>1. IInv => NoPanic
  BY DEF IInv
<1> QED BY <1>1, Invariance, PTL

LEMMA OneElement == \A x : Cardinality({x}) = 1
BY FS_Singleton

\* Interrupts are on only with no lock held and no pushcli() open; at most one
\* lock is held, under exactly one pushcli().
THEOREM MaskDisciplineHolds == Safety => []MaskDiscipline
<1>1. ASSUME IInv PROVE MaskDiscipline
  <2>1. CASE Here.at \in Locked
    BY <1>1, <2>1, OneElement DEF IInv, LockInv, MaskDiscipline
  <2>2. CASE Here.at \notin Locked
    <3>1. held = {}
      BY <1>1, <2>2 DEF IInv, LockInv
    <3>2. fl_if => ncli = 0
      BY <1>1, <2>2 DEF IInv, LockInv
    <3> QED BY <3>1, <3>2 DEF MaskDiscipline
  <2> QED BY <2>1, <2>2
<1> QED BY <1>1, Invariance, PTL

\* The executing stack, curcpu.curprocess, the page directory and tss.esp0 name
\* the same process, and user mode is entered clean.
THEOREM ContextMatchesHolds == Safety => []ContextMatches
<1>1. ASSUME IInv PROVE ContextMatches
  <2>1. cpu # 0 => curprocess = cpu /\ cr3 = cpu /\ esp0 = cpu
    BY <1>1 DEF IInv, ScheduleInv
  <2>2. ASSUME cpu = 0, cr3 # 0
        PROVE  cr3 = curprocess /\ held = {"ptable"} /\ Here.at \in {"switch", "resume"}
    <3>1. code[0].at \in {"switch", "resume"} /\ cr3 = curprocess
      BY <1>1, <2>2 DEF IInv, ScheduleInv
    <3>2. code[0].fn = "scheduler"
      BY <1>1, <3>1, ThreadsOfProcs DEF IInv, StackInv, ShapeOK
    <3>3. irq[0] = Idle
      BY <1>1, <2>2, <3>1 DEF IInv, StackInv, Interruptible
    <3>4. Here = code[0]
      BY <2>2, <3>3 DEF Here, Top
    <3>5. held = {"ptable"}
      BY <1>1, <3>1, <3>2, <3>4 DEF IInv, LockInv, Locked, Lock, LockOf
    <3> QED BY <3>1, <3>4, <3>5
  <2>3. InUser => fl_if /\ held = {} /\ ncli = 0 /\ state[cpu] = "RUNNING"
    BY <1>1, UserMode DEF IInv, ScheduleInv
  <2> QED BY <2>1, <2>2, <2>3 DEF ContextMatches
<1> QED BY <1>1, Invariance, PTL

\* RUNNING is the process curcpu names, and with ptable.lock free the one whose
\* stack executes.
THEOREM OneRunningHolds == Safety => []OneRunning
<1>1. ASSUME IInv PROVE OneRunning
  <2>1. \A p \in Procs : state[p] = "RUNNING" => curprocess = p
    BY <1>1 DEF IInv, ScheduleInv
  <2>2. ASSUME "ptable" \notin held, NEW p \in Procs
        PROVE  state[p] = "RUNNING" <=> cpu = p
    <3>1. CASE cpu = 0
      <4>1. code[0].at \notin {"uvm", "switch"}
        <5>1. ASSUME code[0].at \in {"uvm", "switch"} PROVE FALSE
          <6>1. code[0].fn = "scheduler" /\ irq[0] = Idle
            BY <1>1, <3>1, <5>1, ThreadsOfProcs
               DEF IInv, StackInv, ShapeOK, Interruptible
          <6>2. Here = code[0]
            BY <3>1, <6>1 DEF Here, Top
          <6> QED BY <1>1, <2>2, <5>1, <6>1, <6>2
                DEF IInv, LockInv, Locked, Lock, LockOf
        <5> QED BY <5>1
      <4> QED BY <1>1, <3>1, <4>1, ThreadsOfProcs DEF IInv, ScheduleInv
    <3>2. CASE cpu # 0
      <4>1. Here.at # "sched"
        <5>1. ASSUME Here.at = "sched" PROVE FALSE
          <6>1. Here.fn = "yield"
            BY <1>1, <5>1, HereStack DEF IInv, ShapeOK
          <6> QED BY <1>1, <2>2, <5>1, <6>1
                DEF IInv, LockInv, Locked, Lock, LockOf
        <5> QED BY <5>1
      <4> QED BY <1>1, <3>2, <4>1, <2>1 DEF IInv, ScheduleInv
    <3> QED BY <3>1, <3>2
  <2> QED BY <2>1, <2>2 DEF OneRunning
<1> QED BY <1>1, Invariance, PTL

\* The unlocked page allocator, heap and mmaplist have one thread inside at most.
THEOREM AllocatorExclusiveHolds == Safety => []AllocatorExclusive
<1>1. ASSUME IInv PROVE AllocatorExclusive
  <2>1. ASSUME NEW t \in Threads, InAllocator(t)
        PROVE  t = cpu
    <3>1. irq[t].at \notin {"setup", "map"}
      <4>1. irq[t].fn \notin {"alloc", "fault"} /\ ShapeOK(irq[t])
        BY <1>1, ThreadsOfProcs DEF IInv, StackInv
      <4> QED BY <4>1 DEF ShapeOK
    <3>2. code[t].at \in {"setup", "map"} /\ ShapeOK(code[t])
      BY <1>1, <2>1, <3>1 DEF InAllocator, IInv, StackInv
    <3>3. CASE t = 0
      BY <1>1, <3>2, <3>3 DEF IInv, StackInv
    <3>4. CASE t \in Procs /\ t # cpu
      <4>1. Suspended(t) /\ code[t].fn # "alloc"
        BY <1>1, <3>4 DEF IInv, StackInv
      <4>2. code[t].at = "map" /\ code[t].fn = "fault"
        BY <3>2, <4>1 DEF ShapeOK
      <4> QED BY <4>1, <4>2 DEF Suspended, Interruptible, Idle, Frame
    <3> QED BY <3>3, <3>4, ThreadsOfProcs
  <2> QED BY <2>1 DEF AllocatorExclusive
<1> QED BY <1>1, Invariance, PTL

\* curcpu.intena survives the stacks that ran in between: the popcli() of a
\* function finds the IF its own pushcli() read.
THEOREM RestoresOwnIFHolds == Safety => []RestoresOwnIF
<1>1. IInv => RestoresOwnIF
  BY DEF IInv, LockInv, RestoresOwnIF
<1> QED BY <1>1, Invariance, PTL

\* A process changes state, and the CPU changes stack, only with ptable.lock held
\* at depth one and interrupts off, before and after.
THEOREM ScheduleUnderLockHolds == Safety => ScheduleUnderLock
<1> DEFINE Guarded == /\ held = {"ptable"} /\ held' = held
                      /\ ncli = 1 /\ ~fl_if /\ ~fl_if'
<1>1. ASSUME IInv, [Next]_vars, state' # state \/ cpu' # cpu
      PROVE  Guarded
  <2>1. ASSUME Here.at \in Locked, Lock = "ptable", UNCHANGED <<held, fl_if>>
        PROVE  Guarded
    BY <1>1, <2>1 DEF IInv, LockInv
  <2>2. CASE LockStep
    BY <1>1, <2>2 DEF LockStep, Pushcli, Cli, Take, Drop, Popcli, table
  <2>3. CASE BootStep
    <3>1. CASE AllocProcess
      BY <2>1, <3>1 DEF AllocProcess, In, At, Locked, Lock, LockOf
    <3>2. CASE MakeRunable
      BY <2>1, <3>2 DEF MakeRunable, In, At, Locked, Lock, LockOf
    <3> QED BY <1>1, <2>3, <3>1, <3>2 DEF BootStep, Sti, UinitprocSetup, table
  <2>4. CASE ScheduleStep
    <3>1. CASE ScanRun
      BY <1>1, <2>1, <3>1, HereStack
         DEF IInv, ScanRun, At, ShapeOK, Locked, Lock, LockOf
    <3>2. CASE SwitchToProcess
      BY <1>1, <2>1, <3>2, HereStack
         DEF IInv, SwitchToProcess, At, ShapeOK, Locked, Lock, LockOf
    <3>3. CASE YieldCpu
      BY <2>1, <3>3 DEF YieldCpu, In, At, Locked, Lock, LockOf
    <3>4. CASE GotoScheduler
      BY <1>1, <2>1, <3>4, HereStack
         DEF IInv, GotoScheduler, At, ShapeOK, Locked, Lock, LockOf
    <3> QED BY <1>1, <2>4, <3>1, <3>2, <3>3, <3>4
          DEF ScheduleStep, ScanStart, ScanSkip, ScanEnd, SwitchToUvm, SwitchToKvm,
              Resumed, table
  <2>5. CASE HandlerStep
    BY <1>1, <2>5
       DEF HandlerStep, ConsolePut, TimerHandler, KbdHandler, MmapDoMap, Iret, table
  <2>6. CASE Interrupt
    BY <1>1, <2>6, UserMode DEF Interrupt, table
  <2>7. CASE Syscall \/ PageFault
    BY <1>1, <2>7, UserMode DEF Syscall, PageFault, EnterFromUser
  <2>8. CASE Tick \/ Key \/ UNCHANGED vars
    BY <1>1, <2>8 DEF Tick, Key, Raise, vars, table
  <2> QED BY <1>1, <2>2, <2>3, <2>4, <2>5, <2>6, <2>7, <2>8 DEF Next, KernelStep
<1>2. IInv /\ [Next]_vars =>
        [state' # state \/ cpu' # cpu => Guarded]_vars
  BY <1>1
<1> QED BY <1>2, Invariance, PTL DEF Safety, ScheduleUnderLock

-----------------------------------------------------------------------------
(* What the scan has left behind                                           *)

\* A step outside the scan that moves the running frame.
LEMMA QuietScan ==
  ASSUME IInv, ScanInv, NEW f \in Frames, Become(f),
         Here.at \notin Sweep, f.at \notin Sweep,
         f.fn = "scheduler" => Here.fn = "scheduler" \/ curprocess = 0,
         UNCHANGED <<state, curprocess, cursor>>
  PROVE  ScanInv'
<1>1. 0 \in Threads /\ cpu \in Threads
  BY ThreadsOfProcs DEF IInv, TypeOK
<1>2. CASE cpu = 0 /\ irq[cpu] = Idle
  <2>1. code'[0] = f /\ code[0] = Here
    BY <1>1, <1>2 DEF Become, Here, Top, IInv, TypeOK
  <2> QED BY <2>1 DEF ScanInv, Sweep
<1>3. CASE ~(cpu = 0 /\ irq[cpu] = Idle)
  <2>1. code'[0] = code[0]
    BY <1>1, <1>3 DEF Become, IInv, TypeOK
  <2> QED BY <2>1 DEF ScanInv
<1> QED BY <1>2, <1>3

LEMMA QuietGoto ==
  ASSUME IInv, ScanInv, NEW w \in Places \ Sweep, Goto(w), Here.at \notin Sweep,
         UNCHANGED <<state, curprocess, cursor>>
  PROVE  ScanInv'
<1> DEFINE f == [Here EXCEPT !.at = w]
<1>1. f \in Frames /\ f.at = w /\ f.fn = Here.fn
  BY GotoFrame DEF IInv
<1>2. Become(f)
  BY DEF Goto
<1> HIDE DEF f
<1> QED BY <1>1, <1>2, QuietScan

LEMMA LockScan ==
  ASSUME IInv, ScanInv, LockStep
  PROVE  ScanInv'
<1>1. CASE Pushcli
  <2> DEFINE f == [Here EXCEPT !.at = "cli", !.fl = fl_if]
  <2>1. f \in Frames /\ f.at = "cli" /\ f.fn = Here.fn
    BY HereType, PlaceTypes DEF IInv, TypeOK, Frames
  <2>2. Become(f) /\ Here.at = "pushcli" /\ UNCHANGED <<state, curprocess, cursor>>
    BY <1>1 DEF Pushcli, At, table
  <2> HIDE DEF f
  <2> QED BY <2>1, <2>2, QuietScan DEF Sweep
<1>2. CASE Cli
  BY <1>2, QuietGoto, PlaceTypes DEF Cli, At, table, Sweep
<1>3. CASE Take
  BY <1>3, QuietGoto, PlaceTypes DEF Take, At, table, Sweep
<1>4. CASE Drop
  BY <1>4, QuietGoto, PlaceTypes DEF Drop, At, table, Sweep
<1>5. CASE Popcli
  <2>1. Here \in Frames /\ After(Here) \in Frames
    BY HereType, AfterType DEF IInv
  <2>2. /\ Become(After(Here)) /\ Here.at = "popcli"
        /\ UNCHANGED <<state, curprocess, cursor>>
    BY <1>5 DEF Popcli, At, table
  <2>3. After(Here).at \notin Sweep
    BY <2>1 DEF After, Frame, Frames, Sweep
  <2>4. After(Here).fn = "scheduler" => Here.fn \in {"scheduler", "ready"}
    BY <2>1 DEF After, Frame, Frames
  <2>5. Here.fn = "ready" => curprocess = 0
    BY HereStack DEF IInv, BootInv, Here, Top
  <2> QED BY <2>1, <2>2, <2>3, <2>4, <2>5, QuietScan DEF Sweep
<1> QED BY <1>1, <1>2, <1>3, <1>4, <1>5 DEF LockStep

LEMMA BootScan ==
  ASSUME IInv, ScanInv, BootStep
  PROVE  ScanInv'
<1>1. 0 \in Threads
  BY ThreadsOfProcs
<1>2. ASSUME code'[0].fn \in {"alloc", "ready"}, code'[0].at \notin Sweep
      PROVE  ScanInv'
  BY <1>2 DEF ScanInv, Sweep
<1>3. ASSUME NEW fn \in {"alloc", "ready"}, In(fn, "body"), Goto("drop")
      PROVE  ScanInv'
  <2>1. cpu = 0 /\ irq[cpu] = Idle
    BY <1>3, HereStack DEF In, At, IInv
  <2>2. code'[0] = [Here EXCEPT !.at = "drop"] /\ Here \in Frames /\ Here.fn = fn
    BY <1>1, <1>3, <2>1, HereType DEF Goto, Become, IInv, TypeOK, In, At
  <2>3. code'[0].fn = fn /\ code'[0].at = "drop"
    BY <2>2 DEF Frames
  <2> QED BY <1>2, <2>3 DEF Sweep
<1>4. CASE Sti
  <2>1. Frame("alloc", "pushcli") \in Frames
    BY FrameType, PlaceTypes
  <2>2. /\ Frame("alloc", "pushcli").fn = "alloc"
        /\ Frame("alloc", "pushcli").at = "pushcli"
    BY DEF Frame
  <2> QED BY <1>4, <2>1, <2>2, QuietScan DEF Sti, At, Sweep, table
<1>5. CASE UinitprocSetup
  <2>1. code'[0] = Frame("ready", "pushcli")
    BY <1>1, <1>5 DEF UinitprocSetup
  <2> QED BY <1>2, <2>1 DEF Frame, Sweep
<1> QED BY <1>3, <1>4, <1>5 DEF BootStep, AllocProcess, MakeRunable

LEMMA ScheduleScan ==
  ASSUME IInv, ScanInv, ScheduleStep
  PROVE  ScanInv'
<1> USE DEF IInv
<1>1. 0 \in Threads /\ \A p \in Procs : p \in Nat
  BY ThreadsOfProcs DEF Procs
<1>2. ASSUME NEW w \in Places, Goto(w), Here.fn = "scheduler"
      PROVE  /\ cpu = 0 /\ code[0] = Here
             /\ code'[0].at = w /\ code'[0].fn = "scheduler"
  <2>1. cpu = 0 /\ irq[0] = Idle /\ code[0] = Here
    BY <1>2, Scanning
  <2>2. code'[0] = [Here EXCEPT !.at = w] /\ Here \in Frames
    BY <1>1, <1>2, <2>1, HereType DEF Goto, Become, TypeOK
  <2> QED BY <1>2, <2>1, <2>2 DEF Frames
<1>3. Here.at \in Sweep => Here.fn = "scheduler"
  BY HereStack DEF ShapeOK, Sweep
<1>4. CASE ScanStart
  <2>1. /\ code[0].at = "body" /\ code[0].fn = "scheduler"
        /\ code'[0].at = "scan"
        /\ cursor' = 1 /\ UNCHANGED <<state, curprocess>>
    BY <1>2, <1>4, PlaceTypes DEF ScanStart, In, At, table
  <2> QED BY <1>1, <2>1 DEF ScanInv, Sweep, TypeOK, Threads, Procs
<1>5. CASE ScanSkip
  <2>1. /\ code[0].at = "scan" /\ code' = code
        /\ cursor \in Procs /\ state[cursor] # "RUNABLE" /\ cursor' = cursor + 1
        /\ UNCHANGED <<state, curprocess>>
    BY <1>3, <1>5, Scanning DEF ScanSkip, At, Sweep, stacks, table, NextSlot
  <2> QED BY <1>1, <2>1 DEF ScanInv, Sweep, TypeOK, Threads, Procs
<1>6. CASE ScanRun
  <2>1. code'[0].at = "uvm"
    BY <1>2, <1>3, <1>6, PlaceTypes DEF ScanRun, At, Sweep
  <2> QED BY <2>1 DEF ScanInv, Sweep
<1>7. CASE ScanEnd
  <2>1. /\ code[0].at = "scan" /\ code'[0].at = "drop"
        /\ cursor \notin Procs /\ UNCHANGED <<state, curprocess, cursor>>
    BY <1>2, <1>3, <1>7, PlaceTypes DEF ScanEnd, At, Sweep, table
  <2>2. cursor = NPROC + 1
    BY <2>1, ProcAssumption DEF ScanInv, TypeOK, Procs
  <2> QED BY <1>1, <2>1, <2>2, ProcAssumption DEF ScanInv, Sweep, TypeOK, Threads, Procs
<1>8. CASE SwitchToUvm
  <2>1. code'[0].at = "switch"
    BY <1>2, <1>3, <1>8, PlaceTypes DEF SwitchToUvm, At, Sweep
  <2> QED BY <2>1 DEF ScanInv, Sweep
<1>9. CASE SwitchToProcess
  <2>1. code'[0].at = "resume"
    BY <1>2, <1>3, <1>9, PlaceTypes DEF SwitchToProcess, At, Sweep
  <2> QED BY <2>1 DEF ScanInv, Sweep
<1>10. CASE SwitchToKvm
  <2>1. /\ code[0].at = "resume" /\ code'[0].at = "scan" /\ cpu = 0
        /\ cursor' = cursor + 1 /\ UNCHANGED <<state, curprocess>>
    BY <1>2, <1>3, <1>10, PlaceTypes DEF SwitchToKvm, At, Sweep, table, NextSlot
  <2>2. cursor \in Procs /\ cursor = curprocess
    BY <2>1 DEF ScheduleInv
  <2> QED BY <1>1, <2>1, <2>2 DEF ScanInv, Sweep
<1>11. ASSUME Here.fn = "yield", NEW f, Become(f)
       PROVE  ScanInv'
  <2>1. cpu # 0 /\ code[0].at = "resume" /\ irq[cpu] # Idle
    BY <1>11, Yielding
  <2>2. code' = code
    BY <1>11, <2>1 DEF Become
  <2> QED BY <2>1, <2>2 DEF ScanInv, Sweep
<1>12. CASE YieldCpu
  BY <1>11, <1>12 DEF YieldCpu, In, At, Goto
<1>13. CASE GotoScheduler \/ Resumed
  <2>1. Here.fn = "yield"
    BY <1>13, HereStack DEF GotoScheduler, Resumed, At, ShapeOK
  <2> QED BY <1>11, <1>13, <2>1 DEF GotoScheduler, Resumed, Goto
<1> QED BY <1>4, <1>5, <1>6, <1>7, <1>8, <1>9, <1>10, <1>12, <1>13
      DEF ScheduleStep

LEMMA HandlerScan ==
  ASSUME IInv, ScanInv, HandlerStep
  PROVE  ScanInv'
<1>1. CASE ConsolePut
  BY <1>1, QuietGoto, PlaceTypes DEF ConsolePut, At, table, Sweep
<1>2. CASE TimerHandler
  <2>1. Yield \in Frames /\ Yield.fn = "yield" /\ Yield.at = "pushcli"
    BY FrameType, PlaceTypes DEF Yield, Frame
  <2>2. CASE Become(Yield)
    BY <1>2, <2>1, <2>2, QuietScan DEF TimerHandler, In, At, table, Sweep
  <2>3. CASE Goto("iret")
    BY <1>2, <2>3, QuietGoto, PlaceTypes DEF TimerHandler, In, At, table, Sweep
  <2> QED BY <1>2, <2>2, <2>3 DEF TimerHandler
<1>3. CASE KbdHandler
  BY <1>3, QuietGoto, PlaceTypes DEF KbdHandler, In, At, table, Sweep
<1>4. CASE MmapDoMap
  BY <1>4, QuietGoto, PlaceTypes DEF MmapDoMap, At, table, Sweep
<1>5. CASE Iret
  <2>1. Idle.fn = "idle" /\ Idle.at = "idle"
    BY DEF Idle, Frame
  <2> QED BY <1>5, <2>1, IdleType, QuietScan DEF Iret, At, table, Sweep
<1> QED BY <1>1, <1>2, <1>3, <1>4, <1>5 DEF HandlerStep

LEMMA ScanNext == IInv /\ ScanInv /\ [Next]_vars => ScanInv'
<1> SUFFICES ASSUME IInv, ScanInv, [Next]_vars PROVE ScanInv'
  OBVIOUS
<1>1. ASSUME code'[0] = code[0], UNCHANGED <<state, curprocess, cursor>>
      PROVE  ScanInv'
  BY <1>1 DEF ScanInv
<1>2. CASE Interrupt
  BY <1>1, <1>2 DEF Interrupt, table
<1>3. CASE Syscall \/ PageFault
  <2>1. ASSUME NEW gate, NEW f, EnterFromUser(gate, f)
        PROVE  ScanInv'
    <3>1. esp0 \in Procs
      BY <2>1, UserMode DEF EnterFromUser
    <3>2. code'[0] = code[0]
      BY <2>1, <3>1, ThreadsOfProcs DEF EnterFromUser, IInv, TypeOK
    <3> QED BY <1>1, <2>1, <3>2 DEF EnterFromUser
  <2> QED BY <1>3, <2>1 DEF Syscall, PageFault
<1>4. CASE Tick \/ Key \/ UNCHANGED vars
  BY <1>1, <1>4 DEF Tick, Key, Raise, vars, table, stacks
<1> QED BY <1>2, <1>3, <1>4, LockScan, BootScan, ScheduleScan, HandlerScan
      DEF Next, KernelStep

\* Between the process picked last and the slot the scan has reached, cyclically,
\* no process is RUNABLE: whoever was passed over had no use for the CPU.
THEOREM ScanInvariance == Safety => []ScanInv
<1>1. Init => ScanInv
  <2>1. Init => code[0] = Frame("boot", "sti")
    BY ThreadsOfProcs DEF Init
  <2> QED BY <2>1 DEF ScanInv, Sweep, Frame
<1> QED BY <1>1, ScanNext, Invariance, PTL DEF Safety

-----------------------------------------------------------------------------
(* The step simulation                                                     *)

LEMMA ChosenOwner ==
  ASSUME NEW s, NEW p \in Procs, s[p] = "RUNNING",
         \A q \in Procs : s[q] = "RUNNING" => q = p
  PROVE  (IF \E q \in Procs : s[q] = "RUNNING"
            THEN CHOOSE q \in Procs : s[q] = "RUNNING" ELSE 0) = p
<1>1. (CHOOSE q \in Procs : s[q] = "RUNNING") = p
  OBVIOUS
<1> QED BY <1>1

\* A step that leaves every process as ready and as running as it was.
LEMMA SameTable ==
  ASSUME UNCHANGED <<state, curprocess>>
  PROVE  UNCHANGED RR!vars
<1>1. Owner' = Owner /\ Ready' = Ready
  BY DEF Owner, Ready
<1> QED BY <1>1 DEF RR!vars

\* alloc_process(): a slot that was UNUSED is no concern of the scheduler's.
LEMMA AllocStutters ==
  ASSUME IInv, AllocProcess
  PROVE  UNCHANGED RR!vars
<1>1. code[0].fn # "scheduler"
  BY HereStack DEF AllocProcess, In, At, IInv, Here, Top
<1>2. \A q \in Procs : state[q] # "RUNNING"
  BY <1>1 DEF IInv, BootInv
<1>3. PICK p \in Threads :
        /\ FirstUnused(p)
        /\ state' = [q \in Procs |-> IF q = p THEN "EMBRYO" ELSE state[q]]
  BY DEF AllocProcess
<1>4. \A q \in Procs : q = p => state[q] = "UNUSED"
  BY <1>3, ThreadsOfProcs DEF FirstUnused
<1>5. Ready' = Ready
  BY <1>3, <1>4 DEF Ready
<1>6. Owner = 0 /\ Owner' = 0
  BY <1>2, <1>3 DEF Owner
<1> QED BY <1>5, <1>6 DEF RR!vars, AllocProcess

LEMMA MakeRunableAdmits ==
  ASSUME IInv, MakeRunable
  PROVE  RR!Next
<1>1. code[0].fn = "ready" /\ code[0].at = "body"
  BY HereStack DEF MakeRunable, In, At, IInv, Here, Top
<1>2. \A q \in Procs : state[q] # "RUNNING"
  BY <1>1 DEF IInv, BootInv
<1>3. cursor \in Procs /\ state[cursor] = "EMBRYO" /\ cursor # 0
  BY <1>1, ThreadsOfProcs DEF IInv, BootInv, Embryonic
<1>4. /\ state' = [state EXCEPT ![cursor] = "RUNABLE"]
      /\ curprocess' = curprocess
      /\ state \in [Procs -> {"UNUSED", "EMBRYO", "RUNABLE", "RUNNING"}]
  BY DEF MakeRunable, IInv, TypeOK
<1>5. Ready' = Ready \cup {cursor} /\ cursor \notin Ready
  BY <1>3, <1>4 DEF Ready
<1>6. Owner = 0 /\ Owner' = 0
  BY <1>2, <1>4 DEF Owner
<1>7. RR!Admit(cursor)
  BY <1>3, <1>4, <1>5, <1>6 DEF RR!Admit
<1> QED BY <1>3, <1>7 DEF RR!Next, RR!Slots, Procs

LEMMA ScanRunDispatches ==
  ASSUME IInv, ScanInv, ScanRun
  PROVE  RR!Next
<1>1. Here.at = "scan" /\ Here.fn = "scheduler"
  BY HereStack DEF ScanRun, At, ShapeOK, IInv
<1>2. cpu = 0 /\ code[0] = Here
  BY <1>1, Scanning
<1>3. \A q \in Procs : state[q] # "RUNNING"
  BY <1>1, <1>2, ThreadsOfProcs DEF IInv, ScheduleInv
<1>4. /\ cursor \in Procs /\ state[cursor] = "RUNABLE" /\ curprocess' = cursor
      /\ state' = [state EXCEPT ![cursor] = "RUNNING"]
      /\ state \in [Procs -> {"UNUSED", "EMBRYO", "RUNABLE", "RUNNING"}]
  BY DEF ScanRun, IInv, TypeOK
<1>5. Ready' = Ready \ {cursor} /\ cursor \in Ready
  BY <1>4 DEF Ready
<1>6. Owner = 0
  BY <1>3 DEF Owner
<1>7. Owner' = cursor
  <2>1. state'[cursor] = "RUNNING" /\ \A q \in Procs : state'[q] = "RUNNING" => q = cursor
    BY <1>3, <1>4
  <2> QED BY <1>4, <2>1, ChosenOwner DEF Owner
<1>8. \A q \in Ready : RR!Distance(cursor) <= RR!Distance(q)
  <2>1. ASSUME NEW q \in Ready
        PROVE  RR!Distance(cursor) <= RR!Distance(q)
    <3>1. /\ q \in Procs /\ q \in 1..NPROC /\ cursor \in 1..NPROC
          /\ curprocess \in 0..NPROC /\ NPROC \in Nat
      BY <1>4, <2>1, ProcAssumption DEF Ready, Procs, IInv, TypeOK, Threads
    <3>2. IF cursor > curprocess THEN q <= curprocess \/ q >= cursor
          ELSE q <= curprocess /\ q >= cursor
      BY <1>1, <1>2, <2>1, <3>1 DEF ScanInv, Ready
    <3> QED BY <3>1, <3>2 DEF RR!Distance
  <2> QED BY <2>1
<1>9. RR!Dispatch(cursor)
  BY <1>4, <1>5, <1>6, <1>7, <1>8 DEF RR!Dispatch
<1> QED BY <1>4, <1>9 DEF RR!Next, RR!Slots, Procs

LEMMA YieldPreempts ==
  ASSUME IInv, YieldCpu
  PROVE  RR!Next
<1>1. Here.fn = "yield" /\ Here.at = "body"
  BY DEF YieldCpu, In, At
<1>2. cpu # 0 /\ cpu \in Procs /\ curprocess = cpu
  BY <1>1, Yielding
<1>3. state[cpu] = "RUNNING" /\ \A q \in Procs : state[q] = "RUNNING" => q = cpu
  BY <1>1, <1>2 DEF IInv, ScheduleInv
<1>4. /\ state' = [state EXCEPT ![cpu] = "RUNABLE"] /\ curprocess' = curprocess
      /\ state \in [Procs -> {"UNUSED", "EMBRYO", "RUNABLE", "RUNNING"}]
  BY <1>2 DEF YieldCpu, IInv, TypeOK
<1>5. Owner = cpu
  BY <1>2, <1>3, ChosenOwner DEF Owner
<1>6. Owner' = 0
  BY <1>3, <1>4 DEF Owner
<1>7. Ready' = Ready \cup {cpu}
  BY <1>2, <1>4 DEF Ready
<1> QED BY <1>2, <1>4, <1>5, <1>6, <1>7 DEF RR!Next, RR!Preempt

LEMMA StepSimulation == IInv /\ ScanInv /\ [Next]_vars => [RR!Next]_(RR!vars)
<1> SUFFICES ASSUME IInv, ScanInv, [Next]_vars PROVE [RR!Next]_(RR!vars)
  OBVIOUS
<1>1. CASE BootStep
  BY <1>1, SameTable, AllocStutters, MakeRunableAdmits
     DEF BootStep, Sti, UinitprocSetup, table
<1>2. CASE ScheduleStep
  <2>1. ScanRun \/ YieldCpu \/ UNCHANGED <<state, curprocess>>
    BY <1>2 DEF ScheduleStep, ScanStart, ScanSkip, ScanEnd, SwitchToUvm,
                SwitchToProcess, SwitchToKvm, GotoScheduler, Resumed, table
  <2> QED BY <2>1, SameTable, ScanRunDispatches, YieldPreempts
<1>3. CASE LockStep
  BY <1>3, SameTable DEF LockStep, Pushcli, Cli, Take, Drop, Popcli, table
<1>4. CASE HandlerStep
  BY <1>4, SameTable
     DEF HandlerStep, ConsolePut, TimerHandler, KbdHandler, MmapDoMap, Iret, table
<1>5. CASE Interrupt \/ Tick \/ Key \/ UNCHANGED vars
  BY <1>5, SameTable DEF Interrupt, Tick, Key, Raise, vars, table
<1>6. CASE Syscall \/ PageFault
  BY <1>6, SameTable DEF Syscall, PageFault, EnterFromUser
<1> QED BY <1>1, <1>2, <1>3, <1>4, <1>5, <1>6 DEF Next, KernelStep

\* The kernel core implements the round-robin scheduler: the CPU has one owner at
\* most, and each process scheduler() picks is the first ready one cyclically after
\* the one it picked before, however the scans are cut by switches and interrupts.
THEOREM ImplementsRoundRobin == Safety => RoundRobinSafety
<1>1. Init => RR!Init
  <2>1. ASSUME Init PROVE Owner = 0 /\ Ready = {} /\ curprocess = 0
    BY <2>1 DEF Init, Owner, Ready
  <2> QED BY <2>1 DEF RR!Init
<1> QED BY <1>1, StepSimulation, Invariance, ScanInvariance, PTL
      DEF Safety, RoundRobinSafety, RR!Safety

-----------------------------------------------------------------------------
(* One round at most                                                       *)

\* How many slots the CPU has moved on, cyclically, since it was at slot p.
Behind(p) == IF p <= curprocess THEN curprocess - p ELSE curprocess + NBOOT - p

\* Each process that passed p took the CPU at least one slot further from p, and
\* none did before the CPU was first given away.
Waited(p) ==
  IF state[p] = "RUNABLE" /\ curprocess # 0 THEN passed[p] <= Behind(p)
  ELSE passed[p] = 0

PassedInv ==
  /\ passed \in [Procs -> Nat]
  /\ curprocess <= NBOOT
  /\ \A p \in Procs : Waited(p)

LEMMA NobodyPassed ==
  ASSUME IInv, PassedInv, MCNext, Dispatched = {}, UNCHANGED curprocess,
         \A p \in Procs : state'[p] = "RUNABLE" =>
           state[p] = "RUNABLE" \/ curprocess = 0 \/ curprocess = p
  PROVE  PassedInv'
<1>1. Cardinality(Dispatched) = 0
  BY FS_EmptySet
<1>2. passed \in [Procs -> Nat] /\ curprocess \in Nat /\ NBOOT \in Nat
      /\ \A p \in Procs : p \in Nat
  BY ProcAssumption, ThreadsOfProcs DEF PassedInv, IInv, TypeOK, Threads, Procs
<1>3. passed' = [p \in Procs |->
                   IF state[p] = "RUNABLE" /\ state'[p] = "RUNABLE"
                     THEN passed[p] + 0 ELSE 0]
  BY <1>1 DEF MCNext
<1>4. passed' \in [Procs -> Nat]
  BY <1>2, <1>3
<1>5. ASSUME NEW p \in Procs
      PROVE  Waited(p)'
  <2>1. passed'[p] = IF state[p] = "RUNABLE" /\ state'[p] = "RUNABLE"
                       THEN passed[p] ELSE 0
    BY <1>2, <1>3
  <2>2. Waited(p)
    BY DEF PassedInv
  <2>3. CASE state[p] = "RUNABLE" /\ state'[p] = "RUNABLE"
    BY <1>2, <2>1, <2>2, <2>3 DEF Waited, Behind
  <2>4. CASE ~(state[p] = "RUNABLE" /\ state'[p] = "RUNABLE")
    <3>1. passed'[p] = 0
      BY <2>1, <2>4
    <3>2. state'[p] = "RUNABLE" /\ curprocess' # 0 => curprocess' = p
      BY <2>4
    <3> QED BY <1>2, <3>1, <3>2 DEF Waited, Behind
  <2> QED BY <2>3, <2>4
<1> QED BY <1>4, <1>5 DEF PassedInv

LEMMA DispatchPasses ==
  ASSUME IInv, ScanInv, PassedInv, MCNext, ScanRun
  PROVE  PassedInv'
<1>1. Here.at = "scan" /\ Here.fn = "scheduler"
  BY HereStack DEF ScanRun, At, ShapeOK, IInv
<1>2. cpu = 0 /\ code[0] = Here
  BY <1>1, Scanning
<1>3. /\ cursor \in Procs /\ state[cursor] = "RUNABLE" /\ curprocess' = cursor
      /\ state' = [state EXCEPT ![cursor] = "RUNNING"]
      /\ state \in [Procs -> {"UNUSED", "EMBRYO", "RUNABLE", "RUNNING"}]
  BY DEF ScanRun, IInv, TypeOK
<1>4. Dispatched = {cursor}
  BY <1>3 DEF Dispatched
<1>5. Cardinality(Dispatched) = 1
  BY <1>4, OneElement
<1>6. /\ passed \in [Procs -> Nat] /\ curprocess \in Nat /\ curprocess <= NBOOT
      /\ NBOOT \in Nat /\ \A p \in Procs : p \in Nat /\ p >= 1
  BY ProcAssumption, ThreadsOfProcs DEF PassedInv, IInv, TypeOK, Threads, Procs
<1>7. \A p \in Procs : state[p] = "RUNABLE" => p <= NBOOT
  BY <1>6 DEF IInv, BootInv
<1>8. passed' = [p \in Procs |->
                   IF state[p] = "RUNABLE" /\ state'[p] = "RUNABLE"
                     THEN passed[p] + 1 ELSE 0]
  BY <1>5 DEF MCNext
<1>9. ASSUME NEW p \in Procs
      PROVE  Waited(p)'
  <2>1. passed'[p] = IF state[p] = "RUNABLE" /\ state'[p] = "RUNABLE"
                       THEN passed[p] + 1 ELSE 0
    BY <1>8
  <2>2. state'[p] = "RUNABLE" <=> state[p] = "RUNABLE" /\ p # cursor
    BY <1>3
  <2>3. CASE state'[p] = "RUNABLE"
    <3>1. /\ passed'[p] = passed[p] + 1 /\ p # cursor /\ state[p] = "RUNABLE"
          /\ p \in 1..NBOOT /\ cursor \in 1..NBOOT
      BY <1>3, <1>6, <1>7, <2>1, <2>2, <2>3
    <3>2. IF cursor > curprocess THEN p <= curprocess \/ p >= cursor
          ELSE p <= curprocess /\ p >= cursor
      BY <1>1, <1>2, <3>1 DEF ScanInv
    <3>3. passed[p] \in Nat
          /\ IF curprocess # 0
               THEN passed[p] <= IF p <= curprocess THEN curprocess - p
                                 ELSE curprocess + NBOOT - p
               ELSE passed[p] = 0
      BY <1>6, <3>1 DEF PassedInv, Waited, Behind
    <3>4. passed[p] + 1 <= IF p <= cursor THEN cursor - p ELSE cursor + NBOOT - p
      BY <1>6, <3>1, <3>2, <3>3
    <3> QED BY <1>3, <1>6, <2>3, <3>1, <3>4 DEF Waited, Behind
  <2>4. CASE state'[p] # "RUNABLE"
    BY <2>1, <2>4 DEF Waited
  <2> QED BY <2>3, <2>4
<1>10. passed' \in [Procs -> Nat]
  BY <1>6, <1>8
<1>11. cursor <= NBOOT
  BY <1>3, <1>7
<1> QED BY <1>3, <1>9, <1>10, <1>11 DEF PassedInv

LEMMA PassedNext ==
  IInv /\ ScanInv /\ PassedInv /\ [MCNext]_<<vars, passed>> => PassedInv'
<1> SUFFICES ASSUME IInv, ScanInv, PassedInv, [MCNext]_<<vars, passed>>
             PROVE  PassedInv'
  OBVIOUS
<1>1. CASE UNCHANGED <<vars, passed>>
  BY <1>1 DEF PassedInv, Waited, Behind, vars, table
<1>2. ASSUME MCNext, UNCHANGED <<state, curprocess>>
      PROVE  PassedInv'
  <2>1. Dispatched = {}
    BY <1>2 DEF Dispatched
  <2> QED BY <1>2, <2>1, NobodyPassed
<1>3. CASE MCNext /\ AllocProcess
  <2>1. /\ UNCHANGED curprocess
        /\ \E p \in Threads : state' = [q \in Procs |->
                                  IF q = p THEN "EMBRYO" ELSE state[q]]
    BY <1>3 DEF AllocProcess
  <2>2. Dispatched = {} /\ \A p \in Procs : state'[p] = "RUNABLE" => state[p] = "RUNABLE"
    BY <2>1 DEF Dispatched
  <2> QED BY <1>3, <2>1, <2>2, NobodyPassed
<1>4. CASE MCNext /\ MakeRunable
  <2>1. /\ UNCHANGED curprocess
        /\ state' = [state EXCEPT ![cursor] = "RUNABLE"]
        /\ state \in [Procs -> {"UNUSED", "EMBRYO", "RUNABLE", "RUNNING"}]
    BY <1>4 DEF MakeRunable, IInv, TypeOK
  <2>2. curprocess = 0
    BY <1>4, HereStack DEF MakeRunable, In, At, IInv, BootInv, Here, Top
  <2>3. Dispatched = {}
    BY <2>1 DEF Dispatched
  <2> QED BY <1>4, <2>1, <2>2, <2>3, NobodyPassed
<1>5. CASE MCNext /\ YieldCpu
  <2>1. /\ UNCHANGED curprocess
        /\ state' = [state EXCEPT ![curprocess] = "RUNABLE"]
        /\ state \in [Procs -> {"UNUSED", "EMBRYO", "RUNABLE", "RUNNING"}]
    BY <1>5 DEF YieldCpu, IInv, TypeOK
  <2>2. Dispatched = {}
    BY <2>1 DEF Dispatched
  <2>3. \A p \in Procs : state'[p] = "RUNABLE" =>
          state[p] = "RUNABLE" \/ curprocess = p
    BY <2>1
  <2> QED BY <1>5, <2>1, <2>2, <2>3, NobodyPassed
<1>6. CASE MCNext /\ ScanRun
  BY <1>6, DispatchPasses
<1>7. Next =>
        \/ AllocProcess \/ MakeRunable \/ YieldCpu \/ ScanRun
        \/ UNCHANGED <<state, curprocess>>
  <2>1. BootStep => \/ AllocProcess \/ MakeRunable
                    \/ UNCHANGED <<state, curprocess>>
    BY DEF BootStep, Sti, UinitprocSetup, table
  <2>2. ScheduleStep => \/ ScanRun \/ YieldCpu
                        \/ UNCHANGED <<state, curprocess>>
    BY DEF ScheduleStep, ScanStart, ScanSkip, ScanEnd, SwitchToUvm,
           SwitchToProcess, SwitchToKvm, GotoScheduler, Resumed, table
  <2>3. LockStep \/ HandlerStep => UNCHANGED <<state, curprocess>>
    BY DEF LockStep, Pushcli, Cli, Take, Drop, Popcli, table, HandlerStep,
           ConsolePut, TimerHandler, KbdHandler, MmapDoMap, Iret
  <2>4. Interrupt \/ Tick \/ Key \/ Syscall \/ PageFault =>
          UNCHANGED <<state, curprocess>>
    BY DEF Interrupt, Tick, Key, Raise, Syscall, PageFault, EnterFromUser, table
  <2> QED BY <2>1, <2>2, <2>3, <2>4 DEF Next, KernelStep
<1> QED BY <1>1, <1>2, <1>3, <1>4, <1>5, <1>6, <1>7 DEF MCNext

\* Whoever waits for the CPU sees it given to others at most NBOOT - 1 times, for
\* every number of processes: yield_cpu() and scheduler() let nobody jump a queue.
THEOREM BoundedBypassHolds == MCSpec => []BoundedBypass
<1>1. MCInit => PassedInv
  BY ProcAssumption, ThreadsOfProcs DEF MCInit, Init, PassedInv, Waited
<1>2. IInv /\ PassedInv => BoundedBypass
  <2> SUFFICES ASSUME IInv, PassedInv, NEW p \in Procs PROVE passed[p] < NBOOT
    BY DEF BoundedBypass
  <2>1. /\ passed[p] \in Nat /\ NBOOT \in Nat /\ NBOOT >= 1 /\ p \in Nat /\ p >= 1
        /\ curprocess \in Nat /\ curprocess <= NBOOT
    BY ProcAssumption DEF PassedInv, IInv, TypeOK, Threads, Procs
  <2> QED BY <2>1 DEF PassedInv, Waited, Behind
<1>3. [MCNext]_<<vars, passed>> => [Next]_vars
  BY DEF MCNext
<1> QED BY <1>1, <1>2, <1>3, PassedNext, Invariance, ScanInvariance, PTL
      DEF MCSpec, MCInit, Safety

=============================================================================
