----------------------------- MODULE KernelInv -----------------------------
(***************************************************************************)
(* The inductive invariant behind the safety properties of the kernel      *)
(* core: which frames the stacks can hold, what the place of the running   *)
(* frame says of the lock and of the interrupt flag, and how the process   *)
(* table agrees with the place of the boot thread.                         *)
(***************************************************************************)
EXTENDS Kernel

\* Only certain functions reach certain places.
ShapeOK(f) ==
  /\ f.fn = "idle" => f = Idle
  /\ f.at = "idle" => f = Idle
  /\ f.fn = "boot" <=> f.at = "sti"
  /\ f.at \in {"scan", "uvm", "switch", "resume"} => f.fn = "scheduler"
  /\ f.at \in {"sched", "resumed"} => f.fn = "yield"
  /\ f.at = "setup" => f.fn = "alloc"
  /\ f.at = "map" => f.fn = "fault"
  /\ f.at = "check" => f.fn \in {"timer", "kbd"}
  /\ f.at = "iret" =>
       f.fn \in {"forkret", "print", "fault", "timer", "yield", "kbd"}
  /\ f.fn = "timer" => f.at \in {"check", "iret"}
  /\ f.fn = "forkret" => f.at \in {"drop", "popcli", "iret"}

\* What an interrupt handler may find under it: code that runs with IF set.
Interruptible(f) ==
  /\ f.at \in {"idle", "pushcli", "cli", "setup", "iret"}
  /\ f.fn \notin {"boot", "fault"}
  /\ f.at = "cli" => f.fl

\* A process that has not the CPU was never built, has never run, or was
\* preempted by a tick with IF set.
Suspended(p) ==
  \/ p \notin built /\ code[p] = Idle /\ irq[p] = Idle
  \/ p \in built /\ code[p] = Frame("forkret", "drop") /\ irq[p] = Idle
  \/ /\ p \in built
     /\ irq[p].fn = "yield" /\ irq[p].at = "resumed"
     /\ Interruptible(code[p])

StackInv ==
  /\ \A t \in Threads :
       /\ ShapeOK(code[t]) /\ ShapeOK(irq[t])
       /\ ~irq[t].fl /\ ~irq[t].saved
       /\ code[t].fn = "fault" => ~code[t].fl
  /\ code[0].fn \in {"boot", "alloc", "ready", "scheduler"}
  /\ irq[0].fn \in {"idle", "timer", "kbd"}
  /\ \A p \in Procs :
       /\ code[p].fn \in {"idle", "forkret", "print", "fault"}
       /\ irq[p].fn \in {"idle", "timer", "yield", "kbd"}
       /\ p # cpu => Suspended(p)
  /\ cpu # 0 => code[0].at = "resume" /\ irq[0] = Idle
  /\ irq[cpu] # Idle => ~fl_if /\ Interruptible(code[cpu])

MaskInv ==
  /\ Here.fn \in {"boot", "fault"} => ~fl_if
  /\ Here.at = "idle" => fl_if
  /\ Here.at = "cli" => Here.fl = fl_if
  /\ \A p \in built : tf_if[p]

\* The places between the exchange of acquire() and the store of release().
Locked == {"body", "scan", "uvm", "switch", "resume", "sched", "resumed", "drop"}

LockInv ==
  /\ Here.at \in Locked => ncli = 1 /\ held = {Lock} /\ ~fl_if
  /\ Here.at \in {"take", "popcli"} => ncli = 1 /\ held = {} /\ ~fl_if
  /\ Here.at \notin Locked \cup {"take", "popcli"} => ncli = 0 /\ held = {}
  /\ /\ Here.at \in {"take", "body", "sched", "drop", "popcli"}
     /\ Here.fn \notin {"scheduler", "forkret"}
     => intena = Here.fl

\* The boot thread between alloc_process() and RUNABLE.
Embryonic(f) ==
  \/ f.fn = "alloc" /\ f.at \in {"drop", "popcli", "setup"}
  \/ f.fn = "ready" /\ f.at \notin {"drop", "popcli"}

BootInv ==
  /\ nextpid \in 1..(NBOOT + 1)
  /\ \A p \in Procs :
       /\ p >= nextpid <=> state[p] = "UNUSED"
       /\ state[p] = "EMBRYO" => Embryonic(code[0]) /\ p = cursor
       /\ state[p] \in {"RUNABLE", "RUNNING"} => p \in built
  /\ Embryonic(code[0]) => cursor \in Procs /\ state[cursor] = "EMBRYO"
  /\ code[0].fn = "ready" => cursor \in built
  /\ code[0].fn = "boot" \/ (code[0].fn = "alloc" /\ ~Embryonic(code[0])) =>
       nextpid <= NBOOT
  /\ code[0].fn # "scheduler" =>
       /\ cpu = 0 /\ curprocess = 0 /\ cr3 = 0
       /\ \A p \in Procs : state[p] # "RUNNING" /\ irq[p] = Idle

ScheduleInv ==
  /\ \A p \in Procs : state[p] = "RUNNING" =>
       /\ curprocess = p
       /\ cpu = p \/ (cpu = 0 /\ code[0].at \in {"uvm", "switch"})
  /\ cpu = 0 /\ code[0].at \in {"uvm", "switch"} =>
       cursor = curprocess /\ cursor \in Procs /\ state[cursor] = "RUNNING"
  /\ cpu = 0 /\ code[0].at \in {"switch", "resume"} =>
       cursor \in Procs /\ cursor = curprocess /\ cr3 = cursor /\ esp0 = cursor
  /\ cpu = 0 /\ code[0].at \notin {"switch", "resume"} => cr3 = 0
  /\ cpu # 0 =>
       /\ cpu \in built /\ cursor = cpu /\ curprocess = cpu
       /\ cr3 = cpu /\ esp0 = cpu
       /\ IF Here.at = "sched" THEN state[cpu] = "RUNABLE"
          ELSE state[cpu] = "RUNNING"

\* The inductive invariant: every step keeps it, and NoPanic, MaskDiscipline,
\* ContextMatches, OneRunning, AllocatorExclusive and RestoresOwnIF follow from it.
IInv ==
  /\ TypeOK
  /\ NoPanic
  /\ StackInv
  /\ MaskInv
  /\ LockInv
  /\ BootInv
  /\ ScheduleInv

\* The places of scheduler() in the middle of its loop.
Sweep == {"scan", "uvm", "switch", "resume"}

\* What the scan has left behind: between the process it picked last and the slot
\* it has come to, cyclically, nothing is RUNABLE; nor is anything after the
\* process picked last, once a scan has ended.
ScanInv ==
  /\ code[0].at = "scan" =>
       /\ cursor >= 1
       /\ \A q \in Procs : state[q] = "RUNABLE" =>
            IF cursor > curprocess THEN q <= curprocess \/ q >= cursor
            ELSE q <= curprocess /\ q >= cursor
  /\ /\ code[0].fn = "scheduler" /\ curprocess # 0
     /\ code[0].at \notin Sweep
     => \A q \in Procs : state[q] = "RUNABLE" => q <= curprocess
=============================================================================
