----------------------------- MODULE RoundRobin -----------------------------
(***************************************************************************)
(* What scheduler() and yield_cpu() of kernel/scheduler.c promise together *)
(* to the processes, without locks, stacks or interrupts: the CPU belongs  *)
(* to at most one process, and when it is free it goes to the first ready  *)
(* process found cyclically after the one that had it last.                *)
(***************************************************************************)
EXTENDS Naturals

CONSTANT N                  \* number of process slots

Slots == 1..N

VARIABLES owner,            \* the process that owns the CPU, 0 when none does
          ready,            \* the processes that wait for it
          last              \* the process that was given it last, 0 at first

vars == <<owner, ready, last>>

Init == owner = 0 /\ ready = {} /\ last = 0

\* How far behind last the scan meets p: 0 for the slot right after last.
Distance(p) == IF p > last THEN p - last - 1 ELSE p + N - last - 1

Admit(p) ==
  /\ p \notin ready /\ p # owner
  /\ ready' = ready \cup {p}
  /\ UNCHANGED <<owner, last>>

Dispatch(p) ==
  /\ owner = 0
  /\ p \in ready
  /\ \A q \in ready : Distance(p) <= Distance(q)
  /\ owner' = p /\ last' = p /\ ready' = ready \ {p}

Preempt ==
  /\ owner # 0
  /\ ready' = ready \cup {owner}
  /\ owner' = 0
  /\ UNCHANGED last

Next == Preempt \/ \E p \in Slots : Admit(p) \/ Dispatch(p)

Safety == Init /\ [][Next]_vars
=============================================================================
