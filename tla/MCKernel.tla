------------------------------ MODULE MCKernel ------------------------------
(***************************************************************************)
(* The kernel observed by a history variable: how many times another       *)
(* process was given the CPU while p waited for it.                        *)
(***************************************************************************)
EXTENDS KernelInv

VARIABLE passed

Dispatched == {p \in Procs : state[p] = "RUNABLE" /\ state'[p] = "RUNNING"}

MCInit == Init /\ passed = [p \in Procs |-> 0]

MCNext ==
  /\ Next
  /\ passed' = [p \in Procs |->
                  IF state[p] = "RUNABLE" /\ state'[p] = "RUNABLE"
                    THEN passed[p] + Cardinality(Dispatched) ELSE 0]

MCSpec == MCInit /\ [][MCNext]_<<vars, passed>>

\* While a process waits, fewer dispatches of others than there are processes go by:
\* the wait is bounded by one round of time slices.
BoundedBypass == \A p \in Procs : passed[p] < NBOOT
=============================================================================
