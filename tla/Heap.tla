-------------------------------- MODULE Heap --------------------------------
(***************************************************************************)
(* What kmalloc() and kmfree() of mm/kmalloc.c promise to the rest of the  *)
(* kernel: kmalloc(n) hands out n bytes that overlap nothing handed out    *)
(* before, kmfree() takes back exactly the block it is given, and nothing  *)
(* else ever moves, shrinks or disappears.                                 *)
(***************************************************************************)
EXTENDS Naturals

CONSTANTS Addresses,        \* where blocks may start
          Sizes             \* what may be asked for

VARIABLE blocks             \* the blocks handed out, as [addr, size]

Init == blocks = {}

Disjoint(b, c) == b.addr + b.size <= c.addr \/ c.addr + c.size <= b.addr

Alloc(a, n) ==
  /\ \A c \in blocks : Disjoint([addr |-> a, size |-> n], c)
  /\ blocks' = blocks \cup {[addr |-> a, size |-> n]}

Free(b) == blocks' = blocks \ {b}

Next ==
  \/ \E a \in Addresses, n \in Sizes : Alloc(a, n)
  \/ \E b \in blocks : Free(b)

Safety == Init /\ [][Next]_blocks
=============================================================================
