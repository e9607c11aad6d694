------------------------------ MODULE FramePool ------------------------------
(***************************************************************************)
(* What the page allocators of mm/memory.c and mm/vmmgr.c promise together *)
(* to the rest of the kernel: a page frame has at most one owner.          *)
(***************************************************************************)
EXTENDS Naturals

CONSTANT Frames

VARIABLE owners             \* of each frame, those it was given to

Init == owners = [f \in Frames |-> 0]

Give(f) == owners[f] = 0 /\ owners' = [owners EXCEPT ![f] = 1]

TakeBack(f) == owners[f] = 1 /\ owners' = [owners EXCEPT ![f] = 0]

Next == \E f \in Frames : Give(f) \/ TakeBack(f)

Safety == Init /\ [][Next]_owners
=============================================================================
