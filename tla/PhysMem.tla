------------------------------- MODULE PhysMem -------------------------------
(***************************************************************************)
(* Page frames and kernel pages: mm/memory.c keeps the physical pages of   *)
(* the machine on a stack, kmap_init() of mm/mmap.c maps the lowest of     *)
(* them into the kernel for good and takes them off it, and mm/vmmgr.c     *)
(* hands the pages of that linear mapping out to the kernel.               *)
(*                                                                         *)
(* Frames and kernel pages are counted in pages: kernel page p of the      *)
(* linear mapping is frame p.  Only what is compared with kern_end, which  *)
(* is not page aligned, is counted in words, from physical address 0.      *)
(* The boot code runs the loops with interrupts off; the loop that pops    *)
(* frames is a step per round, the others, which end by themselves, a step *)
(* each.  Afterwards the two allocators serve any sequence of calls.       *)
(***************************************************************************)
EXTENDS Integers, FiniteSets

CONSTANTS WPP,              \* words in a page
          KEND,             \* word behind the kernel image: kern_end
          END,              \* page at which the available memory ends
          NORMAL,           \* MEM_NORMAL: pages that kmap_init() maps
          NV,               \* NVMBLOCKS: pages of the kernel's address space
          GARBAGE           \* what the word at kern_end held before the boot

\* start_addr of phy_mem_init(): kern_end, rounded up to a page.
Start == (KEND + WPP - 1) \div WPP

\* Pages phy_mem_init() counts, and the word behind the stack: virt_kern_addr().
Count == END - Start + 1
KernAddr == KEND + Count

ASSUME MemAssumption ==
  /\ WPP \in Nat \ {0} /\ KEND \in Nat \ {0}
  /\ END \in Nat /\ NORMAL \in Nat /\ NV \in Nat
  /\ Start \in Nat \ {0}
  /\ Start <= NORMAL /\ NORMAL <= END /\ NORMAL < NV
  /\ GARBAGE \in Nat

VARIABLES
  pc,           \* what kern_bootstrap() has reached, "run" afterwards
  free_list, header, \* mem_map
  phy_addr,     \* the local variable of kmap_init()
  kvm,          \* kvmlist: the bits of each status
  frames,       \* of each frame, the callers that got it of phy_mem_alloc()
  pages,        \* of each page, the callers that got it of kvm_alloc_page()
  fault         \* "none", or the function that has panicked

mem_map == <<free_list, header>>
vars == <<pc, mem_map, phy_addr, kvm, frames, pages, fault>>

Slots == 0..Count
KPages == 0..(NV - 1)
Frames == 0..END \cup {GARBAGE}
Bits == {"USED", "MAPPED"}

\* What some caller keeps.
Kept(given) == {p \in DOMAIN given : given[p] > 0}

-----------------------------------------------------------------------------
(* mm/memory.c                                                             *)

\* What phy_mem_alloc() returns; 0 is NULL.
Popped == IF header < 0 THEN 0 ELSE free_list[header]

Pop == header' = (IF header < 0 THEN header ELSE header - 1) /\ UNCHANGED free_list

Push(f) ==
  header' = header + 1 /\ free_list' = [free_list EXCEPT ![header + 1] = f]

\* The pages are pushed from end_addr down to start_addr; slot 0 stays as it was.
PhyMemInit ==
  /\ pc = "phy_mem_init" /\ pc' = "kmap_init"
  /\ free_list' = [i \in Slots |-> IF i = 0 THEN GARBAGE ELSE END - i + 1]
  /\ header' = Count
  /\ UNCHANGED <<phy_addr, kvm, frames, pages, fault>>

-----------------------------------------------------------------------------
(* kmap_init() of mm/mmap.c                                                *)

\* kvm_map_page() and kvm_free_page() of every page below MEM_NORMAL.
KmapInit ==
  /\ pc = "kmap_init" /\ pc' = "pop"
  /\ kvm' = [p \in KPages |-> IF p < NORMAL THEN {"MAPPED"} ELSE kvm[p]]
  /\ phy_addr' = 0
  /\ UNCHANGED <<mem_map, frames, pages, fault>>

\* Mutant: MEM_HIGH in place of MEM_NORMAL.
BelowHigh == phy_addr < NV

BelowNormal == phy_addr < NORMAL

\* The frames the kernel has mapped are taken off the stack.
KmapPop ==
  /\ pc = "pop" /\ BelowNormal
  /\ phy_addr' = Popped /\ Pop
  /\ UNCHANGED <<pc, kvm, frames, pages, fault>>

\* Mutant: the frame that ended the loop is lost.
KmapForget ==
  /\ pc = "pop" /\ ~BelowNormal
  /\ pc' = "kvm_init"
  /\ UNCHANGED <<mem_map, phy_addr, kvm, frames, pages, fault>>

\* The first one it has not is pushed back.
KmapPush ==
  /\ pc = "pop" /\ ~BelowNormal
  /\ Push(phy_addr) /\ pc' = "kvm_init"
  /\ UNCHANGED <<phy_addr, kvm, frames, pages, fault>>

-----------------------------------------------------------------------------
(* mm/vmmgr.c                                                              *)

\* Mutant: the page that begins at virt_kern_addr() is thought free.
KernelBelow(p) == p * WPP < KernAddr

\* kvm_init() takes page p for the kernel image and the stack of frames.
KernelUses(p) == p * WPP <= KernAddr

KvmInit ==
  /\ pc = "kvm_init" /\ pc' = "run"
  /\ kvm' = [p \in KPages |-> IF KernelUses(p) THEN Bits ELSE kvm[p]]
  /\ UNCHANGED <<mem_map, phy_addr, frames, pages, fault>>

Running == pc = "run" /\ fault = "none"

Allocatable(p) == "MAPPED" \in kvm[p] /\ "USED" \notin kvm[p]

\* Mutant: the page is not marked.
KvmAllocUnmarked ==
  /\ Running
  /\ \E p \in KPages :
       /\ Allocatable(p) /\ \A q \in KPages : Allocatable(q) => p <= q
       /\ pages' = [pages EXCEPT ![p] = @ + 1]
  /\ UNCHANGED <<pc, mem_map, phy_addr, kvm, frames, fault>>

\* The lowest page that is mapped and not used.
KvmAllocPage ==
  /\ Running
  /\ \E p \in KPages :
       /\ Allocatable(p) /\ \A q \in KPages : Allocatable(q) => p <= q
       /\ kvm' = [kvm EXCEPT ![p] = @ \cup {"USED"}]
       /\ pages' = [pages EXCEPT ![p] = @ + 1]
  /\ UNCHANGED <<pc, mem_map, phy_addr, frames, fault>>

KvmPanic ==
  /\ Running
  /\ \A p \in KPages : ~Allocatable(p)
  /\ fault' = "kvm_alloc_page"
  /\ UNCHANGED <<pc, mem_map, phy_addr, kvm, frames, pages>>

\* A caller gives back what it was given.
KvmFreePage(p) ==
  /\ Running
  /\ kvm' = [kvm EXCEPT ![p] = @ \ {"USED"}]
  /\ pages' = [pages EXCEPT ![p] = @ - 1]
  /\ UNCHANGED <<pc, mem_map, phy_addr, frames, fault>>

\* kvm_unmap_page() is for free pages: ~VM_MAPPED, a macro of 1 << 1 without
\* parentheses, clears VM_USED with VM_MAPPED.
KvmUnmapPage(p) ==
  /\ Running /\ "USED" \notin kvm[p]
  /\ kvm' = [kvm EXCEPT ![p] = {}]
  /\ UNCHANGED <<pc, mem_map, phy_addr, frames, pages, fault>>

\* The page table entries of the linear mapping outlive kvm_unmap_page().
KvmMapPage(p) ==
  /\ Running /\ p < NORMAL
  /\ kvm' = [kvm EXCEPT ![p] = @ \cup {"MAPPED"}]
  /\ UNCHANGED <<pc, mem_map, phy_addr, frames, pages, fault>>

PhyMemAlloc ==
  /\ Running /\ Pop
  /\ frames' = IF Popped = 0 THEN frames ELSE [frames EXCEPT ![Popped] = @ + 1]
  /\ UNCHANGED <<pc, phy_addr, kvm, pages, fault>>

PhyMemFree(f) ==
  /\ Running /\ Push(f)
  /\ frames' = [frames EXCEPT ![f] = @ - 1]
  /\ UNCHANGED <<pc, phy_addr, kvm, pages, fault>>

-----------------------------------------------------------------------------
Init ==
  /\ pc = "phy_mem_init"
  /\ free_list = [i \in Slots |-> 0] /\ header = 0
  /\ phy_addr = 0
  /\ kvm = [p \in KPages |-> {}]
  /\ frames = [f \in Frames |-> 0] /\ pages = [p \in KPages |-> 0]
  /\ fault = "none"

Boot == PhyMemInit \/ KmapInit \/ KmapPop \/ KmapPush \/ KvmInit

Next ==
  \/ Boot
  \/ KvmAllocPage \/ KvmPanic \/ PhyMemAlloc
  \/ \E p \in Kept(pages) : KvmFreePage(p)
  \/ \E p \in KPages : KvmUnmapPage(p) \/ KvmMapPage(p)
  \/ \E f \in Kept(frames) : PhyMemFree(f)

Safety == Init /\ [][Next]_vars

\* kern_bootstrap() runs on.
Spec == Safety /\ WF_vars(Boot)

-----------------------------------------------------------------------------
TypeOK ==
  /\ pc \in {"phy_mem_init", "kmap_init", "pop", "kvm_init", "run"}
  /\ free_list \in [Slots -> Nat] /\ header \in -1..Count
  /\ phy_addr \in Nat
  /\ kvm \in [KPages -> SUBSET Bits]
  /\ frames \in [Frames -> Nat] /\ pages \in [KPages -> Nat]
  /\ fault \in {"none", "kvm_alloc_page"}

\* No page handed out to the kernel holds the kernel image or a word of the stack of
\* frames that is in use or will be: kvm_init() asks for virt_kern_addr() with <=,
\* and the stack, which leaves slot 0 alone, reaches one word further.
KernelKept == \A p \in Kept(pages) : KEND + Count < p * WPP

\* Whatever the two allocators have given out and taken back, a frame has one owner:
\* none is given twice, and none of phy_mem_alloc()'s is a page of the kernel's.
Owners(f) ==
  (IF f \in Frames THEN frames[f] ELSE 0) + (IF f \in KPages THEN pages[f] ELSE 0)

Pool == INSTANCE FramePool WITH
  Frames <- Frames \cup KPages,
  owners <- [f \in Frames \cup KPages |-> Owners(f)]

OneOwner == Pool!Safety

\* The kernel's half and the rest never mix, and no frame is lost but the kernel's:
\* those that are mapped for the kernel stay below MEM_NORMAL, and every other one is
\* on the stack or with an owner.
Split ==
  pc \in {"kvm_init", "run"} =>
    /\ Kept(frames) \subseteq NORMAL..END
    /\ {f \in NORMAL..END : \A i \in 0..header : free_list[i] # f} = Kept(frames)

\* kmap_init() stops popping: the machine has memory above MEM_NORMAL.
BootEnds == <>(pc = "run")

\* memory.c:54 takes the memory the boot loader lists as available, which ends
\* before page END.
AvailableOnly == \A f \in Kept(frames) : f < END

\* memory.c:74 says that phy_mem_alloc() returns a page of physical memory; it can
\* only be one that phy_mem_free() has put on the stack.
ReturnsFreed == \A f \in Kept(frames) : f \in Start..END
=============================================================================
