--------------------------- MODULE PhysMemProofs ---------------------------
(***************************************************************************)
(* The two page allocators for every size of the memory, of the kernel and *)
(* of its address space.  One hypothesis is about what the machine left in *)
(* memory: phy_mem_init() never writes slot 0 of its stack, and            *)
(* phy_mem_alloc() returns what is there.                                  *)
(***************************************************************************)
EXTENDS PhysMem, FiniteSetTheorems, TLAPS

\* Slot 0 does not hold the number of a page by chance: it is 0, or beyond memory.
NoPage == GARBAGE \notin 1..END

\* Frames that kmap_init() leaves to phy_mem_alloc().
User == NORMAL..END

-----------------------------------------------------------------------------
\* A page that is given out is marked, and the pages of the kernel are marked for
\* good; only pages of the linear mapping are mapped and unmarked.
PagesInv ==
  /\ pc \in {"phy_mem_init", "kmap_init", "pop", "kvm_init", "run"}
  /\ kvm \in [KPages -> SUBSET Bits] /\ pages \in [KPages -> {0, 1}]
  /\ \A p \in KPages :
       /\ pages[p] = 1 => pc = "run" /\ "USED" \in kvm[p] /\ p < NORMAL /\ ~KernelUses(p)
       /\ pc = "run" /\ KernelUses(p) => "USED" \in kvm[p]
       /\ "MAPPED" \in kvm[p] /\ "USED" \notin kvm[p] => p < NORMAL

\* The stack as phy_mem_init() fills it: frames grow towards slot 1.
Filled == free_list = [s \in Slots |-> IF s = 0 THEN GARBAGE ELSE END - s + 1]

\* kmap_init() pops the frames in order, so it stops at the first of the user's.
BootInv ==
  /\ pc # "run" => frames = [f \in Frames |-> 0] /\ fault = "none"
  /\ pc = "kmap_init" => Filled /\ header = Count
  /\ pc = "pop" =>
       /\ Filled /\ header \in 0..Count /\ phy_addr \in 0..NORMAL
       /\ \/ phy_addr = 0 /\ header = Count
          \/ phy_addr = END - header
  /\ pc = "kvm_init" => Filled /\ header = END - NORMAL + 1

\* Each frame of the user's is on the stack once or with one owner, and nothing else
\* is, slot 0 apart; so the stack never grows beyond its end.
StackInv ==
  /\ free_list \in [Slots -> Nat] /\ header \in -1..Count
  /\ frames \in [Frames -> {0, 1}] /\ frames[0] = 0
  /\ pc \in {"kvm_init", "run"} =>
       /\ \A s \in 0..header : free_list[s] \in User \cup {GARBAGE}
       /\ \A s, t \in 0..header : free_list[s] = free_list[t] => s = t
       /\ \A s \in 0..header : frames[free_list[s]] = 0
       /\ Kept(frames) \subseteq User \cup {GARBAGE}
       /\ \A f \in User : frames[f] = 1 \/ \E s \in 0..header : free_list[s] = f
       /\ header + Cardinality(Kept(frames)) <= END - NORMAL + 1

MemInv == PagesInv /\ BootInv /\ StackInv
-----------------------------------------------------------------------------
LEMMA Layout ==
  /\ END \in Nat /\ NORMAL \in Nat \ {0} /\ NV \in Nat /\ Count \in Nat \ {0}
  /\ Start \in Nat \ {0} /\ Start <= NORMAL /\ NORMAL <= END
  /\ Count = END - Start + 1 /\ GARBAGE \in Nat
BY MemAssumption DEF Count

(* The kernel's pages.                                                     *)

\* A page kvm_alloc_page() may take is of the linear mapping and not the kernel's.
LEMMA AllocatableIsFree ==
  ASSUME PagesInv, pc = "run", NEW p \in KPages, Allocatable(p)
  PROVE  p < NORMAL /\ ~KernelUses(p) /\ pages[p] = 0
BY DEF PagesInv, Allocatable

LEMMA PagesInit == Init => PagesInv
BY DEF Init, PagesInv, Bits

LEMMA PagesKept ==
  ASSUME PagesInv, [Next]_vars
  PROVE  PagesInv'
<1>1. kvm \in [KPages -> SUBSET Bits] /\ pages \in [KPages -> {0, 1}]
  BY DEF PagesInv
<1>2. CASE KmapInit
  BY <1>1, <1>2 DEF KmapInit, PagesInv, Bits
<1>3. CASE KvmInit
  BY <1>1, <1>3 DEF KvmInit, PagesInv, KernelUses, Bits
<1>4. CASE KvmAllocPage
  <2>1. PICK p \in KPages :
          /\ Allocatable(p) /\ pc = "run" /\ pc' = pc
          /\ kvm' = [kvm EXCEPT ![p] = @ \cup {"USED"}]
          /\ pages' = [pages EXCEPT ![p] = @ + 1]
    BY <1>4 DEF KvmAllocPage, Running
  <2>2. p < NORMAL /\ ~KernelUses(p) /\ pages[p] = 0
    BY <2>1, AllocatableIsFree
  <2>3. pages' = [pages EXCEPT ![p] = 1]
    BY <2>1, <2>2
  <2> QED BY <1>1, <2>1, <2>2, <2>3 DEF PagesInv, KernelUses, Bits
<1>5. ASSUME NEW p \in Kept(pages), KvmFreePage(p)
      PROVE  PagesInv'
  <2>1. p \in KPages /\ pages[p] = 1 /\ ~KernelUses(p) /\ p < NORMAL
    BY <1>1 DEF Kept, PagesInv
  <2>2. /\ kvm' = [kvm EXCEPT ![p] = @ \ {"USED"}] /\ pages' = [pages EXCEPT ![p] = 0]
        /\ pc' = pc
    BY <1>5, <2>1 DEF KvmFreePage
  <2> QED BY <1>1, <2>1, <2>2 DEF PagesInv, KernelUses, Bits
<1>6. ASSUME NEW p \in KPages, KvmUnmapPage(p)
      PROVE  PagesInv'
  <2>1. /\ kvm' = [kvm EXCEPT ![p] = {}] /\ "USED" \notin kvm[p]
        /\ UNCHANGED <<pages, pc>>
    BY <1>6 DEF KvmUnmapPage
  <2> QED BY <1>1, <2>1 DEF PagesInv, KernelUses, Bits
<1>7. ASSUME NEW p \in KPages, KvmMapPage(p)
      PROVE  PagesInv'
  <2>1. /\ kvm' = [kvm EXCEPT ![p] = @ \cup {"MAPPED"}] /\ p < NORMAL
        /\ UNCHANGED <<pages, pc>>
    BY <1>7 DEF KvmMapPage
  <2> QED BY <1>1, <2>1 DEF PagesInv, KernelUses, Bits
<1>8. CASE PhyMemInit \/ KmapPop \/ KmapPush
  <2>1. UNCHANGED <<kvm, pages>> /\ pc # "run" /\ pc' # "run"
        /\ pc' \in {"kmap_init", "pop", "kvm_init"}
    BY <1>8 DEF PhyMemInit, KmapPop, KmapPush
  <2> QED BY <1>1, <2>1 DEF PagesInv, KernelUses
<1>9. ASSUME KvmPanic \/ PhyMemAlloc \/ (\E f \in Kept(frames) : PhyMemFree(f))
               \/ UNCHANGED vars
      PROVE  PagesInv'
  <2>1. UNCHANGED <<kvm, pages, pc>>
    BY <1>9 DEF KvmPanic, PhyMemAlloc, PhyMemFree, vars
  <2> QED BY <2>1 DEF PagesInv, KernelUses
<1> QED BY <1>2, <1>3, <1>4, <1>5, <1>6, <1>7, <1>8, <1>9 DEF Next, Boot

LEMMA PagesInvariance == Safety => []PagesInv
BY PagesInit, PagesKept, PTL DEF Safety

\* For every layout of memory and every order of calls, no page given to the kernel
\* holds the kernel image or the stack of frames.
THEOREM KernelKeptHolds == Safety => []KernelKept
<1>1. PagesInv => KernelKept
  <2> SUFFICES ASSUME PagesInv, NEW p \in Kept(pages)
               PROVE  KEND + Count < p * WPP
    BY DEF KernelKept
  <2>1. p \in KPages /\ ~KernelUses(p)
    BY DEF Kept, PagesInv
  <2>2. ~(p * WPP <= KEND + Count)
    BY <2>1 DEF KernelUses, KernAddr
  <2>3. p * WPP \in Int /\ KEND + Count \in Int
    BY <2>1, Layout, MemAssumption DEF KPages
  <2> QED BY <2>2, <2>3
<1> QED BY <1>1, PagesInvariance, PTL

-----------------------------------------------------------------------------
(* The boot.                                                               *)

LEMMA BootInit == Init => BootInv
BY DEF Init, BootInv

LEMMA BootKept ==
  ASSUME BootInv, PagesInv, [Next]_vars
  PROVE  BootInv'
<1>1. CASE PhyMemInit
  BY <1>1 DEF PhyMemInit, BootInv, Filled
<1>2. CASE KmapInit
  <2>1. Filled /\ header = Count
    BY <1>2 DEF KmapInit, BootInv
  <2> QED BY <1>2, <2>1, Layout DEF KmapInit, mem_map, BootInv, Filled
<1>3. CASE KmapPop
  <2>1. /\ Filled /\ header \in 0..Count /\ phy_addr \in 0..NORMAL /\ phy_addr < NORMAL
        /\ (phy_addr = 0 /\ header = Count) \/ phy_addr = END - header
    BY <1>3 DEF KmapPop, BelowNormal, BootInv
  <2>2. header > 0 /\ END - header + 1 \in 0..NORMAL
    BY <2>1, Layout
  <2>3. Popped = END - header + 1
    BY <2>1, <2>2 DEF Popped, Filled, Slots
  <2>4. header' = header - 1 /\ free_list' = free_list
    BY <1>3, <2>2, <2>1 DEF KmapPop, Pop
  <2>5. header' \in 0..Count /\ phy_addr' \in 0..NORMAL /\ phy_addr' = END - header'
    BY <1>3, <2>1, <2>2, <2>3, <2>4, Layout DEF KmapPop
  <2> QED BY <1>3, <2>1, <2>4, <2>5 DEF KmapPop, BootInv, Filled
<1>4. CASE KmapPush
  <2>1. Filled /\ header \in 0..Count /\ phy_addr = NORMAL /\ phy_addr = END - header
    BY <1>4, Layout DEF KmapPush, BelowNormal, BootInv
  <2>2. header + 1 \in Slots /\ header + 1 # 0 /\ header + 1 = END - NORMAL + 1
    BY <2>1, Layout DEF Slots
  <2>3. free_list[header + 1] = phy_addr
    BY <2>1, <2>2, Layout DEF Filled
  <2>4. free_list' = free_list /\ header' = header + 1
    BY <1>4, <2>1, <2>2, <2>3 DEF KmapPush, Push, Filled
  <2> QED BY <1>4, <2>1, <2>2, <2>4 DEF KmapPush, BootInv, Filled
<1>5. CASE KvmInit
  BY <1>5 DEF KvmInit, BootInv
<1>6. CASE UNCHANGED vars
  BY <1>6 DEF vars, mem_map, BootInv, Filled
<1>7. ASSUME pc = "run", pc' = "run"
      PROVE  BootInv'
  BY <1>7 DEF BootInv
<1>8. CASE KvmAllocPage \/ KvmPanic \/ PhyMemAlloc
             \/ (\E p \in Kept(pages) : KvmFreePage(p))
             \/ (\E p \in KPages : KvmUnmapPage(p) \/ KvmMapPage(p))
             \/ (\E f \in Kept(frames) : PhyMemFree(f))
  <2>1. pc = "run" /\ pc' = pc
    BY <1>8 DEF KvmAllocPage, KvmPanic, PhyMemAlloc, KvmFreePage, KvmUnmapPage, KvmMapPage,
                PhyMemFree, Running
  <2> QED BY <1>7, <2>1
<1> QED BY <1>1, <1>2, <1>3, <1>4, <1>5, <1>6, <1>8 DEF Next, Boot
-----------------------------------------------------------------------------
(* The stack of frames.                                                    *)

\* Types and the parts of StackInv that hold once the boot has popped its frames.
StackTypes ==
  /\ free_list \in [Slots -> Nat] /\ header \in -1..Count
  /\ frames \in [Frames -> {0, 1}] /\ frames[0] = 0

Stacked ==
  /\ \A s \in 0..header : free_list[s] \in User \cup {GARBAGE}
  /\ \A s, t \in 0..header : free_list[s] = free_list[t] => s = t
  /\ \A s \in 0..header : frames[free_list[s]] = 0

OnceEach ==
  /\ Kept(frames) \subseteq User \cup {GARBAGE}
  /\ \A f \in User : frames[f] = 1 \/ \E s \in 0..header : free_list[s] = f

Room == header + Cardinality(Kept(frames)) <= END - NORMAL + 1

LEMMA StackParts ==
  StackInv <=> StackTypes /\ (pc \in {"kvm_init", "run"} => Stacked /\ OnceEach /\ Room)
BY DEF StackInv, StackTypes, Stacked, OnceEach, Room

LEMMA StackPartsNext ==
  StackInv' <=> /\ StackTypes'
                /\ pc' \in {"kvm_init", "run"} => Stacked' /\ OnceEach' /\ Room'
BY DEF StackInv, StackTypes, Stacked, OnceEach, Room

\* The owners are finitely many, so that they can be counted.
LEMMA KeptFinite ==
  ASSUME frames \in [Frames -> {0, 1}]
  PROVE  /\ IsFiniteSet(Kept(frames)) /\ Cardinality(Kept(frames)) \in Nat
         /\ \A f : f \in Kept(frames) <=> f \in Frames /\ frames[f] = 1
<1>1. IsFiniteSet(0..END)
  BY Layout, FS_Interval
<1>2. IsFiniteSet(Frames)
  BY <1>1, FS_AddElement DEF Frames
<1>3. Kept(frames) \subseteq Frames
  BY DEF Kept
<1>4. IsFiniteSet(Kept(frames))
  BY <1>2, <1>3, FS_Subset
<1>5. \A f : f \in Kept(frames) <=> f \in Frames /\ frames[f] = 1
  BY DEF Kept
<1> QED BY <1>4, <1>5, FS_CardinalityType

LEMMA FramesOfUser == User \cup {GARBAGE} \subseteq Frames /\ 0 \in Frames /\ 0 \notin User
BY Layout DEF User, Frames

\* The stack as kmap_init() leaves it.
LEMMA FilledIsStacked ==
  ASSUME NoPage, Filled', header' = END - NORMAL + 1, frames' = [f \in Frames |-> 0]
  PROVE  Stacked' /\ OnceEach' /\ Room'
<1>1. /\ header' \in 1..Count /\ 0..header' \subseteq Slots
      /\ \A s \in 0..header' : free_list'[s] = IF s = 0 THEN GARBAGE ELSE END - s + 1
  <2>1. header' \in 1..Count /\ 0..header' \subseteq Slots
    BY Layout DEF Slots
  <2> QED BY <2>1 DEF Filled
<1>2. \A s \in 1..header' : END - s + 1 \in User
  BY Layout DEF User
<1>3. GARBAGE \notin User
  BY Layout DEF NoPage, User
<1>4. Stacked'
  <2>1. \A s \in 0..header' : free_list'[s] \in User \cup {GARBAGE}
    BY <1>1, <1>2
  <2>2. ASSUME NEW s \in 0..header', NEW t \in 0..header', free_list'[s] = free_list'[t]
        PROVE  s = t
    <3>1. CASE s = 0 \/ t = 0
      BY <1>1, <1>2, <1>3, <2>2, <3>1
    <3>2. CASE s # 0 /\ t # 0
      <4>1. END - s + 1 = END - t + 1
        BY <1>1, <2>2, <3>2
      <4> QED BY <1>1, <4>1, Layout
    <3> QED BY <3>1, <3>2
  <2>3. \A s \in 0..header' : frames'[free_list'[s]] = 0
    BY <2>1, FramesOfUser
  <2> QED BY <2>1, <2>2, <2>3 DEF Stacked
<1>5. Kept(frames') = {}
  BY DEF Kept
<1>6. OnceEach'
  <2> SUFFICES ASSUME NEW f \in User
               PROVE  \E s \in 0..header' : free_list'[s] = f
    BY <1>5 DEF OnceEach
  <2>1. END - f + 1 \in 1..header' /\ END - (END - f + 1) + 1 = f
    BY Layout DEF User
  <2> QED BY <1>1, <2>1
<1>7. Room'
  BY <1>1, <1>5, FS_EmptySet, Layout DEF Room
<1> QED BY <1>4, <1>6, <1>7

LEMMA AllocKeeps ==
  ASSUME NoPage, StackTypes, Stacked, OnceEach, Room, PhyMemAlloc
  PROVE  StackTypes' /\ Stacked' /\ OnceEach' /\ Room'
<1>1. /\ free_list \in [Slots -> Nat] /\ header \in -1..Count
      /\ frames \in [Frames -> {0, 1}] /\ frames[0] = 0
      /\ free_list' = free_list
  BY DEF StackTypes, PhyMemAlloc, Pop
<1>2. IsFiniteSet(Kept(frames)) /\ Cardinality(Kept(frames)) \in Nat
  BY <1>1, KeptFinite
<1>3. CASE header < 0
  <2>1. header' = header /\ frames' = frames
    BY <1>3 DEF PhyMemAlloc, Pop, Popped
  <2> QED BY <1>1, <2>1 DEF StackTypes, Stacked, OnceEach, Room
<1>4. CASE ~(header < 0)
  <2> DEFINE f == free_list[header]
  <2>1. header \in 0..Count /\ header \in 0..header /\ header' = header - 1
        /\ 0..header' \subseteq 0..header
    BY <1>1, <1>4 DEF PhyMemAlloc, Pop
  <2>2. f \in User \cup {GARBAGE} /\ f \in Frames /\ frames[f] = 0
    BY <2>1, FramesOfUser DEF Stacked
  <2>3. \A s \in 0..header' : s # header /\ free_list[s] # f
    BY <2>1, Layout DEF Stacked
  <2>4. frames' = IF f = 0 THEN frames ELSE [frames EXCEPT ![f] = 1]
    <3>1. Popped = f
      BY <1>4 DEF Popped
    <3> HIDE DEF f
    <3>2. frames' = IF f = 0 THEN frames ELSE [frames EXCEPT ![f] = frames[f] + 1]
      BY <3>1 DEF PhyMemAlloc
    <3>3. frames[f] + 1 = 1
      BY <2>2
    <3> QED BY <3>2, <3>3
  <2> HIDE DEF f
  <2>5. frames' \in [Frames -> {0, 1}] /\ frames'[0] = 0
    BY <1>1, <2>2, <2>4
  <2>6. StackTypes'
    BY <1>1, <2>1, <2>5, Layout DEF StackTypes
  <2>7. Stacked'
    <3>1. \A s \in 0..header' : free_list[s] \in Frames /\ frames[free_list[s]] = 0
      BY <2>1, FramesOfUser DEF Stacked
    <3>2. \A s \in 0..header' : frames'[free_list[s]] = 0
      BY <1>1, <2>2, <2>3, <2>4, <3>1
    <3> QED BY <1>1, <2>1, <3>2 DEF Stacked
  <2>8. CASE f = 0
    <3>1. frames' = frames /\ f \notin User
      BY <2>4, <2>8, FramesOfUser
    <3>2. \A g \in User : frames[g] = 1 \/ \E s \in 0..header' : free_list[s] = g
      <4> SUFFICES ASSUME NEW g \in User, NEW s \in 0..header, free_list[s] = g
                   PROVE  s \in 0..header'
        BY DEF OnceEach
      <4>1. s # header
        BY <3>1 DEF f
      <4> QED BY <2>1, <4>1
    <3>3. Kept(frames') = Kept(frames)
      BY <3>1
    <3>4. OnceEach'
      BY <1>1, <3>1, <3>2, <3>3 DEF OnceEach
    <3>5. Room'
      BY <1>1, <1>2, <2>1, <3>3, Layout DEF Room
    <3> QED BY <2>6, <2>7, <3>4, <3>5
  <2>9. CASE f # 0
    <3>1. frames' = [frames EXCEPT ![f] = 1]
      BY <2>4, <2>9
    <3>2. Kept(frames') = Kept(frames) \cup {f} /\ f \notin Kept(frames)
      BY <1>1, <2>2, <3>1 DEF Kept
    <3>3. Cardinality(Kept(frames')) = Cardinality(Kept(frames)) + 1
      BY <1>2, <3>2, FS_AddElement
    <3>4. OnceEach'
      <4>1. Kept(frames') \subseteq User \cup {GARBAGE}
        BY <2>2, <3>2 DEF OnceEach
      <4>2. \A g \in User : frames'[g] = 1 \/ \E s \in 0..header' : free_list[s] = g
        <5> SUFFICES ASSUME NEW g \in User, frames'[g] # 1
                     PROVE  \E s \in 0..header' : free_list[s] = g
          OBVIOUS
        <5>1. g # f /\ frames[g] # 1
          BY <1>1, <3>1, FramesOfUser
        <5>2. PICK s \in 0..header : free_list[s] = g
          BY <5>1 DEF OnceEach
        <5>3. s # header
          BY <5>1, <5>2 DEF f
        <5> QED BY <2>1, <5>2, <5>3
      <4> QED BY <1>1, <4>1, <4>2 DEF OnceEach
    <3>5. Room'
      BY <1>1, <1>2, <2>1, <3>3, Layout DEF Room
    <3> QED BY <2>6, <2>7, <3>4, <3>5
  <2> QED BY <2>8, <2>9
<1> QED BY <1>3, <1>4
LEMMA FreeKeeps ==
  ASSUME StackTypes, Stacked, OnceEach, Room, NEW f \in Kept(frames), PhyMemFree(f)
  PROVE  StackTypes' /\ Stacked' /\ OnceEach' /\ Room'
<1>1. /\ free_list \in [Slots -> Nat] /\ header \in -1..Count
      /\ frames \in [Frames -> {0, 1}] /\ frames[0] = 0
      /\ free_list' = [free_list EXCEPT ![header + 1] = f] /\ header' = header + 1
  BY DEF StackTypes, PhyMemFree, Push
<1>2. IsFiniteSet(Kept(frames)) /\ Cardinality(Kept(frames)) \in Nat
  BY <1>1, KeptFinite
<1>3. f \in Frames /\ frames[f] = 1 /\ f \in User \cup {GARBAGE} /\ f \in Nat
  BY <1>1, KeptFinite, Layout DEF OnceEach, User
<1>4. frames' = [frames EXCEPT ![f] = 0]
  <2>1. frames' = [frames EXCEPT ![f] = frames[f] - 1] /\ frames[f] - 1 = 0
    BY <1>3 DEF PhyMemFree
  <2> QED BY <2>1
<1>5. Kept(frames') = Kept(frames) \ {f}
  BY <1>1, <1>3, <1>4 DEF Kept
<1>6. Cardinality(Kept(frames')) = Cardinality(Kept(frames)) - 1
  BY <1>2, <1>5, FS_RemoveElement
<1>7. Room'
  BY <1>1, <1>2, <1>6, Layout DEF Room
<1>8. Cardinality(Kept(frames')) \in Nat
  <2>1. Kept(frames') \subseteq Kept(frames)
    BY <1>5
  <2> QED BY <1>2, <2>1, FS_Subset, FS_CardinalityType
<1>9. header' \in 0..Count /\ header' \in Slots
  BY <1>1, <1>7, <1>8, Layout DEF Room, Slots
<1>10. StackTypes'
  BY <1>1, <1>3, <1>4, <1>9 DEF StackTypes
<1>11. /\ \A s \in 0..header : free_list'[s] = free_list[s] /\ s \in Slots
       /\ free_list'[header'] = f
       /\ \A s \in 0..header' : s \in 0..header \/ s = header'
  <2>1. header' \in Slots /\ header' = header + 1 /\ free_list'[header'] = f
    BY <1>1, <1>9
  <2>2. \A s \in 0..header : s \in Slots /\ s # header + 1
    BY <1>1, Layout DEF Slots
  <2>3. \A s \in 0..header : free_list'[s] = free_list[s]
    BY <1>1, <2>2
  <2>4. \A s \in 0..header' : s \in 0..header \/ s = header'
    BY <1>1
  <2> QED BY <2>1, <2>2, <2>3, <2>4
<1>12. \A s \in 0..header : free_list[s] # f
  BY <1>3 DEF Stacked
<1>13. Stacked'
  <2>1. \A s \in 0..header' : free_list'[s] \in User \cup {GARBAGE}
    BY <1>3, <1>11 DEF Stacked
  <2>2. \A s, t \in 0..header' : free_list'[s] = free_list'[t] => s = t
    BY <1>11, <1>12 DEF Stacked
  <2>3. \A s \in 0..header' : frames'[free_list'[s]] = 0
    <3>1. \A s \in 0..header : frames'[free_list[s]] = 0
      BY <1>1, <1>4, <1>12 DEF Stacked
    <3>2. frames'[f] = 0
      BY <1>1, <1>3, <1>4
    <3> QED BY <1>11, <3>1, <3>2
  <2> QED BY <2>1, <2>2, <2>3 DEF Stacked
<1>14. OnceEach'
  <2>1. Kept(frames') \subseteq User \cup {GARBAGE}
    BY <1>5 DEF OnceEach
  <2>2. \A g \in User : frames'[g] = 1 \/ \E s \in 0..header' : free_list'[s] = g
    <3> SUFFICES ASSUME NEW g \in User, frames'[g] # 1
                 PROVE  \E s \in 0..header' : free_list'[s] = g
      OBVIOUS
    <3>1. CASE g = f
      BY <1>9, <1>11, <3>1
    <3>2. CASE g # f
      <4>1. frames[g] # 1
        BY <1>1, <1>4, <3>2
      <4>2. PICK s \in 0..header : free_list[s] = g
        BY <4>1 DEF OnceEach
      <4>3. s \in 0..header'
        BY <1>1, <4>2
      <4> QED BY <1>11, <4>2, <4>3
    <3> QED BY <3>1, <3>2
  <2> QED BY <2>1, <2>2 DEF OnceEach
<1> QED BY <1>7, <1>10, <1>13, <1>14

LEMMA StackInit == Init => StackInv
BY Layout, FramesOfUser DEF Init, StackInv, Slots

LEMMA StackKept ==
  ASSUME NoPage, StackInv, BootInv, BootInv', [Next]_vars
  PROVE  StackInv'
<1> USE StackParts, StackPartsNext
<1>1. StackTypes
  OBVIOUS
<1>2. CASE PhyMemInit
  <2>1. free_list' \in [Slots -> Nat]
    <3>1. \A s \in Slots : s # 0 => END - s + 1 \in Nat
      BY Layout DEF Slots
    <3> QED BY <1>2, <3>1, Layout DEF PhyMemInit
  <2> QED BY <1>1, <1>2, <2>1, Layout DEF PhyMemInit, StackTypes
<1>3. CASE KmapInit
  BY <1>1, <1>3 DEF KmapInit, StackTypes, mem_map
<1>4. CASE KmapPop
  <2>1. header' = header \/ (header >= 0 /\ header' = header - 1)
    BY <1>1, <1>4 DEF KmapPop, Pop, StackTypes
  <2> QED BY <1>1, <1>4, <2>1, Layout DEF KmapPop, Pop, StackTypes
<1>5. CASE KmapPush
  <2>1. Filled' /\ header' = END - NORMAL + 1 /\ frames' = [f \in Frames |-> 0]
    BY <1>5 DEF KmapPush, BootInv
  <2>2. StackTypes'
    <3>1. free_list' \in [Slots -> Nat]
      <4>1. \A s \in Slots : s # 0 => END - s + 1 \in Nat
        BY Layout DEF Slots
      <4> QED BY <2>1, <4>1, Layout DEF Filled
    <3>2. header' \in -1..Count
      BY <2>1, Layout
    <3>3. frames' \in [Frames -> {0, 1}] /\ frames'[0] = 0
      BY <2>1, FramesOfUser
    <3> QED BY <3>1, <3>2, <3>3 DEF StackTypes
  <2>3. Stacked' /\ OnceEach' /\ Room'
    BY <2>1, FilledIsStacked
  <2> QED BY <2>2, <2>3
<1>6. CASE PhyMemAlloc
  <2>1. pc = "run" /\ pc' = pc
    BY <1>6 DEF PhyMemAlloc, Running
  <2> QED BY <1>6, <2>1, AllocKeeps
<1>7. ASSUME NEW f \in Kept(frames), PhyMemFree(f)
      PROVE  StackInv'
  <2>1. pc = "run" /\ pc' = pc
    BY <1>7 DEF PhyMemFree, Running
  <2> QED BY <1>7, <2>1, FreeKeeps
<1>8. CASE KvmInit \/ KvmAllocPage \/ KvmPanic
             \/ (\E p \in Kept(pages) : KvmFreePage(p))
             \/ (\E p \in KPages : KvmUnmapPage(p) \/ KvmMapPage(p))
             \/ UNCHANGED vars
  <2>1. /\ UNCHANGED <<mem_map, frames>>
        /\ pc' \in {"kvm_init", "run"} => pc \in {"kvm_init", "run"}
    BY <1>8 DEF KvmInit, KvmAllocPage, KvmPanic, KvmFreePage, KvmUnmapPage, KvmMapPage,
                Running, vars
  <2> QED BY <2>1 DEF StackTypes, Stacked, OnceEach, Room, mem_map
<1> QED BY <1>2, <1>3, <1>4, <1>5, <1>6, <1>7, <1>8 DEF Next, Boot

LEMMA MemInvariance ==
  ASSUME NoPage
  PROVE  Safety => []MemInv
<1>1. Init => MemInv
  BY PagesInit, BootInit, StackInit DEF MemInv
<1>2. MemInv /\ [Next]_vars => MemInv'
  BY PagesKept, BootKept, StackKept DEF MemInv
<1> QED BY <1>1, <1>2, PTL DEF Safety
-----------------------------------------------------------------------------
(* One owner.                                                              *)

Numbers == Frames \cup KPages

owners == [f \in Numbers |-> Owners(f)]

\* The two allocators give from ranges of their own.
LEMMA Apart ==
  ASSUME NoPage, MemInv
  PROVE  /\ frames \in [Frames -> {0, 1}] /\ pages \in [KPages -> {0, 1}]
         /\ \A f \in Frames : frames[f] = 1 => f >= NORMAL
         /\ \A p \in KPages : pages[p] = 1 => p < NORMAL
         /\ \A f \in Numbers : f \in Nat
<1>1. /\ frames \in [Frames -> {0, 1}] /\ pages \in [KPages -> {0, 1}] /\ frames[0] = 0
      /\ \A p \in KPages : pages[p] = 1 => p < NORMAL
  BY DEF MemInv, PagesInv, StackInv
<1>2. ASSUME NEW f \in Frames, frames[f] = 1
      PROVE  f >= NORMAL
  <2>1. pc \in {"kvm_init", "run"}
    BY <1>2, <1>1 DEF MemInv, BootInv, PagesInv
  <2>2. f \in Kept(frames)
    BY <1>1, <1>2, KeptFinite
  <2>3. f \in User \cup {GARBAGE} /\ f # 0
    BY <1>1, <1>2, <2>1, <2>2 DEF MemInv, StackInv
  <2> QED BY <2>3, Layout DEF NoPage, User
<1>3. \A f \in Numbers : f \in Nat
  BY Layout DEF Numbers, Frames, KPages
<1> QED BY <1>1, <1>2, <1>3

\* A frame goes from no owner to one.
LEMMA GiveFrame ==
  ASSUME NoPage, MemInv, NEW f \in Frames, frames[f] = 0, f >= NORMAL,
         frames' = [frames EXCEPT ![f] = 1], pages' = pages
  PROVE  f \in Numbers /\ owners[f] = 0 /\ owners' = [owners EXCEPT ![f] = 1]
<1>1. f \in Numbers /\ f \in Nat
  BY Apart DEF Numbers
<1>2. f \in KPages => pages[f] = 0
  BY <1>1, Apart, Layout
<1>3. Owners(f) = 0 /\ Owners(f)' = 1
  BY <1>2, Apart DEF Owners
<1>4. \A g \in Numbers : g # f => Owners(g)' = Owners(g)
  BY Apart DEF Owners
<1> QED BY <1>1, <1>3, <1>4 DEF owners

LEMMA TakeFrame ==
  ASSUME NoPage, MemInv, NEW f \in Frames, frames[f] = 1,
         frames' = [frames EXCEPT ![f] = 0], pages' = pages
  PROVE  f \in Numbers /\ owners[f] = 1 /\ owners' = [owners EXCEPT ![f] = 0]
<1>1. f \in Numbers /\ f \in Nat /\ f >= NORMAL
  BY Apart DEF Numbers
<1>2. f \in KPages => pages[f] = 0
  BY <1>1, Apart, Layout
<1>3. Owners(f) = 1 /\ Owners(f)' = 0
  BY <1>2, Apart DEF Owners
<1>4. \A g \in Numbers : g # f => Owners(g)' = Owners(g)
  BY Apart DEF Owners
<1> QED BY <1>1, <1>3, <1>4 DEF owners

LEMMA GivePage ==
  ASSUME NoPage, MemInv, NEW p \in KPages, pages[p] = 0, p < NORMAL,
         pages' = [pages EXCEPT ![p] = 1], frames' = frames
  PROVE  p \in Numbers /\ owners[p] = 0 /\ owners' = [owners EXCEPT ![p] = 1]
<1>1. p \in Numbers /\ p \in Nat
  BY Apart DEF Numbers
<1>2. p \in Frames => frames[p] = 0
  BY <1>1, Apart, Layout
<1>3. Owners(p) = 0 /\ Owners(p)' = 1
  BY <1>2, Apart DEF Owners
<1>4. \A g \in Numbers : g # p => Owners(g)' = Owners(g)
  BY Apart DEF Owners
<1> QED BY <1>1, <1>3, <1>4 DEF owners

LEMMA TakePage ==
  ASSUME NoPage, MemInv, NEW p \in KPages, pages[p] = 1,
         pages' = [pages EXCEPT ![p] = 0], frames' = frames
  PROVE  p \in Numbers /\ owners[p] = 1 /\ owners' = [owners EXCEPT ![p] = 0]
<1>1. p \in Numbers /\ p \in Nat /\ p < NORMAL
  BY Apart DEF Numbers
<1>2. p \in Frames => frames[p] = 0
  BY <1>1, Apart, Layout
<1>3. Owners(p) = 1 /\ Owners(p)' = 0
  BY <1>2, Apart DEF Owners
<1>4. \A g \in Numbers : g # p => Owners(g)' = Owners(g)
  BY Apart DEF Owners
<1> QED BY <1>1, <1>3, <1>4 DEF owners

\* Every call gives a number that nobody has, takes one back, or changes no owner.
LEMMA PoolStep ==
  ASSUME NoPage, MemInv, [Next]_vars
  PROVE  \/ \E f \in Numbers : owners[f] = 0 /\ owners' = [owners EXCEPT ![f] = 1]
         \/ \E f \in Numbers : owners[f] = 1 /\ owners' = [owners EXCEPT ![f] = 0]
         \/ owners' = owners
<1>1. CASE UNCHANGED <<frames, pages>>
  BY <1>1 DEF owners, Owners
<1>2. CASE KvmAllocPage
  <2>1. PICK p \in KPages :
          /\ Allocatable(p) /\ pc = "run" /\ frames' = frames
          /\ pages' = [pages EXCEPT ![p] = pages[p] + 1]
    BY <1>2 DEF KvmAllocPage, Running
  <2>2. p < NORMAL /\ pages[p] = 0
    BY <2>1, AllocatableIsFree DEF MemInv
  <2>3. pages' = [pages EXCEPT ![p] = 1]
    BY <2>1, <2>2
  <2> QED BY <2>1, <2>2, <2>3, GivePage
<1>3. ASSUME NEW p \in Kept(pages), KvmFreePage(p)
      PROVE  \E f \in Numbers : owners[f] = 1 /\ owners' = [owners EXCEPT ![f] = 0]
  <2>1. p \in KPages /\ pages[p] = 1
    BY Apart DEF Kept
  <2>2. pages' = [pages EXCEPT ![p] = 0] /\ frames' = frames
    BY <1>3, <2>1 DEF KvmFreePage
  <2> QED BY <2>1, <2>2, TakePage
<1>4. CASE PhyMemAlloc
  <2>1. pc = "run" /\ pages' = pages /\ header \in -1..Count /\ StackTypes /\ Stacked
    BY <1>4, StackParts DEF PhyMemAlloc, Running, MemInv, StackTypes
  <2>2. CASE Popped = 0
    BY <1>1, <1>4, <2>1, <2>2 DEF PhyMemAlloc
  <2>3. CASE Popped # 0
    <3>1. header \in 0..header /\ Popped = free_list[header]
      BY <2>1, <2>3 DEF Popped
    <3>2. Popped \in User \cup {GARBAGE} /\ frames[Popped] = 0
      BY <2>1, <3>1 DEF Stacked
    <3>3. Popped \in Frames /\ Popped >= NORMAL
      BY <2>3, <3>2, FramesOfUser, Layout DEF NoPage, User
    <3>4. frames' = [frames EXCEPT ![Popped] = frames[Popped] + 1]
      BY <1>4, <2>3 DEF PhyMemAlloc
    <3>5. frames' = [frames EXCEPT ![Popped] = 1]
      BY <3>2, <3>4
    <3> QED BY <2>1, <3>2, <3>3, <3>5, GiveFrame
  <2> QED BY <2>2, <2>3
<1>5. ASSUME NEW f \in Kept(frames), PhyMemFree(f)
      PROVE  \E g \in Numbers : owners[g] = 1 /\ owners' = [owners EXCEPT ![g] = 0]
  <2>1. f \in Frames /\ frames[f] = 1
    BY Apart, KeptFinite
  <2>2. frames' = [frames EXCEPT ![f] = 0] /\ pages' = pages
    BY <1>5, <2>1 DEF PhyMemFree
  <2> QED BY <2>1, <2>2, TakeFrame
<1>6. CASE \/ Boot \/ KvmPanic \/ UNCHANGED vars
           \/ \E p \in KPages : KvmUnmapPage(p) \/ KvmMapPage(p)
  <2>1. UNCHANGED <<frames, pages>>
    BY <1>6 DEF Boot, PhyMemInit, KmapInit, KmapPop, KmapPush, KvmInit, KvmPanic,
                KvmUnmapPage, KvmMapPage, vars
  <2> QED BY <1>1, <2>1
<1> QED BY <1>2, <1>3, <1>4, <1>5, <1>6 DEF Next

\* For every layout of memory, whatever callers the two allocators serve, each page of
\* memory has one owner: together they implement the pool of FramePool.
THEOREM OneOwnerHolds ==
  ASSUME NoPage
  PROVE  Safety => OneOwner
<1>1. Init => Pool!Init
  BY DEF Init, Pool!Init, Owners
<1>2. MemInv /\ [Next]_vars => [Pool!Next]_owners
  <2> SUFFICES ASSUME MemInv, [Next]_vars
               PROVE  Pool!Next \/ owners' = owners
    OBVIOUS
  <2> QED BY PoolStep DEF Pool!Next, Pool!Give, Pool!TakeBack, owners, Numbers
<1> QED BY <1>1, <1>2, MemInvariance, PTL DEF Safety, OneOwner, Pool!Safety, owners, Numbers

\* With slot 0 empty, no frame leaks: those the kernel has not mapped are on the stack
\* or with an owner, never both.
THEOREM SplitHolds ==
  ASSUME GARBAGE = 0
  PROVE  Safety => []Split
<1>1. NoPage
  BY Layout DEF NoPage
<1>2. MemInv => Split
  <2> SUFFICES ASSUME MemInv, pc \in {"kvm_init", "run"}
               PROVE  /\ Kept(frames) \subseteq User
                      /\ {f \in User : \A i \in 0..header : free_list[i] # f} = Kept(frames)
    BY DEF Split, User
  <2>1. StackTypes /\ Stacked /\ OnceEach
    BY StackParts DEF MemInv
  <2>2. \A f : f \in Kept(frames) <=> f \in Frames /\ frames[f] = 1
    BY <2>1, KeptFinite DEF StackTypes
  <2>3. Kept(frames) \subseteq User
    BY <2>1, <2>2 DEF OnceEach, StackTypes
  <2>4. \A f \in User : f \in Kept(frames) \/ \E i \in 0..header : free_list[i] = f
    BY <2>1, <2>2, FramesOfUser DEF OnceEach
  <2>5. \A i \in 0..header : free_list[i] \notin Kept(frames)
    BY <2>1, <2>2 DEF Stacked
  <2> QED BY <2>3, <2>4, <2>5
<1> QED BY <1>1, <1>2, MemInvariance, PTL
=============================================================================
