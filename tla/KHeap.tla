------------------------------- MODULE KHeap --------------------------------
(***************************************************************************)
(* mm/kmalloc.c: the kernel heap, a list of chunks that starts empty and   *)
(* grows by pages of kvm_alloc_page(), which hands them out in ascending   *)
(* order to the heap and to others.  Chunks are split on allocation and    *)
(* glued when they are freed or when the heap has grown.                   *)
(*                                                                         *)
(* kmem_list is the list in link order, block the position kmalloc() has   *)
(* reached in it (0 for NULL).  One step per iteration of kmalloc()'s loop.*)
(* Calls do not overlap: see AllocatorExclusive of module Kernel.          *)
(***************************************************************************)
EXTENDS Integers, Sequences

CONSTANTS PGSIZE,           \* bytes in a page
          HDR,              \* sizeof(struct kmem_chunk)
          LIMIT,            \* where the pages of kvm_alloc_page() end
          Sizes             \* sizes the kernel asks for

ASSUME HeapAssumption ==
  /\ PGSIZE \in Nat /\ HDR \in Nat \ {0} /\ HDR < PGSIZE
  /\ LIMIT \in Nat
  /\ Sizes \subseteq Nat \ {0}

VARIABLES kmem_list,
          nextpage,         \* address of the page kvm_alloc_page() gives next
          taken,            \* the pages it has given to the heap
          want, block,      \* size and block of the kmalloc() under way, or 0
          fault             \* "none", or the function that has panicked

vars == <<kmem_list, nextpage, taken, want, block, fault>>

\* What is in the bytes of a chunk: zeros; what the RAM held when the machine came up,
\* whatever that is; or what a caller, or the header of a chunk since merged, has left.
Contents == {"zero", "boot", "stale"}

Chunks == [addr : Nat, size : Nat, free : BOOLEAN, holds : Contents]

Nodes == DOMAIN kmem_list

\* Nobody clears a fresh page; none that was used comes back to kvm_alloc_page().
NewChunk(p) ==
  [addr |-> p + HDR, size |-> PGSIZE - HDR, free |-> TRUE, holds |-> "boot"]

-----------------------------------------------------------------------------
(* The list                                                                *)

\* What the caller does with its block is unknown.
Used(chunk) == [chunk EXCEPT !.free = FALSE, !.holds = "stale"]

\* Mutant: the header of the rest is not paid for.
SplitFree(list, i, n) ==
  [j \in 1..(Len(list) + 1) |->
     CASE j < i -> list[j]
       [] j = i -> [list[i] EXCEPT !.size = n, !.free = FALSE, !.holds = "stale"]
       [] j = i + 1 -> [list[i] EXCEPT !.addr = list[i].addr + n + HDR,
                                       !.size = list[i].size - n]
       [] OTHER -> list[j - 1]]

\* chunk_split(): the front of chunk i is used, its rest a free chunk after it.
Split(list, i, n) ==
  [j \in 1..(Len(list) + 1) |->
     CASE j < i -> list[j]
       [] j = i -> [list[i] EXCEPT !.size = n, !.free = FALSE, !.holds = "stale"]
       [] j = i + 1 -> [list[i] EXCEPT !.addr = list[i].addr + n + HDR,
                                       !.size = list[i].size - n - HDR]
       [] OTHER -> list[j - 1]]

\* Mutant: neighbours in the list are taken for neighbours in memory.
ListNeighbours(list, k) ==
  k + 1 \in DOMAIN list /\ list[k].free /\ list[k + 1].free

Mergeable(list, k) ==
  /\ k + 1 \in DOMAIN list
  /\ list[k].free /\ list[k + 1].free
  /\ list[k + 1].addr = list[k].addr + list[k].size + HDR

\* Mutant: what is merged is not cleared, and the header in its middle stays.
MergeDirty(list, k) ==
  [j \in 1..(Len(list) - 1) |->
     CASE j < k -> list[j]
       [] j = k -> [list[k] EXCEPT !.size = list[k].size + list[k + 1].size + HDR,
                                   !.holds = "stale"]
       [] OTHER -> list[j + 1]]

Merge(list, k) ==
  [j \in 1..(Len(list) - 1) |->
     CASE j < k -> list[j]
       [] j = k -> [list[k] EXCEPT !.size = list[k].size + list[k + 1].size + HDR,
                                   !.holds = "zero"]
       [] OTHER -> list[j + 1]]

FirstPair(list, k) ==
  Mergeable(list, k) /\ \A j \in DOMAIN list : Mergeable(list, j) => k <= j

\* chunk_glue() merges one pair, the first: it goes on from the header it has
\* merged, which its memset() has cleared, and finds the end of the list there.
Glue(list, glued) ==
  \/ /\ \A k \in DOMAIN list : ~Mergeable(list, k)
     /\ glued = list
  \/ \E k \in DOMAIN list : FirstPair(list, k) /\ glued = Merge(list, k)

\* The chunk a pointer to chunk b of list points to after chunk_glue(): none if it
\* was merged into the one before it, as its cleared header reads used and last.
Follow(list, b) ==
  IF \E k \in DOMAIN list : FirstPair(list, k) /\ k < b
    THEN IF FirstPair(list, b - 1) THEN 0 ELSE b - 1
    ELSE b

-----------------------------------------------------------------------------
(* kmalloc()                                                               *)

Searching == fault = "none" /\ want # 0

Here == kmem_list[block]

PageLeft == nextpage + PGSIZE <= LIMIT

KvmAllocPage == PageLeft /\ nextpage' = nextpage + PGSIZE

\* It is called: an empty heap takes its first page.
Kmalloc(n) ==
  /\ fault = "none" /\ want = 0
  /\ want' = n /\ block' = 1
  /\ \/ /\ kmem_list # << >>
        /\ UNCHANGED <<kmem_list, nextpage, taken>>
     \/ /\ kmem_list = << >> /\ KvmAllocPage
        /\ kmem_list' = <<NewChunk(nextpage)>>
        /\ taken' = taken \cup {nextpage}
  /\ UNCHANGED fault

Skip ==
  /\ Searching /\ block # 0
  /\ ~Here.free \/ (Here.size < want /\ block < Len(kmem_list))
  /\ block' = IF block < Len(kmem_list) THEN block + 1 ELSE 0
  /\ UNCHANGED <<kmem_list, nextpage, taken, want, fault>>

SplitChunk ==
  /\ Searching /\ block # 0
  /\ Here.free /\ Here.size > want + HDR
  /\ kmem_list' = Split(kmem_list, block, want)
  /\ want' = 0 /\ block' = 0
  /\ UNCHANGED <<nextpage, taken, fault>>

\* chunk_split() panics over a chunk that is large enough but leaves no room for
\* another header.
SplitPanic ==
  /\ Searching /\ block # 0
  /\ Here.free /\ Here.size > want /\ Here.size <= want + HDR
  /\ fault' = "chunk_split"
  /\ UNCHANGED <<kmem_list, nextpage, taken, want, block>>

TakeWhole ==
  /\ Searching /\ block # 0
  /\ Here.free /\ Here.size = want
  /\ kmem_list' = [kmem_list EXCEPT ![block] = Used(Here)]
  /\ want' = 0 /\ block' = 0
  /\ UNCHANGED <<nextpage, taken, fault>>

\* The last chunk is free and too small: a page is appended, chunk_glue() runs,
\* and the search goes on from where block points.
Grow ==
  /\ Searching /\ block # 0
  /\ Here.free /\ Here.size < want /\ block = Len(kmem_list)
  /\ KvmAllocPage /\ taken' = taken \cup {nextpage}
  /\ LET grown == Append(kmem_list, NewChunk(nextpage))
     IN  /\ Glue(grown, kmem_list')
         /\ block' = Follow(grown, block)
  /\ UNCHANGED <<want, fault>>

\* The end of the list, reached at a chunk in use: NULL.
ReturnNull ==
  /\ Searching /\ block = 0
  /\ want' = 0
  /\ UNCHANGED <<kmem_list, nextpage, taken, block, fault>>

\* kvm_alloc_page() panics when no page is left.
PagePanic ==
  /\ ~PageLeft /\ fault' = "kvm_alloc_page"
  /\ \/ /\ fault = "none" /\ want = 0 /\ kmem_list = << >>
     \/ /\ Searching /\ block # 0
        /\ Here.free /\ Here.size < want /\ block = Len(kmem_list)
  /\ UNCHANGED <<kmem_list, nextpage, taken, want, block>>

-----------------------------------------------------------------------------
(* kmfree() and the other users of kvm_alloc_page()                        *)

\* Mutant: kmfree() looks only at where a chunk begins.
CoversAbove(i, a) == ~kmem_list[i].free /\ kmem_list[i].addr <= a

Covers(i, a) ==
  /\ ~kmem_list[i].free
  /\ kmem_list[i].addr <= a /\ a < kmem_list[i].addr + kmem_list[i].size

Freed(chunk) == [chunk EXCEPT !.free = TRUE, !.holds = "zero"]

\* The callers give back the addresses kmalloc() returned to them.
Kmfree(a) ==
  /\ fault = "none" /\ want = 0
  /\ \E i \in Nodes :
       /\ Covers(i, a) /\ \A k \in 1..(i - 1) : ~Covers(k, a)
       /\ Glue([kmem_list EXCEPT ![i] = Freed(kmem_list[i])], kmem_list')
  /\ UNCHANGED <<nextpage, taken, want, block, fault>>

OtherPage ==
  /\ fault = "none" /\ want = 0
  /\ KvmAllocPage
  /\ UNCHANGED <<kmem_list, taken, want, block, fault>>

-----------------------------------------------------------------------------
Init ==
  /\ kmem_list = << >>
  /\ nextpage = 0 /\ taken = {}
  /\ want = 0 /\ block = 0
  /\ fault = "none"

Held == {i \in Nodes : ~kmem_list[i].free}

Next ==
  \/ \E n \in Sizes : Kmalloc(n)
  \/ Skip \/ SplitChunk \/ SplitPanic \/ TakeWhole \/ Grow \/ ReturnNull
  \/ PagePanic
  \/ \E i \in Held : Kmfree(kmem_list[i].addr)
  \/ OtherPage

Safety == Init /\ [][Next]_vars

-----------------------------------------------------------------------------
\* The list is in address order and no chunk of it reaches into the header or the
\* bytes of another.
Apart(list) ==
  \A i, j \in DOMAIN list : i < j =>
    list[i].addr + list[i].size + HDR <= list[j].addr

\* The address a is in the header or in the bytes of the chunk.
InChunk(chunk, a) == chunk.addr <= a + HDR /\ a < chunk.addr + chunk.size

Covered(list, a) == \E i \in DOMAIN list : InChunk(list[i], a)

InHeap(a) == \E p \in taken : p <= a /\ a < p + PGSIZE

Block(chunk) == [addr |-> chunk.addr, size |-> chunk.size]

BlocksOf(list) == {Block(list[i]) : i \in {j \in DOMAIN list : ~list[j].free}}

\* The blocks handed out are the chunks in use.
H == INSTANCE Heap WITH Addresses <- 0..LIMIT, blocks <- BlocksOf(kmem_list)

-----------------------------------------------------------------------------
TypeOK ==
  /\ kmem_list \in Seq(Chunks)
  /\ nextpage \in Nat /\ taken \subseteq Nat
  /\ want \in Sizes \cup {0}
  /\ block \in 0..Len(kmem_list)
  /\ fault \in {"none", "chunk_split", "kvm_alloc_page"}

\* Nothing is lost and nothing is stolen: whatever was split, glued and freed
\* before, the chunks with their headers do not overlap and cover exactly the pages
\* the heap was given, though the pages between them are other users'.
Tiling ==
  /\ Apart(kmem_list)
  /\ \A a \in 0..LIMIT : InHeap(a) <=> Covered(kmem_list, a)

\* What kmalloc() hands out holds nothing that an earlier caller wrote and no header of
\* an earlier chunk, after any splits and merges: mmap_do_map() and buf_read() leave
\* links of a recycled block unset, which would then lead to what is long gone.
NoLeftovers == \A i \in Nodes : kmem_list[i].free => kmem_list[i].holds # "stale"

\* kmalloc() and kmfree() keep what Heap promises: blocks of the exact size that
\* overlap nothing handed out, and that stay where they are until they are freed.
HeapSafety == H!Safety

\* kmfree() finds the chunk of the address it is given, and frees no other.
FreesItsOwn ==
  [][\A i \in Held : Kmfree(kmem_list[i].addr) =>
       BlocksOf(kmem_list') = BlocksOf(kmem_list) \ {Block(kmem_list[i])}]_vars

\* kmalloc.c:45 says that chunk_glue() merges adjacent free chunks: between two
\* calls none would be left.
AllGlued == want = 0 => \A k \in Nodes : ~Mergeable(kmem_list, k)

\* mmap.c:97 and buf.c:22 take for granted that what kmalloc() hands out is zero.
FreeIsZero == \A i \in Nodes : kmem_list[i].free => kmem_list[i].holds = "zero"

\* The check in chunk_split() (kmalloc.c:25) takes for granted that kmalloc() only
\* offers it a chunk with room for the rest.
RoomToSplit == fault # "chunk_split"

\* kmalloc.c:141 says that the list is searched again after the heap has grown: a
\* kmalloc() would not give up while the page just appended could serve it.
SearchesGrownHeap ==
  want # 0 /\ block = 0 =>
    LET last == kmem_list[Len(kmem_list)]
    IN  ~(last.free /\ last.size >= want)

-----------------------------------------------------------------------------
(* The inductive invariant: Tiling needs to know where the pages end.      *)

Below(list, top) ==
  \A i \in DOMAIN list :
    HDR <= list[i].addr /\ list[i].addr + list[i].size <= top

HeapInv ==
  /\ TypeOK
  /\ Tiling
  /\ NoLeftovers
  /\ Below(kmem_list, nextpage)
  /\ \A p \in taken : p + PGSIZE <= nextpage
  /\ nextpage <= LIMIT
  /\ want = 0 => block = 0
=============================================================================
