------------------------------ MODULE PageMaps ------------------------------
(***************************************************************************)
(* mm/mmap.c: the page tables of the kernel and of the processes, and      *)
(* mmaplist, the kernel's list of what it has mapped.  uvm_init() copies a *)
(* program through a window in the kernel's space and maps its page 0;     *)
(* every other page of a process comes with its first fault.               *)
(*                                                                         *)
(* Pages are numbers: 0..UPAGES-1 are those a program may touch (one page  *)
(* table holds them all), WINDOW is the page kvm_alloc_umapped_page()      *)
(* returns.  phy_mem_alloc() and kmalloc() are what FramePool and Heap say:*)
(* a frame that nobody owns, or NULL, and a block that nobody owns.  The   *)
(* calls do not overlap: AllocatorExclusive of module Kernel.              *)
(*                                                                         *)
(* umap_init() sets the kernel's half of a page directory only: in the     *)
(* other half is what the memory of its page came up with.  Nobody sets    *)
(* the link of a block of mmaplist before another is put behind it either; *)
(* it is taken to be 0, as memory that came up with zeros gives it.        *)
(***************************************************************************)
EXTENDS Integers, FiniteSets, Sequences, SequencesExt

CONSTANTS NSETUP,           \* times the boot code runs uinitproc_setup()
          UPAGES,           \* pages a program may touch
          FRAMES,           \* frames phy_mem_alloc() has to give
          DIRTY             \* processes whose directory's page was not zero

ASSUME MapsAssumption ==
  /\ NSETUP \in Nat \ {0} /\ UPAGES \in Nat \ {0}
  /\ FRAMES \subseteq Nat \ {0}
  /\ DIRTY \subseteq 1..NSETUP

Procs == 1..NSETUP
KPGDIR == 0
Spaces == {KPGDIR} \cup Procs

WINDOW == UPAGES
UserPages == 0..(UPAGES - 1)
VPages == 0..UPAGES

Absent == -1
NULL == 0

VARIABLES
  pte,          \* what each page directory maps each page to, or Absent
  pgtbl,        \* page directories whose page table exists
  mmaplist,     \* the blocks of the list, in link order
  heap,         \* mmap_blocks kmalloc() has given out
  free,         \* frames phy_mem_alloc() has left
  ready         \* processes uinitproc_setup() has finished

maps == <<pte, pgtbl, mmaplist, heap>>
vars == <<maps, free, ready>>

Blocks == [id : Nat \ {0}, va : VPages, pa : Nat]

Ids(list) == {list[i].id : i \in DOMAIN list}

\* The state mmap_do_map() and mmap_do_unmap() work on, as they call each other.
Now == [pte |-> pte, pgtbl |-> pgtbl, list |-> mmaplist, heap |-> heap]

MapsBecome(m) ==
  /\ pte' = m.pte /\ pgtbl' = m.pgtbl
  /\ mmaplist' = m.list /\ heap' = m.heap

-----------------------------------------------------------------------------
(* mmap_do_unmap()                                                         *)

First(list, va) ==
  CHOOSE i \in DOMAIN list :
    list[i].va = va /\ \A j \in 1..(i - 1) : list[j].va # va

\* Mutant: every removal takes the branch for the first block.
UnlinkAll(list, i) == << >>

\* Removing the first block empties mmaplist.
Unlink(list, i) == IF i = 1 THEN << >> ELSE RemoveAt(list, i)

\* The first block of the list for page va goes, whichever space it was for.
Unlist(m, va) ==
  IF \E i \in DOMAIN m.list : m.list[i].va = va
    THEN [m EXCEPT !.list = Unlink(m.list, First(m.list, va)),
                   !.heap = @ \ {m.list[First(m.list, va)].id}]
    ELSE m

\* Mutant: like the record, the page goes whichever space it is of.
DoUnmapAll(m, s, va) ==
  IF s \notin m.pgtbl
    THEN m
    ELSE Unlist([m EXCEPT !.pte = [t \in Spaces |-> [m.pte[t] EXCEPT ![va] = Absent]]], va)

DoUnmap(m, s, va) ==
  IF s \notin m.pgtbl
    THEN m
    ELSE Unlist([m EXCEPT !.pte[s][va] = Absent], va)

-----------------------------------------------------------------------------
(* mmap_do_map()                                                           *)

\* A block that kmalloc() may give.
Fresh(m) == CHOOSE id \in 1..(Cardinality(m.heap) + 1) : id \notin m.heap

\* Every block of the list has mapped set, so that a new one is always appended.
Enlist(m, va, pa) ==
  [m EXCEPT !.list = Append(@, [id |-> Fresh(m), va |-> va, pa |-> pa]),
            !.heap = @ \cup {Fresh(m)}]

DoMap(m, s, va, pa) ==
  LET clear == DoUnmap(m, s, va)
  IN  Enlist([clear EXCEPT !.pgtbl = @ \cup {s}, !.pte[s][va] = pa], va, pa)

-----------------------------------------------------------------------------
(* uvm_init() and page_fault_handler()                                     *)

\* Mutant: the window is not unmapped before the page becomes the process's.
UvmInitOpen(p) ==
  /\ p = ready + 1
  /\ \E pa \in free :
       /\ free' = free \ {pa}
       /\ LET open == DoMap(Now, KPGDIR, WINDOW, pa)
          IN  MapsBecome(DoMap(open, p, 0, pa))
  /\ ready' = p

\* uinitproc_setup() panics when there is no frame.
UvmInit(p) ==
  /\ p = ready + 1
  /\ \E pa \in free :
       /\ free' = free \ {pa}
       /\ LET open == DoMap(Now, KPGDIR, WINDOW, pa)
              shut == DoUnmap(open, KPGDIR, WINDOW)
          IN  MapsBecome(DoMap(shut, p, 0, pa))
  /\ ready' = p

\* NULL when no frame is left.
PhyMemAlloc(pa) ==
  \/ pa \in free /\ free' = free \ {pa}
  \/ free = {} /\ pa = NULL /\ UNCHANGED free

\* A program touches page va for the first time.
PageFault(p, va) ==
  /\ ready = NSETUP
  /\ pte[p][va] = Absent
  /\ \E pa \in FRAMES \cup {NULL} :
       PhyMemAlloc(pa) /\ MapsBecome(DoMap(Now, p, va, pa))
  /\ UNCHANGED ready

-----------------------------------------------------------------------------
\* An entry that is not zero leads to a page table, whatever that says.
Init ==
  /\ \E junk \in [DIRTY -> [UserPages -> FRAMES \cup {Absent, NULL}]] :
       pte = [s \in Spaces |-> [va \in VPages |->
                IF s \in DIRTY /\ va \in UserPages THEN junk[s][va] ELSE Absent]]
  /\ pgtbl = DIRTY
  /\ mmaplist = << >> /\ heap = {}
  /\ free = FRAMES
  /\ ready = 0

Next == \E p \in Procs :
  \/ UvmInit(p)
  \/ \E va \in UserPages : PageFault(p, va)

Spec == Init /\ [][Next]_vars

-----------------------------------------------------------------------------
TypeOK ==
  /\ pte \in [Spaces -> [VPages -> FRAMES \cup {Absent, NULL}]]
  /\ pgtbl \subseteq Spaces
  /\ mmaplist \in Seq(Blocks)
  /\ heap \subseteq Nat
  /\ free \subseteq FRAMES
  /\ ready \in 0..NSETUP

\* Nothing leaks and nothing dangles: the blocks of mmaplist are the blocks kmalloc()
\* has given out, once each.  Removing the first block drops the whole list, but it
\* is only ever removed when it is alone: the window's, at the first uvm_init().
ListIsHeap ==
  /\ Ids(mmaplist) = heap
  /\ \A i, j \in DOMAIN mmaplist : mmaplist[i].id = mmaplist[j].id => i = j

\* No two pages, of one process or of two or of the kernel, share a frame as long as
\* there are frames.
FramesPrivate ==
  \A s, t \in Spaces, v, w \in VPages :
    pte[s][v] \notin {Absent, NULL} /\ pte[s][v] = pte[t][w] => s = t /\ v = w

\* Mapping a page moves no other, though the bookkeeping is shared by all spaces.
PagesStay ==
  [][\A s \in Procs, va \in UserPages :
       pte[s][va] # Absent => pte'[s][va] = pte[s][va]]_vars

\* mmap.c:128 says that mmap_do_unmap() is for the kernel only: mapping a page of a
\* process would not remove the record of a page of another one.
RecordOfEach ==
  \A p \in Procs, va \in UserPages : pte[p][va] # Absent =>
    \E i \in DOMAIN mmaplist : mmaplist[i].va = va /\ mmaplist[i].pa = pte[p][va]

\* mmap.c:231 takes 0 from phy_mem_alloc() for a failure: no page of a process is
\* ever backed by it.
NoNullFrame == \A p \in Procs, va \in UserPages : pte[p][va] # NULL

\* mmap.c:223 says that umap_init() has finished the page directory of a process: it
\* maps nothing of the program's yet.
DirectoryEmpty ==
  \A p \in Procs, va \in UserPages : p > ready => pte[p][va] = Absent
=============================================================================
