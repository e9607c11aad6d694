--------------------------- MODULE PageMapsProofs ---------------------------
(***************************************************************************)
(* The page tables and mmaplist for any number of processes, pages and     *)
(* frames.  mmap_do_unmap() drops the whole list when the block it removes *)
(* is the first; the proof shows why that one is never removed while there *)
(* are others: it is the block of page 0 of process 1, and page 0 of a     *)
(* process is mapped once, when the process has no page table yet.         *)
(***************************************************************************)
EXTENDS PageMaps, SequenceTheorems, FiniteSetTheorems, WellFoundedInduction, TLAPS

Entries == FRAMES \cup {Absent, NULL}

Distinct(list) == \A i, j \in DOMAIN list : list[i].id = list[j].id => i = j

\* A process has a page table, and its page 0, once it is set up.
SpacesInv ==
  /\ pgtbl = IF ready = 0 THEN {} ELSE {KPGDIR} \cup 1..ready
  /\ \A s \in Spaces : s = KPGDIR \/ s > ready => \A va \in VPages : pte[s][va] = Absent
  /\ \A p \in 1..ready : pte[p][0] # Absent

\* The first block is for a page 0, the window has none between two calls.
OrderInv ==
  /\ ready > 0 => mmaplist # << >>
  /\ mmaplist # << >> => mmaplist[1].va = 0
  /\ \A i \in DOMAIN mmaplist : mmaplist[i].va # WINDOW

\* A frame in a page table is not free as well.
FramesInv ==
  /\ FramesPrivate
  /\ \A s \in Spaces, va \in VPages : pte[s][va] \notin free

Types ==
  /\ pte \in [Spaces -> [VPages -> Entries]] /\ pgtbl \subseteq Spaces
  /\ mmaplist \in Seq(Blocks) /\ heap \subseteq Nat \ {0} /\ IsFiniteSet(heap)
  /\ free \subseteq FRAMES /\ ready \in 0..NSETUP

MapsInv == Types /\ ListIsHeap /\ SpacesInv /\ OrderInv /\ FramesInv
-----------------------------------------------------------------------------
LEMMA Numbers ==
  /\ NSETUP \in Nat \ {0} /\ UPAGES \in Nat \ {0} /\ FRAMES \subseteq Nat \ {0}
  /\ KPGDIR \in Spaces /\ Procs \subseteq Spaces /\ KPGDIR \notin Procs
  /\ WINDOW \in VPages /\ UserPages \subseteq VPages /\ WINDOW \notin UserPages
  /\ 0 \in UserPages /\ Absent \notin Nat /\ NULL \in Nat \ FRAMES
BY MapsAssumption DEF KPGDIR, Spaces, Procs, WINDOW, VPages, UserPages, Absent, NULL

-----------------------------------------------------------------------------
(* The list of blocks.                                                     *)

\* Of the positions that satisfy something there is a first one.
LEMMA FirstOfSome ==
  ASSUME NEW T, T \subseteq Nat, T # {}
  PROVE  \E x \in T : \A y \in T : ~(y < x)
<1>1. \E x \in T : \A y \in T : ~(<<y, x>> \in OpToRel(<, Nat))
  BY NatLessThanWellFounded, WFMin
<1> QED BY <1>1 DEF OpToRel

LEMMA FirstIsThere ==
  ASSUME NEW list \in Seq(Blocks), NEW va, \E i \in DOMAIN list : list[i].va = va
  PROVE  First(list, va) \in 1..Len(list) /\ list[First(list, va)].va = va
<1> DEFINE T == {i \in DOMAIN list : list[i].va = va}
<1>1. DOMAIN list = 1..Len(list) /\ Len(list) \in Nat
  BY LenProperties
<1>2. PICK i \in T : \A j \in T : ~(j < i)
  <2>1. T \subseteq Nat /\ T # {}
    BY <1>1
  <2> QED BY <2>1, FirstOfSome
<1>3. i \in DOMAIN list /\ list[i].va = va /\ \A j \in 1..(i - 1) : list[j].va # va
  BY <1>1, <1>2
<1> QED BY <1>1, <1>3 DEF First

LEMMA Removed ==
  ASSUME NEW list \in Seq(Blocks), NEW i \in 2..Len(list), Distinct(list)
  PROVE  /\ RemoveAt(list, i) \in Seq(Blocks)
         /\ Len(RemoveAt(list, i)) = Len(list) - 1
         /\ \A j \in 1..(Len(list) - 1) :
              RemoveAt(list, i)[j] = IF j < i THEN list[j] ELSE list[j + 1]
         /\ Ids(RemoveAt(list, i)) = Ids(list) \ {list[i].id}
         /\ Distinct(RemoveAt(list, i))
<1> DEFINE a == SubSeq(list, 1, i - 1)
           b == SubSeq(list, i + 1, Len(list))
           r == RemoveAt(list, i)
<1>1. Len(list) \in Nat /\ DOMAIN list = 1..Len(list) /\ \A j \in 1..Len(list) : list[j] \in Blocks
  BY LenProperties, ElementOfSeq
<1>2. /\ a \in Seq(Blocks) /\ Len(a) = i - 1
      /\ \A j \in 1..(i - 1) : a[j] = list[j]
  <2>1. \A j \in 1..(i - 1) : list[j] \in Blocks
    BY <1>1
  <2>2. 1 \in Int /\ i - 1 \in Int /\ 1 <= i - 1
    OBVIOUS
  <2> HIDE DEF a
  <2>3. /\ a \in Seq(Blocks) /\ Len(a) = IF 1 <= i - 1 THEN (i - 1) - 1 + 1 ELSE 0
        /\ \A j \in 1 .. (i - 1) - 1 + 1 : a[j] = list[1 + j - 1]
    BY <2>1, <2>2, SubSeqProperties DEF a
  <2> QED BY <2>2, <2>3
<1>3. /\ b \in Seq(Blocks) /\ Len(b) = Len(list) - i
      /\ \A j \in 1..(Len(list) - i) : b[j] = list[i + j]
  <2>1. \A j \in (i + 1)..Len(list) : list[j] \in Blocks
    BY <1>1
  <2>2. i + 1 \in Int /\ Len(list) \in Int
    BY <1>1
  <2> HIDE DEF b
  <2>3. /\ b \in Seq(Blocks)
        /\ Len(b) = IF i + 1 <= Len(list) THEN Len(list) - (i + 1) + 1 ELSE 0
        /\ \A j \in 1 .. Len(list) - (i + 1) + 1 : b[j] = list[(i + 1) + j - 1]
    BY <2>1, <2>2, SubSeqProperties DEF b
  <2>4. Len(b) = Len(list) - i
    <3>1. Len(b) = IF i + 1 <= Len(list) THEN Len(list) - (i + 1) + 1 ELSE 0
      BY <2>3
    <3>2. Len(list) \in Nat /\ i \in Nat /\ i <= Len(list)
      BY <1>1
    <3> QED BY <3>1, <3>2
  <2>5. ASSUME NEW j \in 1..(Len(list) - i)
        PROVE  b[j] = list[i + j]
    <3>1. j \in 1 .. Len(list) - (i + 1) + 1 /\ (i + 1) + j - 1 = i + j
      BY <1>1
    <3>2. b[j] = list[(i + 1) + j - 1]
      BY <2>3, <3>1
    <3> QED BY <3>1, <3>2
  <2> QED BY <2>3, <2>4, <2>5
<1>4. /\ r \in Seq(Blocks) /\ Len(r) = Len(list) - 1
      /\ \A j \in 1..(Len(list) - 1) : r[j] = IF j < i THEN list[j] ELSE list[j + 1]
  <2>1. r = a \o b
    BY DEF RemoveAt
  <2> HIDE DEF a, b, r
  <2>2. /\ r \in Seq(Blocks) /\ Len(r) = Len(a) + Len(b)
        /\ \A j \in 1 .. Len(a) + Len(b) : r[j] = IF j <= Len(a) THEN a[j] ELSE b[j - Len(a)]
    BY <1>2, <1>3, <2>1, ConcatProperties
  <2>3. Len(r) = Len(list) - 1
    BY <1>1, <1>2, <1>3, <2>2
  <2>4. ASSUME NEW j \in 1..(Len(list) - 1)
        PROVE  r[j] = IF j < i THEN list[j] ELSE list[j + 1]
    <3> j \in Int /\ i \in Int /\ Len(list) \in Int /\ Len(a) + Len(b) = Len(list) - 1
      BY <1>1, <1>2, <1>3
    <3>0. r[j] = IF j <= i - 1 THEN a[j] ELSE b[j - (i - 1)]
      BY <1>2, <2>2
    <3>1. CASE j < i
      <4>1. j \in 1..(i - 1) /\ j <= i - 1
        BY <3>1
      <4> QED BY <1>2, <3>0, <3>1, <4>1
    <3>2. CASE ~(j < i)
      <4>1. r[j] = b[j - (i - 1)] /\ j - (i - 1) \in 1..(Len(list) - i)
        BY <3>0, <3>2
      <4>2. b[j - (i - 1)] = list[i + (j - (i - 1))] /\ i + (j - (i - 1)) = j + 1
        BY <1>3, <4>1
      <4> QED BY <3>2, <4>1, <4>2
    <3> QED BY <3>1, <3>2
  <2> QED BY <2>2, <2>3, <2>4
<1> HIDE DEF a, b, r
<1>5. DOMAIN r = 1..(Len(list) - 1)
  BY <1>4, LenProperties
<1>6. \A j \in DOMAIN r : \E k \in DOMAIN list : k # i /\ r[j] = list[k]
  <2> SUFFICES ASSUME NEW j \in DOMAIN r
               PROVE  \E k \in DOMAIN list : k # i /\ r[j] = list[k]
    OBVIOUS
  <2>1. CASE j < i
    BY <1>1, <1>4, <1>5, <2>1
  <2>2. CASE ~(j < i)
    <3>1. j + 1 \in DOMAIN list /\ j + 1 # i /\ r[j] = list[j + 1]
      BY <1>1, <1>4, <1>5, <2>2
    <3> QED BY <3>1
  <2> QED BY <2>1, <2>2
<1>7. \A k \in DOMAIN list : k # i => \E j \in DOMAIN r : r[j] = list[k]
  <2> SUFFICES ASSUME NEW k \in DOMAIN list, k # i
               PROVE  \E j \in DOMAIN r : r[j] = list[k]
    OBVIOUS
  <2>1. CASE k < i
    BY <1>1, <1>4, <1>5, <2>1
  <2>2. CASE ~(k < i)
    <3>1. k - 1 \in DOMAIN r /\ r[k - 1] = list[(k - 1) + 1] /\ (k - 1) + 1 = k
      BY <1>1, <1>4, <1>5, <2>2
    <3> QED BY <3>1
  <2> QED BY <2>1, <2>2
<1>8. Ids(r) = Ids(list) \ {list[i].id}
  <2>1. i \in DOMAIN list
    BY <1>1
  <2>2. ASSUME NEW x \in Ids(r)
        PROVE  x \in Ids(list) \ {list[i].id}
    BY <1>6, <2>1 DEF Ids, Distinct
  <2>3. ASSUME NEW x \in Ids(list) \ {list[i].id}
        PROVE  x \in Ids(r)
    <3>1. PICK k \in DOMAIN list : x = list[k].id
      BY DEF Ids
    <3>2. PICK j \in DOMAIN r : r[j] = list[k]
      BY <1>7, <3>1
    <3> QED BY <3>1, <3>2 DEF Ids
  <2> QED BY <2>2, <2>3
<1>9. Distinct(r)
  <2> SUFFICES ASSUME NEW j \in DOMAIN r, NEW k \in DOMAIN r, r[j].id = r[k].id
               PROVE  j = k
    BY DEF Distinct
  <2> DEFINE At(n) == IF n < i THEN n ELSE n + 1
  <2>1. /\ At(j) \in DOMAIN list /\ r[j] = list[At(j)]
        /\ At(k) \in DOMAIN list /\ r[k] = list[At(k)]
    BY <1>1, <1>4, <1>5
  <2>2. At(j) = At(k)
    <3> HIDE DEF At
    <3> QED BY <2>1 DEF Distinct
  <2> QED BY <1>1, <1>5, <2>2
<1> QED BY <1>4, <1>8, <1>9 DEF r
\* A block added at the end, and what else the list then is.
LEMMA Appended ==
  ASSUME NEW list \in Seq(Blocks), Distinct(list), NEW b \in Blocks, b.id \notin Ids(list)
  PROVE  /\ Append(list, b) \in Seq(Blocks) /\ Len(Append(list, b)) = Len(list) + 1
         /\ DOMAIN Append(list, b) = 1..(Len(list) + 1)
         /\ \A i \in 1..Len(list) : Append(list, b)[i] = list[i]
         /\ Append(list, b)[Len(list) + 1] = b
         /\ Ids(Append(list, b)) = Ids(list) \cup {b.id}
         /\ Distinct(Append(list, b))
<1> DEFINE r == Append(list, b)
<1>1. /\ r \in Seq(Blocks) /\ Len(r) = Len(list) + 1
      /\ \A i \in 1..Len(list) : r[i] = list[i]
      /\ r[Len(list) + 1] = b
  BY AppendProperties
<1> HIDE DEF r
<1>2. DOMAIN list = 1..Len(list) /\ DOMAIN r = 1..(Len(list) + 1) /\ Len(list) \in Nat
  BY <1>1, LenProperties
<1>3. \A i \in DOMAIN r : i \in DOMAIN list \/ i = Len(list) + 1
  BY <1>2
<1>4. \A i \in DOMAIN list : i \in DOMAIN r /\ r[i] = list[i]
  BY <1>1, <1>2
<1>5. Len(list) + 1 \in DOMAIN r
  BY <1>2
<1>6. Ids(r) = Ids(list) \cup {b.id}
  BY <1>1, <1>3, <1>4, <1>5 DEF Ids
<1>7. \A i \in DOMAIN list : list[i].id # b.id
  BY DEF Ids
<1>8. Distinct(r)
  BY <1>1, <1>3, <1>4, <1>7 DEF Distinct
<1> QED BY <1>1, <1>2, <1>6, <1>8 DEF r

-----------------------------------------------------------------------------
(* mmap_do_unmap() and mmap_do_map().                                      *)

Maps == [pte : [Spaces -> [VPages -> Entries]], pgtbl : SUBSET Spaces,
         list : Seq(Blocks), heap : SUBSET (Nat \ {0})]

\* A record of maps, and what the code does to one, by name.
Map(P, G, L, H) == [pte |-> P, pgtbl |-> G, list |-> L, heap |-> H]

Put(P, s, va, pa) == [P EXCEPT ![s][va] = pa]

Entered(m, s, va, pa) == [m EXCEPT !.pgtbl = @ \cup {s}, !.pte[s][va] = pa]

Cleared(m, s, va) == [m EXCEPT !.pte[s][va] = Absent]

Relisted(m, l, h) == [m EXCEPT !.list = l, !.heap = h]

LEMMA EnteredMap ==
  ASSUME NEW P, NEW G, NEW L, NEW H, NEW s, NEW va, NEW pa
  PROVE  Entered(Map(P, G, L, H), s, va, pa) = Map(Put(P, s, va, pa), G \cup {s}, L, H)
<1> DEFINE c == [pte |-> P, pgtbl |-> G, list |-> L, heap |-> H]
           g == [pte |-> P, pgtbl |-> G \cup {s}, list |-> L, heap |-> H]
<1>1. [c EXCEPT !.pgtbl = @ \cup {s}] = g
  OBVIOUS
<1>2. [g EXCEPT !.pte[s][va] = pa]
        = [pte |-> [P EXCEPT ![s][va] = pa], pgtbl |-> G \cup {s}, list |-> L, heap |-> H]
  OBVIOUS
<1> HIDE DEF c, g
<1>3. [c EXCEPT !.pgtbl = @ \cup {s}, !.pte[s][va] = pa] = [g EXCEPT !.pte[s][va] = pa]
  BY <1>1
<1> QED BY <1>2, <1>3 DEF Entered, Map, Put, c

LEMMA ClearedMap ==
  ASSUME NEW P, NEW G, NEW L, NEW H, NEW s, NEW va
  PROVE  Cleared(Map(P, G, L, H), s, va) = Map(Put(P, s, va, Absent), G, L, H)
BY DEF Cleared, Map, Put

LEMMA RelistedMap ==
  ASSUME NEW P, NEW G, NEW L, NEW H, NEW l, NEW h
  PROVE  Relisted(Map(P, G, L, H), l, h) = Map(P, G, l, h)
<1> DEFINE c == [pte |-> P, pgtbl |-> G, list |-> L, heap |-> H]
           k == [pte |-> P, pgtbl |-> G, list |-> l, heap |-> H]
<1>1. [c EXCEPT !.list = l] = k
  OBVIOUS
<1>2. [k EXCEPT !.heap = h] = [pte |-> P, pgtbl |-> G, list |-> l, heap |-> h]
  OBVIOUS
<1> HIDE DEF c, k
<1>3. [c EXCEPT !.list = l, !.heap = h] = [k EXCEPT !.heap = h]
  BY <1>1
<1> QED BY <1>2, <1>3 DEF Relisted, Map, c

LEMMA Fields ==
  ASSUME NEW P, NEW G, NEW L, NEW H
  PROVE  /\ Map(P, G, L, H).pte = P /\ Map(P, G, L, H).pgtbl = G
         /\ Map(P, G, L, H).list = L /\ Map(P, G, L, H).heap = H
BY DEF Map

\* The list is the heap's blocks, each once.
Listed(m) ==
  m \in Maps /\ IsFiniteSet(m.heap) /\ Ids(m.list) = m.heap /\ Distinct(m.list)

\* kmalloc() has a block that is not given out.
LEMMA FreshIsNew ==
  ASSUME NEW m, IsFiniteSet(m.heap)
  PROVE  Fresh(m) \in Nat \ {0} /\ Fresh(m) \notin m.heap
<1> DEFINE n == Cardinality(m.heap)
<1>1. n \in Nat
  BY FS_CardinalityType
<1>2. IsFiniteSet(1..(n + 1)) /\ Cardinality(1..(n + 1)) = n + 1
  <2> HIDE DEF n
  <2>1. 1 \in Int /\ n + 1 \in Int /\ ~(1 > n + 1) /\ (n + 1) - 1 + 1 = n + 1
    BY <1>1
  <2> QED BY <2>1, FS_Interval
<1>3. \E id \in 1..(n + 1) : id \notin m.heap
  <2> SUFFICES ASSUME 1..(n + 1) \subseteq m.heap
               PROVE  FALSE
    OBVIOUS
  <2>1. Cardinality(1..(n + 1)) <= n
    BY FS_Subset
  <2> QED BY <1>1, <1>2, <2>1
<1>4. Fresh(m) \in 1..(n + 1) /\ Fresh(m) \notin m.heap
  BY <1>3 DEF Fresh
<1> QED BY <1>1, <1>4

LEMMA Enlisted ==
  ASSUME NEW m, Listed(m), NEW va \in VPages, NEW pa \in Nat
  PROVE  LET b == [id |-> Fresh(m), va |-> va, pa |-> pa]
         IN  /\ Listed(Enlist(m, va, pa))
             /\ Enlist(m, va, pa).pte = m.pte /\ Enlist(m, va, pa).pgtbl = m.pgtbl
             /\ Enlist(m, va, pa).list = Append(m.list, b)
             /\ Enlist(m, va, pa).heap = m.heap \cup {b.id}
             /\ b \in Blocks /\ b.id \notin Ids(m.list)
<1> DEFINE b == [id |-> Fresh(m), va |-> va, pa |-> pa]
           e == Enlist(m, va, pa)
<1>1. m \in Maps /\ IsFiniteSet(m.heap) /\ Ids(m.list) = m.heap /\ Distinct(m.list)
  BY DEF Listed
<1>2. b \in Blocks /\ b.id = Fresh(m) /\ b.id \notin Ids(m.list) /\ Fresh(m) \in Nat \ {0}
  BY <1>1, FreshIsNew DEF Blocks
<1>3. /\ e = [m EXCEPT !.list = Append(m.list, b), !.heap = m.heap \cup {Fresh(m)}]
  BY DEF Enlist
<1> HIDE DEF b, e
<1>4. m.list \in Seq(Blocks) /\ m.heap \subseteq Nat \ {0}
  BY <1>1 DEF Maps
<1>5. /\ e.pte = m.pte /\ e.pgtbl = m.pgtbl /\ e.list = Append(m.list, b)
      /\ e.heap = m.heap \cup {Fresh(m)}
  BY <1>1, <1>3 DEF Maps
<1>6. Append(m.list, b) \in Seq(Blocks) /\ Distinct(Append(m.list, b))
      /\ Ids(Append(m.list, b)) = m.heap \cup {Fresh(m)}
  BY <1>1, <1>2, <1>4, Appended
<1>7. e \in Maps
  BY <1>1, <1>2, <1>3, <1>6 DEF Maps
<1>8. IsFiniteSet(e.heap)
  BY <1>1, <1>5, FS_AddElement
<1> QED BY <1>2, <1>5, <1>6, <1>7, <1>8 DEF Listed, b, e
\* Removing a block behind the first keeps the list in step with the heap.
LEMMA Unlisted ==
  ASSUME NEW m, Listed(m), NEW va \in VPages, m.list # << >>, m.list[1].va # va
  PROVE  /\ Listed(Unlist(m, va))
         /\ Unlist(m, va).pte = m.pte /\ Unlist(m, va).pgtbl = m.pgtbl
         /\ Unlist(m, va).list # << >> /\ Unlist(m, va).list[1] = m.list[1]
         /\ \A i \in DOMAIN Unlist(m, va).list :
              \E k \in DOMAIN m.list : Unlist(m, va).list[i] = m.list[k]
<1>1. m \in Maps /\ IsFiniteSet(m.heap) /\ Ids(m.list) = m.heap /\ Distinct(m.list)
  BY DEF Listed
<1>2. m.list \in Seq(Blocks) /\ m.heap \subseteq Nat \ {0}
  BY <1>1 DEF Maps
<1>3. DOMAIN m.list = 1..Len(m.list) /\ Len(m.list) \in Nat /\ Len(m.list) >= 1
  BY <1>2, LenProperties, EmptySeq
<1>4. CASE ~\E i \in DOMAIN m.list : m.list[i].va = va
  BY <1>4 DEF Unlist
<1>5. CASE \E i \in DOMAIN m.list : m.list[i].va = va
  <2> DEFINE f == First(m.list, va)
             r == RemoveAt(m.list, f)
             u == Unlist(m, va)
  <2>1. f \in 2..Len(m.list)
    <3>1. f \in 1..Len(m.list) /\ m.list[f].va = va
      BY <1>2, <1>5, FirstIsThere
    <3> HIDE DEF f
    <3> QED BY <1>3, <3>1
  <2>2. u = [m EXCEPT !.list = r, !.heap = m.heap \ {m.list[f].id}]
    <3>1. f # 1
      BY <2>1
    <3> QED BY <1>5, <3>1 DEF Unlist, Unlink
  <2> HIDE DEF f, u
  <2>3. /\ r \in Seq(Blocks) /\ Len(r) = Len(m.list) - 1
        /\ \A j \in 1..(Len(m.list) - 1) : r[j] = IF j < f THEN m.list[j] ELSE m.list[j + 1]
        /\ Ids(r) = Ids(m.list) \ {m.list[f].id} /\ Distinct(r)
    BY <1>1, <1>2, <2>1, Removed
  <2> HIDE DEF r
  <2>4. /\ u.pte = m.pte /\ u.pgtbl = m.pgtbl /\ u.list = r
        /\ u.heap = m.heap \ {m.list[f].id}
    BY <1>1, <2>2 DEF Maps
  <2>5. IsFiniteSet(u.heap) /\ u.heap \subseteq Nat \ {0}
    BY <1>1, <1>2, <2>4, FS_Subset
  <2>6. u \in Maps
    BY <1>1, <2>2, <2>3, <2>4, <2>5 DEF Maps
  <2>7. r # << >> /\ r[1] = m.list[1]
    <3>1. Len(m.list) >= 2 /\ 1 < f
      BY <1>3, <2>1
    <3>2. Len(r) = Len(m.list) - 1
      BY <2>3
    <3>3. 1 \in 1..(Len(m.list) - 1) /\ Len(r) # 0
      <4> DEFINE n == Len(m.list)
      <4>1. n \in Nat /\ n >= 2 /\ Len(r) = n - 1
        BY <1>3, <3>1, <3>2
      <4> HIDE DEF n
      <4>2. 1 \in 1..(n - 1) /\ Len(r) # 0
        BY <4>1
      <4> QED BY <4>2 DEF n
    <3> QED BY <2>3, <3>1, <3>3, EmptySeq
  <2>8. ASSUME NEW i \in DOMAIN r
        PROVE  \E k \in DOMAIN m.list : r[i] = m.list[k]
    <3>1. i \in 1..(Len(m.list) - 1)
      BY <2>3, LenProperties
    <3>2. i \in DOMAIN m.list /\ i + 1 \in DOMAIN m.list
      BY <1>3, <3>1
    <3> QED BY <2>3, <3>1, <3>2
  <2> QED BY <1>1, <2>3, <2>4, <2>5, <2>6, <2>7, <2>8 DEF Listed, u
<1> QED BY <1>4, <1>5

LEMMA ListedMap ==
  ASSUME NEW P, NEW G, NEW L, NEW H
  PROVE  Listed(Map(P, G, L, H)) <=>
           /\ P \in [Spaces -> [VPages -> Entries]] /\ G \subseteq Spaces
           /\ L \in Seq(Blocks) /\ H \subseteq Nat \ {0} /\ IsFiniteSet(H)
           /\ Ids(L) = H /\ Distinct(L)
BY DEF Listed, Maps, Map

LEMMA MapOfListed ==
  ASSUME NEW m, Listed(m)
  PROVE  m = Map(m.pte, m.pgtbl, m.list, m.heap)
BY DEF Listed, Maps, Map

LEMMA PutTyped ==
  ASSUME NEW P \in [Spaces -> [VPages -> Entries]],
         NEW s \in Spaces, NEW va \in VPages, NEW pa \in Entries
  PROVE  /\ Put(P, s, va, pa) \in [Spaces -> [VPages -> Entries]]
         /\ Put(P, s, va, pa)[s][va] = pa
         /\ \A t \in Spaces, w \in VPages : t # s \/ w # va => Put(P, s, va, pa)[t][w] = P[t][w]
BY DEF Put

LEMMA PutBack ==
  ASSUME NEW P \in [Spaces -> [VPages -> Entries]],
         NEW s \in Spaces, NEW va \in VPages, NEW pa \in Entries, P[s][va] = Absent
  PROVE  /\ Put(P, s, va, Absent) = P
         /\ Put(Put(P, s, va, pa), s, va, Absent) = P
BY DEF Put

\* Unmapping a page that is not mapped touches the list at most.
LEMMA UnmapAbsent ==
  ASSUME NEW P, NEW G, NEW L, NEW H, Listed(Map(P, G, L, H)),
         NEW s \in Spaces, NEW va \in VPages, P[s][va] = Absent
  PROVE  DoUnmap(Map(P, G, L, H), s, va)
           = IF s \in G THEN Unlist(Map(P, G, L, H), va) ELSE Map(P, G, L, H)
<1>1. Cleared(Map(P, G, L, H), s, va) = Map(P, G, L, H)
  <2>1. Put(P, s, va, Absent) = P
    BY ListedMap, PutBack, Numbers DEF Entries
  <2> QED BY <2>1, ClearedMap
<1>2. DoUnmap(Map(P, G, L, H), s, va)
        = IF s \notin Map(P, G, L, H).pgtbl THEN Map(P, G, L, H)
          ELSE Unlist(Cleared(Map(P, G, L, H), s, va), va)
  BY DEF DoUnmap, Cleared
<1> QED BY <1>1, <1>2, Fields

\* Opening the window and shutting it leaves the maps as they were, but for the page
\* table of the kernel.
LEMMA WindowShut ==
  ASSUME NEW P, NEW G, NEW L, NEW H, Listed(Map(P, G, L, H)), NEW pa \in FRAMES,
         P[KPGDIR][WINDOW] = Absent, \A i \in DOMAIN L : L[i].va # WINDOW
  PROVE  DoUnmap(DoMap(Map(P, G, L, H), KPGDIR, WINDOW, pa), KPGDIR, WINDOW)
           = Map(P, G \cup {KPGDIR}, L, H)
<1> DEFINE m == Map(P, G, L, H)
           P1 == Put(P, KPGDIR, WINDOW, pa)
           G1 == G \cup {KPGDIR}
           c == Map(P1, G1, L, H)
           b == [id |-> Fresh(c), va |-> WINDOW, pa |-> pa]
           l == Append(L, b)
           n == Len(L)
           open == DoMap(m, KPGDIR, WINDOW, pa)
           d == Map(P, G1, l, H \cup {b.id})
<1>1. /\ P \in [Spaces -> [VPages -> Entries]] /\ G \subseteq Spaces
      /\ L \in Seq(Blocks) /\ H \subseteq Nat \ {0} /\ IsFiniteSet(H)
      /\ Ids(L) = H /\ Distinct(L)
  BY ListedMap
<1>2. pa \in Nat /\ pa \in Entries /\ KPGDIR \in Spaces /\ WINDOW \in VPages
  BY Numbers DEF Entries
<1>3. open = Enlist(c, WINDOW, pa)
  <2>1. DoUnmap(m, KPGDIR, WINDOW) = m
    <3>1. Unlist(m, WINDOW) = m
      BY Fields DEF Unlist
    <3> QED BY <1>2, <3>1, UnmapAbsent
  <2>2. open = Enlist(Entered(DoUnmap(m, KPGDIR, WINDOW), KPGDIR, WINDOW, pa), WINDOW, pa)
    BY DEF DoMap, Entered
  <2> QED BY <2>1, <2>2, EnteredMap
<1>4. Listed(c)
  <2>1. P1 \in [Spaces -> [VPages -> Entries]] /\ G1 \subseteq Spaces
    BY <1>1, <1>2, PutTyped
  <2> HIDE DEF P1, G1
  <2> QED BY <1>1, <2>1, ListedMap
<1> HIDE DEF m, c, open
<1>5. /\ open = Map(P1, G1, l, H \cup {b.id}) /\ b \in Blocks /\ b.id \notin H
  <2>1. c.pte = P1 /\ c.pgtbl = G1 /\ c.list = L /\ c.heap = H
    BY Fields DEF c
  <2>2. /\ Listed(open) /\ b \in Blocks /\ b.id \notin Ids(c.list)
        /\ open.pte = c.pte /\ open.pgtbl = c.pgtbl
        /\ open.list = Append(c.list, b) /\ open.heap = c.heap \cup {b.id}
    BY <1>2, <1>3, <1>4, Enlisted
  <2> HIDE DEF P1, G1, b
  <2> QED BY <1>1, <2>1, <2>2, MapOfListed
<1>6. b.va = WINDOW
  OBVIOUS
<1> HIDE DEF b
<1>7. /\ n \in Nat /\ DOMAIN L = 1..n /\ l \in Seq(Blocks)
      /\ DOMAIN l = 1..(n + 1) /\ Len(l) = n + 1 /\ \A i \in 1..n : l[i] = L[i]
      /\ l[n + 1] = b /\ Distinct(l)
  BY <1>1, <1>5, LenProperties, Appended
<1> HIDE DEF P1, G1, n, l
<1>8. /\ First(l, WINDOW) = n + 1 /\ \E i \in DOMAIN l : l[i].va = WINDOW
  <2>1. \E i \in DOMAIN l : l[i].va = WINDOW
    BY <1>6, <1>7
  <2>2. First(l, WINDOW) \in 1..(n + 1) /\ l[First(l, WINDOW)].va = WINDOW
    BY <1>7, <2>1, FirstIsThere
  <2>3. \A i \in 1..n : l[i].va # WINDOW
    BY <1>7
  <2>4. First(l, WINDOW) \notin 1..n
    BY <2>2, <2>3
  <2> QED BY <1>7, <2>1, <2>2, <2>4
<1>9. Unlink(l, n + 1) = L
  <2>1. CASE n = 0
    <3>1. L = << >>
      BY <1>1, <2>1, EmptySeq DEF n
    <3> QED BY <2>1, <3>1 DEF Unlink
  <2>2. CASE n # 0
    <3>1. n + 1 \in 2..Len(l) /\ n + 1 # 1
      BY <1>7, <2>2
    <3>2. /\ RemoveAt(l, n + 1) \in Seq(Blocks) /\ Len(RemoveAt(l, n + 1)) = Len(l) - 1
          /\ \A j \in 1..(Len(l) - 1) :
               RemoveAt(l, n + 1)[j] = IF j < n + 1 THEN l[j] ELSE l[j + 1]
      BY <1>7, <3>1, Removed
    <3>3. Len(RemoveAt(l, n + 1)) = n /\ \A j \in 1..n : RemoveAt(l, n + 1)[j] = L[j]
      BY <1>7, <3>2
    <3>4. RemoveAt(l, n + 1) = L
      BY <1>1, <3>2, <3>3, SeqEqual DEF n
    <3> QED BY <3>1, <3>4 DEF Unlink
  <2> QED BY <2>1, <2>2
<1>10. Cleared(open, KPGDIR, WINDOW) = d
  <2>1. Put(P1, KPGDIR, WINDOW, Absent) = P
    BY <1>1, <1>2, PutBack DEF P1
  <2> QED BY <1>5, <2>1, ClearedMap
<1>11. DoUnmap(open, KPGDIR, WINDOW) = Unlist(d, WINDOW)
  <2>1. KPGDIR \in open.pgtbl
    BY <1>5, Fields DEF G1
  <2>2. DoUnmap(open, KPGDIR, WINDOW) = Unlist(Cleared(open, KPGDIR, WINDOW), WINDOW)
    BY <2>1 DEF DoUnmap, Cleared
  <2> QED BY <1>10, <2>2
<1>12. Unlist(d, WINDOW) = Relisted(d, L, H)
  <2>1. d.list = l /\ d.heap = H \cup {b.id}
    BY Fields
  <2> HIDE DEF d
  <2>2. Unlist(d, WINDOW) = Relisted(d, Unlink(l, First(l, WINDOW)),
                                     d.heap \ {l[First(l, WINDOW)].id})
    BY <1>8, <2>1 DEF Unlist, Relisted
  <2>3. d.heap \ {b.id} = H
    BY <1>5, <2>1
  <2> QED BY <1>7, <1>8, <1>9, <2>2, <2>3
<1>13. Relisted(d, L, H) = Map(P, G1, L, H)
  BY RelistedMap
<1> QED BY <1>11, <1>12, <1>13 DEF open, m, G1
-----------------------------------------------------------------------------
(* The steps.                                                              *)

\* What uvm_init() and a page fault do to the maps: page va of process p, which had
\* none, gets frame pa, with a record at the end of the list.
Mapped(p, va, pa) ==
  /\ pte[p][va] = Absent /\ pa \in Entries \cap Nat
  /\ pte' = Put(pte, p, va, pa)
  /\ mmaplist' \in Seq(Blocks) /\ heap' \subseteq Nat \ {0} /\ IsFiniteSet(heap')
  /\ ListIsHeap'
  /\ mmaplist' # << >>
  /\ mmaplist # << >> => mmaplist'[1] = mmaplist[1]
  /\ mmaplist = << >> => mmaplist'[1].va = va
  /\ \A i \in DOMAIN mmaplist' : mmaplist'[i].va # WINDOW

LEMMA MappedEntry ==
  ASSUME Types, NEW p \in Procs, NEW va \in UserPages, NEW pa, Mapped(p, va, pa)
  PROVE  /\ pte' \in [Spaces -> [VPages -> Entries]] /\ pte'[p][va] = pa /\ pa # Absent
         /\ \A s \in Spaces, w \in VPages : s # p \/ w # va => pte'[s][w] = pte[s][w]
<1>1. pte' = Put(pte, p, va, pa) /\ pa \in Entries /\ pa \in Nat
  BY DEF Mapped
<1>2. pte \in [Spaces -> [VPages -> Entries]] /\ p \in Spaces /\ va \in VPages
  BY Numbers DEF Types
<1>3. pa # Absent
  BY <1>1, Numbers
<1> QED BY <1>1, <1>2, <1>3, PutTyped

NowIs == Now = Map(pte, pgtbl, mmaplist, heap)

LEMMA NowMap ==
  /\ NowIs
  /\ \A m : MapsBecome(m) <=> /\ pte' = m.pte /\ pgtbl' = m.pgtbl
                              /\ mmaplist' = m.list /\ heap' = m.heap
BY DEF NowIs, Now, Map, MapsBecome

LEMMA NowListed ==
  ASSUME Types, ListIsHeap
  PROVE  Listed(Map(pte, pgtbl, mmaplist, heap))
BY ListedMap DEF Types, ListIsHeap, Distinct

\* The last steps of mmap_do_map(), on maps in which page va is not mapped.
LEMMA MapEntered ==
  ASSUME NEW P, NEW G, NEW L, NEW H, Listed(Map(P, G, L, H)),
         NEW p \in Procs, NEW va \in UserPages, NEW pa \in Entries \cap Nat,
         MapsBecome(Enlist(Entered(Map(P, G, L, H), p, va, pa), va, pa)),
         \A i \in DOMAIN L : L[i].va # WINDOW
  PROVE  /\ pte' = Put(P, p, va, pa) /\ pgtbl' = G \cup {p}
         /\ mmaplist' \in Seq(Blocks) /\ heap' \subseteq Nat \ {0} /\ IsFiniteSet(heap')
         /\ ListIsHeap'
         /\ mmaplist' # << >>
         /\ L # << >> => mmaplist'[1] = L[1]
         /\ L = << >> => mmaplist'[1].va = va
         /\ \A i \in DOMAIN mmaplist' : mmaplist'[i].va # WINDOW
<1> DEFINE c == Map(Put(P, p, va, pa), G \cup {p}, L, H)
           e == Enlist(c, va, pa)
           b == [id |-> Fresh(c), va |-> va, pa |-> pa]
<1>1. /\ P \in [Spaces -> [VPages -> Entries]] /\ G \subseteq Spaces
      /\ L \in Seq(Blocks) /\ H \subseteq Nat \ {0} /\ IsFiniteSet(H)
      /\ Ids(L) = H /\ Distinct(L)
  BY ListedMap
<1>2. p \in Spaces /\ va \in VPages /\ pa \in Entries /\ pa \in Nat /\ va # WINDOW
  BY Numbers
<1>3. MapsBecome(e)
  BY EnteredMap
<1>4. Listed(c)
  <2>1. Put(P, p, va, pa) \in [Spaces -> [VPages -> Entries]] /\ G \cup {p} \subseteq Spaces
    BY <1>1, <1>2, PutTyped
  <2> QED BY <1>1, <2>1, ListedMap
<1>5. /\ Listed(e) /\ e.pte = c.pte /\ e.pgtbl = c.pgtbl
      /\ e.list = Append(c.list, b) /\ b \in Blocks /\ b.id \notin Ids(c.list)
  <2> HIDE DEF c
  <2> QED BY <1>2, <1>4, Enlisted
<1>6. c.pte = Put(P, p, va, pa) /\ c.pgtbl = G \cup {p} /\ c.list = L
  BY Fields
<1>7. b.va = va
  OBVIOUS
<1> HIDE DEF c, e, b
<1>8. /\ pte' = Put(P, p, va, pa) /\ pgtbl' = G \cup {p}
      /\ mmaplist' = Append(L, b) /\ heap' = e.heap
  BY <1>3, <1>5, <1>6, NowMap
<1>9. /\ mmaplist' \in Seq(Blocks) /\ heap' \subseteq Nat \ {0} /\ IsFiniteSet(heap')
      /\ ListIsHeap'
  <2>1. /\ e \in Maps /\ IsFiniteSet(e.heap) /\ Ids(e.list) = e.heap /\ Distinct(e.list)
    BY <1>5 DEF Listed
  <2>2. e.list = mmaplist' /\ e.heap = heap'
    BY <1>5, <1>6, <1>8
  <2>3. mmaplist' \in Seq(Blocks) /\ heap' \subseteq Nat \ {0}
    BY <2>1, <2>2 DEF Maps
  <2> QED BY <2>1, <2>2, <2>3 DEF ListIsHeap, Distinct
<1>10. /\ DOMAIN L = 1..Len(L) /\ Len(L) \in Nat /\ DOMAIN mmaplist' = 1..(Len(L) + 1)
       /\ \A i \in 1..Len(L) : mmaplist'[i] = L[i]
       /\ mmaplist'[Len(L) + 1] = b
  BY <1>1, <1>5, <1>6, <1>8, LenProperties, Appended
<1>11. \A i \in DOMAIN mmaplist' : mmaplist'[i].va # WINDOW
  BY <1>2, <1>7, <1>10
<1>12. mmaplist' # << >>
  BY <1>1, <1>5, <1>6, <1>8, AppendProperties
<1>13. L # << >> => mmaplist'[1] = L[1]
  <2> SUFFICES ASSUME L # << >>
               PROVE  mmaplist'[1] = L[1]
    OBVIOUS
  <2>1. Len(L) >= 1
    BY <1>1, <1>10, EmptySeq
  <2> QED BY <1>10, <2>1
<1>14. L = << >> => mmaplist'[1].va = va
  <2> SUFFICES ASSUME L = << >>
               PROVE  mmaplist'[1].va = va
    OBVIOUS
  <2>1. Len(L) = 0
    BY EmptySeq
  <2> QED BY <1>7, <1>10, <2>1
<1> QED BY <1>8, <1>9, <1>11, <1>12, <1>13, <1>14

LEMMA UvmInitMaps ==
  ASSUME MapsInv, NEW p \in Procs, UvmInit(p)
  PROVE  \E pa \in free :
           /\ Mapped(p, 0, pa) /\ free' = free \ {pa}
           /\ pgtbl' = pgtbl \cup {KPGDIR, p} /\ ready' = ready + 1 /\ p = ready + 1
<1>1. Types /\ ListIsHeap /\ SpacesInv /\ OrderInv
  BY DEF MapsInv
<1> DEFINE m == Map(pte, pgtbl, mmaplist, heap)
           shut == Map(pte, pgtbl \cup {KPGDIR}, mmaplist, heap)
<1>2. PICK pa \in free :
        /\ free' = free \ {pa} /\ p = ready + 1 /\ ready' = p
        /\ MapsBecome(DoMap(DoUnmap(DoMap(m, KPGDIR, WINDOW, pa), KPGDIR, WINDOW), p, 0, pa))
  BY NowMap DEF UvmInit, NowIs
<1>3. Listed(m)
  BY <1>1, NowListed
<1>4. /\ KPGDIR \in Spaces /\ WINDOW \in VPages /\ p \in Spaces /\ 0 \in UserPages /\ 0 \in VPages
      /\ pa \in FRAMES /\ pa \in Nat /\ pa \in Entries /\ ready \in Nat
  BY <1>1, Numbers DEF Types, Entries
<1>5. pte[KPGDIR][WINDOW] = Absent /\ pte[p][0] = Absent /\ p \notin pgtbl \cup {KPGDIR}
  <2>1. p > ready /\ p # KPGDIR /\ p \notin 1..ready
    BY <1>2, <1>4, Numbers
  <2> QED BY <1>1, <1>4, <2>1 DEF SpacesInv
<1>6. \A i \in DOMAIN mmaplist : mmaplist[i].va # WINDOW
  BY <1>1 DEF OrderInv
<1> HIDE DEF m, shut
<1>7. DoUnmap(DoMap(m, KPGDIR, WINDOW, pa), KPGDIR, WINDOW) = shut
  BY <1>3, <1>4, <1>5, <1>6, WindowShut DEF m, shut
<1>8. Listed(shut)
  BY <1>3, <1>4, ListedMap DEF m, shut
<1>9. DoUnmap(shut, p, 0) = shut
  BY <1>5, Fields DEF DoUnmap, shut
<1>10. MapsBecome(Enlist(Entered(shut, p, 0, pa), 0, pa))
  <2>1. DoMap(shut, p, 0, pa) = Enlist(Entered(DoUnmap(shut, p, 0), p, 0, pa), 0, pa)
    BY DEF DoMap, Entered
  <2> QED BY <1>2, <1>7, <1>9, <2>1
<1>11. Mapped(p, 0, pa) /\ pgtbl' = (pgtbl \cup {KPGDIR}) \cup {p}
  BY <1>4, <1>5, <1>6, <1>8, <1>10, MapEntered DEF Mapped, shut
<1> QED BY <1>2, <1>11

LEMMA PageFaultMaps ==
  ASSUME MapsInv, NEW p \in Procs, NEW va \in UserPages, PageFault(p, va)
  PROVE  /\ ready = NSETUP /\ ready' = ready /\ pgtbl' = pgtbl
         /\ \E pa \in FRAMES \cup {NULL} : PhyMemAlloc(pa) /\ Mapped(p, va, pa)
<1>1. Types /\ ListIsHeap /\ SpacesInv /\ OrderInv
  BY DEF MapsInv
<1> DEFINE m == Map(pte, pgtbl, mmaplist, heap)
           clear == Unlist(m, va)
<1>2. PICK pa \in FRAMES \cup {NULL} : PhyMemAlloc(pa) /\ MapsBecome(DoMap(m, p, va, pa))
  BY NowMap DEF PageFault, NowIs
<1>3. ready = NSETUP /\ ready' = ready /\ pte[p][va] = Absent
  BY DEF PageFault
<1>4. Listed(m) /\ p \in Spaces /\ va \in VPages /\ pa \in Entries \cap Nat
  BY <1>1, NowListed, Numbers DEF Entries
<1>5. p \in 1..ready /\ p \in pgtbl /\ va # 0
  <2>1. p \in 1..ready /\ ready # 0
    BY <1>3, Numbers DEF Procs
  <2> QED BY <1>1, <1>3, <2>1 DEF SpacesInv
<1>6. mmaplist # << >> /\ mmaplist[1].va # va
  BY <1>1, <1>3, <1>5, Numbers DEF OrderInv
<1>7. DoUnmap(m, p, va) = clear
  BY <1>3, <1>4, <1>5, UnmapAbsent
<1>8. m.pte = pte /\ m.pgtbl = pgtbl /\ m.list = mmaplist
  BY Fields
<1> HIDE DEF m
<1>9. /\ Listed(clear) /\ clear.pte = pte /\ clear.pgtbl = pgtbl
      /\ clear.list # << >> /\ clear.list[1] = mmaplist[1]
      /\ \A i \in DOMAIN clear.list :
           \E k \in DOMAIN mmaplist : clear.list[i] = mmaplist[k]
  BY <1>4, <1>6, <1>8, Unlisted
<1> HIDE DEF clear
<1>10. clear = Map(pte, pgtbl, clear.list, clear.heap)
  BY <1>9, MapOfListed
<1>11. \A i \in DOMAIN clear.list : clear.list[i].va # WINDOW
  BY <1>1, <1>9 DEF OrderInv
<1>12. MapsBecome(Enlist(Entered(Map(pte, pgtbl, clear.list, clear.heap), p, va, pa), va, pa))
  <2>1. DoMap(m, p, va, pa) = Enlist(Entered(DoUnmap(m, p, va), p, va, pa), va, pa)
    BY DEF DoMap, Entered
  <2> QED BY <1>2, <1>7, <1>10, <2>1
<1>13. Mapped(p, va, pa) /\ pgtbl' = pgtbl \cup {p}
  BY <1>3, <1>4, <1>6, <1>9, <1>10, <1>11, <1>12, MapEntered DEF Mapped
<1> QED BY <1>2, <1>3, <1>5, <1>13
-----------------------------------------------------------------------------
(* The invariant.                                                          *)

\* A page that has not been used since power-on is zero.
RamIsZero == DIRTY = {}

LEMMA MapsInit ==
  ASSUME RamIsZero, Init
  PROVE  MapsInv
<1>0. pte = [s \in Spaces |-> [va \in VPages |-> Absent]] /\ pgtbl = {}
  BY DEF RamIsZero, Init
<1>1. DOMAIN mmaplist = {} /\ heap = {} /\ ready = 0 /\ mmaplist \in Seq(Blocks)
  BY EmptySeq, LenProperties DEF Init
<1>2. Types
  BY <1>0, <1>1, FS_EmptySet, Numbers DEF Init, Types, Entries
<1>3. ListIsHeap
  BY <1>1 DEF ListIsHeap, Ids
<1>4. SpacesInv /\ OrderInv
  BY <1>0, <1>1, Numbers DEF SpacesInv, OrderInv
<1>5. FramesInv
  BY <1>0, Numbers DEF Init, FramesInv, FramesPrivate
<1> QED BY <1>2, <1>3, <1>4, <1>5 DEF MapsInv

\* A frame that is mapped comes from the free ones, and leaves them.
LEMMA FramesKept ==
  ASSUME MapsInv, NEW p \in Procs, NEW va \in UserPages, NEW pa, Mapped(p, va, pa),
         \/ pa \in free /\ free' = free \ {pa}
         \/ pa = NULL /\ free' = free
  PROVE  FramesInv'
<1>1. /\ pte \in [Spaces -> [VPages -> Entries]] /\ FramesPrivate
      /\ \A s \in Spaces, v \in VPages : pte[s][v] \notin free
      /\ free \subseteq FRAMES /\ p \in Spaces /\ va \in VPages
  BY Numbers DEF MapsInv, Types, FramesInv
<1>2. /\ pte'[p][va] = pa
      /\ \A s \in Spaces, v \in VPages : s # p \/ v # va => pte'[s][v] = pte[s][v]
  BY MappedEntry DEF MapsInv
<1>3. FramesPrivate'
  <2> SUFFICES ASSUME NEW s \in Spaces, NEW t \in Spaces, NEW v \in VPages, NEW w \in VPages,
                      pte'[s][v] \notin {Absent, NULL}, pte'[s][v] = pte'[t][w]
               PROVE  s = t /\ v = w
    BY DEF FramesPrivate
  <2>1. CASE (s # p \/ v # va) /\ (t # p \/ w # va)
    BY <1>1, <1>2, <2>1 DEF FramesPrivate
  <2>2. CASE s = p /\ v = va
    BY <1>1, <1>2, <2>2
  <2>3. CASE t = p /\ w = va
    BY <1>1, <1>2, <2>3
  <2> QED BY <2>1, <2>2, <2>3
<1>4. \A s \in Spaces, v \in VPages : pte'[s][v] \notin free'
  <2> SUFFICES ASSUME NEW s \in Spaces, NEW v \in VPages
               PROVE  pte'[s][v] \notin free'
    OBVIOUS
  <2>1. CASE s # p \/ v # va
    BY <1>1, <1>2, <2>1
  <2>2. CASE s = p /\ v = va
    BY <1>1, <1>2, <2>2, Numbers
  <2> QED BY <2>1, <2>2
<1> QED BY <1>3, <1>4 DEF FramesInv

LEMMA MapsKept ==
  ASSUME MapsInv, [Next]_vars
  PROVE  MapsInv'
<1>1. Types /\ ListIsHeap /\ SpacesInv /\ OrderInv
  BY DEF MapsInv
<1>2. pte \in [Spaces -> [VPages -> Entries]] /\ pgtbl \subseteq Spaces
      /\ free \subseteq FRAMES /\ ready \in 0..NSETUP
  BY <1>1 DEF Types
<1>3. ASSUME NEW p \in Procs, UvmInit(p)
      PROVE  MapsInv'
  <2>1. PICK pa \in free :
          /\ Mapped(p, 0, pa) /\ free' = free \ {pa}
          /\ pgtbl' = pgtbl \cup {KPGDIR, p} /\ ready' = ready + 1 /\ p = ready + 1
    BY <1>3, UvmInitMaps
  <2>2. /\ p \in Spaces /\ 0 \in VPages /\ 0 \in UserPages /\ KPGDIR \in Spaces
        /\ pa \in Entries /\ pa # Absent
        /\ ready' \in 1..NSETUP /\ p # KPGDIR /\ ready \in Nat
    BY <1>2, <2>1, Numbers DEF Procs, Entries
  <2>3. /\ pte' \in [Spaces -> [VPages -> Entries]] /\ pte'[p][0] = pa
        /\ \A t \in Spaces, w \in VPages : t # p \/ w # 0 => pte'[t][w] = pte[t][w]
    BY <1>1, <2>1, <2>2, MappedEntry
  <2>4. Types'
    <3>1. pgtbl' \subseteq Spaces /\ free' \subseteq FRAMES
      BY <1>2, <2>1, <2>2
    <3>2. ready' \in 0..NSETUP
      BY <2>2
    <3> QED BY <2>1, <2>3, <3>1, <3>2 DEF Types, Mapped
  <2>5. SpacesInv'
    <3>1. pgtbl' = {KPGDIR} \cup 1..ready'
      BY <1>1, <2>1, <2>2 DEF SpacesInv
    <3>2. ASSUME NEW s \in Spaces, s = KPGDIR \/ s > ready', NEW va \in VPages
          PROVE  pte'[s][va] = Absent
      <4>1. s # p /\ (s = KPGDIR \/ s > ready)
        BY <2>1, <2>2, <3>2 DEF Spaces, Procs, KPGDIR
      <4> QED BY <1>1, <2>3, <4>1 DEF SpacesInv
    <3>3. ASSUME NEW q \in 1..ready'
          PROVE  pte'[q][0] # Absent
      <4>1. q = p \/ (q \in 1..ready /\ q \in Spaces /\ q # p)
        BY <1>2, <2>1, <2>2, Numbers DEF Spaces, Procs
      <4>2. CASE q = p
        BY <2>2, <2>3, <4>2
      <4>3. CASE q \in 1..ready /\ q \in Spaces /\ q # p
        <5>1. pte'[q][0] = pte[q][0] /\ pte[q][0] # Absent
          BY <1>1, <2>2, <2>3, <4>3 DEF SpacesInv
        <5> QED BY <5>1
      <4> QED BY <4>1, <4>2, <4>3
    <3> QED BY <2>2, <3>1, <3>2, <3>3 DEF SpacesInv
  <2>6. OrderInv'
    <3>1. mmaplist'[1].va = 0
      <4>1. CASE mmaplist = << >>
        BY <2>1, <4>1 DEF Mapped
      <4>2. CASE mmaplist # << >>
        BY <1>1, <2>1, <4>2 DEF Mapped, OrderInv
      <4> QED BY <4>1, <4>2
    <3> QED BY <2>1, <3>1 DEF Mapped, OrderInv
  <2>7. FramesInv'
    BY <2>1, <2>2, FramesKept
  <2> QED BY <2>1, <2>4, <2>5, <2>6, <2>7 DEF MapsInv, Mapped
<1>4. ASSUME NEW p \in Procs, NEW va \in UserPages, PageFault(p, va)
      PROVE  MapsInv'
  <2>1. ready = NSETUP /\ ready' = ready /\ pgtbl' = pgtbl
    BY <1>4, PageFaultMaps
  <2>2. PICK pa \in FRAMES \cup {NULL} : PhyMemAlloc(pa) /\ Mapped(p, va, pa)
    BY <1>4, PageFaultMaps
  <2>3. p \in Spaces /\ va \in VPages /\ pa \in Entries /\ pa # Absent /\ p \in 1..ready
    BY <2>1, Numbers DEF Entries, Procs
  <2>4. /\ pte' \in [Spaces -> [VPages -> Entries]] /\ pte'[p][va] = pa
        /\ \A t \in Spaces, w \in VPages : t # p \/ w # va => pte'[t][w] = pte[t][w]
    BY <1>1, <2>2, MappedEntry
  <2>5. free' \subseteq free
    BY <2>2 DEF PhyMemAlloc
  <2>6. Types'
    <3>1. pgtbl' \subseteq Spaces /\ free' \subseteq FRAMES /\ ready' \in 0..NSETUP
      BY <1>2, <2>1, <2>5
    <3> QED BY <2>2, <2>4, <3>1 DEF Types, Mapped
  <2>7. SpacesInv'
    <3>1. ASSUME NEW s \in Spaces, s = KPGDIR \/ s > ready', NEW w \in VPages
          PROVE  pte'[s][w] = Absent
      <4>1. s # p /\ (s = KPGDIR \/ s > ready)
        BY <1>2, <2>1, <2>3, <3>1, Numbers DEF Procs
      <4> QED BY <1>1, <2>4, <4>1 DEF SpacesInv
    <3>2. ASSUME NEW q \in 1..ready'
          PROVE  pte'[q][0] # Absent
      <4>1. q \in 1..ready /\ q \in Spaces /\ 0 \in VPages
        BY <1>2, <2>1, Numbers DEF Spaces, Procs
      <4> QED BY <1>1, <2>3, <2>4, <4>1 DEF SpacesInv
    <3> QED BY <1>1, <2>1, <3>1, <3>2 DEF SpacesInv
  <2>8. OrderInv'
    <3>1. ready > 0
      BY <2>1, Numbers
    <3> QED BY <1>1, <2>1, <2>2, <3>1 DEF Mapped, OrderInv
  <2>9. FramesInv'
    BY <2>2, FramesKept DEF PhyMemAlloc
  <2> QED BY <2>2, <2>6, <2>7, <2>8, <2>9 DEF MapsInv, Mapped
<1>5. CASE UNCHANGED vars
  BY <1>5 DEF vars, maps, MapsInv, Types, ListIsHeap, SpacesInv, OrderInv, FramesInv,
              FramesPrivate
<1> QED BY <1>3, <1>4, <1>5 DEF Next

\* What the page tables, mmaplist and the blocks of the heap are between two calls.
THEOREM MapsInvariance ==
  ASSUME RamIsZero
  PROVE  Spec => []MapsInv
BY MapsInit, MapsKept, PTL DEF Spec

\* However many processes and pages there are, mmaplist loses no block: removing its
\* first block, which empties it, only happens when it holds no other.
THEOREM ListIsHeapHolds ==
  ASSUME RamIsZero
  PROVE  Spec => []ListIsHeap
BY MapsInvariance, PTL DEF MapsInv

\* No two pages share a frame, but frame 0 once there are none.
THEOREM FramesPrivateHolds ==
  ASSUME RamIsZero
  PROVE  Spec => []FramesPrivate
<1>1. MapsInv => FramesPrivate
  BY DEF MapsInv, FramesInv
<1> QED BY <1>1, MapsInvariance, PTL

\* A page that is mapped keeps its frame.
THEOREM PagesStayHolds ==
  ASSUME RamIsZero
  PROVE  Spec => PagesStay
<1>1. MapsInv /\ [Next]_vars =>
        [\A s \in Procs, va \in UserPages :
           pte[s][va] # Absent => pte'[s][va] = pte[s][va]]_vars
  <2> SUFFICES ASSUME MapsInv, Next, NEW s \in Procs, NEW w \in UserPages, pte[s][w] # Absent
               PROVE  pte'[s][w] = pte[s][w]
    OBVIOUS
  <2>1. PICK p \in Procs, va \in UserPages : \E pa : Mapped(p, va, pa)
    BY UvmInitMaps, PageFaultMaps, Numbers DEF Next
  <2>2. PICK pa : Mapped(p, va, pa)
    BY <2>1
  <2>3. s # p \/ w # va
    BY <2>2 DEF Mapped
  <2>4. s \in Spaces /\ w \in VPages
    BY Numbers
  <2> QED BY <2>2, <2>3, <2>4, MappedEntry DEF MapsInv
<1> QED BY <1>1, MapsInvariance, PTL DEF Spec, PagesStay
=============================================================================
