----------------------------- MODULE KHeapProofs -----------------------------
(***************************************************************************)
(* Theorems about the kernel heap for every page size, header size and set *)
(* of sizes: the list tiles the pages of the heap, and kmalloc() and       *)
(* kmfree() implement Heap.                                                *)
(***************************************************************************)
EXTENDS KHeap, TLAPS

-----------------------------------------------------------------------------
(* Lists of chunks as functions                                            *)

LEMMA ListType ==
  ASSUME NEW list \in Seq(Chunks)
  PROVE  /\ Len(list) \in Nat /\ DOMAIN list = 1..Len(list)
         /\ list \in [1..Len(list) -> Chunks]
OBVIOUS

LEMMA MakeList ==
  ASSUME NEW n \in Nat, NEW f \in [1..n -> Chunks]
  PROVE  f \in Seq(Chunks) /\ Len(f) = n /\ DOMAIN f = 1..n
OBVIOUS

LEMMA ChunkType ==
  ASSUME NEW c \in Chunks
  PROVE  c.addr \in Nat /\ c.size \in Nat /\ c.free \in BOOLEAN /\ c.holds \in Contents
BY DEF Chunks

\* What the lists of the heap have in common.
Good(list, top) ==
  /\ list \in Seq(Chunks)
  /\ Apart(list) /\ Below(list, top)
  /\ \A i \in DOMAIN list : list[i].free => list[i].holds # "stale"

-----------------------------------------------------------------------------
(* chunk_split()                                                           *)

LEMMA SplitKeeps ==
  ASSUME NEW top \in Nat, NEW list, Good(list, top),
         NEW i \in DOMAIN list, NEW n \in Nat,
         list[i].free, list[i].size > n + HDR
  PROVE  /\ Good(Split(list, i, n), top)
         /\ Len(Split(list, i, n)) = Len(list) + 1
         /\ \A a \in Nat : Covered(Split(list, i, n), a) <=> Covered(list, a)
         /\ BlocksOf(Split(list, i, n)) =
              BlocksOf(list) \cup {[addr |-> list[i].addr, size |-> n]}
<1> DEFINE L == Len(list)
           s == Split(list, i, n)
           front == [list[i] EXCEPT !.size = n, !.free = FALSE, !.holds = "stale"]
           rest == [list[i] EXCEPT !.addr = list[i].addr + n + HDR,
                                   !.size = list[i].size - n - HDR]
<1>1. /\ L \in Nat /\ DOMAIN list = 1..L /\ list \in [1..L -> Chunks]
      /\ HDR \in Nat \ {0} /\ i \in 1..L
  BY ListType, HeapAssumption DEF Good
<1>2. /\ list[i] \in Chunks /\ list[i].addr \in Nat /\ list[i].size \in Nat
      /\ list[i].free = TRUE /\ list[i].holds # "stale"
  BY <1>1, ChunkType DEF Good
<1>3. /\ front \in Chunks /\ front.addr = list[i].addr /\ front.size = n
      /\ ~front.free
  BY <1>2 DEF Chunks, Contents
<1>4. /\ rest \in Chunks /\ rest.addr = list[i].addr + n + HDR
      /\ rest.size = list[i].size - n - HDR /\ rest.free /\ rest.holds # "stale"
  <2>1. list[i].addr + n + HDR \in Nat /\ list[i].size - n - HDR \in Nat
    BY <1>1, <1>2
  <2> QED BY <1>2, <2>1 DEF Chunks
<1>5. s = [j \in 1..(L + 1) |-> CASE j < i -> list[j] [] j = i -> front
                                  [] j = i + 1 -> rest [] OTHER -> list[j - 1]]
  BY DEF Split
<1> HIDE DEF front, rest, s, L
<1>6. /\ s[i] = front /\ s[i + 1] = rest
      /\ \A j \in 1..L : j < i => s[j] = list[j]
      /\ \A j \in 1..L : j > i => s[j + 1] = list[j]
      /\ \A j \in 1..(L + 1) : j = i \/ j = i + 1 \/ (j < i /\ j \in 1..L)
                               \/ (j > i + 1 /\ j - 1 \in 1..L)
  BY <1>1, <1>5
<1>7. \A j \in 1..(L + 1) :
        \/ j = i /\ s[j] = front
        \/ j = i + 1 /\ s[j] = rest
        \/ j < i /\ j \in 1..L /\ s[j] = list[j]
        \/ j > i + 1 /\ j - 1 \in 1..L /\ j - 1 > i /\ s[j] = list[j - 1]
  BY <1>1, <1>5
<1>8. s \in Seq(Chunks) /\ Len(s) = L + 1 /\ DOMAIN s = 1..(L + 1)
  <2>1. \A j \in 1..(L + 1) : s[j] \in Chunks
    BY <1>1, <1>3, <1>4, <1>7
  <2>2. s \in [1..(L + 1) -> Chunks]
    BY <1>5, <2>1
  <2> QED BY <1>1, <2>2, MakeList
<1>9. \A j \in 1..L : list[j].addr \in Nat /\ list[j].size \in Nat
  BY <1>1, ChunkType
<1>10. \A j \in 1..(L + 1) :
         \/ j = i /\ s[j].addr = list[i].addr /\ s[j].size = n /\ ~s[j].free
         \/ /\ j = i + 1 /\ s[j].addr = list[i].addr + n + HDR
            /\ s[j].size = list[i].size - n - HDR /\ s[j].holds # "stale"
         \/ j < i /\ j \in 1..L /\ s[j] = list[j]
         \/ j > i + 1 /\ j - 1 \in 1..L /\ j - 1 > i /\ s[j] = list[j - 1]
  BY <1>3, <1>4, <1>7
<1>11. Apart(s) /\ Below(s, top)
  <2>1. \A x, y \in 1..L : x < y => list[x].addr + list[x].size + HDR <= list[y].addr
    BY <1>1 DEF Good, Apart
  <2>2. \A x \in 1..L : HDR <= list[x].addr /\ list[x].addr + list[x].size <= top
    BY <1>1 DEF Good, Below
  <2> DEFINE x == list[i].addr
             y == list[i].size
  <2>3. /\ x \in Nat /\ y \in Nat /\ HDR \in Nat /\ n \in Nat /\ top \in Nat
        /\ y > n + HDR /\ HDR <= x /\ x + y <= top
    BY <1>1, <1>2, <2>2
  <2> HIDE DEF x, y
  <2>4. ASSUME NEW j \in 1..(L + 1), NEW k \in 1..(L + 1), j < k
        PROVE  s[j].addr + s[j].size + HDR <= s[k].addr
    <3>1. CASE j = i
      <4>1. s[j].addr = list[i].addr /\ s[j].size = n
        BY <1>3, <1>6, <3>1
      <4>2. CASE k = i + 1
        <5>1. s[k].addr = list[i].addr + n + HDR
          BY <1>4, <1>6, <4>2
        <5> QED BY <1>1, <1>2, <4>1, <5>1
      <4>3. CASE k > i + 1
        <5>1. k - 1 \in 1..L /\ k - 1 > i /\ s[k] = list[k - 1]
          BY <1>1, <1>10, <2>4, <4>3
        <5>2. list[i].addr + list[i].size + HDR <= list[k - 1].addr
          BY <1>1, <2>1, <5>1
        <5>3. list[k - 1].addr \in Nat
          BY <1>9, <5>1
        <5> QED BY <1>1, <1>2, <4>1, <5>1, <5>2, <5>3
      <4> QED BY <1>1, <2>4, <3>1, <4>2, <4>3
    <3>2. CASE j = i + 1
      <4>1. k - 1 \in 1..L /\ k - 1 > i /\ s[k] = list[k - 1]
        BY <1>1, <1>10, <2>4, <3>2
      <4>2. list[i].addr + list[i].size + HDR <= list[k - 1].addr
        BY <1>1, <2>1, <4>1
      <4>3. s[j].addr = list[i].addr + n + HDR /\ s[j].size = list[i].size - n - HDR
        BY <1>4, <1>6, <3>2
      <4>4. list[k - 1].addr \in Nat
        BY <1>9, <4>1
      <4>5. s[j].addr + s[j].size + HDR = list[i].addr + list[i].size + HDR
        <5>1. s[j].addr = x + n + HDR /\ s[j].size = y - n - HDR
          BY <4>3 DEF x, y
        <5>2. (x + n + HDR) + (y - n - HDR) + HDR = x + y + HDR
          BY <2>3
        <5> QED BY <5>1, <5>2 DEF x, y
      <4> QED BY <1>1, <1>2, <4>1, <4>2, <4>4, <4>5
    <3>3. CASE j < i
      <4>1. j \in 1..L /\ s[j] = list[j]
        BY <1>1, <1>10, <2>4, <3>3
      <4>2. CASE k < i
        BY <1>1, <1>10, <2>1, <2>4, <4>1, <4>2
      <4>3. CASE k = i
        BY <1>1, <1>10, <2>1, <2>4, <4>1, <4>3
      <4>4. CASE k = i + 1
        <5>1. list[j].addr + list[j].size + HDR <= list[i].addr
          BY <1>1, <2>1, <3>3, <4>1
        <5>2. s[k].addr = list[i].addr + n + HDR
          BY <1>1, <1>10, <2>4, <4>4
        <5> QED BY <1>1, <1>2, <1>9, <4>1, <5>1, <5>2
      <4>5. CASE k > i + 1
        <5>1. k - 1 \in 1..L /\ k - 1 > i /\ s[k] = list[k - 1]
          BY <1>1, <1>10, <2>4, <4>5
        <5> QED BY <1>1, <2>1, <3>3, <4>1, <5>1
      <4> QED BY <1>1, <2>4, <4>2, <4>3, <4>4, <4>5
    <3>4. CASE j > i + 1
      <4>1. /\ j - 1 \in 1..L /\ s[j] = list[j - 1]
            /\ k - 1 \in 1..L /\ s[k] = list[k - 1]
        BY <1>1, <1>10, <2>4, <3>4
      <4> QED BY <1>1, <2>1, <2>4, <4>1
    <3> QED BY <1>1, <2>4, <3>1, <3>2, <3>3, <3>4
  <2>5. ASSUME NEW j \in 1..(L + 1)
        PROVE  HDR <= s[j].addr /\ s[j].addr + s[j].size <= top
    <3>1. CASE j = i
      <4>1. s[j].addr = x /\ s[j].size = n
        BY <1>1, <1>10, <2>5, <3>1 DEF x
      <4>2. x + n <= top
        BY <2>3
      <4> QED BY <2>3, <4>1, <4>2
    <3>2. CASE j = i + 1
      <4>1. s[j].addr = x + n + HDR /\ s[j].size = y - n - HDR
        BY <1>1, <1>10, <2>5, <3>2 DEF x, y
      <4>2. HDR <= x + n + HDR /\ (x + n + HDR) + (y - n - HDR) = x + y
        BY <2>3
      <4> QED BY <2>3, <4>1, <4>2
    <3> QED BY <1>1, <1>10, <2>2, <2>5, <3>1, <3>2
  <2> QED BY <1>8, <2>4, <2>5 DEF Apart, Below
<1>12. \A j \in DOMAIN s : s[j].free => s[j].holds # "stale"
  BY <1>1, <1>8, <1>10 DEF Good
<1>13. \A a \in Nat : Covered(s, a) <=> Covered(list, a)
  <2> TAKE a \in Nat
  <2>1. InChunk(list[i], a) <=> InChunk(front, a) \/ InChunk(rest, a)
    <3>1. InChunk(front, a) <=> list[i].addr <= a + HDR /\ a < list[i].addr + n
      BY <1>3 DEF InChunk
    <3>2. InChunk(rest, a) <=> /\ list[i].addr + n + HDR <= a + HDR
                               /\ a < list[i].addr + n + HDR + (list[i].size - n - HDR)
      BY <1>4 DEF InChunk
    <3> DEFINE x == list[i].addr
               y == list[i].size
    <3>3. x \in Nat /\ y \in Nat /\ HDR \in Nat /\ y > n + HDR
      BY <1>1, <1>2
    <3>4. InChunk(list[i], a) <=> x <= a + HDR /\ a < x + y
      BY DEF InChunk
    <3> HIDE DEF x, y
    <3>5. x <= a + HDR /\ a < x + y <=>
            \/ x <= a + HDR /\ a < x + n
            \/ x + n + HDR <= a + HDR /\ a < x + n + HDR + (y - n - HDR)
      BY <3>3
    <3> QED BY <3>1, <3>2, <3>4, <3>5 DEF x, y
  <2>2. ASSUME Covered(list, a) PROVE Covered(s, a)
    <3>1. PICK j \in 1..L : InChunk(list[j], a)
      BY <1>1, <2>2 DEF Covered
    <3>2. i \in 1..(L + 1) /\ i + 1 \in 1..(L + 1) /\ j \in 1..(L + 1) /\ j + 1 \in 1..(L + 1)
      BY <1>1
    <3>3. CASE j = i
      <4>1. InChunk(s[i], a) \/ InChunk(s[i + 1], a)
        BY <1>6, <2>1, <3>1, <3>3
      <4> QED BY <1>8, <3>2, <4>1 DEF Covered
    <3>4. CASE j < i
      <4>1. s[j] = list[j]
        BY <1>6, <3>1, <3>4
      <4> QED BY <1>8, <3>1, <3>2, <4>1 DEF Covered
    <3>5. CASE j > i
      <4>1. s[j + 1] = list[j]
        BY <1>6, <3>1, <3>5
      <4> QED BY <1>8, <3>1, <3>2, <4>1 DEF Covered
    <3> QED BY <1>1, <3>2, <3>3, <3>4, <3>5
  <2>3. ASSUME Covered(s, a) PROVE Covered(list, a)
    BY <1>1, <1>7, <1>8, <2>1, <2>3 DEF Covered
  <2> QED BY <2>2, <2>3
<1>14. BlocksOf(s) = BlocksOf(list) \cup {[addr |-> list[i].addr, size |-> n]}
  <2>1. Block(front) = [addr |-> list[i].addr, size |-> n]
    BY <1>3 DEF Block
  <2>2. ASSUME NEW b \in BlocksOf(s)
        PROVE  b \in BlocksOf(list) \cup {Block(front)}
    <3>1. PICK j \in 1..(L + 1) : ~s[j].free /\ b = Block(s[j])
      BY <1>8, <2>2 DEF BlocksOf
    <3> QED BY <1>1, <1>4, <1>7, <3>1 DEF BlocksOf
  <2>3. ASSUME NEW b \in BlocksOf(list)
        PROVE  b \in BlocksOf(s)
    <3>1. PICK j \in 1..L : ~list[j].free /\ b = Block(list[j])
      BY <1>1, <2>3 DEF BlocksOf
    <3>2. j \in 1..(L + 1) /\ j + 1 \in 1..(L + 1) /\ j # i
      BY <1>1, <1>2, <3>1
    <3>3. CASE j < i
      BY <1>6, <1>8, <3>1, <3>2, <3>3 DEF BlocksOf
    <3>4. CASE j > i
      <4>1. s[j + 1] = list[j]
        BY <1>6, <3>1, <3>4
      <4> QED BY <1>8, <3>1, <3>2, <4>1 DEF BlocksOf
    <3> QED BY <1>1, <3>2, <3>3, <3>4
  <2>4. Block(front) \in BlocksOf(s)
    <3>1. i \in 1..(L + 1)
      BY <1>1
    <3> QED BY <1>3, <1>6, <1>8, <3>1 DEF BlocksOf
  <2> QED BY <2>1, <2>2, <2>3, <2>4
<1> QED BY <1>8, <1>11, <1>12, <1>13, <1>14 DEF Good, s, L

-----------------------------------------------------------------------------
(* chunk_glue()                                                            *)

LEMMA MergeKeeps ==
  ASSUME NEW top \in Nat, NEW list, Good(list, top),
         NEW k \in DOMAIN list, Mergeable(list, k)
  PROVE  /\ Good(Merge(list, k), top)
         /\ Len(Merge(list, k)) = Len(list) - 1
         /\ \A a \in Nat : Covered(Merge(list, k), a) <=> Covered(list, a)
         /\ BlocksOf(Merge(list, k)) = BlocksOf(list)
<1> DEFINE L == Len(list)
           m == Merge(list, k)
           one == [list[k] EXCEPT !.size = list[k].size + list[k + 1].size + HDR,
                                  !.holds = "zero"]
<1>1. /\ L \in Nat /\ DOMAIN list = 1..L /\ list \in [1..L -> Chunks]
      /\ HDR \in Nat \ {0}
  BY ListType, HeapAssumption DEF Good
<1>2. \A j \in 1..L : list[j].addr \in Nat /\ list[j].size \in Nat
  BY <1>1, ChunkType
<1>3. k \in 1..L /\ k + 1 \in 1..L /\ k \in 1..(L - 1)
  <2>1. k + 1 \in 1..L
    BY <1>1 DEF Mergeable
  <2> QED BY <1>1, <2>1
<1>4. /\ list[k].free /\ list[k + 1].free
      /\ list[k + 1].addr = list[k].addr + list[k].size + HDR
  BY DEF Mergeable
<1>5. /\ one \in Chunks /\ one.addr = list[k].addr /\ one.free /\ one.holds # "stale"
      /\ one.size = list[k].size + list[k + 1].size + HDR
  <2>1. list[k] \in Chunks
    BY <1>1, <1>3
  <2>2. list[k].size + list[k + 1].size + HDR \in Nat
    BY <1>1, <1>2, <1>3
  <2> QED BY <1>4, <2>1, <2>2 DEF Chunks, Contents
<1>6. m = [j \in 1..(L - 1) |-> CASE j < k -> list[j] [] j = k -> one
                                  [] OTHER -> list[j + 1]]
  BY DEF Merge
<1> HIDE DEF one, m, L
<1>7. \A j \in 1..(L - 1) :
        \/ j = k /\ m[j] = one
        \/ j < k /\ j \in 1..L /\ m[j] = list[j]
        \/ j > k /\ j + 1 \in 1..L /\ m[j] = list[j + 1]
  BY <1>1, <1>6
<1>8. m \in Seq(Chunks) /\ Len(m) = L - 1 /\ DOMAIN m = 1..(L - 1)
  <2>1. \A j \in 1..(L - 1) : m[j] \in Chunks
    BY <1>1, <1>5, <1>7
  <2>2. m \in [1..(L - 1) -> Chunks]
    BY <1>6, <2>1
  <2>3. L - 1 \in Nat
    BY <1>1, <1>3
  <2> QED BY <2>2, <2>3, MakeList
<1>9. Apart(m) /\ Below(m, top)
  <2>1. \A x, y \in 1..L : x < y => list[x].addr + list[x].size + HDR <= list[y].addr
    BY <1>1 DEF Good, Apart
  <2>2. \A x \in 1..L : HDR <= list[x].addr /\ list[x].addr + list[x].size <= top
    BY <1>1 DEF Good, Below
  <2>3. m[k].addr + m[k].size = list[k + 1].addr + list[k + 1].size
    <3>1. m[k] = one
      BY <1>3, <1>6
    <3>2. m[k].addr = list[k].addr /\ m[k].size = list[k].size + list[k + 1].size + HDR
      BY <1>5, <3>1
    <3> QED BY <1>1, <1>2, <1>3, <1>4, <3>2
  <2>4. m[k].addr = list[k].addr
    BY <1>3, <1>5, <1>6
  <2>5. ASSUME NEW i \in 1..(L - 1), NEW j \in 1..(L - 1), i < j
        PROVE  m[i].addr + m[i].size + HDR <= m[j].addr
    <3>1. CASE i = k
      <4>1. j + 1 \in 1..L /\ m[j] = list[j + 1]
        BY <1>1, <1>3, <1>7, <2>5, <3>1
      <4>2. list[k + 1].addr + list[k + 1].size + HDR <= list[j + 1].addr
        BY <1>1, <1>3, <2>1, <2>5, <3>1, <4>1
      <4> QED BY <2>3, <3>1, <4>1, <4>2
    <3>2. CASE i < k
      <4>1. i \in 1..L /\ m[i] = list[i]
        BY <1>1, <1>3, <1>7, <2>5, <3>2
      <4>2. CASE j < k
        <5>1. j \in 1..L /\ m[j] = list[j]
          BY <1>1, <1>3, <1>7, <2>5, <4>2
        <5> QED BY <2>1, <2>5, <4>1, <5>1
      <4>3. CASE j = k
        BY <1>3, <2>1, <2>4, <3>2, <4>1, <4>3
      <4>4. CASE j > k
        <5>1. j + 1 \in 1..L /\ m[j] = list[j + 1] /\ i < j + 1
          BY <1>1, <1>3, <1>7, <2>5, <4>4
        <5> QED BY <2>1, <4>1, <5>1
      <4> QED BY <1>3, <2>5, <4>2, <4>3, <4>4
    <3>3. CASE i > k
      <4>1. /\ i + 1 \in 1..L /\ m[i] = list[i + 1]
            /\ j + 1 \in 1..L /\ m[j] = list[j + 1] /\ i + 1 < j + 1
        BY <1>1, <1>3, <1>7, <2>5, <3>3
      <4> QED BY <2>1, <4>1
    <3> QED BY <1>3, <2>5, <3>1, <3>2, <3>3
  <2>6. ASSUME NEW j \in 1..(L - 1)
        PROVE  HDR <= m[j].addr /\ m[j].addr + m[j].size <= top
    <3>1. CASE j = k
      BY <1>3, <2>2, <2>3, <2>4, <3>1
    <3>2. CASE j # k
      BY <1>7, <2>2, <2>6, <3>2
    <3> QED BY <3>1, <3>2
  <2> QED BY <1>8, <2>5, <2>6 DEF Apart, Below
<1>10. \A j \in DOMAIN m : m[j].free => m[j].holds # "stale"
  BY <1>1, <1>5, <1>7, <1>8 DEF Good
<1>11. \A j \in 1..L :
         \/ j \in {k, k + 1}
         \/ j < k /\ j \in 1..(L - 1) /\ m[j] = list[j]
         \/ j > k + 1 /\ j - 1 \in 1..(L - 1) /\ m[j - 1] = list[j]
  BY <1>1, <1>3, <1>6
<1>12. \A a \in Nat : Covered(m, a) <=> Covered(list, a)
  <2> TAKE a \in Nat
  <2>1. InChunk(one, a) <=> InChunk(list[k], a) \/ InChunk(list[k + 1], a)
    <3> DEFINE x == list[k].addr
               y == list[k].size
               z == list[k + 1].size
    <3>1. x \in Nat /\ y \in Nat /\ z \in Nat /\ HDR \in Nat
      BY <1>1, <1>2, <1>3
    <3>2. /\ InChunk(one, a) <=> x <= a + HDR /\ a < x + (y + z + HDR)
          /\ InChunk(list[k], a) <=> x <= a + HDR /\ a < x + y
          /\ InChunk(list[k + 1], a) <=>
               x + y + HDR <= a + HDR /\ a < x + y + HDR + z
      BY <1>4, <1>5 DEF InChunk
    <3> HIDE DEF x, y, z
    <3>3. x <= a + HDR /\ a < x + (y + z + HDR) <=>
            \/ x <= a + HDR /\ a < x + y
            \/ x + y + HDR <= a + HDR /\ a < x + y + HDR + z
      BY <3>1
    <3> QED BY <3>2, <3>3
  <2>2. m[k] = one /\ k \in DOMAIN m
    BY <1>3, <1>6, <1>8
  <2>3. ASSUME Covered(list, a) PROVE Covered(m, a)
    <3>1. PICK j \in 1..L : InChunk(list[j], a)
      BY <1>1, <2>3 DEF Covered
    <3>2. CASE j \in {k, k + 1}
      BY <2>1, <2>2, <3>1, <3>2 DEF Covered
    <3>3. CASE j \notin {k, k + 1}
      BY <1>8, <1>11, <3>1, <3>3 DEF Covered
    <3> QED BY <3>2, <3>3
  <2>4. ASSUME Covered(m, a) PROVE Covered(list, a)
    <3>1. PICK j \in 1..(L - 1) : InChunk(m[j], a)
      BY <1>8, <2>4 DEF Covered
    <3>2. CASE j = k
      BY <1>1, <1>3, <2>1, <2>2, <3>1, <3>2 DEF Covered
    <3>3. CASE j # k
      BY <1>1, <1>7, <3>1, <3>3 DEF Covered
    <3> QED BY <3>2, <3>3
  <2> QED BY <2>3, <2>4
<1>13. BlocksOf(m) = BlocksOf(list)
  <2>1. ASSUME NEW b \in BlocksOf(m) PROVE b \in BlocksOf(list)
    <3>1. PICK j \in 1..(L - 1) : ~m[j].free /\ b = Block(m[j])
      BY <1>8, <2>1 DEF BlocksOf
    <3>2. j # k
      BY <1>5, <1>7, <3>1
    <3> QED BY <1>1, <1>7, <3>1, <3>2 DEF BlocksOf
  <2>2. ASSUME NEW b \in BlocksOf(list) PROVE b \in BlocksOf(m)
    <3>1. PICK j \in 1..L : ~list[j].free /\ b = Block(list[j])
      BY <1>1, <2>2 DEF BlocksOf
    <3>2. j \notin {k, k + 1}
      BY <1>4, <3>1
    <3>3. PICK i \in 1..(L - 1) : m[i] = list[j]
      BY <1>11, <3>2
    <3> QED BY <1>8, <3>1, <3>3 DEF BlocksOf
  <2> QED BY <2>1, <2>2
<1> QED BY <1>8, <1>9, <1>10, <1>12, <1>13 DEF Good, m, L

\* chunk_glue() keeps the list good, what it covers and the chunks in use.
LEMMA GlueKeeps ==
  ASSUME NEW top \in Nat, NEW list, Good(list, top),
         NEW glued, Glue(list, glued)
  PROVE  /\ Good(glued, top)
         /\ Len(glued) = Len(list) \/ Len(glued) = Len(list) - 1
         /\ \A a \in Nat : Covered(glued, a) <=> Covered(list, a)
         /\ BlocksOf(glued) = BlocksOf(list)
<1>1. CASE glued = list
  BY <1>1
<1>2. CASE \E k \in DOMAIN list : FirstPair(list, k) /\ glued = Merge(list, k)
  <2>1. PICK k \in DOMAIN list : Mergeable(list, k) /\ glued = Merge(list, k)
    BY <1>2 DEF FirstPair
  <2> QED BY <2>1, MergeKeeps
<1> QED BY <1>1, <1>2 DEF Glue

-----------------------------------------------------------------------------
(* Chunks that change hands, and pages that are appended                   *)

LEMMA FlagsKeep ==
  ASSUME NEW top \in Nat, NEW list, Good(list, top),
         NEW i \in DOMAIN list, NEW c \in Chunks,
         c.addr = list[i].addr, c.size = list[i].size, c.free => c.holds # "stale"
  PROVE  /\ Good([list EXCEPT ![i] = c], top)
         /\ \A a \in Nat : Covered([list EXCEPT ![i] = c], a) <=> Covered(list, a)
         /\ c.free => BlocksOf([list EXCEPT ![i] = c]) = BlocksOf(list) \ {Block(list[i])}
         /\ ~c.free => BlocksOf([list EXCEPT ![i] = c]) = BlocksOf(list) \cup {Block(list[i])}
<1> DEFINE L == Len(list)
           g == [list EXCEPT ![i] = c]
<1>1. /\ L \in Nat /\ DOMAIN list = 1..L /\ list \in [1..L -> Chunks]
      /\ HDR \in Nat \ {0} /\ i \in 1..L
  BY ListType, HeapAssumption DEF Good
<1>2. \A j \in 1..L : list[j].addr \in Nat /\ list[j].size \in Nat
  BY <1>1, ChunkType
<1>3. \A j \in 1..L : g[j] = IF j = i THEN c ELSE list[j]
  BY <1>1
<1>4. g \in Seq(Chunks) /\ Len(g) = L /\ DOMAIN g = 1..L
  <2>1. g \in [1..L -> Chunks]
    BY <1>1
  <2> QED BY <1>1, <2>1, MakeList
<1> HIDE DEF L, g
<1>5. \A j \in 1..L : g[j].addr = list[j].addr /\ g[j].size = list[j].size
  BY <1>3
<1>6. Apart(g) /\ Below(g, top)
  BY <1>1, <1>4, <1>5 DEF Good, Apart, Below
<1>7. \A j \in DOMAIN g : g[j].free => g[j].holds # "stale"
  BY <1>1, <1>3, <1>4 DEF Good
<1>8. \A a \in Nat : Covered(g, a) <=> Covered(list, a)
  BY <1>1, <1>4, <1>5 DEF Covered, InChunk
<1>9. \A j \in 1..L : Block(g[j]) = Block(list[j])
  BY <1>5 DEF Block
<1>10. \A j \in 1..L : Block(list[j]) = Block(list[i]) => j = i
  <2> SUFFICES ASSUME NEW j \in 1..L, j # i PROVE list[j].addr # list[i].addr
    BY DEF Block
  <2>1. \A x, y \in 1..L : x < y => list[x].addr + list[x].size + HDR <= list[y].addr
    BY <1>1 DEF Good, Apart
  <2>2. /\ list[i].addr \in Nat /\ list[i].size \in Nat
        /\ list[j].addr \in Nat /\ list[j].size \in Nat
    BY <1>1, <1>2
  <2>3. CASE j < i
    BY <1>1, <2>1, <2>2, <2>3
  <2>4. CASE i < j
    BY <1>1, <2>1, <2>2, <2>4
  <2> QED BY <1>1, <2>3, <2>4
<1>11. \A b : b \in BlocksOf(g) <=> \E j \in 1..L : ~g[j].free /\ b = Block(g[j])
  BY <1>4 DEF BlocksOf
<1>12. \A b : b \in BlocksOf(list) <=> \E j \in 1..L : ~list[j].free /\ b = Block(list[j])
  BY <1>1 DEF BlocksOf
<1>13. ASSUME c.free PROVE BlocksOf(g) = BlocksOf(list) \ {Block(list[i])}
  BY <1>1, <1>3, <1>9, <1>10, <1>11, <1>12, <1>13
<1>14. ASSUME ~c.free PROVE BlocksOf(g) = BlocksOf(list) \cup {Block(list[i])}
  BY <1>1, <1>3, <1>9, <1>11, <1>12, <1>14
<1> QED BY <1>4, <1>6, <1>7, <1>8, <1>13, <1>14 DEF Good, g

LEMMA NewChunkType ==
  ASSUME NEW p \in Nat
  PROVE  /\ NewChunk(p) \in Chunks
         /\ NewChunk(p).addr = p + HDR /\ NewChunk(p).size = PGSIZE - HDR
         /\ NewChunk(p).free /\ NewChunk(p).holds # "stale"
         /\ PGSIZE \in Nat /\ HDR \in Nat \ {0} /\ PGSIZE - HDR \in Nat
         /\ p + PGSIZE \in Nat
<1>1. PGSIZE \in Nat /\ HDR \in Nat \ {0} /\ PGSIZE - HDR \in Nat /\ p + HDR \in Nat
  BY HeapAssumption
<1> QED BY <1>1 DEF Contents, NewChunk, Chunks

LEMMA AppendKeeps ==
  ASSUME NEW p \in Nat, NEW list, Good(list, p)
  PROVE  /\ Good(Append(list, NewChunk(p)), p + PGSIZE)
         /\ \A a \in Nat : Covered(Append(list, NewChunk(p)), a) <=>
              Covered(list, a) \/ (p <= a /\ a < p + PGSIZE)
         /\ BlocksOf(Append(list, NewChunk(p))) = BlocksOf(list)
<1> DEFINE L == Len(list)
           g == Append(list, NewChunk(p))
           c == NewChunk(p)
<1>1. /\ L \in Nat /\ DOMAIN list = 1..L /\ list \in [1..L -> Chunks]
      /\ list \in Seq(Chunks)
  BY ListType DEF Good
<1>2. /\ c \in Chunks /\ c.addr = p + HDR /\ c.size = PGSIZE - HDR
      /\ PGSIZE \in Nat /\ HDR \in Nat \ {0} /\ PGSIZE - HDR \in Nat
  BY NewChunkType
<1>3. c.free /\ c.holds # "stale"
  BY NewChunkType
<1>4. \A j \in 1..L : list[j].addr \in Nat /\ list[j].size \in Nat
  BY <1>1, ChunkType
<1> HIDE DEF c
<1>5. g \in Seq(Chunks) /\ Len(g) = L + 1 /\ DOMAIN g = 1..(L + 1)
  BY <1>1, <1>2 DEF c
<1>6. g[L + 1] = c /\ \A j \in 1..L : g[j] = list[j]
  BY <1>1, <1>2 DEF c
<1>7. \A j \in 1..(L + 1) : j = L + 1 \/ j \in 1..L
  BY <1>1
<1>8. L + 1 \in 1..(L + 1) /\ \A j \in 1..L : j \in 1..(L + 1)
  BY <1>1
<1> HIDE DEF g, L
<1>9. Apart(g) /\ Below(g, p + PGSIZE)
  <2>1. \A x, y \in 1..L : x < y => list[x].addr + list[x].size + HDR <= list[y].addr
    BY <1>1 DEF Good, Apart
  <2>2. \A x \in 1..L : HDR <= list[x].addr /\ list[x].addr + list[x].size <= p
    BY <1>1 DEF Good, Below
  <2>3. ASSUME NEW i \in 1..(L + 1), NEW j \in 1..(L + 1), i < j
        PROVE  g[i].addr + g[i].size + HDR <= g[j].addr
    <3>1. i \in 1..L
      BY <1>1, <2>3
    <3>2. CASE j = L + 1
      <4>1. g[j].addr = p + HDR /\ g[i] = list[i]
        BY <1>2, <1>6, <3>1, <3>2
      <4>2. list[i].addr + list[i].size <= p
        BY <2>2, <3>1
      <4>3. list[i].addr \in Nat /\ list[i].size \in Nat
        BY <1>4, <3>1
      <4> QED BY <1>2, <4>1, <4>2, <4>3
    <3>3. CASE j \in 1..L
      BY <1>6, <2>1, <2>3, <3>1, <3>3
    <3> QED BY <1>7, <3>2, <3>3
  <2>4. ASSUME NEW j \in 1..(L + 1)
        PROVE  HDR <= g[j].addr /\ g[j].addr + g[j].size <= p + PGSIZE
    <3>1. CASE j = L + 1
      <4>1. g[j].addr = p + HDR /\ g[j].size = PGSIZE - HDR
        BY <1>2, <1>6, <3>1
      <4> QED BY <1>2, <4>1
    <3>2. CASE j \in 1..L
      <4>1. /\ g[j] = list[j] /\ HDR <= list[j].addr
            /\ list[j].addr + list[j].size <= p
            /\ list[j].addr \in Nat /\ list[j].size \in Nat
        BY <1>4, <1>6, <2>2, <3>2
      <4> QED BY <1>2, <4>1
    <3> QED BY <1>7, <3>1, <3>2
  <2> QED BY <1>5, <2>3, <2>4 DEF Apart, Below
<1>10. \A j \in DOMAIN g : g[j].free => g[j].holds # "stale"
  BY <1>1, <1>3, <1>5, <1>6, <1>7 DEF Good
<1>11. \A a \in Nat : Covered(g, a) <=> Covered(list, a) \/ (p <= a /\ a < p + PGSIZE)
  <2> TAKE a \in Nat
  <2>1. InChunk(c, a) <=> p <= a /\ a < p + PGSIZE
    <3>1. InChunk(c, a) <=> p + HDR <= a + HDR /\ a < p + HDR + (PGSIZE - HDR)
      BY <1>2 DEF InChunk
    <3> QED BY <1>2, <3>1
  <2>2. Covered(g, a) <=> \E j \in 1..(L + 1) : InChunk(g[j], a)
    BY <1>5 DEF Covered
  <2>3. Covered(list, a) <=> \E j \in 1..L : InChunk(list[j], a)
    BY <1>1 DEF Covered
  <2> QED BY <1>6, <1>7, <1>8, <2>1, <2>2, <2>3
<1>12. BlocksOf(g) = BlocksOf(list)
  <2>1. \A b : b \in BlocksOf(g) <=> \E j \in 1..(L + 1) : ~g[j].free /\ b = Block(g[j])
    BY <1>5 DEF BlocksOf
  <2>2. \A b : b \in BlocksOf(list) <=> \E j \in 1..L : ~list[j].free /\ b = Block(list[j])
    BY <1>1 DEF BlocksOf
  <2> QED BY <1>3, <1>6, <1>7, <1>8, <2>1, <2>2
<1>13. p + PGSIZE \in Nat
  BY <1>2
<1> QED BY <1>5, <1>9, <1>10, <1>11, <1>12 DEF Good, g

LEMMA EmptyGood ==
  ASSUME NEW top \in Nat
  PROVE  /\ Good(<< >>, top) /\ BlocksOf(<< >>) = {}
         /\ \A a \in Nat : ~Covered(<< >>, a)
<1>1. << >> \in Seq(Chunks) /\ DOMAIN << >> = {}
  OBVIOUS
<1> QED BY <1>1 DEF Good, Apart, Below, BlocksOf, Covered

-----------------------------------------------------------------------------
(* The invariant                                                           *)

LEMMA InvGood ==
  ASSUME HeapInv
  PROVE  /\ Good(kmem_list, nextpage) /\ nextpage \in Nat
         /\ Len(kmem_list) \in Nat /\ Nodes = 1..Len(kmem_list)
         /\ \A i \in Nodes : kmem_list[i] \in Chunks
<1>1. kmem_list \in Seq(Chunks) /\ nextpage \in Nat
  BY DEF HeapInv, TypeOK
<1>2. Good(kmem_list, nextpage)
  BY <1>1 DEF HeapInv, Tiling, NoLeftovers, Nodes, Good
<1> QED BY <1>1, <1>2, ListType DEF Nodes

\* What a step has to keep for the invariant: pages may be appended, and nothing
\* else changes what the list covers.
LEMMA InvKept ==
  ASSUME HeapInv,
         nextpage' \in Nat, nextpage <= nextpage', nextpage' <= LIMIT,
         Good(kmem_list', nextpage'),
         \/ /\ taken' = taken
            /\ \A a \in Nat : Covered(kmem_list', a) <=> Covered(kmem_list, a)
         \/ /\ taken' = taken \cup {nextpage} /\ nextpage' = nextpage + PGSIZE
            /\ \A a \in Nat : Covered(kmem_list', a) <=>
                 Covered(kmem_list, a) \/ (nextpage <= a /\ a < nextpage + PGSIZE),
         want' \in Sizes \cup {0}, block' \in 0..Len(kmem_list'),
         want' = 0 => block' = 0,
         fault' \in {"none", "chunk_split", "kvm_alloc_page"}
  PROVE  HeapInv'
<1>1. /\ PGSIZE \in Nat /\ LIMIT \in Nat /\ nextpage \in Nat
      /\ taken \subseteq Nat /\ \A p \in taken : p + PGSIZE <= nextpage
  BY HeapAssumption DEF HeapInv, TypeOK
<1>2. TypeOK'
  <2>1. kmem_list' \in Seq(Chunks)
    BY DEF Good
  <2>2. taken' \subseteq Nat
    BY <1>1
  <2> QED BY <2>1, <2>2 DEF TypeOK
<1>3. \A p \in taken' : p + PGSIZE <= nextpage'
  <2> TAKE p \in taken'
  <2>1. CASE p \in taken
    BY <1>1, <2>1
  <2>2. CASE p \notin taken
    BY <1>1, <2>2
  <2> QED BY <2>1, <2>2
<1>4. \A a \in 0..LIMIT : InHeap(a)' <=> Covered(kmem_list', a)
  <2> TAKE a \in 0..LIMIT
  <2>1. a \in Nat /\ (InHeap(a) <=> Covered(kmem_list, a))
    BY <1>1 DEF HeapInv, Tiling
  <2>2. CASE taken' = taken
    <3>1. InHeap(a)' <=> InHeap(a)
      BY <2>2 DEF InHeap
    <3>2. CASE \A x \in Nat : Covered(kmem_list', x) <=> Covered(kmem_list, x)
      BY <2>1, <3>1, <3>2
    <3>3. CASE /\ taken' = taken \cup {nextpage}
               /\ \A x \in Nat : Covered(kmem_list', x) <=>
                    Covered(kmem_list, x) \/ (nextpage <= x /\ x < nextpage + PGSIZE)
      <4>1. InHeap(a) \/ ~(nextpage <= a /\ a < nextpage + PGSIZE)
        BY <2>2, <3>3 DEF InHeap
      <4> QED BY <2>1, <3>1, <3>3, <4>1
    <3> QED BY <3>2, <3>3
  <2>3. CASE /\ taken' = taken \cup {nextpage}
             /\ \A x \in Nat : Covered(kmem_list', x) <=>
                  Covered(kmem_list, x) \/ (nextpage <= x /\ x < nextpage + PGSIZE)
    <3>1. InHeap(a)' <=> InHeap(a) \/ (nextpage <= a /\ a < nextpage + PGSIZE)
      BY <2>3 DEF InHeap
    <3> QED BY <2>1, <2>3, <3>1
  <2> QED BY <2>2, <2>3
<1>5. (Apart(kmem_list) /\ Below(kmem_list, nextpage) /\ NoLeftovers)'
  BY DEF Good, NoLeftovers, Nodes
<1> QED BY <1>2, <1>3, <1>4, <1>5 DEF HeapInv, Tiling

LEMMA UsedType ==
  ASSUME NEW c \in Chunks
  PROVE  /\ Used(c) \in Chunks /\ Used(c).addr = c.addr /\ Used(c).size = c.size
         /\ ~Used(c).free
BY DEF Contents, Used, Chunks

LEMMA FreedType ==
  ASSUME NEW c \in Chunks
  PROVE  /\ Freed(c) \in Chunks /\ Freed(c).addr = c.addr /\ Freed(c).size = c.size
         /\ Freed(c).free /\ Freed(c).holds # "stale"
BY DEF Contents, Freed, Chunks

\* What one step of kmalloc() does to the list.
LEMMA GrowKeeps ==
  ASSUME HeapInv, Grow
  PROVE  /\ Good(kmem_list', nextpage')
         /\ nextpage' = nextpage + PGSIZE /\ nextpage' <= LIMIT
         /\ nextpage' \in Nat /\ nextpage <= nextpage'
         /\ \A a \in Nat : Covered(kmem_list', a) <=>
              Covered(kmem_list, a) \/ (nextpage <= a /\ a < nextpage + PGSIZE)
         /\ BlocksOf(kmem_list') = BlocksOf(kmem_list)
         /\ block' \in 0..Len(kmem_list')
<1> DEFINE grown == Append(kmem_list, NewChunk(nextpage))
<1>1. /\ nextpage' = nextpage + PGSIZE /\ nextpage' <= LIMIT
      /\ nextpage \in Nat /\ PGSIZE \in Nat /\ nextpage' \in Nat
  BY InvGood, HeapAssumption DEF Grow, KvmAllocPage, PageLeft
<1>2. Glue(grown, kmem_list') /\ block' = Follow(grown, block)
  BY DEF Grow
<1>3. /\ Good(kmem_list, nextpage) /\ kmem_list \in Seq(Chunks)
      /\ block = Len(kmem_list) /\ block # 0 /\ block \in Nat
  BY InvGood DEF Grow, HeapInv, TypeOK
<1>4. /\ Good(grown, nextpage')
      /\ \A a \in Nat : Covered(grown, a) <=>
           Covered(kmem_list, a) \/ (nextpage <= a /\ a < nextpage + PGSIZE)
      /\ BlocksOf(grown) = BlocksOf(kmem_list)
  BY <1>1, <1>3, AppendKeeps
<1>5. Len(grown) = block + 1
  BY <1>1, <1>3, NewChunkType
<1> HIDE DEF grown
<1>6. /\ Good(kmem_list', nextpage')
      /\ Len(kmem_list') = Len(grown) \/ Len(kmem_list') = Len(grown) - 1
      /\ \A a \in Nat : Covered(kmem_list', a) <=> Covered(grown, a)
      /\ BlocksOf(kmem_list') = BlocksOf(grown)
  BY <1>1, <1>2, <1>4, GlueKeeps
<1>7. block' = 0 \/ block' = block - 1 \/ block' = block
  BY <1>2 DEF Follow
<1>8. block' \in 0..Len(kmem_list')
  BY <1>3, <1>5, <1>6, <1>7
<1> QED BY <1>1, <1>4, <1>6, <1>8

LEMMA FirstPage ==
  ASSUME HeapInv, NEW n \in Sizes, Kmalloc(n)
  PROVE  \/ UNCHANGED <<kmem_list, nextpage, taken>>
         \/ /\ Good(kmem_list', nextpage')
            /\ nextpage' = nextpage + PGSIZE /\ nextpage' <= LIMIT
            /\ nextpage' \in Nat /\ nextpage <= nextpage'
            /\ taken' = taken \cup {nextpage}
            /\ \A a \in Nat : Covered(kmem_list', a) <=>
                 Covered(kmem_list, a) \/ (nextpage <= a /\ a < nextpage + PGSIZE)
            /\ BlocksOf(kmem_list') = BlocksOf(kmem_list)
            /\ Len(kmem_list') = 1
<1> SUFFICES ASSUME kmem_list = << >>, KvmAllocPage,
                    kmem_list' = <<NewChunk(nextpage)>>,
                    taken' = taken \cup {nextpage}
             PROVE  /\ Good(kmem_list', nextpage')
                    /\ nextpage' = nextpage + PGSIZE /\ nextpage' <= LIMIT
                    /\ nextpage' \in Nat /\ nextpage <= nextpage'
                    /\ \A a \in Nat : Covered(kmem_list', a) <=>
                         Covered(kmem_list, a) \/ (nextpage <= a /\ a < nextpage + PGSIZE)
                    /\ BlocksOf(kmem_list') = BlocksOf(kmem_list)
                    /\ Len(kmem_list') = 1
  BY DEF Kmalloc
<1>1. /\ nextpage' = nextpage + PGSIZE /\ nextpage' <= LIMIT
      /\ nextpage \in Nat /\ PGSIZE \in Nat /\ nextpage' \in Nat
  BY InvGood, HeapAssumption DEF KvmAllocPage, PageLeft
<1>2. kmem_list' = Append(kmem_list, NewChunk(nextpage)) /\ Len(kmem_list') = 1
  BY <1>1, NewChunkType
<1>3. /\ Good(Append(kmem_list, NewChunk(nextpage)), nextpage + PGSIZE)
      /\ \A a \in Nat : Covered(Append(kmem_list, NewChunk(nextpage)), a) <=>
           Covered(kmem_list, a) \/ (nextpage <= a /\ a < nextpage + PGSIZE)
      /\ BlocksOf(Append(kmem_list, NewChunk(nextpage))) = BlocksOf(kmem_list)
  BY <1>1, InvGood, AppendKeeps
<1>4. nextpage <= nextpage'
  BY <1>1
<1> QED BY <1>1, <1>2, <1>3, <1>4

\* kmfree() frees the chunk whose address it is given and no other.
LEMMA KmfreeKeeps ==
  ASSUME HeapInv, NEW i \in Held, Kmfree(kmem_list[i].addr)
  PROVE  /\ Good(kmem_list', nextpage)
         /\ \A a \in Nat : Covered(kmem_list', a) <=> Covered(kmem_list, a)
         /\ BlocksOf(kmem_list') = BlocksOf(kmem_list) \ {Block(kmem_list[i])}
<1>1. /\ Good(kmem_list, nextpage) /\ nextpage \in Nat
      /\ Nodes = 1..Len(kmem_list) /\ Len(kmem_list) \in Nat
      /\ \A j \in Nodes : kmem_list[j] \in Chunks
  BY InvGood
<1>2. PICK m \in Nodes :
        /\ Covers(m, kmem_list[i].addr)
        /\ Glue([kmem_list EXCEPT ![m] = Freed(kmem_list[m])], kmem_list')
  BY DEF Kmfree
<1>3. i \in Nodes
  BY DEF Held
<1>4. m = i
  <2>1. /\ kmem_list[m].addr \in Nat /\ kmem_list[m].size \in Nat
        /\ kmem_list[i].addr \in Nat /\ kmem_list[i].size \in Nat
        /\ HDR \in Nat \ {0}
    BY <1>1, <1>3, ChunkType, HeapAssumption
  <2>2. /\ kmem_list[m].addr <= kmem_list[i].addr
        /\ kmem_list[i].addr < kmem_list[m].addr + kmem_list[m].size
    BY <1>2 DEF Covers
  <2>3. /\ m < i => kmem_list[m].addr + kmem_list[m].size + HDR <= kmem_list[i].addr
        /\ i < m => kmem_list[i].addr + kmem_list[i].size + HDR <= kmem_list[m].addr
    BY <1>1, <1>3 DEF Good, Apart, Nodes
  <2>4. ~(m < i)
    BY <2>1, <2>2, <2>3
  <2>5. ~(i < m)
    BY <2>1, <2>2, <2>3
  <2> QED BY <1>1, <1>3, <2>4, <2>5
<1>5. /\ Freed(kmem_list[i]) \in Chunks
      /\ Freed(kmem_list[i]).addr = kmem_list[i].addr
      /\ Freed(kmem_list[i]).size = kmem_list[i].size
      /\ Freed(kmem_list[i]).free /\ Freed(kmem_list[i]).holds # "stale"
  BY <1>1, <1>3, FreedType
<1> DEFINE list == [kmem_list EXCEPT ![i] = Freed(kmem_list[i])]
<1>6. /\ Good(list, nextpage)
      /\ \A a \in Nat : Covered(list, a) <=> Covered(kmem_list, a)
      /\ BlocksOf(list) = BlocksOf(kmem_list) \ {Block(kmem_list[i])}
  <2>1. Good(kmem_list, nextpage) /\ nextpage \in Nat /\ i \in DOMAIN kmem_list
    BY <1>1, <1>3 DEF Nodes
  <2> DEFINE c == Freed(kmem_list[i])
  <2>2. /\ c \in Chunks /\ c.addr = kmem_list[i].addr
        /\ c.size = kmem_list[i].size /\ c.free /\ c.holds # "stale"
    BY <1>5
  <2> HIDE DEF c
  <2>3. /\ Good([kmem_list EXCEPT ![i] = c], nextpage)
        /\ \A a \in Nat :
             Covered([kmem_list EXCEPT ![i] = c], a) <=> Covered(kmem_list, a)
        /\ c.free => BlocksOf([kmem_list EXCEPT ![i] = c]) =
                       BlocksOf(kmem_list) \ {Block(kmem_list[i])}
    BY <2>1, <2>2, FlagsKeep
  <2> QED BY <2>2, <2>3 DEF c
<1>7. Glue(list, kmem_list')
  BY <1>2, <1>4
<1> HIDE DEF list
<1> QED BY <1>1, <1>6, <1>7, GlueKeeps

LEMMA SplitChunkKeeps ==
  ASSUME HeapInv, SplitChunk
  PROVE  /\ Good(kmem_list', nextpage)
         /\ Len(kmem_list') \in Nat
         /\ \A a \in Nat : Covered(kmem_list', a) <=> Covered(kmem_list, a)
         /\ BlocksOf(kmem_list') =
              BlocksOf(kmem_list) \cup {[addr |-> Here.addr, size |-> want]}
         /\ block \in Nodes /\ want \in Sizes /\ want <= Here.size
<1>1. /\ Good(kmem_list, nextpage) /\ nextpage \in Nat
      /\ Nodes = 1..Len(kmem_list) /\ Len(kmem_list) \in Nat
      /\ \A j \in Nodes : kmem_list[j] \in Chunks
  BY InvGood
<1>2. block \in Nodes /\ want \in Sizes /\ want \in Nat
  <2>1. block \in 0..Len(kmem_list) /\ block # 0 /\ want \in Sizes \cup {0} /\ want # 0
    BY DEF SplitChunk, Searching, HeapInv, TypeOK
  <2> QED BY <1>1, <2>1, HeapAssumption
<1>3. /\ kmem_list[block].free /\ kmem_list[block].size > want + HDR
      /\ kmem_list' = Split(kmem_list, block, want)
  BY DEF SplitChunk, Here
<1>4. want <= kmem_list[block].size
  <2>1. kmem_list[block].size \in Nat /\ HDR \in Nat
    BY <1>1, <1>2, ChunkType, HeapAssumption
  <2> QED BY <1>2, <1>3, <2>1
<1>5. /\ Good(Split(kmem_list, block, want), nextpage)
      /\ Len(Split(kmem_list, block, want)) = Len(kmem_list) + 1
      /\ \A a \in Nat : Covered(Split(kmem_list, block, want), a) <=> Covered(kmem_list, a)
      /\ BlocksOf(Split(kmem_list, block, want)) =
           BlocksOf(kmem_list) \cup {[addr |-> kmem_list[block].addr, size |-> want]}
  <2>1. block \in DOMAIN kmem_list
    BY <1>2 DEF Nodes
  <2> QED BY <1>1, <1>2, <1>3, <2>1, SplitKeeps
<1>6. Len(kmem_list) + 1 \in Nat
  BY <1>1
<1> QED BY <1>2, <1>3, <1>4, <1>5, <1>6 DEF Here

LEMMA TakeWholeKeeps ==
  ASSUME HeapInv, TakeWhole
  PROVE  /\ Good(kmem_list', nextpage)
         /\ Len(kmem_list') \in Nat
         /\ \A a \in Nat : Covered(kmem_list', a) <=> Covered(kmem_list, a)
         /\ BlocksOf(kmem_list') =
              BlocksOf(kmem_list) \cup {[addr |-> Here.addr, size |-> want]}
         /\ block \in Nodes /\ want \in Sizes /\ want <= Here.size
<1>1. /\ Good(kmem_list, nextpage) /\ nextpage \in Nat
      /\ Nodes = 1..Len(kmem_list) /\ Len(kmem_list) \in Nat
      /\ \A j \in Nodes : kmem_list[j] \in Chunks
  BY InvGood
<1>2. block \in Nodes /\ want \in Sizes
  <2>1. block \in 0..Len(kmem_list) /\ block # 0 /\ want \in Sizes \cup {0} /\ want # 0
    BY DEF TakeWhole, Searching, HeapInv, TypeOK
  <2> QED BY <1>1, <2>1
<1>3. /\ kmem_list[block].size = want
      /\ kmem_list' = [kmem_list EXCEPT ![block] = Used(kmem_list[block])]
  BY DEF TakeWhole, Here
<1>4. want <= kmem_list[block].size
  <2>1. kmem_list[block].size \in Nat
    BY <1>1, <1>2, ChunkType
  <2> QED BY <1>3, <2>1
<1>5. /\ Used(kmem_list[block]) \in Chunks
      /\ Used(kmem_list[block]).addr = kmem_list[block].addr
      /\ Used(kmem_list[block]).size = kmem_list[block].size
      /\ ~Used(kmem_list[block]).free
  BY <1>1, <1>2, UsedType
<1> DEFINE list == [kmem_list EXCEPT ![block] = Used(kmem_list[block])]
<1>6. /\ Good(list, nextpage)
      /\ \A a \in Nat : Covered(list, a) <=> Covered(kmem_list, a)
      /\ BlocksOf(list) = BlocksOf(kmem_list) \cup {Block(kmem_list[block])}
  <2>0. Good(kmem_list, nextpage) /\ nextpage \in Nat
    BY <1>1
  <2>1. block \in DOMAIN kmem_list
    BY <1>2 DEF Nodes
  <2> DEFINE c == Used(kmem_list[block])
  <2>2. /\ c \in Chunks /\ c.addr = kmem_list[block].addr
        /\ c.size = kmem_list[block].size /\ ~c.free
    BY <1>5
  <2>3. c.free => c.holds # "stale"
    BY <2>2
  <2> HIDE DEF c
  <2>4. /\ Good([kmem_list EXCEPT ![block] = c], nextpage)
        /\ \A a \in Nat :
             Covered([kmem_list EXCEPT ![block] = c], a) <=> Covered(kmem_list, a)
        /\ ~c.free => BlocksOf([kmem_list EXCEPT ![block] = c]) =
                        BlocksOf(kmem_list) \cup {Block(kmem_list[block])}
    BY <2>0, <2>1, <2>2, <2>3, FlagsKeep
  <2> QED BY <2>2, <2>4 DEF c
<1>7. Len(list) \in Nat
  BY <1>6, ListType DEF Good
<1> HIDE DEF list
<1>8. kmem_list' = list
  BY <1>3 DEF list
<1> QED BY <1>2, <1>3, <1>4, <1>6, <1>7, <1>8 DEF Block, Here

LEMMA HeapInvInit == Init => HeapInv
<1> SUFFICES ASSUME Init PROVE HeapInv
  OBVIOUS
<1>1. /\ Good(kmem_list, 0) /\ \A a \in Nat : ~Covered(kmem_list, a)
      /\ kmem_list = << >>
  BY EmptyGood DEF Init
<1>2. LIMIT \in Nat
  BY HeapAssumption
<1>3. TypeOK
  <2>1. kmem_list \in Seq(Chunks) /\ Len(kmem_list) = 0
    BY <1>1 DEF Good
  <2> QED BY <2>1 DEF Init, TypeOK
<1>4. Tiling
  BY <1>1, <1>2 DEF Init, Tiling, Good, InHeap
<1>5. NoLeftovers /\ Below(kmem_list, nextpage)
  BY <1>1 DEF Init, NoLeftovers, Nodes, Good
<1> QED BY <1>2, <1>3, <1>4, <1>5 DEF Init, HeapInv

LEMMA HeapInvNext == HeapInv /\ [Next]_vars => HeapInv'
<1> SUFFICES ASSUME HeapInv, [Next]_vars PROVE HeapInv'
  OBVIOUS
<1>1. /\ Good(kmem_list, nextpage) /\ nextpage \in Nat
      /\ Len(kmem_list) \in Nat /\ Nodes = 1..Len(kmem_list)
  BY InvGood
<1>2. /\ nextpage <= LIMIT /\ want \in Sizes \cup {0} /\ block \in 0..Len(kmem_list)
      /\ fault \in {"none", "chunk_split", "kvm_alloc_page"}
      /\ want = 0 => block = 0
      /\ PGSIZE \in Nat /\ 0 \notin Sizes
  BY HeapAssumption DEF HeapInv, TypeOK
<1>3. nextpage <= nextpage
  BY <1>1
<1>4. ASSUME NEW n \in Sizes, Kmalloc(n) PROVE HeapInv'
  <2>1. want' \in Sizes /\ want' # 0 /\ block' = 1 /\ fault' = fault
    BY <1>2, <1>4 DEF Kmalloc
  <2>2. CASE UNCHANGED <<kmem_list, nextpage, taken>> /\ kmem_list # << >>
    <3>1. Len(kmem_list) # 0
      BY <2>2 DEF HeapInv, TypeOK
    <3>2. block' \in 0..Len(kmem_list')
      BY <1>1, <2>1, <2>2, <3>1
    <3> QED BY <1>1, <1>2, <1>3, <2>1, <2>2, <3>2, InvKept
  <2>3. CASE kmem_list' # kmem_list
    <3>1. /\ Good(kmem_list', nextpage')
          /\ nextpage' = nextpage + PGSIZE /\ nextpage' <= LIMIT
          /\ nextpage' \in Nat /\ nextpage <= nextpage'
          /\ taken' = taken \cup {nextpage}
          /\ \A a \in Nat : Covered(kmem_list', a) <=>
               Covered(kmem_list, a) \/ (nextpage <= a /\ a < nextpage + PGSIZE)
          /\ Len(kmem_list') = 1
      BY <1>4, <2>3, FirstPage
    <3>2. block' \in 0..Len(kmem_list')
      BY <2>1, <3>1
    <3> QED BY <1>2, <2>1, <3>1, <3>2, InvKept
  <2>4. \/ UNCHANGED <<kmem_list, nextpage, taken>> /\ kmem_list # << >>
        \/ kmem_list' # kmem_list
    <3>1. << >> # <<NewChunk(nextpage)>>
      OBVIOUS
    <3> QED BY <1>4, <3>1 DEF Kmalloc
  <2> QED BY <2>2, <2>3, <2>4
<1>5. ASSUME Skip PROVE HeapInv'
  <2>1. block' \in 0..Len(kmem_list)
    BY <1>1, <1>2, <1>5 DEF Skip
  <2>2. UNCHANGED <<kmem_list, nextpage, taken, want, fault>> /\ want # 0
    BY <1>5 DEF Skip, Searching
  <2> QED BY <1>1, <1>2, <1>3, <2>1, <2>2, InvKept
<1>6. ASSUME SplitChunk PROVE HeapInv'
  <2>1. want' = 0 /\ block' = 0 /\ UNCHANGED <<nextpage, taken, fault>>
    BY <1>6 DEF SplitChunk
  <2>2. /\ Good(kmem_list', nextpage) /\ Len(kmem_list') \in Nat
        /\ \A a \in Nat : Covered(kmem_list', a) <=> Covered(kmem_list, a)
    BY <1>6, SplitChunkKeeps
  <2>3. block' \in 0..Len(kmem_list')
    BY <2>1, <2>2
  <2> QED BY <1>1, <1>2, <1>3, <2>1, <2>2, <2>3, InvKept
<1>7. ASSUME TakeWhole PROVE HeapInv'
  <2>1. want' = 0 /\ block' = 0 /\ UNCHANGED <<nextpage, taken, fault>>
    BY <1>7 DEF TakeWhole
  <2>2. /\ Good(kmem_list', nextpage) /\ Len(kmem_list') \in Nat
        /\ \A a \in Nat : Covered(kmem_list', a) <=> Covered(kmem_list, a)
    BY <1>7, TakeWholeKeeps
  <2>3. block' \in 0..Len(kmem_list')
    BY <2>1, <2>2
  <2> QED BY <1>1, <1>2, <1>3, <2>1, <2>2, <2>3, InvKept
<1>8. ASSUME Grow PROVE HeapInv'
  <2>1. UNCHANGED <<want, fault>> /\ want # 0 /\ taken' = taken \cup {nextpage}
    BY <1>8 DEF Grow, Searching
  <2> QED BY <1>2, <1>8, <2>1, GrowKeeps, InvKept
<1>9. ASSUME ReturnNull PROVE HeapInv'
  <2>1. want' = 0 /\ block' = 0 /\ UNCHANGED <<kmem_list, nextpage, taken, fault>>
    BY <1>9 DEF ReturnNull
  <2>2. block' \in 0..Len(kmem_list')
    BY <1>1, <2>1
  <2> QED BY <1>1, <1>2, <1>3, <2>1, <2>2, InvKept
<1>10. ASSUME SplitPanic \/ PagePanic PROVE HeapInv'
  <2>1. /\ fault' \in {"chunk_split", "kvm_alloc_page"}
        /\ UNCHANGED <<kmem_list, nextpage, taken, want, block>>
    BY <1>10 DEF SplitPanic, PagePanic
  <2> QED BY <1>1, <1>2, <1>3, <2>1, InvKept
<1>11. ASSUME NEW i \in Held, Kmfree(kmem_list[i].addr) PROVE HeapInv'
  <2>1. want = 0 /\ UNCHANGED <<nextpage, taken, want, block, fault>>
    BY <1>11 DEF Kmfree
  <2>2. /\ Good(kmem_list', nextpage)
        /\ \A a \in Nat : Covered(kmem_list', a) <=> Covered(kmem_list, a)
    BY <1>11, KmfreeKeeps
  <2>3. block' \in 0..Len(kmem_list')
    <3>1. Len(kmem_list') \in Nat
      BY <2>2, ListType DEF Good
    <3> QED BY <1>2, <2>1, <3>1
  <2> QED BY <1>1, <1>2, <1>3, <2>1, <2>2, <2>3, InvKept
<1>12. ASSUME OtherPage PROVE HeapInv'
  <2>1. /\ nextpage' = nextpage + PGSIZE /\ nextpage' <= LIMIT
        /\ UNCHANGED <<kmem_list, taken, want, block, fault>>
    BY <1>12 DEF OtherPage, KvmAllocPage, PageLeft
  <2>2. nextpage' \in Nat /\ nextpage <= nextpage'
    BY <1>1, <1>2, <2>1
  <2>3. Good(kmem_list', nextpage')
    <3>1. \A j \in DOMAIN kmem_list : kmem_list[j].addr \in Nat /\ kmem_list[j].size \in Nat
      BY <1>1, InvGood, ChunkType DEF Nodes
    <3>2. Below(kmem_list, nextpage')
      BY <1>1, <2>2, <3>1 DEF Good, Below
    <3> QED BY <1>1, <2>1, <3>2 DEF Good
  <2> QED BY <1>2, <2>1, <2>2, <2>3, InvKept
<1>13. ASSUME UNCHANGED vars PROVE HeapInv'
  <2>1. UNCHANGED <<kmem_list, nextpage, taken, want, block, fault>>
    BY <1>13 DEF vars
  <2> QED BY <1>1, <1>2, <1>3, <2>1, InvKept
<1> QED BY <1>4, <1>5, <1>6, <1>7, <1>8, <1>9, <1>10, <1>11, <1>12, <1>13 DEF Next

-----------------------------------------------------------------------------
(* The theorems                                                            *)

\* The invariant of the heap: its list, its pages and the search under way stay
\* consistent over every sequence of kmalloc() and kmfree() calls, whatever the page,
\* header and block sizes and whoever else takes pages.
THEOREM HeapInvariance == Safety => []HeapInv
<1> QED BY HeapInvInit, HeapInvNext, PTL DEF Safety

\* Every field of the heap keeps its type; in particular no size ever underflows.
THEOREM HeapTypeCorrect == Safety => []TypeOK
<1>1. HeapInv => TypeOK
  BY DEF HeapInv
<1> QED BY <1>1, HeapInvariance, PTL

\* The chunks and their headers do not overlap and cover exactly the heap's pages.
THEOREM HeapTiles == Safety => []Tiling
<1>1. HeapInv => Tiling
  BY DEF HeapInv
<1> QED BY <1>1, HeapInvariance, PTL

\* What kmalloc() hands out holds nothing an earlier owner wrote, nor an old header.
THEOREM HeapKeepsNothing == Safety => []NoLeftovers
<1>1. HeapInv => NoLeftovers
  BY DEF HeapInv
<1> QED BY <1>1, HeapInvariance, PTL

\* kmfree() takes back the block it is given and no other.
THEOREM KmfreeFreesItsOwn == Safety => FreesItsOwn
<1>1. HeapInv /\ [Next]_vars =>
        [\A i \in Held : Kmfree(kmem_list[i].addr) =>
           BlocksOf(kmem_list') = BlocksOf(kmem_list) \ {Block(kmem_list[i])}]_vars
  BY KmfreeKeeps
<1> QED BY <1>1, HeapInvariance, PTL DEF Safety, FreesItsOwn

\* kmalloc() hands out a block that overlaps none handed out.
LEMMA AllocStep ==
  ASSUME HeapInv, SplitChunk \/ TakeWhole
  PROVE  H!Next
<1>1. /\ BlocksOf(kmem_list') =
           BlocksOf(kmem_list) \cup {[addr |-> Here.addr, size |-> want]}
      /\ block \in Nodes /\ want \in Sizes /\ want <= Here.size
  <2>1. CASE SplitChunk
    BY <2>1, SplitChunkKeeps
  <2>2. CASE TakeWhole
    BY <2>2, TakeWholeKeeps
  <2> QED BY <2>1, <2>2
<1>2. /\ Good(kmem_list, nextpage) /\ nextpage \in Nat
      /\ Nodes = 1..Len(kmem_list) /\ Len(kmem_list) \in Nat
      /\ \A j \in Nodes : kmem_list[j] \in Chunks
  BY InvGood
<1>3. /\ HDR \in Nat /\ LIMIT \in Nat /\ nextpage <= LIMIT
      /\ Here.addr \in Nat /\ Here.size \in Nat /\ want \in Nat
  BY <1>1, <1>2, ChunkType, HeapAssumption DEF HeapInv, Here
<1>4. Here.free
  BY DEF SplitChunk, TakeWhole
<1>5. Here.addr \in 0..LIMIT
  <2>1. Here.addr + Here.size <= nextpage
    BY <1>1, <1>2 DEF Good, Below, Nodes, Here
  <2> QED BY <1>2, <1>3, <2>1
<1>6. ASSUME NEW c \in BlocksOf(kmem_list)
      PROVE  H!Disjoint([addr |-> Here.addr, size |-> want], c)
  <2>1. PICK j \in Nodes : ~kmem_list[j].free /\ c = Block(kmem_list[j])
    BY <1>6 DEF BlocksOf, Nodes
  <2>2. c.addr = kmem_list[j].addr /\ c.size = kmem_list[j].size /\ j # block
    BY <1>4, <2>1 DEF Block, Here
  <2>3. c.addr \in Nat /\ c.size \in Nat
    BY <1>2, <2>1, <2>2, ChunkType
  <2>4. /\ block < j => Here.addr + Here.size + HDR <= c.addr
        /\ j < block => c.addr + c.size + HDR <= Here.addr
    BY <1>1, <1>2, <2>1, <2>2 DEF Good, Apart, Nodes, Here
  <2>5. Here.addr + want <= c.addr \/ c.addr + c.size <= Here.addr
    <3>1. CASE block < j
      BY <1>1, <1>3, <2>3, <2>4, <3>1
    <3>2. CASE j < block
      BY <1>3, <2>3, <2>4, <3>2
    <3> QED BY <1>1, <1>2, <2>1, <2>2, <3>1, <3>2
  <2> QED BY <2>5 DEF H!Disjoint
<1>7. H!Alloc(Here.addr, want)
  BY <1>1, <1>6 DEF H!Alloc
<1> QED BY <1>1, <1>5, <1>7 DEF H!Next

\* Every step of the heap is one kmalloc() or kmfree() of Heap, or none.
LEMMA HeapStep == HeapInv /\ [Next]_vars => [H!Next]_(BlocksOf(kmem_list))
<1> SUFFICES ASSUME HeapInv, [Next]_vars
             PROVE  H!Next \/ BlocksOf(kmem_list') = BlocksOf(kmem_list)
  OBVIOUS
<1>1. ASSUME NEW n \in Sizes, Kmalloc(n)
      PROVE  BlocksOf(kmem_list') = BlocksOf(kmem_list)
  BY <1>1, FirstPage
<1>2. ASSUME Grow PROVE BlocksOf(kmem_list') = BlocksOf(kmem_list)
  BY <1>2, GrowKeeps
<1>3. ASSUME SplitChunk \/ TakeWhole PROVE H!Next
  BY <1>3, AllocStep
<1>4. ASSUME NEW i \in Held, Kmfree(kmem_list[i].addr) PROVE H!Next
  <2>1. BlocksOf(kmem_list') = BlocksOf(kmem_list) \ {Block(kmem_list[i])}
    BY <1>4, KmfreeKeeps
  <2>2. Block(kmem_list[i]) \in BlocksOf(kmem_list)
    BY DEF BlocksOf, Held, Nodes
  <2> QED BY <2>1, <2>2 DEF H!Next, H!Free
<1>5. ASSUME \/ Skip \/ SplitPanic \/ ReturnNull \/ PagePanic \/ OtherPage
             \/ UNCHANGED vars
      PROVE  BlocksOf(kmem_list') = BlocksOf(kmem_list)
  <2>1. kmem_list' = kmem_list
    BY <1>5 DEF Skip, SplitPanic, ReturnNull, PagePanic, OtherPage, vars
  <2> QED BY <2>1
<1> QED BY <1>1, <1>2, <1>3, <1>4, <1>5 DEF Next

\* kmalloc() and kmfree() implement Heap: blocks of the size asked for that overlap
\* nothing handed out, and that nothing but their own kmfree() takes away.
THEOREM HeapImplementsBlocks == Safety => HeapSafety
<1>1. Init => H!Init
  BY EmptyGood DEF Init, H!Init
<1> QED BY <1>1, HeapInvariance, HeapStep, PTL DEF Safety, HeapSafety, H!Safety

=============================================================================
