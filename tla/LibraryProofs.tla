--------------------------- MODULE LibraryProofs ---------------------------
(***************************************************************************)
(* That the kernel stays inside the memory of the process whose system     *)
(* call it serves, and vsprintf() inside its format; and what the string   *)
(* functions compute: copies, comparisons, searches, the tokens of         *)
(* strtok() and the digits of numbers; for every size of the memory and of *)
(* an int, and every set of characters and formats.                        *)
(***************************************************************************)
EXTENDS Library, FiniteSetTheorems, TLAPS, WellFoundedInduction

\* What the loops that look for an end rest on.
LEMMA LeastNatural ==
  ASSUME NEW T, T \subseteq Nat, T # {}
  PROVE  \E x \in T : \A y \in T : x <= y
<1> DEFINE R == OpToRel(<, Nat)
<1>1. IsWellFoundedOn(R, Nat)
  BY NatLessThanWellFounded
<1>2. \E x \in T : \A y \in T : ~ (<<y, x>> \in R)
  <2> HIDE DEF R
  <2> QED BY <1>1, WFMin
<1>3. \A x, y \in Nat : ~ (<<y, x>> \in R) => x <= y
  BY DEF OpToRel
<1> QED BY <1>2, <1>3

\* strlen() and strnlen() stop at the first 0, or at the limit.
LEMMA FirstEnd ==
  ASSUME NEW m, NEW a \in Nat, NEW n \in Nat
  PROVE  LET e == EndWithin(m, a, n)
         IN  /\ e \in a .. a + n
             /\ e = a + n \/ m[e] = 0
             /\ \A b \in a .. e - 1 : m[b] # 0
<1> DEFINE T == {e \in a .. a + n : e = a + n \/ m[e] = 0}
           Ends(e) == /\ e = a + n \/ m[e] = 0
                      /\ \A b \in a .. e - 1 : m[b] # 0
<1>1. T \subseteq Nat /\ a + n \in T
  OBVIOUS
<1>2. PICK x \in T : \A y \in T : x <= y
  BY <1>1, LeastNatural
<1>3. x \in a .. a + n /\ Ends(x)
  BY <1>2
<1> HIDE DEF T
<1>4. EndWithin(m, a, n) = CHOOSE e \in a .. a + n : Ends(e)
  BY DEF EndWithin
<1> QED BY <1>3, <1>4

\* The string at s: its length, its characters and its terminator.
LEMMA AString ==
  ASSUME NEW m \in [Addr -> Char], NEW s \in Addr, IsString(m, s)
  PROVE  LET l == StrLen(m, s)
         IN  /\ l \in Nat /\ s + l \in Addr /\ m[s + l] = 0
             /\ \A b \in s .. s + l - 1 : m[b] # 0
             /\ EndWithin(m, s, MEM - s) = s + l
<1> DEFINE e == EndWithin(m, s, MEM - s)
<1>1. MEM \in Nat /\ s \in Nat /\ MEM - s \in Nat /\ s + (MEM - s) = MEM
  BY StringsAssumption DEF Addr
<1>2. e \in s .. MEM /\ (e = MEM \/ m[e] = 0) /\ \A b \in s .. e - 1 : m[b] # 0
  <2> HIDE DEF e
  <2>1. /\ e \in s .. s + (MEM - s)
        /\ e = s + (MEM - s) \/ m[e] = 0
        /\ \A b \in s .. e - 1 : m[b] # 0
    BY <1>1, FirstEnd DEF e
  <2> QED BY <1>1, <2>1
<1>3. PICK z \in s .. MEM - 1 : m[z] = 0
  BY DEF IsString
<1>4. StrLen(m, s) = e - s
  BY DEF StrLen
<1>5. e # MEM
  <2> HIDE DEF e
  <2> QED BY <1>1, <1>2, <1>3
<1>6. e \in Addr /\ s + (e - s) = e /\ e - s \in Nat
  <2> HIDE DEF e
  <2> QED BY <1>1, <1>2, <1>5 DEF Addr
<1>7. m[e] = 0 /\ \A b \in s .. e - 1 : m[b] # 0
  <2> HIDE DEF e
  <2> QED BY <1>2, <1>5
<1>8. s + StrLen(m, s) = e /\ StrLen(m, s) \in Nat
  <2> HIDE DEF e
  <2> QED BY <1>4, <1>6
<1>9. e \in Addr
  <2> HIDE DEF e
  <2> QED BY <1>6
<1> HIDE DEF e
<1>10. EndWithin(m, s, MEM - s) = e
  BY DEF e
<1> QED BY <1>1, <1>7, <1>8, <1>9, <1>10

\* skip_atoi() stops at the terminator at the latest.
LEMMA DigitsEnd ==
  ASSUME fmt \in Seq(STRING), NEW p \in 1 .. Len(fmt) + 1
  PROVE  BehindDigits(p) \in p .. Len(fmt) + 1
<1> DEFINE T == {q \in p .. Len(fmt) + 1 : q = Len(fmt) + 1 \/ ~IsDigit(fmt[q])}
           Ends(q) == /\ q = Len(fmt) + 1 \/ ~IsDigit(fmt[q])
                      /\ \A r \in p .. q - 1 : IsDigit(fmt[r])
<1>1. T \subseteq Nat /\ Len(fmt) + 1 \in T
  OBVIOUS
<1>2. PICK x \in T : \A y \in T : x <= y
  BY <1>1, LeastNatural
<1>3. x \in p .. Len(fmt) + 1 /\ Ends(x)
  <2>1. \A r \in p .. x - 1 : r < x /\ r \in p .. Len(fmt) + 1
    OBVIOUS
  <2> QED BY <1>2, <2>1
<1> HIDE DEF T
<1>4. BehindDigits(p) = CHOOSE q \in p .. Len(fmt) + 1 : Ends(q)
  BY DEF BehindDigits
<1> QED BY <1>3, <1>4

-----------------------------------------------------------------------------
\* The invariant: what is read of the process so far is its own, *fmt is in the
\* format or its terminator, and strtok() and the process leave memory and esp sound.
LibraryInv ==
  /\ fmt \in Seq(STRING) /\ pos \in 1 .. Len(fmt) + 1
  /\ mem \in [Addr -> Char] /\ esp \in 0 .. SPACE - 1
  /\ touched \subseteq Addr

\* What the assumptions say of the sizes.
LEMMA Sizes == /\ MEM \in Nat \ {0} /\ CHAR \in Nat /\ SPACE \in Nat
               /\ MEM + INT <= SPACE /\ 2 * MEM <= SPACE /\ INT = 2
BY StringsAssumption, SyscallAssumption DEF SPACE, INT

\* It holds at first, and every step keeps it.
LEMMA InitSound == Init => LibraryInv
<1> SUFFICES ASSUME Init PROVE LibraryInv
  OBVIOUS
<1>1. fmt \in Seq(STRING) /\ pos = 1
  <2>1. << >> \in Seq(STRING) /\ Formats \subseteq Seq(STRING)
    BY FormatAssumption
  <2> QED BY <2>1 DEF Init, FormatInit
<1>2. mem \in [Addr -> Char]
  BY StringsAssumption, LibraryAssumption
     DEF Init, StringsInit, Memories, Shown, UserMemories, Char
<1>3. esp \in 0 .. SPACE - 1 /\ touched = {}
  BY Sizes DEF Init, NoSyscall, SyscallInit
<1> QED BY <1>1, <1>2, <1>3 DEF LibraryInv

\* What argint() reads: the int whole, or nothing.
LEMMA ArgIntInside ==
  ASSUME LibraryInv, NEW n \in 0..2
  PROVE  /\ ArgInt(n).ok \in BOOLEAN
         /\ ArgInt(n).value \in Nat
         /\ ArgInt(n).read \subseteq Addr
<1> DEFINE addr == Plus(esp, n * INT + INT)
<1>1. addr \in Nat
  BY Sizes DEF Plus, LibraryInv
<1>2. ArgInt(n) = FetchInt(addr)
  BY DEF ArgInt
<1> HIDE DEF addr
<1>3. CASE addr >= MEM \/ Plus(addr, INT) > MEM
  BY <1>2, <1>3 DEF FetchInt, Failed
<1>4. CASE ~(addr >= MEM \/ Plus(addr, INT) > MEM)
  <2>1. addr + 1 < MEM
    BY <1>1, <1>4, Sizes DEF Plus
  <2>2. mem[addr] \in Nat /\ mem[addr + 1] \in Nat
    BY <1>1, <2>1, Sizes DEF LibraryInv, Addr, Char
  <2>3. \A x, y, z \in Nat : x + y * z \in Nat
    OBVIOUS
  <2>4. mem[addr] + CHAR * mem[addr + 1] \in Nat
    BY <2>2, <2>3, Sizes
  <2>5. addr .. addr + INT - 1 \subseteq Addr
    BY <1>1, <2>1, Sizes DEF Addr
  <2> QED BY <1>2, <1>4, <2>4, <2>5 DEF FetchInt
<1> QED BY <1>3, <1>4

\* What argstr() reads, and where the string it accepts lies.
LEMMA ArgStrInside ==
  ASSUME LibraryInv
  PROVE  /\ ArgStr(0).read \subseteq Addr
         /\ ArgStr(0).ok => ArgStr(0).value \in Addr /\ IsString(mem, ArgStr(0).value)
<1> DEFINE arg == ArgInt(0)
<1>1. arg.ok \in BOOLEAN /\ arg.value \in Nat /\ arg.read \subseteq Addr
  BY ArgIntInside
<1>2. ArgStr(0) = IF ~arg.ok THEN arg
                  ELSE [FetchStr(arg.value) EXCEPT !.read = @ \cup arg.read]
  BY DEF ArgStr
<1> HIDE DEF arg
<1>3. CASE ~arg.ok
  BY <1>1, <1>2, <1>3
<1>4. CASE arg.ok /\ arg.value >= MEM
  BY <1>1, <1>2, <1>4 DEF FetchStr, Failed
<1>5. CASE arg.ok /\ ~(arg.value >= MEM)
  <2>1. arg.value \in Addr
    BY <1>1, <1>5, Sizes DEF Addr
  <2> QED BY <1>1, <1>2, <1>5, <2>1 DEF FetchStr
<1> QED BY <1>1, <1>3, <1>4, <1>5

\* strtok() leaves a memory.
LEMMA TokenSound ==
  ASSUME LibraryInv, NEW from, NEW ct
  PROVE  StrTok(mem, from, ct).mem \in [Addr -> Char]
<1>1. 0 \in Char
  BY StringsAssumption DEF Char
<1>2. \A send : [mem EXCEPT ![send] = 0] \in [Addr -> Char]
  BY <1>1 DEF LibraryInv
<1> QED BY <1>2 DEF StrTok, LibraryInv

-----------------------------------------------------------------------------
\* The steps of vsprintf().
Formatting == Text \/ Percent \/ Flag \/ FieldWidth \/ Precision \/ Qualifier
                \/ Character \/ String \/ Pointer \/ StoreLength \/ Integer
                \/ ShortInteger \/ Otherwise \/ Return

\* No step of vsprintf() passes the terminator.
LEMMA FormattingStays ==
  ASSUME LibraryInv, Formatting
  PROVE  fmt' = fmt /\ pos' \in 1 .. Len(fmt) + 1
<1> DEFINE end == Len(fmt) + 1
<1>0. /\ fmt \in Seq(STRING) /\ Len(fmt) \in Nat /\ pos \in 1..end
      /\ DOMAIN fmt = 1 .. Len(fmt)
  BY DEF LibraryInv
<1>1. Ch # End => pos + 1 \in 1..end
  BY <1>0 DEF Ch
<1>2. Ch # End /\ Behind # End => pos + 2 \in 1..end
  BY <1>0 DEF Behind
<1>3. \A p \in 1..end : BehindDigits(p) \in 1..end
  <2>1. \A p \in 1..end : BehindDigits(p) \in p..end
    BY <1>0, DigitsEnd
  <2> QED BY <1>0, <2>1
<1>4. CASE Text
  BY <1>1, <1>4 DEF Text
<1>5. CASE Percent
  BY <1>1, <1>5 DEF Percent, End
<1>6. CASE Flag
  <2>1. FlagOf(End) = {}
    BY DEF FlagOf, End
  <2> QED BY <1>1, <1>6, <2>1 DEF Flag
<1>7. CASE FieldWidth
  BY <1>0, <1>1, <1>3, <1>7 DEF FieldWidth, End
<1>8. CASE Precision
  <2>1. IsDigit(Behind) \/ Behind = "*" => Behind # End
    BY DEF IsDigit, End
  <2>2. Ch = "." => Ch # End
    BY DEF End
  <2> QED BY <1>0, <1>1, <1>2, <1>3, <1>8, <2>1, <2>2 DEF Precision
<1>9. CASE Qualifier
  BY <1>0, <1>1, <1>9 DEF Qualifier, End
<1>10. CASE Character
  BY <1>1, <1>10 DEF Character, Puts, End
<1>11. CASE String
  BY <1>1, <1>11 DEF String, Puts, End
<1>12. CASE Pointer
  BY <1>1, <1>12 DEF Pointer, PutsNumber, Puts, End
<1>13. CASE StoreLength
  BY <1>1, <1>13 DEF StoreLength, End
<1>14. CASE Integer
  BY <1>1, <1>14 DEF Integer, PutsNumber, Puts, End
<1>15. CASE ShortInteger
  BY <1>0, <1>15 DEF ShortInteger
<1>16. CASE Otherwise
  BY <1>0, <1>1, <1>16 DEF Otherwise, Puts
<1>17. CASE Return
  BY <1>0, <1>17 DEF Return
<1> QED
  BY <1>4, <1>5, <1>6, <1>7, <1>8, <1>9, <1>10, <1>11, <1>12, <1>13, <1>14,
     <1>15, <1>16, <1>17 DEF Formatting

\* Neither does a system call leave the process's memory.
LEMMA SyscallStays ==
  ASSUME LibraryInv, SyscallNext, UNCHANGED stringVars
  PROVE  LibraryInv'
<1>0. mem' = mem
  BY DEF stringVars
<1>1. CASE Unknown
  BY <1>0, <1>1 DEF Unknown, formatVars, LibraryInv
<1>2. CASE Beyond
  BY <1>0, <1>2 DEF Beyond, formatVars, LibraryInv
<1>3. CASE PrintFails
  BY <1>0, <1>3, ArgStrInside DEF PrintFails, formatVars, LibraryInv
<1>4. CASE PrintMessage
  <2> DEFINE s == ArgStr(0).value
             n == StrLen(mem, s)
  <2>1. s \in Addr /\ IsString(mem, s) /\ ArgStr(0).read \subseteq Addr
    BY <1>4, ArgStrInside DEF PrintMessage
  <2>2. n \in Nat /\ s + n \in Addr
    BY <2>1, AString DEF LibraryInv
  <2>3. /\ touched' = touched \cup ArgStr(0).read \cup s .. s + n
        /\ fmt' = [i \in 1..n |-> Glyph[mem[s + i - 1]]]
        /\ pos' = 1 /\ esp' = esp
    BY <1>4 DEF PrintMessage
  <2> HIDE DEF s, n
  <2>4. s .. s + n \subseteq Addr
    BY <2>1, <2>2, Sizes DEF Addr
  <2>5. \A i \in 1..n : Glyph[mem[s + i - 1]] \in STRING
    <3> TAKE i \in 1..n
    <3>1. s + i - 1 \in s .. s + n
      BY <2>1, <2>2, Sizes DEF Addr
    <3>2. mem[s + i - 1] \in Char
      BY <2>4, <3>1 DEF LibraryInv
    <3> QED BY <3>2, FormatAssumption
  <2>6. fmt' \in Seq(STRING)
    BY <2>2, <2>3, <2>5
  <2>7. Len(fmt') \in Nat
    BY <2>6
  <2>8. touched' \subseteq Addr
    BY <2>1, <2>3, <2>4 DEF LibraryInv
  <2>9. pos' \in 1..Len(fmt') + 1
    <3>1. pos' = 1
      BY <2>3
    <3>2. \A k \in Nat : 1 \in 1..k + 1
      OBVIOUS
    <3> QED BY <2>7, <3>1, <3>2
  <2>10. mem' \in [Addr -> Char] /\ esp' \in 0..SPACE - 1
    BY <1>0, <2>3 DEF LibraryInv
  <2> QED BY <2>6, <2>8, <2>9, <2>10 DEF LibraryInv
<1>5. CASE Printed
  BY <1>0, <1>5 DEF Printed, formatVars, LibraryInv
<1> QED BY <1>1, <1>2, <1>3, <1>4, <1>5 DEF SyscallNext

LEMMA NextSound == LibraryInv /\ [Next]_vars => LibraryInv'
<1> SUFFICES ASSUME LibraryInv, [Next]_vars PROVE LibraryInv'
  OBVIOUS
<1>1. ASSUME NEW s, NEW ct, StrTokFirst(s, ct), UNCHANGED <<formatVars, syscallVars>>
      PROVE  LibraryInv'
  BY <1>1, TokenSound DEF StrTokFirst, Returns, formatVars, syscallVars, LibraryInv
<1>2. CASE StrTokNext /\ UNCHANGED <<formatVars, syscallVars>>
  BY <1>2, TokenSound DEF StrTokNext, Returns, formatVars, syscallVars, LibraryInv
<1>3. CASE Formatting /\ UNCHANGED <<stringVars, syscallVars>>
  BY <1>3, FormattingStays DEF stringVars, syscallVars, LibraryInv
<1>4. CASE SyscallNext /\ UNCHANGED stringVars
  BY <1>4, SyscallStays
<1>5. CASE UNCHANGED vars
  BY <1>5 DEF vars, stringVars, formatVars, syscallVars, LibraryInv
<1> QED BY <1>1, <1>2, <1>3, <1>4, <1>5 DEF Next, Formatting

\* So the invariant holds of every behaviour.
LEMMA LibraryInvariance == Spec => []LibraryInv
BY InitSound, NextSound, PTL DEF Spec

\* For every memory, number and esp the process may choose, fetching the argument
\* of print() and reading the string as a format stays in the process's memory.
THEOREM KernelStaysInside == Spec => []Inside
<1>1. LibraryInv => Inside
  BY DEF LibraryInv, Inside
<1> QED BY <1>1, LibraryInvariance, PTL

\* argptr() accepts no area that leaves the process's memory, whatever wraps.
THEOREM PointersStayInside == Spec => []PtrInside
<1>1. LibraryInv => PtrInside
  <2> SUFFICES ASSUME LibraryInv, NEW n \in 0..2, NEW size \in -1 .. SPACE \div 2 - 1,
                      ArgPtr(n, size).ok
               PROVE  LET r == ArgPtr(n, size)
                      IN  r.read \cup r.value .. r.value + size - 1 \subseteq Addr
    BY DEF PtrInside
  <2> DEFINE arg == ArgInt(n)
  <2>1. arg.value \in Nat /\ arg.read \subseteq Addr
    BY ArgIntInside
  <2>2. /\ ArgPtr(n, size) = arg
        /\ ~(size < 0 \/ arg.value >= MEM \/ Plus(arg.value, size) > MEM)
    BY DEF ArgPtr
  <2> HIDE DEF arg
  <2>3. size \in Int /\ 2 * size <= SPACE - 2
    BY Sizes
  <2>4. arg.value + size <= MEM
    BY <2>1, <2>2, <2>3, Sizes DEF Plus
  <2>5. arg.value .. arg.value + size - 1 \subseteq Addr
    BY <2>1, <2>3, <2>4, Sizes DEF Addr
  <2> QED BY <2>1, <2>2, <2>5
<1> QED BY <1>1, LibraryInvariance, PTL

\* vsprintf() never reads behind the terminator, whatever format it is given.
THEOREM FormatStaysInside == Spec => []StaysInFormat
<1>1. LibraryInv => StaysInFormat
  BY DEF LibraryInv, StaysInFormat
<1> QED BY <1>1, LibraryInvariance, PTL

-----------------------------------------------------------------------------
(* Copies                                                                  *)

\* Two functions that start alike and go on alike are the same: how what a
\* recursive function computes is found without an induction.
LEMMA SameRecursion ==
  ASSUME NEW n \in Nat, NEW f, NEW g,
         f[0] = g[0],
         \A k \in 1..n : f[k - 1] = g[k - 1] => f[k] = g[k]
  PROVE  \A k \in 0..n : f[k] = g[k]
<1> DEFINE T == {k \in 0..n : f[k] # g[k]}
<1>1. T = {}
  <2> SUFFICES ASSUME T # {} PROVE FALSE
    OBVIOUS
  <2>1. PICK x \in T : \A y \in T : x <= y
    <3>1. T \subseteq Nat
      OBVIOUS
    <3> QED BY <3>1, LeastNatural
  <2>2. x \in 1..n /\ x - 1 \in 0..n
    OBVIOUS
  <2>3. f[x - 1] = g[x - 1]
    <3>1. x - 1 \notin T
      <4>1. ~ (x <= x - 1)
        BY <2>2
      <4> QED BY <2>1, <4>1
    <3> QED BY <3>1, <2>2
  <2> QED BY <2>2, <2>3
<1> QED BY <1>1

\* The memory m after count bytes were moved from src to dest at once.
Moved(m, dest, src, count) ==
  [a \in Addr |-> IF a \in dest .. dest + count - 1
                  THEN m[src + a - dest] ELSE m[a]]

\* A copy from the front is sound unless dest begins inside src.
LEMMA ForwardMoves ==
  ASSUME NEW m \in [Addr -> Char], NEW dest \in Nat, NEW src \in Nat,
         NEW count \in Nat, dest + count <= MEM, src + count <= MEM,
         dest \notin src + 1 .. src + count - 1
  PROVE  MemCpy(m, dest, src, count) = Moved(m, dest, src, count)
<1> DEFINE After(f) == [k \in 0..count |->
              IF k = 0 THEN m
              ELSE [f[k - 1] EXCEPT ![dest + k - 1] = f[k - 1][src + k - 1]]]
           g == [k \in 0..count |-> Moved(m, dest, src, k)]
<1>0. MEM \in Nat
  BY StringsAssumption
<1>1. Moved(m, dest, src, 0) = m
  BY DEF Moved
<1>2. ASSUME NEW k \in 1..count
      PROVE  LET before == Moved(m, dest, src, k - 1)
             IN  Moved(m, dest, src, k)
                   = [before EXCEPT ![dest + k - 1] = before[src + k - 1]]
  <2> DEFINE before == Moved(m, dest, src, k - 1)
  <2>1. src + k - 1 \in Addr /\ src + k - 1 \notin dest .. dest + (k - 1) - 1
    BY <1>0 DEF Addr
  <2>2. before[src + k - 1] = m[src + k - 1]
    BY <2>1 DEF Moved
  <2>3. dest + k - 1 \in Addr /\ src + (dest + k - 1) - dest = src + k - 1
    BY <1>0 DEF Addr
  <2>4. \A a \in Addr : a # dest + k - 1 =>
          (a \in dest .. dest + k - 1 <=> a \in dest .. dest + (k - 1) - 1)
    BY DEF Addr
  <2>5. ASSUME NEW a \in Addr
        PROVE  Moved(m, dest, src, k)[a]
                 = [before EXCEPT ![dest + k - 1] = m[src + k - 1]][a]
    <3>1. CASE a = dest + k - 1
      BY <3>1, <2>3 DEF Moved
    <3>2. CASE a # dest + k - 1
      BY <3>2, <2>4 DEF Moved
    <3> QED BY <3>1, <3>2
  <2>6. Moved(m, dest, src, k) = [before EXCEPT ![dest + k - 1] = m[src + k - 1]]
    BY <2>5 DEF Moved
  <2> QED BY <2>2, <2>6
<1>3. g = After(g)
  <2>1. \A k \in 1..count : k - 1 \in 0..count
    OBVIOUS
  <2>2. ASSUME NEW k \in 0..count PROVE g[k] = After(g)[k]
    <3>1. CASE k = 0
      BY <3>1, <1>1
    <3>2. CASE k \in 1..count
      BY <3>2, <1>2, <2>1
    <3> QED BY <3>1, <3>2
  <2> QED BY <2>2
<1>4. ASSUME NEW f, f = After(f) PROVE \A k \in 0..count : f[k] = g[k]
  <2>1. f[0] = g[0]
    <3>1. After(f)[0] = m
      OBVIOUS
    <3>2. g[0] = m
      BY <1>1
    <3> HIDE DEF After, g
    <3> QED BY <1>4, <3>1, <3>2
  <2>2. ASSUME NEW k \in 1..count, f[k - 1] = g[k - 1] PROVE f[k] = g[k]
    <3>1. \A h : After(h)[k] = [h[k - 1] EXCEPT ![dest + k - 1] = h[k - 1][src + k - 1]]
      OBVIOUS
    <3> HIDE DEF After, g
    <3>2. /\ After(f)[k] = [f[k - 1] EXCEPT ![dest + k - 1] = f[k - 1][src + k - 1]]
          /\ After(g)[k] = [g[k - 1] EXCEPT ![dest + k - 1] = g[k - 1][src + k - 1]]
      BY <3>1
    <3>3. f[k] = After(f)[k] /\ g[k] = After(g)[k]
      BY <1>3, <1>4
    <3> QED BY <2>2, <3>2, <3>3
  <2> HIDE DEF After, g
  <2> QED BY <2>1, <2>2, SameRecursion
<1>5. MemCpy(m, dest, src, count) = (CHOOSE f : f = After(f))[count]
  BY DEF MemCpy
<1>6. (CHOOSE f : f = After(f))[count] = g[count]
  <2> HIDE DEF g, After
  <2> QED BY <1>3, <1>4
<1> QED BY <1>5, <1>6

\* A copy from the back is sound when dest is behind src.
LEMMA BackwardMoves ==
  ASSUME NEW m \in [Addr -> Char], NEW dest \in Nat, NEW src \in Nat,
         NEW count \in Nat, dest + count <= MEM, src < dest
  PROVE  Backward(m, dest, src, count) = Moved(m, dest, src, count)
<1> DEFINE After(f) == [k \in 0..count |->
              IF k = 0 THEN m
              ELSE [f[k - 1] EXCEPT ![dest + count - k] = f[k - 1][src + count - k]]]
           Last(k) == [a \in Addr |-> IF a \in dest + count - k .. dest + count - 1
                                      THEN m[src + a - dest] ELSE m[a]]
           g == [k \in 0..count |-> Last(k)]
<1>0. MEM \in Nat
  BY StringsAssumption
<1>1. Last(0) = m
  OBVIOUS
<1>2. ASSUME NEW k \in 1..count
      PROVE  Last(k) = [Last(k - 1) EXCEPT
                          ![dest + count - k] = Last(k - 1)[src + count - k]]
  <2>1. /\ src + count - k \in Addr
        /\ src + count - k \notin dest + count - (k - 1) .. dest + count - 1
    BY <1>0 DEF Addr
  <2>2. Last(k - 1)[src + count - k] = m[src + count - k]
    BY <2>1
  <2>3. /\ dest + count - k \in Addr
        /\ src + (dest + count - k) - dest = src + count - k
        /\ dest + count - k \in dest + count - k .. dest + count - 1
    BY <1>0 DEF Addr
  <2>4. \A a \in Addr : a # dest + count - k =>
          (a \in dest + count - k .. dest + count - 1
             <=> a \in dest + count - (k - 1) .. dest + count - 1)
    BY DEF Addr
  <2>5. ASSUME NEW a \in Addr
        PROVE  Last(k)[a]
                 = [Last(k - 1) EXCEPT ![dest + count - k] = m[src + count - k]][a]
    <3>1. CASE a = dest + count - k
      BY <3>1, <2>3
    <3>2. CASE a # dest + count - k
      BY <3>2, <2>4
    <3> QED BY <3>1, <3>2
  <2>6. Last(k) = [Last(k - 1) EXCEPT ![dest + count - k] = m[src + count - k]]
    BY <2>5
  <2> HIDE DEF Last
  <2> QED BY <2>2, <2>6
<1>3. g = After(g)
  <2> HIDE DEF Last
  <2>1. \A k \in 1..count : k - 1 \in 0..count
    OBVIOUS
  <2>2. ASSUME NEW k \in 0..count PROVE g[k] = After(g)[k]
    <3>1. CASE k = 0
      BY <3>1, <1>1
    <3>2. CASE k \in 1..count
      BY <3>2, <1>2, <2>1
    <3>3. k = 0 \/ k \in 1..count
      OBVIOUS
    <3> HIDE DEF After, g
    <3> QED BY <3>1, <3>2, <3>3
  <2> QED BY <2>2
<1>4. ASSUME NEW f, f = After(f) PROVE \A k \in 0..count : f[k] = g[k]
  <2>1. f[0] = g[0]
    <3>1. After(f)[0] = m
      OBVIOUS
    <3>2. g[0] = m
      <4> HIDE DEF Last
      <4> QED BY <1>1
    <3> HIDE DEF After, g
    <3> QED BY <1>4, <3>1, <3>2
  <2>2. ASSUME NEW k \in 1..count, f[k - 1] = g[k - 1] PROVE f[k] = g[k]
    <3>1. \A h : After(h)[k]
                   = [h[k - 1] EXCEPT ![dest + count - k] = h[k - 1][src + count - k]]
      OBVIOUS
    <3> HIDE DEF After, g
    <3>2. /\ After(f)[k]
               = [f[k - 1] EXCEPT ![dest + count - k] = f[k - 1][src + count - k]]
          /\ After(g)[k]
               = [g[k - 1] EXCEPT ![dest + count - k] = g[k - 1][src + count - k]]
      BY <3>1
    <3>3. f[k] = After(f)[k] /\ g[k] = After(g)[k]
      BY <1>3, <1>4
    <3> QED BY <2>2, <3>2, <3>3
  <2> HIDE DEF After, g
  <2> QED BY <2>1, <2>2, SameRecursion
<1>5. Backward(m, dest, src, count) = (CHOOSE f : f = After(f))[count]
  BY DEF Backward
<1>6. (CHOOSE f : f = After(f))[count] = g[count]
  <2> HIDE DEF g, After
  <2> QED BY <1>3, <1>4
<1>7. g[count] = Moved(m, dest, src, count)
  BY DEF Moved
<1> QED BY <1>5, <1>6, <1>7

\* memmove() copies whatever overlaps.
LEMMA MoveMoves ==
  ASSUME NEW m \in [Addr -> Char], NEW dest \in Addr, NEW src \in Addr,
         NEW n \in Nat, dest + n <= MEM, src + n <= MEM
  PROVE  MemMove(m, dest, src, n) = Moved(m, dest, src, n)
<1>1. MEM \in Nat /\ dest \in Nat /\ src \in Nat
  BY StringsAssumption DEF Addr
<1>2. CASE dest <= src
  <2>1. dest \notin src + 1 .. src + n - 1
    BY <1>1, <1>2
  <2> QED BY <1>1, <1>2, <2>1, ForwardMoves DEF MemMove
<1>3. CASE ~ (dest <= src)
  <2>1. src < dest
    BY <1>1, <1>3
  <2> QED BY <1>1, <1>3, <2>1, BackwardMoves DEF MemMove
<1> QED BY <1>2, <1>3

-----------------------------------------------------------------------------
\* The end is the only place where a string may end.
LEMMA EndIs ==
  ASSUME NEW m, NEW a \in Nat, NEW n \in Nat, NEW e \in a .. a + n,
         e = a + n \/ m[e] = 0, \A b \in a .. e - 1 : m[b] # 0
  PROVE  EndWithin(m, a, n) = e
<1> DEFINE x == EndWithin(m, a, n)
<1>1. x \in a .. a + n /\ (x = a + n \/ m[x] = 0) /\ \A b \in a .. x - 1 : m[b] # 0
  <2> HIDE DEF x
  <2> QED BY FirstEnd DEF x
<1> HIDE DEF x
<1>2. ~ (x < e)
  BY <1>1
<1>3. ~ (e < x)
  BY <1>1
<1>4. x = e
  BY <1>1, <1>2, <1>3
<1> QED BY <1>4 DEF x

\* How a string that has been written is recognised.
LEMMA StringIs ==
  ASSUME NEW m \in [Addr -> Char], NEW s \in Addr, NEW q \in Seq(Char),
         s + Len(q) \in Addr, m[s + Len(q)] = 0,
         \A i \in 1..Len(q) : m[s + i - 1] = q[i] /\ q[i] # 0
  PROVE  Chars(m, s) = q
<1> DEFINE e == s + Len(q)
<1>1. MEM \in Nat /\ s \in Nat /\ MEM - s \in Nat /\ Len(q) \in Nat
  BY StringsAssumption DEF Addr
<1>2. e \in s .. s + (MEM - s)
  BY <1>1 DEF Addr
<1>3. \A b \in s .. e - 1 : m[b] # 0
  <2>1. ASSUME NEW b \in s .. e - 1 PROVE m[b] # 0
    <3>1. b - s + 1 \in 1..Len(q) /\ s + (b - s + 1) - 1 = b
      BY <1>1
    <3> QED BY <3>1
  <2> QED BY <2>1
<1>4. EndWithin(m, s, MEM - s) = e
  <2> HIDE DEF e
  <2>1. m[e] = 0
    BY DEF e
  <2> QED BY <1>1, <1>2, <1>3, <2>1, EndIs
<1>5. StrLen(m, s) = Len(q)
  BY <1>1, <1>4 DEF StrLen
<1>6. Chars(m, s) = [i \in 1..Len(q) |-> q[i]]
  BY <1>5 DEF Chars
<1>7. q = [i \in 1..Len(q) |-> q[i]]
  OBVIOUS
<1> QED BY <1>6, <1>7

\* strnlen() of a string that ends.
LEMMA BoundedLength ==
  ASSUME NEW m \in [Addr -> Char], NEW s \in Addr, IsString(m, s), NEW count \in Nat
  PROVE  StrNLen(m, s, count)
           = IF count < StrLen(m, s) THEN count ELSE StrLen(m, s)
<1> DEFINE l == StrLen(m, s)
           n == IF count \in 0 .. MEM - s THEN count ELSE MEM - s
           e == s + (IF count < l THEN count ELSE l)
<1>1. MEM \in Nat /\ s \in Nat /\ MEM - s \in Nat
  BY StringsAssumption DEF Addr
<1>2. /\ l \in Nat /\ s + l \in Addr /\ m[s + l] = 0
      /\ \A b \in s .. s + l - 1 : m[b] # 0
  BY AString
<1> HIDE DEF l
<1>3. n \in Nat /\ e \in s .. s + n
  BY <1>1, <1>2 DEF Addr
<1>4. e = s + n \/ m[e] = 0
  BY <1>1, <1>2 DEF Addr
<1>5. \A b \in s .. e - 1 : m[b] # 0
  BY <1>1, <1>2
<1>6. EndWithin(m, s, n) = e
  <2> HIDE DEF n, e
  <2> QED BY <1>1, <1>3, <1>4, <1>5, EndIs
<1>7. StrNLen(m, s, count) = EndWithin(m, s, n) - s
  BY DEF StrNLen
<1> QED BY <1>1, <1>2, <1>6, <1>7 DEF l

\* The characters of a string as a sequence.
LEMMA Characters ==
  ASSUME NEW m \in [Addr -> Char], NEW s \in Addr, IsString(m, s)
  PROVE  /\ Chars(m, s) \in Seq(Char) /\ Len(Chars(m, s)) = StrLen(m, s)
         /\ \A i \in 1..StrLen(m, s) : /\ Chars(m, s)[i] = m[s + i - 1]
                                       /\ m[s + i - 1] # 0
<1> DEFINE l == StrLen(m, s)
<1>1. l \in Nat /\ s + l \in Addr /\ \A b \in s .. s + l - 1 : m[b] # 0
  BY AString
<1>2. Chars(m, s) = [i \in 1..l |-> m[s + i - 1]]
  BY DEF Chars
<1> HIDE DEF l
<1>3. ASSUME NEW i \in 1..l
      PROVE  s + i - 1 \in Addr /\ s + i - 1 \in s .. s + l - 1
  BY <1>1, StringsAssumption DEF Addr
<1>4. \A i \in 1..l : m[s + i - 1] \in Char
  BY <1>3
<1>5. Chars(m, s) \in Seq(Char) /\ Len(Chars(m, s)) = l
  BY <1>1, <1>2, <1>4
<1>6. \A i \in 1..l : Chars(m, s)[i] = m[s + i - 1] /\ m[s + i - 1] # 0
  BY <1>1, <1>2, <1>3
<1> QED BY <1>5, <1>6 DEF l

\* The string at dest when n characters of the one at src, and a 0, are put behind it.
LEMMA Appended ==
  ASSUME NEW m \in [Addr -> Char], NEW dest \in Addr, NEW src \in Addr,
         IsString(m, dest), IsString(m, src),
         dest + StrLen(m, dest) + StrLen(m, src) \in Addr,
         NEW n \in 0..StrLen(m, src)
  PROVE  LET end == dest + StrLen(m, dest)
         IN  Chars([Moved(m, end, src, n) EXCEPT ![end + n] = 0], dest)
               = Chars(m, dest) \o SubSeq(Chars(m, src), 1, n)
<1> DEFINE l1 == StrLen(m, dest)
           l2 == StrLen(m, src)
           first == Chars(m, dest)
           second == Chars(m, src)
           end == dest + l1
           c == [Moved(m, end, src, n) EXCEPT ![end + n] = 0]
           q == first \o SubSeq(second, 1, n)
<1>1. /\ l1 \in Nat /\ l2 \in Nat /\ dest + l1 + l2 \in Addr /\ n \in 0..l2
      /\ src + l2 \in Addr
  BY AString
<1>2. /\ first \in Seq(Char) /\ Len(first) = l1
      /\ \A i \in 1..l1 : first[i] = m[dest + i - 1] /\ m[dest + i - 1] # 0
  BY Characters
<1>3. /\ second \in Seq(Char) /\ Len(second) = l2
      /\ \A i \in 1..l2 : second[i] = m[src + i - 1] /\ m[src + i - 1] # 0
  BY Characters
<1>4. MEM \in Nat /\ dest \in Nat /\ src \in Nat /\ 0 \in Char
  BY StringsAssumption DEF Addr, Char
<1> HIDE DEF l1, l2, first, second
<1>5. end \in Nat /\ end + n \in Addr /\ src + n \in Addr
  BY <1>1, <1>4 DEF Addr
<1>6. c \in [Addr -> Char]
  <2>1. Moved(m, end, src, n) \in [Addr -> Char]
    <3>1. \A a \in end .. end + n - 1 : src + a - end \in Addr
      BY <1>4, <1>5 DEF Addr
    <3> HIDE DEF end
    <3> QED BY <3>1 DEF Moved
  <2> HIDE DEF end
  <2> QED BY <1>4, <2>1
<1>7. q \in Seq(Char) /\ Len(q) = l1 + n
  <2>1. SubSeq(second, 1, n) \in Seq(Char) /\ Len(SubSeq(second, 1, n)) = n
    BY <1>1, <1>3
  <2> QED BY <1>1, <1>2, <2>1
<1>8. c[end + n] = 0
  <2> HIDE DEF end
  <2> QED BY <1>5 DEF Moved
<1>9. ASSUME NEW i \in 1..l1 + n PROVE c[dest + i - 1] = q[i] /\ q[i] # 0
  <2>1. dest + i - 1 \in Addr /\ dest + i - 1 # end + n
    BY <1>1, <1>4 DEF Addr
  <2>2. c[dest + i - 1] = IF dest + i - 1 \in end .. end + n - 1
                          THEN m[src + (dest + i - 1) - end] ELSE m[dest + i - 1]
    <3> HIDE DEF end
    <3> QED BY <2>1 DEF Moved
  <2>3. CASE i <= l1
    <3>1. i \in 1..l1 /\ dest + i - 1 \notin end .. end + n - 1
      BY <2>3, <1>1, <1>4
    <3>2. q[i] = first[i]
      BY <3>1, <1>1, <1>2, <1>3
    <3> HIDE DEF q, c, end
    <3> QED BY <2>2, <3>1, <3>2, <1>2
  <2>4. CASE ~ (i <= l1)
    <3>1. /\ i - l1 \in 1..n /\ i - l1 \in 1..l2
          /\ dest + i - 1 \in end .. end + n - 1
          /\ src + (dest + i - 1) - end = src + (i - l1) - 1
      BY <2>4, <1>1, <1>4
    <3>2. SubSeq(second, 1, n)[i - l1] = second[i - l1]
      BY <3>1, <1>1, <1>3
    <3>3. q[i] = second[i - l1]
      <4>1. SubSeq(second, 1, n) \in Seq(Char) /\ Len(SubSeq(second, 1, n)) = n
        BY <1>1, <1>3
      <4>2. q[i] = SubSeq(second, 1, n)[i - l1]
        BY <4>1, <1>1, <1>2, <2>4
      <4> QED BY <4>2, <3>2
    <3> HIDE DEF q, c, end
    <3> QED BY <2>2, <3>1, <3>3, <1>3
  <2> QED BY <2>3, <2>4
<1>10. dest + Len(q) = end + n
  BY <1>1, <1>4, <1>7
<1>11. Chars(c, dest) = q
  <2> HIDE DEF c, q, end
  <2> QED BY <1>5, <1>6, <1>7, <1>8, <1>9, <1>10, StringIs
<1> QED BY <1>11 DEF l1, l2, first, second

\* Two strings, and place for both behind the first, outside the second.
Apart(m, dest, src) ==
  LET end == dest + StrLen(m, dest) + StrLen(m, src)
  IN  end \in Addr /\ (dest..end) \cap (src .. src + StrLen(m, src)) = {}

\* The lengths that the copies below are about.
LEMMA ApartBounds ==
  ASSUME NEW m \in [Addr -> Char], NEW dest \in Addr, NEW src \in Addr,
         IsString(m, dest), IsString(m, src), Apart(m, dest, src),
         NEW d \in {dest, dest + StrLen(m, dest)}
  PROVE  LET l == StrLen(m, src)
         IN  /\ d \in Addr /\ l \in Nat /\ m[src + l] = 0
             /\ d + l + 1 <= MEM /\ src + l + 1 <= MEM
             /\ \A n \in 0 .. l + 1 : d \notin src + 1 .. src + n - 1
<1> DEFINE l1 == StrLen(m, dest)
           l == StrLen(m, src)
<1>1. /\ l1 \in Nat /\ l \in Nat /\ src + l \in Addr /\ m[src + l] = 0
  BY AString
<1>2. dest + l1 + l \in Addr /\ (dest .. dest + l1 + l) \cap (src .. src + l) = {}
  BY DEF Apart
<1>3. MEM \in Nat /\ dest \in Nat /\ src \in Nat
  BY StringsAssumption DEF Addr
<1>4. d \in {dest, dest + l1}
  OBVIOUS
<1> HIDE DEF l1, l
<1>5. d \in Addr /\ d \in dest .. dest + l1 + l /\ d + l <= dest + l1 + l
  BY <1>1, <1>2, <1>3, <1>4 DEF Addr
<1>6. d \notin src .. src + l
  BY <1>2, <1>5
<1>7. d + l + 1 <= MEM /\ src + l + 1 <= MEM
  BY <1>1, <1>2, <1>3, <1>5 DEF Addr
<1>8. \A n \in 0 .. l + 1 : d \notin src + 1 .. src + n - 1
  BY <1>1, <1>3, <1>6
<1> QED BY <1>1, <1>5, <1>7, <1>8 DEF l

\* strcat() leaves the two strings, one behind the other.
LEMMA CatAppends ==
  ASSUME NEW m \in [Addr -> Char], NEW dest \in Addr, NEW src \in Addr,
         IsString(m, dest), IsString(m, src), Apart(m, dest, src)
  PROVE  Chars(StrCat(m, dest, src), dest) = Chars(m, dest) \o Chars(m, src)
<1> DEFINE end == dest + StrLen(m, dest)
           l == StrLen(m, src)
<1>1. /\ end \in Addr /\ l \in Nat /\ m[src + l] = 0
      /\ end + l + 1 <= MEM /\ src + l + 1 <= MEM
      /\ \A n \in 0 .. l + 1 : end \notin src + 1 .. src + n - 1
  BY ApartBounds
<1>2. StrCat(m, dest, src) = MemCpy(m, end, src, l + 1)
  BY DEF StrCat, StrCpy
<1>3. end + l \in Addr
  BY DEF Apart
<1>4. Chars([Moved(m, end, src, l) EXCEPT ![end + l] = 0], dest)
        = Chars(m, dest) \o SubSeq(Chars(m, src), 1, l)
  <2>1. l \in 0..l
    <3> HIDE DEF l
    <3> QED BY <1>1
  <2> QED BY <1>3, <2>1, Appended
<1>5. Chars(m, src) \in Seq(Char) /\ Len(Chars(m, src)) = l
  BY Characters
<1> HIDE DEF end, l
<1>6. MEM \in Nat /\ end \in Nat /\ src \in Nat
  BY <1>1, StringsAssumption DEF Addr
<1>7. MemCpy(m, end, src, l + 1) = Moved(m, end, src, l + 1)
  BY <1>1, <1>6, ForwardMoves
<1>8. Moved(m, end, src, l + 1) = [Moved(m, end, src, l) EXCEPT ![end + l] = 0]
  <2>1. ASSUME NEW a \in Addr
        PROVE  Moved(m, end, src, l + 1)[a]
                 = [Moved(m, end, src, l) EXCEPT ![end + l] = 0][a]
    <3>1. CASE a = end + l
      <4>1. a \in end .. end + (l + 1) - 1 /\ src + a - end = src + l
        BY <3>1, <1>1, <1>6
      <4> QED BY <3>1, <4>1, <1>1 DEF Moved
    <3>2. CASE a # end + l
      <4>1. a \in end .. end + (l + 1) - 1 <=> a \in end .. end + l - 1
        BY <3>2, <1>1, <1>6 DEF Addr
      <4> QED BY <3>2, <4>1 DEF Moved
    <3> QED BY <3>1, <3>2
  <2> QED BY <2>1 DEF Moved
<1>9. SubSeq(Chars(m, src), 1, l) = Chars(m, src)
  BY <1>1, <1>5
<1> QED BY <1>2, <1>4, <1>7, <1>8, <1>9

\* strncat() leaves the first, and of the second as much as count allows.
LEMMA NCatAppends ==
  ASSUME NEW m \in [Addr -> Char], NEW dest \in Addr, NEW src \in Addr,
         IsString(m, dest), IsString(m, src), Apart(m, dest, src), NEW count \in Nat
  PROVE  Chars(StrNCat(m, dest, src, count), dest)
           = Chars(m, dest) \o Upto(Chars(m, src), count)
<1> DEFINE end == dest + StrLen(m, dest)
           l == StrLen(m, src)
           n == StrNLen(m, src, count)
           c == [Moved(m, end, src, n) EXCEPT ![end + n] = 0]
<1>1. /\ end \in Addr /\ l \in Nat
      /\ end + l + 1 <= MEM /\ src + l + 1 <= MEM
      /\ \A k \in 0 .. l + 1 : end \notin src + 1 .. src + k - 1
  BY ApartBounds
<1>2. n = IF count < l THEN count ELSE l
  BY BoundedLength
<1>3. Chars(m, src) \in Seq(Char) /\ Len(Chars(m, src)) = l
  BY Characters
<1>4. Chars(m, dest) \in Seq(Char)
  BY Characters
<1>5. end + l \in Addr
  BY DEF Apart
<1>6. Upto(Chars(m, src), count) = SubSeq(Chars(m, src), 1, n)
  BY <1>2, <1>3 DEF Upto
<1>7. n \in 0..l
  <2> HIDE DEF n, l
  <2> QED BY <1>1, <1>2
<1>8. Chars(c, dest) = Chars(m, dest) \o SubSeq(Chars(m, src), 1, n)
  <2> HIDE DEF n
  <2> QED BY <1>5, <1>7, Appended
<1>9. CASE count = 0
  <2>1. StrNCat(m, dest, src, count) = m
    BY <1>9 DEF StrNCat
  <2>2. SubSeq(Chars(m, src), 1, n) = << >>
    <3>1. n = 0
      <4> HIDE DEF n, l
      <4> QED BY <1>9, <1>1, <1>2
    <3> HIDE DEF n
    <3> QED BY <3>1, <1>3
  <2>3. Upto(Chars(m, src), count) = << >>
    <3> HIDE DEF n
    <3> QED BY <2>2, <1>6
  <2>4. \A q \in Seq(Char) : q \o << >> = q
    OBVIOUS
  <2>5. Chars(m, dest) \o << >> = Chars(m, dest)
    BY <2>4, <1>4
  <2> QED BY <2>1, <2>3, <2>5, Zenon
<1>10. CASE count # 0
  <2>1. StrNCat(m, dest, src, count)
          = [MemCpy(m, end, src, n) EXCEPT ![end + n] = 0]
    BY <1>10 DEF StrNCat
  <2>2. MemCpy(m, end, src, n) = Moved(m, end, src, n)
    <3>1. MEM \in Nat /\ end \in Nat /\ src \in Nat
      BY <1>1, StringsAssumption DEF Addr
    <3> HIDE DEF end, l, n
    <3>2. n \in Nat /\ end + n <= MEM /\ src + n <= MEM
      BY <3>1, <1>1, <1>7
    <3>3. end \notin src + 1 .. src + n - 1
      <4>1. n \in 0 .. l + 1
        BY <1>1, <1>7
      <4> QED BY <1>1, <4>1
    <3> QED BY <3>1, <3>2, <3>3, ForwardMoves
  <2>3. StrNCat(m, dest, src, count) = c
    <3> HIDE DEF end, n
    <3> QED BY <2>1, <2>2
  <2> HIDE DEF c, n
  <2> QED BY <2>3, <1>6, <1>8
<1> QED BY <1>9, <1>10

\* strncpy() with a count behind the terminator copies the string.
LEMMA NCpyCopies ==
  ASSUME NEW m \in [Addr -> Char], NEW dest \in Addr, NEW src \in Addr,
         IsString(m, dest), IsString(m, src), Apart(m, dest, src), NEW count \in Nat,
         count > StrLen(m, src)
  PROVE  Chars(StrNCpy(m, dest, src, count), dest) = Chars(m, src)
<1> DEFINE l == StrLen(m, src)
           c == Moved(m, dest, src, l + 1)
           q == Chars(m, src)
<1>1. /\ dest \in Addr /\ l \in Nat /\ m[src + l] = 0
      /\ dest + l + 1 <= MEM /\ src + l + 1 <= MEM
      /\ \A k \in 0 .. l + 1 : dest \notin src + 1 .. src + k - 1
  BY ApartBounds
<1>2. /\ q \in Seq(Char) /\ Len(q) = l
      /\ \A i \in 1..l : q[i] = m[src + i - 1] /\ m[src + i - 1] # 0
  BY Characters
<1>3. StrNCpy(m, dest, src, count) = MemCpy(m, dest, src, l + 1)
  <2>1. StrNLen(m, src, count) = IF count < l THEN count ELSE l
    BY BoundedLength
  <2>2. StrNLen(m, src, count) = l /\ l < count
    <3> HIDE DEF l
    <3>1. count > l
      BY DEF l
    <3> QED BY <1>1, <2>1, <3>1
  <2> QED BY <2>2 DEF StrNCpy
<1> HIDE DEF l, q
<1>4. MEM \in Nat /\ dest \in Nat /\ src \in Nat
  BY StringsAssumption DEF Addr
<1>5. MemCpy(m, dest, src, l + 1) = c
  BY <1>1, <1>4, ForwardMoves
<1>6. c \in [Addr -> Char]
  <2>1. \A a \in dest .. dest + (l + 1) - 1 : src + a - dest \in Addr
    BY <1>1, <1>4 DEF Addr
  <2> QED BY <2>1 DEF Moved
<1>7. dest + l \in Addr /\ c[dest + l] = 0
  <2>1. dest + l \in Addr /\ dest + l \in dest .. dest + (l + 1) - 1
        /\ src + (dest + l) - dest = src + l
    BY <1>1, <1>4 DEF Addr
  <2> QED BY <2>1, <1>1 DEF Moved
<1>8. ASSUME NEW i \in 1..l PROVE c[dest + i - 1] = q[i] /\ q[i] # 0
  <2>1. /\ dest + i - 1 \in Addr
        /\ dest + i - 1 \in dest .. dest + (l + 1) - 1
        /\ src + (dest + i - 1) - dest = src + i - 1
    BY <1>1, <1>4 DEF Addr
  <2>2. c[dest + i - 1] = m[src + i - 1]
    BY <2>1 DEF Moved
  <2> HIDE DEF c
  <2> QED BY <2>2, <1>2
<1>9. Chars(c, dest) = q
  <2> HIDE DEF c
  <2> QED BY <1>2, <1>6, <1>7, <1>8, StringIs
<1> QED BY <1>3, <1>5, <1>9 DEF q

\* memmove() copies for all areas that overlap, memcpy() for those it may, and the
\* strings that strcat(), strncat() and strncpy() leave are the right ones, whatever
\* the size of the memory, the characters in it, and the places and counts.
THEOREM CopiesHold == Spec => []Copies
<1>1. LibraryInv => Copies
  <2> SUFFICES ASSUME LibraryInv PROVE Copies
    OBVIOUS
  <2>1. mem \in [Addr -> Char] /\ MEM \in Nat
    BY StringsAssumption DEF LibraryInv
  <2>2. ASSUME NEW dest \in Addr, NEW src \in Addr, NEW n \in 0 .. MEM - Larger(dest, src)
        PROVE  /\ MemMove(mem, dest, src, n) = Moved(mem, dest, src, n)
               /\ dest \notin src + 1 .. src + n - 1 =>
                    MemCpy(mem, dest, src, n) = Moved(mem, dest, src, n)
    <3>1. dest \in Nat /\ src \in Nat /\ n \in Nat /\ dest + n <= MEM /\ src + n <= MEM
      BY <2>1 DEF Addr, Larger
    <3>2. MemMove(mem, dest, src, n) = Moved(mem, dest, src, n)
      BY <2>1, <3>1, MoveMoves
    <3>3. dest \notin src + 1 .. src + n - 1 =>
            MemCpy(mem, dest, src, n) = Moved(mem, dest, src, n)
      BY <2>1, <3>1, ForwardMoves
    <3> QED BY <3>2, <3>3
  <2>3. ASSUME NEW dest \in Strings, NEW src \in Strings
        PROVE  LET first == Chars(mem, dest)
                   second == Chars(mem, src)
                   end == dest + Len(first) + Len(second)
               IN  end \in Addr /\ (dest..end) \cap (src .. src + Len(second)) = {} =>
                     /\ Chars(StrCat(mem, dest, src), dest) = first \o second
                     /\ \A n \in 0..MEM :
                          /\ Chars(StrNCat(mem, dest, src, n), dest)
                               = first \o Upto(second, n)
                          /\ n > Len(second) =>
                               Chars(StrNCpy(mem, dest, src, n), dest) = second
    <3>1. /\ dest \in Addr /\ IsString(mem, dest)
          /\ src \in Addr /\ IsString(mem, src)
      BY DEF Strings
    <3>2. Len(Chars(mem, dest)) = StrLen(mem, dest) /\ Len(Chars(mem, src)) = StrLen(mem, src)
      BY <2>1, <3>1, Characters
    <3> SUFFICES ASSUME Apart(mem, dest, src)
                 PROVE  /\ Chars(StrCat(mem, dest, src), dest)
                             = Chars(mem, dest) \o Chars(mem, src)
                        /\ \A n \in 0..MEM :
                             /\ Chars(StrNCat(mem, dest, src, n), dest)
                                  = Chars(mem, dest) \o Upto(Chars(mem, src), n)
                             /\ n > StrLen(mem, src) =>
                                  Chars(StrNCpy(mem, dest, src, n), dest)
                                    = Chars(mem, src)
      BY <3>2 DEF Apart
    <3>3. Chars(StrCat(mem, dest, src), dest) = Chars(mem, dest) \o Chars(mem, src)
      BY <2>1, <3>1, CatAppends
    <3>4. ASSUME NEW n \in 0..MEM
          PROVE  Chars(StrNCat(mem, dest, src, n), dest)
                   = Chars(mem, dest) \o Upto(Chars(mem, src), n)
      BY <2>1, <3>1, NCatAppends
    <3>5. ASSUME NEW n \in 0..MEM, n > StrLen(mem, src)
          PROVE  Chars(StrNCpy(mem, dest, src, n), dest) = Chars(mem, src)
      BY <2>1, <3>1, <3>5, NCpyCopies
    <3> QED BY <3>3, <3>4, <3>5
  <2> QED BY <2>2, <2>3 DEF Copies, Moved
<1> QED BY <1>1, LibraryInvariance, PTL

-----------------------------------------------------------------------------
(* Comparisons and searches                                                *)

\* Searches upwards and downwards: a place in stop has what v says, and another
\* what the next place has.
Upward(lo, hi, stop, v, f) ==
  [k \in lo..hi |-> IF k \in stop THEN v[k] ELSE f[k + 1]]
Downward(lo, hi, stop, v, f) ==
  [k \in lo..hi |-> IF k \in stop THEN v[k] ELSE f[k - 1]]

\* The search from a place returns what v says of the first place in stop: its equation
\* has a solution, and every solution has that value.
FoundUp(lo, hi, stop, v, from) ==
  \E x \in stop : /\ from <= x /\ \A j \in from .. x - 1 : j \notin stop
                  /\ \E f : f = Upward(lo, hi, stop, v, f)
                  /\ \A f : f = Upward(lo, hi, stop, v, f) => f[from] = v[x]
FoundDown(lo, hi, stop, v, from) ==
  \E x \in stop : /\ x <= from /\ \A j \in x + 1 .. from : j \notin stop
                  /\ \E f : f = Downward(lo, hi, stop, v, f)
                  /\ \A f : f = Downward(lo, hi, stop, v, f) => f[from] = v[x]

\* What a search upwards returns: what it finds at the first place it stops at,
\* if it stops at the last place there is.
LEMMA SearchUp ==
  ASSUME NEW lo \in Int, NEW hi \in Int, NEW stop \in SUBSET (lo..hi), hi \in stop,
         NEW v, NEW from \in lo..hi
  PROVE  FoundUp(lo, hi, stop, v, from)
<1> DEFINE After(f) == [k \in lo..hi |-> IF k \in stop THEN v[k] ELSE f[k + 1]]
           Is(k, x) == k <= x /\ \A y \in stop : k <= y => x <= y
           h == [k \in lo..hi |-> CHOOSE x \in stop : Is(k, x)]
           g == [k \in lo..hi |-> v[h[k]]]
<1>1. ASSUME NEW k \in lo..hi PROVE \E x \in stop : Is(k, x)
  <2> DEFINE T == {i \in Nat : k + i \in stop}
  <2>1. hi - k \in T /\ T \subseteq Nat
    OBVIOUS
  <2>2. PICK i \in T : \A j \in T : i <= j
    <3> HIDE DEF T
    <3> QED BY <2>1, LeastNatural
  <2>3. ASSUME NEW y \in stop, k <= y PROVE k + i <= y
    <3>1. y \in Int
      OBVIOUS
    <3>2. y - k \in T
      BY <2>3, <3>1
    <3> QED BY <2>2, <3>1, <3>2
  <2>4. k + i \in stop /\ k <= k + i
    OBVIOUS
  <2> QED BY <2>3, <2>4
<1>2. \A k \in lo..hi : h[k] \in stop /\ Is(k, h[k])
  <2> HIDE DEF Is
  <2> QED BY <1>1
<1>3. ASSUME NEW k \in lo..hi
      PROVE  h[k] = IF k \in stop THEN k ELSE h[k + 1]
  <2>0. lo..hi \subseteq Int
    OBVIOUS
  <2>1. h[k] \in Int /\ h[k] \in stop /\ Is(k, h[k])
    BY <1>2, <2>0
  <2> HIDE DEF h
  <2>2. CASE k \in stop
    BY <2>1, <2>2
  <2>3. CASE k \notin stop
    <3>1. k # hi /\ k + 1 \in lo..hi
      BY <2>3
    <3>2. h[k + 1] \in Int /\ h[k + 1] \in stop /\ Is(k + 1, h[k + 1])
      BY <1>2, <2>0, <3>1
    <3>3. h[k] # k
      BY <2>1, <2>3
    <3>4. h[k] <= h[k + 1] /\ h[k + 1] <= h[k]
      BY <2>1, <3>2, <3>3
    <3> QED BY <2>1, <2>3, <3>2, <3>4
  <2> QED BY <2>2, <2>3
<1>4. g = After(g)
  <2>1. ASSUME NEW k \in lo..hi PROVE g[k] = IF k \in stop THEN v[k] ELSE g[k + 1]
    <3> HIDE DEF h
    <3>1. k \notin stop => k + 1 \in lo..hi
      OBVIOUS
    <3> QED BY <1>3, <3>1
  <2>2. g = [k \in lo..hi |-> g[k]]
    OBVIOUS
  <2> HIDE DEF g
  <2> QED BY <2>1, <2>2
<1>5. ASSUME NEW f, f = After(f) PROVE f[from] = g[from]
  <2> DEFINE T == {i \in 0 .. hi - lo : f[hi - i] # g[hi - i]}
  <2>1. ASSUME NEW k \in lo..hi PROVE f[k] = IF k \in stop THEN v[k] ELSE f[k + 1]
    <3>1. After(f)[k] = IF k \in stop THEN v[k] ELSE f[k + 1]
      OBVIOUS
    <3> HIDE DEF After
    <3> QED BY <1>5, <3>1
  <2>2. ASSUME NEW k \in lo..hi PROVE g[k] = IF k \in stop THEN v[k] ELSE g[k + 1]
    <3>1. After(g)[k] = IF k \in stop THEN v[k] ELSE g[k + 1]
      <4> HIDE DEF g
      <4> QED OBVIOUS
    <3> HIDE DEF After, g
    <3> QED BY <1>4, <3>1
  <2> HIDE DEF g
  <2>3. T = {}
    <3> SUFFICES ASSUME T # {} PROVE FALSE
      OBVIOUS
    <3>1. PICK i \in T : \A j \in T : i <= j
      <4>1. T \subseteq Nat
        OBVIOUS
      <4> HIDE DEF T
      <4> QED BY <4>1, LeastNatural
    <3>2. i \in 0 .. hi - lo /\ hi - i \in lo..hi /\ f[hi - i] # g[hi - i]
      OBVIOUS
    <3>3. hi - i \notin stop
      BY <2>1, <2>2, <3>2
    <3>4. i - 1 \in 0 .. hi - lo /\ hi - (i - 1) = (hi - i) + 1
      BY <3>2, <3>3
    <3>5. i - 1 \notin T
      <4>1. ~ (i <= i - 1)
        BY <3>2
      <4> HIDE DEF T
      <4> QED BY <3>1, <4>1
    <3>6. f[(hi - i) + 1] = g[(hi - i) + 1]
      BY <3>4, <3>5
    <3> QED BY <2>1, <2>2, <3>2, <3>3, <3>6
  <2>4. hi - from \in 0 .. hi - lo /\ hi - (hi - from) = from
    OBVIOUS
  <2> QED BY <2>3, <2>4
<1>6. h[from] \in stop /\ Is(from, h[from]) /\ g[from] = v[h[from]]
  <2> HIDE DEF h, Is
  <2> QED BY <1>2
<1>7. \A j \in from .. h[from] - 1 : j \notin stop
  <2>1. ASSUME NEW x \in stop, Is(from, x)
        PROVE  \A j \in from .. x - 1 : j \notin stop
    <3>1. x \in Int /\ \A y \in stop : from <= y => x <= y
      BY <2>1
    <3>2. ASSUME NEW j \in from .. x - 1, j \in stop PROVE FALSE
      BY <3>1, <3>2
    <3> QED BY <3>2
  <2> HIDE DEF h, Is
  <2> QED BY <1>6, <2>1
<1>8. from <= h[from]
  <2> HIDE DEF h
  <2> QED BY <1>6
<1>9. \E f : f = After(f)
  <2> HIDE DEF g, After
  <2> QED BY <1>4
<1>10. \A f : f = After(f) => f[from] = v[h[from]]
  <2> HIDE DEF g, h, After
  <2> QED BY <1>5, <1>6
<1> HIDE DEF h, g
<1>11. \A f : Upward(lo, hi, stop, v, f) = After(f)
  BY DEF Upward
<1> HIDE DEF After
<1> QED BY <1>6, <1>7, <1>8, <1>9, <1>10, <1>11 DEF FoundUp

\* The same for a search downwards.
LEMMA SearchDown ==
  ASSUME NEW lo \in Int, NEW hi \in Int, NEW stop \in SUBSET (lo..hi), lo \in stop,
         NEW v, NEW from \in lo..hi
  PROVE  FoundDown(lo, hi, stop, v, from)
<1> DEFINE After(f) == [k \in lo..hi |-> IF k \in stop THEN v[k] ELSE f[k - 1]]
           back == {-k : k \in stop}
           w == [k \in -hi .. -lo |-> v[-k]]
           Up(f) == [k \in -hi .. -lo |-> IF k \in back THEN w[k] ELSE f[k + 1]]
           Mirror(f) == [k \in -hi .. -lo |-> f[-k]]
           Returned(f) == [k \in lo..hi |-> f[-k]]
<1>0. \A k \in lo..hi : -k \in -hi .. -lo /\ -(-k) = k
  OBVIOUS
<1>00. \A k \in -hi .. -lo : -k \in lo..hi /\ -(-k) = k /\ -(k + 1) = -k - 1
  OBVIOUS
<1>1. \A k \in -hi .. -lo : k \in back <=> -k \in stop
  <2>1. ASSUME NEW k \in -hi .. -lo, k \in back PROVE -k \in stop
    <3>1. PICK j \in stop : k = -j
      BY <2>1
    <3>2. -k = j
      BY <3>1
    <3> QED BY <3>2
  <2>2. ASSUME NEW k \in -hi .. -lo, -k \in stop PROVE k \in back
    <3>1. k = -(-k)
      OBVIOUS
    <3> QED BY <2>2, <3>1
  <2> QED BY <2>1, <2>2
<1>2. back \in SUBSET (-hi .. -lo) /\ -lo \in back /\ -from \in -hi .. -lo
  OBVIOUS
<1>3. -hi \in Int /\ -lo \in Int
  OBVIOUS
<1>4. PICK y \in back :
        /\ -from <= y /\ \A j \in -from .. y - 1 : j \notin back
        /\ \E f : f = Up(f)
        /\ \A f : f = Up(f) => f[-from] = w[y]
  <2>1. \A f : Upward(-hi, -lo, back, w, f) = Up(f)
    <3> HIDE DEF back, w
    <3> QED BY DEF Upward
  <2>2. \E y \in back :
          /\ -from <= y /\ \A j \in -from .. y - 1 : j \notin back
          /\ \E f : f = Upward(-hi, -lo, back, w, f)
          /\ \A f : f = Upward(-hi, -lo, back, w, f) => f[-from] = w[y]
    <3> HIDE DEF back, w
    <3>1. FoundUp(-hi, -lo, back, w, -from)
      BY <1>2, <1>3, SearchUp
    <3> QED BY <3>1 DEF FoundUp
  <2> HIDE DEF back, w, Up
  <2> QED BY <2>1, <2>2
<1>5. -y \in stop /\ y \in -hi .. -lo /\ w[y] = v[-y] /\ y \in Int
  <2>1. y \in -hi .. -lo
    BY <1>2
  <2>2. -y \in stop
    <3> HIDE DEF back
    <3> QED BY <1>1, <2>1
  <2> QED BY <2>1, <2>2
<1>6. -y <= from /\ \A j \in -y + 1 .. from : j \notin stop
  <2> HIDE DEF back
  <2>1. -y <= from
    BY <1>4, <1>5
  <2>2. ASSUME NEW j \in -y + 1 .. from PROVE j \notin stop
    <3>1. -j \in -from .. y - 1 /\ j \in lo..hi
      BY <1>5
    <3>2. -j \in -hi .. -lo /\ -(-j) = j
      BY <3>1, <1>0
    <3> QED BY <1>1, <1>4, <3>1, <3>2
  <2> QED BY <2>1, <2>2
<1>7. \E f : f = After(f)
  <2>1. PICK f : f = Up(f)
    BY <1>4
  <2>2. \A k \in -hi .. -lo : f[k] = IF k \in back THEN w[k] ELSE f[k + 1]
    <3>1. \A k \in -hi .. -lo : Up(f)[k] = IF k \in back THEN w[k] ELSE f[k + 1]
      <4> HIDE DEF back, w
      <4> QED OBVIOUS
    <3> HIDE DEF Up, back, w
    <3> QED BY <2>1, <3>1
  <2>3. \A k \in -hi .. -lo : w[k] = v[-k]
    OBVIOUS
  <2> HIDE DEF back, w
  <2>4. ASSUME NEW k \in lo..hi
        PROVE  Returned(f)[k] = IF k \in stop THEN v[k] ELSE Returned(f)[k - 1]
    <3>1. -k \in -hi .. -lo /\ -(-k) = k
      BY <1>0
    <3>2. Returned(f)[k] = IF k \in stop THEN v[k] ELSE f[-k + 1]
      BY <1>1, <2>2, <2>3, <3>1
    <3>3. k \notin stop => k - 1 \in lo..hi /\ -(k - 1) = -k + 1
      OBVIOUS
    <3> QED BY <3>2, <3>3
  <2>5. Returned(f) = After(Returned(f))
    <3>1. Returned(f) = [k \in lo..hi |-> Returned(f)[k]]
      OBVIOUS
    <3> HIDE DEF Returned
    <3> QED BY <2>4, <3>1
  <2> HIDE DEF Returned, After
  <2> QED BY <2>5
<1>8. ASSUME NEW f, f = After(f) PROVE f[from] = v[-y]
  <2>1. \A k \in lo..hi : f[k] = IF k \in stop THEN v[k] ELSE f[k - 1]
    <3>1. \A k \in lo..hi : After(f)[k] = IF k \in stop THEN v[k] ELSE f[k - 1]
      OBVIOUS
    <3> HIDE DEF After
    <3> QED BY <1>8, <3>1
  <2>2. ASSUME NEW k \in -hi .. -lo
        PROVE  Mirror(f)[k] = IF k \in back THEN w[k] ELSE Mirror(f)[k + 1]
    <3>1. -k \in lo..hi /\ -(k + 1) = -k - 1
      BY <1>00
    <3>2. w[k] = v[-k]
      OBVIOUS
    <3> HIDE DEF back, w
    <3>3. Mirror(f)[k] = IF k \in back THEN w[k] ELSE f[-k - 1]
      BY <1>1, <2>1, <3>1, <3>2
    <3>4. k \notin back => k + 1 \in -hi .. -lo
      BY <1>1, <1>2
    <3> QED BY <3>1, <3>3, <3>4
  <2>3. Mirror(f) = Up(Mirror(f))
    <3>1. Mirror(f) = [k \in -hi .. -lo |-> Mirror(f)[k]]
      OBVIOUS
    <3> HIDE DEF Mirror, back, w
    <3> QED BY <2>2, <3>1
  <2>4. Mirror(f)[-from] = f[from]
    BY <1>0, <1>2
  <2>5. Mirror(f)[-from] = w[y]
    <3> HIDE DEF Mirror, Up, w
    <3> QED BY <1>4, <2>3
  <2> HIDE DEF Mirror, w
  <2> QED BY <2>4, <2>5, <1>5
<1>9. \A f : Downward(lo, hi, stop, v, f) = After(f)
  BY DEF Downward
<1> HIDE DEF After
<1>10. \A f : f = After(f) => f[from] = v[-y]
  BY <1>8
<1> QED BY <1>5, <1>6, <1>7, <1>9, <1>10 DEF FoundDown

\* memscan() stops at the first c, or at the limit.
Scanned(m, addr, c, size) ==
  \E x \in 0..size : /\ x = size \/ m[addr + x] = c
                     /\ \A j \in 0 .. x - 1 : j # size /\ m[addr + j] # c
                     /\ MemScan(m, addr, c, size) = addr + x

\* memscan() stops at c or behind the area.
LEMMA MemScanIs ==
  ASSUME NEW m, NEW addr \in Nat, NEW c, NEW size \in Nat
  PROVE  Scanned(m, addr, c, size)
<1> DEFINE stop == {k \in 0..size : k = size \/ m[addr + k] = c}
           v == [k \in 0..size |-> addr + k]
           Body(p) == [k \in 0..size |-> IF k = size \/ m[addr + k] = c THEN addr + k
                                         ELSE p[k + 1]]
<1>1. FoundUp(0, size, stop, v, 0)
  <2>1. stop \in SUBSET (0..size) /\ size \in stop
    OBVIOUS
  <2> HIDE DEF stop, v
  <2> QED BY <2>1, SearchUp
<1>2. \A f : Upward(0, size, stop, v, f) = Body(f)
  BY DEF Upward
<1>3. MemScan(m, addr, c, size) = (CHOOSE p : p = Body(p))[0]
  BY DEF MemScan
<1>4. PICK x \in stop :
        /\ 0 <= x /\ \A j \in 0 .. x - 1 : j \notin stop
        /\ \E f : f = Body(f)
        /\ \A f : f = Body(f) => f[0] = v[x]
  <2> HIDE DEF stop, v, Body
  <2> QED BY <1>1, <1>2 DEF FoundUp
<1>5. (CHOOSE p : p = Body(p))[0] = v[x]
  <2> HIDE DEF stop, v, Body
  <2> QED BY <1>4
<1>6. \A j \in 0 .. x - 1 : j # size /\ m[addr + j] # c
  <2>1. x \in 0..size
    OBVIOUS
  <2>2. \A j \in 0 .. x - 1 : j \in 0..size
    BY <2>1
  <2> QED BY <1>4, <2>2
<1> HIDE DEF Body
<1> QED BY <1>3, <1>5, <1>6 DEF Scanned

\* A difference of two characters in a signed char is 0 just when they are equal.
LEMMA DifferenceIsZero ==
  ASSUME NEW x \in Char, NEW y \in Char
  PROVE  /\ SignedChar(x - y) = 0 <=> x = y
         /\ SignedChar(Signed(x) - Signed(y)) = 0 <=> x = y
<1> DEFINE half == CHAR \div 2
<1>1. CHAR \in Nat \ {0} /\ half \in Nat /\ CHAR = 2 * half /\ 0 < half
  <2>1. CHAR \in Nat \ {0} /\ CHAR % 2 = 0
    BY StringsAssumption
  <2> QED BY <2>1
<1>2. x \in Int /\ y \in Int /\ 0 <= x /\ x < CHAR /\ 0 <= y /\ y < CHAR
  BY <1>1 DEF Char
<1>3. \A n \in Int : n % CHAR \in 0 .. CHAR - 1 /\ n \div CHAR \in Int
                     /\ n = (n \div CHAR) * CHAR + (n % CHAR)
  BY <1>1
<1>4. ASSUME NEW n \in -(CHAR - 1) .. CHAR - 1 PROVE n % CHAR = 0 <=> n = 0
  <2>1. CASE n % CHAR = 0
    <3> DEFINE d == n \div CHAR
    <3>1. d \in Int /\ n = d * CHAR
      BY <1>1, <1>3, <2>1
    <3> HIDE DEF d
    <3>2. ~ (d >= 1)
      <4>1. ASSUME d >= 1 PROVE FALSE
        <5>1. d * CHAR >= CHAR
          BY <1>1, <3>1, <4>1
        <5> QED BY <1>1, <3>1, <5>1
      <4> QED BY <4>1
    <3>3. ~ (d <= -1)
      <4>1. ASSUME d <= -1 PROVE FALSE
        <5>1. d * CHAR <= -CHAR
          BY <1>1, <3>1, <4>1
        <5> QED BY <1>1, <3>1, <5>1
      <4> QED BY <4>1
    <3>4. d = 0
      BY <3>1, <3>2, <3>3
    <3> QED BY <1>1, <2>1, <3>1, <3>4
  <2>2. CASE n = 0
    BY <1>1, <2>2
  <2> QED BY <2>1, <2>2
<1>5. \A n \in Int : SignedChar(n) = 0 <=> n % CHAR = 0
  BY <1>1, <1>3 DEF SignedChar, Signed
<1>6. \A z \in {x, y} : /\ Signed(z) \in -half .. half - 1
                        /\ z - Signed(z) \in {0, CHAR}
  BY <1>1, <1>2 DEF Signed
<1> HIDE DEF half
<1>7. SignedChar(x - y) = 0 <=> x = y
  <2>1. x - y \in -(CHAR - 1) .. CHAR - 1 /\ x - y \in Int
    BY <1>1, <1>2
  <2>2. SignedChar(x - y) = 0 <=> x - y = 0
    BY <2>1, <1>4, <1>5
  <2> QED BY <2>2, <1>2
<1>8. SignedChar(Signed(x) - Signed(y)) = 0 <=> x = y
  <2> DEFINE n == Signed(x) - Signed(y)
  <2>1. /\ Signed(x) \in Int /\ -half <= Signed(x) /\ Signed(x) <= half - 1
        /\ Signed(y) \in Int /\ -half <= Signed(y) /\ Signed(y) <= half - 1
    BY <1>1, <1>6
  <2>2. n \in -(CHAR - 1) .. CHAR - 1 /\ n \in Int
    BY <1>1, <2>1
  <2>3. n = 0 => x = y
    <3>1. x - Signed(x) \in {0, CHAR} /\ y - Signed(y) \in {0, CHAR}
      BY <1>6
    <3> QED BY <1>1, <1>2, <2>1, <3>1
  <2>4. x = y => n = 0
    BY <2>1
  <2>5. SignedChar(n) = 0 <=> n = 0
    <3> HIDE DEF n
    <3> QED BY <2>2, <1>4, <1>5
  <2> QED BY <2>3, <2>4, <2>5
<1> QED BY <1>7, <1>8

\* memcmp() answers 0 for equal areas only.
LEMMA MemCmpIs ==
  ASSUME NEW m \in [Addr -> Char], NEW cs \in Nat, NEW ct \in Nat, NEW count \in Nat,
         cs + count <= MEM, ct + count <= MEM
  PROVE  MemCmp(m, cs, ct, count) = 0 <=>
           \A j \in 0 .. count - 1 : m[cs + j] = m[ct + j]
<1> DEFINE d(k) == SignedChar(m[cs + k] - m[ct + k])
           stop == {k \in 0..count : k = count \/ d(k) # 0}
           v == [k \in 0..count |-> IF k = count THEN 0 ELSE d(k)]
           Body(f) == [k \in 0..count |-> IF k = count THEN 0
                                          ELSE IF d(k) # 0 THEN d(k) ELSE f[k + 1]]
<1>0. \A j \in 0 .. count - 1 : d(j) = 0 <=> m[cs + j] = m[ct + j]
  <2> SUFFICES ASSUME NEW j \in 0 .. count - 1
               PROVE  d(j) = 0 <=> m[cs + j] = m[ct + j]
    OBVIOUS
  <2>1. cs + j \in Addr /\ ct + j \in Addr
    BY StringsAssumption DEF Addr
  <2>2. m[cs + j] \in Char /\ m[ct + j] \in Char
    BY <2>1
  <2> QED BY <2>2, DifferenceIsZero
<1> HIDE DEF d
<1>1. FoundUp(0, count, stop, v, 0)
  <2>1. stop \in SUBSET (0..count) /\ count \in stop
    OBVIOUS
  <2> HIDE DEF stop, v
  <2> QED BY <2>1, SearchUp
<1>2. \A f : Upward(0, count, stop, v, f) = Body(f)
  <2> SUFFICES ASSUME NEW f PROVE Upward(0, count, stop, v, f) = Body(f)
    OBVIOUS
  <2>1. ASSUME NEW k \in 0..count
        PROVE  (IF k \in stop THEN v[k] ELSE f[k + 1])
                 = IF k = count THEN 0 ELSE IF d(k) # 0 THEN d(k) ELSE f[k + 1]
    OBVIOUS
  <2> HIDE DEF stop, v
  <2> QED BY <2>1 DEF Upward
<1>3. MemCmp(m, cs, ct, count) = (CHOOSE f : f = Body(f))[0]
  BY DEF MemCmp, d
<1>4. PICK x \in stop :
        /\ 0 <= x /\ \A j \in 0 .. x - 1 : j \notin stop
        /\ \E f : f = Body(f)
        /\ \A f : f = Body(f) => f[0] = v[x]
  <2> HIDE DEF stop, v, Body
  <2> QED BY <1>1, <1>2 DEF FoundUp
<1>5. MemCmp(m, cs, ct, count) = v[x]
  <2> HIDE DEF stop, v, Body
  <2> QED BY <1>3, <1>4
<1>6. x \in 0..count /\ (x = count \/ d(x) # 0)
  OBVIOUS
<1>7. \A j \in 0 .. x - 1 : d(j) = 0
  <2>1. \A j \in 0 .. x - 1 : j \in 0..count /\ j # count
    BY <1>6
  <2> QED BY <1>4, <2>1
<1>8. CASE x = count
  <2>1. v[x] = 0
    BY <1>8
  <2>2. \A j \in 0 .. count - 1 : m[cs + j] = m[ct + j]
    BY <1>0, <1>7, <1>8
  <2> QED BY <1>5, <2>1, <2>2
<1>9. CASE x # count
  <2>1. v[x] = d(x) /\ d(x) # 0 /\ x \in 0 .. count - 1
    BY <1>6, <1>9
  <2>2. m[cs + x] # m[ct + x]
    BY <1>0, <2>1
  <2> HIDE DEF v
  <2> QED BY <1>5, <2>1, <2>2
<1> QED BY <1>8, <1>9

\* The string that starts inside another.
LEMMA TailIs ==
  ASSUME NEW m \in [Addr -> Char], NEW s \in Addr, IsString(m, s),
         NEW a \in s .. s + StrLen(m, s)
  PROVE  a \in Addr /\ IsString(m, a) /\ StrLen(m, a) = s + StrLen(m, s) - a
<1> DEFINE l == StrLen(m, s)
           e == s + l
<1>1. l \in Nat /\ s + l \in Addr /\ m[s + l] = 0 /\ \A b \in s .. s + l - 1 : m[b] # 0
  BY AString
<1>2. MEM \in Nat /\ s \in Nat
  BY StringsAssumption DEF Addr
<1>3. a \in s .. s + l
  OBVIOUS
<1> HIDE DEF l
<1>4. a \in Addr /\ a \in Nat /\ e \in Addr /\ e \in a .. MEM - 1 /\ MEM - a \in Nat
  BY <1>1, <1>2, <1>3 DEF Addr
<1>5. IsString(m, a)
  BY <1>1, <1>4 DEF IsString
<1>6. e \in a .. a + (MEM - a) /\ \A b \in a .. e - 1 : m[b] # 0
  BY <1>1, <1>2, <1>3, <1>4
<1>7. EndWithin(m, a, MEM - a) = e
  <2>1. m[e] = 0
    BY <1>1
  <2> HIDE DEF e
  <2> QED BY <1>4, <1>6, <2>1, EndIs
<1>8. StrLen(m, a) = s + StrLen(m, s) - a
  <2>1. StrLen(m, a) = e - a
    <3> HIDE DEF e
    <3> QED BY <1>7 DEF StrLen
  <2> QED BY <1>1, <1>2, <2>1 DEF l
<1> QED BY <1>4, <1>5, <1>8

\* As much of two strings as count allows is the same when the characters are.
LEMMA SameUpto ==
  ASSUME NEW m \in [Addr -> Char], NEW s \in Addr, NEW t \in Addr,
         IsString(m, s), IsString(m, t), NEW n \in Nat
  PROVE  LET Short(l) == IF n < l THEN n ELSE l
         IN  Upto(Chars(m, s), n) = Upto(Chars(m, t), n) <=>
               /\ Short(StrLen(m, s)) = Short(StrLen(m, t))
               /\ \A j \in 0 .. Short(StrLen(m, s)) - 1 : m[s + j] = m[t + j]
<1> DEFINE ls == StrLen(m, s)
           lt == StrLen(m, t)
           Short(l) == IF n < l THEN n ELSE l
           first == Chars(m, s)
           second == Chars(m, t)
<1>1. ls \in Nat /\ lt \in Nat
  BY AString
<1>2. /\ first \in Seq(Char) /\ Len(first) = ls
      /\ \A i \in 1..ls : first[i] = m[s + i - 1]
  BY Characters
<1>3. /\ second \in Seq(Char) /\ Len(second) = lt
      /\ \A i \in 1..lt : second[i] = m[t + i - 1]
  BY Characters
<1>4. MEM \in Nat /\ s \in Nat /\ t \in Nat
  BY StringsAssumption DEF Addr
<1> HIDE DEF ls, lt, first, second
<1>5. /\ Short(ls) \in 0..ls /\ Short(lt) \in 0..lt
  BY <1>1
<1>6. /\ Upto(first, n) = SubSeq(first, 1, Short(ls))
      /\ Upto(second, n) = SubSeq(second, 1, Short(lt))
  BY <1>2, <1>3 DEF Upto
<1> HIDE DEF Short
<1>7. /\ Upto(first, n) \in Seq(Char) /\ Len(Upto(first, n)) = Short(ls)
      /\ \A i \in 1..Short(ls) : Upto(first, n)[i] = m[s + i - 1]
  BY <1>1, <1>2, <1>5, <1>6
<1>8. /\ Upto(second, n) \in Seq(Char) /\ Len(Upto(second, n)) = Short(lt)
      /\ \A i \in 1..Short(lt) : Upto(second, n)[i] = m[t + i - 1]
  BY <1>1, <1>3, <1>5, <1>6
<1>9. ASSUME Upto(first, n) = Upto(second, n)
      PROVE  /\ Short(ls) = Short(lt)
             /\ \A j \in 0 .. Short(ls) - 1 : m[s + j] = m[t + j]
  <2>1. Short(ls) = Short(lt)
    BY <1>7, <1>8, <1>9
  <2>2. ASSUME NEW j \in 0 .. Short(ls) - 1 PROVE m[s + j] = m[t + j]
    <3>1. j + 1 \in 1..Short(ls) /\ s + (j + 1) - 1 = s + j /\ t + (j + 1) - 1 = t + j
      BY <1>1, <1>4, <1>5
    <3> QED BY <1>7, <1>8, <1>9, <2>1, <3>1
  <2> QED BY <2>1, <2>2
<1>10. ASSUME Short(ls) = Short(lt),
              \A j \in 0 .. Short(ls) - 1 : m[s + j] = m[t + j]
       PROVE  Upto(first, n) = Upto(second, n)
  <2>1. ASSUME NEW i \in 1..Short(ls) PROVE Upto(first, n)[i] = Upto(second, n)[i]
    <3>1. i - 1 \in 0 .. Short(ls) - 1 /\ s + i - 1 = s + (i - 1) /\ t + i - 1 = t + (i - 1)
      BY <1>1, <1>4, <1>5
    <3>2. m[s + i - 1] = m[t + i - 1]
      BY <1>10, <3>1
    <3> QED BY <1>7, <1>8, <1>10, <3>2
  <2> QED BY <1>7, <1>8, <1>10, <2>1
<1> QED BY <1>9, <1>10 DEF first, second, ls, lt, Short

\* What strcmp() and strncmp() find at two strings: an end of both or of the count
\* when they are the same, and otherwise a difference.
LEMMA FirstDifference ==
  ASSUME NEW m \in [Addr -> Char], NEW s \in Addr, NEW t \in Addr,
         IsString(m, s), IsString(m, t), NEW n \in Nat, NEW x \in 0..n,
         \A j \in 0 .. x - 1 :
           SignedChar(Signed(m[s + j]) - Signed(m[t + j])) = 0 /\ m[s + j] # 0,
         x # n => SignedChar(Signed(m[s + x]) - Signed(m[t + x])) # 0 \/ m[s + x] = 0
  PROVE  Upto(Chars(m, s), n) = Upto(Chars(m, t), n) <=>
           x = n \/ SignedChar(Signed(m[s + x]) - Signed(m[t + x])) = 0
<1> DEFINE ls == StrLen(m, s)
           lt == StrLen(m, t)
           Short(l) == IF n < l THEN n ELSE l
           d(k) == SignedChar(Signed(m[s + k]) - Signed(m[t + k]))
           same == /\ Short(ls) = Short(lt)
                   /\ \A j \in 0 .. Short(ls) - 1 : m[s + j] = m[t + j]
<1>1. /\ ls \in Nat /\ s + ls \in Addr /\ m[s + ls] = 0
      /\ \A b \in s .. s + ls - 1 : m[b] # 0
  BY AString
<1>2. /\ lt \in Nat /\ t + lt \in Addr /\ m[t + lt] = 0
      /\ \A b \in t .. t + lt - 1 : m[b] # 0
  BY AString
<1>3. MEM \in Nat /\ s \in Nat /\ t \in Nat
  BY StringsAssumption DEF Addr
<1>4. \A k \in Nat : s + k \in Addr /\ t + k \in Addr =>
        (d(k) = 0 <=> m[s + k] = m[t + k])
  <2> SUFFICES ASSUME NEW k \in Nat, s + k \in Addr, t + k \in Addr
               PROVE  d(k) = 0 <=> m[s + k] = m[t + k]
    OBVIOUS
  <2>1. m[s + k] \in Char /\ m[t + k] \in Char
    OBVIOUS
  <2> QED BY <2>1, DifferenceIsZero
<1>5. /\ \A j \in 0 .. x - 1 : d(j) = 0 /\ m[s + j] # 0
      /\ x # n => d(x) # 0 \/ m[s + x] = 0
  OBVIOUS
<1>6. Upto(Chars(m, s), n) = Upto(Chars(m, t), n) <=> same
  BY SameUpto
<1> HIDE DEF ls, lt, d
<1>7. x <= ls
  <2>1. ~ (ls \in 0 .. x - 1)
    BY <1>1, <1>5
  <2> QED BY <1>1, <2>1
<1>8. \A k \in 0..ls : s + k \in Addr
  BY <1>1, <1>3 DEF Addr
<1>9. \A k \in 0..lt : t + k \in Addr
  BY <1>2, <1>3 DEF Addr
<1>10. x <= lt
  <2>1. ASSUME lt \in 0 .. x - 1 PROVE FALSE
    <3>1. s + lt \in Addr /\ t + lt \in Addr
      BY <1>1, <1>2, <1>7, <1>8, <2>1
    <3>2. m[s + lt] = m[t + lt]
      BY <1>4, <1>5, <2>1, <3>1
    <3> QED BY <1>2, <1>5, <2>1, <3>2
  <2> QED BY <1>2, <2>1
<1>11. \A j \in 0 .. x - 1 : m[s + j] = m[t + j]
  <2> SUFFICES ASSUME NEW j \in 0 .. x - 1 PROVE m[s + j] = m[t + j]
    OBVIOUS
  <2>1. s + j \in Addr /\ t + j \in Addr
    BY <1>1, <1>2, <1>7, <1>8, <1>9, <1>10
  <2> QED BY <1>4, <1>5, <2>1
<1>12. CASE x = n
  <2>1. Short(ls) = n /\ Short(lt) = n
    BY <1>1, <1>2, <1>7, <1>10, <1>12
  <2>2. same
    BY <1>11, <1>12, <2>1
  <2> HIDE DEF same
  <2> QED BY <1>6, <1>12, <2>2
<1>13. CASE x # n /\ m[s + x] = m[t + x]
  <2>1. s + x \in Addr /\ t + x \in Addr
    BY <1>1, <1>2, <1>7, <1>8, <1>9, <1>10
  <2>2. d(x) = 0
    BY <1>4, <1>13, <2>1
  <2>3. m[s + x] = 0 /\ m[t + x] = 0
    BY <1>5, <1>13, <2>2
  <2>4. ls = x
    <3>1. ~ (x < ls)
      <4>1. x < ls => s + x \in s .. s + ls - 1
        BY <1>1, <1>3
      <4> QED BY <1>1, <2>3, <4>1
    <3> QED BY <1>1, <1>7, <3>1
  <2>5. lt = x
    <3>1. ~ (x < lt)
      <4>1. x < lt => t + x \in t .. t + lt - 1
        BY <1>2, <1>3
      <4> QED BY <1>2, <2>3, <4>1
    <3> QED BY <1>2, <1>10, <3>1
  <2>6. Short(ls) = x
    BY <1>13, <2>4
  <2>7. same
    BY <1>11, <2>4, <2>5, <2>6
  <2> HIDE DEF same
  <2> QED BY <1>6, <2>2, <2>7 DEF d
<1>14. CASE x # n /\ m[s + x] # m[t + x]
  <2>1. s + x \in Addr /\ t + x \in Addr
    BY <1>1, <1>2, <1>7, <1>8, <1>9, <1>10
  <2>2. d(x) # 0
    BY <1>4, <1>14, <2>1
  <2>3. ASSUME same PROVE FALSE
    <3>1. ~ (x \in 0 .. Short(ls) - 1)
      BY <1>14, <2>3
    <3>2. ls = x /\ Short(ls) = x
      BY <1>1, <1>7, <1>14, <3>1
    <3>3. lt = x
      <4>1. Short(lt) = x
        BY <2>3, <3>2
      <4> QED BY <1>2, <1>14, <4>1
    <3> QED BY <1>1, <1>2, <1>14, <3>2, <3>3
  <2> HIDE DEF same
  <2> QED BY <1>6, <1>14, <2>2, <2>3 DEF d
<1> QED BY <1>12, <1>13, <1>14

\* strncmp() answers 0 when the strings agree as far as count reaches.
LEMMA StrNCmpIs ==
  ASSUME NEW m \in [Addr -> Char], NEW s \in Addr, NEW t \in Addr,
         IsString(m, s), IsString(m, t), NEW count \in Nat
  PROVE  StrNCmp(m, s, t, count) = 0 <=>
           Upto(Chars(m, s), count) = Upto(Chars(m, t), count)
<1> DEFINE d(k) == SignedChar(Signed(m[s + k]) - Signed(m[t + k]))
           stop == {k \in 0..count : k = count \/ d(k) # 0 \/ m[s + k] = 0}
           v == [k \in 0..count |-> IF k = count THEN 0 ELSE d(k)]
           Body(f) == [k \in 0..count |->
                         IF k = count THEN 0
                         ELSE IF d(k) # 0 \/ m[s + k] = 0 THEN d(k) ELSE f[k + 1]]
<1>1. StrNCmp(m, s, t, count) = (CHOOSE f : f = Body(f))[0]
  BY DEF StrNCmp
<1> HIDE DEF d
<1>2. FoundUp(0, count, stop, v, 0)
  <2>1. stop \in SUBSET (0..count) /\ count \in stop
    OBVIOUS
  <2> HIDE DEF stop, v
  <2> QED BY <2>1, SearchUp
<1>3. \A f : Upward(0, count, stop, v, f) = Body(f)
  <2> SUFFICES ASSUME NEW f PROVE Upward(0, count, stop, v, f) = Body(f)
    OBVIOUS
  <2>1. ASSUME NEW k \in 0..count
        PROVE  (IF k \in stop THEN v[k] ELSE f[k + 1])
                 = IF k = count THEN 0
                   ELSE IF d(k) # 0 \/ m[s + k] = 0 THEN d(k) ELSE f[k + 1]
    OBVIOUS
  <2> HIDE DEF stop, v
  <2> QED BY <2>1 DEF Upward
<1>4. PICK x \in stop :
        /\ 0 <= x /\ \A j \in 0 .. x - 1 : j \notin stop
        /\ \E f : f = Body(f)
        /\ \A f : f = Body(f) => f[0] = v[x]
  <2> HIDE DEF stop, v, Body
  <2> QED BY <1>2, <1>3 DEF FoundUp
<1>5. StrNCmp(m, s, t, count) = v[x]
  <2> HIDE DEF stop, v, Body
  <2> QED BY <1>1, <1>4
<1>6. x \in 0..count /\ (x = count \/ d(x) # 0 \/ m[s + x] = 0)
  OBVIOUS
<1>7. \A j \in 0 .. x - 1 : d(j) = 0 /\ m[s + j] # 0
  <2>1. \A j \in 0 .. x - 1 : j \in 0..count /\ j # count
    BY <1>6
  <2> QED BY <1>4, <2>1
<1>8. Upto(Chars(m, s), count) = Upto(Chars(m, t), count) <=> x = count \/ d(x) = 0
  BY <1>6, <1>7, FirstDifference DEF d
<1>9. v[x] = IF x = count THEN 0 ELSE d(x)
  BY <1>6
<1> HIDE DEF v
<1> QED BY <1>5, <1>8, <1>9

\* strcmp() answers 0 for equal strings only.
LEMMA StrCmpIs ==
  ASSUME NEW m \in [Addr -> Char], NEW s \in Addr, NEW t \in Addr,
         IsString(m, s), IsString(m, t)
  PROVE  StrCmp(m, s, t) = 0 <=> Chars(m, s) = Chars(m, t)
<1> DEFINE ls == StrLen(m, s)
           lt == StrLen(m, t)
           first == Chars(m, s)
           second == Chars(m, t)
           d(k) == SignedChar(Signed(m[s + k]) - Signed(m[t + k]))
           stop == {k \in 0..ls : d(k) # 0 \/ m[s + k] = 0}
           v == [k \in 0..ls |-> d(k)]
           Body(f) == [k \in 0..ls |->
                         IF d(k) # 0 \/ m[s + k] = 0 THEN d(k) ELSE f[k + 1]]
<1>1. ls \in Nat /\ m[s + ls] = 0 /\ lt \in Nat
  BY AString
<1>2. StrCmp(m, s, t) = (CHOOSE f : f = Body(f))[0]
  BY DEF StrCmp
<1> HIDE DEF d, ls, lt
<1>3. FoundUp(0, ls, stop, v, 0)
  <2>1. stop \in SUBSET (0..ls) /\ ls \in stop
    BY <1>1
  <2> HIDE DEF stop, v
  <2> QED BY <1>1, <2>1, SearchUp
<1>4. \A f : Upward(0, ls, stop, v, f) = Body(f)
  <2> SUFFICES ASSUME NEW f PROVE Upward(0, ls, stop, v, f) = Body(f)
    OBVIOUS
  <2>1. ASSUME NEW k \in 0..ls
        PROVE  (IF k \in stop THEN v[k] ELSE f[k + 1])
                 = IF d(k) # 0 \/ m[s + k] = 0 THEN d(k) ELSE f[k + 1]
    OBVIOUS
  <2> HIDE DEF stop, v
  <2> QED BY <2>1 DEF Upward
<1>5. PICK x \in stop :
        /\ 0 <= x /\ \A j \in 0 .. x - 1 : j \notin stop
        /\ \E f : f = Body(f)
        /\ \A f : f = Body(f) => f[0] = v[x]
  <2> HIDE DEF stop, v, Body
  <2> QED BY <1>3, <1>4 DEF FoundUp
<1>6. StrCmp(m, s, t) = v[x]
  <2> HIDE DEF stop, v, Body
  <2> QED BY <1>2, <1>5
<1>7. x \in 0..ls /\ (d(x) # 0 \/ m[s + x] = 0) /\ v[x] = d(x)
  OBVIOUS
<1>8. \A j \in 0 .. x - 1 : d(j) = 0 /\ m[s + j] # 0
  <2>1. \A j \in 0 .. x - 1 : j \in 0..ls
    BY <1>1, <1>7
  <2> QED BY <1>5, <2>1
<1>9. Upto(first, ls + 1) = Upto(second, ls + 1) <=> d(x) = 0
  <2>1. ls + 1 \in Nat /\ x \in 0 .. ls + 1 /\ x # ls + 1
    BY <1>1, <1>7
  <2> HIDE DEF stop, v
  <2> QED BY <1>7, <1>8, <2>1, FirstDifference DEF d
<1>10. Upto(first, ls + 1) = Upto(second, ls + 1) <=> first = second
  <2>1. first \in Seq(Char) /\ Len(first) = ls /\ second \in Seq(Char) /\ Len(second) = lt
    BY Characters DEF ls, lt
  <2> HIDE DEF first, second
  <2>2. Upto(first, ls + 1) = first
    BY <1>1, <2>1 DEF Upto
  <2>3. ASSUME Upto(second, ls + 1) = first PROVE first = second
    <3>1. CASE ls + 1 < lt
      <4>1. Len(Upto(second, ls + 1)) = ls + 1
        BY <1>1, <2>1, <3>1 DEF Upto
      <4> QED BY <1>1, <2>1, <2>3, <4>1
    <3>2. CASE ~ (ls + 1 < lt)
      BY <1>1, <2>1, <2>3, <3>2 DEF Upto
    <3> QED BY <3>1, <3>2
  <2> QED BY <2>2, <2>3
<1> HIDE DEF v
<1> QED BY <1>6, <1>7, <1>9, <1>10

\* Where c is in the string at s, and where the string at t stands in it.
Places(m, s, c) == {a \in s .. s + StrLen(m, s) : m[a] = c}
Starts(m, s, t) == {a \in s .. (s + StrLen(m, s)) - StrLen(m, t) :
                      SubSeq(Chars(m, a), 1, StrLen(m, t)) = Chars(m, t)}

\* The ends of a set of integers are found by showing them.
LEMMA FirstIs ==
  ASSUME NEW S \in SUBSET Int, NEW a \in S, \A b \in S : a <= b
  PROVE  FirstOf(S) = a
<1>1. FirstOf(S) = CHOOSE x \in S : \A b \in S : x <= b
  BY DEF FirstOf
<1>2. \A x \in S : (\A b \in S : x <= b) => x = a
  OBVIOUS
<1> QED BY <1>1, <1>2

LEMMA LastIs ==
  ASSUME NEW S \in SUBSET Int, NEW a \in S, \A b \in S : a >= b
  PROVE  LastOf(S) = a
<1>1. LastOf(S) = CHOOSE x \in S : \A b \in S : x >= b
  BY DEF LastOf
<1>2. \A x \in S : (\A b \in S : x >= b) => x = a
  OBVIOUS
<1> QED BY <1>1, <1>2

\* strchr() finds the first c, the terminator included.
LEMMA StrChrIs ==
  ASSUME NEW m \in [Addr -> Char], NEW s \in Addr, IsString(m, s), NEW c
  PROVE  StrChr(m, s, c) = FirstOf(Places(m, s, c))
<1> DEFINE end == s + StrLen(m, s)
           stop == {a \in s..end : m[a] = c \/ m[a] = 0}
           v == [a \in s..end |-> IF m[a] = c THEN a ELSE NULL]
           Body(f) == [a \in s..end |-> IF m[a] = c THEN a
                                        ELSE IF m[a] = 0 THEN NULL ELSE f[a + 1]]
           there == {a \in s..end : m[a] = c}
<1>1. /\ end \in Nat /\ s \in Nat /\ s <= end /\ m[end] = 0
      /\ \A b \in s .. end - 1 : m[b] # 0
  BY AString, StringsAssumption DEF Addr
<1>2. StrChr(m, s, c) = (CHOOSE f : f = Body(f))[s]
  BY DEF StrChr
<1> HIDE DEF end
<1>3. FoundUp(s, end, stop, v, s)
  <2>1. stop \in SUBSET (s..end) /\ end \in stop /\ s \in s..end
    BY <1>1
  <2> HIDE DEF stop, v
  <2> QED BY <1>1, <2>1, SearchUp
<1>4. \A f : Upward(s, end, stop, v, f) = Body(f)
  <2> SUFFICES ASSUME NEW f PROVE Upward(s, end, stop, v, f) = Body(f)
    OBVIOUS
  <2>1. ASSUME NEW k \in s..end
        PROVE  (IF k \in stop THEN v[k] ELSE f[k + 1])
                 = IF m[k] = c THEN k ELSE IF m[k] = 0 THEN NULL ELSE f[k + 1]
    OBVIOUS
  <2> HIDE DEF stop, v
  <2> QED BY <2>1 DEF Upward
<1>5. PICK x \in stop :
        /\ s <= x /\ \A j \in s .. x - 1 : j \notin stop
        /\ \E f : f = Body(f)
        /\ \A f : f = Body(f) => f[s] = v[x]
  <2> HIDE DEF stop, v, Body
  <2> QED BY <1>3, <1>4 DEF FoundUp
<1>6. StrChr(m, s, c) = v[x]
  <2> HIDE DEF stop, v, Body
  <2> QED BY <1>2, <1>5
<1>7. x \in s..end /\ (m[x] = c \/ m[x] = 0)
  OBVIOUS
<1>8. \A j \in s .. x - 1 : m[j] # c
  <2>1. \A j \in s .. x - 1 : j \in s..end
    BY <1>1, <1>7
  <2> QED BY <1>5, <2>1
<1>9. CASE m[x] = c
  <2>1. \A b \in there : x <= b
    BY <1>1, <1>7, <1>8
  <2>2. there \in SUBSET Int /\ x \in there
    BY <1>1, <1>7, <1>9
  <2>3. FirstOf(there) = x
    <3> HIDE DEF there
    <3> QED BY <2>1, <2>2, FirstIs
  <2>4. v[x] = x
    BY <1>7, <1>9
  <2> HIDE DEF v
  <2> QED BY <1>6, <2>3, <2>4 DEF end, Places
<1>10. CASE m[x] # c
  <2>1. x = end
    BY <1>1, <1>7, <1>10
  <2>2. there = {}
    BY <1>1, <1>7, <1>8, <1>10, <2>1
  <2>3. v[x] = NULL
    BY <1>7, <1>10
  <2> HIDE DEF v
  <2> QED BY <1>6, <2>2, <2>3 DEF FirstOf, end, Places
<1> QED BY <1>9, <1>10

\* strrchr() finds the last.
LEMMA StrRChrIs ==
  ASSUME NEW m \in [Addr -> Char], NEW s \in Addr, IsString(m, s), NEW c
  PROVE  StrRChr(m, s, c) = LastOf(Places(m, s, c))
<1> DEFINE end == s + StrLen(m, s)
           stop == {a \in s-1 .. MEM-1 : a < s \/ m[a] = c}
           v == [a \in s-1 .. MEM-1 |-> IF a < s THEN NULL ELSE a]
           Body(f) == [a \in s-1 .. MEM-1 |-> IF a < s THEN NULL
                                              ELSE IF m[a] = c THEN a ELSE f[a - 1]]
           there == {a \in s..end : m[a] = c}
<1>1. /\ end \in Nat /\ s \in Nat /\ s <= end /\ end \in s-1 .. MEM-1
      /\ s - 1 \in Int /\ MEM - 1 \in Int
  BY AString, StringsAssumption DEF Addr
<1>2. StrRChr(m, s, c) = (CHOOSE f : f = Body(f))[end]
  BY DEF StrRChr
<1> HIDE DEF end
<1>3. FoundDown(s - 1, MEM - 1, stop, v, end)
  <2>1. stop \in SUBSET (s-1 .. MEM-1) /\ s - 1 \in stop
    BY <1>1
  <2> HIDE DEF stop, v
  <2> QED BY <1>1, <2>1, SearchDown
<1>4. \A f : Downward(s - 1, MEM - 1, stop, v, f) = Body(f)
  <2> SUFFICES ASSUME NEW f PROVE Downward(s - 1, MEM - 1, stop, v, f) = Body(f)
    OBVIOUS
  <2>1. ASSUME NEW k \in s-1 .. MEM-1
        PROVE  (IF k \in stop THEN v[k] ELSE f[k - 1])
                 = IF k < s THEN NULL ELSE IF m[k] = c THEN k ELSE f[k - 1]
    OBVIOUS
  <2> HIDE DEF stop, v
  <2> QED BY <2>1 DEF Downward
<1>5. PICK x \in stop :
        /\ x <= end /\ \A j \in x + 1 .. end : j \notin stop
        /\ \E f : f = Body(f)
        /\ \A f : f = Body(f) => f[end] = v[x]
  <2> HIDE DEF stop, v, Body
  <2> QED BY <1>3, <1>4 DEF FoundDown
<1>6. StrRChr(m, s, c) = v[x]
  <2> HIDE DEF stop, v, Body
  <2> QED BY <1>2, <1>5
<1>7. x \in s-1 .. MEM-1 /\ x <= end /\ (x < s \/ m[x] = c)
  BY <1>5
<1>8. \A j \in x + 1 .. end : m[j] # c
  <2>1. \A j \in x + 1 .. end : j \in s-1 .. MEM-1
    BY <1>1, <1>7
  <2> QED BY <1>5, <2>1
<1>9. CASE s <= x
  <2>1. \A b \in there : x >= b
    BY <1>1, <1>7, <1>8
  <2>2. there \in SUBSET Int /\ x \in there
    BY <1>1, <1>7, <1>9
  <2>3. LastOf(there) = x
    <3> HIDE DEF there
    <3> QED BY <2>1, <2>2, LastIs
  <2>4. v[x] = x
    BY <1>1, <1>7, <1>9
  <2> HIDE DEF v
  <2> QED BY <1>6, <2>3, <2>4 DEF end, Places
<1>10. CASE x < s
  <2>2. there = {}
    BY <1>1, <1>7, <1>8, <1>10
  <2>3. v[x] = NULL
    BY <1>7, <1>10
  <2> HIDE DEF v
  <2> QED BY <1>6, <2>2, <2>3 DEF LastOf, end, Places
<1> QED BY <1>1, <1>7, <1>9, <1>10

\* strstr() finds the first place where the other string stands.
LEMMA StrStrIs ==
  ASSUME NEW m \in [Addr -> Char], NEW s \in Addr, NEW t \in Addr,
         IsString(m, s), IsString(m, t)
  PROVE  StrStr(m, s, t) = FirstOf(Starts(m, s, t))
<1> DEFINE l2 == StrLen(m, t)
           end == s + StrLen(m, s)
           late(a) == end - a < l2
           stop == {a \in s..end : late(a) \/ MemCmp(m, a, t, l2) = 0}
           v == [a \in s..end |-> IF late(a) THEN NULL ELSE a]
           Body(f) == [a \in s..end |->
                         IF late(a) THEN NULL
                         ELSE IF MemCmp(m, a, t, l2) = 0 THEN a ELSE f[a + 1]]
           starts == {a \in s .. end - l2 : SubSeq(Chars(m, a), 1, l2) = Chars(m, t)}
<1>00. Starts(m, s, t) = starts
  BY DEF Starts
<1>1. /\ end \in Nat /\ s \in Nat /\ s <= end /\ end \in Addr
  BY AString, StringsAssumption DEF Addr
<1>2. l2 \in Nat /\ t \in Nat /\ t + l2 \in Addr /\ MEM \in Nat
  BY AString, StringsAssumption DEF Addr
<1>3. Chars(m, t) \in Seq(Char) /\ Len(Chars(m, t)) = l2
  BY Characters
<1>4. StrStr(m, s, t) = IF l2 = 0 THEN s ELSE (CHOOSE f : f = Body(f))[s]
  BY DEF StrStr
<1>5. ASSUME NEW a \in s .. end - l2
      PROVE  SubSeq(Chars(m, a), 1, l2) = Chars(m, t) <=> MemCmp(m, a, t, l2) = 0
  <2>1. a \in s..end
    <3> HIDE DEF end, l2
    <3> QED BY <1>1, <1>2
  <2>2. a \in Addr /\ IsString(m, a) /\ StrLen(m, a) = end - a
    <3>1. StrLen(m, s) \in Nat /\ s \in Nat /\ a \in Int
      BY <1>1, <2>1, AString
    <3>2. /\ a \in Addr /\ IsString(m, a)
          /\ StrLen(m, a) = s + StrLen(m, s) - a
      BY <2>1, TailIs
    <3> QED BY <3>1, <3>2
  <2> DEFINE la == StrLen(m, a)
  <2>3. Chars(m, a) \in Seq(Char) /\ Len(Chars(m, a)) = la
    BY <2>2, Characters
  <2>4. Upto(Chars(m, a), l2) = Upto(Chars(m, t), l2) <=>
          /\ (IF l2 < la THEN l2 ELSE la) = (IF l2 < l2 THEN l2 ELSE l2)
          /\ \A j \in 0 .. (IF l2 < la THEN l2 ELSE la) - 1 : m[a + j] = m[t + j]
    <3>1. l2 \in Nat
      BY <1>2
    <3> QED BY <2>2, <3>1, SameUpto
  <2>5. la = end - a
    BY <2>2
  <2> HIDE DEF l2, la, end
  <2>6. (IF l2 < la THEN l2 ELSE la) = l2
    BY <1>1, <1>2, <2>5
  <2>7. Upto(Chars(m, a), l2) = SubSeq(Chars(m, a), 1, l2)
    BY <2>3, <2>6 DEF Upto
  <2>8. Upto(Chars(m, t), l2) = Chars(m, t)
    BY <1>2, <1>3 DEF Upto
  <2>9. Upto(Chars(m, a), l2) = Upto(Chars(m, t), l2) <=>
          \A j \in 0 .. l2 - 1 : m[a + j] = m[t + j]
    BY <1>2, <2>4, <2>6
  <2>10. a \in Nat /\ a + l2 <= MEM /\ t + l2 <= MEM
    BY <1>1, <1>2 DEF Addr
  <2>11. MemCmp(m, a, t, l2) = 0 <=> \A j \in 0 .. l2 - 1 : m[a + j] = m[t + j]
    BY <1>2, <2>10, MemCmpIs
  <2> QED BY <2>7, <2>8, <2>9, <2>11
<1>6. starts \in SUBSET Int
  <2> HIDE DEF end, l2
  <2> QED BY <1>1, <1>2
<1> HIDE DEF end, l2
<1>7. CASE l2 = 0
  <2>1. Chars(m, t) = << >>
    BY <1>3, <1>7
  <2>2. s \in s .. end - l2
    BY <1>1, <1>7
  <2>3. SubSeq(Chars(m, s), 1, l2) = << >>
    <3>1. Chars(m, s) \in Seq(Char)
      BY Characters
    <3> QED BY <3>1, <1>7
  <2>4. s \in starts /\ \A b \in starts : s <= b
    BY <1>1, <1>2, <2>1, <2>2, <2>3
  <2>5. FirstOf(starts) = s
    <3> HIDE DEF starts
    <3> QED BY <1>6, <2>4, FirstIs
  <2>6. StrStr(m, s, t) = s
    <3> HIDE DEF Body
    <3> QED BY <1>4, <1>7
  <2> HIDE DEF starts
  <2> QED BY <2>5, <2>6, <1>00
<1>8. CASE l2 # 0
  <2>1. FoundUp(s, end, stop, v, s)
    <3>1. stop \in SUBSET (s..end) /\ end \in stop /\ s \in s..end
      BY <1>1, <1>2, <1>8
    <3> HIDE DEF stop, v
    <3> QED BY <1>1, <3>1, SearchUp
  <2>2. \A f : Upward(s, end, stop, v, f) = Body(f)
    <3> SUFFICES ASSUME NEW f PROVE Upward(s, end, stop, v, f) = Body(f)
      OBVIOUS
    <3>1. ASSUME NEW k \in s..end
          PROVE  (IF k \in stop THEN v[k] ELSE f[k + 1])
                   = IF late(k) THEN NULL
                     ELSE IF MemCmp(m, k, t, l2) = 0 THEN k ELSE f[k + 1]
      <4> HIDE DEF late
      <4> QED OBVIOUS
    <3> HIDE DEF stop, v, late
    <3> QED BY <3>1 DEF Upward
  <2>3. PICK x \in stop :
          /\ s <= x /\ \A j \in s .. x - 1 : j \notin stop
          /\ \E f : f = Body(f)
          /\ \A f : f = Body(f) => f[s] = v[x]
    <3> HIDE DEF stop, v, Body
    <3> QED BY <2>1, <2>2 DEF FoundUp
  <2>4. StrStr(m, s, t) = v[x]
    <3> HIDE DEF stop, v, Body
    <3> QED BY <1>4, <1>8, <2>3
  <2>5. x \in s..end /\ (late(x) \/ MemCmp(m, x, t, l2) = 0)
    OBVIOUS
  <2>6. \A j \in s .. x - 1 : ~ late(j) /\ MemCmp(m, j, t, l2) # 0
    <3>1. \A j \in s .. x - 1 : j \in s..end
      BY <1>1, <2>5
    <3> HIDE DEF late
    <3> QED BY <2>3, <3>1
  <2>7. \A a \in s .. end - l2 : a \in starts <=> MemCmp(m, a, t, l2) = 0
    BY <1>5
  <2>8. CASE late(x)
    <3>1. \A a \in s .. end - l2 : a \in s .. x - 1
      BY <1>1, <1>2, <2>5, <2>8
    <3>2. starts = {}
      <4>1. \A a \in starts : a \in s .. end - l2
        OBVIOUS
      <4> HIDE DEF starts, late
      <4> QED BY <2>6, <2>7, <3>1, <4>1
    <3>3. v[x] = NULL
      BY <2>5, <2>8
    <3> HIDE DEF v, starts
    <3> QED BY <2>4, <3>2, <3>3, <1>00 DEF FirstOf
  <2>9. CASE ~ late(x)
    <3>1. x \in s .. end - l2 /\ MemCmp(m, x, t, l2) = 0
      BY <1>1, <1>2, <2>5, <2>9
    <3>2. x \in starts
      BY <2>7, <3>1
    <3>3. \A b \in starts : x <= b
      <4>1. ASSUME NEW b \in starts, b < x PROVE FALSE
        <5>1. b \in s .. end - l2
          OBVIOUS
        <5>2. MemCmp(m, b, t, l2) = 0
          BY <2>7, <5>1
        <5>3. b \in s .. x - 1
          BY <1>1, <1>2, <2>5, <4>1, <5>1
        <5> HIDE DEF late
        <5> QED BY <2>6, <5>2, <5>3
      <4>2. \A b \in starts : b \in Int
        BY <1>6
      <4> HIDE DEF starts
      <4> QED BY <1>1, <2>5, <4>1, <4>2
    <3>4. FirstOf(starts) = x
      <4> HIDE DEF starts
      <4> QED BY <1>6, <3>2, <3>3, FirstIs
    <3>5. v[x] = x
      BY <2>5, <2>9
    <3> HIDE DEF v
    <3> HIDE DEF starts
    <3> QED BY <2>4, <3>4, <3>5, <1>00
  <2> QED BY <2>8, <2>9
<1> QED BY <1>7, <1>8

\* The comparisons and searches find what they should, whatever the strings, their
\* places, the characters and the count.
THEOREM FindsHold == Spec => []Finds
<1>1. LibraryInv => Finds
  <2> SUFFICES ASSUME LibraryInv PROVE Finds
    OBVIOUS
  <2>1. mem \in [Addr -> Char] /\ MEM \in Nat
    BY StringsAssumption DEF LibraryInv
  <2> DEFINE Area(x, c) == {a \in x..MEM-1 : mem[a] = c} \cup {MEM}
  <2>2. ASSUME NEW s \in Strings, NEW t \in Strings
        PROVE  /\ (StrCmp(mem, s, t) = 0) = (Chars(mem, s) = Chars(mem, t))
               /\ \A n \in 0..MEM :
                    (StrNCmp(mem, s, t, n) = 0)
                      = (Upto(Chars(mem, s), n) = Upto(Chars(mem, t), n))
               /\ StrStr(mem, s, t) = FirstOf(Starts(mem, s, t))
               /\ \A c \in Char : /\ StrChr(mem, s, c) = FirstOf(Places(mem, s, c))
                                  /\ StrRChr(mem, s, c) = LastOf(Places(mem, s, c))
                                  /\ MemScan(mem, s, c, MEM - s) = FirstOf(Area(s, c))
    <3>1. s \in Addr /\ IsString(mem, s) /\ t \in Addr /\ IsString(mem, t)
      BY DEF Strings
    <3>2. (StrCmp(mem, s, t) = 0) = (Chars(mem, s) = Chars(mem, t))
      <4>1. StrCmp(mem, s, t) = 0 <=> Chars(mem, s) = Chars(mem, t)
        BY <2>1, <3>1, StrCmpIs
      <4> QED BY <4>1
    <3>3. ASSUME NEW n \in 0..MEM
          PROVE  (StrNCmp(mem, s, t, n) = 0)
                   = (Upto(Chars(mem, s), n) = Upto(Chars(mem, t), n))
      <4>1. StrNCmp(mem, s, t, n) = 0 <=>
              Upto(Chars(mem, s), n) = Upto(Chars(mem, t), n)
        BY <2>1, <3>1, StrNCmpIs
      <4> QED BY <4>1
    <3>4. StrStr(mem, s, t) = FirstOf(Starts(mem, s, t))
      BY <2>1, <3>1, StrStrIs
    <3>5. ASSUME NEW c \in Char
          PROVE  /\ StrChr(mem, s, c) = FirstOf(Places(mem, s, c))
                 /\ StrRChr(mem, s, c) = LastOf(Places(mem, s, c))
      BY <2>1, <3>1, StrChrIs, StrRChrIs
    <3>6. ASSUME NEW c \in Char
          PROVE  MemScan(mem, s, c, MEM - s) = FirstOf(Area(s, c))
      <4> DEFINE S == {a \in s..MEM-1 : mem[a] = c} \cup {MEM}
      <4>1. s \in Nat /\ MEM - s \in Nat
        BY <2>1, <3>1 DEF Addr
      <4>2. PICK x \in 0 .. MEM - s :
              /\ x = MEM - s \/ mem[s + x] = c
              /\ \A j \in 0 .. x - 1 : j # MEM - s /\ mem[s + j] # c
              /\ MemScan(mem, s, c, MEM - s) = s + x
        <5> DEFINE size == MEM - s
        <5>1. size \in Nat
          BY <4>1
        <5> HIDE DEF size
        <5>2. Scanned(mem, s, c, size)
          BY <4>1, <5>1, MemScanIs
        <5> QED BY <5>2 DEF size, Scanned
      <4>3. S \in SUBSET Int /\ s + x \in S
        BY <2>1, <4>1, <4>2
      <4>4. \A b \in S : s + x <= b
        <5>1. ASSUME NEW b \in S, b < s + x PROVE FALSE
          <6>1. b - s \in 0 .. x - 1 /\ s + (b - s) = b /\ b # MEM
            BY <2>1, <4>1, <4>2, <5>1
          <6>2. mem[b] = c
            BY <6>1
          <6> QED BY <4>2, <6>1, <6>2
        <5>2. \A b \in S : b \in Int
          BY <2>1
        <5> HIDE DEF S
        <5> QED BY <4>1, <5>1, <5>2
      <4>5. FirstOf(S) = s + x
        <5> HIDE DEF S
        <5> QED BY <4>3, <4>4, FirstIs
      <4> QED BY <4>2, <4>5
    <3> HIDE DEF Area
    <3> QED BY <3>2, <3>3, <3>4, <3>5, <3>6
  <2> QED BY <2>2 DEF Finds, Starts, Places
<1> QED BY <1>1, LibraryInvariance, PTL

-----------------------------------------------------------------------------
(* strtok()                                                                *)

\* What strtok() is asked about: the text up to its end, and the places in it that
\* no delimiter is at.
EndOf(t, s) == s + StrLen(t, s)
Within(t, s, ct) == {a \in s .. s + StrLen(t, s) - 1 : t[a] \notin In(t, ct)}
Begins(t, s, ct) == {a \in Within(t, s, ct) : a - 1 \notin Within(t, s, ct)}

\* How strtok() is called: the delimiters lie behind the text.
Asked(t, s, ct) == /\ t \in [Addr -> Char] /\ s \in Addr /\ ct \in Addr
                   /\ IsString(t, s) /\ IsString(t, ct) /\ ct > EndOf(t, s)

\* Where strtok() goes on, or behind the text when it has nothing left.
Frontier(t, s, from) == IF from = NULL THEN EndOf(t, s) + 1 ELSE from

\* The token at a is in memory as the text had it, and ended before f.
Token(t, m, s, ct, a, f) ==
  \E b \in a .. f - 1 : /\ m[b] = 0 /\ b \notin Within(t, s, ct)
                        /\ \A c \in a .. b - 1 : c \in Within(t, s, ct) /\ m[c] = t[c]

\* The memory m has been cut up to from, into the tokens toks.
Cut(t, m, from, toks, s, ct) ==
  /\ toks \in Seq(Int)
  /\ from # NULL => /\ from \in s .. EndOf(t, s) /\ from - 1 \notin Within(t, s, ct)
                    /\ \A a \in Addr : a >= from => m[a] = t[a]
  /\ \A i \in 1..Len(toks) : toks[i] = NULL => i = Len(toks) /\ from = NULL
  /\ \A i \in 1..Len(toks) : toks[i] # NULL =>
       /\ toks[i] \in Begins(t, s, ct) /\ toks[i] < Frontier(t, s, from)
       /\ Token(t, m, s, ct, toks[i], Frontier(t, s, from))
  /\ \A i, j \in 1..Len(toks) : i < j /\ toks[j] # NULL => toks[i] < toks[j]
  /\ \A a \in Begins(t, s, ct) :
       a < Frontier(t, s, from) => \E i \in 1..Len(toks) : toks[i] = a

\* What holds of memory and tokens between the calls of strtok(): the inductive invariant.
TokensInv ==
  IF call.s = NULL THEN tokens = << >>
  ELSE Asked(text, call.s, call.ct) /\ Cut(text, mem, strtok, tokens, call.s, call.ct)

\* strspn() counts the delimiters in front.
Spanned(m, s, ct) ==
  LET b == s + StrSpn(m, s, ct)
  IN  /\ b \in s .. EndOf(m, s)
      /\ m[b] = 0 \/ m[b] \notin In(m, ct)
      /\ \A j \in s .. b - 1 : m[j] # 0 /\ m[j] \in In(m, ct)

\* strspn() itself, by the search upwards.
LEMMA StrSpnIs ==
  ASSUME NEW m \in [Addr -> Char], NEW s \in Addr, IsString(m, s), NEW ct
  PROVE  Spanned(m, s, ct)
<1> DEFINE end == s + StrLen(m, s)
           D == In(m, ct)
           stop == {a \in s..end : m[a] = 0 \/ m[a] \notin D}
           v == [a \in s..end |-> a - s]
           Body(f) == [a \in s..end |-> IF m[a] = 0 \/ m[a] \notin D THEN a - s
                                        ELSE f[a + 1]]
<1>1. end \in Nat /\ s \in Nat /\ s <= end /\ m[end] = 0
  BY AString, StringsAssumption DEF Addr
<1>2. StrSpn(m, s, ct) = (CHOOSE f : f = Body(f))[s]
  BY DEF StrSpn
<1>0. end = EndOf(m, s)
  BY DEF EndOf
<1> HIDE DEF end, D
<1>3. FoundUp(s, end, stop, v, s)
  <2>1. stop \in SUBSET (s..end) /\ end \in stop /\ s \in s..end
    BY <1>1
  <2> HIDE DEF stop, v
  <2> QED BY <1>1, <2>1, SearchUp
<1>4. \A f : Upward(s, end, stop, v, f) = Body(f)
  <2> SUFFICES ASSUME NEW f PROVE Upward(s, end, stop, v, f) = Body(f)
    OBVIOUS
  <2>1. ASSUME NEW k \in s..end
        PROVE  (IF k \in stop THEN v[k] ELSE f[k + 1])
                 = IF m[k] = 0 \/ m[k] \notin D THEN k - s ELSE f[k + 1]
    OBVIOUS
  <2> HIDE DEF stop, v
  <2> QED BY <2>1 DEF Upward
<1>5. PICK x \in stop :
        /\ s <= x /\ \A j \in s .. x - 1 : j \notin stop
        /\ \E f : f = Body(f)
        /\ \A f : f = Body(f) => f[s] = v[x]
  <2> HIDE DEF stop, v, Body
  <2> QED BY <1>3, <1>4 DEF FoundUp
<1>6. StrSpn(m, s, ct) = v[x]
  <2> HIDE DEF stop, v, Body
  <2> QED BY <1>2, <1>5
<1>7. x \in s..end /\ (m[x] = 0 \/ m[x] \notin D) /\ v[x] = x - s
  OBVIOUS
<1>8. \A j \in s .. x - 1 : m[j] # 0 /\ m[j] \in D
  <2>1. \A j \in s .. x - 1 : j \in s..end
    BY <1>1, <1>7
  <2> QED BY <1>5, <2>1
<1>9. s + StrSpn(m, s, ct) = x
  <2> HIDE DEF v
  <2> QED BY <1>1, <1>6, <1>7
<1> QED BY <1>0, <1>7, <1>8, <1>9 DEF Spanned, D

\* strpbrk() finds the first delimiter.
Broken(m, cs, ct) ==
  LET p == StrPBrk(m, cs, ct)
  IN  \/ /\ p \in cs .. EndOf(m, cs) - 1 /\ m[p] \in In(m, ct)
         /\ \A j \in cs .. p - 1 : m[j] \notin In(m, ct)
      \/ /\ p = NULL
         /\ \A j \in cs .. EndOf(m, cs) - 1 : m[j] \notin In(m, ct)

\* strpbrk() itself: the first place that is the end, or a delimiter.
LEMMA StrPBrkIs ==
  ASSUME NEW m \in [Addr -> Char], NEW cs \in Addr, IsString(m, cs), NEW ct
  PROVE  Broken(m, cs, ct)
<1> DEFINE end == cs + StrLen(m, cs)
           D == In(m, ct)
           stop == {a \in cs..end : m[a] = 0 \/ m[a] \in D}
           v == [a \in cs..end |-> IF m[a] = 0 THEN NULL ELSE a]
           Body(f) == [a \in cs..end |-> IF m[a] = 0 THEN NULL
                                         ELSE IF m[a] \in D THEN a ELSE f[a + 1]]
<1>1. /\ end \in Nat /\ cs \in Nat /\ cs <= end /\ m[end] = 0
      /\ \A b \in cs .. end - 1 : m[b] # 0
  BY AString, StringsAssumption DEF Addr
<1>2. StrPBrk(m, cs, ct) = (CHOOSE f : f = Body(f))[cs]
  BY DEF StrPBrk
<1>0. end = EndOf(m, cs)
  BY DEF EndOf
<1> HIDE DEF end, D
<1>3. FoundUp(cs, end, stop, v, cs)
  <2>1. stop \in SUBSET (cs..end) /\ end \in stop /\ cs \in cs..end
    BY <1>1
  <2> HIDE DEF stop, v
  <2> QED BY <1>1, <2>1, SearchUp
<1>4. \A f : Upward(cs, end, stop, v, f) = Body(f)
  <2> SUFFICES ASSUME NEW f PROVE Upward(cs, end, stop, v, f) = Body(f)
    OBVIOUS
  <2>1. ASSUME NEW k \in cs..end
        PROVE  (IF k \in stop THEN v[k] ELSE f[k + 1])
                 = IF m[k] = 0 THEN NULL ELSE IF m[k] \in D THEN k ELSE f[k + 1]
    OBVIOUS
  <2> HIDE DEF stop, v
  <2> QED BY <2>1 DEF Upward
<1>5. PICK x \in stop :
        /\ cs <= x /\ \A j \in cs .. x - 1 : j \notin stop
        /\ \E f : f = Body(f)
        /\ \A f : f = Body(f) => f[cs] = v[x]
  <2> HIDE DEF stop, v, Body
  <2> QED BY <1>3, <1>4 DEF FoundUp
<1>6. StrPBrk(m, cs, ct) = v[x]
  <2> HIDE DEF stop, v, Body
  <2> QED BY <1>2, <1>5
<1>7. x \in cs..end /\ (m[x] = 0 \/ m[x] \in D) /\ v[x] = IF m[x] = 0 THEN NULL ELSE x
  OBVIOUS
<1>8. \A j \in cs .. x - 1 : m[j] \notin D
  <2>1. \A j \in cs .. x - 1 : j \in cs..end
    BY <1>1, <1>7
  <2> QED BY <1>5, <2>1
<1> HIDE DEF v
<1>9. CASE m[x] = 0
  <2>1. x = end
    BY <1>1, <1>7, <1>9
  <2> QED BY <1>0, <1>6, <1>7, <1>8, <1>9, <2>1 DEF Broken, D
<1>10. CASE m[x] # 0
  <2>1. x \in cs .. end - 1 /\ m[x] \in D
    BY <1>1, <1>7, <1>10
  <2>2. StrPBrk(m, cs, ct) = x
    BY <1>6, <1>7, <1>10
  <2> QED BY <1>0, <1>8, <2>1, <2>2 DEF Broken, D
<1> QED BY <1>9, <1>10

\* Where two memories agree from a on, they have the same string there.
LEMMA SameString ==
  ASSUME NEW t \in [Addr -> Char], NEW m \in [Addr -> Char], NEW a \in Addr,
         IsString(t, a), \A b \in Addr : b >= a => m[b] = t[b]
  PROVE  IsString(m, a) /\ StrLen(m, a) = StrLen(t, a) /\ In(m, a) = In(t, a)
<1> DEFINE l == StrLen(t, a)
<1>1. /\ l \in Nat /\ a + l \in Addr /\ t[a + l] = 0
      /\ \A b \in a .. a + l - 1 : t[b] # 0
  BY AString
<1>2. MEM \in Nat /\ a \in Nat /\ MEM - a \in Nat
  BY StringsAssumption DEF Addr
<1> HIDE DEF l
<1>3. \A b \in a .. a + l : b \in Addr /\ m[b] = t[b]
  BY <1>1, <1>2 DEF Addr
<1>4. m[a + l] = 0 /\ a + l \in a .. a + (MEM - a) /\ a + l \in a .. MEM - 1
  BY <1>1, <1>2, <1>3 DEF Addr
<1>5. \A b \in a .. a + l - 1 : m[b] # 0
  BY <1>1, <1>2, <1>3
<1>6. EndWithin(m, a, MEM - a) = a + l
  <2> DEFINE e == a + l
  <2>1. m[e] = 0 /\ e \in a .. a + (MEM - a) /\ \A b \in a .. e - 1 : m[b] # 0
    BY <1>1, <1>2, <1>4, <1>5
  <2> HIDE DEF e
  <2>2. EndWithin(m, a, MEM - a) = e
    BY <1>2, <2>1, EndIs
  <2> QED BY <2>2 DEF e
<1>7. StrLen(m, a) = l
  BY <1>1, <1>2, <1>6 DEF StrLen
<1>8. IsString(m, a)
  BY <1>4 DEF IsString
<1>9. In(m, a) = In(t, a)
  <2>1. \A b \in a .. a + l - 1 : m[b] = t[b]
    BY <1>1, <1>2, <1>3
  <2>2. In(m, a) = {m[b] : b \in a .. a + l - 1}
    BY <1>7 DEF In
  <2>3. In(t, a) = {t[b] : b \in a .. a + l - 1}
    BY DEF In, l
  <2> QED BY <2>1, <2>2, <2>3
<1> QED BY <1>7, <1>8, <1>9 DEF l

\* The numbers that the steps below are about.
LEMMA AskedBounds ==
  ASSUME NEW t, NEW s, NEW ct, Asked(t, s, ct)
  PROVE  /\ s \in Nat /\ ct \in Nat /\ EndOf(t, s) \in Nat /\ s <= EndOf(t, s)
         /\ EndOf(t, s) \in Addr /\ t[EndOf(t, s)] = 0
         /\ \A a \in s .. EndOf(t, s) - 1 : t[a] # 0
         /\ Within(t, s, ct) \in SUBSET (s .. EndOf(t, s) - 1)
         /\ Begins(t, s, ct) \in SUBSET Within(t, s, ct)
<1>1. /\ t \in [Addr -> Char] /\ s \in Addr /\ ct \in Addr /\ IsString(t, s)
  BY DEF Asked
<1>2. s \in Nat /\ ct \in Nat
  BY <1>1, StringsAssumption DEF Addr
<1>3. /\ StrLen(t, s) \in Nat /\ s + StrLen(t, s) \in Addr /\ t[s + StrLen(t, s)] = 0
      /\ \A b \in s .. s + StrLen(t, s) - 1 : t[b] # 0
  BY <1>1, AString
<1>4. /\ EndOf(t, s) \in Nat /\ s <= EndOf(t, s)
      /\ EndOf(t, s) \in Addr /\ t[EndOf(t, s)] = 0
  BY <1>2, <1>3 DEF EndOf
<1>5. \A a \in s .. EndOf(t, s) - 1 : t[a] # 0
  <2>1. EndOf(t, s) - 1 = s + StrLen(t, s) - 1
    BY <1>2, <1>3 DEF EndOf
  <2> QED BY <1>3, <2>1
<1>6. /\ Within(t, s, ct) \in SUBSET (s .. EndOf(t, s) - 1)
      /\ Begins(t, s, ct) \in SUBSET Within(t, s, ct)
  <2>1. EndOf(t, s) - 1 = s + StrLen(t, s) - 1
    BY <1>2, <1>3 DEF EndOf
  <2> QED BY <2>1 DEF Within, Begins
<1> QED BY <1>2, <1>4, <1>5, <1>6

\* A token is not touched by what happens behind it.
LEMMA TokenStays ==
  ASSUME NEW t, NEW s, NEW ct, NEW m, NEW m2, NEW a \in Int, NEW f \in Int, NEW f2 \in Int,
         Token(t, m, s, ct, a, f), f <= f2, \A c \in a .. f - 1 : m2[c] = m[c]
  PROVE  Token(t, m2, s, ct, a, f2)
<1>1. PICK b \in a .. f - 1 : /\ m[b] = 0 /\ b \notin Within(t, s, ct)
                              /\ \A c \in a .. b - 1 : c \in Within(t, s, ct) /\ m[c] = t[c]
  BY DEF Token
<1>2. b \in a .. f2 - 1 /\ m2[b] = 0
  BY <1>1
<1>3. \A c \in a .. b - 1 : c \in Within(t, s, ct) /\ m2[c] = t[c]
  <2>1. \A c \in a .. b - 1 : c \in a .. f - 1
    OBVIOUS
  <2> QED BY <1>1, <2>1
<1> QED BY <1>1, <1>2, <1>3 DEF Token

\* One more at the end.
LEMMA AppendIs ==
  ASSUME NEW q \in Seq(Int), NEW x \in Int
  PROVE  /\ Append(q, x) \in Seq(Int) /\ Len(Append(q, x)) = Len(q) + 1
         /\ Len(q) \in Nat
         /\ Append(q, x)[Len(q) + 1] = x
         /\ \A i \in 1..Len(q) : Append(q, x)[i] = q[i] /\ q[i] \in Int
OBVIOUS

\* strtok() answers NULL when no token begins where it goes on.
LEMMA NoToken ==
  ASSUME NEW t, NEW m, NEW from, NEW toks, NEW s, NEW ct,
         Asked(t, s, ct), Cut(t, m, from, toks, s, ct),
         \A i \in 1..Len(toks) : toks[i] # NULL,
         \A a \in Begins(t, s, ct) : a < Frontier(t, s, from)
  PROVE  Cut(t, m, NULL, Append(toks, NULL), s, ct)
<1> DEFINE e == EndOf(t, s)
           in == Within(t, s, ct)
           begins == Begins(t, s, ct)
           f == Frontier(t, s, from)
           more == Append(toks, NULL)
           n == Len(toks)
<1>1. /\ s \in Nat /\ e \in Nat /\ in \in SUBSET (s .. e - 1) /\ begins \in SUBSET in
  BY AskedBounds
<1>2. /\ toks \in Seq(Int)
      /\ from # NULL => from \in s..e
      /\ \A i \in 1..n : toks[i] \in begins /\ toks[i] < f /\ Token(t, m, s, ct, toks[i], f)
      /\ \A i, j \in 1..n : i < j => toks[i] < toks[j]
      /\ \A a \in begins : a < f => \E i \in 1..n : toks[i] = a
  BY DEF Cut
<1>3. NULL \in Int
  BY DEF NULL
<1>4. /\ more \in Seq(Int) /\ Len(more) = n + 1 /\ n \in Nat
      /\ more[n + 1] = NULL /\ \A i \in 1..n : more[i] = toks[i] /\ toks[i] \in Int
  <2>1. toks \in Seq(Int)
    BY <1>2
  <2> QED BY <1>3, <2>1, AppendIs
<1>5. Frontier(t, s, NULL) = e + 1
  BY DEF Frontier
<1>6. f \in Int /\ f <= e + 1
  BY <1>1, <1>2 DEF Frontier
<1> HIDE DEF more, f
<1>7. \A i \in 1..Len(more) : more[i] = NULL => i = Len(more) /\ NULL = NULL
  BY <1>4
<1>8. ASSUME NEW i \in 1..Len(more), more[i] # NULL
      PROVE  /\ more[i] \in begins /\ more[i] < e + 1
             /\ Token(t, m, s, ct, more[i], e + 1)
  <2>1. i \in 1..n /\ more[i] = toks[i]
    BY <1>4, <1>8
  <2>2. toks[i] \in begins /\ toks[i] < f /\ Token(t, m, s, ct, toks[i], f) /\ toks[i] \in Int
    BY <1>2, <1>4, <2>1
  <2>3. Token(t, m, s, ct, toks[i], e + 1)
    <3>1. e + 1 \in Int
      BY <1>1
    <3> QED BY <2>2, <1>6, <3>1, TokenStays
  <2>4. toks[i] < e + 1
    BY <1>1, <1>6, <2>2
  <2> QED BY <2>1, <2>2, <2>3, <2>4
<1>9. ASSUME NEW i \in 1..Len(more), NEW j \in 1..Len(more), i < j, more[j] # NULL
      PROVE  more[i] < more[j]
  <2>1. i \in 1..n /\ j \in 1..n
    BY <1>4, <1>9
  <2> QED BY <1>2, <1>4, <1>9, <2>1
<1>10. ASSUME NEW a \in begins PROVE \E i \in 1..Len(more) : more[i] = a
  <2>1. PICK i \in 1..n : toks[i] = a
    <3>1. a < f
      BY DEF f
    <3> QED BY <1>2, <3>1
  <2>2. i \in 1..Len(more) /\ more[i] = a
    BY <1>4, <2>1
  <2> QED BY <2>2
<1> HIDE DEF begins, e
<1>11. Cut(t, m, NULL, more, s, ct)
  <2>1. /\ \A i \in 1..Len(more) : more[i] # NULL =>
             /\ more[i] \in begins /\ more[i] < Frontier(t, s, NULL)
             /\ Token(t, m, s, ct, more[i], Frontier(t, s, NULL))
    BY <1>5, <1>8
  <2>2. \A i, j \in 1..Len(more) : i < j /\ more[j] # NULL => more[i] < more[j]
    BY <1>9
  <2>3. \A a \in begins : a < Frontier(t, s, NULL) => \E i \in 1..Len(more) : more[i] = a
    BY <1>10
  <2> QED BY <1>4, <1>7, <2>1, <2>2, <2>3 DEF Cut, begins
<1> QED BY <1>11 DEF more

\* strtok() answers the next token, ends it in memory and goes on behind it.
LEMMA NewToken ==
  ASSUME NEW t, NEW m, NEW from, NEW toks, NEW s, NEW ct,
         Asked(t, s, ct), Cut(t, m, from, toks, s, ct), from # NULL,
         \A i \in 1..Len(toks) : toks[i] # NULL,
         NEW b \in Begins(t, s, ct), from <= b,
         \A j \in from .. b - 1 : j \notin Within(t, s, ct),
         NEW p \in b + 1 .. EndOf(t, s), p \notin Within(t, s, ct),
         \A c \in b .. p - 1 : c \in Within(t, s, ct),
         NEW m2, m2[p] = 0, \A c \in Addr : c # p => m2[c] = m[c],
         NEW next,
         \/ next = NULL /\ p = EndOf(t, s)
         \/ next = p + 1 /\ p < EndOf(t, s)
  PROVE  Cut(t, m2, next, Append(toks, b), s, ct)
<1> DEFINE e == EndOf(t, s)
           in == Within(t, s, ct)
           begins == Begins(t, s, ct)
           f == Frontier(t, s, next)
           more == Append(toks, b)
           n == Len(toks)
<1>1. /\ s \in Nat /\ e \in Nat /\ e \in Addr
      /\ in \in SUBSET (s .. e - 1) /\ begins \in SUBSET in
  BY AskedBounds
<1>2. /\ toks \in Seq(Int)
      /\ from \in s..e /\ \A a \in Addr : a >= from => m[a] = t[a]
      /\ \A i, j \in 1..n : i < j => toks[i] < toks[j]
  BY DEF Cut
<1>3. Frontier(t, s, from) = from
  BY DEF Frontier
<1>4. /\ \A i \in 1..n : /\ toks[i] \in begins /\ toks[i] < from
                         /\ Token(t, m, s, ct, toks[i], from)
      /\ \A a \in begins : a < from => \E i \in 1..n : toks[i] = a
  BY <1>3 DEF Cut
<1>5. b \in Int /\ b \in s .. e - 1 /\ p \in Int /\ p \in b + 1 .. e /\ from \in Int
  BY <1>1, <1>2
<1>6. /\ more \in Seq(Int) /\ Len(more) = n + 1 /\ n \in Nat
      /\ more[n + 1] = b /\ \A i \in 1..n : more[i] = toks[i] /\ toks[i] \in Int
  <2>1. toks \in Seq(Int)
    BY <1>2
  <2> QED BY <1>5, <2>1, AppendIs
<1>7. b # NULL /\ p + 1 # NULL
  BY <1>1, <1>5 DEF NULL
<1>8. f \in Int /\ p < f /\ f <= e + 1 /\ (next # NULL => f = next) /\ (f = p + 1 \/ p = e)
  BY <1>1, <1>5, <1>7 DEF Frontier
<1>9. next # NULL => /\ next \in s..e /\ next - 1 \notin in
                     /\ \A a \in Addr : a >= next => m2[a] = t[a]
  <2> SUFFICES ASSUME next # NULL
               PROVE  /\ next \in s..e /\ next - 1 \notin in
                      /\ \A a \in Addr : a >= next => m2[a] = t[a]
    OBVIOUS
  <2>1. next = p + 1 /\ p < e
    OBVIOUS
  <2>2. next \in s..e /\ next - 1 = p
    BY <1>1, <1>5, <2>1
  <2>3. p \notin in
    OBVIOUS
  <2>4. ASSUME NEW a \in Addr, a >= next PROVE m2[a] = t[a]
    <3>1. a \in Int
      BY StringsAssumption DEF Addr
    <3>2. a # p /\ a >= from
      BY <1>5, <2>1, <2>4, <3>1
    <3> QED BY <1>2, <3>2
  <2> QED BY <2>2, <2>3, <2>4
<1>10. Token(t, m2, s, ct, b, f)
  <2>1. p \in b .. f - 1
    BY <1>5, <1>8
  <2>2. \A c \in b .. p - 1 : c \in in /\ m2[c] = t[c]
    <3> SUFFICES ASSUME NEW c \in b .. p - 1 PROVE c \in in /\ m2[c] = t[c]
      OBVIOUS
    <3>1. c \in Int /\ c # p /\ c >= from
      BY <1>5
    <3>2. c \in Addr
      BY <1>1, <1>5, StringsAssumption DEF Addr
    <3> QED BY <1>2, <3>1, <3>2
  <2> HIDE DEF f
  <2> QED BY <2>1, <2>2 DEF Token
<1>11. ASSUME NEW i \in 1..n
       PROVE  toks[i] \in begins /\ toks[i] < f /\ Token(t, m2, s, ct, toks[i], f)
  <2>1. toks[i] \in begins /\ toks[i] < from /\ Token(t, m, s, ct, toks[i], from)
    BY <1>4
  <2>2. toks[i] \in Int /\ s <= toks[i]
    BY <1>1, <2>1
  <2>3. from <= f /\ from - 1 < p
    BY <1>5, <1>8
  <2>4. \A c \in toks[i] .. from - 1 : m2[c] = m[c]
    <3> SUFFICES ASSUME NEW c \in toks[i] .. from - 1 PROVE m2[c] = m[c]
      OBVIOUS
    <3>1. c \in Addr /\ c # p
      BY <1>1, <1>2, <1>5, <2>2, <2>3, StringsAssumption DEF Addr
    <3> QED BY <3>1
  <2> HIDE DEF f
  <2>5. Token(t, m2, s, ct, toks[i], f)
    BY <1>5, <1>8, <2>1, <2>2, <2>3, <2>4, TokenStays
  <2>6. toks[i] < f
    BY <1>5, <1>8, <2>1, <2>2, <2>3
  <2> QED BY <2>1, <2>5, <2>6
<1> HIDE DEF more, f
<1>12. ASSUME NEW i \in 1..Len(more)
       PROVE  more[i] # NULL /\ more[i] \in begins /\ more[i] < f
                /\ Token(t, m2, s, ct, more[i], f)
  <2>1. CASE i \in 1..n
    BY <1>6, <1>11, <2>1
  <2>2. CASE i = n + 1
    <3>1. b \in begins /\ b < f
      BY <1>5, <1>8
    <3> QED BY <1>6, <1>7, <1>10, <2>2, <3>1
  <2>3. i \in 1..n \/ i = n + 1
    BY <1>6
  <2> QED BY <2>1, <2>2, <2>3
<1>13. ASSUME NEW i \in 1..Len(more), NEW j \in 1..Len(more), i < j
       PROVE  more[i] < more[j]
  <2>1. CASE j \in 1..n
    <3>1. i \in 1..n
      BY <1>6, <1>13, <2>1
    <3> QED BY <1>2, <1>6, <1>13, <2>1, <3>1
  <2>2. CASE j = n + 1
    <3>1. i \in 1..n
      BY <1>6, <1>13, <2>2
    <3>2. toks[i] < from /\ toks[i] \in Int /\ more[i] = toks[i] /\ more[j] = b
      BY <1>4, <1>6, <2>2, <3>1
    <3> QED BY <1>5, <3>2
  <2>3. j \in 1..n \/ j = n + 1
    BY <1>6
  <2> QED BY <2>1, <2>2, <2>3
<1>14. ASSUME NEW a \in begins, a < f PROVE \E i \in 1..Len(more) : more[i] = a
  <2>0. a \in in /\ a \in Int /\ a \in s .. e - 1 /\ a - 1 \notin in
    BY <1>1 DEF Begins
  <2>1. CASE a < from
    <3>1. PICK i \in 1..n : toks[i] = a
      BY <1>4, <2>1
    <3>2. i \in 1..Len(more) /\ more[i] = a
      BY <1>6, <3>1
    <3> QED BY <3>2
  <2>2. CASE a = b
    <3>1. n + 1 \in 1..Len(more) /\ more[n + 1] = a
      BY <1>6, <2>2
    <3> QED BY <3>1
  <2>3. CASE ~ (a < from) /\ a # b
    <3>1. ~ (a \in from .. b - 1)
      BY <2>0
    <3>2. ~ (a - 1 \in b .. p - 1)
      BY <2>0
    <3>3. a # p
      BY <2>0
    <3>4. a > p
      BY <1>5, <2>0, <2>3, <3>1, <3>2, <3>3
    <3> QED BY <1>5, <1>8, <1>14, <2>0, <3>4
  <2> QED BY <2>1, <2>2, <2>3
<1>15. Cut(t, m2, next, more, s, ct)
  <2> HIDE DEF begins, in, e
  <2>1. \A i \in 1..Len(more) : more[i] = NULL => i = Len(more) /\ next = NULL
    BY <1>12
  <2>2. \A i \in 1..Len(more) : more[i] # NULL =>
          more[i] \in begins /\ more[i] < f /\ Token(t, m2, s, ct, more[i], f)
    BY <1>12
  <2>3. \A i, j \in 1..Len(more) : i < j /\ more[j] # NULL => more[i] < more[j]
    BY <1>13
  <2>4. \A a \in begins : a < f => \E i \in 1..Len(more) : more[i] = a
    BY <1>14
  <2> QED BY <1>6, <1>9, <2>1, <2>2, <2>3, <2>4 DEF Cut, begins, in, e, f
<1> QED BY <1>15 DEF more

\* The whole of strtok(), when there is something left to be asked for.
LEMMA StrTokCuts ==
  ASSUME NEW t, NEW m \in [Addr -> Char], NEW from, NEW toks, NEW s, NEW ct,
         Asked(t, s, ct), Cut(t, m, from, toks, s, ct),
         \A i \in 1..Len(toks) : toks[i] # NULL
  PROVE  LET r == StrTok(m, from, ct)
         IN  Cut(t, r.mem, r.next, Append(toks, r.token), s, ct)
<1> DEFINE e == EndOf(t, s)
           in == Within(t, s, ct)
           begins == Begins(t, s, ct)
           D == In(t, ct)
           b == from + StrSpn(m, from, ct)
           p == StrPBrk(m, b, ct)
           r == StrTok(m, from, ct)
           none == [mem |-> m, next |-> NULL, token |-> NULL]
<1>1. /\ s \in Nat /\ ct \in Nat /\ e \in Nat /\ e \in Addr /\ t[e] = 0
      /\ \A a \in s .. e - 1 : t[a] # 0
      /\ in \in SUBSET (s .. e - 1) /\ begins \in SUBSET in
  BY AskedBounds
<1>2. /\ t \in [Addr -> Char] /\ s \in Addr /\ ct \in Addr
      /\ IsString(t, s) /\ IsString(t, ct) /\ ct > e
  BY DEF Asked
<1>3. in = {a \in s .. e - 1 : t[a] \notin D} /\ begins = {a \in in : a - 1 \notin in}
  <2>1. StrLen(t, s) \in Nat
    BY <1>2, AString
  <2>2. s .. e - 1 = s .. s + StrLen(t, s) - 1
    BY <1>1, <2>1 DEF EndOf
  <2>3. in = {a \in s .. s + StrLen(t, s) - 1 : t[a] \notin D}
    BY DEF Within
  <2>4. begins = {a \in in : a - 1 \notin in}
    BY DEF Begins
  <2> HIDE DEF in, e, begins, D
  <2> QED BY <2>2, <2>3, <2>4
<1>4. r = IF from = NULL \/ m[b] = 0 THEN none
          ELSE IF p = NULL
          THEN [mem |-> m, next |-> NULL, token |-> b]
          ELSE [mem |-> [m EXCEPT ![p] = 0], next |-> p + 1, token |-> b]
  BY DEF StrTok
<1>5. CASE from = NULL
  <2>1. r = none
    BY <1>4, <1>5
  <2>2. \A a \in begins : a < Frontier(t, s, from)
    <3>1. Frontier(t, s, from) = e + 1
      BY <1>5 DEF Frontier
    <3> HIDE DEF begins, in, e
    <3> QED BY <1>1, <3>1
  <2>3. Cut(t, m, NULL, Append(toks, NULL), s, ct)
    BY <2>2, NoToken
  <2> HIDE DEF r
  <2> QED BY <2>1, <2>3 DEF r
<1>6. CASE from # NULL
  <2>1. /\ from \in s..e /\ from - 1 \notin in
        /\ \A a \in Addr : a >= from => m[a] = t[a]
    BY <1>6 DEF Cut
  <2>2. from \in Addr /\ IsString(t, from) /\ EndOf(t, from) = e
    <3>1. from \in s .. s + StrLen(t, s)
      BY <2>1 DEF EndOf
    <3>2. /\ from \in Addr /\ IsString(t, from)
          /\ StrLen(t, from) = s + StrLen(t, s) - from
      BY <1>2, <3>1, TailIs
    <3>3. StrLen(t, s) \in Nat /\ from \in Int
      BY <1>1, <1>2, <2>1, AString
    <3> QED BY <1>1, <3>2, <3>3 DEF EndOf
  <2>3. IsString(m, from) /\ EndOf(m, from) = e
    <3>1. IsString(m, from) /\ StrLen(m, from) = StrLen(t, from)
      BY <1>2, <2>1, <2>2, SameString
    <3> QED BY <2>2, <3>1 DEF EndOf
  <2>4. In(m, ct) = D
    <3>1. \A a \in Addr : a >= ct => a >= from
      BY <1>1, <1>2, <2>1, StringsAssumption DEF Addr
    <3>2. \A a \in Addr : a >= ct => m[a] = t[a]
      BY <2>1, <3>1
    <3> QED BY <1>2, <3>2, SameString
  <2>5. /\ b \in from..e
        /\ m[b] = 0 \/ m[b] \notin D
        /\ \A j \in from .. b - 1 : m[j] # 0 /\ m[j] \in D
    <3>1. Spanned(m, from, ct)
      BY <2>2, <2>3, StrSpnIs
    <3> HIDE DEF e, D
    <3> QED BY <2>3, <2>4, <3>1 DEF Spanned
  <2> HIDE DEF b, e, in, begins, D
  <2>6. from \in Int /\ b \in Int /\ s <= from /\ from <= b /\ b <= e
    BY <1>1, <2>1, <2>5
  <2>7. \A j \in from..e : j \in Addr /\ m[j] = t[j]
    <3> SUFFICES ASSUME NEW j \in from..e PROVE j \in Addr /\ m[j] = t[j]
      OBVIOUS
    <3>1. j \in Addr /\ j >= from
      BY <1>1, <2>6, StringsAssumption DEF Addr
    <3> QED BY <2>1, <3>1
  <2>8. \A j \in from .. b - 1 : j \notin in
    <3> SUFFICES ASSUME NEW j \in from .. b - 1 PROVE j \notin in
      OBVIOUS
    <3>1. j \in from..e
      BY <1>1, <2>6
    <3> QED BY <1>3, <2>5, <2>7, <3>1
  <2>9. b \in from..e /\ m[b] = t[b] /\ b \in Addr
    BY <2>5, <2>7
  <2>10. CASE m[b] = 0
    <3>1. r = none
      <4> HIDE DEF r, none
      <4> QED BY <1>4, <2>10
    <3>2. b = e
      <4>1. ~ (b \in s .. e - 1)
        BY <1>1, <2>9, <2>10
      <4> QED BY <1>1, <2>6, <4>1
    <3>3. \A a \in begins : a < Frontier(t, s, from)
      <4>1. Frontier(t, s, from) = from
        BY <1>6 DEF Frontier
      <4>2. ASSUME NEW a \in begins PROVE a < from
        <5>1. a \in in /\ a \in Int /\ a < e
          BY <1>1
        <5>2. ~ (a \in from .. b - 1)
          BY <2>8, <5>1
        <5> QED BY <1>1, <2>6, <3>2, <5>1, <5>2
      <4> QED BY <4>1, <4>2
    <3>4. Cut(t, m, NULL, Append(toks, NULL), s, ct)
      BY <3>3, NoToken DEF begins
    <3> HIDE DEF r
    <3> QED BY <3>1, <3>4 DEF r
  <2>11. CASE m[b] # 0
    <3>1. b < e /\ b \in s .. e - 1
      <4>1. b # e
        BY <1>1, <2>9, <2>11
      <4> QED BY <1>1, <2>6, <4>1
    <3>2. b \in in
      BY <1>3, <2>5, <2>9, <2>11, <3>1
    <3>3. b - 1 \notin in
      <4>1. CASE b = from
        BY <2>1, <4>1 DEF in
      <4>2. CASE b # from
        <5>1. b - 1 \in from .. b - 1
          BY <2>6, <4>2
        <5> QED BY <2>8, <5>1
      <4> QED BY <4>1, <4>2
    <3>4. b \in begins
      BY <1>3, <3>2, <3>3
    <3>5. /\ IsString(m, b) /\ EndOf(m, b) = e
      <4>1. b \in from .. from + StrLen(m, from)
        BY <2>3, <2>9 DEF EndOf
      <4>2. IsString(m, b) /\ StrLen(m, b) = from + StrLen(m, from) - b
        BY <2>2, <2>3, <4>1, TailIs
      <4>3. StrLen(m, from) \in Nat
        BY <2>2, <2>3, AString
      <4> QED BY <2>3, <2>6, <4>2, <4>3 DEF EndOf
    <3>6. \/ p \in b .. e - 1 /\ m[p] \in D /\ \A j \in b .. p - 1 : m[j] \notin D
          \/ p = NULL /\ \A j \in b .. e - 1 : m[j] \notin D
      <4>1. Broken(m, b, ct)
        BY <2>9, <3>5, StrPBrkIs
      <4> QED BY <2>4, <3>5, <4>1 DEF Broken
    <3> HIDE DEF p
    <3>7. \A j \in b .. e - 1 : m[j] \notin D => j \in in
      <4> SUFFICES ASSUME NEW j \in b .. e - 1, m[j] \notin D PROVE j \in in
        OBVIOUS
      <4>1. j \in from..e /\ j \in s .. e - 1
        BY <1>1, <2>6
      <4> QED BY <1>3, <2>7, <4>1
    <3>8. CASE p = NULL
      <4>1. r = [mem |-> m, next |-> NULL, token |-> b]
        <5> HIDE DEF r, none
        <5> QED BY <1>4, <1>6, <2>11, <3>8
      <4>2. \A c \in b .. e - 1 : c \in in
        <5>1. ~ (p \in b .. e - 1)
          BY <1>1, <2>6, <3>8 DEF NULL
        <5> QED BY <3>6, <3>7, <5>1
      <4>3. e \in b + 1 .. e /\ e \notin in /\ m[e] = 0
        <5>1. e \in b + 1 .. e /\ e \notin in
          BY <1>1, <2>6, <3>1
        <5>2. e \in from..e
          BY <1>1, <2>6
        <5> QED BY <1>1, <2>7, <5>1, <5>2
      <4>4. Cut(t, m, NULL, Append(toks, b), s, ct)
        <5>1. b \in begins /\ from <= b /\ \A j \in from .. b - 1 : j \notin in
          BY <2>6, <2>8, <3>4
        <5>2. \A c \in Addr : c # e => m[c] = m[c]
          OBVIOUS
        <5> QED BY <1>6, <4>2, <4>3, <5>1, <5>2, NewToken DEF begins, in, e
      <4> HIDE DEF r
      <4> QED BY <4>1, <4>4 DEF r
    <3>9. CASE p # NULL
      <4> DEFINE m2 == [m EXCEPT ![p] = 0]
      <4>1. r = [mem |-> m2, next |-> p + 1, token |-> b]
        <5> HIDE DEF r, none
        <5> QED BY <1>4, <1>6, <2>11, <3>9
      <4>2. /\ p \in b .. e - 1 /\ m[p] \in D /\ \A j \in b .. p - 1 : m[j] \notin D
        BY <3>6, <3>9
      <4>3. p \notin in
        <5>1. p \in from..e
          BY <1>1, <2>6, <4>2
        <5> QED BY <1>3, <2>7, <4>2, <5>1
      <4>4. p \in b + 1 .. e /\ p < e
        <5>1. p # b
          BY <3>2, <4>3
        <5> QED BY <1>1, <2>6, <4>2, <5>1
      <4>5. \A c \in b .. p - 1 : c \in in
        <5> SUFFICES ASSUME NEW c \in b .. p - 1 PROVE c \in in
          OBVIOUS
        <5>1. c \in b .. e - 1
          BY <1>1, <2>6, <4>2
        <5> QED BY <3>7, <4>2, <5>1
      <4>6. m2[p] = 0 /\ \A c \in Addr : c # p => m2[c] = m[c]
        <5>1. p \in Addr
          <6>1. p \in from..e
            BY <1>1, <2>6, <4>2
          <6> QED BY <2>7, <6>1
        <5> QED BY <5>1
      <4> HIDE DEF m2
      <4>7. Cut(t, m2, p + 1, Append(toks, b), s, ct)
        <5>1. b \in begins /\ from <= b /\ \A j \in from .. b - 1 : j \notin in
          BY <2>6, <2>8, <3>4
        <5> QED BY <1>6, <4>3, <4>4, <4>5, <4>6, <5>1, NewToken DEF begins, in, e
      <4> HIDE DEF r
      <4> QED BY <4>1, <4>7 DEF r
    <3> QED BY <3>8, <3>9
  <2> QED BY <2>10, <2>11
<1> QED BY <1>5, <1>6

\* The text before the first call is one that nothing was cut off from.
LEMMA NothingCut ==
  ASSUME NEW t, NEW s, NEW ct, Asked(t, s, ct)
  PROVE  Cut(t, t, s, << >>, s, ct)
<1>1. /\ s \in Nat /\ EndOf(t, s) \in Nat /\ s <= EndOf(t, s)
      /\ Within(t, s, ct) \in SUBSET (s .. EndOf(t, s) - 1)
      /\ Begins(t, s, ct) \in SUBSET Within(t, s, ct)
  BY AskedBounds
<1>2. s # NULL /\ Frontier(t, s, s) = s
  BY <1>1 DEF NULL, Frontier
<1>3. s \in s .. EndOf(t, s) /\ s - 1 \notin Within(t, s, ct)
  BY <1>1
<1>4. \A a \in Begins(t, s, ct) : ~ (a < s)
  BY <1>1
<1>5. << >> \in Seq(Int) /\ Len(<< >>) = 0
  OBVIOUS
<1>6. \A i \in 1..Len(<< >>) : FALSE
  BY <1>5
<1> QED BY <1>2, <1>3, <1>4, <1>5, <1>6 DEF Cut

\* Every step of every call keeps the text cut at its frontier.
LEMMA TokensKept == TokensInv /\ LibraryInv /\ [Next]_vars => TokensInv'
<1> SUFFICES ASSUME TokensInv, LibraryInv, [Next]_vars PROVE TokensInv'
  OBVIOUS
<1>0. mem \in [Addr -> Char]
  BY DEF LibraryInv
<1>1. ASSUME NEW s \in Addr, NEW ct \in Addr, StrTokFirst(s, ct) PROVE TokensInv'
  <2>1. /\ tokens = << >> /\ Asked(mem, s, ct)
        /\ call' = [s |-> s, ct |-> ct] /\ text' = mem
    BY <1>0, <1>1 DEF StrTokFirst, TokensInv, Asked, EndOf
  <2> DEFINE r == StrTok(mem, s, ct)
  <2>2. mem' = r.mem /\ strtok' = r.next /\ tokens' = Append(<< >>, r.token)
    BY <1>1, <2>1 DEF StrTokFirst, Returns
  <2>3. Cut(mem, mem, s, << >>, s, ct)
    BY <2>1, NothingCut
  <2>4. Cut(mem, r.mem, r.next, Append(<< >>, r.token), s, ct)
    <3>1. \A i \in 1..Len(<< >>) : << >>[i] # NULL
      OBVIOUS
    <3> QED BY <1>0, <2>1, <2>3, <3>1, StrTokCuts
  <2>5. s # NULL /\ call'.s = s /\ call'.ct = ct
    BY <2>1, StringsAssumption DEF NULL, Addr
  <2> HIDE DEF r
  <2> QED BY <2>1, <2>2, <2>4, <2>5 DEF TokensInv
<1>2. CASE StrTokNext
  <2>1. /\ call.s # NULL /\ call' = call /\ text' = text
        /\ tokens[Len(tokens)] # NULL
        /\ Asked(text, call.s, call.ct)
        /\ Cut(text, mem, strtok, tokens, call.s, call.ct)
    BY <1>2 DEF StrTokNext, TokensInv
  <2> DEFINE r == StrTok(mem, strtok, call.ct)
  <2>2. mem' = r.mem /\ strtok' = r.next /\ tokens' = Append(tokens, r.token)
    BY <1>2 DEF StrTokNext, Returns
  <2>3. \A i \in 1..Len(tokens) : tokens[i] # NULL
    BY <2>1 DEF Cut
  <2>4. Cut(text, r.mem, r.next, Append(tokens, r.token), call.s, call.ct)
    BY <1>0, <2>1, <2>3, StrTokCuts
  <2> HIDE DEF r
  <2> QED BY <2>1, <2>2, <2>4 DEF TokensInv
<1>3. CASE UNCHANGED stringVars
  BY <1>3 DEF stringVars, TokensInv
<1> QED BY <1>1, <1>2, <1>3 DEF Next, vars

\* A token that is in memory as the text had it is as long as its run in the text.
LEMMA TokenLength ==
  ASSUME NEW t, NEW m \in [Addr -> Char], NEW s, NEW ct, Asked(t, s, ct),
         NEW a \in Within(t, s, ct), NEW f \in Int, f <= EndOf(t, s) + 1,
         Token(t, m, s, ct, a, f)
  PROVE  StrLen(m, a) = Cardinality({b \in Within(t, s, ct) :
                                       b >= a /\ a..b \subseteq Within(t, s, ct)})
<1> DEFINE e == EndOf(t, s)
           in == Within(t, s, ct)
           run == {b \in in : b >= a /\ a..b \subseteq in}
<1>1. /\ s \in Nat /\ e \in Nat /\ e \in Addr
      /\ \A c \in s .. e - 1 : t[c] # 0
      /\ in \in SUBSET (s .. e - 1)
  BY AskedBounds
<1>2. PICK b \in a .. f - 1 : /\ m[b] = 0 /\ b \notin in
                              /\ \A c \in a .. b - 1 : c \in in /\ m[c] = t[c]
  BY DEF Token
<1>3. a \in in /\ f <= e + 1 /\ f \in Int
  OBVIOUS
<1> HIDE DEF in, e
<1>4. a \in Nat /\ b \in Nat /\ a <= b /\ b <= e /\ b \in Int
  BY <1>1, <1>2, <1>3
<1>5. MEM \in Nat /\ MEM - a \in Nat /\ b \in a .. a + (MEM - a)
  BY <1>1, <1>4, StringsAssumption DEF Addr
<1>6. \A c \in a .. b - 1 : m[c] # 0
  BY <1>1, <1>2
<1>7. EndWithin(m, a, MEM - a) = b
  BY <1>2, <1>4, <1>5, <1>6, EndIs
<1>8. StrLen(m, a) = b - a
  BY <1>7 DEF StrLen
<1>9. run = a .. b - 1
  <2>1. ASSUME NEW c \in a .. b - 1 PROVE c \in run
    <3>1. \A d \in a..c : d \in a .. b - 1
      BY <1>4
    <3>2. a..c \subseteq in
      BY <1>2, <3>1
    <3> QED BY <1>2, <1>4, <3>2
  <2>2. ASSUME NEW c \in run PROVE c \in a .. b - 1
    <3>1. c \in Int /\ c >= a /\ a..c \subseteq in
      BY <1>1
    <3>2. ~ (c >= b)
      <4>1. c >= b => b \in a..c
        BY <1>4, <3>1
      <4> QED BY <1>2, <3>1, <4>1
    <3> QED BY <1>4, <3>1, <3>2
  <2> HIDE DEF run
  <2> QED BY <2>1, <2>2
<1>10. Cardinality(a .. b - 1) = b - a
  <2>1. b - 1 \in Int /\ a \in Int
    BY <1>4
  <2>2. Cardinality(a .. b - 1) = IF a > b - 1 THEN 0 ELSE (b - 1) - a + 1
    BY <2>1, FS_Interval
  <2> QED BY <1>4, <2>2
<1>11. StrLen(m, a) = Cardinality(run)
  <2> HIDE DEF run
  <2> QED BY <1>8, <1>9, <1>10
<1> QED BY <1>11 DEF in

\* What is said of every token.
RightToken(t, m, toks, s, ct, i) ==
  LET inside == Within(t, s, ct)
      starts == Begins(t, s, ct)
  IN  IF toks[i] = NULL
      THEN {toks[j] : j \in 1 .. i-1} = starts
      ELSE /\ toks[i] \in starts
           /\ \A a \in starts : a < toks[i] => \E j \in 1 .. i-1 : toks[j] = a
           /\ StrLen(m, toks[i])
                = Cardinality({b \in inside :
                                 b >= toks[i] /\ toks[i]..b \subseteq inside})

\* The tokens of a text that has been cut.
LEMMA TokensOf ==
  ASSUME NEW t, NEW m \in [Addr -> Char], NEW from, NEW toks, NEW s, NEW ct,
         Asked(t, s, ct), Cut(t, m, from, toks, s, ct), NEW i \in 1..Len(toks)
  PROVE  RightToken(t, m, toks, s, ct, i)
<1> DEFINE e == EndOf(t, s)
           in == Within(t, s, ct)
           begins == Begins(t, s, ct)
           f == Frontier(t, s, from)
           n == Len(toks)
<1>1. /\ s \in Nat /\ e \in Nat /\ in \in SUBSET (s .. e - 1) /\ begins \in SUBSET in
  BY AskedBounds
<1>2. /\ toks \in Seq(Int)
      /\ from # NULL => from \in s..e
      /\ \A j \in 1..n : toks[j] = NULL => j = n /\ from = NULL
      /\ \A j \in 1..n : toks[j] # NULL =>
           toks[j] \in begins /\ toks[j] < f /\ Token(t, m, s, ct, toks[j], f)
      /\ \A j, k \in 1..n : j < k /\ toks[k] # NULL => toks[j] < toks[k]
      /\ \A a \in begins : a < f => \E j \in 1..n : toks[j] = a
  BY DEF Cut
<1>3. f \in Int /\ f <= e + 1 /\ (from = NULL => f = e + 1)
  BY <1>1, <1>2 DEF Frontier
<1>4. n \in Nat /\ i \in 1..n /\ \A j \in 1..n : toks[j] \in Int
  BY <1>2
<1> HIDE DEF f, e, in, begins, n
<1>5. CASE toks[i] = NULL
  <2>1. i = n /\ f = e + 1
    BY <1>2, <1>3, <1>4, <1>5
  <2>2. ASSUME NEW j \in 1 .. i-1 PROVE toks[j] \in begins
    <3>1. j \in 1..n /\ j # n
      BY <1>4, <2>1
    <3> QED BY <1>2, <3>1
  <2>3. ASSUME NEW a \in begins PROVE \E j \in 1 .. i-1 : toks[j] = a
    <3>1. a \in Nat /\ a < f
      BY <1>1, <2>1
    <3>2. PICK j \in 1..n : toks[j] = a
      BY <1>2, <3>1
    <3>3. j # n
      BY <1>5, <2>1, <3>1, <3>2 DEF NULL
    <3>4. j \in 1 .. i-1
      BY <1>4, <2>1, <3>3
    <3> QED BY <3>2, <3>4
  <2>4. {toks[j] : j \in 1 .. i-1} = begins
    BY <2>2, <2>3
  <2> QED BY <1>5, <2>4 DEF begins, RightToken
<1>6. CASE toks[i] # NULL
  <2>1. toks[i] \in begins /\ toks[i] \in in /\ Token(t, m, s, ct, toks[i], f) /\ toks[i] < f
    BY <1>1, <1>2, <1>4, <1>6
  <2>2. ASSUME NEW a \in begins, a < toks[i] PROVE \E j \in 1 .. i-1 : toks[j] = a
    <3>1. a \in Int /\ a < f
      BY <1>1, <1>3, <1>4, <2>1, <2>2
    <3>2. PICK j \in 1..n : toks[j] = a
      BY <1>2, <3>1
    <3>3. toks[j] # NULL
      BY <1>1, <3>2 DEF NULL
    <3>4. ~ (i < j)
      BY <1>2, <1>4, <2>2, <3>1, <3>2, <3>3
    <3>5. i # j
      BY <1>4, <2>2, <3>2
    <3>6. j \in 1 .. i-1
      BY <1>4, <3>4, <3>5
    <3> QED BY <3>2, <3>6
  <2>3. StrLen(m, toks[i])
          = Cardinality({b \in in : b >= toks[i] /\ toks[i]..b \subseteq in})
    BY <1>3, <2>1, TokenLength DEF in, e
  <2> QED BY <1>6, <2>1, <2>2, <2>3 DEF begins, in, RightToken
<1> QED BY <1>5, <1>6

\* strtok() returns every token of every text once, in order, as a string of its
\* own, however many calls share ___strtok.
THEOREM TokensAllHold == Spec => []TokensAll
<1>1. Init => TokensInv
  BY DEF Init, StringsInit, TokensInv, NULL
<1>2. TokensInv /\ LibraryInv => TokensAll
  <2> SUFFICES ASSUME TokensInv, LibraryInv, call.s # NULL, NEW i \in 1..Len(tokens)
               PROVE  RightToken(text, mem, tokens, call.s, call.ct, i)
    BY DEF TokensAll, RightToken, Within, Begins
  <2>1. /\ Asked(text, call.s, call.ct) /\ mem \in [Addr -> Char]
        /\ Cut(text, mem, strtok, tokens, call.s, call.ct)
    BY DEF TokensInv, LibraryInv
  <2> QED BY <2>1, TokensOf
<1> QED BY <1>1, <1>2, TokensKept, LibraryInvariance, PTL DEF Spec

-----------------------------------------------------------------------------
(* number() and simple_strtoul()                                           *)

\* The bases of number(), and the characters it writes.
Bases == {8, 10, 16}
\* The digits, and all that number() writes.
XDigits == {"0", "1", "2", "3", "4", "5", "6", "7", "8", "9",
            "a", "b", "c", "d", "e", "f", "A", "B", "C", "D", "E", "F"}
Ink == XDigits \cup {"-", "+", " ", "x", "X"}

\* A digit, as number() writes and simple_strtoul() reads it.
LEMMA DigitRead ==
  ASSUME NEW d \in 0..15, NEW c \in {Lower[d + 1], Upper[d + 1]}
  PROVE  c \in Ink /\ c # "-" /\ IsXDigit(c) /\ ValueOf(c) = d
<1> DEFINE Is(x) ==
             <<x, c>> \in {<<0, "0">>, <<1, "1">>, <<2, "2">>, <<3, "3">>, <<4, "4">>,
                         <<5, "5">>, <<6, "6">>, <<7, "7">>, <<8, "8">>, <<9, "9">>,
                         <<10, "a">>, <<11, "b">>, <<12, "c">>, <<13, "d">>,
                         <<14, "e">>, <<15, "f">>, <<10, "A">>, <<11, "B">>,
                         <<12, "C">>, <<13, "D">>, <<14, "E">>, <<15, "F">>}
<1>1. ASSUME NEW x \in 0..15, c \in {Lower[x + 1], Upper[x + 1]}
      PROVE  Is(x)
  <2>1. \/ x = 0 \/ x = 1 \/ x = 2 \/ x = 3 \/ x = 4 \/ x = 5 \/ x = 6 \/ x = 7
        \/ x = 8 \/ x = 9 \/ x = 10 \/ x = 11 \/ x = 12 \/ x = 13 \/ x = 14 \/ x = 15
    OBVIOUS
  <2> QED BY <1>1, <2>1 DEF Lower, Upper
<1>2. Is(d)
  BY <1>1
<1>3. c \in Ink /\ IsXDigit(c) /\ c # "-"
  <2>1. c \in XDigits
    BY <1>2 DEF XDigits
  <2>2. IsXDigit(c)
    BY <2>1 DEF IsXDigit, IsDigit, XDigits
  <2>3. c # "-"
    <3>1. "-" \notin XDigits
      BY DEF XDigits
    <3> QED BY <2>1, <3>1
  <2>4. c \in Ink
    BY <2>1 DEF Ink
  <2> QED BY <2>2, <2>3, <2>4
<1>4. \A v \in 0..15 : Is(v) => v = d
  BY <1>2
<1> HIDE DEF Is
<1>5. \A v \in 0..15 : c \in {Lower[v + 1], Upper[v + 1]} => v = d
  BY <1>1, <1>4
<1>6. ValueOf(c) = d
  BY <1>5 DEF ValueOf
<1> QED BY <1>3, <1>6

\* The digits ds spell v: h is what simple_strtoul() has read so far.
Reading(h, ds, b) ==
  /\ h[0] = 0
  /\ \A i \in 1..Len(ds) : /\ IsXDigit(ds[i]) /\ ds[i] # "-"
                           /\ ValueOf(ds[i]) \in 0 .. b - 1
                           /\ h[i] = (h[i - 1] * b) + ValueOf(ds[i])

Spells(ds, v, b) ==
  /\ ds \in Seq(Ink)
  /\ \E h \in [0..Len(ds) -> 0..v] : Reading(h, ds, b) /\ h[Len(ds)] = v

\* No digit spells 0, and one more digit what number() divided.
LEMMA NoDigit ==
  ASSUME NEW b \in Bases
  PROVE  Spells(<< >>, 0, b)
<1> DEFINE h == [i \in 0..0 |-> 0]
<1>1. << >> \in Seq(Ink) /\ Len(<< >>) = 0
  OBVIOUS
<1>2. h \in [0..0 -> 0..0] /\ Reading(h, << >>, b) /\ h[0] = 0
  BY <1>1 DEF Reading
<1> QED BY <1>1, <1>2 DEF Spells

\* One more digit is what number() divided off.
LEMMA OneDigit ==
  ASSUME NEW b \in Bases, NEW v \in Nat, NEW ds, Spells(ds, v, b),
         NEW d \in 0 .. b - 1, NEW c \in {Lower[d + 1], Upper[d + 1]}
  PROVE  Spells(ds \o <<c>>, (v * b) + d, b)
<1> DEFINE n == Len(ds)
           es == ds \o <<c>>
           w == (v * b) + d
<1>1. c \in Ink /\ c # "-" /\ IsXDigit(c) /\ ValueOf(c) = d
  <2>1. d \in 0..15
    BY DEF Bases
  <2> QED BY <2>1, DigitRead
<1>2. /\ ds \in Seq(Ink) /\ n \in Nat /\ es \in Seq(Ink) /\ Len(es) = n + 1
      /\ es[n + 1] = c /\ \A i \in 1..n : es[i] = ds[i]
  BY <1>1 DEF Spells
<1>3. PICK h \in [0..n -> 0..v] : Reading(h, ds, b) /\ h[n] = v
  BY DEF Spells
<1>4. w \in Nat /\ v <= w
  BY DEF Bases
<1> DEFINE g == [i \in 0 .. n + 1 |-> IF i = n + 1 THEN w ELSE h[i]]
<1> HIDE DEF n, es, w
<1>5. g \in [0..n + 1 -> 0..w] /\ g[n + 1] = w /\ g[0] = 0
  BY <1>2, <1>3, <1>4 DEF Reading
<1>6. ASSUME NEW i \in 1 .. n + 1
      PROVE  /\ IsXDigit(es[i]) /\ es[i] # "-" /\ ValueOf(es[i]) \in 0 .. b - 1
             /\ g[i] = (g[i - 1] * b) + ValueOf(es[i])
  <2>1. CASE i = n + 1
    <3>1. g[i] = w /\ g[i - 1] = v
      BY <1>2, <1>3, <2>1
    <3> HIDE DEF g
    <3> QED BY <1>1, <1>2, <2>1, <3>1 DEF w
  <2>2. CASE i # n + 1
    <3>1. i \in 1..n /\ g[i] = h[i] /\ g[i - 1] = h[i - 1]
      BY <1>2, <2>2
    <3> HIDE DEF g
    <3> QED BY <1>2, <1>3, <3>1 DEF Reading, n
  <2> QED BY <2>1, <2>2
<1> HIDE DEF g
<1>7. Reading(g, es, b)
  BY <1>2, <1>5, <1>6 DEF Reading
<1>8. Spells(es, w, b)
  BY <1>2, <1>5, <1>7 DEF Spells
<1> QED BY <1>8 DEF es, w

\* Zeros in front change nothing.
LEMMA Zeros ==
  ASSUME NEW b \in Bases, NEW n \in Int
  PROVE  Spells(Pad("0", n), 0, b)
<1> DEFINE z == Pad("0", n)
           h == [i \in 0..Len(z) |-> 0]
<1>1. z \in Seq(Ink) /\ Len(z) \in Nat /\ \A i \in 1..Len(z) : z[i] = "0"
  <2> DEFINE m == IF n < 0 THEN 0 ELSE n
  <2>1. m \in Nat /\ 1..n = 1..m
    OBVIOUS
  <2>2. z = [i \in 1..m |-> "0"]
    BY <2>1 DEF Pad
  <2> HIDE DEF z, m
  <2> QED BY <2>1, <2>2 DEF Ink, XDigits
<1>2. "0" \in {Lower[0 + 1], Upper[0 + 1]}
  BY DEF Lower
<1>3. "0" # "-" /\ IsXDigit("0") /\ ValueOf("0") = 0
  BY <1>2, DigitRead
<1> HIDE DEF z
<1>4. h \in [0..Len(z) -> 0..0] /\ h[Len(z)] = 0
  BY <1>1
<1>5. Reading(h, z, b)
  BY <1>1, <1>3 DEF Reading, Bases
<1>6. Spells(z, 0, b)
  BY <1>1, <1>4, <1>5 DEF Spells
<1> QED BY <1>6 DEF z

\* So do the digits behind them read as before.
LEMMA ZerosInFront ==
  ASSUME NEW b \in Bases, NEW v \in Nat, NEW z, NEW ds, Spells(z, 0, b), Spells(ds, v, b)
  PROVE  Spells(z \o ds, v, b)
<1> DEFINE m == Len(z)
           n == Len(ds)
           es == z \o ds
<1>1. /\ m \in Nat /\ n \in Nat /\ es \in Seq(Ink) /\ Len(es) = m + n
      /\ \A i \in 1 .. m + n : es[i] = IF i <= m THEN z[i] ELSE ds[i - m]
  BY DEF Spells
<1>2. PICK f \in [0..m -> 0..0] : Reading(f, z, b) /\ f[m] = 0
  BY DEF Spells
<1>3. PICK g \in [0..n -> 0..v] : Reading(g, ds, b) /\ g[n] = v
  BY DEF Spells
<1> DEFINE h == [i \in 0 .. m + n |-> IF i <= m THEN f[i] ELSE g[i - m]]
<1> HIDE DEF m, n, es
<1>4. h \in [0 .. m + n -> 0..v] /\ h[m + n] = v /\ h[0] = 0
  <2>1. ASSUME NEW i \in 0 .. m + n PROVE h[i] \in 0..v
    <3>1. CASE i <= m
      BY <1>1, <1>2, <3>1
    <3>2. CASE ~(i <= m)
      BY <1>1, <1>3, <3>2
    <3> QED BY <3>1, <3>2
  <2>2. h \in [0 .. m + n -> 0..v]
    BY <2>1
  <2>3. h[m + n] = v
    BY <1>1, <1>2, <1>3 DEF Reading
  <2>4. h[0] = 0
    BY <1>1, <1>2 DEF Reading
  <2> QED BY <2>2, <2>3, <2>4
<1>5. ASSUME NEW i \in 1 .. m + n
      PROVE  /\ IsXDigit(es[i]) /\ es[i] # "-" /\ ValueOf(es[i]) \in 0 .. b - 1
             /\ h[i] = (h[i - 1] * b) + ValueOf(es[i])
  <2>1. CASE i <= m
    <3>1. i \in 1..m /\ es[i] = z[i] /\ h[i] = f[i] /\ h[i - 1] = f[i - 1]
      BY <1>1, <2>1
    <3> HIDE DEF h
    <3> QED BY <1>2, <3>1 DEF Reading, m
  <2>2. CASE ~(i <= m)
    <3>1. i - m \in 1..n /\ es[i] = ds[i - m] /\ h[i] = g[i - m]
      BY <1>1, <2>2
    <3>2. h[i - 1] = g[i - m - 1]
      <4>1. CASE i - 1 <= m
        <5>1. i - 1 = m /\ i - m - 1 = 0
          BY <1>1, <2>2, <4>1
        <5> QED BY <1>1, <1>2, <1>3, <5>1 DEF Reading
      <4>2. CASE ~(i - 1 <= m)
        BY <1>1, <4>2
      <4> QED BY <4>1, <4>2
    <3> HIDE DEF h
    <3> QED BY <1>3, <3>1, <3>2 DEF Reading, n
  <2> QED BY <2>1, <2>2
<1> HIDE DEF h
<1>6. Reading(h, es, b)
  BY <1>1, <1>4, <1>5 DEF Reading
<1>7. Spells(es, v, b)
  BY <1>1, <1>4, <1>6 DEF Spells
<1> QED BY <1>7 DEF es

\* The equation of the digits, and what its solutions are.
Divided(f, n, b, large) ==
  [k \in 0..n |-> IF k < b THEN <<(IF large THEN Upper ELSE Lower)[k + 1]>>
                  ELSE f[k \div b] \o <<(IF large THEN Upper ELSE Lower)[(k % b) + 1]>>]

\* do_div() makes a number of more than one digit smaller.
LEMMA DivisionSmaller ==
  ASSUME NEW k \in Nat, NEW b \in Bases, k >= b
  PROVE  /\ k \div b \in 0 .. k - 1 /\ k % b \in 0 .. b - 1
         /\ ((k \div b) * b) + (k % b) = k
BY DEF Bases

\* One step of the division spells what is divided.
LEMMA Divides ==
  ASSUME NEW b \in Bases, NEW n \in Nat, NEW f, NEW large, NEW k \in 0..n,
         k >= b => Spells(f[k \div b], k \div b, b)
  PROVE  Spells(Divided(f, n, b, large)[k], k, b)
<1> DEFINE c(d) == (IF large THEN Upper ELSE Lower)[d + 1]
<1>1. \A d : c(d) \in {Lower[d + 1], Upper[d + 1]}
  OBVIOUS
<1>2. Divided(f, n, b, large)[k] = IF k < b THEN <<c(k)>> ELSE f[k \div b] \o <<c(k % b)>>
  BY DEF Divided
<1> HIDE DEF c
<1>3. CASE k < b
  <2>1. k \in 0 .. b - 1 /\ (0 * b) + k = k
    BY <1>3 DEF Bases
  <2>2. Spells(<< >> \o <<c(k)>>, (0 * b) + k, b)
    BY <1>1, <2>1, NoDigit, OneDigit
  <2>3. << >> \o <<c(k)>> = <<c(k)>>
    OBVIOUS
  <2> QED BY <1>2, <1>3, <2>1, <2>2, <2>3
<1>4. CASE ~(k < b)
  <2>1. /\ k \div b \in Nat /\ k % b \in 0 .. b - 1
        /\ ((k \div b) * b) + (k % b) = k
    <3>1. k \in Nat /\ k >= b
      BY <1>4 DEF Bases
    <3> QED BY <3>1, DivisionSmaller
  <2>2. Spells(f[k \div b], k \div b, b)
    BY <1>4 DEF Bases
  <2>3. Spells(f[k \div b] \o <<c(k % b)>>, ((k \div b) * b) + (k % b), b)
    BY <1>1, <2>1, <2>2, OneDigit
  <2> QED BY <1>2, <1>4, <2>1, <2>3
<1> QED BY <1>3, <1>4

\* There are digits of every number, by the least that has none.
LEMMA Divisible ==
  ASSUME NEW b \in Bases, NEW large, NEW n \in Nat
  PROVE  \E f : f = Divided(f, n, b, large)
<1> DEFINE Has(i) == \E f : f = Divided(f, i, b, large)
           T == {i \in Nat : ~Has(i)}
<1>1. SUFFICES ASSUME T # {} PROVE FALSE
  OBVIOUS
<1>2. PICK i \in T : \A j \in T : i <= j
  <2>1. T \subseteq Nat
    OBVIOUS
  <2> HIDE DEF T
  <2> QED BY <1>1, <2>1, LeastNatural
<1>3. i \in Nat /\ ~Has(i) /\ \A j \in 0 .. i - 1 : Has(j)
  <2>1. \A j \in 0 .. i - 1 : j \in Nat /\ ~(i <= j)
    BY <1>2
  <2> HIDE DEF Has
  <2> QED BY <1>2, <2>1
<1>4. PICK f : \A k \in 0 .. i - 1 : f[k] = Divided(f, i, b, large)[k]
  <2>1. CASE i = 0
    BY <2>1
  <2>2. CASE i # 0
    <3>1. i - 1 \in 0 .. i - 1
      BY <1>3, <2>2
    <3>2. PICK f : f = Divided(f, i - 1, b, large)
      BY <1>3, <3>1
    <3>3. \A k \in 0 .. i - 1 : Divided(f, i - 1, b, large)[k] = Divided(f, i, b, large)[k]
      BY <1>3 DEF Divided
    <3> QED BY <3>2, <3>3
  <2> QED BY <2>1, <2>2
<1> DEFINE g == [k \in 0..i |-> IF k = i THEN Divided(f, i, b, large)[i] ELSE f[k]]
<1>5. \A k \in 0 .. i - 1 : g[k] = f[k]
  BY <1>3
<1>6. ASSUME NEW k \in 0..i PROVE Divided(g, i, b, large)[k] = Divided(f, i, b, large)[k]
  <2>1. k >= b => g[k \div b] = f[k \div b]
    <3> HAVE k >= b
    <3>1. k \div b \in 0 .. i - 1
      BY <1>3, DivisionSmaller
    <3> HIDE DEF g
    <3> QED BY <1>5, <3>1
  <2>2. ~(k < b) => k >= b
    BY <1>3 DEF Bases
  <2> HIDE DEF g
  <2> QED BY <2>1, <2>2 DEF Divided
<1>7. ASSUME NEW k \in 0..i PROVE g[k] = Divided(f, i, b, large)[k]
  BY <1>3, <1>4
<1>8. g = [k \in 0..i |-> g[k]]
  OBVIOUS
<1>9. Divided(g, i, b, large) = [k \in 0..i |-> Divided(g, i, b, large)[k]]
  BY DEF Divided
<1>10. g = Divided(g, i, b, large)
  <2> HIDE DEF g
  <2> QED BY <1>6, <1>7, <1>8, <1>9
<1> HIDE DEF g
<1> QED BY <1>3, <1>10

\* number()'s digits spell the number.
LEMMA DigitsSpell ==
  ASSUME NEW b \in Bases, NEW large, NEW n \in Nat
  PROVE  Spells(Digits(n, b, large), n, b) /\ Len(Digits(n, b, large)) >= 1
<1> DEFINE f == CHOOSE g : g = Divided(g, n, b, large)
<1>1. Digits(n, b, large) = f[n]
  BY DEF Digits, Divided
<1>2. f = Divided(f, n, b, large)
  BY Divisible
<1> HIDE DEF f
<1> DEFINE T == {k \in 0..n : ~Spells(f[k], k, b)}
<1>3. T = {}
  <2> SUFFICES ASSUME T # {} PROVE FALSE
    OBVIOUS
  <2>1. PICK k \in T : \A j \in T : k <= j
    <3>1. T \subseteq Nat
      OBVIOUS
    <3> HIDE DEF T
    <3> QED BY <3>1, LeastNatural
  <2>2. k >= b => Spells(f[k \div b], k \div b, b)
    <3> HAVE k >= b
    <3>1. k \div b \in 0 .. k - 1
      BY DivisionSmaller
    <3>2. k \div b \in 0..n /\ k \div b \notin T
      BY <2>1, <3>1
    <3> QED BY <3>2
  <2>3. Spells(Divided(f, n, b, large)[k], k, b)
    BY <2>2, Divides
  <2> QED BY <1>2, <2>3
<1>4. Spells(f[n], n, b)
  BY <1>3
<1>5. Len(f[n]) >= 1
  <2>1. Len(f[n]) # 0 \/ n = 0
    BY <1>4 DEF Spells, Reading
  <2>2. n = 0 => f[n] = <<(IF large THEN Upper ELSE Lower)[1]>>
    BY <1>2 DEF Divided, Bases
  <2>3. Len(f[n]) \in Nat
    BY <1>4 DEF Spells
  <2> QED BY <2>1, <2>2, <2>3
<1> QED BY <1>1, <1>4, <1>5

\* It reads the number that the digits spell, whatever is not a digit behind them.
LEMMA ReadsDigits ==
  ASSUME NEW b \in Bases, NEW v \in 0 .. 2^W - 1, NEW ds, Spells(ds, v, b),
         NEW back \in Seq(Ink), \A i \in 1..Len(back) : ~IsXDigit(back[i])
  PROVE  StrToUL(ds \o back, b) = v
<1> DEFINE n == Len(ds)
           cp == ds \o back
           isDigit(i) == IsXDigit(cp[i]) /\ ValueOf(cp[i]) < b
           end == CHOOSE e \in 1 .. Len(cp) + 1 :
                    /\ e = Len(cp) + 1 \/ ~isDigit(e)
                    /\ \A i \in 1 .. e - 1 : isDigit(i)
           Sum(f) == [i \in 1 .. n + 1 |-> IF i = 1 THEN 0
                      ELSE (f[i - 1] * b + ValueOf(cp[i - 1])) % 2^W]
<1>1. /\ n \in Nat /\ Len(cp) = n + Len(back) /\ Len(back) \in Nat
      /\ \A i \in 1..n : cp[i] = ds[i]
      /\ Len(back) # 0 => cp[n + 1] = back[1]
  BY DEF Spells
<1>2. PICK h \in [0..n -> 0..v] : Reading(h, ds, b) /\ h[n] = v
  BY DEF Spells
<1>3. BaseOf(cp, b)[1] = b /\ BaseOf(cp, b)[2] = 1
  BY DEF BaseOf, Bases
<1>4. end = n + 1
  <2>1. ASSUME NEW i \in 1..n PROVE isDigit(i)
    <3>1. cp[i] = ds[i]
      BY <1>1
    <3> HIDE DEF cp, n
    <3> QED BY <1>2, <3>1 DEF Reading, Bases, n
  <2>2. n = Len(cp) \/ ~isDigit(n + 1)
    BY <1>1
  <2>3. n <= Len(cp) /\ Len(cp) \in Nat
    BY <1>1
  <2> DEFINE Stop(e) == /\ e = Len(cp) + 1 \/ ~isDigit(e)
                        /\ \A i \in 1 .. e - 1 : isDigit(i)
  <2> HIDE DEF n, cp, isDigit
  <2>4. n + 1 \in 1 .. Len(cp) + 1 /\ Stop(n + 1)
    BY <1>1, <2>1, <2>2, <2>3
  <2>5. ASSUME NEW e \in 1 .. Len(cp) + 1, Stop(e) PROVE e = n + 1
    <3>1. ~(e < n + 1)
      BY <1>1, <2>1, <2>3, <2>5
    <3>2. ~(n + 1 < e)
      BY <1>1, <2>2, <2>3, <2>5
    <3> QED BY <1>1, <2>3, <3>1, <3>2
  <2> HIDE DEF Stop
  <2>6. n + 1 = CHOOSE e \in 1 .. Len(cp) + 1 : Stop(e)
    BY <2>4, <2>5
  <2> QED BY <2>6 DEF Stop
<1>5. StrToUL(cp, b) = (CHOOSE f : f = Sum(f))[n + 1]
  <2>1. StrToUL(cp, b) = (CHOOSE f : f = [i \in 1..end |-> IF i = 1 THEN 0
                            ELSE (f[i - 1] * b + ValueOf(cp[i - 1])) % 2^W])[end]
    <3> HIDE DEF cp
    <3> QED BY <1>3 DEF StrToUL
  <2> HIDE DEF end, cp
  <2> QED BY <1>4, <2>1
<1> DEFINE g == [i \in 1 .. n + 1 |-> h[i - 1]]
<1>6. ASSUME NEW i \in 1..n
      PROVE  h[i] = (h[i - 1] * b + ValueOf(cp[i])) % 2^W
  <2>1. h[i] = h[i - 1] * b + ValueOf(cp[i])
    BY <1>1, <1>2 DEF Reading
  <2>2. h[i] \in 0 .. 2^W - 1
    BY <1>1, <1>2, PowerAssumption
  <2>3. 2^W \in Nat \ {0}
    BY PowerAssumption
  <2>4. \A m \in Nat \ {0} : \A x \in 0 .. m - 1 : x % m = x
    OBVIOUS
  <2> HIDE DEF cp, n
  <2> QED BY <2>1, <2>2, <2>3, <2>4
<1> HIDE DEF cp, isDigit, end
<1>7. g = Sum(g)
  <2>1. ASSUME NEW i \in 1 .. n + 1 PROVE g[i] = Sum(g)[i]
    <3>1. CASE i = 1
      BY <1>2, <3>1 DEF Reading
    <3>2. CASE i # 1
      <4>1. i - 1 \in 1..n /\ (i - 1) - 1 \in 0..n /\ i - 1 \in 1 .. n + 1
        BY <1>1, <3>2
      <4>2. g[i] = h[i - 1] /\ g[i - 1] = h[(i - 1) - 1]
        BY <4>1
      <4> HIDE DEF g
      <4> QED BY <1>6, <3>2, <4>1, <4>2
    <3> QED BY <3>1, <3>2
  <2>2. g = [i \in 1 .. n + 1 |-> g[i]] /\ Sum(g) = [i \in 1 .. n + 1 |-> Sum(g)[i]]
    OBVIOUS
  <2> HIDE DEF g, Sum
  <2> QED BY <2>1, <2>2
<1> DEFINE f == CHOOSE x : x = Sum(x)
           F == [k \in 0..n |-> f[k + 1]]
<1>8. f = Sum(f)
  <2> HIDE DEF g, Sum
  <2> QED BY <1>7
<1> HIDE DEF f, g
<1>9. F[0] = h[0]
  <2>1. f[1] = 0
    BY <1>1, <1>8
  <2> QED BY <1>1, <1>2, <2>1 DEF Reading
<1>10. ASSUME NEW k \in 1..n, F[k - 1] = h[k - 1] PROVE F[k] = h[k]
  <2>1. f[k + 1] = (f[k] * b + ValueOf(cp[k])) % 2^W
    <3>1. k + 1 \in 1 .. n + 1 /\ k + 1 # 1 /\ (k + 1) - 1 = k
      BY <1>1
    <3>2. Sum(f)[k + 1] = (f[(k + 1) - 1] * b + ValueOf(cp[(k + 1) - 1])) % 2^W
      BY <3>1
    <3> HIDE DEF Sum
    <3> QED BY <1>8, <3>1, <3>2
  <2>2. F[k] = f[k + 1] /\ F[k - 1] = f[k]
    BY <1>1
  <2> HIDE DEF F
  <2> QED BY <1>6, <1>10, <2>1, <2>2
<1>11. F[n] = h[n]
  <2> HIDE DEF F, n
  <2>1. \A k \in 0..n : F[k] = h[k]
    <3>1. \A k \in 1..n : F[k - 1] = h[k - 1] => F[k] = h[k]
      BY <1>10
    <3>2. n \in Nat
      BY <1>1
    <3> QED BY <1>9, <3>1, <3>2, SameRecursion, ZenonT(30)
  <2> QED BY <1>1, <2>1
<1>12. F[n] = f[n + 1]
  BY <1>1
<1>13. StrToUL(cp, b) = f[n + 1]
  BY <1>5 DEF f
<1>14. StrToUL(cp, b) = v
  <2> HIDE DEF F
  <2> QED BY <1>2, <1>11, <1>12, <1>13
<1> QED BY <1>14 DEF cp

\* The characters that begin a width or a precision have values.
LEMMA DigitValue ==
  ASSUME NEW c, IsDigit(c)
  PROVE  ValueOf(c) \in 0..15
<1>1. \E d \in 0..9 : c = Lower[d + 1]
  <2>1. \/ c = Lower[0 + 1] \/ c = Lower[1 + 1] \/ c = Lower[2 + 1] \/ c = Lower[3 + 1]
        \/ c = Lower[4 + 1] \/ c = Lower[5 + 1] \/ c = Lower[6 + 1] \/ c = Lower[7 + 1]
        \/ c = Lower[8 + 1] \/ c = Lower[9 + 1]
    BY DEF IsDigit, Lower
  <2> QED BY <2>1
<1>2. PICK d \in 0..9 : c = Lower[d + 1]
  BY <1>1
<1> QED BY <1>2, DigitRead

\* skip_atoi() returns a number: the loop's equation has a solution.
Skipped(f, p, n) ==
  [q \in p .. p + n |-> IF q = p THEN 0 ELSE f[q - 1] * 10 + ValueOf(fmt[q - 1])]

\* So its result is a natural number, whatever digits it meets.
LEMMA SkipAtoiNumber ==
  ASSUME LibraryInv, NEW p \in 1 .. Len(fmt) + 1
  PROVE  SkipAtoi(p) \in Nat
<1> DEFINE e == BehindDigits(p)
           n == e - p
           Has(i) == \E f : f = Skipped(f, p, i)
<1>1. e \in p .. Len(fmt) + 1 /\ Len(fmt) \in Nat /\ \A r \in p .. e - 1 : IsDigit(fmt[r])
  <2> DEFINE T == {q \in p .. Len(fmt) + 1 : q = Len(fmt) + 1 \/ ~IsDigit(fmt[q])}
             Stop(q) == /\ q = Len(fmt) + 1 \/ ~IsDigit(fmt[q])
                        /\ \A r \in p .. q - 1 : IsDigit(fmt[r])
  <2>1. T \subseteq Nat /\ Len(fmt) + 1 \in T /\ Len(fmt) \in Nat
    BY DEF LibraryInv
  <2>2. PICK x \in T : \A y \in T : x <= y
    <3> HIDE DEF T
    <3> QED BY <2>1, LeastNatural
  <2>3. x \in p .. Len(fmt) + 1 /\ Stop(x)
    <3>1. \A r \in p .. x - 1 : r < x /\ r \in p .. Len(fmt) + 1
      BY <2>1
    <3> QED BY <2>2, <3>1
  <2> HIDE DEF T, Stop
  <2>4. e = CHOOSE q \in p .. Len(fmt) + 1 : Stop(q)
    BY DEF BehindDigits, Stop
  <2> HIDE DEF e
  <2>5. e \in p .. Len(fmt) + 1 /\ Stop(e)
    BY <2>3, <2>4
  <2> QED BY <2>1, <2>5 DEF Stop
<1> HIDE DEF e
<1>2. n \in Nat /\ p + n = e /\ p \in Nat
  BY <1>1
<1>3. SkipAtoi(p) = (CHOOSE f : f = Skipped(f, p, n))[e]
  BY <1>2 DEF SkipAtoi, Skipped, e
<1> HIDE DEF n
<1>4. Has(n)
  <2> DEFINE T == {i \in Nat : ~Has(i)}
  <2> SUFFICES ASSUME T # {} PROVE FALSE
    BY <1>2
  <2>1. PICK i \in T : \A j \in T : i <= j
    <3>1. T \subseteq Nat
      OBVIOUS
    <3> HIDE DEF T
    <3> QED BY <3>1, LeastNatural
  <2>2. i \in Nat /\ ~Has(i) /\ (i # 0 => Has(i - 1))
    <3>1. i # 0 => i - 1 \in Nat /\ ~(i <= i - 1)
      OBVIOUS
    <3> HIDE DEF Has
    <3> QED BY <2>1, <3>1
  <2>3. CASE i = 0
    <3> DEFINE f == [q \in p .. p + 0 |-> 0]
    <3>1. f = Skipped(f, p, 0)
      BY <1>2 DEF Skipped
    <3> HIDE DEF f
    <3> QED BY <2>2, <2>3, <3>1
  <2>4. CASE i # 0
    <3>1. PICK f : f = Skipped(f, p, i - 1)
      BY <2>2, <2>4
    <3> DEFINE g == [q \in p .. p + i |->
                       IF q = p + i THEN f[q - 1] * 10 + ValueOf(fmt[q - 1]) ELSE f[q]]
    <3>2. ASSUME NEW q \in p .. p + i PROVE g[q] = Skipped(g, p, i)[q]
      <4>1. CASE q = p + i
        <5>1. g[q] = f[q - 1] * 10 + ValueOf(fmt[q - 1]) /\ g[q - 1] = f[q - 1] /\ q # p
          BY <1>2, <2>2, <2>4, <4>1
        <5> HIDE DEF g
        <5> QED BY <5>1 DEF Skipped
      <4>2. CASE q # p + i
        <5>1. q \in p .. p + (i - 1) /\ g[q] = f[q]
          BY <1>2, <2>2, <2>4, <4>2
        <5>2. q # p => g[q - 1] = f[q - 1]
          BY <1>2, <2>2, <4>2
        <5> HIDE DEF g
        <5>3. f[q] = IF q = p THEN 0 ELSE f[q - 1] * 10 + ValueOf(fmt[q - 1])
          BY <3>1, <5>1 DEF Skipped
        <5> QED BY <5>1, <5>2, <5>3 DEF Skipped
      <4> QED BY <4>1, <4>2
    <3>3. g = [q \in p .. p + i |-> g[q]]
      OBVIOUS
    <3>4. Skipped(g, p, i) = [q \in p .. p + i |-> Skipped(g, p, i)[q]]
      BY DEF Skipped
    <3>5. g = Skipped(g, p, i)
      <4> HIDE DEF g
      <4> QED BY <3>2, <3>3, <3>4
    <3> HIDE DEF g
    <3> QED BY <2>2, <3>5
  <2> QED BY <2>3, <2>4
<1> DEFINE f == CHOOSE x : x = Skipped(x, p, n)
<1>5. f = Skipped(f, p, n)
  BY <1>4
<1> HIDE DEF f
<1>6. ASSUME NEW i \in 1..n
      PROVE  f[p + i] = f[p + (i - 1)] * 10 + ValueOf(fmt[p + (i - 1)])
  <2>1. p + i \in p .. p + n /\ p + i # p /\ (p + i) - 1 = p + (i - 1)
    BY <1>2
  <2> QED BY <1>5, <2>1 DEF Skipped
<1> DEFINE T == {i \in 0..n : f[p + i] \notin Nat}
<1>7. T = {}
  <2> SUFFICES ASSUME T # {} PROVE FALSE
    OBVIOUS
  <2>1. PICK i \in T : \A j \in T : i <= j
    <3>1. T \subseteq Nat
      BY <1>2
    <3> HIDE DEF T
    <3> QED BY <3>1, LeastNatural
  <2>2. i # 0
    <3>1. f[p] = 0
      BY <1>2, <1>5 DEF Skipped
    <3>2. p + 0 = p
      BY <1>2
    <3> QED BY <2>1, <3>1, <3>2
  <2>3. i \in 1..n /\ i - 1 \in 0..n /\ ~(i <= i - 1)
    BY <1>2, <2>2
  <2>4. f[p + (i - 1)] \in Nat
    BY <2>1, <2>3
  <2>5. ValueOf(fmt[p + (i - 1)]) \in Nat
    <3>1. p + (i - 1) \in p .. e - 1
      BY <1>2, <2>3
    <3>2. ValueOf(fmt[p + (i - 1)]) \in 0..15
      BY <1>1, <3>1, DigitValue
    <3> QED BY <3>2
  <2>6. f[p + i] \in Nat
    BY <1>6, <2>3, <2>4, <2>5
  <2> QED BY <2>1, <2>6
<1>8. f[p + n] \in Nat
  <2>1. \A i \in 0..n : f[p + i] \in Nat
    BY <1>7
  <2>2. n \in 0..n
    <3>1. n \in Nat
      BY <1>2
    <3> QED BY <3>1
  <2> QED BY <2>1, <2>2
<1> QED BY <1>2, <1>3, <1>8 DEF f

\* What a number's text must read back as.
ReadsBack(r) ==
  LET read == StrToUL(DigitsOf(r), r.base)
      minus == \E i \in 1..Len(r.chars) : r.chars[i] = "-"
  IN  (IF minus THEN -read ELSE read) % 2^W = r.num % 2^W
        /\ ("SIGN" \in r.type => minus = (r.num < 0))

\* A sequence without digits, and one without a sign.
NoDigits(s) == s \in Seq(Ink) /\ \A i \in 1..Len(s) : ~IsXDigit(s[i])
Has(s, c) == \E i \in 1..Len(s) : s[i] = c

\* A sign is in either part.
LEMMA HasEither ==
  ASSUME NEW s \in Seq(Ink), NEW t \in Seq(Ink), NEW c
  PROVE  Has(s \o t, c) = (Has(s, c) \/ Has(t, c))
<1> DEFINE m == Len(s)
           n == Len(t)
           u == s \o t
<1>1. /\ m \in Nat /\ n \in Nat /\ Len(u) = m + n
      /\ \A i \in 1..m : i \in 1..m + n /\ u[i] = s[i]
      /\ \A i \in 1..n : m + i \in 1..m + n /\ u[m + i] = t[i]
  OBVIOUS
<1>2. ASSUME NEW i \in 1..m + n
      PROVE  i \in 1..m \/ (i - m \in 1..n /\ m + (i - m) = i)
  BY <1>1
<1> HIDE DEF m, n, u
<1>3. ASSUME NEW i \in 1..Len(u), u[i] = c PROVE Has(s, c) \/ Has(t, c)
  BY <1>1, <1>2, <1>3 DEF Has, m, n
<1>4. ASSUME NEW i \in 1..Len(s), s[i] = c PROVE Has(u, c)
  BY <1>1, <1>4 DEF Has, m
<1>5. ASSUME NEW i \in 1..Len(t), t[i] = c PROVE Has(u, c)
  BY <1>1, <1>5 DEF Has, n
<1>6. Has(u, c) = (Has(s, c) \/ Has(t, c))
  BY <1>3, <1>4, <1>5 DEF Has
<1> QED BY <1>6 DEF u

\* Digits show no sign.
LEMMA SpellsNoSign ==
  ASSUME NEW ds, NEW v, NEW b, Spells(ds, v, b)
  PROVE  ds \in Seq(Ink) /\ ~Has(ds, "-") /\ \A i \in 1..Len(ds) : IsXDigit(ds[i])
BY DEF Spells, Reading, Has

\* Where the digits of a text begin.
LEMMA DigitsBegin ==
  ASSUME NEW r, NEW front, NoDigits(front), NEW tail \in Seq(Ink),
         r.chars = front \o tail, Len(tail) >= 1, IsXDigit(tail[1])
  PROVE  DigitsOf(r) =
           SubSeq(r.chars,
                  (Len(front) + 1) + (IF Prefix(r.base, r.type) # << >> /\ r.base = 16
                                      THEN 2 ELSE 0),
                  Len(r.chars))
<1> DEFINE s == r.chars
           n == Len(front)
           First(i) == IsXDigit(s[i]) /\ \A j \in 1 .. i - 1 : ~IsXDigit(s[j])
<1>1. /\ n \in Nat /\ Len(s) \in Nat /\ n + 1 <= Len(s)
      /\ \A i \in 1..n : ~IsXDigit(s[i])
      /\ IsXDigit(s[n + 1])
  BY DEF NoDigits
<1> HIDE DEF s, n
<1>2. n + 1 \in 1..Len(s) /\ First(n + 1)
  BY <1>1
<1>3. ASSUME NEW i \in 1..Len(s), First(i) PROVE i = n + 1
  <2>1. ~(i < n + 1)
    BY <1>1, <1>3
  <2>2. ~(n + 1 < i)
    BY <1>1, <1>3
  <2> QED BY <1>1, <2>1, <2>2
<1> HIDE DEF First
<1>4. (CHOOSE i \in 1..Len(s) : First(i)) = n + 1
  BY <1>2, <1>3
<1>5. (CHOOSE i \in 1..Len(r.chars) : /\ IsXDigit(r.chars[i])
                                      /\ \A j \in 1 .. i - 1 : ~IsXDigit(r.chars[j]))
        = Len(front) + 1
  BY <1>4 DEF First, s, n
<1> QED BY <1>5 DEF DigitsOf

\* How sequences are joined.
LEMMA Joined ==
  ASSUME NEW s \in Seq(Ink), NEW t \in Seq(Ink), NEW u \in Seq(Ink)
  PROVE  /\ s \o t \in Seq(Ink) /\ Len(s \o t) = Len(s) + Len(t)
         /\ s \o (t \o u) = (s \o t) \o u
         /\ SubSeq(s \o t, Len(s) + 1, Len(s \o t)) = t
OBVIOUS

\* The marks number() writes beside digits and blanks.
LEMMA Marks == "0" \in Ink /\ "x" \in Ink /\ "X" \in Ink /\ "-" \in Ink /\ "+" \in Ink
<1>1. "0" \in XDigits
  BY DEF XDigits
<1> HIDE DEF XDigits
<1> QED BY <1>1, Zenon DEF Ink

\* How number() lays out the pieces: what stands in front, prefix, zeros, digits, padding.
LaidOut(r, front, z, ds, back) ==
  r.chars = front \o (Prefix(r.base, r.type) \o ((z \o ds) \o back))

\* A text of padding, sign, prefix, zeros, digits and padding reads as the digits do.
LEMMA TextReads ==
  ASSUME NEW b \in Bases, NEW v \in 0 .. 2^W - 1,
         NEW r, r.base = b,
         NEW front, NoDigits(front),
         NEW z, Spells(z, 0, b), NEW ds, Spells(ds, v, b), Len(ds) >= 1,
         NEW back, NoDigits(back), ~Has(back, "-"),
         LaidOut(r, front, z, ds, back)
  PROVE  /\ StrToUL(DigitsOf(r), b) = v
         /\ Has(r.chars, "-") = Has(front, "-")
<1> DEFINE p == Prefix(b, r.type)
           es == z \o ds
<1>1. v \in Nat
  BY PowerAssumption
<1>2. Spells(es, v, b) /\ Len(es) >= 1
  <2>1. Spells(es, v, b)
    BY <1>1, ZerosInFront
  <2>2. Len(es) = Len(z) + Len(ds) /\ Len(z) \in Nat /\ Len(ds) \in Nat
    BY DEF Spells
  <2> QED BY <2>1, <2>2
<1>3. es \in Seq(Ink) /\ ~Has(es, "-") /\ IsXDigit(es[1])
  <2> HIDE DEF es
  <2>1. Len(es) \in Nat
    BY <1>2 DEF Spells
  <2> QED BY <1>2, <2>1, SpellsNoSign
<1>4. front \in Seq(Ink) /\ back \in Seq(Ink)
  BY DEF NoDigits
<1>5. p \in Seq(Ink) /\ ~Has(p, "-")
  BY Marks DEF Prefix, Has
<1>6. Has(r.chars, "-") = Has(front, "-")
  <2> HIDE DEF p, es
  <2>1. es \o back \in Seq(Ink) /\ p \o (es \o back) \in Seq(Ink)
    BY <1>3, <1>4, <1>5
  <2>2. ~Has(es \o back, "-")
    BY <1>3, <1>4, HasEither
  <2>3. ~Has(p \o (es \o back), "-")
    BY <1>5, <2>1, <2>2, HasEither
  <2>4. Has(front \o (p \o (es \o back)), "-")
          = (Has(front, "-") \/ Has(p \o (es \o back), "-"))
    <3> DEFINE t == p \o (es \o back)
    <3>1. t \in Seq(Ink)
      BY <2>1
    <3> HIDE DEF t
    <3>2. Has(front \o t, "-") = (Has(front, "-") \/ Has(t, "-"))
      BY <1>4, <3>1, HasEither
    <3> QED BY <3>2 DEF t
  <2>5. r.chars = front \o (p \o (es \o back))
    BY DEF LaidOut, p, es
  <2>6. Has(front \o (p \o (es \o back)), "-") = Has(front, "-")
    BY <2>3, <2>4, Zenon DEF Has
  <2> QED BY <2>5, <2>6
<1>7. CASE p = << >>
  <2> DEFINE tail == es \o back
  <2>1. tail \in Seq(Ink) /\ Len(tail) >= 1 /\ IsXDigit(tail[1])
    <3> HIDE DEF es
    <3> QED BY <1>2, <1>3, <1>4
  <2>2. r.chars = front \o tail
    <3> HIDE DEF es
    <3>1. p \o (es \o back) = es \o back
      BY <1>3, <1>4, <1>7
    <3> QED BY <3>1 DEF es, p, LaidOut
  <2>3. SubSeq(r.chars, Len(front) + 1, Len(r.chars)) = tail
    <3> HIDE DEF tail
    <3> QED BY <1>4, <2>1, <2>2
  <2>4. DigitsOf(r) = tail
    <3> HIDE DEF tail, es
    <3>1. Len(front) \in Nat /\ (Len(front) + 1) + 0 = Len(front) + 1
      BY <1>4
    <3> QED BY <1>7, <2>1, <2>2, <2>3, <3>1, DigitsBegin
  <2>5. StrToUL(tail, b) = v
    <3> HIDE DEF es
    <3> QED BY <1>2, <1>4, ReadsDigits DEF NoDigits
  <2> QED BY <1>6, <2>4, <2>5
<1>8. CASE b = 8 /\ p # << >>
  <2>1. p = <<"0">>
    BY <1>8 DEF Prefix
  <2> DEFINE fs == p \o es
             tail == fs \o back
  <2>2. Spells(p, 0, b)
    <3>1. Pad("0", 1) = <<"0">>
      BY DEF Pad
    <3> QED BY <2>1, <3>1, Zeros
  <2>3. Spells(fs, v, b)
    <3> HIDE DEF es
    <3> QED BY <1>1, <1>2, <2>2, ZerosInFront
  <2>4. fs \in Seq(Ink) /\ Len(fs) >= 1 /\ IsXDigit(fs[1])
    <3>1. Len(fs) = Len(p) + Len(es) /\ Len(p) = 1 /\ Len(es) \in Nat /\ fs \in Seq(Ink)
      <4> HIDE DEF es
      <4>1. fs \in Seq(Ink) /\ Len(fs) = Len(p) + Len(es) /\ Len(es) \in Nat
        <5> HIDE DEF p
        <5> QED BY <1>3, <1>5
      <4> QED BY <2>1, <4>1
    <3>2. Len(fs) >= 1
      <4> HIDE DEF fs, p, es
      <4> QED BY <3>1
    <3> HIDE DEF fs
    <3>3. 1 \in 1..Len(fs)
      BY <3>1, <3>2
    <3> QED BY <2>3, <3>1, <3>2, <3>3, SpellsNoSign
  <2>5. tail \in Seq(Ink) /\ Len(tail) >= 1 /\ IsXDigit(tail[1])
    <3> HIDE DEF fs
    <3> QED BY <1>4, <2>4
  <2>6. r.chars = front \o tail
    <3> HIDE DEF es, p
    <3>1. p \o (es \o back) = (p \o es) \o back
      <4>1. p \in Seq(Ink) /\ es \in Seq(Ink) /\ back \in Seq(Ink)
        BY <1>3, <1>4, <1>5
      <4> QED BY <4>1, Joined, Zenon
    <3> QED BY <3>1 DEF es, p, LaidOut
  <2>7. SubSeq(r.chars, Len(front) + 1, Len(r.chars)) = tail
    <3> HIDE DEF tail
    <3> QED BY <1>4, <2>5, <2>6
  <2>8. DigitsOf(r) = tail
    <3> HIDE DEF tail, fs
    <3>1. Len(front) \in Nat /\ (Len(front) + 1) + 0 = Len(front) + 1 /\ r.base # 16
      BY <1>4, <1>8
    <3> QED BY <2>5, <2>6, <2>7, <3>1, DigitsBegin
  <2>9. StrToUL(tail, b) = v
    <3> HIDE DEF fs
    <3> QED BY <2>3, <1>4, ReadsDigits DEF NoDigits
  <2> QED BY <1>6, <2>8, <2>9
<1>9. CASE b = 16 /\ p # << >>
  <2>1. Len(p) = 2 /\ p[1] = "0"
    BY <1>9 DEF Prefix
  <2> DEFINE rest == es \o back
             tail == p \o rest
             whole == (front \o p) \o rest
  <2>2. rest \in Seq(Ink)
    <3> HIDE DEF es
    <3> QED BY <1>3, <1>4
  <2>3. tail \in Seq(Ink) /\ Len(tail) >= 1 /\ IsXDigit(tail[1])
    <3> HIDE DEF p, rest
    <3>1. tail \in Seq(Ink) /\ Len(tail) >= 1 /\ tail[1] = "0"
      BY <1>5, <2>1, <2>2
    <3>2. IsXDigit("0")
      BY DEF IsXDigit, IsDigit
    <3> HIDE DEF tail
    <3> QED BY <3>1, <3>2
  <2>4. r.chars = front \o tail
    BY DEF LaidOut
  <2>5. r.chars = whole /\ Len(front \o p) = Len(front) + 2 /\ front \o p \in Seq(Ink)
    <3> HIDE DEF p, rest
    <3>1. front \o (p \o rest) = (front \o p) \o rest
      BY <1>4, <1>5, <2>2, Joined
    <3>2. Len(front \o p) = Len(front) + Len(p) /\ front \o p \in Seq(Ink)
      BY <1>4, <1>5, <2>2, Joined
    <3> QED BY <2>1, <2>4, <3>1, <3>2
  <2>6. SubSeq(r.chars, (Len(front) + 1) + 2, Len(r.chars)) = rest
    <3> DEFINE f == front \o p
    <3>1. SubSeq(f \o rest, Len(f) + 1, Len(f \o rest)) = rest
      <4> HIDE DEF f, rest
      <4>1. f \in Seq(Ink)
        BY <2>5 DEF f
      <4> QED BY <2>2, <4>1
    <3>2. (Len(front) + 1) + 2 = Len(f) + 1
      <4> HIDE DEF p
      <4> QED BY <1>4, <2>5
    <3> HIDE DEF p, rest
    <3> QED BY <2>5, <3>1, <3>2
  <2>7. DigitsOf(r) = rest
    <3>1. Prefix(r.base, r.type) # << >> /\ r.base = 16
      BY <1>9
    <3> HIDE DEF rest, tail, p, whole
    <3> QED BY <2>3, <2>4, <2>6, <3>1, DigitsBegin
  <2>8. StrToUL(rest, b) = v
    <3> HIDE DEF es
    <3> QED BY <1>2, <1>4, ReadsDigits DEF NoDigits
  <2> QED BY <1>6, <2>7, <2>8
<1>10. p = << >> \/ b = 8 \/ b = 16
  BY DEF Prefix
<1> QED BY <1>7, <1>8, <1>9, <1>10

\* Padding with blanks, and a sign, are no digits.
Blank == " "

LEMMA BlankIs == Blank \in Ink /\ ~IsXDigit(Blank) /\ Blank # "-"
<1>1. Blank \in Ink
  BY Zenon DEF Blank, Ink
<1>2. Blank \notin XDigits
  BY Zenon DEF Blank, XDigits
<1>3. ~IsXDigit(Blank)
  BY Zenon DEF Blank, IsXDigit, IsDigit
<1>4. Blank # "-"
  BY Zenon DEF Blank
<1> QED BY <1>1, <1>3, <1>4

\* However wide.
LEMMA Padding ==
  ASSUME NEW n \in Int
  PROVE  NoDigits(Pad(Blank, n)) /\ ~Has(Pad(Blank, n), "-")
<1> DEFINE m == IF n < 0 THEN 0 ELSE n
           s == Pad(Blank, n)
<1>1. m \in Nat /\ 1..n = 1..m
  OBVIOUS
<1>2. s = [i \in 1..m |-> Blank]
  BY <1>1 DEF Pad
<1> HIDE DEF m, s
<1>3. s \in Seq(Ink) /\ \A i \in 1..Len(s) : s[i] = Blank
  BY <1>1, <1>2, BlankIs
<1>4. NoDigits(s) /\ ~Has(s, "-")
  BY <1>3, BlankIs DEF NoDigits, Has
<1> QED BY <1>4 DEF s

\* The sign, of which only the minus matters.
LEMMA SignIs ==
  ASSUME NEW num \in Int, NEW type
  PROVE  LET s == Sign(num, type)
         IN  /\ NoDigits(s)
             /\ Has(s, "-") = ("SIGN" \in type /\ num < 0)
<1> DEFINE s == Sign(num, type)
<1>1. s = IF "SIGN" \notin type THEN << >>
          ELSE IF num < 0 THEN <<"-">>
          ELSE IF "PLUS" \in type THEN <<"+">>
          ELSE IF "SPACE" \in type THEN <<Blank>> ELSE << >>
  BY Zenon DEF Sign, Blank
<1>2. ~IsXDigit("-") /\ ~IsXDigit("+")
  BY DEF IsXDigit, IsDigit
<1>3. s \in Seq(Ink) /\ \A i \in 1..Len(s) : ~IsXDigit(s[i])
  BY <1>1, <1>2, BlankIs, Marks
<1>4. "SIGN" \in type /\ num < 0 => Has(s, "-")
  <2> HAVE "SIGN" \in type /\ num < 0
  <2>1. s = <<"-">>
    BY <1>1
  <2> HIDE DEF s
  <2>2. 1 \in 1..Len(s) /\ s[1] = "-"
    BY <2>1
  <2> QED BY <2>2 DEF Has
<1>5. ~("SIGN" \in type /\ num < 0) => ~Has(s, "-")
  <2> HAVE ~("SIGN" \in type /\ num < 0)
  <2>1. s \in {<< >>, <<"+">>, <<Blank>>}
    BY <1>1
  <2> HIDE DEF s
  <2>2. \A i \in 1..Len(s) : s[i] \in {"+", Blank}
    BY <2>1
  <2> QED BY <2>2, BlankIs DEF Has
<1> QED BY <1>3, <1>4, <1>5, Zenon DEF NoDigits, Has

\* How the pieces of a number's text are grouped.
Laid(chars, s, p, z, d, b) == chars = s \o (p \o ((z \o d) \o b))

LEMMA Grouped ==
  ASSUME NEW s \in Seq(Ink), NEW p \in Seq(Ink), NEW z \in Seq(Ink), NEW d \in Seq(Ink),
         NEW b \in Seq(Ink)
  PROVE  Laid(s \o p \o z \o d \o b, s, p, z, d, b)
<1>1. PICK a \in Seq(Ink) : a = s \o p
  <2>1. s \o p \in Seq(Ink)
    OBVIOUS
  <2> QED BY <2>1, Zenon
<1>2. PICK c \in Seq(Ink) : c = z \o d
  <2>1. z \o d \in Seq(Ink)
    OBVIOUS
  <2> QED BY <2>1, Zenon
<1>3. PICK e \in Seq(Ink) : e = c \o b
  <2>1. c \o b \in Seq(Ink)
    OBVIOUS
  <2> QED BY <2>1, Zenon
<1>4. (a \o z) \o d = a \o (z \o d)
  OBVIOUS
<1>5. (a \o c) \o b = a \o (c \o b)
  OBVIOUS
<1>6. (s \o p) \o e = s \o (p \o e)
  OBVIOUS
<1>7. s \o p \o z \o d \o b = a \o e
  BY <1>1, <1>2, <1>3, <1>4, <1>5, Zenon
<1>8. a \o e = s \o (p \o e)
  BY <1>1, <1>6, Zenon
<1> QED BY <1>2, <1>3, <1>7, <1>8, Zenon DEF Laid

\* Two parts without digits make one.
LEMMA NoDigitsBoth ==
  ASSUME NEW s, NoDigits(s), NEW t, NoDigits(t)
  PROVE  NoDigits(s \o t)
BY DEF NoDigits

\* number() lays out any number in any field so that it reads back.
LEMMA NumberReads ==
  ASSUME NEW num \in Ints, NEW b \in Bases, NEW size \in Int, NEW prec \in Int, NEW type
  PROVE  ReadsBack([num |-> num, base |-> b, type |-> type,
                    chars |-> Number(num, b, size, prec, type)])
<1> DEFINE M == 2^W
           v == Magnitude(num, type)
           sign == Sign(num, type)
           p == Prefix(b, type)
           ds == Digits(v, b, "LARGE" \in type)
           n == prec - Len(ds)
           room == size - Len(sign) - Len(p) - Larger(prec, Len(ds))
           r == [num |-> num, base |-> b, type |-> type,
                 chars |-> Number(num, b, size, prec, type)]
<1>0. /\ num \in Int /\ M \in Nat \ {0} /\ 2^(W - 1) \in Nat
      /\ M = 2 * 2^(W - 1) /\ -(2^(W - 1)) <= num /\ num < 2^(W - 1)
  BY FormatAssumption, PowerAssumption
<1>1. v \in 0 .. M - 1 /\ v = (IF "SIGN" \in type /\ num < 0 THEN -num ELSE num) % M
  BY <1>0 DEF Magnitude
<1> HIDE DEF M, v
<1>2. v \in Nat /\ Spells(ds, v, b) /\ Len(ds) >= 1
  BY <1>0, <1>1, DigitsSpell
<1>3. /\ NoDigits(sign)
      /\ Has(sign, "-") = ("SIGN" \in type /\ num < 0)
  BY <1>0, SignIs
<1>4. p \in Seq(Ink) /\ ds \in Seq(Ink) /\ sign \in Seq(Ink)
  <2>1. p \in Seq(Ink)
    BY Marks DEF Prefix
  <2>2. ds \in Seq(Ink)
    <3> HIDE DEF ds
    <3> QED BY <1>2 DEF Spells
  <2> QED BY <1>3, <2>1, <2>2 DEF NoDigits
<1> HIDE DEF ds, sign, p
<1>5. n \in Int /\ room \in Int
  BY <1>4 DEF Larger
<1> HIDE DEF n, room
<1>6. r.chars = IF "LEFT" \in type
                THEN sign \o p \o Pad("0", n) \o ds \o Pad(Blank, room)
                ELSE IF "ZEROPAD" \in type
                THEN sign \o p \o Pad("0", room) \o Pad("0", n) \o ds
                ELSE Pad(Blank, room) \o sign \o p \o Pad("0", n) \o ds
  <2>1. r.chars = Number(num, b, size, prec, type)
    BY Zenon
  <2> HIDE DEF r
  <2> QED BY <2>1, Zenon DEF Number, Blank, sign, p, ds, n, room, v
<1>7. r.num = num /\ r.base = b /\ r.type = type
  BY Zenon
<1> HIDE DEF r
<1>8. \E front, z, back :
        /\ NoDigits(front) /\ Has(front, "-") = Has(sign, "-")
        /\ Spells(z, 0, b)
        /\ NoDigits(back) /\ ~Has(back, "-")
        /\ LaidOut(r, front, z, ds, back)
  <2> DEFINE Z == Pad("0", n)
             B == Pad(Blank, room)
             none == << >>
  <2>1. Spells(Z, 0, b) /\ NoDigits(B) /\ ~Has(B, "-")
    BY <1>5, Padding, Zeros
  <2>2. Z \in Seq(Ink) /\ B \in Seq(Ink) /\ none \in Seq(Ink)
    <3> HIDE DEF Z, B
    <3> QED BY <2>1 DEF Spells, NoDigits
  <2>3. NoDigits(none) /\ ~Has(none, "-")
    BY DEF NoDigits, Has
  <2>4. CASE "LEFT" \in type
    <3>1. r.chars = sign \o p \o Z \o ds \o B
      BY <1>6, <2>4
    <3> HIDE DEF Z, B, none
    <3>2. r.chars = sign \o (p \o ((Z \o ds) \o B))
      <4>1. Laid(sign \o p \o Z \o ds \o B, sign, p, Z, ds, B)
        BY <1>4, <2>2, Grouped, Zenon
      <4> QED BY <3>1, <4>1 DEF Laid
    <3>3. LaidOut(r, sign, Z, ds, B)
      BY <1>7, <3>2 DEF LaidOut, p
    <3> QED BY <1>3, <2>1, <3>3
  <2>5. CASE "LEFT" \notin type /\ "ZEROPAD" \in type
    <3> DEFINE Y == Pad("0", room)
               YZ == Y \o Z
    <3>1. Spells(Y, 0, b) /\ Spells(YZ, 0, b)
      <4>1. Spells(Y, 0, b)
        BY <1>5, Zeros
      <4> HIDE DEF Y, Z
      <4> QED BY <2>1, <4>1, ZerosInFront
    <3>2. r.chars = sign \o p \o Y \o Z \o ds
      BY <1>6, <2>5
    <3>3. Y \in Seq(Ink) /\ YZ \in Seq(Ink)
      <4> HIDE DEF Y, YZ
      <4> QED BY <3>1 DEF Spells
    <3> HIDE DEF Y, Z, B, none
    <3>4. sign \o p \o Y \o Z = sign \o p \o YZ
      <4> DEFINE a == sign \o p
      <4>1. a \in Seq(Ink)
        BY <1>4, Joined
      <4> HIDE DEF a
      <4>2. a \o (Y \o Z) = (a \o Y) \o Z
        BY <2>2, <3>3, <4>1, Joined
      <4> QED BY <4>2 DEF a
    <3> HIDE DEF YZ
    <3>5. sign \o p \o YZ \o ds \in Seq(Ink)
      BY <1>4, <3>3, Joined
    <3>6. r.chars = sign \o p \o YZ \o ds \o none
      <4> DEFINE a == sign \o p \o YZ \o ds
      <4>1. \A c \in Seq(Ink) : c \o << >> = c
        OBVIOUS
      <4>2. a \o << >> = a
        BY <3>5, <4>1
      <4> QED BY <3>2, <3>4, <4>2 DEF none
    <3>7. r.chars = sign \o (p \o ((YZ \o ds) \o none))
      <4>1. Laid(sign \o p \o YZ \o ds \o none, sign, p, YZ, ds, none)
        BY <1>4, <2>2, <3>3, Grouped, Zenon
      <4> QED BY <3>6, <4>1 DEF Laid
    <3>8. LaidOut(r, sign, YZ, ds, none)
      BY <1>7, <3>7 DEF LaidOut, p
    <3> QED BY <1>3, <2>3, <3>1, <3>8
  <2>6. CASE "LEFT" \notin type /\ "ZEROPAD" \notin type
    <3> DEFINE front == B \o sign
    <3>1. r.chars = front \o p \o Z \o ds
      BY <1>6, <2>6
    <3> HIDE DEF Z, B, none
    <3>2. NoDigits(front) /\ front \in Seq(Ink)
      BY <1>3, <1>4, <2>1, <2>2, NoDigitsBoth, Joined
    <3>3. Has(front, "-") = Has(sign, "-")
      <4>1. Has(front, "-") = (Has(B, "-") \/ Has(sign, "-"))
        BY <1>4, <2>2, HasEither
      <4> QED BY <2>1, <4>1, Zenon DEF Has
    <3> HIDE DEF front
    <3>4. front \o p \o Z \o ds \in Seq(Ink)
      BY <1>4, <2>2, <3>2, Joined
    <3>5. r.chars = front \o p \o Z \o ds \o none
      <4>1. \A c \in Seq(Ink) : c \o << >> = c
        OBVIOUS
      <4> QED BY <3>1, <3>4, <4>1 DEF none
    <3>6. r.chars = front \o (p \o ((Z \o ds) \o none))
      <4>1. Laid(front \o p \o Z \o ds \o none, front, p, Z, ds, none)
        BY <1>4, <2>2, <3>2, Grouped, Zenon
      <4> QED BY <3>5, <4>1 DEF Laid
    <3>7. LaidOut(r, front, Z, ds, none)
      BY <1>7, <3>6 DEF LaidOut, p
    <3> QED BY <2>1, <2>3, <3>2, <3>3, <3>7
  <2> QED BY <2>4, <2>5, <2>6
<1>9. StrToUL(DigitsOf(r), b) = v /\ Has(r.chars, "-") = ("SIGN" \in type /\ num < 0)
  <2>1. PICK front, z, back :
        /\ NoDigits(front) /\ Has(front, "-") = Has(sign, "-")
        /\ Spells(z, 0, b)
        /\ NoDigits(back) /\ ~Has(back, "-")
        /\ LaidOut(r, front, z, ds, back)
    BY <1>8
  <2>2. StrToUL(DigitsOf(r), b) = v /\ Has(r.chars, "-") = Has(front, "-")
    BY <1>1, <1>2, <1>7, <2>1, TextReads DEF M
  <2> QED BY <1>3, <2>1, <2>2
<1>10. ASSUME "SIGN" \in type /\ num < 0 PROVE (-v) % M = num % M
  <2>1. -num \in 0 .. M - 1
    BY <1>0, <1>10
  <2>2. \A m \in Nat \ {0} : \A x \in 0 .. m - 1 : x % m = x
    OBVIOUS
  <2>3. v = -num
    BY <1>0, <1>1, <1>10, <2>1, <2>2
  <2> QED BY <1>0, <2>3
<1>11. ASSUME ~("SIGN" \in type /\ num < 0) PROVE v % M = num % M
  <2>1. \A m \in Nat \ {0} : \A x \in 0 .. m - 1 : x % m = x
    OBVIOUS
  <2>2. v = num % M
    BY <1>1, <1>11
  <2> QED BY <1>0, <1>1, <2>1, <2>2
<1>12. ReadsBack(r)
  <2>1. StrToUL(DigitsOf(r), r.base) = v
    BY <1>7, <1>9
  <2>2. CASE "SIGN" \in type /\ num < 0
    <3>1. Has(r.chars, "-")
      BY <1>9, <2>2
    <3> QED BY <1>7, <1>10, <2>1, <2>2, <3>1, Zenon DEF ReadsBack, Has, M
  <2>3. CASE ~("SIGN" \in type /\ num < 0)
    <3>1. ~Has(r.chars, "-")
      BY <1>9, <2>3
    <3>2. "SIGN" \in r.type => (\E i \in 1..Len(r.chars) : r.chars[i] = "-") = (r.num < 0)
      <4>1. "SIGN" \in r.type => ~(num < 0)
        BY <1>7, <2>3
      <4>2. "SIGN" \in r.type => ~(r.num < 0)
        BY <1>7, <4>1
      <4> DEFINE minus == \E i \in 1..Len(r.chars) : r.chars[i] = "-"
                 below == r.num < 0
      <4>3. ~minus
        BY <3>1 DEF Has
      <4> HIDE DEF minus, below
      <4>4. "SIGN" \in r.type => ~below
        BY <4>2 DEF below
      <4>5. minus \in BOOLEAN /\ below \in BOOLEAN
        <5>1. minus \in BOOLEAN
          BY DEF minus
        <5>2. r.num \in Int
          BY <1>0, <1>7
        <5>3. below \in BOOLEAN
          BY <5>2 DEF below
        <5> QED BY <5>1, <5>3
      <4>6. "SIGN" \in r.type => minus = below
        BY <4>3, <4>4, <4>5
      <4> QED BY <4>6, Zenon DEF minus, below
    <3> QED BY <1>7, <1>11, <2>1, <2>3, <3>1, <3>2, Zenon DEF ReadsBack, Has, M
  <2> QED BY <2>2, <2>3
<1> QED BY <1>12 DEF r

\* The invariant: the widths are numbers, and the last number reads back.
NumbersInv == field_width \in Int /\ precision \in Int /\ ReadsBack(last)

\* The text that stands for no number yet.
LEMMA ZeroReads == ReadsBack(NoNumber)
<1> DEFINE ds == <<"0">>
           none == << >>
<1>1. 10 \in Bases /\ 0 \in 0 .. 2^W - 1
  BY PowerAssumption DEF Bases
<1>2. NoNumber.base = 10 /\ NoNumber.type = {} /\ NoNumber.num = 0 /\ NoNumber.chars = ds
  BY DEF NoNumber
<1>3. Spells(ds, 0, 10) /\ Len(ds) >= 1
  <2>1. Pad("0", 1) = ds
    BY DEF Pad
  <2>2. Spells(Pad("0", 1), 0, 10)
    BY <1>1, Zeros
  <2> QED BY <2>1, <2>2
<1>4. NoDigits(none) /\ ~Has(none, "-") /\ Spells(none, 0, 10)
  BY <1>1, NoDigit DEF NoDigits, Has
<1>5. LaidOut(NoNumber, none, none, ds, none)
  <2>1. Prefix(10, {}) = none
    BY DEF Prefix
  <2>2. ds = none \o (none \o ((none \o ds) \o none))
    OBVIOUS
  <2> QED BY <1>2, <2>1, <2>2 DEF LaidOut
<1> HIDE DEF ds, none
<1>6. StrToUL(DigitsOf(NoNumber), 10) = 0 /\ Has(NoNumber.chars, "-") = Has(none, "-")
  BY <1>1, <1>2, <1>3, <1>4, <1>5, TextReads
<1>7. ~Has(NoNumber.chars, "-")
  BY <1>4, <1>6, Zenon DEF Has
<1>8. "SIGN" \notin NoNumber.type
  BY <1>2
<1> QED BY <1>2, <1>6, <1>7, <1>8, Zenon DEF ReadsBack, Has

\* Every conversion of an integer keeps the invariant.
LEMMA NumberPut ==
  ASSUME NumbersInv, NEW num \in Ints, NEW b \in Bases, NEW size \in Int, NEW type,
         PutsNumber(num, b, size, type)
  PROVE  NumbersInv'
<1> DEFINE r == [num |-> num, base |-> b, type |-> type,
                 chars |-> Number(num, b, size, precision, type)]
<1>1. field_width' = field_width /\ precision' = precision /\ last' = r
  BY Zenon DEF PutsNumber, Puts
<1>2. ReadsBack(r)
  BY NumberReads, Zenon DEF NumbersInv
<1> HIDE DEF r
<1>3. ReadsBack(last')
  BY <1>1, <1>2
<1>4. (ReadsBack(last))'
  BY <1>3
<1> QED BY <1>1, <1>4 DEF NumbersInv

\* Whatever vsprintf() is given.
LEMMA FormattingReads ==
  ASSUME NumbersInv, LibraryInv, Formatting
  PROVE  NumbersInv'
<1> DEFINE Same == field_width' = field_width /\ precision' = precision /\ last' = last
<1>0. Same => NumbersInv'
  BY DEF NumbersInv
<1>1. CASE Text \/ Percent \/ Flag \/ Qualifier
  <2>1. Same
    BY <1>1 DEF Text, Percent, Flag, Qualifier
  <2> QED BY <1>0, <2>1
<1>2. CASE FieldWidth
  <2>1. SkipAtoi(pos) \in Int
    BY SkipAtoiNumber DEF LibraryInv
  <2>2. \A w \in Stars : w \in Int /\ -w \in Int
    BY FormatAssumption
  <2>3. field_width' \in Int /\ precision' = precision /\ last' = last
    BY <1>2, <2>1, <2>2 DEF FieldWidth
  <2> QED BY <2>3 DEF NumbersInv
<1>3. CASE Precision
  <2>1. Ch = "." => pos + 1 \in 1 .. Len(fmt) + 1
    <3>1. fmt \in Seq(STRING) /\ pos \in 1 .. Len(fmt) + 1
      BY DEF LibraryInv
    <3>2. "." # End
      BY DEF End
    <3> QED BY <3>1, <3>2 DEF Ch
  <2>2. Ch = "." => SkipAtoi(pos + 1) \in Int
    BY <2>1, SkipAtoiNumber
  <2>3. \A w \in Stars : Larger(w, 0) \in Int
    BY FormatAssumption DEF Larger
  <2>4. precision' \in Int /\ field_width' = field_width /\ last' = last
    BY <1>3, <2>2, <2>3 DEF Precision
  <2> QED BY <2>4 DEF NumbersInv
<1>4. CASE Character \/ String
  <2>1. Same
    BY <1>4, Zenon DEF Character, String, Puts
  <2> QED BY <1>0, <2>1
<1>5. CASE Pointer
  <2>1. 16 \in Bases /\ W \div 4 \in Int
    BY FormatAssumption DEF Bases
  <2>2. field_width \in Int
    BY DEF NumbersInv
  <2> QED BY <1>5, <2>1, <2>2, NumberPut, Zenon DEF Pointer
<1>6. CASE Integer
  <2>1. BaseFor(Ch) \in Bases /\ field_width \in Int
    BY DEF BaseFor, Bases, NumbersInv
  <2> QED BY <1>6, <2>1, NumberPut, Zenon DEF Integer
<1>7. CASE StoreLength \/ ShortInteger \/ Return
  <2>1. Same
    BY <1>7 DEF StoreLength, ShortInteger, Return
  <2> QED BY <1>0, <2>1
<1>8. CASE Otherwise
  <2>1. Same
    BY <1>8, Zenon DEF Otherwise, Puts
  <2> QED BY <1>0, <2>1
<1> QED BY <1>1, <1>2, <1>3, <1>4, <1>5, <1>6, <1>7, <1>8 DEF Formatting

\* What number() writes reads back as the number, through simple_strtoul(): for every
\* number of every width, flag, precision and base, LONG_MIN and unsigned ones included.
THEOREM RoundTripHolds == Spec => []RoundTrip
<1>1. Init => NumbersInv
  <2>1. ASSUME NEW formats, FormatInit(formats) PROVE NumbersInv
    <3>1. field_width = -1 /\ precision = -1 /\ last = NoNumber
      BY <2>1, Zenon DEF FormatInit
    <3> QED BY <3>1, ZeroReads DEF NumbersInv
  <2> QED BY <2>1 DEF Init
<1>2. NumbersInv /\ LibraryInv /\ [Next]_vars => NumbersInv'
  <2> SUFFICES ASSUME NumbersInv, LibraryInv, [Next]_vars PROVE NumbersInv'
    OBVIOUS
  <2>0. UNCHANGED formatVars => NumbersInv'
    BY DEF NumbersInv, formatVars
  <2>1. CASE \E s, ct \in Addr : StrTokFirst(s, ct) /\ UNCHANGED <<formatVars, syscallVars>>
    BY <2>0, <2>1
  <2>2. CASE StrTokNext /\ UNCHANGED <<formatVars, syscallVars>>
    BY <2>0, <2>2
  <2>3. CASE Formatting
    BY <2>3, FormattingReads
  <2>4. CASE SyscallNext
    <3>1. CASE Unknown \/ Beyond \/ PrintFails \/ Printed
      BY <2>0, <3>1 DEF Unknown, Beyond, PrintFails, Printed
    <3>2. CASE PrintMessage
      <4>1. field_width' = field_width /\ precision' = precision /\ last' = last
        BY <3>2 DEF PrintMessage
      <4> QED BY <4>1 DEF NumbersInv
    <3> QED BY <2>4, <3>1, <3>2 DEF SyscallNext
  <2>5. CASE UNCHANGED vars
    BY <2>0, <2>5 DEF vars
  <2> QED BY <2>1, <2>2, <2>3, <2>4, <2>5 DEF Next, Formatting
<1>3. NumbersInv => RoundTrip
  BY Zenon DEF NumbersInv, RoundTrip, ReadsBack
<1> QED BY <1>1, <1>2, <1>3, LibraryInvariance, PTL DEF Spec
=============================================================================
