------------------------------ MODULE Strings ------------------------------
(***************************************************************************)
(* lib/string.c: the memory is a function from addresses to characters,    *)
(* a string goes to the first 0 at or after its address, and a function of *)
(* the library is an operator from the memory to what it returns or, if it *)
(* writes, to the memory it leaves.  strtok() keeps a pointer from one     *)
(* call to the next.                                                       *)
(***************************************************************************)
EXTENDS Integers, Sequences

CONSTANTS MEM,              \* bytes of memory
          CHAR              \* values of a character, 256

ASSUME StringsAssumption ==
  MEM \in Nat \ {0} /\ CHAR \in Nat \ {0} /\ CHAR % 2 = 0

Addr == 0 .. MEM - 1
Char == 0 .. CHAR - 1
NULL == -1

VARIABLES mem,
          strtok,           \* ___strtok
          text,             \* history: the memory before the first strtok()
          tokens,           \* history: what strtok() has returned since
          call              \* [s, ct] of the first call, s = NULL when there is none

stringVars == <<mem, strtok, text, tokens, call>>

\* A string that ends inside the memory starts at a.
IsString(m, a) == a \in Addr /\ \E e \in a .. MEM - 1 : m[e] = 0

-----------------------------------------------------------------------------
(* Lengths and searches                                                    *)

\* The end of the string at a, or a + n if that comes first.
EndWithin(m, a, n) ==
  CHOOSE e \in a .. a + n : /\ e = a + n \/ m[e] = 0
                            /\ \A b \in a .. e - 1 : m[b] # 0

StrLen(m, s) == EndWithin(m, s, MEM - s) - s

\* No count is as good as one that reaches the end of the memory.
StrNLen(m, s, count) ==
  EndWithin(m, s, IF count \in 0 .. MEM - s THEN count ELSE MEM - s) - s

\* The characters of the string at ct, its 0 excepted.
In(m, ct) == {m[a] : a \in ct .. ct + StrLen(m, ct) - 1}

StrChr(m, s, c) ==
  LET at[a \in s .. s + StrLen(m, s)] ==
        IF m[a] = c THEN a ELSE IF m[a] = 0 THEN NULL ELSE at[a + 1]
  IN  at[s]

StrRChr(m, s, c) ==
  LET at[a \in s-1 .. MEM-1] == IF a < s THEN NULL
                                ELSE IF m[a] = c THEN a ELSE at[a - 1]
  IN  at[s + StrLen(m, s)]

StrSpn(m, s, accept) ==
  LET n[a \in s .. s + StrLen(m, s)] ==
        IF m[a] = 0 \/ m[a] \notin In(m, accept) THEN a - s ELSE n[a + 1]
  IN  n[s]

StrPBrk(m, cs, ct) ==
  LET at[a \in cs .. cs + StrLen(m, cs)] ==
        IF m[a] = 0 THEN NULL ELSE IF m[a] \in In(m, ct) THEN a ELSE at[a + 1]
  IN  at[cs]

MemScan(m, addr, c, size) ==
  LET p[k \in 0..size] == IF k = size \/ m[addr + k] = c THEN addr + k
                          ELSE p[k + 1]
  IN  p[0]

-----------------------------------------------------------------------------
(* Comparisons                                                             *)

Signed(c) == IF c >= CHAR \div 2 THEN c - CHAR ELSE c

\* The difference of two characters, stored in a signed char.
SignedChar(n) == Signed(n % CHAR)

StrCmp(m, cs, ct) ==
  LET res[k \in 0 .. StrLen(m, cs)] ==
        LET d == SignedChar(Signed(m[cs + k]) - Signed(m[ct + k]))
        IN  IF d # 0 \/ m[cs + k] = 0 THEN d ELSE res[k + 1]
  IN  res[0]

StrNCmp(m, cs, ct, count) ==
  LET res[k \in 0..count] ==
        IF k = count THEN 0
        ELSE LET d == SignedChar(Signed(m[cs + k]) - Signed(m[ct + k]))
             IN  IF d # 0 \/ m[cs + k] = 0 THEN d ELSE res[k + 1]
  IN  res[0]

MemCmp(m, cs, ct, count) ==
  LET res[k \in 0..count] ==
        IF k = count THEN 0
        ELSE LET d == SignedChar(m[cs + k] - m[ct + k])
             IN  IF d # 0 THEN d ELSE res[k + 1]
  IN  res[0]

\* Mutant: the last place is not tried.
StrStrShort(m, s1, s2) ==
  LET l2 == StrLen(m, s2)
      end == s1 + StrLen(m, s1)
      at[a \in s1..end] ==
        IF end - a <= l2 THEN NULL
        ELSE IF MemCmp(m, a, s2, l2) = 0 THEN a ELSE at[a + 1]
  IN  IF l2 = 0 THEN s1 ELSE at[s1]

StrStr(m, s1, s2) ==
  LET l2 == StrLen(m, s2)
      end == s1 + StrLen(m, s1)
      at[a \in s1..end] ==
        IF end - a < l2 THEN NULL
        ELSE IF MemCmp(m, a, s2, l2) = 0 THEN a ELSE at[a + 1]
  IN  IF l2 = 0 THEN s1 ELSE at[s1]

-----------------------------------------------------------------------------
(* Copies, byte by byte                                                    *)

\* Each byte is read when the ones before it have been written.
MemCpy(m, dest, src, count) ==
  LET done[k \in 0..count] ==
        IF k = 0 THEN m
        ELSE [done[k - 1] EXCEPT ![dest + k - 1] = done[k - 1][src + k - 1]]
  IN  done[count]

Backward(m, dest, src, count) ==
  LET done[k \in 0..count] ==
        IF k = 0 THEN m
        ELSE [done[k - 1] EXCEPT ![dest + count - k] = done[k - 1][src + count - k]]
  IN  done[count]

\* Mutant: the direction is always the same.
MemMoveForward(m, dest, src, count) == MemCpy(m, dest, src, count)

MemMove(m, dest, src, count) ==
  IF dest <= src THEN MemCpy(m, dest, src, count)
  ELSE Backward(m, dest, src, count)

StrCpy(m, dest, src) == MemCpy(m, dest, src, StrLen(m, src) + 1)

\* No 0 is written when count characters come first.
StrNCpy(m, dest, src, count) ==
  MemCpy(m, dest, src,
         IF StrNLen(m, src, count) < count THEN StrLen(m, src) + 1 ELSE count)

StrCat(m, dest, src) == StrCpy(m, dest + StrLen(m, dest), src)

\* Here it is, behind them.
StrNCat(m, dest, src, count) ==
  LET n == StrNLen(m, src, count)
      end == dest + StrLen(m, dest)
  IN  IF count = 0 THEN m
      ELSE [MemCpy(m, end, src, n) EXCEPT ![end + n] = 0]

-----------------------------------------------------------------------------
(* strtok()                                                                *)

\* Mutant: the next call starts at the 0 written.
StrTokShort(m, from, ct) ==
  LET begin == from + StrSpn(m, from, ct)
      send == StrPBrk(m, begin, ct)
  IN  IF from = NULL \/ m[begin] = 0
      THEN [mem |-> m, next |-> NULL, token |-> NULL]
      ELSE IF send = NULL
      THEN [mem |-> m, next |-> NULL, token |-> begin]
      ELSE [mem |-> [m EXCEPT ![send] = 0], next |-> send, token |-> begin]

\* strtok() from address from: what it leaves and returns.
StrTok(m, from, ct) ==
  LET begin == from + StrSpn(m, from, ct)
      send == StrPBrk(m, begin, ct)
  IN  IF from = NULL \/ m[begin] = 0
      THEN [mem |-> m, next |-> NULL, token |-> NULL]
      ELSE IF send = NULL
      THEN [mem |-> m, next |-> NULL, token |-> begin]
      ELSE [mem |-> [m EXCEPT ![send] = 0], next |-> send + 1, token |-> begin]

Returns(r) ==
  /\ mem' = r.mem /\ strtok' = r.next
  /\ tokens' = Append(tokens, r.token)

\* The delimiters are a string of their own, behind the text.
StrTokFirst(s, ct) ==
  /\ call.s = NULL
  /\ IsString(mem, s) /\ IsString(mem, ct) /\ ct > s + StrLen(mem, s)
  /\ call' = [s |-> s, ct |-> ct] /\ text' = mem
  /\ Returns(StrTok(mem, s, ct))

\* The caller asks until there is nothing left.
StrTokNext ==
  /\ call.s # NULL /\ tokens[Len(tokens)] # NULL
  /\ Returns(StrTok(mem, strtok, call.ct))
  /\ UNCHANGED <<text, call>>

StringsInit(memories) ==
  /\ mem \in memories
  /\ strtok = NULL /\ text = mem /\ tokens = << >>
  /\ call = [s |-> NULL, ct |-> NULL]

StringsNext == (\E s, ct \in Addr : StrTokFirst(s, ct)) \/ StrTokNext
=============================================================================
