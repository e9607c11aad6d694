------------------------------ MODULE Library ------------------------------
(***************************************************************************)
(* The functions of string.c on every small memory, those of kprintf.c on  *)
(* every format built from the parts below, against what they should       *)
(* compute, and system calls with every argument.                          *)
(***************************************************************************)
EXTENDS Syscall, FiniteSets

ASSUME LibraryAssumption == CHAR >= 4

\* Every memory whose last byte ends a string; calls of strtok() happen on these.
Memories == {m \in [Addr -> Char] : m[MEM - 1] = 0}

\* What %s shows: "ad", "d", "" and "%".
Shown == [a \in Addr |-> IF a = 0 THEN 1 ELSE IF a = 1 THEN 3
                         ELSE IF a = 4 THEN 2 ELSE 0]

Glyphs == [c \in Char |-> <<"NUL", "a", "%", "d">>[c + 1]]

\* An address, and then characters.
UserMemories ==
  {m \in [Addr -> Char] : \A a \in 2 .. MEM - 1 : m[a] # 1}

SomeInts == {-128, -1, 0, 9, 100}
SomeStars == {-3, 5}
SomeNumbers == {-1, 0, 5, 22, 23}

\* Conversions, complete or not.
Conversions ==
  {<<"%">> \o f \o w \o p \o q \o c :
     f \in {<< >>, <<"-">>, <<"+">>, <<" ">>, <<"0", "#">>, <<"-", "0", "+">>},
     w \in {<< >>, <<"1", "0">>, <<"*">>},
     p \in {<< >>, <<".">>, <<".", "4">>, <<".", "*">>},
     q \in {<< >>, <<"l">>, <<"h">>},
     c \in {<< >>} \cup
           {<<x>> : x \in {"c", "s", "p", "n", "o", "x", "X", "d", "u", "%", "b"}}}

\* kprintf() of the empty format, and of two conversions in a text.
AllFormats == Conversions \cup
              {<< >>, <<"a", "%", "s", "%", "#", "x">>, <<"%", "%", "d">>}

Init ==
  \/ StringsInit(Memories) /\ FormatInit({<< >>}) /\ NoSyscall
  \/ StringsInit({Shown}) /\ FormatInit(Formats) /\ NoSyscall
  \/ StringsInit(UserMemories) /\ FormatInit({<< >>}) /\ SyscallInit

Next ==
  \/ /\ sys = "none"
     /\ \E s, ct \in Addr : StrTokFirst(s, ct)
     /\ UNCHANGED <<formatVars, syscallVars>>
  \/ StrTokNext /\ UNCHANGED <<formatVars, syscallVars>>
  \/ /\ \/ Text \/ Percent \/ Flag \/ FieldWidth \/ Precision \/ Qualifier
        \/ Character \/ String \/ Pointer \/ StoreLength \/ Integer
        \/ ShortInteger \/ Otherwise \/ Return
     /\ sys \in {"none", "printing"} /\ UNCHANGED <<stringVars, syscallVars>>
  \/ SyscallNext /\ UNCHANGED stringVars

vars == <<stringVars, formatVars, syscallVars>>

Spec == Init /\ [][Next]_vars

-----------------------------------------------------------------------------
Untouched == call.s = NULL /\ pos = 1 /\ sys = "none"

\* The text of the string at a, as a sequence.
Chars(m, a) == [i \in 1 .. StrLen(m, a) |-> m[a + i - 1]]

Upto(s, n) == SubSeq(s, 1, IF n < Len(s) THEN n ELSE Len(s))

Strings == {a \in Addr : IsString(mem, a)}

\* memmove() leaves in dest what src held before the call, and memcpy() does too
\* unless dest begins inside src, however the two areas overlap.  The strings that
\* strcat() and strncat() leave are ended, and strncpy()'s are when count is longer.
Copies ==
  Untouched =>
    /\ \A dest, src \in Addr : \A n \in 0 .. MEM - Larger(dest, src) :
         LET copied == [a \in Addr |-> IF a \in dest .. dest + n - 1
                                       THEN mem[src + a - dest] ELSE mem[a]]
         IN  /\ MemMove(mem, dest, src, n) = copied
             /\ dest \notin src + 1 .. src + n - 1 =>
                  MemCpy(mem, dest, src, n) = copied
    /\ \A dest, src \in Strings :
         LET first == Chars(mem, dest)
             second == Chars(mem, src)
             end == dest + Len(first) + Len(second)
         IN  end \in Addr /\ (dest..end) \cap (src .. src + Len(second)) = {} =>
               /\ Chars(StrCat(mem, dest, src), dest) = first \o second
               /\ \A n \in 0..MEM :
                    /\ Chars(StrNCat(mem, dest, src, n), dest)
                         = first \o Upto(second, n)
                    /\ n > Len(second) =>
                         Chars(StrNCpy(mem, dest, src, n), dest) = second

FirstOf(S) == IF S = {} THEN NULL ELSE CHOOSE a \in S : \A b \in S : a <= b
LastOf(S) == IF S = {} THEN NULL ELSE CHOOSE a \in S : \A b \in S : a >= b

\* The comparisons call two strings equal just when they are, although the
\* difference of two characters is kept in a signed char; strstr(), built from
\* them, finds the first place where the other string stands, and no place only
\* when there is none.  strchr() and strrchr() find the terminator too.
Finds ==
  Untouched =>
    \A s, t \in Strings :
      LET same(n) == Upto(Chars(mem, s), n) = Upto(Chars(mem, t), n)
          end == s + StrLen(mem, s)
          starts == {a \in s .. end - StrLen(mem, t) :
                       SubSeq(Chars(mem, a), 1, StrLen(mem, t)) = Chars(mem, t)}
          is(c) == {a \in s..end : mem[a] = c}
      IN  /\ (StrCmp(mem, s, t) = 0) = (Chars(mem, s) = Chars(mem, t))
          /\ \A n \in 0..MEM : (StrNCmp(mem, s, t, n) = 0) = same(n)
          /\ StrStr(mem, s, t) = FirstOf(starts)
          /\ \A c \in Char : /\ StrChr(mem, s, c) = FirstOf(is(c))
                             /\ StrRChr(mem, s, c) = LastOf(is(c))
                             /\ MemScan(mem, s, c, MEM - s)
                                  = FirstOf({a \in s..MEM-1 : mem[a] = c} \cup {MEM})

\* The tokens strtok() has returned are the maximal runs of characters that are
\* not delimiters, in order, each a string of its own in the memory it has cut up:
\* none is lost, split or joined across calls that share ___strtok.
TokensAll ==
  call.s # NULL =>
    LET lastChar == call.s + StrLen(text, call.s) - 1
        inside == {a \in call.s .. lastChar : text[a] \notin In(text, call.ct)}
        starts == {a \in inside : a - 1 \notin inside}
        run(a) == {b \in inside : b >= a /\ a..b \subseteq inside}
    IN  \A i \in 1..Len(tokens) :
          IF tokens[i] = NULL
          THEN {tokens[j] : j \in 1 .. i-1} = starts
          ELSE /\ tokens[i] \in starts
               /\ \A a \in starts : a < tokens[i] => \E j \in 1 .. i-1 : tokens[j] = a
               /\ StrLen(mem, tokens[i]) = Cardinality(run(tokens[i]))

\* vsprintf() never reads behind the terminator of its format, wherever the
\* format ends inside a conversion.
StaysInFormat == pos <= Len(fmt) + 1

\* The digits in the text of a number: sign, padding and prefix left out.
DigitsOf(r) ==
  LET isDigit(i) == IsXDigit(r.chars[i])
      from == CHOOSE i \in 1..Len(r.chars) : isDigit(i) /\ \A j \in 1..i-1 : ~isDigit(j)
      skip == IF Prefix(r.base, r.type) # << >> /\ r.base = 16 THEN 2 ELSE 0
  IN  SubSeq(r.chars, from + skip, Len(r.chars))

\* What number() writes reads back as the number, through simple_strtoul(): for
\* every flag, precision and base, LONG_MIN and unsigned numbers included.
RoundTrip ==
  LET read == StrToUL(DigitsOf(last), last.base)
      minus == \E i \in 1..Len(last.chars) : last.chars[i] = "-"
  IN  (IF minus THEN -read ELSE read) % 2^W = last.num % 2^W
        /\ ("SIGN" \in last.type => minus = (last.num < 0))

-----------------------------------------------------------------------------
\* kprintf.c:305 says that kprintf() puts at most 1024 characters, the size of its
\* buffer; here it has ROOM.
ROOM == 8
FitsBuffer == Len(out) < ROOM

\* kprintf.c:144 allows h before an integer conversion.
ShortsConvert == stage # "trap"
=============================================================================
