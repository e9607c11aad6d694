------------------------------- MODULE Format -------------------------------
(***************************************************************************)
(* lib/kprintf.c: vsprintf() reads a format, a sequence of characters, in  *)
(* one pass and appends what it makes of each conversion to its buffer.    *)
(* The arguments are chosen when va_arg() takes them: integers of W bits   *)
(* (int and long), and strings in the memory of Strings, whose characters  *)
(* Glyph shows.  Widths and precisions are far from the limits of an int.  *)
(* console_write(), which shows the buffer, is a loop of module Console.   *)
(***************************************************************************)
EXTENDS Strings

CONSTANTS W,                \* bits of an int, 32
          Formats,          \* formats tried
          Ints,             \* integers passed
          Stars,            \* widths and precisions passed for a *
          Glyph             \* how each character of a string is shown

ASSUME FormatAssumption ==
  /\ W \in Nat \ {0} /\ Ints \subseteq -(2^(W - 1)) .. 2^(W - 1) - 1
  /\ Stars \subseteq Int
  /\ Formats \subseteq Seq(STRING) /\ Glyph \in [Char -> STRING]

\* What a power of two is, which a prover may not know.
ASSUME PowerAssumption == 2^(W - 1) \in Nat \ {0} /\ 2^W = 2 * 2^(W - 1)

VARIABLES fmt, pos,         \* the format, and the place *fmt reached in it
          stage,            \* what is read next
          flags, field_width, precision, qualifier,
          out,              \* from buf to str
          last              \* history: the last number, and the place of its text

formatVars == <<fmt, pos, stage, flags, field_width, precision, qualifier, out,
                last>>

End == "NUL"

Ch == IF pos \in DOMAIN fmt THEN fmt[pos] ELSE End

-----------------------------------------------------------------------------
(* number()                                                                *)

Larger(a, b) == IF a > b THEN a ELSE b

Lower == <<"0", "1", "2", "3", "4", "5", "6", "7", "8", "9", "a", "b", "c", "d",
           "e", "f">>
Upper == <<"0", "1", "2", "3", "4", "5", "6", "7", "8", "9", "A", "B", "C", "D",
           "E", "F">>

Pad(c, n) == [i \in 1..n |-> c]

\* Least significant digit last; 0 has one digit.
Digits(n, base, large) ==
  LET digit(d) == <<(IF large THEN Upper ELSE Lower)[d + 1]>>
      of[k \in 0..n] == IF k < base THEN digit(k)
                        ELSE of[k \div base] \o digit(k % base)
  IN  of[n]

Sign(num, type) ==
  IF "SIGN" \notin type THEN << >>
  ELSE IF num < 0 THEN <<"-">>
  ELSE IF "PLUS" \in type THEN <<"+">>
  ELSE IF "SPACE" \in type THEN <<" ">>
  ELSE << >>

\* Mutant: every negative number is negated.
MagnitudeSigned(num, type) == IF num < 0 THEN -num ELSE num

\* do_div() takes num as unsigned; -LONG_MIN is LONG_MIN.
Magnitude(num, type) ==
  (IF "SIGN" \in type /\ num < 0 THEN -num ELSE num) % 2^W

Prefix(base, type) ==
  IF "SPECIAL" \notin type THEN << >>
  ELSE IF base = 8 THEN <<"0">>
  ELSE IF base = 16 THEN <<"0", IF "LARGE" \in type THEN "X" ELSE "x">>
  ELSE << >>

Number(num, base, size, prec, type) ==
  LET sign == Sign(num, type)
      prefix == Prefix(base, type)
      digits == Digits(Magnitude(num, type), base, "LARGE" \in type)
      zeros == Pad("0", prec - Len(digits))
      room == size - Len(sign) - Len(prefix) - Larger(prec, Len(digits))
  IN  IF "LEFT" \in type
      THEN sign \o prefix \o zeros \o digits \o Pad(" ", room)
      ELSE IF "ZEROPAD" \in type
      THEN sign \o prefix \o Pad("0", room) \o zeros \o digits
      ELSE Pad(" ", room) \o sign \o prefix \o zeros \o digits

-----------------------------------------------------------------------------
(* simple_strtoul()                                                        *)

IsDigit(c) == c \in {"0", "1", "2", "3", "4", "5", "6", "7", "8", "9"}
IsXDigit(c) == IsDigit(c) \/ c \in {"a", "b", "c", "d", "e", "f",
                                    "A", "B", "C", "D", "E", "F"}
ValueOf(c) == CHOOSE v \in 0..15 : c \in {Lower[v + 1], Upper[v + 1]}

\* The base, and the place of the first digit.
BaseOf(cp, base) ==
  IF base # 0 THEN <<base, 1>>
  ELSE IF cp[1] # "0" THEN <<10, 1>>
  ELSE IF Len(cp) > 2 /\ cp[2] = "x" /\ IsXDigit(cp[3]) THEN <<16, 3>>
  ELSE <<8, 2>>

StrToUL(cp, base) ==
  LET b == BaseOf(cp, base)[1]
      first == BaseOf(cp, base)[2]
      isDigit(i) == IsXDigit(cp[i]) /\ ValueOf(cp[i]) < b
      end == CHOOSE e \in first .. Len(cp) + 1 :
               /\ e = Len(cp) + 1 \/ ~isDigit(e)
               /\ \A i \in first .. e - 1 : isDigit(i)
      result[i \in first..end] ==
        IF i = first THEN 0 ELSE (result[i - 1] * b + ValueOf(cp[i - 1])) % 2^W
  IN  result[end]

\* The place behind the digits that begin at place p of the format.
BehindDigits(p) ==
  CHOOSE q \in p .. Len(fmt) + 1 : /\ q = Len(fmt) + 1 \/ ~IsDigit(fmt[q])
                                   /\ \A r \in p .. q - 1 : IsDigit(fmt[r])

\* The number they spell.
SkipAtoi(p) ==
  LET i[q \in p .. BehindDigits(p)] ==
        IF q = p THEN 0 ELSE i[q - 1] * 10 + ValueOf(fmt[q - 1])
  IN  i[BehindDigits(p)]

-----------------------------------------------------------------------------
(* vsprintf()                                                              *)

Text ==
  /\ stage = "text" /\ Ch \notin {"%", End}
  /\ out' = Append(out, Ch)
  /\ pos' = pos + 1
  /\ UNCHANGED <<fmt, stage, flags, field_width, precision, qualifier, last>>

Percent ==
  /\ stage = "text" /\ Ch = "%"
  /\ flags' = {} /\ pos' = pos + 1 /\ stage' = "flags"
  /\ UNCHANGED <<fmt, field_width, precision, qualifier, out, last>>

FlagOf(c) == CASE c = "-" -> {"LEFT"}    [] c = "+" -> {"PLUS"}
               [] c = " " -> {"SPACE"}   [] c = "#" -> {"SPECIAL"}
               [] c = "0" -> {"ZEROPAD"} [] OTHER -> {}

Flag ==
  /\ stage = "flags" /\ FlagOf(Ch) # {}
  /\ flags' = flags \cup FlagOf(Ch) /\ pos' = pos + 1
  /\ UNCHANGED <<fmt, stage, field_width, precision, qualifier, out, last>>

FieldWidth ==
  /\ stage = "flags" /\ FlagOf(Ch) = {}
  /\ \/ /\ IsDigit(Ch)
        /\ field_width' = SkipAtoi(pos) /\ pos' = BehindDigits(pos)
        /\ flags' = flags
     \/ /\ Ch = "*"
        /\ pos' = pos + 1
        /\ \E w \in Stars :
             /\ field_width' = IF w < 0 THEN -w ELSE w
             /\ flags' = IF w < 0 THEN flags \cup {"LEFT"} ELSE flags
     \/ /\ ~IsDigit(Ch) /\ Ch # "*"
        /\ field_width' = -1
        /\ UNCHANGED <<pos, flags>>
  /\ stage' = "precision"
  /\ UNCHANGED <<fmt, precision, qualifier, out, last>>

\* The character behind the point decides.
Behind == IF pos + 1 \in DOMAIN fmt THEN fmt[pos + 1] ELSE End

Precision ==
  /\ stage = "precision"
  /\ \/ Ch # "." /\ precision' = -1 /\ pos' = pos
     \/ /\ Ch = "." /\ IsDigit(Behind)
        /\ precision' = SkipAtoi(pos + 1) /\ pos' = BehindDigits(pos + 1)
     \/ /\ Ch = "." /\ Behind = "*"
        /\ \E p \in Stars : precision' = Larger(p, 0)
        /\ pos' = pos + 2
     \/ /\ Ch = "." /\ ~IsDigit(Behind) /\ Behind # "*"
        /\ precision' = 0 /\ pos' = pos + 1
  /\ stage' = "qualifier"
  /\ UNCHANGED <<fmt, flags, field_width, qualifier, out, last>>

Qualifier ==
  /\ stage = "qualifier"
  /\ IF Ch \in {"h", "l", "L"} THEN qualifier' = Ch /\ pos' = pos + 1
     ELSE qualifier' = "none" /\ pos' = pos
  /\ stage' = "convert"
  /\ UNCHANGED <<fmt, flags, field_width, precision, out, last>>

Puts(chars) ==
  /\ out' = out \o chars
  /\ stage' = "text"
  /\ UNCHANGED <<fmt, flags, field_width, precision, qualifier>>

\* Text in its field.
Field(chars) ==
  IF "LEFT" \in flags THEN chars \o Pad(" ", field_width - Len(chars))
  ELSE Pad(" ", field_width - Len(chars)) \o chars

Character ==
  /\ stage = "convert" /\ Ch = "c"
  /\ \E c \in Char : Puts(Field(<<Glyph[c]>>))
  /\ pos' = pos + 1 /\ last' = last

\* A precision need not leave strnlen() a terminator to find.
String ==
  /\ stage = "convert" /\ Ch = "s"
  /\ \/ \E s \in Addr :
          /\ IsString(mem, s) \/ precision \in 0 .. MEM - s
          /\ LET len == StrNLen(mem, s, precision)
             IN  Puts(Field([i \in 1..len |-> Glyph[mem[s + i - 1]]]))
     \/ LET null == <<"<", "N", "U", "L", "L", ">">>
        IN  Puts(Field(IF precision \in 0..6 THEN SubSeq(null, 1, precision)
                       ELSE null))
  /\ pos' = pos + 1 /\ last' = last

PutsNumber(num, base, size, type) ==
  LET chars == Number(num, base, size, precision, type)
  IN  /\ Puts(chars)
      /\ last' = [num |-> num, base |-> base, type |-> type, chars |-> chars]
      /\ pos' = pos + 1

Pointer ==
  /\ stage = "convert" /\ Ch = "p"
  /\ \E num \in Ints :
       IF field_width = -1
       THEN PutsNumber(num, 16, W \div 4, flags \cup {"ZEROPAD"})
       ELSE PutsNumber(num, 16, field_width, flags)

\* Only the caller's variable changes.
StoreLength ==
  /\ stage = "convert" /\ Ch = "n"
  /\ stage' = "text" /\ pos' = pos + 1
  /\ UNCHANGED <<fmt, flags, field_width, precision, qualifier, out, last>>

BaseFor(c) == IF c = "o" THEN 8 ELSE IF c \in {"x", "X"} THEN 16 ELSE 10

TypeFor(c) == IF c = "X" THEN flags \cup {"LARGE"}
              ELSE IF c \in {"d", "i"} THEN flags \cup {"SIGN"} ELSE flags

Integer ==
  /\ stage = "convert" /\ Ch \in {"o", "x", "X", "d", "i", "u"}
  /\ qualifier # "h"
  /\ \E num \in Ints : PutsNumber(num, BaseFor(Ch), field_width, TypeFor(Ch))

\* gcc compiles va_arg() of a short to an invalid instruction.
ShortInteger ==
  /\ stage = "convert" /\ Ch \in {"o", "x", "X", "d", "i", "u"}
  /\ qualifier = "h"
  /\ stage' = "trap"
  /\ UNCHANGED <<fmt, pos, flags, field_width, precision, qualifier, out, last>>

\* Mutant: the end of the format is skipped like any other character.
OtherwiseSkips ==
  /\ stage = "convert"
  /\ Ch \notin {"c", "s", "p", "n", "o", "x", "X", "d", "i", "u"}
  /\ Puts((IF Ch = "%" THEN << >> ELSE <<"%">>) \o (IF Ch = End THEN << >> ELSE <<Ch>>))
  /\ pos' = pos + 1 /\ last' = last

\* The loop's ++fmt undoes the --fmt of a format that ends here.
Otherwise ==
  /\ stage = "convert"
  /\ Ch \notin {"c", "s", "p", "n", "o", "x", "X", "d", "i", "u"}
  /\ Puts((IF Ch = "%" THEN << >> ELSE <<"%">>) \o (IF Ch = End THEN << >> ELSE <<Ch>>))
  /\ pos' = (IF Ch = End THEN pos ELSE pos + 1) /\ last' = last

\* kprintf() and sprintf() return; the former reports an error when nothing was put.
Return ==
  /\ stage = "text" /\ Ch = End
  /\ stage' = "returned"
  /\ UNCHANGED <<fmt, pos, flags, field_width, precision, qualifier, out, last>>

NoNumber == [num |-> 0, base |-> 10, type |-> {}, chars |-> <<"0">>]

FormatInit(formats) ==
  /\ fmt \in formats /\ pos = 1 /\ stage = "text"
  /\ flags = {} /\ field_width = -1 /\ precision = -1 /\ qualifier = "none"
  /\ out = << >> /\ last = NoNumber
=============================================================================
