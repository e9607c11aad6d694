-------------------------- MODULE KeyboardProofs --------------------------
(***************************************************************************)
(* Theorems about kbd_read(), for every set of keys and every number of    *)
(* bytes the keyboard can be ahead of the interrupt handler.  The          *)
(* invariant reads the bytes on the wire by their position: what each will *)
(* do to shift does not depend on what the bytes before it have done, but  *)
(* for the prefix.                                                         *)
(***************************************************************************)
EXTENDS Keyboard, SequenceTheorems, TLAPS

\* The byte kbd_read() will take when E0ESC is set.
Prefixed(j) == IF j = 1 THEN E0ESC \in shift ELSE wire[j - 1] = E0

\* What it will look the byte up as: the key, with bit 7 for one after the prefix.
Data(j) ==
  IF Prefixed(j)
    THEN IF wire[j] >= 128 THEN wire[j] ELSE wire[j] + 128
    ELSE IF wire[j] >= 128 THEN wire[j] - 128 ELSE wire[j]

Presses(j, m) == wire[j] < 128 /\ m \in Shiftcode(Data(j))
Releases(j, m) == wire[j] >= 128 /\ wire[j] # E0 /\ m \in Shiftcode(Data(j))

\* Nothing presses modifier m from position j on.
Quiet(j, m) == \A n \in 1..Len(wire) : n >= j => ~Presses(n, m)

\* Once the wire is read, m is not set.
Clears(m) ==
  \/ m \notin shift /\ Quiet(1, m)
  \/ \E j \in 1..Len(wire) : Releases(j, m) /\ Quiet(j, m)

Down(m) == \E k \in held : m \in Modifiers(k)

\* A prefix is always followed by the byte it belongs to, and a modifier will be
\* cleared by a byte on the wire, if it is not cleared yet and no key holds it.
KeyInv ==
  /\ TypeOK
  /\ wire = << >> => E0ESC \notin shift
  /\ wire # << >> => wire[Len(wire)] # E0
  /\ \A m \in Momentary : Clears(m) \/ Down(m)
-----------------------------------------------------------------------------
(* The tables of kbd.h                                                     *)

LEMMA MomentaryBits ==
  /\ \A c : Shiftcode(c) \subseteq Momentary
  /\ \A c : Togglecode(c) \cap Momentary = {}
  /\ E0ESC \notin Momentary /\ \A c : E0ESC \notin Togglecode(c)
  /\ NotE0ESC = {}
<1>1. /\ \A c : Shiftcode(c) \subseteq Momentary
      /\ \A c : Togglecode(c) \cap Momentary = {}
      /\ E0ESC \notin Momentary /\ \A c : E0ESC \notin Togglecode(c)
  BY DEF Shiftcode, Togglecode, Momentary, SHIFT, CTL, ALT, CAPSLOCK, NUMLOCK,
         SCROLLLOCK, E0ESC
<1>2. NotE0ESC = {}
  BY DEF NotE0ESC, SHIFT, E0ESC
<1> QED BY <1>1, <1>2

LEMMA BitTypes ==
  /\ \A c : Shiftcode(c) \subseteq SHIFT..E0ESC
  /\ \A c : Togglecode(c) \subseteq SHIFT..E0ESC
  /\ E0ESC \in SHIFT..E0ESC
BY DEF Shiftcode, Togglecode, SHIFT, CTL, ALT, CAPSLOCK, NUMLOCK, SCROLLLOCK, E0ESC

LEMMA KeyTypes ==
  ASSUME NEW k \in Keys, NEW up \in BOOLEAN
  PROVE  /\ k.e0 \in BOOLEAN /\ k.code \in 1..127
         /\ Code(k, up) \in 1..255 /\ Code(k, up) # E0
         /\ Code(k, up) >= 128 <=> up
<1>1. k.e0 \in BOOLEAN /\ k.code \in 1..127 /\ k.code # 96
  BY KeyAssumption
<1> QED BY <1>1 DEF Code, E0

-----------------------------------------------------------------------------
(* A byte is read                                                          *)

LEMMA TailStep ==
  ASSUME TypeOK, KbdRead
  PROVE  /\ wire \in Seq(1..255) /\ Len(wire) \in Nat \ {0} /\ Head(wire) = wire[1]
         /\ wire' \in Seq(1..255) /\ Len(wire') = Len(wire) - 1
         /\ \A j \in 1..Len(wire') : wire'[j] = wire[j + 1]
         /\ wire[1] \in 1..255
<1>1. wire \in Seq(1..255) /\ wire # << >> /\ wire' = Tail(wire)
  BY DEF TypeOK, KbdRead
<1>2. Len(wire) \in Nat \ {0} /\ Head(wire) = wire[1]
  BY <1>1
<1>3. wire' \in Seq(1..255) /\ Len(wire') = Len(wire) - 1
      /\ \A j \in 1..Len(wire') : wire'[j] = wire[j + 1]
  BY <1>1, HeadTailProperties
<1>4. wire[1] \in 1..255
  <2>1. 1 \in 1..Len(wire)
    BY <1>2
  <2> QED BY <1>1, <2>1, ElementOfSeq
<1> QED BY <1>1, <1>2, <1>3, <1>4

\* What kbd_read() does to shift, in terms of the first byte.
LEMMA ReadBits ==
  ASSUME TypeOK, KbdRead
  PROVE  /\ shift' \subseteq SHIFT..E0ESC
         /\ E0ESC \in shift' <=> wire[1] = E0
         /\ \A m \in Momentary : m \in shift' => m \in shift \/ Presses(1, m)
         /\ \A m \in Momentary : Releases(1, m) => m \notin shift'
<1>1. Head(wire) = wire[1] /\ wire[1] \in 1..255 /\ shift \subseteq SHIFT..E0ESC
  BY TailStep DEF TypeOK
<1>2. Data(1) = IF E0ESC \in shift
                  THEN IF wire[1] >= 128 THEN wire[1] ELSE wire[1] + 128
                  ELSE IF wire[1] >= 128 THEN wire[1] - 128 ELSE wire[1]
  BY DEF Data, Prefixed
<1>3. CASE ReadPrefix
  <2>1. wire[1] = E0 /\ shift' = shift \cup {E0ESC}
    BY <1>1, <1>3 DEF ReadPrefix
  <2> QED BY <1>1, <2>1, BitTypes, MomentaryBits DEF Releases
<1>4. CASE ReadRelease
  <2>1. /\ wire[1] # E0 /\ wire[1] >= 128
        /\ shift' = shift \ (Shiftcode(Data(1)) \cup {E0ESC})
    BY <1>1, <1>2, <1>4 DEF ReadRelease
  <2> QED BY <1>1, <2>1 DEF Releases
<1>5. CASE ReadPress
  <2> DEFINE kept == IF E0ESC \in shift THEN shift \cap NotE0ESC ELSE shift
             set == kept \cup Shiftcode(Data(1))
             tog == Togglecode(Data(1))
  <2>1. wire[1] < 128 /\ shift' = (set \ tog) \cup (tog \ set)
    BY <1>1, <1>2, <1>5 DEF ReadPress
  <2>2. wire[1] # E0 /\ ~(wire[1] >= 128)
    BY <1>1, <2>1 DEF E0
  <2>3. kept \subseteq shift /\ E0ESC \notin kept
    BY MomentaryBits
  <2> HIDE DEF kept
  <2>4. E0ESC \notin set /\ E0ESC \notin tog
    BY <2>3, MomentaryBits
  <2>5. set \subseteq SHIFT..E0ESC /\ tog \subseteq SHIFT..E0ESC
    BY <1>1, <2>3, BitTypes
  <2>6. \A m \in Momentary : m \in shift' => m \in shift \/ m \in Shiftcode(Data(1))
    BY <2>1, <2>3, MomentaryBits
  <2>7. \A m \in Momentary : m \in shift' => m \in shift \/ Presses(1, m)
    BY <2>1, <2>6 DEF Presses
  <2>8. \A m : ~Releases(1, m)
    BY <2>2 DEF Releases
  <2> HIDE DEF set, tog
  <2> QED BY <2>1, <2>2, <2>4, <2>5, <2>7, <2>8
<1> QED BY <1>3, <1>4, <1>5 DEF KbdRead

\* The bytes that follow mean what they meant.
LEMMA ReadShifts ==
  ASSUME TypeOK, KbdRead, NEW j \in 1..Len(wire')
  PROVE  /\ j + 1 \in 1..Len(wire)
         /\ \A m : Presses(j, m)' <=> Presses(j + 1, m)
         /\ \A m : Releases(j, m)' <=> Releases(j + 1, m)
<1>1. /\ Len(wire) \in Nat \ {0} /\ Len(wire') = Len(wire) - 1
      /\ wire'[j] = wire[j + 1] /\ j \in Nat /\ j >= 1
  BY TailStep
<1>2. j + 1 \in 1..Len(wire)
  BY <1>1
<1>3. Prefixed(j)' <=> Prefixed(j + 1)
  <2>1. CASE j = 1
    BY <2>1, ReadBits DEF Prefixed
  <2>2. CASE j # 1
    <3>1. j - 1 \in 1..Len(wire') /\ j + 1 # 1 /\ (j - 1) + 1 = j /\ (j + 1) - 1 = j
      BY <1>1, <2>2
    <3>2. wire'[j - 1] = wire[j]
      BY <3>1, TailStep
    <3> QED BY <2>2, <3>1, <3>2 DEF Prefixed
  <2> QED BY <2>1, <2>2
<1>4. Data(j)' = Data(j + 1)
  BY <1>1, <1>3 DEF Data
<1> QED BY <1>1, <1>2, <1>4 DEF Presses, Releases

LEMMA ReadClears ==
  ASSUME TypeOK, KbdRead, NEW m \in Momentary, Clears(m)
  PROVE  Clears(m)'
<1>1. Len(wire) \in Nat \ {0} /\ Len(wire') = Len(wire) - 1 /\ 1 \in 1..Len(wire)
  BY TailStep
<1>2. ASSUME NEW j \in 1..Len(wire), Quiet(j, m), NEW h \in Nat, h + 1 >= j
      PROVE  Quiet(h, m)'
  <2>1. ASSUME NEW n \in 1..Len(wire'), n >= h
        PROVE  ~Presses(n, m)'
    <3>1. n + 1 \in 1..Len(wire) /\ (Presses(n, m)' <=> Presses(n + 1, m))
      BY ReadShifts
    <3>2. n + 1 >= j
      BY <1>1, <1>2, <2>1
    <3> QED BY <1>2, <3>1, <3>2 DEF Quiet
  <2> QED BY <2>1 DEF Quiet
<1>3. CASE m \notin shift /\ Quiet(1, m)
  <2>1. ~Presses(1, m)
    BY <1>1, <1>3 DEF Quiet
  <2>2. m \notin shift'
    BY <1>3, <2>1, ReadBits
  <2>3. Quiet(1, m)'
    BY <1>1, <1>2, <1>3
  <2> QED BY <2>2, <2>3 DEF Clears
<1>4. ASSUME NEW j \in 1..Len(wire), Releases(j, m), Quiet(j, m)
      PROVE  Clears(m)'
  <2>1. CASE j = 1
    <3>1. m \notin shift'
      BY <1>4, <2>1, ReadBits
    <3>2. Quiet(1, m)'
      BY <1>2, <1>4, <2>1
    <3> QED BY <3>1, <3>2 DEF Clears
  <2>2. CASE j # 1
    <3> DEFINE h == j - 1
    <3>1. h \in 1..Len(wire') /\ h + 1 = j /\ h \in Nat
      BY <1>1, <2>2
    <3> HIDE DEF h
    <3>2. Releases(h, m)'
      BY <1>4, <3>1, ReadShifts
    <3>3. Quiet(h, m)'
      BY <1>1, <1>2, <1>4, <3>1
    <3> QED BY <3>1, <3>2, <3>3 DEF Clears
  <2> QED BY <2>1, <2>2
<1> QED BY <1>3, <1>4 DEF Clears

LEMMA ReadInv ==
  ASSUME KeyInv, KbdRead
  PROVE  KeyInv'
<1>1. TypeOK
  BY DEF KeyInv
<1>2. /\ wire \in Seq(1..255) /\ wire # << >>
      /\ wire' \in Seq(1..255) /\ Len(wire') = Len(wire) - 1
      /\ Len(wire) \in Nat \ {0} /\ wire[Len(wire)] # E0
  BY <1>1, TailStep DEF KeyInv
<1>3. TypeOK'
  BY <1>1, <1>2, ReadBits DEF TypeOK, KbdRead
<1>4. wire' = << >> => E0ESC \notin shift'
  <2>1. wire' = << >> => Len(wire) = 1
    BY <1>2
  <2> QED BY <1>1, <1>2, <2>1, ReadBits
<1>5. ASSUME wire' # << >> PROVE wire'[Len(wire')] # E0
  <2>1. Len(wire') \in 1..Len(wire') /\ Len(wire') + 1 = Len(wire)
    BY <1>2, <1>5
  <2>2. wire'[Len(wire')] = wire[Len(wire)]
    BY <1>1, <2>1, TailStep
  <2> QED BY <1>2, <2>2
<1>6. ASSUME NEW m \in Momentary
      PROVE  Clears(m)' \/ Down(m)'
  <2>1. Clears(m) => Clears(m)'
    BY <1>1, ReadClears
  <2>2. Down(m)' <=> Down(m)
    BY DEF Down, KbdRead
  <2> QED BY <2>1, <2>2 DEF KeyInv
<1> QED BY <1>3, <1>4, <1>5, <1>6 DEF KeyInv

-----------------------------------------------------------------------------
(* A key is pressed or released                                            *)

LEMMA Appended ==
  ASSUME NEW a \in Seq(1..255), NEW b \in Seq(1..255)
  PROVE  /\ a \o b \in Seq(1..255) /\ Len(a \o b) = Len(a) + Len(b)
         /\ \A j \in 1..Len(a) : (a \o b)[j] = a[j]
         /\ \A j \in 1..Len(b) : (a \o b)[Len(a) + j] = b[j]
<1>1. Len(a) \in Nat /\ Len(b) \in Nat
  OBVIOUS
<1>2. /\ a \o b \in Seq(1..255) /\ Len(a \o b) = Len(a) + Len(b)
      /\ \A j \in 1..Len(a) + Len(b) :
           (a \o b)[j] = IF j <= Len(a) THEN a[j] ELSE b[j - Len(a)]
  BY ConcatProperties
<1>3. ASSUME NEW j \in 1..Len(b)
      PROVE  (a \o b)[Len(a) + j] = b[j]
  <2>1. Len(a) + j \in 1..Len(a) + Len(b) /\ ~(Len(a) + j <= Len(a))
        /\ Len(a) + j - Len(a) = j
    BY <1>1, <1>3
  <2> QED BY <1>2, <2>1
<1> QED BY <1>1, <1>2, <1>3

\* The bytes sent before stay as they are; the last byte sent is the key's own.
LEMMA SendBytes ==
  ASSUME TypeOK, NEW k \in Keys, NEW up \in BOOLEAN, Send(k, up)
  PROVE  /\ wire' \in Seq(1..255)
         /\ Len(wire') = Len(wire) + IF k.e0 THEN 2 ELSE 1
         /\ \A j \in 1..Len(wire) : wire'[j] = wire[j]
         /\ wire'[Len(wire')] = Code(k, up)
         /\ k.e0 => wire'[Len(wire) + 1] = E0
<1>1. wire \in Seq(1..255) /\ wire' = wire \o Sent(k, up) /\ Len(wire) \in Nat
  BY DEF TypeOK, Send
<1>2. Code(k, up) \in 1..255 /\ E0 \in 1..255 /\ k.e0 \in BOOLEAN
  BY KeyTypes DEF E0
<1>3. CASE k.e0
  <2> DEFINE s == <<E0, Code(k, up)>>
  <2>1. Sent(k, up) = s /\ s \in Seq(1..255) /\ Len(s) = 2 /\ s[1] = E0
        /\ s[2] = Code(k, up)
    BY <1>2, <1>3 DEF Sent
  <2> HIDE DEF s
  <2>2. wire' = wire \o s
    BY <1>1, <2>1
  <2>3. /\ wire' \in Seq(1..255) /\ Len(wire') = Len(wire) + Len(s)
        /\ \A j \in 1..Len(wire) : wire'[j] = wire[j]
        /\ \A j \in 1..Len(s) : wire'[Len(wire) + j] = s[j]
    <3>1. wire \in Seq(1..255) /\ s \in Seq(1..255)
      BY <1>1, <2>1
    <3> QED BY <2>2, <3>1, Appended
  <2>4. wire'[Len(wire) + 1] = s[1] /\ wire'[Len(wire) + 2] = s[2]
    BY <2>1, <2>3
  <2> QED BY <1>3, <2>1, <2>3, <2>4
<1>4. CASE ~k.e0
  <2> DEFINE s == <<Code(k, up)>>
  <2>1. Sent(k, up) = s /\ s \in Seq(1..255) /\ Len(s) = 1 /\ s[1] = Code(k, up)
    BY <1>2, <1>4 DEF Sent
  <2> HIDE DEF s
  <2>2. wire' = wire \o s
    BY <1>1, <2>1
  <2>3. /\ wire' \in Seq(1..255) /\ Len(wire') = Len(wire) + Len(s)
        /\ \A j \in 1..Len(wire) : wire'[j] = wire[j]
        /\ \A j \in 1..Len(s) : wire'[Len(wire) + j] = s[j]
    <3>1. wire \in Seq(1..255) /\ s \in Seq(1..255)
      BY <1>1, <2>1
    <3> QED BY <2>2, <3>1, Appended
  <2>4. wire'[Len(wire) + 1] = s[1]
    BY <2>1, <2>3
  <2> QED BY <1>4, <2>1, <2>3, <2>4
<1> QED BY <1>2, <1>3, <1>4

\* A byte already on the wire means what it meant.
LEMMA SendKeeps ==
  ASSUME TypeOK, NEW k \in Keys, NEW up \in BOOLEAN, Send(k, up),
         NEW j \in 1..Len(wire)
  PROVE  /\ \A m : Presses(j, m)' <=> Presses(j, m)
         /\ \A m : Releases(j, m)' <=> Releases(j, m)
<1>1. wire'[j] = wire[j] /\ shift' = shift /\ j \in Nat /\ j >= 1 /\ Len(wire) \in Nat
  BY SendBytes DEF Send, TypeOK
<1>2. Prefixed(j)' <=> Prefixed(j)
  <2>1. CASE j = 1
    BY <1>1, <2>1 DEF Prefixed
  <2>2. CASE j # 1
    <3>1. j - 1 \in 1..Len(wire)
      BY <1>1, <2>2
    <3>2. wire'[j - 1] = wire[j - 1]
      BY <3>1, SendBytes
    <3> QED BY <2>2, <3>2 DEF Prefixed
  <2> QED BY <2>1, <2>2
<1>3. Data(j)' = Data(j)
  BY <1>1, <1>2 DEF Data
<1> QED BY <1>1, <1>3 DEF Presses, Releases

\* Bit 7 is put on the code of a key after the prefix, and taken off the others.
LEMMA Decoded ==
  ASSUME NEW x \in 1..127, NEW c, c = x + 128 \/ c = x
  PROVE  /\ (IF c >= 128 THEN c ELSE c + 128) = x + 128
         /\ (IF c >= 128 THEN c - 128 ELSE c) = x
OBVIOUS

\* The last byte presses or releases the modifiers of the key, and is the only new
\* one that does.
LEMMA SendMeans ==
  ASSUME KeyInv, NEW k \in Keys, NEW up \in BOOLEAN, Send(k, up),
         NEW l, l = Len(wire')
  PROVE  /\ l \in 1..l
         /\ \A m : Releases(l, m)' <=> up /\ m \in Modifiers(k)
         /\ \A n \in 1..l : \A m :
              n > Len(wire) /\ Presses(n, m)' => ~up /\ m \in Modifiers(k)
<1> DEFINE c == Code(k, up)
<1>1. /\ TypeOK /\ Len(wire) \in Nat /\ wire \in Seq(1..255)
      /\ wire = << >> => E0ESC \notin shift
      /\ wire # << >> => wire[Len(wire)] # E0
      /\ shift' = shift
  BY DEF KeyInv, TypeOK, Send
<1>2. /\ l = Len(wire) + IF k.e0 THEN 2 ELSE 1
      /\ \A j \in 1..Len(wire) : wire'[j] = wire[j]
      /\ wire'[l] = c
      /\ k.e0 => wire'[Len(wire) + 1] = E0
  BY <1>1, SendBytes
<1>3. k.e0 \in BOOLEAN /\ k.code \in 1..127 /\ c \in 1..255 /\ c # E0 /\ (c >= 128 <=> up)
  BY KeyTypes
<1>4. l \in Nat /\ l \in 1..l
  BY <1>1, <1>2, <1>3
<1>5. Prefixed(l)' <=> k.e0
  <2>1. CASE k.e0
    <3>1. l # 1 /\ l - 1 = Len(wire) + 1
      BY <1>1, <1>2, <2>1
    <3> QED BY <1>2, <2>1, <3>1 DEF Prefixed
  <2>2. CASE ~k.e0 /\ wire = << >>
    <3>1. l = 1
      BY <1>2, <2>2
    <3> QED BY <1>1, <2>2, <3>1 DEF Prefixed
  <2>3. CASE ~k.e0 /\ wire # << >>
    <3>1. l # 1 /\ l - 1 = Len(wire) /\ Len(wire) \in 1..Len(wire)
      BY <1>1, <1>2, <2>3
    <3>2. wire'[l - 1] # E0
      BY <1>1, <1>2, <2>3, <3>1
    <3> QED BY <2>3, <3>1, <3>2 DEF Prefixed
  <2> QED BY <1>3, <2>1, <2>2, <2>3
<1>6. Data(l)' = IF k.e0 THEN k.code + 128 ELSE k.code
  <2>1. c = IF up THEN k.code + 128 ELSE k.code
    BY DEF Code
  <2>2. Data(l)' = IF k.e0 THEN IF c >= 128 THEN c ELSE c + 128
                   ELSE IF c >= 128 THEN c - 128 ELSE c
    BY <1>2, <1>5 DEF Data
  <2> HIDE DEF c
  <2>3. k.code \in 1..127
    BY <1>3
  <2>4. c = k.code + 128 \/ c = k.code
    BY <2>1
  <2>5. /\ (IF c >= 128 THEN c ELSE c + 128) = k.code + 128
        /\ (IF c >= 128 THEN c - 128 ELSE c) = k.code
    BY <2>3, <2>4, Decoded
  <2> QED BY <2>2, <2>5
<1>7. \A m : m \in Shiftcode(Data(l)') <=> m \in Modifiers(k)
  BY <1>6 DEF Modifiers
<1>8. \A m : Releases(l, m)' <=> up /\ m \in Modifiers(k)
  BY <1>2, <1>3, <1>7 DEF Releases
<1>9. ASSUME NEW n \in 1..l, NEW m, n > Len(wire), Presses(n, m)'
      PROVE  ~up /\ m \in Modifiers(k)
  <2>1. CASE n = l
    <3>1. wire'[l] < 128 /\ m \in Shiftcode(Data(l)')
      BY <1>9, <2>1 DEF Presses
    <3>2. ~(c >= 128)
      <4> HIDE DEF c
      <4> QED BY <1>2, <1>3, <3>1
    <3> QED BY <1>3, <1>7, <3>1, <3>2
  <2>2. CASE n # l
    <3>1. k.e0 /\ n = Len(wire) + 1
      BY <1>1, <1>2, <1>3, <1>9, <2>2
    <3>2. wire'[n] = E0
      BY <1>2, <3>1
    <3> QED BY <1>9, <3>2 DEF Presses, E0
  <2> QED BY <2>1, <2>2
<1> QED BY <1>4, <1>8, <1>9

\* Sending what does not press m leaves m cleared in the end.
LEMMA SendClears ==
  ASSUME KeyInv, NEW k \in Keys, NEW up \in BOOLEAN, Send(k, up),
         NEW m, Clears(m), up \/ m \notin Modifiers(k)
  PROVE  Clears(m)'
<1>1. TypeOK /\ Len(wire) \in Nat /\ shift' = shift
  BY DEF KeyInv, TypeOK, Send
<1>2. Len(wire') \in Nat /\ Len(wire') >= Len(wire)
  BY <1>1, SendBytes, KeyTypes
<1>3. ASSUME NEW j \in Nat, Quiet(j, m)
      PROVE  Quiet(j, m)'
  <2>1. ASSUME NEW n \in 1..Len(wire'), n >= j
        PROVE  ~Presses(n, m)'
    <3>1. CASE n \in 1..Len(wire)
      BY <1>1, <1>3, <2>1, <3>1, SendKeeps DEF Quiet
    <3>2. CASE n > Len(wire)
      BY <3>2, SendMeans
    <3> QED BY <1>1, <1>2, <3>1, <3>2
  <2> QED BY <2>1 DEF Quiet
<1>4. CASE m \notin shift /\ Quiet(1, m)
  BY <1>1, <1>3, <1>4 DEF Clears
<1>5. ASSUME NEW j \in 1..Len(wire), Releases(j, m), Quiet(j, m)
      PROVE  Clears(m)'
  <2>1. Quiet(j, m)' /\ Releases(j, m)' /\ j \in 1..Len(wire')
    BY <1>1, <1>2, <1>3, <1>5, SendKeeps
  <2> QED BY <2>1 DEF Clears
<1> QED BY <1>4, <1>5 DEF Clears

\* The release of a key clears its modifiers, whatever is still to be read.
LEMMA ReleaseClears ==
  ASSUME KeyInv, NEW k \in Keys, Send(k, TRUE), NEW m \in Modifiers(k)
  PROVE  Clears(m)'
<1> PICK l : l = Len(wire')
  OBVIOUS
<1>1. l \in 1..l /\ Releases(l, m)'
  BY SendMeans
<1>2. ASSUME NEW n \in 1..l, n >= l
      PROVE  ~Presses(n, m)'
  <2>1. TypeOK /\ Len(wire) \in Nat
    BY DEF KeyInv, TypeOK
  <2>2. l > Len(wire)
    <3>1. Len(wire') = Len(wire) + IF k.e0 THEN 2 ELSE 1
      BY <2>1, SendBytes
    <3> QED BY <2>1, <3>1
  <2>3. n > Len(wire)
    BY <1>1, <1>2, <2>1, <2>2
  <2> QED BY <2>3, SendMeans
<1>3. Quiet(l, m)'
  BY <1>2 DEF Quiet
<1> QED BY <1>1, <1>3 DEF Clears

LEMMA SendWire ==
  ASSUME KeyInv, NEW k \in Keys, NEW up \in BOOLEAN, Send(k, up), held' \subseteq Keys
  PROVE  /\ TypeOK'
         /\ wire' # << >> /\ wire'[Len(wire')] # E0
<1>1. TypeOK /\ Len(wire) \in Nat
  BY DEF KeyInv, TypeOK
<1>2. wire' \in Seq(1..255) /\ Len(wire') > 0 /\ wire'[Len(wire')] = Code(k, up)
  BY <1>1, SendBytes, KeyTypes
<1> QED BY <1>1, <1>2, KeyTypes DEF TypeOK, Send

LEMMA PressInv ==
  ASSUME KeyInv, NEW k \in Keys, Press(k)
  PROVE  KeyInv'
<1>1. Send(k, FALSE) /\ held' = held \cup {k} /\ held \subseteq Keys
  BY DEF Press, KeyInv, TypeOK
<1>2. TypeOK' /\ wire' # << >> /\ wire'[Len(wire')] # E0
  BY <1>1, SendWire
<1>3. ASSUME NEW m \in Momentary, ~Down(m)'
      PROVE  Clears(m)'
  <2>1. ~Down(m) /\ m \notin Modifiers(k)
    BY <1>1, <1>3 DEF Down
  <2> QED BY <1>1, <2>1, SendClears DEF KeyInv
<1> QED BY <1>2, <1>3 DEF KeyInv

LEMMA ReleaseInv ==
  ASSUME KeyInv, NEW k \in Keys, Release(k)
  PROVE  KeyInv'
<1>1. Send(k, TRUE) /\ held' = held \ {k} /\ held \subseteq Keys
  BY DEF Release, KeyInv, TypeOK
<1>2. TypeOK' /\ wire' # << >> /\ wire'[Len(wire')] # E0
  BY <1>1, SendWire
<1>3. ASSUME NEW m \in Momentary, ~Down(m)'
      PROVE  Clears(m)'
  <2>1. CASE m \in Modifiers(k)
    BY <1>1, <2>1, ReleaseClears
  <2>2. CASE m \notin Modifiers(k)
    <3>1. ~Down(m)
      BY <1>1, <1>3, <2>2 DEF Down
    <3> QED BY <1>1, <2>2, <3>1, SendClears DEF KeyInv
  <2> QED BY <2>1, <2>2
<1> QED BY <1>2, <1>3 DEF KeyInv

-----------------------------------------------------------------------------
(* The theorems                                                            *)

\* The bytes on the wire always hold what will clear the modifiers of released keys.
THEOREM KeyInvariance == Spec => []KeyInv
<1>1. Init => KeyInv
  <2> SUFFICES ASSUME Init PROVE KeyInv
    OBVIOUS
  <2>1. TypeOK
    BY DEF Init, TypeOK
  <2>2. Quiet(1, 0) /\ \A m : Quiet(1, m)
    BY DEF Init, Quiet
  <2> QED BY <2>1, <2>2 DEF Init, KeyInv, Clears
<1>2. KeyInv /\ [Next]_vars => KeyInv'
  <2> SUFFICES ASSUME KeyInv, [Next]_vars PROVE KeyInv'
    OBVIOUS
  <2>1. CASE UNCHANGED vars
    BY <2>1 DEF KeyInv, TypeOK, Clears, Down, Quiet, Presses, Releases, Data,
                Prefixed, vars
  <2> QED BY <2>1, PressInv, ReleaseInv, ReadInv DEF Next
<1> QED BY <1>1, <1>2, PTL DEF Spec

\* No modifier gets stuck, with any keys and however far kbd_read() lags behind: the
\* release of a key clears its bits although a prefixed press clears others too.
THEOREM NoStuckModifierHolds == Spec => []NoStuckModifier
<1>1. KeyInv => NoStuckModifier
  <2> SUFFICES ASSUME KeyInv, wire = << >>, NEW m \in Momentary, m \in shift
               PROVE  \E k \in held : m \in Modifiers(k)
    BY DEF NoStuckModifier
  <2>1. ~Clears(m)
    BY DEF Clears
  <2> QED BY <2>1 DEF KeyInv, Down
<1> QED BY <1>1, KeyInvariance, PTL

\* The prefix is consumed by the byte after it, on a press and on a release.
THEOREM PrefixConsumedHolds == Spec => []PrefixConsumed
<1>1. KeyInv => PrefixConsumed
  BY DEF KeyInv, PrefixConsumed
<1> QED BY <1>1, KeyInvariance, PTL

=============================================================================
