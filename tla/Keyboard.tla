------------------------------ MODULE Keyboard ------------------------------
(***************************************************************************)
(* drivers/kbd.c: kbd_read() decodes the bytes of the keyboard one         *)
(* interrupt at a time and keeps the modifiers in shift.  The keyboard     *)
(* sends the code of a key when it is pressed, and again while it is held, *)
(* the code with bit 7 set when it is released, and 0xE0 before the codes  *)
(* of some keys.  shift is the set of its bits; the character that         *)
(* kbd_read() returns, which the handler puts on the console, is left out. *)
(***************************************************************************)
EXTENDS Naturals, Sequences

CONSTANTS Keys,             \* keys of the keyboard, as [e0, code]
          BUF               \* bytes the keyboard buffers

\* No key has code 0x60: released, it would send the prefix.
ASSUME KeyAssumption ==
  /\ Keys \subseteq [e0 : BOOLEAN, code : (1..127) \ {96}]
  /\ BUF \in Nat

\* The bits of shift, by number.
SHIFT == 0
CTL == 1
ALT == 2
CAPSLOCK == 3
NUMLOCK == 4
SCROLLLOCK == 5
E0ESC == 6

VARIABLES shift,
          wire,             \* bytes sent and not yet read
          held              \* keys that are down

vars == <<shift, wire, held>>

-----------------------------------------------------------------------------
(* The keyboard                                                            *)

E0 == 224                   \* 0xE0

Code(k, up) == IF up THEN k.code + 128 ELSE k.code

Sent(k, up) == IF k.e0 THEN <<E0, Code(k, up)>> ELSE <<Code(k, up)>>

Send(k, up) ==
  /\ Len(wire) + Len(Sent(k, up)) <= BUF
  /\ wire' = wire \o Sent(k, up)
  /\ UNCHANGED shift

\* Pressed, or held long enough to repeat.
Press(k) == Send(k, FALSE) /\ held' = held \cup {k}

Release(k) == k \in held /\ Send(k, TRUE) /\ held' = held \ {k}

-----------------------------------------------------------------------------
(* kbd_read()                                                              *)

\* Both shifts; left control and alt; right ones, which follow 0xE0, with bit 7.
Shiftcode(c) ==
  CASE c \in {42, 54}  -> {SHIFT}
    [] c \in {29, 157} -> {CTL}
    [] c \in {56, 184} -> {ALT}
    [] OTHER -> {}

Togglecode(c) ==
  CASE c = 58 -> {CAPSLOCK}
    [] c = 69 -> {NUMLOCK}
    [] c = 70 -> {SCROLLLOCK}
    [] OTHER -> {}

\* E0ESC is a macro of 1<<6 without parentheses: ~E0ESC is -2 << 6.
NotE0ESC == {b \in SHIFT..E0ESC : b > E0ESC}

ReadPrefix ==
  /\ Head(wire) = E0
  /\ shift' = shift \cup {E0ESC}

\* Mutant: a release does not consume the prefix.
ReadReleaseKeeps ==
  /\ Head(wire) # E0 /\ Head(wire) >= 128
  /\ LET data == IF E0ESC \in shift THEN Head(wire) ELSE Head(wire) - 128
     IN  shift' = shift \ Shiftcode(data)

\* Mutant: bit 7 of a release is never taken off.
ReadReleaseRaw ==
  /\ Head(wire) # E0 /\ Head(wire) >= 128
  /\ shift' = shift \ (Shiftcode(Head(wire)) \cup {E0ESC})

ReadRelease ==
  /\ Head(wire) # E0 /\ Head(wire) >= 128
  /\ LET data == IF E0ESC \in shift THEN Head(wire) ELSE Head(wire) - 128
     IN  shift' = shift \ (Shiftcode(data) \cup {E0ESC})

ReadPress ==
  /\ Head(wire) < 128
  /\ LET data == IF E0ESC \in shift THEN Head(wire) + 128 ELSE Head(wire)
         kept == IF E0ESC \in shift THEN shift \cap NotE0ESC ELSE shift
         set == kept \cup Shiftcode(data)
         tog == Togglecode(data)
     IN  shift' = (set \ tog) \cup (tog \ set)

KbdRead ==
  /\ wire # << >> /\ wire' = Tail(wire)
  /\ ReadPrefix \/ ReadRelease \/ ReadPress
  /\ UNCHANGED held

-----------------------------------------------------------------------------
Init == shift = {} /\ wire = << >> /\ held = {}

Next ==
  \/ \E k \in Keys : Press(k) \/ Release(k)
  \/ KbdRead

Spec == Init /\ [][Next]_vars

-----------------------------------------------------------------------------
TypeOK ==
  /\ shift \subseteq SHIFT..E0ESC
  /\ wire \in Seq(1..255)
  /\ held \subseteq Keys

\* The bits key k sets.
Modifiers(k) == Shiftcode(IF k.e0 THEN k.code + 128 ELSE k.code)

Momentary == {SHIFT, CTL, ALT}

\* No modifier gets stuck: once the bytes sent are read, one that is set is a
\* modifier of a key that is down, whatever was pressed, held and released in
\* between, with the left keys, with the right ones, or with both.
NoStuckModifier ==
  wire = << >> => shift \cap Momentary \subseteq UNION {Modifiers(k) : k \in held}

\* The prefix never outlives the key it belongs to.
PrefixConsumed == wire = << >> => E0ESC \notin shift

\* kbd.h:21 makes E0ESC one bit of shift, and kbd.c:45 clears it: the modifier of a
\* key that is down stays set, unless another key of the same modifier is released.
HeldIsSet == wire = << >> => \A k \in held : Modifiers(k) \subseteq shift
=============================================================================
