------------------------------ MODULE Console ------------------------------
(***************************************************************************)
(* drivers/console.c: the text screen.  A character is put under the lock  *)
(* cons, interrupts off, whoever puts it: a kprintf() or the keyboard      *)
(* interrupt.  scheduler() clears the screen once, without the lock and    *)
(* with interrupts on, so characters are put between any two of its steps. *)
(* Positions count cells from the first cell of the screen; memory holds   *)
(* more before and after it, which the screen does not show.  A cell holds *)
(* a character or is blank, its colour is left out.                        *)
(***************************************************************************)
EXTENDS Integers

CONSTANTS ROWS, COLS,       \* TML_ROWS, TML_COLUMNS
          TAB,              \* width of a tab, a divisor of COLS
          Plain,            \* kinds of characters console_put() is given
          Coloured,         \* and console_put_color()
          CLEARS,           \* whether scheduler() clears the screen
          MARGIN,           \* columns off the screen that x may reach
          BYTE,             \* values of a byte
          CURSOR            \* where the boot loader left the hardware's cursor

Kinds == {"newline", "backspace", "tab", "letter", "other"}

ASSUME ConsoleAssumption ==
  /\ ROWS \in Nat \ {0, 1} /\ COLS \in Nat \ {0, 1} /\ TAB \in Nat \ {0}
  /\ COLS % TAB = 0
  /\ Plain \subseteq Kinds /\ Coloured \subseteq Kinds
  /\ CLEARS \in BOOLEAN
  /\ MARGIN \in 0..COLS
  /\ BYTE \in Nat \ {0} /\ CURSOR \in 0 .. BYTE * BYTE - 1

VARIABLES console_x, console_y,
          fb,               \* console_fb, by position
          reg, crtc,        \* the register selected, 14 and 15: the cursor shown
          clear,            \* where console_clear() is
          i,                \* its next cell
          pos,              \* the position it computed for the cursor
          straight          \* history: no backspace, no colour so far

screen == <<console_x, console_y, fb>>
hardware == <<reg, crtc>>
vars == <<screen, hardware, clear, i, pos, straight>>

Cells == 0 .. ROWS * COLS - 1
Memory == -COLS .. (ROWS + 1) * COLS - 1

Blank == " "

Index(x, y) == y * COLS + x

UShort(n) == n % (BYTE * BYTE)

\* The registers that show the cursor at position n: its high byte and its low one.
Shown(n) == [r \in {14, 15} |-> IF r = 14 THEN n \div BYTE ELSE n % BYTE]

-----------------------------------------------------------------------------
(* console_put(), console_put_color()                                      *)

\* Where the cursor is after character c, before the line is checked.
MovedX(c) ==
  CASE c = "newline"   -> 0
    [] c = "backspace" -> console_x - 1
    [] c = "tab"       -> ((console_x + TAB) \div TAB) * TAB
    [] c = "letter"    -> console_x + 1
    [] OTHER           -> console_x

MovedY(c) == IF c = "newline" THEN console_y + 1 ELSE console_y

Written(c) ==
  IF c = "letter" THEN [fb EXCEPT ![Index(console_x, console_y)] = c] ELSE fb

\* Mutant: the text moves up one row too late.
ScrollsLate(y) == y >= ROWS

Scrolls(y) == y >= ROWS - 1

\* console_scroll(): every row takes the one below, the last row the memory after it.
Shifted(f) == [p \in Memory |-> IF p \in Cells THEN f[p + COLS] ELSE f[p]]

\* console_scroll() and console_move() at column x of row y, with screen f.
Settle(x, y, f) ==
  LET down == IF Scrolls(y) THEN y - 1 ELSE y
  IN  /\ console_x' = x /\ console_y' = down
      /\ fb' = IF Scrolls(y) THEN Shifted(f) ELSE f
      /\ reg' = 15 /\ crtc' = Shown(UShort(Index(x, down)))

\* Mutant: a full line is not wrapped.
FullNever(x) == FALSE

Full(x) == x >= COLS - 1

InMargin(x) == x \in -MARGIN .. COLS + MARGIN

\* The screen shows something since it was cleared.
Used == IF clear = "cleared" THEN "done" ELSE clear

Put(c) ==
  /\ InMargin(MovedX(c))
  /\ IF Full(MovedX(c))
     THEN Settle(0, MovedY(c) + 1, Written(c))
     ELSE Settle(MovedX(c), MovedY(c), Written(c))
  /\ clear' = Used
  /\ straight' = (straight /\ c # "backspace")
  /\ UNCHANGED <<i, pos>>

\* A full line does not return to column 0.
PutColor(c) ==
  /\ InMargin(MovedX(c))
  /\ Settle(MovedX(c),
            IF MovedX(c) >= COLS THEN MovedY(c) + 1 ELSE MovedY(c),
            Written(c))
  /\ clear' = Used
  /\ straight' = FALSE
  /\ UNCHANGED <<i, pos>>

-----------------------------------------------------------------------------
(* console_clear()                                                         *)

ClearStart ==
  /\ CLEARS
  /\ clear = "boot" /\ clear' = "cells" /\ i' = 0
  /\ UNCHANGED <<screen, hardware, pos, straight>>

ClearCell ==
  /\ clear = "cells" /\ i \in Cells
  /\ fb' = [fb EXCEPT ![i] = Blank] /\ i' = i + 1
  /\ UNCHANGED <<console_x, console_y, hardware, clear, pos, straight>>

ClearX ==
  /\ clear = "cells" /\ i \notin Cells
  /\ console_x' = 0 /\ clear' = "x"
  /\ UNCHANGED <<console_y, fb, hardware, i, pos, straight>>

ClearY ==
  /\ clear = "x"
  /\ console_y' = 0 /\ clear' = "y"
  /\ UNCHANGED <<console_x, fb, hardware, i, pos, straight>>

\* console_move() computes the position from the row and then the column,
ClearRow ==
  /\ clear = "y"
  /\ pos' = UShort(Index(0, console_y)) /\ clear' = "pos"
  /\ UNCHANGED <<screen, hardware, i, straight>>

ClearPos ==
  /\ clear = "pos"
  /\ pos' = UShort(pos + console_x) /\ clear' = "move"
  /\ UNCHANGED <<screen, hardware, i, straight>>

\* and selects and sets one register after the other.
ClearSelect ==
  /\ \/ clear = "move" /\ reg' = 14 /\ clear' = "high"
     \/ clear = "next" /\ reg' = 15 /\ clear' = "low"
  /\ UNCHANGED <<screen, crtc, i, pos, straight>>

ClearHigh ==
  /\ clear = "high"
  /\ crtc' = [crtc EXCEPT ![reg] = Shown(pos)[14]] /\ clear' = "next"
  /\ UNCHANGED <<screen, reg, i, pos, straight>>

ClearLow ==
  /\ clear = "low"
  /\ crtc' = [crtc EXCEPT ![reg] = Shown(pos)[15]] /\ clear' = "cleared"
  /\ i' = 0 /\ pos' = 0
  /\ UNCHANGED <<screen, reg, straight>>

Clear == ClearStart \/ ClearCell \/ ClearX \/ ClearY \/ ClearRow \/ ClearPos
           \/ ClearSelect \/ ClearHigh \/ ClearLow

-----------------------------------------------------------------------------
\* console_init(), which does not move the cursor shown; the BIOS leaves the memory
\* around the screen blank.
Init ==
  /\ console_x = 0 /\ console_y = 0
  /\ fb = [p \in Memory |-> Blank]
  /\ reg = 15 /\ crtc = Shown(CURSOR)
  /\ clear = "boot" /\ i = 0 /\ pos = 0 /\ straight = TRUE

Next ==
  \/ \E c \in Plain : Put(c)
  \/ \E c \in Coloured : PutColor(c)
  \/ Clear

Spec == Init /\ [][Next]_vars

-----------------------------------------------------------------------------
ClearPlaces == {"boot", "cells", "x", "y", "pos", "move", "high", "next", "low",
                "cleared", "done"}

TypeOK ==
  /\ console_x \in -MARGIN .. COLS + MARGIN /\ console_y \in Nat
  /\ fb \in [Memory -> {Blank, "letter"}]
  /\ reg \in {14, 15} /\ crtc \in [{14, 15} -> 0 .. BYTE - 1]
  /\ pos \in 0 .. BYTE * BYTE - 1
  /\ clear \in ClearPlaces
  /\ i \in 0 .. ROWS * COLS
  /\ straight \in BOOLEAN

\* However characters, colours, wraps, scrolls and the clearing of the screen follow
\* and interrupt each other, the row stays above the last one: console_scroll() keeps
\* that one empty, and every line of text is on the screen.
RowShown == console_y \in 0 .. ROWS - 2

EmptyAfter(x, y) == \A p \in Memory : p >= Index(x, y) => fb[p] = Blank

\* Text stays in the order it was put, over wraps, tabs and scrolls: all that
\* follows the cursor is blank, and so no character is put over another.  Backspace
\* moves back into the text, console_put_color() leaves the line, and the unlocked
\* console_clear() moves lines; until then it holds.
BlankAfter ==
  straight /\ clear = "boot" => EmptyAfter(console_x, console_y)

\* console.c:14 calls console_x the current column: it is one of the screen.
ColumnShown == console_x \in 0 .. COLS - 1

\* console.c:145 says that console_clear() clears the screen: when it ends, only
\* characters put since the cursor went home are on it.
Cleared == clear = "cleared" => EmptyAfter(console_x, console_y)

\* console.c:35 calls console_move() the handling of the cursor: console_clear() ends
\* with the cursor shown where the next character goes.
CursorMoved ==
  clear = "cleared" => crtc = Shown(UShort(Index(console_x, console_y)))
=============================================================================
