--------------------------- MODULE ConsoleProofs ---------------------------
(***************************************************************************)
(* Theorems about the text screen, for every number of rows and columns,   *)
(* every tab width that divides a row and every mixture of characters.     *)
(***************************************************************************)
EXTENDS Console, TLAPS

-----------------------------------------------------------------------------
(* Positions                                                               *)

LEMMA Sizes ==
  /\ ROWS \in Nat /\ ROWS >= 2 /\ COLS \in Nat /\ COLS >= 2
  /\ TAB \in Nat /\ TAB >= 1 /\ MARGIN \in Nat /\ MARGIN <= COLS
  /\ ROWS * COLS \in Nat
BY ConsoleAssumption

LEMMA RowEnd ==
  ASSUME NEW y \in Int
  PROVE  /\ y * COLS \in Int
         /\ (y + 1) * COLS = y * COLS + COLS
         /\ (y - 1) * COLS = y * COLS - COLS
BY Sizes

LEMMA RowsUpTo ==
  ASSUME NEW y \in Int, NEW z \in Int, y <= z
  PROVE  y * COLS <= z * COLS
BY Sizes

LEMMA ScreenEnd == (ROWS + 1) * COLS = ROWS * COLS + COLS
BY Sizes, RowEnd

LEMMA TabMoves ==
  ASSUME NEW x \in Int
  PROVE  /\ ((x + TAB) \div TAB) * TAB \in Int
         /\ ((x + TAB) \div TAB) * TAB > x
<1>1. TAB \in Nat /\ TAB >= 1
  BY Sizes
<1> DEFINE a == x + TAB
<1>2. a \in Int /\ a \div TAB \in Int /\ a % TAB \in 0 .. TAB - 1
  BY <1>1
<1>3. a = (a \div TAB) * TAB + (a % TAB)
  <2> HIDE DEF a
  <2> QED BY <1>1, <1>2
<1>4. (a \div TAB) * TAB \in Int
  BY <1>1, <1>2
<1> QED BY <1>1, <1>2, <1>3, <1>4

LEMMA MovedInt ==
  ASSUME NEW c \in Kinds, console_x \in Int, console_y \in Int
  PROVE  MovedX(c) \in Int /\ MovedY(c) \in Int
BY TabMoves DEF MovedX, MovedY

-----------------------------------------------------------------------------
(* A character is put                                                      *)

Screens == [Memory -> {Blank, "letter"}]

LEMMA CellsInMemory ==
  /\ \A p \in Memory : p \in Int
  /\ \A p \in Cells : p \in Memory /\ p + COLS \in Memory
BY Sizes, ScreenEnd DEF Cells, Memory

Cursors == [{14, 15} -> 0 .. BYTE - 1]

LEMMA CursorTypes ==
  /\ 0 \in 0 .. BYTE * BYTE - 1
  /\ \A n \in Int : UShort(n) \in 0 .. BYTE * BYTE - 1
  /\ \A n \in 0 .. BYTE * BYTE - 1 : Shown(n) \in Cursors
<1>1. BYTE \in Nat \ {0}
  BY ConsoleAssumption
<1>2. BYTE * BYTE \in Nat \ {0}
  BY <1>1
<1>3. ASSUME NEW n \in Int
      PROVE  UShort(n) \in 0 .. BYTE * BYTE - 1
  BY <1>2 DEF UShort
<1>4. ASSUME NEW n \in 0 .. BYTE * BYTE - 1
      PROVE  n \div BYTE \in 0 .. BYTE - 1 /\ n % BYTE \in 0 .. BYTE - 1
  <2>1. n \in Int /\ n >= 0 /\ n < BYTE * BYTE
    BY <1>2
  <2>2. PICK q \in Int, r \in 0 .. BYTE - 1 :
          q = n \div BYTE /\ r = n % BYTE /\ n = BYTE * q + r
    BY <1>1, <2>1
  <2>3. q >= 0
    <3>1. q <= -1 => BYTE * q <= -BYTE
      BY <1>1
    <3> QED BY <1>1, <2>1, <2>2, <3>1
  <2>4. q < BYTE
    <3>1. q >= BYTE => BYTE * q >= BYTE * BYTE
      BY <1>1
    <3> QED BY <1>1, <1>2, <2>1, <2>2, <3>1
  <2>5. q \in 0 .. BYTE - 1
    BY <1>1, <2>3, <2>4
  <2> QED BY <2>2, <2>5
<1>5. ASSUME NEW n \in 0 .. BYTE * BYTE - 1
      PROVE  Shown(n) \in Cursors
  BY <1>4 DEF Shown, Cursors
<1>6. 0 \in 0 .. BYTE * BYTE - 1
  BY <1>2
<1> QED BY <1>3, <1>5, <1>6

\* console_scroll() and console_move() leave the row above the last one.
LEMMA SettleShown ==
  ASSUME NEW x \in Int, NEW y \in 0 .. ROWS - 1, NEW f \in Screens, Settle(x, y, f)
  PROVE  /\ console_x' = x /\ console_y' \in 0 .. ROWS - 2
         /\ fb' \in Screens
         /\ reg' \in {14, 15} /\ crtc' \in Cursors
<1>1. console_x' = x /\ console_y' \in 0 .. ROWS - 2
  BY Sizes DEF Settle, Scrolls
<1>2. Shifted(f) \in Screens
  BY CellsInMemory DEF Shifted, Screens
<1>3. fb' \in Screens
  BY <1>2 DEF Settle
<1>4. reg' = 15 /\ crtc' = Shown(UShort(Index(console_x', console_y')))
  BY DEF Settle
<1>5. Index(console_x', console_y') \in Int
  BY <1>1, RowEnd, Sizes DEF Index
<1>6. crtc' \in Cursors
  BY <1>4, <1>5, CursorTypes
<1> QED BY <1>1, <1>3, <1>4, <1>6

\* What follows the cursor is still blank once the text has moved up with it.
LEMMA SettleBlank ==
  ASSUME NEW x \in 0 .. COLS, NEW y \in 0 .. ROWS - 1, NEW f \in Screens,
         \A p \in Memory : p >= Index(x, y) => f[p] = Blank,
         Settle(x, y, f)
  PROVE  \A p \in Memory : p >= Index(console_x', console_y') => fb'[p] = Blank
<1>1. CASE ~Scrolls(y)
  BY <1>1 DEF Settle
<1>2. CASE Scrolls(y)
  <2>1. y = ROWS - 1 /\ console_x' = x /\ console_y' = y - 1 /\ fb' = Shifted(f)
    BY <1>2, Sizes DEF Settle, Scrolls
  <2>2. /\ y * COLS \in Int /\ (y - 1) * COLS = y * COLS - COLS
        /\ y * COLS + COLS = ROWS * COLS /\ y * COLS >= COLS
    <3>1. y \in Int /\ y + 1 = ROWS /\ 1 <= y
      BY <2>1, Sizes
    <3>2. 1 * COLS = COLS
      BY Sizes
    <3> QED BY <3>1, <3>2, RowEnd, RowsUpTo
  <2>3. Index(x, y) = y * COLS + x /\ Index(x, y - 1) = y * COLS - COLS + x
    BY <2>2 DEF Index
  <2>4. ASSUME NEW p \in Memory, p >= y * COLS - COLS + x
        PROVE  Shifted(f)[p] = Blank
    <3>1. p \in Int /\ COLS \in Nat /\ x \in Int /\ x <= COLS /\ x >= 0
      BY CellsInMemory, Sizes
    <3>2. CASE p \in Cells
      <4>1. p + COLS \in Memory /\ p + COLS >= Index(x, y)
        BY <2>2, <2>3, <2>4, <3>1, <3>2, CellsInMemory
      <4> QED BY <3>2, <4>1 DEF Shifted
    <3>3. CASE p \notin Cells
      <4>1. p >= ROWS * COLS
        BY <2>2, <2>4, <3>1, <3>3, Sizes DEF Cells
      <4>2. p >= Index(x, y)
        BY <2>2, <2>3, <3>1, <4>1
      <4> QED BY <3>3, <4>2 DEF Shifted
    <3> QED BY <3>2, <3>3
  <2> QED BY <2>1, <2>3, <2>4
<1> QED BY <1>1, <1>2

\* Nothing that follows the cursor was there before a character is put.
LEMMA WrittenBlank ==
  ASSUME NEW c \in Kinds, NEW x \in Int, NEW y \in Int,
         fb \in Screens, console_x \in Int, console_y \in Int,
         EmptyAfter(console_x, console_y),
         Index(x, y) >= Index(console_x, console_y),
         c = "letter" => Index(x, y) > Index(console_x, console_y)
  PROVE  \A p \in Memory : p >= Index(x, y) => Written(c)[p] = Blank
<1>1. Index(x, y) \in Int /\ Index(console_x, console_y) \in Int
  BY RowEnd DEF Index
<1>2. ASSUME NEW p \in Memory, p >= Index(x, y)
      PROVE  Written(c)[p] = Blank
  <2>1. p \in Int /\ p >= Index(console_x, console_y)
    BY <1>1, <1>2, CellsInMemory
  <2>2. fb[p] = Blank
    BY <2>1 DEF EmptyAfter
  <2>3. c = "letter" => p # Index(console_x, console_y)
    BY <1>1, <1>2, <2>1
  <2> QED BY <2>2, <2>3 DEF Written, Screens
<1> QED BY <1>2

LEMMA WrittenType ==
  ASSUME NEW c \in Kinds, fb \in Screens
  PROVE  Written(c) \in Screens
BY DEF Written, Screens

-----------------------------------------------------------------------------
(* The inductive invariant                                                 *)

\* While text is put straight on, the cursor is on its line with room for one more.
ScreenInv ==
  /\ TypeOK
  /\ RowShown
  /\ straight /\ clear = "boot" => console_x \in 0 .. COLS - 2
  /\ BlankAfter

LEMMA InvInit == Init => ScreenInv
<1> SUFFICES ASSUME Init PROVE ScreenInv
  OBVIOUS
<1>1. 0 \in -MARGIN .. COLS + MARGIN /\ 0 \in 0 .. COLS - 2 /\ 0 \in 0 .. ROWS - 2
      /\ 0 \in 0 .. ROWS * COLS
  BY Sizes
<1>2. TypeOK
  <2>1. Shown(CURSOR) \in [{14, 15} -> 0 .. BYTE - 1]
    BY CursorTypes, ConsoleAssumption DEF Cursors
  <2>2. 0 \in 0 .. BYTE * BYTE - 1
    BY CursorTypes
  <2> QED BY <1>1, <2>1, <2>2 DEF Init, TypeOK, ClearPlaces
<1>3. Index(0, 0) = 0
  BY Sizes DEF Index
<1> QED BY <1>1, <1>2, <1>3
      DEF Init, ScreenInv, RowShown, BlankAfter, EmptyAfter

LEMMA PutInv ==
  ASSUME ScreenInv, NEW c \in Kinds, Put(c)
  PROVE  ScreenInv'
<1> DEFINE x == MovedX(c)
           y == MovedY(c)
           cx == IF Full(x) THEN 0 ELSE x
           cy == IF Full(x) THEN y + 1 ELSE y
<1>1. /\ console_x \in Int /\ console_y \in Int /\ console_y \in 0 .. ROWS - 2
      /\ fb \in Screens /\ straight \in BOOLEAN
  BY Sizes DEF ScreenInv, TypeOK, RowShown, Screens
<1>2. x \in Int /\ y \in Int /\ x \in -MARGIN .. COLS + MARGIN
  BY <1>1, MovedInt DEF Put, InMargin
<1>3. Written(c) \in Screens
  BY <1>1, WrittenType
<1>4. Settle(cx, cy, Written(c))
  BY DEF Put
<1>5. cx \in Int /\ cx \in -MARGIN .. COLS + MARGIN
  BY <1>2, Sizes
<1>6. cy \in 0 .. ROWS - 1
  <2>1. c = "newline" => ~Full(x)
    BY Sizes DEF MovedX, Full
  <2> QED BY <1>1, <2>1, Sizes DEF MovedY
<1> HIDE DEF x, y
<1>7. /\ console_x' = cx /\ console_y' \in 0 .. ROWS - 2 /\ fb' \in Screens
      /\ reg' \in {14, 15} /\ crtc' \in Cursors
  BY <1>3, <1>4, <1>5, <1>6, SettleShown
<1>8. /\ clear' = Used /\ straight' = (straight /\ c # "backspace")
      /\ i' = i /\ pos' = pos
  BY DEF Put
<1>9. TypeOK'
  <2>1. i' \in 0 .. ROWS * COLS /\ pos' \in 0 .. BYTE * BYTE - 1
    BY <1>8 DEF ScreenInv, TypeOK
  <2>2. straight' \in BOOLEAN
    BY <1>8
  <2>3. clear' \in ClearPlaces
    BY <1>8 DEF ScreenInv, TypeOK, Used, ClearPlaces
  <2>4. console_y' \in Nat
    BY <1>7, Sizes
  <2> QED BY <1>5, <1>7, <2>1, <2>2, <2>3, <2>4 DEF TypeOK, Screens, Cursors
<1>10. RowShown'
  BY <1>7 DEF RowShown
<1>11. ASSUME straight', clear' = "boot"
       PROVE  console_x' \in 0 .. COLS - 2 /\ EmptyAfter(console_x, console_y)'
  <2>1. straight /\ clear = "boot" /\ c # "backspace"
    BY <1>8, <1>11 DEF Used
  <2>2. console_x \in 0 .. COLS - 2 /\ EmptyAfter(console_x, console_y)
    BY <2>1 DEF ScreenInv, BlankAfter
  <2>3. /\ c = "newline" => x = 0 /\ y = console_y + 1
        /\ c # "newline" => x >= console_x /\ y = console_y
        /\ c = "letter" => x = console_x + 1
    BY <1>1, <2>1, TabMoves DEF x, y, MovedX, MovedY, Kinds
  <2>4. x >= 0
    BY <1>1, <1>2, <2>2, <2>3, Sizes
  <2>5. cx \in 0 .. COLS - 2
    BY <1>2, <2>4, Sizes DEF Full
  <2>6. /\ Index(cx, cy) >= Index(console_x, console_y)
        /\ c = "letter" => Index(cx, cy) > Index(console_x, console_y)
    <3>1. /\ console_y * COLS \in Int
          /\ (console_y + 1) * COLS = console_y * COLS + COLS
      BY <1>1, RowEnd
    <3>2. \/ cy = console_y /\ cx >= console_x /\ (c = "letter" => cx > console_x)
          \/ cy = console_y + 1
      <4>1. CASE Full(x)
        <5>1. c # "newline"
          BY <2>3, <4>1, Sizes DEF Full
        <5> QED BY <2>3, <4>1, <5>1
      <4>2. CASE ~Full(x)
        BY <1>1, <1>2, <2>3, <4>2
      <4> QED BY <4>1, <4>2
    <3>3. console_x < COLS /\ cx >= 0 /\ console_x \in Int /\ COLS \in Int /\ cx \in Int
      BY <2>2, <2>5, Sizes
    <3> HIDE DEF cx, cy
    <3>4. CASE cy = console_y /\ cx >= console_x /\ (c = "letter" => cx > console_x)
      BY <3>1, <3>3, <3>4 DEF Index
    <3>5. CASE cy = console_y + 1
      BY <3>1, <3>3, <3>5 DEF Index
    <3> QED BY <3>2, <3>4, <3>5
  <2>7. \A p \in Memory : p >= Index(cx, cy) => Written(c)[p] = Blank
    BY <1>1, <1>5, <1>6, <2>2, <2>6, WrittenBlank
  <2>8. cx \in 0 .. COLS
    <3> HIDE DEF cx
    <3> QED BY <2>5, Sizes
  <2>9. \A p \in Memory : p >= Index(console_x', console_y') => fb'[p] = Blank
    <3> HIDE DEF cx, cy
    <3> QED BY <1>3, <1>4, <1>6, <2>7, <2>8, SettleBlank
  <2> QED BY <1>7, <2>5, <2>9 DEF EmptyAfter
<1> QED BY <1>9, <1>10, <1>11 DEF ScreenInv, BlankAfter

LEMMA PutColorInv ==
  ASSUME ScreenInv, NEW c \in Kinds, PutColor(c)
  PROVE  ScreenInv'
<1> DEFINE x == MovedX(c)
           y == MovedY(c)
           cy == IF x >= COLS THEN y + 1 ELSE y
<1>1. /\ console_x \in Int /\ console_y \in Int /\ console_y \in 0 .. ROWS - 2
      /\ fb \in Screens
  BY Sizes DEF ScreenInv, TypeOK, RowShown, Screens
<1>2. x \in Int /\ y \in Int /\ x \in -MARGIN .. COLS + MARGIN
  BY <1>1, MovedInt DEF PutColor, InMargin
<1>3. Written(c) \in Screens
  BY <1>1, WrittenType
<1>4. Settle(x, cy, Written(c))
  BY DEF PutColor
<1>5. cy \in 0 .. ROWS - 1
  <2>1. c = "newline" => x < COLS
    BY Sizes DEF MovedX
  <2> QED BY <1>1, <1>2, <2>1, Sizes DEF MovedY
<1> HIDE DEF x, y
<1>6. /\ console_x' = x /\ console_y' \in 0 .. ROWS - 2 /\ fb' \in Screens
      /\ reg' \in {14, 15} /\ crtc' \in Cursors
  BY <1>2, <1>3, <1>4, <1>5, SettleShown
<1>7. /\ clear' = Used /\ straight' = FALSE /\ i' = i /\ pos' = pos
  BY DEF PutColor
<1>8. TypeOK'
  <2>1. i' \in 0 .. ROWS * COLS /\ pos' \in 0 .. BYTE * BYTE - 1
    BY <1>7 DEF ScreenInv, TypeOK
  <2>2. clear' \in ClearPlaces
    BY <1>7 DEF ScreenInv, TypeOK, Used, ClearPlaces
  <2>3. console_y' \in Nat
    BY <1>6, Sizes
  <2> QED BY <1>2, <1>6, <1>7, <2>1, <2>2, <2>3 DEF TypeOK, Screens, Cursors
<1>9. RowShown'
  BY <1>6 DEF RowShown
<1> QED BY <1>7, <1>8, <1>9 DEF ScreenInv, BlankAfter

\* console_clear() lets the cursor jump home, but never off the screen.
LEMMA ClearInv ==
  ASSUME ScreenInv, Clear
  PROVE  ScreenInv'
<1>1. clear' # "boot"
  BY DEF Clear, ClearStart, ClearCell, ClearX, ClearY, ClearRow, ClearPos, ClearSelect,
         ClearHigh, ClearLow
<1>2. 0 \in -MARGIN .. COLS + MARGIN /\ 0 \in 0 .. ROWS - 2 /\ 0 \in 0 .. ROWS * COLS
  BY Sizes
<1>3. TypeOK' /\ RowShown'
  <2> USE DEF ScreenInv, TypeOK, RowShown, ClearPlaces, screen, hardware
  <2>1. CASE ClearStart
    BY <1>2, <2>1 DEF ClearStart
  <2>2. CASE ClearCell
    <3>1. i + 1 \in 0 .. ROWS * COLS
      BY <2>2, Sizes DEF ClearCell, Cells
    <3>2. fb' \in [Memory -> {Blank, "letter"}]
      BY <2>2 DEF ClearCell
    <3> QED BY <2>2, <3>1, <3>2 DEF ClearCell
  <2>3. CASE ClearX
    BY <1>2, <2>3 DEF ClearX
  <2>4. CASE ClearY
    BY <1>2, <2>4 DEF ClearY
  <2>5. CASE ClearRow \/ ClearPos
    <3>1. Index(0, console_y) \in Int /\ pos + console_x \in Int
      BY RowEnd, Sizes DEF Index
    <3>2. pos' \in 0 .. BYTE * BYTE - 1
      BY <2>5, <3>1, CursorTypes DEF ClearRow, ClearPos
    <3> QED BY <2>5, <3>2 DEF ClearRow, ClearPos
  <2>6. CASE ClearSelect
    BY <2>6 DEF ClearSelect
  <2>7. CASE ClearHigh \/ ClearLow
    <3>1. Shown(pos)[14] \in 0 .. BYTE - 1 /\ Shown(pos)[15] \in 0 .. BYTE - 1
      BY CursorTypes DEF Cursors
    <3>2. crtc' \in [{14, 15} -> 0 .. BYTE - 1]
      BY <2>7, <3>1 DEF ClearHigh, ClearLow
    <3>3. pos' \in 0 .. BYTE * BYTE - 1
      BY <2>7, CursorTypes DEF ClearHigh, ClearLow
    <3> QED BY <1>2, <2>7, <3>2, <3>3 DEF ClearHigh, ClearLow
  <2> QED BY <2>1, <2>2, <2>3, <2>4, <2>5, <2>6, <2>7 DEF Clear
<1> QED BY <1>1, <1>3 DEF ScreenInv, BlankAfter

LEMMA InvNext == ScreenInv /\ [Next]_vars => ScreenInv'
<1> SUFFICES ASSUME ScreenInv, [Next]_vars PROVE ScreenInv'
  OBVIOUS
<1>1. CASE \E c \in Plain : Put(c)
  BY <1>1, ConsoleAssumption, PutInv
<1>2. CASE \E c \in Coloured : PutColor(c)
  BY <1>2, ConsoleAssumption, PutColorInv
<1>3. CASE UNCHANGED vars
  BY <1>3 DEF ScreenInv, TypeOK, RowShown, BlankAfter, EmptyAfter, vars,
                 screen, hardware
<1> QED BY <1>1, <1>2, <1>3, ClearInv DEF Next

-----------------------------------------------------------------------------
(* The theorems                                                            *)

\* Every put and every step of console_clear() keeps the invariant.
THEOREM ScreenInvariance == Spec => []ScreenInv
BY InvInit, InvNext, PTL DEF Spec

\* The row of the cursor is always above the last one: console_scroll() is called
\* in time after every kind of character, and the unlocked console_clear() cannot
\* send the cursor off the screen.
THEOREM RowShownHolds == Spec => []RowShown
<1>1. ScreenInv => RowShown
  BY DEF ScreenInv
<1> QED BY <1>1, ScreenInvariance, PTL

\* Until a backspace, a coloured character or console_clear(), all that follows the
\* cursor is blank, on screens of every size: no character is put over another.
THEOREM BlankAfterHolds == Spec => []BlankAfter
<1>1. ScreenInv => BlankAfter
  BY DEF ScreenInv
<1> QED BY <1>1, ScreenInvariance, PTL

=============================================================================
