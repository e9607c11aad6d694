----------------------------- MODULE MCKeyboard -----------------------------
(***************************************************************************)
(* A keyboard of eight keys: the modifiers of both sides, a lock, a letter *)
(* and an arrow.                                                           *)
(***************************************************************************)
EXTENDS Keyboard

Key(e0, code) == [e0 |-> e0, code |-> code]

LeftShift == Key(FALSE, 42)
UpArrow == Key(TRUE, 72)

AllKeys == {LeftShift, Key(FALSE, 54), Key(FALSE, 29), Key(TRUE, 29),
            Key(TRUE, 56), Key(FALSE, 58), Key(FALSE, 30), UpArrow}
=============================================================================
