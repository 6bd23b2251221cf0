------------------------------- MODULE Screen -------------------------------
(***************************************************************************)
(* The screen as text (src/drivers/display.c over framebuffer.c): a grid   *)
(* of characters and a cursor.  A screen is a record, and display_putchar  *)
(* a function of the screen and the character.                             *)
(***************************************************************************)
EXTENDS Integers, Sequences, SequencesExt

CONSTANTS Columns, Rows

ASSUME ScreenAssumption == Columns \in Nat \ {0} /\ Rows \in Nat \ {0}

\* Characters are strings of length 1, but for these.
NewLine == "nl"
Return == "cr"
Tab == "tab"
Backspace == "bs"
Blank == " "
TabSize == 4

Cell == (0 .. Rows - 1) \X (0 .. Columns - 1)

\* display_init, display_clear
Clear == [cells |-> [c \in Cell |-> Blank], x |-> 0, y |-> 0]

\* fb_draw_char
Draw(s, x, c) == [s EXCEPT !.cells[<<s.y, x>>] = c]

\* Every character moves the cursor; most of them leave a mark.
Move(s, c) ==
    CASE c = NewLine -> [s EXCEPT !.x = 0, !.y = @ + 1]
      [] c = Return -> [s EXCEPT !.x = 0]
      [] c = Tab -> [s EXCEPT !.x = ((@ + TabSize) \div TabSize) * TabSize]
      [] c = Backspace -> IF s.x = 0 THEN s ELSE [Draw(s, s.x - 1, Blank) EXCEPT !.x = @ - 1]
      [] OTHER -> [Draw(s, s.x, c) EXCEPT !.x = @ + 1]

\* A full line goes on in the next.
Wrap(s) == IF s.x >= Columns THEN [s EXCEPT !.x = 0, !.y = @ + 1] ELSE s

\* Mutant: the rows move, the cursor goes back to the top.
ScrollToTop(s) ==
    IF s.y < Rows THEN s
    ELSE [s EXCEPT !.y = 0,
                   !.cells = [c \in Cell |-> IF c[1] = Rows - 1 THEN Blank ELSE s.cells[<<c[1] + 1, c[2]>>]]]

\* fb_scroll, when the cursor has left the screen
Scroll(s) ==
    IF s.y < Rows THEN s
    ELSE [s EXCEPT !.y = Rows - 1,
                   !.cells = [c \in Cell |-> IF c[1] = Rows - 1 THEN Blank ELSE s.cells[<<c[1] + 1, c[2]>>]]]

\* display_putchar, display_write
Put(s, c) == Scroll(Wrap(Move(s, c)))
Write(s, text) ==
    LET at[k \in 0 .. Len(text)] == IF k = 0 THEN s ELSE Put(at[k - 1], text[k])
    IN  at[Len(text)]

\* The place of the cursor, and what stands n characters before it
Place(s) == s.y * Columns + s.x
Before(s, n) == LET p == Place(s) - n IN s.cells[<<p \div Columns, p % Columns>>]
=============================================================================
