------------------------------ MODULE Terminal ------------------------------
(***************************************************************************)
(* What display.h promises of the text display: a sheet of cells and a     *)
(* cursor where the next character is printed, which wraps at the right    *)
(* and at the bottom edge.  A line that is full is left only when there is *)
(* more to print, so that a line feed after it starts the next line.       *)
(***************************************************************************)
EXTENDS Naturals

CONSTANTS Width, Height, Chars, Blank

VARIABLES
    cells,  \* the sheet, row after row
    col,    \* Width when the row is full
    row

Below == (row + 1) % Height

Write(c) ==
    LET full == col = Width
        r == IF full THEN Below ELSE row
        k == IF full THEN 0 ELSE col
    IN  /\ cells' = [cells EXCEPT ![r * Width + k] = c]
        /\ row' = r /\ col' = k + 1

NewLine == row' = Below /\ col' = 0 /\ UNCHANGED cells

Move(x, y) == col' = x /\ row' = y /\ UNCHANGED cells

Wipe == cells' = [p \in DOMAIN cells |-> Blank] /\ UNCHANGED <<col, row>>

Init ==
    /\ cells = [p \in 0..Width * Height - 1 |-> Blank]
    /\ col = 0 /\ row = 0

Next ==
    \/ \E c \in Chars : Write(c)
    \/ NewLine
    \/ \E x \in 0..Width - 1, y \in 0..Height - 1 : Move(x, y)
    \/ Wipe

Spec == Init /\ [][Next]_<<cells, col, row>>

=============================================================================
