------------------------------ MODULE Terminal ------------------------------
(***************************************************************************)
(* What a text console promises: a grid of rows with a cursor.  Characters *)
(* fill the row and go on in the next; a new row at the bottom pushes the  *)
(* top one out; rubbing out goes back one place, to the end of the row     *)
(* above from the start of a row, and no further than the top.             *)
(***************************************************************************)
EXTENDS Naturals

CONSTANTS Width, Height, Char, Blank

VARIABLES grid,      \* row to column to character
          row, col,  \* where the next character goes
          on         \* FALSE while the screen shows what it showed before

vars == <<grid, row, col, on>>

BlankRow == [c \in 0 .. Width - 1 |-> Blank]

Init == /\ on = FALSE
        /\ row = 0
        /\ col = 0

Clear == /\ on' = TRUE
         /\ grid' = [r \in 0 .. Height - 1 |-> BlankRow]
         /\ row' = 0
         /\ col' = 0

\* The grid g goes on at the start of the row below.
Advance(g) == /\ col' = 0
              /\ IF row < Height - 1
                 THEN /\ row' = row + 1
                      /\ grid' = g
                 ELSE /\ row' = row
                      /\ grid' = [r \in 0 .. Height - 1 |->
                                    IF r < Height - 1 THEN g[r + 1] ELSE BlankRow]

Put(ch) == /\ on
           /\ LET drawn == [grid EXCEPT ![row][col] = ch]
              IN  IF col < Width - 1
                  THEN grid' = drawn /\ col' = col + 1 /\ UNCHANGED row
                  ELSE Advance(drawn)
           /\ UNCHANGED on

NextRow == on /\ Advance(grid) /\ UNCHANGED on

RubOut == /\ on
          /\ \/ col > 0 /\ col' = col - 1 /\ UNCHANGED row
             \/ col = 0 /\ row > 0 /\ row' = row - 1 /\ col' = Width - 1
          /\ grid' = [grid EXCEPT ![row'][col'] = Blank]
          /\ UNCHANGED on

Next == \/ Clear
        \/ \E ch \in Char : Put(ch)
        \/ NextRow
        \/ RubOut

Spec == Init /\ [][Next]_vars
=============================================================================
