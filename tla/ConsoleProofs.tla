--------------------------- MODULE ConsoleProofs ---------------------------
(***************************************************************************)
(* For every screen size and every text written: the position never leaves *)
(* the screen, the hardware cursor follows it, and the linear video array  *)
(* implements a grid of rows.  While only the keyboard user writes, the    *)
(* line being typed is on the screen, and erasing takes its end off.       *)
(***************************************************************************)
EXTENDS ChatScreen, SequenceTheorems, TLAPS

Symbol == Char \cup {Blank}
Row == 0 .. Height - 1
Column == 0 .. Width - 1

\* The cell of a place, and the rows a screen shows.
Place(r, c) == r * Width + c
GridOf(screen) == [r \in Row |-> [c \in Column |-> screen[Place(r, c)]]]

-----------------------------------------------------------------------------
(* Facts about rows of equal length.                                        *)

LEMMA Distribute ==
  ASSUME NEW w \in Nat, NEW r \in Nat
  PROVE  (r + 1) * w = r * w + w /\ r * w \in Nat
  OBVIOUS

LEMMA Monotone ==
  ASSUME NEW w \in Nat, NEW r \in Nat, NEW s \in Nat, r <= s
  PROVE  r * w <= s * w
<1>1. PICK k \in Nat : s = r + k
  <2>1. s - r \in Nat /\ s = r + (s - r)
    OBVIOUS
  <2>2. QED
    BY <2>1
<1>2. (r + k) * w = r * w + k * w /\ k * w \in Nat /\ r * w \in Nat
  OBVIOUS
<1>3. QED
  BY <1>1, <1>2

\* A place in an earlier row comes before the next row starts.
LEMMA RowBefore ==
  ASSUME NEW w \in Nat \ {0}, NEW r \in Nat, NEW s \in Nat, r < s,
         NEW c \in 0 .. w - 1
  PROVE  r * w + c < s * w
<1>1. (r + 1) * w <= s * w
  BY Monotone
<1>2. (r + 1) * w = r * w + w /\ r * w \in Nat
  BY Distribute
<1>3. s * w \in Nat
  OBVIOUS
<1>4. QED
  BY <1>1, <1>2, <1>3

LEMMA OnePlace ==
  ASSUME NEW w \in Nat \ {0}, NEW r \in Nat, NEW s \in Nat,
         NEW c \in 0 .. w - 1, NEW d \in 0 .. w - 1,
         r * w + c = s * w + d
  PROVE  r = s /\ c = d
<1>1. r * w \in Nat /\ s * w \in Nat
  OBVIOUS
<1>2. ~(r < s)
  <2>1. SUFFICES ASSUME r < s PROVE FALSE
    OBVIOUS
  <2>2. r * w + c < s * w
    BY <2>1, RowBefore
  <2>3. QED
    BY <1>1, <2>2
<1>3. ~(s < r)
  <2>1. SUFFICES ASSUME s < r PROVE FALSE
    OBVIOUS
  <2>2. s * w + d < r * w
    BY <2>1, RowBefore
  <2>3. QED
    BY <1>1, <2>2
<1>4. r = s
  BY <1>2, <1>3
<1>5. QED
  BY <1>1, <1>4

LEMMA Divide ==
  ASSUME NEW w \in Nat \ {0}, NEW p \in Nat
  PROVE  /\ p \div w \in Nat
         /\ p % w \in 0 .. w - 1
         /\ p = ((p \div w) * w) + (p % w)
  OBVIOUS

LEMMA DivideIs ==
  ASSUME NEW w \in Nat \ {0}, NEW r \in Nat, NEW c \in 0 .. w - 1
  PROVE  (r * w + c) \div w = r /\ (r * w + c) % w = c
<1>1. PICK p \in Nat : p = r * w + c
  OBVIOUS
<1>2. PICK q \in Nat : q = p \div w
  BY Divide
<1>3. PICK d \in 0 .. w - 1 : d = p % w
  BY Divide
<1>4. p = q * w + d
  BY <1>2, <1>3, Divide
<1>5. q = r /\ d = c
  BY <1>1, <1>4, OnePlace
<1>6. QED
  BY <1>1, <1>2, <1>3, <1>5

-----------------------------------------------------------------------------
(* The places of this screen.                                               *)

LEMMA SizeIs ==
  /\ Width \in Nat \ {0} /\ Height \in Nat \ {0}
  /\ Size \in Nat /\ LastRow \in Nat /\ 0 \in Cell /\ LastRow \in Cell
  /\ Size = LastRow + Width
<1>1. Width \in Nat \ {0} /\ Height \in Nat \ {0}
  BY ConsoleAssumption
<1>2. PICK h \in Nat : Height = h + 1 /\ Height - 1 = h
  <2>1. Height - 1 \in Nat /\ Height = (Height - 1) + 1
    BY <1>1
  <2>2. QED
    BY <2>1
<1>3. (h + 1) * Width = h * Width + Width /\ h * Width \in Nat
  BY <1>1, Distribute
<1>4. Size = Width * Height /\ Width * Height = (h + 1) * Width
  BY <1>1, <1>2 DEF Size
<1>5. LastRow = h * Width
  BY <1>2 DEF LastRow
<1>6. QED
  BY <1>1, <1>3, <1>4, <1>5 DEF Cell

LEMMA PlaceIs ==
  ASSUME NEW r \in Row, NEW c \in Column
  PROVE  /\ Place(r, c) \in Cell
         /\ Place(r, c) \div Width = r /\ Place(r, c) % Width = c
         /\ Place(r, c) < LastRow <=> r < Height - 1
         /\ r < Height - 1 => Place(r, c) + Width = Place(r + 1, c)
<1>1. /\ Width \in Nat \ {0} /\ Height \in Nat \ {0} /\ r \in Nat
      /\ Size \in Nat /\ LastRow \in Nat /\ Size = LastRow + Width
  BY SizeIs DEF Row
<1>2. PICK h \in Nat : h = Height - 1
  BY <1>1
<1>3. r <= h /\ LastRow = h * Width
  BY <1>1, <1>2 DEF Row, LastRow
<1>4. r * Width \in Nat /\ r * Width <= h * Width
  BY <1>1, <1>3, Monotone
<1>5. c \in 0 .. Width - 1
  BY DEF Column
<1>6. Place(r, c) \in Cell
  BY <1>1, <1>3, <1>4, <1>5 DEF Place, Cell
<1>7. Place(r, c) \div Width = r /\ Place(r, c) % Width = c
  BY <1>1, <1>5, DivideIs DEF Place
<1>8. r < h => Place(r, c) < LastRow
  BY <1>1, <1>3, <1>5, RowBefore DEF Place
<1>9. r = h => ~(Place(r, c) < LastRow)
  BY <1>1, <1>3, <1>4, <1>5 DEF Place
<1>10. Place(r, c) + Width = Place(r + 1, c)
  <2>1. (r + 1) * Width = r * Width + Width
    BY <1>1, Distribute
  <2>2. QED
    BY <1>1, <1>4, <1>5, <2>1 DEF Place
<1>11. QED
  BY <1>1, <1>2, <1>3, <1>6, <1>7, <1>8, <1>9, <1>10

LEMMA CellIs ==
  ASSUME NEW p \in Cell
  PROVE  /\ p \div Width \in Row /\ p % Width \in Column
         /\ p = Place(p \div Width, p % Width)
<1>1. /\ Width \in Nat \ {0} /\ Height \in Nat \ {0} /\ p \in Nat
      /\ Size \in Nat /\ LastRow \in Nat /\ Size = LastRow + Width /\ p < Size
  BY SizeIs DEF Cell
<1>2. PICK r \in Nat : r = p \div Width
  BY <1>1, Divide
<1>3. PICK c \in Column : c = p % Width
  BY <1>1, Divide DEF Column
<1>4. p = r * Width + c
  BY <1>1, <1>2, <1>3, Divide
<1>5. r < Height
  <2>1. SUFFICES ASSUME Height <= r PROVE FALSE
    BY <1>1, <1>2
  <2>2. Height * Width <= r * Width /\ Height * Width \in Nat
    BY <1>1, <2>1, Monotone
  <2>3. Size = Height * Width
    BY <1>1 DEF Size
  <2>4. r * Width \in Nat /\ c \in Nat
    BY <1>1, <1>2 DEF Column
  <2>5. QED
    BY <1>1, <1>4, <2>2, <2>3, <2>4
<1>6. r \in Row
  BY <1>1, <1>2, <1>5 DEF Row
<1>7. QED
  BY <1>2, <1>3, <1>4, <1>6 DEF Place

-----------------------------------------------------------------------------
(* The position stays on the screen.                                        *)

LEMMA MoveTyped ==
  ASSUME NEW p \in Nat, NEW screen \in [Cell -> Symbol], MoveTo(p, screen)
  PROVE  pos' \in Cell /\ cells' \in [Cell -> Symbol]
<1>1. /\ Width \in Nat \ {0} /\ Size \in Nat /\ LastRow \in Nat
      /\ Size = LastRow + Width /\ LastRow \in Cell
  BY SizeIs
<1>2. CASE p >= Size
  <2>1. Scrolled(screen) \in [Cell -> Symbol]
    <3>1. ASSUME NEW i \in Cell, i < LastRow
          PROVE  i + Width \in Cell
      BY <1>1, <3>1 DEF Cell
    <3>2. QED
      BY <3>1 DEF Scrolled, Symbol
  <2>2. QED
    BY <1>1, <1>2, <2>1 DEF MoveTo
<1>3. CASE ~(p >= Size)
  BY <1>1, <1>3 DEF MoveTo, Cell
<1>4. QED
  BY <1>2, <1>3

\* The VGA controller's two bytes say what they were given.
LEMMA CursorIs ==
  ASSUME NEW p \in Cell
  PROVE  /\ CursorBytes(p) \in Byte \X Byte
         /\ CursorBytes(p)[1] * 256 + CursorBytes(p)[2] = p
<1>1. p \in Nat /\ p < 65536
  <2>1. Size \in Nat /\ Size < 65536
    BY ConsoleAssumption, SizeIs
  <2>2. QED
    BY <2>1 DEF Cell
<1>2. PICK h \in Nat : h = p \div 256
  BY <1>1, Divide
<1>3. PICK l \in Byte : l = p % 256
  BY <1>1, Divide DEF Byte
<1>4. p = h * 256 + l
  BY <1>1, <1>2, <1>3, Divide
<1>5. h \in Byte
  BY <1>1, <1>4 DEF Byte
<1>6. h % 256 = h
  BY <1>5 DEF Byte
<1>7. CursorBytes(p) = <<h, l>>
  BY <1>2, <1>3, <1>6 DEF CursorBytes
<1>8. QED
  BY <1>3, <1>4, <1>5, <1>7

LEMMA TextIs ==
  ASSUME NEW t \in String, t # <<>>
  PROVE  Head(t) \in Char \cup {NewLine} /\ Tail(t) \in String
  BY HeadTailProperties DEF String

IInv == TypeOK /\ CursorShown

LEMMA InvInit == Init => IInv
<1> SUFFICES ASSUME Init
             PROVE  IInv
  OBVIOUS
<1>1. 0 \in Cell /\ <<>> \in String /\ cursor \in Byte \X Byte
  BY SizeIs, CursorIs DEF String, Init
<1>2. QED
  BY <1>1 DEF Init, IInv, TypeOK, CursorShown

LEMMA InvStep == IInv /\ [Next]_vars => IInv'
<1> SUFFICES ASSUME IInv, [Next]_vars
             PROVE  IInv'
  OBVIOUS
<1> USE DEF IInv
<1>1. CASE Clear
  <2>1. /\ 0 \in Cell /\ CursorBytes(0) \in Byte \X Byte
        /\ CursorBytes(0)[1] * 256 + CursorBytes(0)[2] = 0
    BY SizeIs, CursorIs
  <2>2. cursor' = CursorBytes(0) /\ pos' = 0
    BY <1>1 DEF Clear
  <2>3. TypeOK'
    BY <1>1, <2>1, <2>2 DEF Clear, TypeOK
  <2>4. CursorShown'
    BY <2>1, <2>2 DEF CursorShown
  <2>5. QED
    BY <2>3, <2>4
<1>2. ASSUME NEW s \in Strings, Write(s)
      PROVE  IInv'
  BY <1>2, ConsoleAssumption DEF Write, TypeOK, CursorShown, String
<1>3. CASE WriteChar
  <2>1. /\ pos \in Cell /\ pos \in Nat /\ cells \in [Cell -> Symbol]
        /\ Width \in Nat \ {0} /\ pos % Width \in Column
        /\ Head(text) \in Char \cup {NewLine} /\ Tail(text) \in String
        /\ at' = "write" /\ cursor' = cursor /\ text' = Tail(text)
    <3>1. pos \in Cell /\ cells \in [Cell -> Symbol] /\ text \in String
      BY DEF TypeOK, Symbol
    <3>2. /\ text # <<>> /\ at' = "write" /\ cursor' = cursor
          /\ text' = Tail(text)
      BY <1>3 DEF WriteChar
    <3>3. Width \in Nat \ {0} /\ pos \in Nat
      BY <3>1, SizeIs DEF Cell
    <3>4. pos % Width \in Column
      BY <3>1, CellIs
    <3>5. QED
      BY <3>1, <3>2, <3>3, <3>4, TextIs
  <2>2. CASE Head(text) = NewLine
    <3>1. pos + (Width - (pos % Width)) \in Nat
      BY <2>1 DEF Column
    <3>2. pos' \in Cell /\ cells' \in [Cell -> Symbol]
      BY <1>3, <2>1, <2>2, <3>1, MoveTyped DEF WriteChar
    <3>3. QED
      BY <2>1, <3>2 DEF TypeOK, CursorShown, Symbol
  <2>3. CASE Head(text) # NewLine
    <3>1. [cells EXCEPT ![pos] = Head(text)] \in [Cell -> Symbol] /\ pos + 1 \in Nat
      BY <2>1, <2>3 DEF Symbol
    <3>2. pos' \in Cell /\ cells' \in [Cell -> Symbol]
      BY <1>3, <2>3, <3>1, MoveTyped DEF WriteChar
    <3>3. QED
      BY <2>1, <3>2 DEF TypeOK, CursorShown, Symbol
  <2>4. QED
    BY <2>2, <2>3
<1>4. CASE WriteEnd
  <2>1. PICK p \in Cell : p = pos
    BY DEF TypeOK
  <2>2. /\ CursorBytes(p) \in Byte \X Byte
        /\ CursorBytes(p)[1] * 256 + CursorBytes(p)[2] = p
    BY CursorIs
  <2>3. cursor' = CursorBytes(p) /\ pos' = p
    BY <1>4, <2>1 DEF WriteEnd
  <2>4. TypeOK'
    BY <1>4, <2>2, <2>3 DEF WriteEnd, TypeOK
  <2>5. CursorShown'
    BY <2>2, <2>3 DEF CursorShown
  <2>6. QED
    BY <2>4, <2>5
<1>5. CASE Backspace
  <2>1. PICK p \in Cell : p = pos - 1
    BY <1>5, SizeIs DEF Backspace, TypeOK, Cell
  <2>2. /\ CursorBytes(p) \in Byte \X Byte
        /\ CursorBytes(p)[1] * 256 + CursorBytes(p)[2] = p
    BY CursorIs
  <2>3. cursor' = CursorBytes(p) /\ pos' = p
    BY <1>5, <2>1 DEF Backspace
  <2>4. TypeOK'
    BY <1>5, <2>2, <2>3 DEF Backspace, TypeOK
  <2>5. CursorShown'
    BY <2>2, <2>3 DEF CursorShown
  <2>6. QED
    BY <2>4, <2>5
<1>6. CASE UNCHANGED vars
  BY <1>6 DEF vars, TypeOK, CursorShown
<1>7. QED
  BY <1>1, <1>2, <1>3, <1>4, <1>5, <1>6 DEF Next

LEMMA InvAlways == Spec => []IInv
<1>1. Init => IInv
  BY InvInit
<1>2. IInv /\ [Next]_vars => IInv'
  BY InvStep
<1>3. QED
  BY <1>1, <1>2, PTL DEF Spec

(* No store through the position is ever outside the video memory.          *)
THEOREM TypeCorrect == Spec => []TypeOK
<1>1. IInv => TypeOK
  BY DEF IInv
<1>2. QED
  BY <1>1, InvAlways, PTL

(* Between calls the hardware cursor shows where the next character goes.   *)
THEOREM CursorFollows == Spec => []CursorShown
<1>1. IInv => CursorShown
  BY DEF IInv
<1>2. QED
  BY <1>1, InvAlways, PTL

-----------------------------------------------------------------------------
(* The array implements the grid.                                           *)

\* Writing one cell writes one place of the grid.
Drawn(screen, p, ch) == [screen EXCEPT ![p] = ch]
Painted(g, r, c, ch) == [g EXCEPT ![r][c] = ch]

LEMMA DrawIs ==
  ASSUME NEW screen \in [Cell -> Symbol], NEW r \in Row, NEW c \in Column, NEW ch
  PROVE  GridOf(Drawn(screen, Place(r, c), ch)) = Painted(GridOf(screen), r, c, ch)
<1> DEFINE new == Drawn(screen, Place(r, c), ch)
<1>1. ASSUME NEW i \in Row, NEW j \in Column
      PROVE  new[Place(i, j)] = IF i = r /\ j = c THEN ch ELSE screen[Place(i, j)]
  <2>1. Place(i, j) \in Cell /\ Place(r, c) \in Cell
    BY PlaceIs
  <2>2. Place(i, j) = Place(r, c) => i = r /\ j = c
    BY PlaceIs
  <2>3. QED
    BY <2>1, <2>2 DEF Drawn
<1>2. GridOf(new) = [i \in Row |-> [j \in Column |->
                       IF i = r /\ j = c THEN ch ELSE screen[Place(i, j)]]]
  BY <1>1 DEF GridOf
<1>3. Painted(GridOf(screen), r, c, ch)
        = [i \in Row |-> [j \in Column |->
             IF i = r /\ j = c THEN ch ELSE screen[Place(i, j)]]]
  BY DEF GridOf, Painted
<1>4. QED
  BY <1>2, <1>3

\* Scrolling the array moves every row up.
LEMMA ScrollIs ==
  ASSUME NEW screen \in [Cell -> Symbol]
  PROVE  GridOf(Scrolled(screen))
           = [r \in Row |-> IF r < Height - 1 THEN GridOf(screen)[r + 1]
                            ELSE [c \in Column |-> Blank]]
<1>1. ASSUME NEW r \in Row, NEW c \in Column
      PROVE  Scrolled(screen)[Place(r, c)]
               = IF r < Height - 1 THEN screen[Place(r + 1, c)] ELSE Blank
  BY PlaceIs DEF Scrolled
<1>2. ASSUME NEW r \in Row, r < Height - 1
      PROVE  r + 1 \in Row
  BY <1>2, SizeIs DEF Row
<1>3. QED
  BY <1>1, <1>2 DEF GridOf

LEMMA GridIs ==
  /\ [r \in 0 .. Height - 1 |->
        [c \in 0 .. Width - 1 |-> cells[r * Width + c]]] = GridOf(cells)
  /\ ([r \in 0 .. Height - 1 |->
        [c \in 0 .. Width - 1 |-> cells[r * Width + c]]])' = GridOf(cells')
  BY DEF GridOf, Row, Column, Place

\* The move below a full row, or to a new one.
LEMMA MoveDown ==
  ASSUME NEW r \in Row, pos \div Width = r, NEW screen \in [Cell -> Symbol],
         NEW g, g = GridOf(screen),
         NEW p \in Nat, p = Place(r + 1, 0), MoveTo(p, screen)
  PROVE  Grid!Advance(g)
<1>0. /\ Width \in Nat \ {0} /\ Height \in Nat \ {0} /\ Size \in Nat
      /\ 0 \in Column /\ r \in Nat /\ r <= Height - 1 /\ Height - 1 \in Row
  BY SizeIs DEF Row, Column
<1>1. CASE r < Height - 1
  <2>1. r + 1 \in Row
    BY <1>0, <1>1 DEF Row
  <2>2. /\ Place(r + 1, 0) \in Cell /\ Place(r + 1, 0) \div Width = r + 1
        /\ Place(r + 1, 0) % Width = 0
    BY <1>0, <2>1, PlaceIs
  <2>3. pos' = Place(r + 1, 0) /\ cells' = screen
    BY <1>0, <2>2 DEF MoveTo, Cell
  <2>4. pos' \div Width = r + 1 /\ pos' % Width = 0
    BY <2>2, <2>3
  <2>5. QED
    BY <1>1, <2>3, <2>4, GridIs DEF Grid!Advance
<1>2. CASE ~(r < Height - 1)
  <2>1. r = Height - 1
    BY <1>0, <1>2
  <2>2. Place(r + 1, 0) = Size
    <3>1. (r + 1) * Width + 0 = Width * Height
      BY <1>0, <2>1
    <3>2. QED
      BY <3>1 DEF Place, Size
  <2>3. LastRow = Place(r, 0)
    BY <1>0, <2>1, SizeIs DEF LastRow, Place
  <2>4. pos' = Place(r, 0) /\ cells' = Scrolled(screen)
    BY <1>0, <2>2, <2>3 DEF MoveTo
  <2>5. pos' \div Width = r /\ pos' % Width = 0
    BY <1>0, <2>4, PlaceIs
  <2>6. GridOf(cells') = [i \in Row |-> IF i < Height - 1 THEN GridOf(screen)[i + 1]
                                        ELSE [c \in Column |-> Blank]]
    BY <2>4, ScrollIs
  <2>7. QED
    BY <1>2, <2>5, <2>6, GridIs DEF Grid!Advance, Grid!BlankRow, Row, Column
<1>3. QED
  BY <1>1, <1>2

LEMMA Simulation ==
  ASSUME IInv, [Next]_vars
  PROVE  [Grid!Next]_(Grid!vars)
<1> USE DEF IInv
<1> DEFINE Goal == Grid!Next \/ UNCHANGED Grid!vars
<1> SUFFICES Goal
  OBVIOUS
<1>r. PICK r \in Row : r = pos \div Width
  BY CellIs DEF TypeOK
<1>c. PICK c \in Column : c = pos % Width
  BY CellIs DEF TypeOK
<1>0. /\ Width \in Nat \ {0} /\ Height \in Nat \ {0} /\ Size \in Nat
      /\ cells \in [Cell -> Symbol] /\ pos \in Cell
      /\ pos = Place(r, c) /\ r \in Nat /\ c \in Nat /\ c <= Width - 1
      /\ 0 \in Column /\ Width - 1 \in Column
  BY <1>r, <1>c, CellIs, SizeIs DEF TypeOK, Symbol, Row, Column
<1>1. CASE Clear
  <2>1. 0 \div Width = 0 /\ 0 % Width = 0
    BY <1>0
  <2>2. GridOf(cells') = [i \in Row |-> [j \in Column |-> Blank]]
    BY <1>1, PlaceIs DEF Clear, GridOf
  <2>3. pos' = 0 /\ (at # "boot")' = TRUE
    BY <1>1 DEF Clear
  <2>4. Grid!Clear
    BY <2>1, <2>2, <2>3, GridIs DEF Grid!Clear, Grid!BlankRow, Row, Column
  <2>5. QED
    BY <2>4 DEF Grid!Next
<1>2. ASSUME NEW s \in Strings, Write(s)
      PROVE  Goal
  BY <1>2 DEF Write, Grid!vars
<1>3. CASE WriteChar
  <2>0. /\ at = "write" /\ at' = "write" /\ text # <<>>
        /\ Head(text) \in Char \cup {NewLine}
    BY <1>3, TextIs DEF WriteChar, TypeOK
  <2>1. (r + 1) * Width = r * Width + Width /\ r * Width \in Nat
    BY <1>0, Distribute
  <2>2. CASE Head(text) = NewLine
    <3>1. PICK p \in Nat : p = pos + (Width - (pos % Width)) /\ p = Place(r + 1, 0)
      BY <1>0, <1>c, <2>1 DEF Place
    <3>2. PICK screen \in [Cell -> Symbol] : screen = cells
      BY <1>0
    <3>3. PICK g : g = GridOf(cells)
      OBVIOUS
    <3>4. MoveTo(p, screen)
      BY <1>3, <2>2, <3>1, <3>2 DEF WriteChar, MoveTo
    <3>5. Grid!Advance(g)
      BY <1>r, <3>1, <3>2, <3>3, <3>4, MoveDown
    <3>6. Grid!NextRow
      BY <2>0, <3>3, <3>5, GridIs DEF Grid!NextRow, Grid!Advance
    <3>7. QED
      BY <3>6 DEF Grid!Next
  <2>3. CASE Head(text) # NewLine
    <3>1. PICK ch \in Char : ch = Head(text)
      BY <2>0, <2>3
    <3>2. PICK drawn \in [Cell -> Symbol] : drawn = [cells EXCEPT ![pos] = ch]
      BY <1>0 DEF Symbol
    <3>3. PICK g : g = Painted(GridOf(cells), r, c, ch)
      OBVIOUS
    <3>4. g = GridOf(drawn)
      <4>1. drawn = Drawn(cells, Place(r, c), ch)
        BY <1>0, <3>2 DEF Drawn
      <4>2. QED
        BY <1>0, <1>r, <1>c, <3>3, <4>1, DrawIs
    <3>5. g = [[i \in 0 .. Height - 1 |->
                  [j \in 0 .. Width - 1 |-> cells[i * Width + j]]]
                 EXCEPT ![pos \div Width][pos % Width] = ch]
      BY <1>r, <1>c, <3>3, GridIs DEF Painted
    <3>6. PICK p \in Nat : p = pos + 1
      BY <1>0 DEF Cell
    <3>7. MoveTo(p, drawn)
      BY <1>3, <2>3, <3>1, <3>2, <3>6 DEF WriteChar, MoveTo
    <3>8. CASE c < Width - 1
      <4>1. c + 1 \in Column /\ p = Place(r, c + 1)
        BY <1>0, <2>1, <3>6, <3>8 DEF Place, Column
      <4>2. /\ Place(r, c + 1) \in Cell
            /\ Place(r, c + 1) \div Width = r /\ Place(r, c + 1) % Width = c + 1
        BY <4>1, PlaceIs
      <4>3. pos' = p /\ cells' = drawn
        BY <1>0, <3>7, <4>1, <4>2 DEF MoveTo, Cell
      <4>4. pos' \div Width = r /\ pos' % Width = c + 1 /\ GridOf(cells') = g
        BY <3>4, <4>1, <4>2, <4>3
      <4>5. Grid!Put(ch)
        BY <1>r, <1>c, <2>0, <3>5, <3>8, <4>4, GridIs DEF Grid!Put
      <4>6. QED
        BY <4>5 DEF Grid!Next
    <3>9. CASE ~(c < Width - 1)
      <4>1. p = Place(r + 1, 0)
        BY <1>0, <2>1, <3>6, <3>9 DEF Place
      <4>2. Grid!Advance(g)
        BY <1>r, <3>4, <3>7, <4>1, MoveDown
      <4>3. Grid!Put(ch)
        BY <1>r, <1>c, <2>0, <3>5, <3>9, <4>2 DEF Grid!Put, Grid!Advance
      <4>4. QED
        BY <4>3 DEF Grid!Next
    <3>10. QED
      BY <3>8, <3>9
  <2>4. QED
    BY <2>2, <2>3
<1>4. CASE WriteEnd
  BY <1>4 DEF WriteEnd, Grid!vars
<1>5. CASE Backspace
  <2>0. /\ at = "idle" /\ at' = "idle" /\ pos # 0 /\ pos' = pos - 1
        /\ cells' = [cells EXCEPT ![pos'] = Blank]
    BY <1>5 DEF Backspace
  <2>1. CASE c > 0
    <3>1. c - 1 \in Column /\ pos' = Place(r, c - 1)
      BY <1>0, <2>0, <2>1, Distribute DEF Place, Column
    <3>2. pos' \div Width = r /\ pos' % Width = c - 1
      BY <3>1, PlaceIs
    <3>3. GridOf(cells') = Painted(GridOf(cells), r, c - 1, Blank)
      <4>1. cells' = Drawn(cells, Place(r, c - 1), Blank)
        BY <2>0, <3>1 DEF Drawn
      <4>2. QED
        BY <1>0, <1>r, <3>1, <4>1, DrawIs
    <3>4. Grid!RubOut
      BY <1>r, <1>c, <2>0, <2>1, <3>2, <3>3, GridIs DEF Grid!RubOut, Painted
    <3>5. QED
      BY <3>4 DEF Grid!Next
  <2>2. CASE c = 0
    <3>1. r # 0
      BY <1>0, <2>0, <2>2 DEF Place
    <3>2. PICK q \in Nat : r = q + 1 /\ q = r - 1
      BY <1>0, <3>1
    <3>3. q \in Row
      BY <1>0, <3>2 DEF Row
    <3>4. pos' = Place(q, Width - 1)
      <4>1. (q + 1) * Width = q * Width + Width /\ q * Width \in Nat
        BY <1>0, Distribute
      <4>2. QED
        BY <1>0, <2>0, <2>2, <3>2, <4>1 DEF Place
    <3>5. pos' \div Width = q /\ pos' % Width = Width - 1
      BY <1>0, <3>3, <3>4, PlaceIs
    <3>6. GridOf(cells') = Painted(GridOf(cells), q, Width - 1, Blank)
      <4>1. cells' = Drawn(cells, Place(q, Width - 1), Blank)
        BY <2>0, <3>4 DEF Drawn
      <4>2. QED
        BY <1>0, <3>3, <4>1, DrawIs
    <3>7. r > 0 /\ q = r - 1
      BY <1>0, <3>1, <3>2
    <3>8. Grid!RubOut
      BY <1>r, <1>c, <2>0, <2>2, <3>5, <3>6, <3>7, GridIs DEF Grid!RubOut, Painted
    <3>9. QED
      BY <3>8 DEF Grid!Next
  <2>3. QED
    BY <1>0, <2>1, <2>2
<1>6. CASE UNCHANGED vars
  BY <1>6 DEF vars, Grid!vars
<1>7. QED
  BY <1>1, <1>2, <1>3, <1>4, <1>5, <1>6 DEF Next

(* Whatever is written, at every screen size, the array shows the rows of   *)
(* a terminal, and the position is the terminal's cursor.                   *)
THEOREM Refinement == Spec => ImplementsGrid
<1>1. Init => Grid!Init
  <2>1. 0 \div Width = 0 /\ 0 % Width = 0
    BY SizeIs
  <2>2. QED
    BY <2>1 DEF Init, Grid!Init
<1>2. IInv /\ [Next]_vars => [Grid!Next]_(Grid!vars)
  BY Simulation
<1>3. QED
  BY <1>1, <1>2, InvAlways, PTL DEF Spec, ImplementsGrid, Grid!Spec

-----------------------------------------------------------------------------
(* The chat's calls.                                                        *)

\* The first n characters of the line end at the cursor.
ShownTo(n) == /\ pos >= n
              /\ \A i \in 1..n : cells[pos - n + i - 1] = kbd_line[i]

\* While a character is being echoed the line is one ahead of the screen.
LineInv ==
  /\ kbd_line \in Seq(Char) /\ Len(kbd_line) <= LineMax
  /\ at = "boot" => kbd_line = <<>>
  /\ at = "idle" => ShownTo(Len(kbd_line))
  /\ at = "write" =>
       \/ kbd_line = <<>>
       \/ text = <<>> /\ ShownTo(Len(kbd_line))
       \/ /\ kbd_line # <<>>
          /\ text = <<kbd_line[Len(kbd_line)]>>
          /\ ShownTo(Len(kbd_line) - 1)

SInv == IInv /\ LineInv

(* What the chat writes is text.                                            *)
LEMMA WriteIs ==
  ASSUME IInv, NEW s \in String, Write(s)
  PROVE  IInv' /\ at' = "write" /\ pos' = pos /\ cells' = cells /\ text' = s
  BY DEF IInv, Write, TypeOK, CursorShown

LEMMA LineLength ==
  ASSUME LineInv
  PROVE  /\ Len(kbd_line) \in Nat /\ LineMax \in Nat /\ LineMax <= LastRow
         /\ LastRow \in Nat
         /\ kbd_line # <<>> => Len(kbd_line) \in Nat \ {0}
  BY ScreenAssumption, SizeIs, EmptySeq DEF LineInv

(* The character after the line, too, is on the screen once it is written,  *)
(* even if that scrolls the screen.                                         *)
LEMMA EchoWritten ==
  ASSUME IInv, LineInv, WriteChar, kbd_line' = kbd_line, kbd_line # <<>>,
         text = <<kbd_line[Len(kbd_line)]>>, ShownTo(Len(kbd_line) - 1)
  PROVE  text' = <<>> /\ ShownTo(Len(kbd_line))'
<1> DEFINE n == Len(kbd_line)
           ch == kbd_line[n]
           screen == [cells EXCEPT ![pos] = ch]
<1>1. n \in Nat \ {0} /\ n <= LastRow /\ kbd_line \in Seq(Char)
  BY LineLength DEF LineInv
<1>2. ch \in Char /\ ch # NewLine
  <2>1. n \in 1..n
    BY <1>1
  <2>2. QED
    BY <1>1, <2>1, ElementOfSeq, ConsoleAssumption
<1>3. text' = <<>> /\ MoveTo(pos + 1, screen)
  BY <1>2 DEF WriteChar
<1>4. /\ pos \in Nat /\ pos < Size /\ pos \in Cell
      /\ Width \in Nat \ {0} /\ Size \in Nat /\ LastRow \in Nat
      /\ Size = LastRow + Width
      /\ cells \in [Cell -> Symbol]
  BY SizeIs DEF IInv, TypeOK, Cell, Symbol
<1>5. /\ pos >= n - 1
      /\ \A i \in 1 .. n - 1 : cells[pos - (n - 1) + i - 1] = kbd_line[i]
  BY DEF ShownTo
<1> HIDE DEF n, ch, screen
<1>6. ASSUME NEW i \in 1..n
      PROVE  screen[pos + 1 - n + i - 1] = kbd_line[i]
  <2>1. CASE i = n
    <3>1. pos + 1 - n + i - 1 = pos
      BY <1>1, <1>4, <2>1
    <3>2. screen[pos] = ch
      BY <1>4 DEF screen
    <3>3. QED
      BY <2>1, <3>1, <3>2 DEF ch
  <2>2. CASE i # n
    <3>1. /\ i \in 1 .. n - 1
          /\ pos + 1 - n + i - 1 = pos - (n - 1) + i - 1
          /\ pos + 1 - n + i - 1 \in 0 .. pos - 1
      BY <1>1, <1>4, <1>5, <2>2
    <3>2. pos + 1 - n + i - 1 \in Cell /\ pos + 1 - n + i - 1 # pos
      BY <1>4, <3>1 DEF Cell
    <3>3. screen[pos + 1 - n + i - 1] = cells[pos + 1 - n + i - 1]
      BY <1>4, <3>2 DEF screen
    <3>4. QED
      BY <1>5, <3>1, <3>3
  <2>3. QED
    BY <2>1, <2>2
<1>7. CASE pos + 1 >= Size
  <2>1. pos + 1 = Size /\ pos' = LastRow /\ cells' = Scrolled(screen)
    BY <1>3, <1>4, <1>7 DEF MoveTo
  <2>2. ASSUME NEW i \in 1..n
        PROVE  cells'[LastRow - n + i - 1] = kbd_line[i]
    <3>1. /\ LastRow - n + i - 1 \in 0 .. LastRow - 1
          /\ LastRow - n + i - 1 + Width = pos + 1 - n + i - 1
      BY <1>1, <1>4, <2>1
    <3>2. LastRow - n + i - 1 \in Cell /\ LastRow - n + i - 1 < LastRow
      BY <1>4, <3>1 DEF Cell
    <3>3. cells'[LastRow - n + i - 1] = screen[pos + 1 - n + i - 1]
      BY <2>1, <3>1, <3>2 DEF Scrolled
    <3>4. QED
      BY <1>6, <3>3
  <2>3. QED
    BY <1>1, <1>3, <1>4, <2>1, <2>2 DEF ShownTo, n
<1>8. CASE ~(pos + 1 >= Size)
  <2>1. pos' = pos + 1 /\ cells' = screen
    BY <1>3, <1>8 DEF MoveTo
  <2>2. pos + 1 >= n
    BY <1>1, <1>4, <1>5
  <2>3. \A i \in 1..n : cells'[pos' - n + i - 1] = kbd_line'[i]
    <3>1. TAKE i \in 1..n
    <3>2. pos' - n + i - 1 = pos + 1 - n + i - 1
      BY <1>1, <1>4, <2>1
    <3>3. QED
      BY <1>6, <2>1, <3>2
  <2>4. n = Len(kbd_line') /\ pos' >= n
    BY <2>1, <2>2 DEF n
  <2>5. QED
    BY <1>3, <2>3, <2>4 DEF ShownTo
<1>9. QED
  BY <1>7, <1>8

LEMMA ScreenStep ==
  ASSUME Strings = {}, SInv, [SNext]_svars
  PROVE  SInv'
<1> USE DEF SInv
<1>0. /\ Len(kbd_line) \in Nat /\ LineMax \in Nat /\ kbd_line \in Seq(Char)
      /\ kbd_line # <<>> => Len(kbd_line) \in Nat \ {0}
      /\ pos \in Nat
  BY LineLength DEF LineInv, IInv, TypeOK, Cell
<1>nil. <<>> \in Seq(Char) /\ Len(<<>>) = 0
  BY EmptySeq
<1>1. CASE Boot
  <2>1. /\ at' = "write" /\ pos' = 0 /\ text' = Banner
        /\ cursor' = CursorBytes(0)
        /\ cells' = [i \in Cell |-> Blank] /\ kbd_line' = <<>>
    BY <1>1 DEF Boot, LineInv
  <2>2. 0 \in Cell /\ CursorBytes(0) \in Byte \X Byte /\ Banner \in String
    BY SizeIs, CursorIs, ScreenAssumption
  <2>3. IInv'
    BY <2>1, <2>2 DEF IInv, TypeOK, CursorShown
  <2>4. QED
    BY <1>0, <1>nil, <2>1, <2>3 DEF LineInv
<1>2. ASSUME NEW ch \in Char, EchoKey(ch)
      PROVE  SInv'
  <2>1. /\ Write(<<ch>>) /\ kbd_line' = Append(kbd_line, ch)
        /\ Len(kbd_line) < LineMax /\ at = "idle"
    BY <1>2 DEF EchoKey, Write
  <2>2. <<ch>> \in String
    BY DEF String
  <2>3. /\ IInv' /\ at' = "write" /\ pos' = pos /\ cells' = cells
        /\ text' = <<ch>>
    BY <2>1, <2>2, WriteIs
  <2>4. /\ kbd_line' \in Seq(Char) /\ kbd_line' # <<>>
        /\ Len(kbd_line') = Len(kbd_line) + 1
        /\ \A i \in 1 .. Len(kbd_line) : kbd_line'[i] = kbd_line[i]
        /\ kbd_line'[Len(kbd_line) + 1] = ch
    BY <1>0, <2>1, AppendProperties
  <2> DEFINE n == Len(kbd_line)
  <2>5. pos >= n /\ \A i \in 1..n : cells[pos - n + i - 1] = kbd_line[i]
    BY <2>1 DEF LineInv, ShownTo
  <2>6. n \in Nat /\ n + 1 <= LineMax /\ Len(kbd_line') - 1 = n
    BY <1>0, <2>1, <2>4
  <2> HIDE DEF n
  <2>7. pos' >= n /\ \A i \in 1..n : cells'[pos' - n + i - 1] = kbd_line'[i]
    BY <2>3, <2>4, <2>5 DEF n
  <2>8. ShownTo(Len(kbd_line) - 1)'
    BY <2>6, <2>7 DEF ShownTo
  <2>9. Len(kbd_line') <= LineMax /\ text' = <<kbd_line'[Len(kbd_line')]>>
    BY <2>3, <2>4, <2>6 DEF n
  <2>10. QED
    BY <2>3, <2>4, <2>8, <2>9 DEF LineInv
<1>3. CASE EraseKey
  <2>1. /\ kbd_line # <<>> /\ Backspace /\ at = "idle" /\ at' = "idle"
        /\ kbd_line' = SubSeq(kbd_line, 1, Len(kbd_line) - 1)
        /\ pos # 0 /\ pos' = pos - 1
        /\ cells' = [cells EXCEPT ![pos - 1] = Blank]
    BY <1>3 DEF EraseKey, Backspace
  <2>2. IInv'
    BY <2>1, InvStep DEF Next
  <2> DEFINE n == Len(kbd_line)
             m == n - 1
             rest == SubSeq(kbd_line, 1, m)
  <2>3. n \in Nat \ {0} /\ m \in Nat /\ m < n
    BY <1>0, <2>1
  <2>4. \A i \in 1..m : kbd_line[i] \in Char /\ i \in 1..n
    BY <1>0, <2>3, ElementOfSeq
  <2>5. pos >= n /\ \A i \in 1..n : cells[pos - n + i - 1] = kbd_line[i]
    BY <2>1 DEF LineInv, ShownTo
  <2>6. kbd_line' = rest /\ n <= LineMax
    BY <2>1 DEF LineInv
  <2> HIDE DEF n, m
  <2>7. /\ rest \in Seq(Char)
        /\ Len(rest) = IF 1 <= m THEN m - 1 + 1 ELSE 0
        /\ \A i \in 1 .. m - 1 + 1 : rest[i] = kbd_line[1 + i - 1]
    BY <2>3, <2>4, SubSeqProperties
  <2> HIDE DEF rest
  <2>8. Len(rest) = m /\ \A i \in 1..m : rest[i] = kbd_line[i]
    BY <2>3, <2>7
  <2>9. m = n - 1
    BY DEF m
  <2>10. ASSUME NEW i \in 1..m
         PROVE  cells'[pos - 1 - m + i - 1] = rest[i]
    <3>1. /\ pos - 1 - m + i - 1 = pos - n + i - 1
          /\ pos - n + i - 1 \in 0 .. pos - 2
      BY <1>0, <2>3, <2>5, <2>9
    <3>2. cells \in [Cell -> Symbol] /\ pos \in Cell /\ Size \in Nat
      BY SizeIs DEF IInv, TypeOK, Symbol
    <3>3. pos - n + i - 1 \in Cell /\ pos - n + i - 1 # pos - 1
      BY <1>0, <3>1, <3>2 DEF Cell
    <3>4. cells'[pos - n + i - 1] = cells[pos - n + i - 1]
      BY <2>1, <3>2, <3>3
    <3>5. QED
      BY <2>4, <2>5, <2>8, <3>1, <3>4
  <2>11. pos' >= m /\ \A i \in 1..m : cells'[pos' - m + i - 1] = kbd_line'[i]
    <3>1. pos' >= m
      BY <1>0, <2>1, <2>3, <2>5, <2>9
    <3>2. ASSUME NEW i \in 1..m
          PROVE  cells'[pos' - m + i - 1] = kbd_line'[i]
      <4>1. cells'[pos' - m + i - 1] = cells'[pos - 1 - m + i - 1]
        BY <2>1
      <4>2. QED
        BY <2>6, <2>10, <4>1
    <3>3. QED
      BY <3>1, <3>2
  <2>12. Len(kbd_line') = m /\ m <= LineMax
    BY <1>0, <2>3, <2>6, <2>8
  <2>13. ShownTo(Len(kbd_line))'
    BY <2>11, <2>12 DEF ShownTo
  <2>14. QED
    BY <2>1, <2>2, <2>6, <2>7, <2>12, <2>13 DEF LineInv
<1>4. CASE SubmitKeys
  <2>1. /\ Write(VgaTag \o kbd_line \o <<NewLine>>) /\ kbd_line' = <<>>
    BY <1>4 DEF SubmitKeys
  <2>2. VgaTag \o kbd_line \o <<NewLine>> \in String
    <3>1. VgaTag \in String /\ kbd_line \in String /\ <<NewLine>> \in String
      BY <1>0, ScreenAssumption DEF String
    <3>2. QED
      BY <3>1, ConcatProperties DEF String
  <2>3. IInv' /\ at' = "write"
    BY <2>1, <2>2, WriteIs
  <2>4. QED
    BY <1>0, <1>nil, <2>1, <2>3 DEF LineInv
<1>5. ASSUME NEW s \in Notices, Notice(s)
      PROVE  SInv'
  <2>1. Write(s) /\ kbd_line' = <<>> /\ s \in String
    BY <1>5, ScreenAssumption DEF Notice
  <2>2. IInv' /\ at' = "write"
    BY <2>1, WriteIs
  <2>3. QED
    BY <1>0, <1>nil, <2>1, <2>2 DEF LineInv
<1>6. CASE WriteChar /\ kbd_line' = kbd_line
  <2>1. IInv' /\ at = "write" /\ at' = "write" /\ text # <<>>
    BY <1>6, InvStep DEF Next, WriteChar
  <2>2. CASE kbd_line = <<>>
    BY <1>0, <1>6, <2>1, <2>2 DEF LineInv
  <2>3. CASE kbd_line # <<>>
    <3>1. /\ text = <<kbd_line[Len(kbd_line)]>>
          /\ ShownTo(Len(kbd_line) - 1)
      BY <2>1, <2>3 DEF LineInv
    <3>2. text' = <<>> /\ ShownTo(Len(kbd_line))'
      BY <1>6, <2>3, <3>1, EchoWritten
    <3>3. QED
      BY <1>6, <2>1, <3>2 DEF LineInv
  <2>4. QED
    BY <2>2, <2>3
<1>7. CASE WriteEnd /\ kbd_line' = kbd_line
  <2>1. /\ IInv' /\ at = "write" /\ at' = "idle" /\ text = <<>>
        /\ pos' = pos /\ cells' = cells
    BY <1>7, InvStep DEF Next, WriteEnd
  <2>2. ShownTo(Len(kbd_line))
    <3>1. CASE kbd_line = <<>>
      BY <1>0, <1>nil, <3>1 DEF ShownTo
    <3>2. CASE kbd_line # <<>>
      BY <2>1, <3>2 DEF LineInv
    <3>3. QED
      BY <3>1, <3>2
  <2>3. ShownTo(Len(kbd_line))'
    BY <1>7, <2>1, <2>2 DEF ShownTo
  <2>4. QED
    BY <1>7, <2>1, <2>3 DEF LineInv
<1>8. CASE UNCHANGED svars
  <2>1. UNCHANGED vars /\ kbd_line' = kbd_line
    BY <1>8 DEF svars
  <2>2. IInv'
    BY <2>1, InvStep
  <2>3. LineInv'
    BY <2>1 DEF vars, LineInv, ShownTo
  <2>4. QED
    BY <2>2, <2>3
<1>9. QED
  BY <1>1, <1>2, <1>3, <1>4, <1>5, <1>6, <1>7, <1>8 DEF SNext, Writing

LEMMA ScreenAlways == ASSUME Strings = {} PROVE SSpec => []SInv
<1>1. SInit => SInv
  <2>1. SUFFICES ASSUME SInit PROVE SInv
    OBVIOUS
  <2>2. IInv
    BY <2>1, InvInit DEF SInit
  <2>3. <<>> \in Seq(Char) /\ Len(<<>>) = 0 /\ LineMax \in Nat
    BY EmptySeq, ScreenAssumption, SizeIs
  <2>4. LineInv
    BY <2>1, <2>3 DEF SInit, Init, LineInv
  <2>5. QED
    BY <2>2, <2>4 DEF SInv
<1>2. SInv /\ [SNext]_svars => SInv'
  BY ScreenStep
<1>3. QED
  BY <1>1, <1>2, PTL DEF SSpec

(* At every screen size and line length, and with any banner and notices:   *)
(* while the serial user is silent the line that Enter will send is on the  *)
(* screen, up to the cursor, through wrapping and scrolling.                *)
THEOREM LineOnScreen == ASSUME Strings = {} PROVE SSpec => []LineShown
<1>1. SInv => LineShown
  BY DEF SInv, LineInv, LineShown, ShownTo
<1>2. QED
  BY <1>1, ScreenAlways, PTL

(* And then backspace blanks the very character it takes off the line,      *)
(* which screen_shared shows false as soon as the serial user may write.    *)
THEOREM ErasesItsOwn == ASSUME Strings = {} PROVE SSpec => BackspaceErases
<1> DEFINE Erases == EraseKey => cells[pos'] = kbd_line[Len(kbd_line)]
<1>1. SInv /\ [SNext]_svars => [Erases]_svars
  <2>1. SUFFICES ASSUME SInv, EraseKey
                 PROVE  cells[pos'] = kbd_line[Len(kbd_line)]
    OBVIOUS
  <2>2. kbd_line # <<>> /\ at = "idle" /\ pos' = pos - 1
    BY <2>1 DEF EraseKey, Backspace
  <2>3. Len(kbd_line) \in Nat \ {0} /\ pos \in Nat
    BY <2>1, <2>2, LineLength DEF SInv, IInv, TypeOK, Cell
  <2> DEFINE n == Len(kbd_line)
  <2>4. \A i \in 1..n : cells[pos - n + i - 1] = kbd_line[i]
    BY <2>1, <2>2 DEF SInv, LineInv, ShownTo
  <2> HIDE DEF n
  <2>5. n \in 1..n /\ pos - n + n - 1 = pos - 1
    BY <2>3 DEF n
  <2>6. QED
    BY <2>2, <2>4, <2>5 DEF n
<1>2. QED
  BY <1>1, ScreenAlways, PTL DEF SSpec, BackspaceErases
=============================================================================
