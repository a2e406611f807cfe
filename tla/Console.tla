------------------------------- MODULE Console -------------------------------
(***************************************************************************)
(* framebuffer.c: the VGA text console.  The screen is one array of cells  *)
(* with a linear position; a write takes one step per character, as its    *)
(* loop does, and ends by moving the hardware cursor, whose place the VGA  *)
(* controller keeps in two registers of a byte.  Colours are left out.     *)
(* Only the main thread calls the console.                                 *)
(***************************************************************************)
EXTENDS Naturals, Sequences

CONSTANTS Width, Height,  \* VGA_WIDTH and VGA_HEIGHT
          Char,           \* the characters written, other than '\n'
          Blank,          \* ' ', which may be written as well
          NewLine,
          Strings         \* what the callers write

Size == Width * Height

ASSUME ConsoleAssumption == /\ Width \in Nat \ {0}
                            /\ Height \in Nat \ {0}
                            \* current_position is an unsigned short.
                            /\ Size < 65536
                            /\ NewLine \notin Char
                            /\ Strings \subseteq Seq(Char \cup {NewLine})

VARIABLES cells,     \* video_memory's characters
          pos,       \* current_position
          cursor,    \* the VGA controller's registers 14 and 15
          text,      \* what console_write_colored has still to write
          at         \* "boot", "idle" or "write"

vars == <<cells, pos, cursor, text, at>>

LastRow == (Height - 1) * Width
Cell == 0 .. Size - 1
String == Seq(Char \cup {NewLine})
Byte == 0 .. 255

\* What update_cursor_position writes.
CursorBytes(p) == <<(p \div 256) % 256, p % 256>>

-----------------------------------------------------------------------------
\* The boot loader leaves its own text, and its cursor, on the screen.
Init == /\ cells \in [Cell -> Char \cup {Blank}]
        /\ pos = 0
        /\ cursor \in {CursorBytes(p) : p \in Cell}
        /\ text = <<>>
        /\ at = "boot"

\* console_clear, which kmain calls before it writes anything.
Clear == /\ at \in {"boot", "idle"}
         /\ at' = "idle"
         /\ cells' = [i \in Cell |-> Blank]
         /\ pos' = 0
         /\ cursor' = CursorBytes(0)
         /\ UNCHANGED text

\* console_write_colored is called with the string s.
Write(s) == /\ at = "idle"
            /\ at' = "write"
            /\ text' = s
            /\ UNCHANGED <<cells, pos, cursor>>

\* Fault: the last row keeps what it showed.
ScrolledDirty(screen) ==
  [i \in Cell |-> IF i < LastRow THEN screen[i + Width] ELSE screen[i]]

Scrolled(screen) ==
  [i \in Cell |-> IF i < LastRow THEN screen[i + Width] ELSE Blank]

\* Fault: the test lets the position one past the screen through.
MoveToLate(p, screen) ==
  IF p > Size
  THEN pos' = LastRow /\ cells' = Scrolled(screen)
  ELSE pos' = p /\ cells' = screen

\* scroll_console runs as soon as the position leaves the screen.
MoveTo(p, screen) ==
  IF p >= Size
  THEN pos' = LastRow /\ cells' = Scrolled(screen)
  ELSE pos' = p /\ cells' = screen

WriteChar == /\ at = "write"
             /\ text # <<>>
             /\ text' = Tail(text)
             /\ IF Head(text) = NewLine
                THEN MoveTo(pos + (Width - (pos % Width)), cells)
                ELSE MoveTo(pos + 1, [cells EXCEPT ![pos] = Head(text)])
             /\ UNCHANGED <<cursor, at>>

WriteEnd == /\ at = "write"
            /\ text = <<>>
            /\ at' = "idle"
            /\ cursor' = CursorBytes(pos)
            /\ UNCHANGED <<cells, pos, text>>

\* Fault: the hardware cursor stays behind.
BackspaceNoCursor == /\ at = "idle"
                     /\ pos # 0
                     /\ pos' = pos - 1
                     /\ cells' = [cells EXCEPT ![pos'] = Blank]
                     /\ UNCHANGED <<cursor, text, at>>

\* console_backspace; at position 0 it returns at once.
Backspace == /\ at = "idle"
             /\ pos # 0
             /\ pos' = pos - 1
             /\ cells' = [cells EXCEPT ![pos'] = Blank]
             /\ cursor' = CursorBytes(pos')
             /\ UNCHANGED <<text, at>>

Next == \/ Clear
        \/ \E s \in Strings : Write(s)
        \/ WriteChar
        \/ WriteEnd
        \/ Backspace

Spec == Init /\ [][Next]_vars

-----------------------------------------------------------------------------
(* Every variable keeps its type: the position is a cell of the screen      *)
(* before every store through it (framebuffer.c:86, 91, 108).               *)
TypeOK == /\ cells \in [Cell -> Char \cup {Blank}]
          /\ pos \in Cell
          /\ cursor \in Byte \X Byte
          /\ text \in String
          /\ at \in {"boot", "idle", "write"}

(* Between two calls the hardware cursor is where the next character goes   *)
(* (framebuffer.c:51, 96, 113).                                             *)
CursorShown == at = "idle" => cursor[1] * 256 + cursor[2] = pos

(* The linear array implements a grid of rows: wrapping, new lines,         *)
(* scrolling and rubbing out at the edges (framebuffer.c:57-114).           *)
Grid == INSTANCE Terminal
          WITH grid <- [r \in 0 .. Height - 1 |->
                          [c \in 0 .. Width - 1 |-> cells[r * Width + c]]],
               row <- pos \div Width,
               col <- pos % Width,
               on <- at # "boot"

ImplementsGrid == Grid!Spec
=============================================================================
