----------------------------- MODULE ChatScreen -----------------------------
(***************************************************************************)
(* The console as the chat uses it: the keyboard user's characters are     *)
(* echoed and erased one at a time, and finished lines of either user are  *)
(* written below, or behind, whatever is on the current row; the kernel    *)
(* and the commands write their notices there, too.                        *)
(***************************************************************************)
EXTENDS Console

CONSTANTS LineMax,     \* LINE_MAX
          Banner,      \* what kmain writes first
          Notices,     \* what kmain and the commands write later
          VgaTag       \* "[vga] "

\* A line and its row's rest fit on the screen: 120 of 24 * 80 cells.
ASSUME ScreenAssumption == /\ LineMax \in 1..LastRow
                           /\ Banner \in String
                           /\ Notices \subseteq String
                           /\ VgaTag \in Seq(Char)

VARIABLE kbd_line      \* the characters of kbd_line

svars == <<vars, kbd_line>>

SInit == Init /\ kbd_line = <<>>

\* console_clear and the messages of kmain.
Boot == /\ at = "boot"
        /\ at' = "write"
        /\ cells' = [i \in Cell |-> Blank]
        /\ pos' = 0
        /\ cursor' = CursorBytes(0)
        /\ text' = Banner
        /\ UNCHANGED kbd_line

\* Fault: the echo is written when the line is full, too.
EchoUnbounded(ch) == /\ Write(<<ch>>)
                     /\ kbd_line' = IF Len(kbd_line) < LineMax
                                    THEN Append(kbd_line, ch) ELSE kbd_line

\* kbd_process_char stores a character and echoes it.
EchoKey(ch) == /\ Len(kbd_line) < LineMax
               /\ Write(<<ch>>)
               /\ kbd_line' = Append(kbd_line, ch)

EraseKey == /\ kbd_line # <<>>
            /\ Backspace
            /\ kbd_line' = SubSeq(kbd_line, 1, Len(kbd_line) - 1)

\* The message goes behind the echo, on the same row.
SubmitKeys == /\ kbd_line # <<>>
              /\ Write(VgaTag \o kbd_line \o <<NewLine>>)
              /\ kbd_line' = <<>>

\* The rest of kmain's messages, and what a command writes: the line that
\* names it is discarded when it is done.
Notice(s) == Write(s) /\ kbd_line' = <<>>

\* A message of the serial user; Strings are theirs here.
SubmitSerial(s) == Write(s) /\ UNCHANGED kbd_line

Writing == (WriteChar \/ WriteEnd) /\ UNCHANGED kbd_line

SNext == \/ Boot
         \/ \E ch \in Char : EchoKey(ch)
         \/ EraseKey
         \/ SubmitKeys
         \/ \E s \in Notices : Notice(s)
         \/ \E s \in Strings : SubmitSerial(s)
         \/ Writing

SSpec == SInit /\ [][SNext]_svars

-----------------------------------------------------------------------------
(* Backspace blanks the character it takes off the line: "Backspace apaga"  *)
(* (kmain.c:131), "Apaga o ultimo caractere (cursor VGA) - usado no chat"   *)
(* (framebuffer.h:27).                                                      *)
BackspaceErases ==
  [][EraseKey => cells[pos'] = kbd_line[Len(kbd_line)]]_svars

(* The line being typed is on the screen, up to the cursor: what the user   *)
(* sees behind the cursor is what Enter will send (chat.c:145, 159-164).    *)
LineShown ==
  at = "idle" =>
    /\ pos >= Len(kbd_line)
    /\ \A i \in 1..Len(kbd_line) :
         cells[pos - Len(kbd_line) + i - 1] = kbd_line[i]
=============================================================================
