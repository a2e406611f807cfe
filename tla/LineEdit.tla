------------------------------ MODULE LineEdit ------------------------------
(***************************************************************************)
(* A line editor of chat.c: kbd_process_char when the user is "vga",       *)
(* ser_process_char when it is "serial".  The line is a char array with a  *)
(* length beside it and a NUL after the last character; what Enter hands   *)
(* to chat_try_command and chat_submit is a pointer to the array, so they  *)
(* read up to the first NUL.  Old characters stay in the array behind it.  *)
(* A character the editor ignores (a control character, or any character   *)
(* when the line is full) changes nothing and has no action.               *)
(***************************************************************************)
EXTENDS CStrings

CONSTANTS Text,       \* the characters from 32 up that are stored
          Commands,   \* the strings chat_try_command recognises
          LineMax,    \* LINE_MAX
          NameLen     \* the lengths of the two users' names

User == {"vga", "serial"}

ASSUME LineAssumption == /\ NUL \notin Text
                         /\ Commands \subseteq Seq(Text)
                         /\ LineMax \in Nat \ {0}
                         /\ NameLen \in [User -> 1..11]

VARIABLES user,       \* which of the two editors this is
          line,       \* kbd_line or ser_line
          len,        \* kbd_len or ser_len
          busy,       \* TRUE from Enter until the line is cleared
          handed      \* what the last Enter amounted to

vars == <<user, line, len, busy, handed>>

Message == [kind : {"empty", "command", "message"}, text : Seq(Text),
            newline : BOOLEAN]

-----------------------------------------------------------------------------
(* append_formatted and chat_submit: "[user] text\n" and a NUL in a buffer   *)
(* of LINE_MAX + 16 bytes, each part cut where only the NUL still fits.      *)
\* Fault: the frame's own characters are not all counted.
BufSizeShort == LineMax + 4

BufSize == LineMax + 16

Room == BufSize - 1 - (NameLen[user] + 3)

Format(s) == [kind    |-> "message",
              text    |-> IF Len(s) <= Room THEN s ELSE SubSeq(s, 1, Room),
              newline |-> Len(s) < Room]

\* What serving the line a amounts to; chat_submit ignores an empty message.
Serve(a) ==
  LET matches == {s \in Commands : StrEqual(a, Literal(s))}
  IN  IF matches # {}
      THEN [kind |-> "command", text |-> CHOOSE s \in matches : TRUE,
            newline |-> TRUE]
      ELSE IF a[0] = NUL
           THEN [kind |-> "empty", text |-> <<>>, newline |-> TRUE]
           ELSE Format(CString(a))

-----------------------------------------------------------------------------
Init == /\ user \in User
        /\ line = [i \in 0..LineMax |-> NUL]
        /\ len = 0
        /\ busy = FALSE
        /\ handed = [kind |-> "empty", text |-> <<>>, newline |-> TRUE]

\* Fault: the new end of the line is not terminated.
StoreNoNul(ch) == /\ ~busy
                  /\ len < LineMax
                  /\ line' = [line EXCEPT ![len] = ch]
                  /\ len' = len + 1
                  /\ UNCHANGED <<user, busy, handed>>

\* Fault: a full line takes one more character.
StoreFull(ch) == /\ ~busy
                 /\ len <= LineMax
                 /\ line' = [line EXCEPT ![len] = ch, ![len + 1] = NUL]
                 /\ len' = len + 1
                 /\ UNCHANGED <<user, busy, handed>>

Store(ch) == /\ ~busy
             /\ len < LineMax
             /\ line' = [line EXCEPT ![len] = ch, ![len + 1] = NUL]
             /\ len' = len + 1
             /\ UNCHANGED <<user, busy, handed>>

\* Backspace at the keyboard.
KbdErase == /\ user = "vga" /\ ~busy
            /\ len > 0
            /\ len' = len - 1
            /\ line' = [line EXCEPT ![len - 1] = NUL]
            /\ UNCHANGED <<user, busy, handed>>

\* Backspace or DEL on the serial port: the NUL is stored in any case.
SerErase == /\ user = "serial" /\ ~busy
            /\ len' = IF len > 0 THEN len - 1 ELSE len
            /\ line' = [line EXCEPT ![len'] = NUL]
            /\ UNCHANGED <<user, busy, handed>>

Enter == /\ ~busy
         /\ busy' = TRUE
         /\ line' = [line EXCEPT ![len] = NUL]
         /\ handed' = Serve(line')
         /\ UNCHANGED <<user, len>>

Clear == /\ busy
         /\ busy' = FALSE
         /\ len' = 0
         /\ line' = [line EXCEPT ![0] = NUL]
         /\ UNCHANGED <<user, handed>>

Next == \/ \E ch \in Text : Store(ch)
        \/ KbdErase
        \/ SerErase
        \/ Enter
        \/ Clear

Spec == Init /\ [][Next]_vars

-----------------------------------------------------------------------------
(* The length stays inside the array and the array holds characters and     *)
(* NULs (chat.c:13-17).                                                     *)
TypeOK == /\ user \in User
          /\ line \in [0..LineMax -> Text \cup {NUL}]
          /\ len \in 0..LineMax
          /\ busy \in BOOLEAN
          /\ handed \in Message

(* The string in the array is always the first len characters: no byte of   *)
(* an earlier, longer line shows through, whoever reads the array at any    *)
(* point between two characters (chat.c:133, 137, 144 and 157 for the       *)
(* keyboard's line, 175, 179, 186 and 197 for the serial port's).           *)
Terminated == IsLength(line, len)

(* Every message chat_submit formats fits its buffer whole, down to the     *)
(* final newline, even from a full line (chat.c:47, 22-38).                 *)
WholeMessage == handed.newline

IInv == TypeOK /\ Terminated /\ WholeMessage

(* The array implements the line: Enter hands over what was typed and not   *)
(* erased, whole, and recognises a command exactly when the line equals it. *)
Editor == INSTANCE LineSpec
            WITH Limit <- LineMax,
                 text <- CString(line),
                 handed <- [kind |-> handed.kind, text |-> handed.text]

ImplementsLine == Editor!Spec
=============================================================================
