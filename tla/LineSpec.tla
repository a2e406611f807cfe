------------------------------ MODULE LineSpec ------------------------------
(***************************************************************************)
(* What a line editor promises its user: the characters typed and not      *)
(* erased, up to a limit, make the line; Enter hands over exactly that     *)
(* line, told apart as empty, a command or a message; and the next line    *)
(* starts empty.                                                           *)
(***************************************************************************)
EXTENDS Naturals, Sequences

CONSTANTS Text,       \* the characters a line can hold
          Commands,   \* the lines that are commands
          Limit       \* the longest line

VARIABLES text,       \* the line being typed
          busy,       \* TRUE while the line handed over is being served
          handed      \* the last line handed over

vars == <<text, busy, handed>>

Kind(l) == IF l \in Commands THEN "command"
           ELSE IF l = <<>> THEN "empty" ELSE "message"

Front(l) == SubSeq(l, 1, Len(l) - 1)

Init == /\ text = <<>>
        /\ busy = FALSE
        /\ handed = [kind |-> "empty", text |-> <<>>]

Add(ch) == /\ ~busy
           /\ Len(text) < Limit
           /\ text' = Append(text, ch)
           /\ UNCHANGED <<busy, handed>>

Erase == /\ ~busy
         /\ text # <<>>
         /\ text' = Front(text)
         /\ UNCHANGED <<busy, handed>>

HandOver == /\ ~busy
            /\ busy' = TRUE
            /\ handed' = [kind |-> Kind(text), text |-> text]
            /\ UNCHANGED text

Restart == /\ busy
           /\ busy' = FALSE
           /\ text' = <<>>
           /\ UNCHANGED handed

Next == \/ \E ch \in Text : Add(ch)
        \/ Erase
        \/ HandOver
        \/ Restart

Spec == Init /\ [][Next]_vars
=============================================================================
