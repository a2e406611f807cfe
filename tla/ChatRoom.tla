------------------------------ MODULE ChatRoom ------------------------------
(***************************************************************************)
(* What the chat promises its two users: each edits a line of their own,   *)
(* and Enter posts that line, under that user's name, to a conversation    *)
(* both see; a command or an empty line is not posted; and one command     *)
(* stops everything for good.                                              *)
(***************************************************************************)
EXTENDS Naturals, Sequences

CONSTANTS User,
          Text,        \* the characters of a line
          Commands,    \* the lines that are not posted
          Deadlock,    \* the one of them that stops the chat
          LineMax,     \* the longest line
          Keep         \* how much of the conversation is looked at

VARIABLES draft,       \* user to the line being typed
          room,        \* the last Keep messages posted
          hung         \* TRUE once the chat has stopped

vars == <<draft, room, hung>>

\* The conversation l with the message m after it, the last Keep messages.
Log(l, m) == LET all == Append(l, m)
             IN  IF Len(all) <= Keep THEN all ELSE Tail(all)

Init == /\ draft = [u \in User |-> <<>>]
        /\ room = <<>>
        /\ hung = FALSE

Type(u, ch) == /\ ~hung
               /\ Len(draft[u]) < LineMax
               /\ draft' = [draft EXCEPT ![u] = Append(@, ch)]
               /\ UNCHANGED <<room, hung>>

Erase(u) == /\ ~hung
            /\ draft[u] # <<>>
            /\ draft' = [draft EXCEPT ![u] = SubSeq(@, 1, Len(@) - 1)]
            /\ UNCHANGED <<room, hung>>

Post(u) == /\ ~hung
           /\ draft[u] \notin Commands \cup {<<>>}
           /\ room' = Log(room, [from |-> u, text |-> draft[u]])
           /\ draft' = [draft EXCEPT ![u] = <<>>]
           /\ UNCHANGED hung

Obey(u) == /\ ~hung
           /\ draft[u] \in Commands \ {Deadlock}
           /\ draft' = [draft EXCEPT ![u] = <<>>]
           /\ UNCHANGED <<room, hung>>

Hang(u) == /\ ~hung
           /\ draft[u] = Deadlock
           /\ hung' = TRUE
           /\ UNCHANGED <<draft, room>>

Next == \E u \in User : \/ \E ch \in Text : Type(u, ch)
                        \/ Erase(u)
                        \/ Post(u)
                        \/ Obey(u)
                        \/ Hang(u)

Spec == Init /\ [][Next]_vars
=============================================================================
