------------------------------ MODULE Transfer ------------------------------
(***************************************************************************)
(* What the deadlock demonstrations promise: /transferir swaps the two     *)
(* users' files exactly once before it comes back; /deadlock touches       *)
(* neither file and never comes back.                                      *)
(***************************************************************************)
CONSTANTS Name,      \* the contents a file can have
          NoName     \* the contents of a file before the set-up

VARIABLES files,     \* user to contents
          phase      \* "off", "idle", "before", "after" the swap, "hung"

vars == <<files, phase>>

User == {"vga", "serial"}

Init == /\ files = [vga |-> NoName, serial |-> NoName]
        /\ phase = "off"

SetUp == /\ phase = "off"
         /\ phase' = "idle"
         /\ files' \in [User -> Name]

BeginTransfer == /\ phase = "idle"
                 /\ phase' = "before"
                 /\ UNCHANGED files

Swap == /\ phase = "before"
        /\ phase' = "after"
        /\ files' = [vga |-> files["serial"], serial |-> files["vga"]]

Return == /\ phase = "after"
          /\ phase' = "idle"
          /\ UNCHANGED files

Hang == /\ phase = "idle"
        /\ phase' = "hung"
        /\ UNCHANGED files

Next == SetUp \/ BeginTransfer \/ Swap \/ Return \/ Hang

Spec == Init /\ [][Next]_vars
=============================================================================
