------------------------------- MODULE MCChat -------------------------------
(* Lines of at most one character; two of the commands are one letter, so   *)
(* that both users can type a command, an empty line and an ordinary        *)
(* message.  /help, which ends like /transferir, is longer than a line.     *)
EXTENDS Chat

MCText == {"a", "d", "t"}
MCDeadlock == <<"d">>
MCTransferir == <<"t">>
MCHelp == <<"t", "a">>
=============================================================================
