---------------------------- MODULE MCLineEdit ----------------------------
(* A line of three characters over an alphabet of two, and two commands,    *)
(* one a prefix of the other, so that a comparison can stop too early.      *)
EXTENDS LineEdit

MCNameLen == [vga |-> 3, serial |-> 6]
MCText == {"/", "h"}
MCCommands == {<<"/", "h">>, <<"/", "h", "h">>}
=============================================================================
