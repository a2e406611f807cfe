-------------------------- MODULE MCDeadlockDemo --------------------------
(* Arrays of three bytes, and names of no, one and two characters: a longer *)
(* name leaves bytes behind a shorter one's NUL, and the longest fills its  *)
(* array.                                                                   *)
EXTENDS DeadlockDemo

MCText == {"f", "t"}
MCName == {<<>>, <<"t">>, <<"f", "t">>}
=============================================================================
