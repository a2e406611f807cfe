---------------------------- MODULE MCKeyboard ----------------------------
(* Keyboard with a ring of four slots and one real scan code of each kind.  *)
EXTENDS Keyboard

\* 'a', 'b', Backspace, an unmapped key (F1), and a break code ('a').
MCScanCode == {30, 48, 14, 59, 158}
MCChar == {"a", "b", "bs"}
MCKeymap == [s \in 0..127 |-> CASE s = 30 -> "a" [] s = 48 -> "b"
                                [] OTHER -> "none"]
=============================================================================
