---------------------------- MODULE MCChatScreen ----------------------------
(* A screen of two rows of three cells and a line as long as a row: lines   *)
(* wrap, and the screen scrolls while a line is being typed.  Notices are   *)
(* any strings of up to two characters, so that every edge of the screen is *)
(* met with and without a newline.                                          *)
EXTENDS ChatScreen

MCChar == {"a", "b"}
MCBanner == <<"b", NewLine>>
MCVgaTag == <<"b">>
MCNotices == UNION {[1..n -> MCChar \cup {NewLine}] : n \in 0..2}
MCSerialLines == {<<"b", "a", NewLine>>}
MCNoLines == {}
=============================================================================
