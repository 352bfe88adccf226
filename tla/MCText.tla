---- MODULE MCText ----
(* Loose bytes: a NUL, the head of a character of four bytes and the tail of one of three. *)
EXTENDS Text

MCLoose == {<<"nul", 1>>, <<"clef", 1>>, <<"euro", 2>>}
====
