--------------------------- MODULE MCHelloParser ---------------------------
(* A word of three bytes in which a misplaced comparison shows.             *)
EXTENDS HelloParser

MCMagic == <<0, 1, 1>>
=============================================================================
