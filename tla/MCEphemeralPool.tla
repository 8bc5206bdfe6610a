--------------------------- MODULE MCEphemeralPool --------------------------
(* Identifiers: 0 and 1 reserved, 2 the base, 3 to 5 random, 7 sticky.     *)
EXTENDS EphemeralPool

MCRandom       == 1 .. 5
MCRandomSticky == {3, 4, 7}   (* a draw may be a sticky account's            *)
=============================================================================
