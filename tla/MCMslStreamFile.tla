--------------------------- MODULE MCMslStreamFile ---------------------------
(* Small instances of MslStreamFile.                                       *)
EXTENDS MslStreamFile

CONSTANTS s1, s2, b1, c1, c2, c3, c4

OneStream == {s1}
OneBank == {b1}
TwoCommands == {c1, c2}
FourCommands == {c1, c2, c3, c4}
AnyFour == Permutations(FourCommands)
=============================================================================
