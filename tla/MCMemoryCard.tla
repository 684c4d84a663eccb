---------------------------- MODULE MCMemoryCard -----------------------------
(* Two cards for model checking MemoryCard.  One is as good as the other.  *)
EXTENDS MemoryCard

Either == Permutations(Cards)
=============================================================================
