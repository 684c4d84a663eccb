----------------------------- MODULE MCMkStruct -----------------------------
EXTENDS MkStruct

(* Blocks for headers and list heads are interchangeable; links are not:   *)
(* init_free_mkptrs puts them in an order.                                 *)
Interchange == Permutations(Hdrs) \cup Permutations(Lists)
=============================================================================
