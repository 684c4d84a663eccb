------------------------------- MODULE MCMkProc -------------------------------
EXTENDS MkProc

(* A process that lives with its data, and one that runs in a paused game  *)
(* and is marked no_destroy.                                               *)
Bound == [NoProc EXCEPT !.one_shot = TRUE, !.data = TRUE]
System == [NoProc EXCEPT !.immune = TRUE, !.keep = TRUE]
Flagged == {Bound, System}

Interchange == Permutations(Hdrs)
===============================================================================
