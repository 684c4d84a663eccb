-------------------------------- MODULE MCMwMem --------------------------------
(* A wave heap with two heaps of equal blocks, the smaller of which passes *)
(* on to the larger one, an overflow heap and a movie heap.                *)
EXTENDS MwMem

CONSTANTS Small, Big

TwoFixed == <<Small, Big>>
Of(s, b) == [h \in {Small, Big} |-> IF h = Small THEN s ELSE b]
OneAndTwo == Of(1, 2)
OneOfEach == {Of(1, 1), Of(2, 1)}
PassOn == [h \in Heaps |-> CASE h = Small -> <<Small, Big, Wave>>
                             [] h = Big -> <<Big, Wave>>
                             [] h = Movie -> <<Wave, Overflow>>
                             [] OTHER -> <<>>]
Ask(h, n, a, high) == [heap |-> h, units |-> n, align |-> a, high |-> high]
SomeOfEach == {Ask(Wave, 1, 1, FALSE), Ask(Wave, 2, 1, TRUE), Ask(Wave, 1, 2, FALSE),
               Ask(Small, 1, 1, FALSE), Ask(Big, 2, 1, FALSE), Ask(Movie, 2, 1, FALSE)}
=============================================================================
