----------------------------- MODULE StreamReads -----------------------------
(***************************************************************************)
(* What the dynamic stream buffers promise to a sound stream or bank: a    *)
(* request of some chunks delivers each of them once, in order, and says   *)
(* "final" with the last; after a cancellation it delivers nothing.        *)
(***************************************************************************)
EXTENDS Naturals

CONSTANTS Clients, MaxChunks

VARIABLES total,   \* chunks of the client's request, 0 when it has none
          got      \* the chunk delivered last

Init == /\ total = [c \in Clients |-> 0]
        /\ got = [c \in Clients |-> 0]

Start(c, n) == /\ total[c] = 0
               /\ total' = [total EXCEPT ![c] = n]
               /\ got' = [got EXCEPT ![c] = 0]

Deliver(c) == /\ got[c] < total[c]
              /\ got' = [got EXCEPT ![c] = @ + 1]
              /\ total' = [total EXCEPT ![c] = IF got[c] + 1 = @ THEN 0 ELSE @]

Cancel(c) == /\ total[c] > 0
             /\ total' = [total EXCEPT ![c] = 0]
             /\ UNCHANGED got

Next == \E c \in Clients : \/ \E n \in 1 .. MaxChunks : Start(c, n)
                           \/ Deliver(c)
                           \/ Cancel(c)

Spec == Init /\ [][Next]_<<total, got>>
=============================================================================
