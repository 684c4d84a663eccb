------------------------------ MODULE LinkLists ------------------------------
(***************************************************************************)
(* What the lists of runtime/mk_struct.c promise to the code that keeps    *)
(* processes, objects and process data on them.  A list is a sequence of   *)
(* links; a link stands for one life of a header.  Walking a list only     *)
(* ever drops links whose header has died since, the rest keep their       *)
(* order, what a walk returns is alive, and a list that is destroyed takes *)
(* with it just the headers it owns in the life it knew.                   *)
(***************************************************************************)
EXTENDS Naturals, SequencesExt

CONSTANTS Links, Lists, Hdrs, Nil

VARIABLES lists,    \* the links of every list, in order
          idle,     \* links free for use
          bond,     \* the header, its life and the ownership a link stands for
          life,     \* the life of every header, 0 when it is dead
          result    \* the link the last search returned

vars == <<lists, idle, bond, life, result>>

OnList(l) == ToSet(lists[l])
alive(p) == bond[p].stamp = life[bond[p].hdr]

(* t is what is left of s without the elements of S, in the same order.    *)
Rest(s, S, t) ==
  /\ IsInjective(t) /\ ToSet(t) = ToSet(s) \ S
  /\ \A i, j \in DOMAIN t : i < j => \E a, b \in DOMAIN s : a < b /\ s[a] = t[i] /\ s[b] = t[j]

(* The links of S leave the lists they are on.                             *)
Leave(S) == /\ lists' \in [Lists -> Seq(Links)]
            /\ \A l \in Lists : Rest(lists[l], S, lists'[l])

Init == /\ lists = [l \in Lists |-> <<>>]
        /\ idle = Links
        /\ bond \in [Links -> [hdr : {Nil}, stamp : {0}, own : {TRUE}]]
        /\ life = [h \in Hdrs |-> 0]
        /\ result = Nil

Born(h) == /\ life[h] = 0
           /\ \A g \in Hdrs : IF g = h THEN life'[g] > life[g] ELSE life'[g] = life[g]
           /\ \A p \in Links : life'[h] # bond[p].stamp
           /\ result' = Nil
           /\ UNCHANGED <<lists, idle, bond>>

Dies(h) == /\ life' = [life EXCEPT ![h] = 0]
           /\ result' = Nil
           /\ UNCHANGED <<lists, idle, bond>>

Bind(l, h, k) == \E p \in idle, own \in BOOLEAN :
                   /\ lists' = [lists EXCEPT ![l] = InsertAt(@, k, p)]
                   /\ idle' = idle \ {p}
                   /\ bond' = [bond EXCEPT ![p] = [hdr |-> h, stamp |-> life[h], own |-> own]]
                   /\ result' = Nil
                   /\ UNCHANGED life

(* Only stale links go; what is found is alive and still on the list.      *)
Search(l) == \E S \in SUBSET OnList(l) :
               /\ \A p \in S : ~alive(p)
               /\ idle' = idle \cup S
               /\ bond' = [p \in Links |-> IF p \in S
                             THEN [hdr |-> Nil, stamp |-> 0, own |-> TRUE] ELSE bond[p]]
               /\ result' = Nil \/ (result' \in OnList(l) /\ alive(result'))
               /\ Leave(S)
               /\ UNCHANGED life

(* A search of a header that has a live link on the list finds it.         *)
Finds(l, h) == /\ Search(l)
               /\ (result' = Nil) = (\A p \in OnList(l) : ~(alive(p) /\ bond[p].hdr = h))

(* Headers K met on l die of what is done to them; links of the dead go.   *)
Cull(l, K) == /\ life' = [h \in Hdrs |-> IF h \in K THEN 0 ELSE life[h]]
              /\ result' = Nil
              /\ \E S \in SUBSET OnList(l) :
                   /\ \A p \in S : bond[p].stamp # life'[bond[p].hdr]
                   /\ idle' = idle \cup S
                   /\ bond' = [p \in Links |-> IF p \in S
                                 THEN [hdr |-> Nil, stamp |-> 0, own |-> TRUE] ELSE bond[p]]
                   /\ Leave(S)

(* Links S leave l, stale or not; a header dies with them only if one of   *)
(* them owns it in this life.                                              *)
Drop(l, S) == /\ \E K \in SUBSET {bond[p].hdr : p \in {q \in S : alive(q) /\ bond[q].own}} :
                     life' = [h \in Hdrs |-> IF h \in K THEN 0 ELSE life[h]]
              /\ result' = Nil
              /\ idle' \in {idle \cup S} \cup {idle \cup (S \ {p}) : p \in S}
              /\ bond' = [p \in Links |-> IF p \in S \cap idle'
                            THEN [hdr |-> Nil, stamp |-> 0, own |-> TRUE] ELSE bond[p]]
              /\ Leave(S)

Next == \/ \E h \in Hdrs : Born(h) \/ Dies(h)
        \/ \E l \in Lists :
             \/ Search(l)
             \/ \E K \in SUBSET {bond[p].hdr : p \in {q \in OnList(l) : alive(q)}} : Cull(l, K)
             \/ \E S \in SUBSET OnList(l) : Drop(l, S)
             \/ \E h \in Hdrs, k \in 1 .. Len(lists[l]) + 1 : Bind(l, h, k)

Spec == Init /\ [][Next]_vars
=============================================================================
