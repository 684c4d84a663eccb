------------------------------- MODULE MkLinks -------------------------------
(***************************************************************************)
(* The pointer surgery of runtime/mk_struct.c.  An MkPtr is a link of a    *)
(* doubly linked list; it names a header and the instance the header had   *)
(* when the link was bound to it.  A header that dies sets its instance to *)
(* 0 and tells nobody: a link whose instance differs from its header's is  *)
(* stale, and whoever next walks the list gives it back to the free list.  *)
(*                                                                         *)
(* A record m holds the memory of all links, so that a function that does  *)
(* several things to it is the composition of operators; i is the instance *)
(* every header has now (0: dead).                                         *)
(***************************************************************************)
EXTENDS Naturals, SequencesExt

CONSTANTS Links,      \* mkptr_list[]
          Lists,      \* the list heads of the program
          Free,       \* &free_mkptrs
          Hdrs,       \* blocks that can hold a header
          Nil

ASSUME LinksAssumption == /\ IsFiniteSet(Links)
                          /\ Nil \notin Links \cup Lists \cup Hdrs \cup {Free}
                          /\ Free \notin Lists

(* init_free_mkptrs: all links on the free list, the last one first.       *)
Pool(s) == LET at(p) == CHOOSE k \in DOMAIN s : s[k] = p
               toward(p, d) == IF at(p) + d \in DOMAIN s THEN s[at(p) + d] ELSE Nil
           IN [hdr |-> [p \in Links |-> Nil], stamp |-> [p \in Links |-> 0],
               own |-> [p \in Links |-> TRUE],
               next |-> [p \in Links |-> toward(p, 1)],
               prev |-> [p \in Links |-> toward(p, -1)],
               list |-> [p \in Links |-> Free],
               head |-> [l \in Lists \cup {Free} |->
                           IF l = Free /\ s # <<>> THEN s[1] ELSE Nil]]

(* The links met from link p on, or from the head of l on.  A chain that   *)
(* does not end is cut off one link after the last.                        *)
From(m, p) == LET rest[n \in 0 .. Cardinality(Links) + 1] ==
                    [q \in Links \cup {Nil} |->
                       IF q = Nil \/ n = 0 THEN <<>> ELSE <<q>> \o rest[n - 1][m.next[q]]]
              IN rest[Cardinality(Links) + 1][p]
Chain(m, l) == From(m, m.head[l])

Live(m, i, p) == m.hdr[p] # Nil /\ m.stamp[p] = i[m.hdr[p]]

-----------------------------------------------------------------------------
(* mutant: the successor keeps its old predecessor *)
Unlink_no_back(m, p) ==
  IF m.list[p] = Nil THEN m
  ELSE [m EXCEPT !.next = [q \in Links |-> IF q = p THEN Nil
                                           ELSE IF q = m.prev[p] THEN m.next[p] ELSE @[q]],
                 !.prev[p] = Nil,
                 !.list[p] = Nil,
                 !.head[m.list[p]] = IF m.prev[p] = Nil THEN m.next[p] ELSE @]

(* UNLINK_MKPTR *)
Unlink(m, p) ==
  IF m.list[p] = Nil THEN m
  ELSE [m EXCEPT !.next = [q \in Links |-> IF q = p THEN Nil
                                           ELSE IF q = m.prev[p] THEN m.next[p] ELSE @[q]],
                 !.prev = [q \in Links |-> IF q = p THEN Nil
                                           ELSE IF q = m.next[p] THEN m.prev[p] ELSE @[q]],
                 !.list[p] = Nil,
                 !.head[m.list[p]] = IF m.prev[p] = Nil THEN m.next[p] ELSE @]

(* INSERT_AT_HEAD, insert_mkptr *)
AtHead(m, p, l) == LET old == m.head[l]
                   IN [m EXCEPT !.list[p] = l,
                                !.next[p] = old,
                                !.prev = [q \in Links |-> IF q = p THEN Nil
                                                          ELSE IF q = old THEN p ELSE @[q]],
                                !.head[l] = p]

(* insert_mkptr_before *)
Before(m, p, b) == LET a == m.prev[b]
                   IN [m EXCEPT !.list[p] = m.list[b],
                                !.next = [q \in Links |-> IF q = p THEN b
                                                          ELSE IF q = a THEN p ELSE @[q]],
                                !.prev = [@ EXCEPT ![b] = p, ![p] = a],
                                !.head[m.list[b]] = IF a = Nil THEN p ELSE @]

(* append_mkptr_after *)
After(m, p, a) == LET b == m.next[a]
                  IN [m EXCEPT !.list[p] = m.list[a],
                               !.next = [@ EXCEPT ![a] = p, ![p] = b],
                               !.prev = [q \in Links |-> IF q = p THEN a
                                                         ELSE IF q = b THEN p ELSE @[q]]]

(* mk_append: after the last link, or at the head of an empty list.        *)
AtEnd(m, p, l) == LET c == Chain(m, l)
                  IN IF c = <<>> THEN AtHead(m, p, l) ELSE After(m, p, Last(c))

(* POP_FREE_MKPTR, then BIND_MKPTR and SET_NO_OWN: the link is m.head[Free].*)
(* The next free link keeps a prev that points to the link just taken.     *)
Take(m, i, h, own) == LET p == m.head[Free]
                      IN [m EXCEPT !.head[Free] = m.next[p],
                                   !.next[p] = Nil, !.prev[p] = Nil, !.list[p] = Nil,
                                   !.hdr[p] = h, !.stamp[p] = i[h], !.own[p] = own]

(* RECYCLE_MKPTR.  The flags stay until the link is taken again; nobody    *)
(* reads them before, so they are reset here.                              *)
Recycle(m, p) == AtHead([m EXCEPT !.stamp[p] = 0, !.hdr[p] = Nil, !.own[p] = TRUE], p, Free)

(* discard_mkptr, discard_stale_mkptr: the header is let go, not destroyed.*)
Discard(m, p) == Recycle(Unlink(m, p), p)
DiscardAll(m, s) == LET after[n \in 0 .. Len(s)] ==
                          IF n = 0 THEN m ELSE Discard(after[n - 1], s[n])
                    IN after[Len(s)]

(* mutant: the header a link owns is destroyed whatever instance it has *)
Owned_any_instance(m, i, p) == m.hdr[p] # Nil /\ m.own[p] /\ i[m.hdr[p]] # 0

(* MAYBE_DESTROY_OWNED: whether recycling p destroys its header            *)
Owned(m, i, p) == /\ m.hdr[p] # Nil
                  /\ m.own[p]
                  /\ m.stamp[p] = i[m.hdr[p]]
                  /\ i[m.hdr[p]] # 0
-----------------------------------------------------------------------------
(* The places in s where a walk along it stops: at the live links of W.    *)
Stops(m, i, s, W) == {k \in DOMAIN s : Live(m, i, s[k]) /\ s[k] \in W}

(* The link such a walk returns.                                           *)
FirstWanted(m, i, s, W) ==
  IF Stops(m, i, s, W) = {} THEN Nil ELSE s[Min(Stops(m, i, s, W))]

(* On its way there it gives the stale links back.                         *)
AfterSearch(m, i, s, W) ==
  LET upto == IF Stops(m, i, s, W) = {} THEN Len(s) ELSE Min(Stops(m, i, s, W)) - 1
      after[n \in 0 .. upto] == IF n = 0 THEN m
                                ELSE IF Live(m, i, s[n]) THEN after[n - 1]
                                ELSE Discard(after[n - 1], s[n])
  IN after[upto]

BoundTo(m, h) == {p \in Links : m.hdr[p] = h}

(* mutant: the search gives up at a stale link *)
FindIn_gives_up(m, i, h, l) ==
  LET p == m.head[l]
  IN IF p # Nil /\ ~Live(m, i, p) THEN Nil
     ELSE FirstWanted(m, i, Chain(m, l), BoundTo(m, h))

(* find_in_mklist *)
FindIn(m, i, h, l) == FirstWanted(m, i, Chain(m, l), BoundTo(m, h))
AfterFind(m, i, h, l) == AfterSearch(m, i, Chain(m, l), BoundTo(m, h))

(* first_mkptr, first_mkhdr *)
FirstIn(m, i, l) == FirstWanted(m, i, Chain(m, l), Links)
AfterFirst(m, i, l) == AfterSearch(m, i, Chain(m, l), Links)

(* next_mkptr: having given back a stale link the loop goes on from the    *)
(* link after it without having looked at that one, so that of a run of    *)
(* links s every second one is examined while they are stale.              *)
Examined(m, i, s) ==
  LET stop == {k \in DOMAIN s : k % 2 = 1 /\ Live(m, i, s[k])}
      upto == IF stop = {} THEN Len(s) ELSE Min(stop)
  IN [j \in 1 .. ((upto + 1) \div 2) |-> s[2 * j - 1]]
NextOf(m, i, p) == FirstWanted(m, i, Examined(m, i, From(m, m.next[p])), Links)
AfterNext(m, i, p) == AfterSearch(m, i, Examined(m, i, From(m, m.next[p])), Links)

(* apply_to_mklist, the walks of mk_proc.c that reach the end              *)
AfterWalk(m, i, l) == AfterSearch(m, i, Chain(m, l), {})
-----------------------------------------------------------------------------
(* Every list is a proper doubly linked list: its links know the list and  *)
(* their neighbours, and it ends.  prev of the first free link is never    *)
(* read and may be anything.                                               *)
WellLinked(m) ==
  \A l \in Lists \cup {Free} :
    LET c == Chain(m, l)
    IN /\ IsInjective(c)
       /\ {p \in Links : m.list[p] = l} = ToSet(c)
       /\ \A k \in DOMAIN c : m.prev[c[k]] = IF k = 1 THEN IF l = Free THEN m.prev[c[1]] ELSE Nil
                                             ELSE c[k - 1]
=============================================================================
