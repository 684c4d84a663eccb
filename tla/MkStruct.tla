------------------------------ MODULE MkStruct ------------------------------
(***************************************************************************)
(* The lists of headers of runtime/mk_struct.c as a program that uses them:*)
(* every exported operation that changes links or headers, in any order,   *)
(* on any list.  One thread runs them all.                                 *)
(***************************************************************************)
EXTENDS MkLinks

CONSTANTS MaxInstance       \* bound on the instances given out

VARIABLES mem,              \* the links (MkLinks)
          inst,             \* instance of every header, 0 when it is dead
          global_instance_ctr,
          result,           \* the link the last search returned
          detached          \* links that mk_pull handed to its caller

vars == <<mem, inst, global_instance_ctr, result, detached>>

Init == /\ \E s \in {SetToSeq(Links)} : mem = Pool(s)
        /\ inst = [h \in Hdrs |-> 0]
        /\ global_instance_ctr = 0
        /\ result = Nil
        /\ detached = {}

(* The counter counts down from 0 and is compared for equality only; it is *)
(* counted up here, and its wrap-around is beyond MaxInstance.             *)
get_mkhdr(h) == /\ inst[h] = 0
                /\ global_instance_ctr < MaxInstance
                /\ global_instance_ctr' = global_instance_ctr + 1
                /\ inst' = [inst EXCEPT ![h] = global_instance_ctr + 1]
                /\ result' = Nil
                /\ UNCHANGED <<mem, detached>>

vdestroy_mkhdr_generic(h) == /\ inst[h] # 0
                             /\ inst' = [inst EXCEPT ![h] = 0]
                             /\ result' = Nil
                             /\ UNCHANGED <<mem, global_instance_ctr, detached>>

(* With no free link these return 0 and change nothing.                    *)
Bind(h, own, Place(_, _)) ==
  /\ inst[h] # 0
  /\ mem.head[Free] # Nil
  /\ mem' = Place(Take(mem, inst, h, own), mem.head[Free])
  /\ result' = Nil
  /\ UNCHANGED <<inst, global_instance_ctr, detached>>

mk_insert(h, l, own) == Bind(h, own, LAMBDA m, p : AtHead(m, p, l))
mk_append(h, l) == Bind(h, TRUE, LAMBDA m, p : AtEnd(m, p, l))
mk_append_after_mkptr(h, a) == /\ mem.list[a] \in Lists
                               /\ Bind(h, TRUE, LAMBDA m, p : After(m, p, a))
BindBefore(h, b) == /\ mem.list[b] \in Lists
                    /\ Bind(h, TRUE, LAMBDA m, p : Before(m, p, b))

find_in_mklist(h, l) == /\ result' = FindIn(mem, inst, h, l)
                        /\ mem' = AfterFind(mem, inst, h, l)
                        /\ UNCHANGED <<inst, global_instance_ctr, detached>>

first_mkptr(l) == /\ result' = FirstIn(mem, inst, l)
                  /\ mem' = AfterFirst(mem, inst, l)
                  /\ UNCHANGED <<inst, global_instance_ctr, detached>>

next_mkptr(p) == /\ mem.list[p] \in Lists
                 /\ result' = NextOf(mem, inst, p)
                 /\ mem' = AfterNext(mem, inst, p)
                 /\ UNCHANGED <<inst, global_instance_ctr, detached>>

(* The function applied destroys the headers of K it is given: their links *)
(* stay, stale, for a later walk.                                          *)
Visit(s, p, K) ==
  IF Live(s.m, s.i, p)
  THEN [s EXCEPT !.i = [h \in Hdrs |-> IF h = s.m.hdr[p] /\ h \in K THEN 0 ELSE @[h]]]
  ELSE [s EXCEPT !.m = Discard(s.m, p)]

apply_to_mklist(l, K) ==
  LET c == Chain(mem, l)
      after[n \in 0 .. Len(c)] == IF n = 0 THEN [m |-> mem, i |-> inst]
                                  ELSE Visit(after[n - 1], c[n], K)
      s == after[Len(c)]
  IN /\ mem' = s.m
     /\ inst' = s.i
     /\ result' = Nil
     /\ UNCHANGED <<global_instance_ctr, detached>>

(* mk_pull: the link leaves the list and belongs to the caller.  The one   *)
(* caller, pull_ani_texture_control, drops it.                             *)
mk_pull(h, l) == LET p == FindIn(mem, inst, h, l)
                 IN /\ p # Nil
                    /\ mem' = Unlink(AfterFind(mem, inst, h, l), p)
                    /\ detached' = detached \cup {p}
                    /\ result' = Nil
                    /\ UNCHANGED <<inst, global_instance_ctr>>

mk_pull_discard(h, l) == LET p == FindIn(mem, inst, h, l)
                         IN /\ p # Nil
                            /\ mem' = Discard(AfterFind(mem, inst, h, l), p)
                            /\ result' = Nil
                            /\ UNCHANGED <<inst, global_instance_ctr, detached>>

(* destroy_mkptr, one round of destroy_mkptrs *)
DestroyLink(s, p) ==
  [m |-> Recycle(Unlink(s.m, p), p),
   i |-> IF Owned(s.m, s.i, p) THEN [s.i EXCEPT ![s.m.hdr[p]] = 0] ELSE s.i]

DestroyLinks(m, c) ==
  LET after[n \in 0 .. Len(c)] == IF n = 0 THEN [m |-> m, i |-> inst]
                                  ELSE DestroyLink(after[n - 1], c[n])
      s == after[Len(c)]
  IN /\ mem' = s.m
     /\ inst' = s.i
     /\ result' = Nil
     /\ UNCHANGED <<global_instance_ctr, detached>>

mk_pull_destroy(h, l) == /\ FindIn(mem, inst, h, l) # Nil
                         /\ DestroyLinks(AfterFind(mem, inst, h, l),
                                         <<FindIn(mem, inst, h, l)>>)
destroy_mkptr(p) == mem.list[p] \in Lists /\ DestroyLinks(mem, <<p>>)
destroy_list(l) == mem.head[l] # Nil /\ DestroyLinks(mem, Chain(mem, l))

discard_list(l) == /\ mem' = DiscardAll(mem, Chain(mem, l))
                   /\ result' = Nil
                   /\ UNCHANGED <<inst, global_instance_ctr, detached>>

HdrOps(h) ==
  \/ get_mkhdr(h)
  \/ vdestroy_mkhdr_generic(h)
  \/ \E p \in Links : mk_append_after_mkptr(h, p) \/ BindBefore(h, p)
  \/ \E l \in Lists : \/ \E own \in BOOLEAN : mk_insert(h, l, own)
                      \/ mk_append(h, l)
                      \/ find_in_mklist(h, l)
                      \/ mk_pull(h, l)
                      \/ mk_pull_discard(h, l)
                      \/ mk_pull_destroy(h, l)

ListOps(l) == \/ first_mkptr(l)
              \/ \E K \in SUBSET Hdrs : apply_to_mklist(l, K)
              \/ destroy_list(l)
              \/ discard_list(l)

Next == \/ \E h \in Hdrs : HdrOps(h)
        \/ \E l \in Lists : ListOps(l)
        \/ \E p \in Links : next_mkptr(p) \/ destroy_mkptr(p)

Spec == Init /\ [][Next]_vars
-----------------------------------------------------------------------------
(* The pool, the lists and what is bound keep their shape.                 *)
TypeOK == /\ \A p \in Links : mem.stamp[p] <= global_instance_ctr
          /\ \A h \in Hdrs : inst[h] <= global_instance_ctr
          /\ result \in Links \cup {Nil}
          /\ detached \subseteq Links

LinksAccounted == /\ WellLinked(mem)
                  /\ \A p \in Links : (mem.list[p] = Nil) = (p \in detached)
                  /\ \A p \in Links : mem.list[p] = Free => mem.hdr[p] = Nil

ResultLive == result # Nil => /\ Live(mem, inst, result)
                              /\ mem.list[result] \in Lists

(* However links are taken, inserted, unlinked and recycled, every list is *)
(* a proper doubly linked list and no link is lost: it is on the list it   *)
(* names, free, or in the hands of the caller of mk_pull. What a search    *)
(* returns is a link of a live header.                                     *)
ListsSound == TypeOK /\ LinksAccounted /\ ResultLive

LL == INSTANCE LinkLists WITH
        lists <- [l \in Lists |-> Chain(mem, l)],
        idle <- ToSet(Chain(mem, Free)),
        bond <- [p \in Links |-> [hdr |-> mem.hdr[p], stamp |-> mem.stamp[p], own |-> mem.own[p]]],
        life <- inst

(* The pointer surgery implements sequences of links from which only dead  *)
(* ones fall out by themselves.                                            *)
LinkListsSpec == LL!Spec

(* A header that lives and is on a list is found: find_in_mklist does not  *)
(* miss it behind stale links, first_mkptr returns nothing only from a     *)
(* list of the dead.                                                       *)
SearchComplete ==
  [][\A l \in Lists :
       /\ \A h \in Hdrs : find_in_mklist(h, l) => LL!Finds(l, h)
       /\ first_mkptr(l) /\ result' = Nil => \A p \in LL!OnList(l) : ~Live(mem, inst, p)]_vars
=============================================================================
