-------------------------- MODULE MkStruct_proofs ---------------------------
(***************************************************************************)
(* Proof that the lists of headers stay sound: whatever operations a       *)
(* program calls on them, in any order, every list is a proper doubly      *)
(* linked list, no link is lost, and a search returns a link of a living   *)
(* header; and that the pointer surgery implements the sequences of links  *)
(* of LinkLists.                                                           *)
(***************************************************************************)
EXTENDS MkStruct, LinkFacts

(* A link that was bound stands for a header in one of its lives.          *)
Bound(m, p) == m.hdr[p] # Nil /\ m.stamp[p] # 0

(* The state of the links, of the headers and of their owners agree.       *)
Linked(m, g, D) == /\ m \in Memory /\ AllStrung(m)
                   /\ \A p \in Links : /\ m.stamp[p] <= g
                                       /\ (m.list[p] = Nil) = (p \in D)
                                       /\ m.list[p] = Free => m.hdr[p] = Nil
                                       /\ m.list[p] \in Lists => Bound(m, p)

Found(m, i, p) == p # Nil => p \in Links /\ Live(m, i, p) /\ m.list[p] \in Lists

IndInv == /\ global_instance_ctr \in Nat
          /\ inst \in [Hdrs -> 0 .. global_instance_ctr]
          /\ detached \subseteq Links
          /\ Linked(mem, global_instance_ctr, detached)
          /\ Found(mem, inst, result)

(* The links that are on lists                                             *)
Listed(m) == {p \in Links : m.list[p] \in Lists}

LEMMA TidiedLinked ==
  ASSUME NEW g \in Nat, NEW D, NEW m, Linked(m, g, D), NEW u, Tidied(m, u, Listed(m))
  PROVE  Linked(u, g, D)
<1>1. ASSUME NEW p \in Links
      PROVE  /\ u.stamp[p] <= g
             /\ (u.list[p] = Nil) = (p \in D)
             /\ u.list[p] = Free => u.hdr[p] = Nil
             /\ u.list[p] \in Lists => Bound(u, p)
  <2>1. /\ m.stamp[p] <= g
        /\ (m.list[p] = Nil) = (p \in D)
        /\ m.list[p] = Free => m.hdr[p] = Nil
        /\ m.list[p] \in Lists => Bound(m, p)
    BY DEF Linked
  <2>2. CASE Same(m, u, p)  BY <2>1, <2>2 DEF Same, Bound
  <2>3. CASE Freed(u, p) /\ p \in Listed(m)
    <3>1. m.list[p] # Nil  BY <2>3, Distinct DEF Listed
    <3>2. u.list[p] \notin Lists \cup {Nil} /\ u.hdr[p] = Nil /\ u.stamp[p] = 0
      BY <2>3, Distinct DEF Freed
    <3>3. QED  BY <2>1, <3>1, <3>2
  <2>4. QED  BY <2>2, <2>3 DEF Tidied
<1>2. u \in Memory /\ AllStrung(u)  BY DEF Tidied
<1>3. QED  BY <1>1, <1>2 DEF Linked

LEMMA StaleListed ==
  ASSUME NEW m, NEW i, NEW l, NEW u, Tidied(m, u, StaleOn(m, i, l))
  PROVE  Tidied(m, u, Listed(m))
<1>1. StaleOn(m, i, l) \subseteq Listed(m)  BY DEF StaleOn, Stale, Listed
<1>2. QED  BY <1>1 DEF Tidied

(* A link that was taken and put on a list                                 *)
LEMMA BoundLinked ==
  ASSUME NEW g \in Nat, NEW D, NEW m, Linked(m, g, D), NEW p \in Links, NEW h \in Hdrs,
         NEW n \in Nat \ {0}, n <= g,
         NEW w, Taken(m, w, p, h, n), NEW l \in Lists, NEW u, Placed(w, u, p, l)
  PROVE  Linked(u, g, D)
<1>1. ASSUME NEW q \in Links
      PROVE  /\ u.stamp[q] <= g
             /\ (u.list[q] = Nil) = (q \in D)
             /\ u.list[q] = Free => u.hdr[q] = Nil
             /\ u.list[q] \in Lists => Bound(u, q)
  <2>1. /\ m.stamp[q] <= g
        /\ (m.list[q] = Nil) = (q \in D)
        /\ m.list[q] = Free => m.hdr[q] = Nil
        /\ m.list[q] \in Lists => Bound(m, q)
    BY DEF Linked
  <2>2. CASE q = p
    <3>1. u.list[p] = l /\ u.stamp[p] = n /\ u.hdr[p] = h /\ m.list[p] = Free
      BY DEF Taken, Placed
    <3>2. l # Nil /\ l # Free /\ Free # Nil /\ h # Nil  BY Distinct
    <3>3. QED  BY <2>1, <2>2, <3>1, <3>2 DEF Bound
  <2>3. CASE q # p
    <3>1. Same(m, w, q) /\ Same(w, u, q)  BY <2>3 DEF Taken, Placed
    <3>2. QED  BY <2>1, <3>1 DEF Same, Bound
  <2>4. QED  BY <2>2, <2>3
<1>2. u \in Memory /\ AllStrung(u)  BY DEF Placed
<1>3. QED  BY <1>1, <1>2 DEF Linked

LEMMA Known ==
  ASSUME IndInv
  PROVE  /\ global_instance_ctr \in Nat
         /\ inst \in [Hdrs -> 0 .. global_instance_ctr] /\ inst \in [Hdrs -> Nat]
         /\ detached \subseteq Links
         /\ Linked(mem, global_instance_ctr, detached)
         /\ mem \in Memory /\ AllStrung(mem)
<1>1. /\ global_instance_ctr \in Nat
      /\ inst \in [Hdrs -> 0 .. global_instance_ctr]
      /\ detached \subseteq Links
      /\ Linked(mem, global_instance_ctr, detached)
  BY DEF IndInv
<1>2. inst \in [Hdrs -> Nat]  BY <1>1
<1>3. mem \in Memory /\ AllStrung(mem)  BY <1>1 DEF Linked
<1>4. QED  BY <1>1, <1>2, <1>3

LEMMA InitKept == ASSUME Init PROVE IndInv
<1>1. /\ inst = [h \in Hdrs |-> 0] /\ global_instance_ctr = 0 /\ result = Nil
      /\ detached = {} /\ mem = Pool(SetToSeq(Links))
  BY DEF Init
<1>2. PICK s : s = SetToSeq(Links)  OBVIOUS
<1>3. s \in Seq(Links) /\ IsInjective(s) /\ ToSet(s) = Links  BY <1>2, Ordered
<1>4. mem = Pool(s)  BY <1>1, <1>2
<1>5. mem \in Memory /\ AllStrung(mem) /\ \A q \in Links : Freed(mem, q)
  BY <1>3, <1>4, PoolFacts
<1>6. Linked(mem, global_instance_ctr, detached)
  <2>1. ASSUME NEW p \in Links
        PROVE  /\ mem.stamp[p] <= 0
               /\ (mem.list[p] = Nil) = (p \in {})
               /\ mem.list[p] = Free => mem.hdr[p] = Nil
               /\ mem.list[p] \in Lists => Bound(mem, p)
    <3>1. mem.stamp[p] = 0 /\ mem.list[p] = Free /\ mem.hdr[p] = Nil  BY <1>5 DEF Freed
    <3>2. Free \notin Lists \cup {Nil}  BY Distinct
    <3>3. QED  BY <3>1, <3>2
  <2>2. QED  BY <1>1, <1>5, <2>1 DEF Linked
<1>7. QED  BY <1>1, <1>6 DEF IndInv, Found

----------------------------------------------------------------------------
(* Binding                                                                 *)

(* What every way to bind a link has in common                             *)
LEMMA BindTakes ==
  ASSUME IndInv, NEW h \in Hdrs, NEW own \in BOOLEAN, mem.head[Free] # Nil,
         NEW w, w = Take(mem, inst, h, own), NEW p, p = mem.head[Free]
  PROVE  /\ p \in Links /\ Taken(mem, w, p, h, inst[h])
         /\ w \in Memory /\ AllStrung(w) /\ w.list[p] = Nil
         /\ \A q \in Links : mem.list[q] \in Lists => w.list[q] = mem.list[q]
<1>1. mem \in Memory /\ AllStrung(mem) /\ inst \in [Hdrs -> Nat]  BY Known
<1>2. PICK m \in Memory : m = mem  BY <1>1
<1>3. PICK i \in [Hdrs -> Nat] : i = inst  BY <1>1
<1>4. AllStrung(m) /\ m.head[Free] = p /\ p # Nil /\ w = Take(m, i, h, own)
  BY <1>1, <1>2, <1>3
<1>5. p \in Links /\ Taken(m, w, p, h, i[h])  BY <1>4, TakeFacts
<1>6. ASSUME NEW q \in Links, m.list[q] \in Lists PROVE w.list[q] = m.list[q]
  <2>1. q # p  BY <1>5, <1>6, Distinct DEF Taken
  <2>2. QED  BY <1>5, <2>1 DEF Taken, Same
<1>7. w \in Memory /\ AllStrung(w) /\ w.list[p] = Nil  BY <1>5 DEF Taken
<1>8. QED  BY <1>2, <1>3, <1>5, <1>6, <1>7

Binding(h) ==
  /\ inst[h] # 0 /\ result' = Nil /\ UNCHANGED <<inst, global_instance_ctr, detached>>
  /\ \E p \in Links, l \in Lists, w \in Memory :
       Taken(mem, w, p, h, inst[h]) /\ Placed(w, mem', p, l) /\ Joined(w, mem', p, l)

LEMMA BindKept ==
  ASSUME IndInv, NEW h \in Hdrs, Binding(h)
  PROVE  IndInv'
<1>1. PICK p \in Links, l \in Lists, w \in Memory :
        Taken(mem, w, p, h, inst[h]) /\ Placed(w, mem', p, l)
  BY DEF Binding
<1>2. PICK g \in Nat : g = global_instance_ctr  BY Known
<1>3. inst[h] <= g
  <2>1. inst[h] \in 0 .. g  BY <1>2, Known
  <2>2. QED  BY <1>2, <2>1
<1>4. PICK u : u = mem'  OBVIOUS
<1>5. PICK m : m = mem  OBVIOUS
<1>6. PICK n \in Nat \ {0} : n = inst[h]
  <2>1. inst[h] \in 0 .. g  BY <1>2, Known
  <2>2. QED  BY <2>1 DEF Binding
<1>7. Linked(m, g, detached) /\ Taken(m, w, p, h, n) /\ Placed(w, u, p, l) /\ n <= g
  BY <1>1, <1>2, <1>3, <1>4, <1>5, <1>6, Known
<1>8. Linked(u, g, detached)  BY <1>7, BoundLinked
<1>9. QED  BY <1>2, <1>4, <1>8 DEF IndInv, Found, Binding

LEMMA InsertBinds ==
  ASSUME IndInv, NEW h \in Hdrs, NEW l \in Lists, NEW own \in BOOLEAN, mk_insert(h, l, own)
  PROVE  Binding(h)
<1>1. /\ mem.head[Free] # Nil /\ inst[h] # 0
      /\ mem' = AtHead(Take(mem, inst, h, own), mem.head[Free], l)
      /\ result' = Nil /\ UNCHANGED <<inst, global_instance_ctr, detached>>
  BY DEF mk_insert, Bind
<1>2. PICK w : w = Take(mem, inst, h, own)  OBVIOUS
<1>3. PICK p : p = mem.head[Free]  OBVIOUS
<1>4. /\ p \in Links /\ Taken(mem, w, p, h, inst[h])
      /\ w \in Memory /\ AllStrung(w) /\ w.list[p] = Nil
  BY <1>1, <1>2, <1>3, BindTakes
<1>5. mem' = AtHead(w, p, l)  BY <1>1, <1>2, <1>3
<1>6. Placed(w, mem', p, l) /\ Joined(w, mem', p, l)  BY <1>4, <1>5, AtHeadPlaced
<1>7. QED  BY <1>1, <1>4, <1>6 DEF Binding

LEMMA AppendBinds ==
  ASSUME IndInv, NEW h \in Hdrs, NEW l \in Lists, mk_append(h, l)
  PROVE  Binding(h)
<1>1. /\ mem.head[Free] # Nil /\ inst[h] # 0
      /\ mem' = AtEnd(Take(mem, inst, h, TRUE), mem.head[Free], l)
      /\ result' = Nil /\ UNCHANGED <<inst, global_instance_ctr, detached>>
  BY DEF mk_append, Bind
<1>2. PICK w : w = Take(mem, inst, h, TRUE)  OBVIOUS
<1>3. PICK p : p = mem.head[Free]  OBVIOUS
<1>4. /\ p \in Links /\ Taken(mem, w, p, h, inst[h])
      /\ w \in Memory /\ AllStrung(w) /\ w.list[p] = Nil
  <2>1. PICK own \in BOOLEAN : own = TRUE  OBVIOUS
  <2>2. mem.head[Free] # Nil  BY <1>1
  <2>3. w = Take(mem, inst, h, own)  BY <1>2, <2>1
  <2>4. /\ p \in Links /\ Taken(mem, w, p, h, inst[h])
        /\ w \in Memory /\ AllStrung(w) /\ w.list[p] = Nil
        /\ \A q \in Links : mem.list[q] \in Lists => w.list[q] = mem.list[q]
    BY <1>3, <2>2, <2>3, BindTakes
  <2>5. QED  BY <2>4
<1>5. mem' = AtEnd(w, p, l)  BY <1>1, <1>2, <1>3
<1>6. Placed(w, mem', p, l) /\ Joined(w, mem', p, l)  BY <1>4, <1>5, AtEndPlaced
<1>7. QED  BY <1>1, <1>4, <1>6 DEF Binding

LEMMA AppendAfterBinds ==
  ASSUME IndInv, NEW h \in Hdrs, NEW a \in Links, mk_append_after_mkptr(h, a)
  PROVE  Binding(h)
<1>1. /\ mem.head[Free] # Nil /\ inst[h] # 0 /\ mem.list[a] \in Lists
      /\ mem' = After(Take(mem, inst, h, TRUE), mem.head[Free], a)
      /\ result' = Nil /\ UNCHANGED <<inst, global_instance_ctr, detached>>
  BY DEF mk_append_after_mkptr, Bind
<1>2. PICK w : w = Take(mem, inst, h, TRUE)  OBVIOUS
<1>3. PICK p : p = mem.head[Free]  OBVIOUS
<1>4. /\ p \in Links /\ Taken(mem, w, p, h, inst[h])
      /\ w \in Memory /\ AllStrung(w) /\ w.list[p] = Nil
      /\ w.list[a] = mem.list[a]
  <2>1. PICK own \in BOOLEAN : own = TRUE  OBVIOUS
  <2>2. mem.head[Free] # Nil  BY <1>1
  <2>3. w = Take(mem, inst, h, own)  BY <1>2, <2>1
  <2>4. /\ p \in Links /\ Taken(mem, w, p, h, inst[h])
        /\ w \in Memory /\ AllStrung(w) /\ w.list[p] = Nil
        /\ \A q \in Links : mem.list[q] \in Lists => w.list[q] = mem.list[q]
    BY <1>3, <2>2, <2>3, BindTakes
  <2>5. mem.list[a] \in Lists  BY <1>1
  <2>6. w.list[a] = mem.list[a]  BY <2>4, <2>5
  <2>7. QED  BY <2>4, <2>6
<1>5. mem' = After(w, p, a) /\ w.list[a] \in Lists  BY <1>1, <1>2, <1>3, <1>4
<1>6. Placed(w, mem', p, w.list[a]) /\ Joined(w, mem', p, w.list[a])  BY <1>4, <1>5, AfterPlaced
<1>7. PICK l \in Lists : l = w.list[a]  BY <1>5
<1>8. Placed(w, mem', p, l) /\ Joined(w, mem', p, l)  BY <1>6, <1>7
<1>9. QED  BY <1>1, <1>4, <1>8 DEF Binding

LEMMA BeforeBinds ==
  ASSUME IndInv, NEW h \in Hdrs, NEW b \in Links, BindBefore(h, b)
  PROVE  Binding(h)
<1>1. /\ mem.head[Free] # Nil /\ inst[h] # 0 /\ mem.list[b] \in Lists
      /\ mem' = Before(Take(mem, inst, h, TRUE), mem.head[Free], b)
      /\ result' = Nil /\ UNCHANGED <<inst, global_instance_ctr, detached>>
  BY DEF BindBefore, Bind
<1>2. PICK w : w = Take(mem, inst, h, TRUE)  OBVIOUS
<1>3. PICK p : p = mem.head[Free]  OBVIOUS
<1>4. /\ p \in Links /\ Taken(mem, w, p, h, inst[h])
      /\ w \in Memory /\ AllStrung(w) /\ w.list[p] = Nil
      /\ w.list[b] = mem.list[b]
  <2>1. PICK own \in BOOLEAN : own = TRUE  OBVIOUS
  <2>2. mem.head[Free] # Nil  BY <1>1
  <2>3. w = Take(mem, inst, h, own)  BY <1>2, <2>1
  <2>4. /\ p \in Links /\ Taken(mem, w, p, h, inst[h])
        /\ w \in Memory /\ AllStrung(w) /\ w.list[p] = Nil
        /\ \A q \in Links : mem.list[q] \in Lists => w.list[q] = mem.list[q]
    BY <1>3, <2>2, <2>3, BindTakes
  <2>5. mem.list[b] \in Lists  BY <1>1
  <2>6. w.list[b] = mem.list[b]  BY <2>4, <2>5
  <2>7. QED  BY <2>4, <2>6
<1>5. mem' = Before(w, p, b) /\ w.list[b] \in Lists  BY <1>1, <1>2, <1>3, <1>4
<1>6. Placed(w, mem', p, w.list[b]) /\ Joined(w, mem', p, w.list[b])  BY <1>4, <1>5, BeforePlaced
<1>7. PICK l \in Lists : l = w.list[b]  BY <1>5
<1>8. Placed(w, mem', p, l) /\ Joined(w, mem', p, l)  BY <1>6, <1>7
<1>9. QED  BY <1>1, <1>4, <1>8 DEF Binding

----------------------------------------------------------------------------
(* Searches                                                                *)

(* An operation that leaves the links in order and returns no link.        *)
LEMMA LinkedKept ==
  ASSUME IndInv, NEW u, u = mem', NEW i, i = inst', Linked(u, global_instance_ctr, detached),
         i \in [Hdrs -> 0 .. global_instance_ctr], Found(u, i, result'),
         UNCHANGED <<global_instance_ctr, detached>>
  PROVE  IndInv'
BY DEF IndInv

LEMMA NothingFound == ASSUME NEW u, NEW i PROVE Found(u, i, Nil)
BY DEF Found

(* What stands as it stood is as live as it was.                           *)
LEMMA SameLive ==
  ASSUME NEW m, NEW i, NEW u, NEW p \in Links, Same(m, u, p), Live(m, i, p)
  PROVE  Live(u, i, p)
BY DEF Same, Live

(* What a search of list l leaves, and what it may return                  *)
Searching(l) ==
  /\ UNCHANGED <<inst, global_instance_ctr, detached>>
  /\ Tidied(mem, mem', StaleOn(mem, inst, l))
  /\ result' # Nil => /\ result' \in Links /\ Live(mem, inst, result')
                      /\ mem.list[result'] = l /\ Same(mem, mem', result')

LEMMA SearchKept ==
  ASSUME IndInv, NEW l \in Lists, Searching(l)
  PROVE  IndInv'
<1>1. PICK m \in Memory : m = mem  BY Known
<1>2. PICK u : u = mem'  OBVIOUS
<1>3. PICK i : i = inst  OBVIOUS
<1>4. PICK p : p = result'  OBVIOUS
<1>5. /\ Tidied(m, u, StaleOn(m, i, l))
      /\ p # Nil => p \in Links /\ Live(m, i, p) /\ m.list[p] = l /\ Same(m, u, p)
  BY <1>1, <1>2, <1>3, <1>4 DEF Searching
<1>6. Linked(u, global_instance_ctr, detached)
  <2>1. PICK g \in Nat : g = global_instance_ctr  BY Known
  <2>2. Linked(m, g, detached)  BY <1>1, <2>1, Known
  <2>3. Tidied(m, u, Listed(m))  BY <1>5, StaleListed
  <2>4. Linked(u, g, detached)  BY <2>2, <2>3, TidiedLinked
  <2>5. QED  BY <2>1, <2>4
<1>7. Found(u, i, p)
  <2>1. SUFFICES ASSUME p # Nil PROVE p \in Links /\ Live(u, i, p) /\ u.list[p] \in Lists
    BY DEF Found
  <2>2. p \in Links /\ Live(m, i, p) /\ m.list[p] = l /\ Same(m, u, p)  BY <1>5, <2>1
  <2>3. Live(u, i, p)  BY <2>2, SameLive
  <2>4. u.list[p] = l  BY <2>2 DEF Same
  <2>5. QED  BY <2>2, <2>3, <2>4
<1>8. i \in [Hdrs -> 0 .. global_instance_ctr]  BY <1>3, Known
<1>9. i = inst' /\ UNCHANGED <<global_instance_ctr, detached>>  BY <1>3 DEF Searching
<1>10. Found(u, i, result')  BY <1>4, <1>7
<1>11. QED  BY <1>2, <1>6, <1>8, <1>9, <1>10, LinkedKept

LEMMA WalkSearches ==
  ASSUME IndInv, NEW l \in Lists, NEW W,
         result' = FirstWanted(mem, inst, Chain(mem, l), W),
         mem' = AfterSearch(mem, inst, Chain(mem, l), W),
         UNCHANGED <<inst, global_instance_ctr, detached>>
  PROVE  /\ Searching(l)
         /\ result' # Nil => result' \in W
         /\ result' = Nil =>
              \A q \in Links : mem.list[q] = l /\ Live(mem, inst, q) => q \notin W
<1>1. PICK m \in Memory : m = mem  BY Known
<1>2. PICK c : c = Chain(m, l)  OBVIOUS
<1>3. PICK i : i = inst  OBVIOUS
<1>4. PICK p : p = FirstWanted(m, i, c, W)  OBVIOUS
<1>5. PICK u : u = AfterSearch(m, i, c, W)  OBVIOUS
<1>6. AllStrung(m)  BY <1>1, Known
<1>7. /\ p # Nil => p \in Links /\ p \in W /\ Live(m, i, p) /\ m.list[p] = l /\ Same(m, u, p)
      /\ p = Nil => \A q \in Links : m.list[q] = l /\ Live(m, i, q) => q \notin W
  BY <1>2, <1>4, <1>5, <1>6, Searched
<1>8. Tidied(m, u, StaleOn(m, i, l))  BY <1>2, <1>5, <1>6, ListTidied
<1>9. result' = p /\ mem' = u  BY <1>1, <1>2, <1>3, <1>4, <1>5
<1>10. QED  BY <1>1, <1>3, <1>7, <1>8, <1>9 DEF Searching

LEMMA FindSearches ==
  ASSUME IndInv, NEW h \in Hdrs, NEW l \in Lists, find_in_mklist(h, l)
  PROVE  /\ Searching(l)
         /\ result' # Nil => mem.hdr[result'] = h
         /\ result' = Nil =>
              \A q \in Links : mem.list[q] = l /\ Live(mem, inst, q) => mem.hdr[q] # h
<1>1. PICK W : W = BoundTo(mem, h)  OBVIOUS
<1>2. /\ result' = FirstWanted(mem, inst, Chain(mem, l), W)
      /\ mem' = AfterSearch(mem, inst, Chain(mem, l), W)
      /\ UNCHANGED <<inst, global_instance_ctr, detached>>
  BY <1>1 DEF find_in_mklist, FindIn, AfterFind
<1>3. /\ Searching(l)
      /\ result' # Nil => result' \in W
      /\ result' = Nil =>
           \A q \in Links : mem.list[q] = l /\ Live(mem, inst, q) => q \notin W
  BY <1>2, WalkSearches
<1>4. QED  BY <1>1, <1>3 DEF BoundTo

LEMMA FirstSearches ==
  ASSUME IndInv, NEW l \in Lists, first_mkptr(l)
  PROVE  /\ Searching(l)
         /\ result' = Nil => \A q \in Links : mem.list[q] = l => ~Live(mem, inst, q)
<1>1. PICK W : W = Links  OBVIOUS
<1>2. /\ result' = FirstWanted(mem, inst, Chain(mem, l), W)
      /\ mem' = AfterSearch(mem, inst, Chain(mem, l), W)
      /\ UNCHANGED <<inst, global_instance_ctr, detached>>
  BY <1>1 DEF first_mkptr, FirstIn, AfterFirst
<1>3. /\ Searching(l)
      /\ result' = Nil =>
           \A q \in Links : mem.list[q] = l /\ Live(mem, inst, q) => q \notin W
  BY <1>2, WalkSearches
<1>4. QED  BY <1>1, <1>3

(* next_mkptr looks at links of the rest of the list, at none twice.       *)
LEMMA ExaminedFacts ==
  ASSUME NEW m, NEW i, NEW c \in Seq(Links), IsInjective(c), NEW s, s = Examined(m, i, c)
  PROVE  /\ s \in Seq(Links) /\ IsInjective(s)
         /\ \A k \in 1 .. Len(s) : \E j \in 1 .. Len(c) : s[k] = c[j]
<1>1. PICK n \in Nat : n = Len(c)  OBVIOUS
<1>2. PICK S : S = {k \in DOMAIN c : k % 2 = 1 /\ Live(m, i, c[k])}  OBVIOUS
<1>3. PICK N : N = IF S = {} THEN Len(c) ELSE Min(S)  OBVIOUS
<1>4. N \in Nat /\ N <= n
  <2>1. CASE S = {}  BY <1>1, <1>3, <2>1
  <2>2. CASE S # {}
    <3>1. S \subseteq 1 .. n  BY <1>1, <1>2
    <3>2. S \in SUBSET Nat  BY <1>1, <3>1
    <3>3. Min(S) \in S  BY <2>2, <3>2, MinFacts
    <3>4. PICK k : k = Min(S)  OBVIOUS
    <3>5. k \in 1 .. n  BY <3>1, <3>3, <3>4
    <3>6. N = k  BY <1>3, <2>2, <3>4
    <3>7. QED  BY <3>5, <3>6
  <2>3. QED  BY <2>1, <2>2
<1>5. PICK H : H = (N + 1) \div 2  OBVIOUS
<1>6. H \in Nat /\ 2 * H <= N + 1  BY <1>4, <1>5
<1>7. s = [j \in 1 .. H |-> c[2 * j - 1]]  BY <1>2, <1>3, <1>5 DEF Examined
<1>8. \A j \in 1 .. H : 2 * j - 1 \in 1 .. n  BY <1>1, <1>4, <1>6
<1>9. \A j \in 1 .. H : c[2 * j - 1] \in Links  BY <1>1, <1>8
<1>10. s \in Seq(Links) /\ Len(s) = H
  BY <1>6, <1>7, <1>9
<1>11. IsInjective(s)
  <2>1. \A j, k \in 1 .. n : c[j] = c[k] => j = k  BY <1>1, SetView
  <2>2. ASSUME NEW j \in 1 .. H, NEW k \in 1 .. H, s[j] = s[k] PROVE j = k
    <3>1. c[2 * j - 1] = c[2 * k - 1]  BY <1>7, <2>2
    <3>2. 2 * j - 1 = 2 * k - 1  BY <1>8, <2>1, <3>1
    <3>3. QED  BY <1>6, <3>2
  <2>3. DOMAIN s = 1 .. H  BY <1>7
  <2>4. QED  BY <2>2, <2>3 DEF IsInjective
<1>12. ASSUME NEW k \in 1 .. Len(s) PROVE \E j \in 1 .. Len(c) : s[k] = c[j]
  <2>1. s[k] = c[2 * k - 1] /\ 2 * k - 1 \in 1 .. n  BY <1>7, <1>8, <1>10
  <2>2. QED  BY <1>1, <2>1
<1>13. QED  BY <1>10, <1>11, <1>12

LEMMA NextSearches ==
  ASSUME IndInv, NEW o \in Links, next_mkptr(o)
  PROVE  mem.list[o] \in Lists /\ Searching(mem.list[o])
<1>1. PICK m \in Memory : m = mem  BY Known
<1>2. PICK i : i = inst  OBVIOUS
<1>3. PICK c : c = From(m, m.next[o])  OBVIOUS
<1>4. PICK s : s = Examined(m, i, c)  OBVIOUS
<1>5. PICK p : p = FirstWanted(m, i, s, Links)  OBVIOUS
<1>6. PICK u : u = AfterSearch(m, i, s, Links)  OBVIOUS
<1>7. /\ m.list[o] \in Lists
      /\ result' = p /\ u = mem' /\ i = inst'
      /\ UNCHANGED <<global_instance_ctr, detached>>
  BY <1>1, <1>2, <1>3, <1>4, <1>5, <1>6 DEF next_mkptr, NextOf, AfterNext
<1>8. AllStrung(m)  BY <1>1, Known
<1>9. /\ c \in Seq(Links) /\ IsInjective(c)
      /\ \A k \in 1 .. Len(c) : m.list[c[k]] = m.list[o]
  BY <1>3, <1>7, <1>8, OnwardFacts
<1>10. /\ s \in Seq(Links) /\ IsInjective(s)
       /\ \A k \in 1 .. Len(s) : \E j \in 1 .. Len(c) : s[k] = c[j]
  BY <1>4, <1>9, ExaminedFacts
<1>11. \A k \in 1 .. Len(s) : m.list[s[k]] \in Lists  BY <1>7, <1>9, <1>10
<1>12. PICK l \in Lists : l = m.list[o]  BY <1>7
<1>13. Tidied(m, u, StaleOn(m, i, l))
  <2>1. PICK W : W = Links  OBVIOUS
  <2>2. u = AfterSearch(m, i, s, W)  BY <1>6, <2>1
  <2>3. s \in Seq(Links) /\ IsInjective(s)  BY <1>10
  <2>4. PICK D : D = StaleOn(m, i, l)  OBVIOUS
  <2>5. \A k \in 1 .. Len(s) : s[k] \in Links /\ m.list[s[k]] = l
    BY <1>9, <1>10, <1>12
  <2>6. \A k \in 1 .. Len(s) : ~Live(m, i, s[k]) => s[k] \in D
    BY <2>4, <2>5 DEF StaleOn, Stale
  <2>7. Tidied(m, u, D)  BY <1>8, <1>11, <2>2, <2>3, <2>6, SearchTidies
  <2>8. QED  BY <2>4, <2>7
<1>14. p # Nil => p \in Links /\ Live(m, i, p) /\ m.list[p] = l /\ Same(m, u, p)
  <2>1. SUFFICES ASSUME p # Nil
                 PROVE  p \in Links /\ Live(m, i, p) /\ m.list[p] = l /\ Same(m, u, p)
    OBVIOUS
  <2>2. PICK W : W = Links  OBVIOUS
  <2>3. s \in Seq(Links) /\ p = FirstWanted(m, i, s, W)  BY <1>5, <1>10, <2>2
  <2>4. Live(m, i, p) /\ \E k \in 1 .. Len(s) : p = s[k]  BY <2>1, <2>3, FoundFacts
  <2>5. p \in Links /\ m.list[p] = l  BY <1>9, <1>10, <1>12, <2>4
  <2>6. Same(m, u, p)  BY <1>13, <2>4, <2>5 DEF Tidied, StaleOn, Stale
  <2>7. QED  BY <2>4, <2>5, <2>6
<1>15. QED  BY <1>1, <1>2, <1>7, <1>12, <1>13, <1>14 DEF Searching

----------------------------------------------------------------------------
(* Links that are pulled off their list, and headers                       *)

LEMMA GetKept ==
  ASSUME IndInv, NEW h \in Hdrs, get_mkhdr(h)
  PROVE  IndInv'
<1>1. PICK g \in Nat : g = global_instance_ctr  BY Known
<1>2. PICK i \in [Hdrs -> 0 .. g] : i = inst  BY <1>1, Known
<1>3. PICK m : m = mem  OBVIOUS
<1>4. /\ global_instance_ctr' = g + 1 /\ inst' = [i EXCEPT ![h] = g + 1]
      /\ result' = Nil /\ mem' = m /\ detached' = detached
  BY <1>1, <1>2, <1>3 DEF get_mkhdr
<1>5. inst' \in [Hdrs -> 0 .. g + 1]
  <2>1. \A k \in Hdrs : (IF k = h THEN g + 1 ELSE i[k]) \in 0 .. g + 1  OBVIOUS
  <2>2. inst' = [k \in Hdrs |-> IF k = h THEN g + 1 ELSE i[k]]  BY <1>4
  <2>3. QED  BY <2>1, <2>2
<1>6. Linked(m, g, detached)  BY <1>1, <1>3, Known
<1>7. Linked(m, g + 1, detached)
  <2>1. ASSUME NEW p \in Links PROVE m.stamp[p] <= g + 1
    <3>1. m.stamp[p] <= g /\ m.stamp[p] \in Nat  BY <1>6 DEF Linked, Memory
    <3>2. QED  BY <3>1
  <2>2. QED  BY <1>6, <2>1 DEF Linked
<1>8. QED  BY <1>4, <1>5, <1>7, Known DEF IndInv, Found

LEMMA VdestroyKept ==
  ASSUME IndInv, NEW h \in Hdrs, vdestroy_mkhdr_generic(h)
  PROVE  IndInv'
<1>1. PICK g \in Nat : g = global_instance_ctr  BY Known
<1>2. PICK i \in [Hdrs -> 0 .. g] : i = inst  BY <1>1, Known
<1>3. PICK j : j = [i EXCEPT ![h] = 0]  OBVIOUS
<1>4. /\ inst' = j /\ result' = Nil /\ mem' = mem
      /\ UNCHANGED <<global_instance_ctr, detached>>
  BY <1>2, <1>3 DEF vdestroy_mkhdr_generic
<1>5. j \in [Hdrs -> 0 .. g]
  <2>1. j = [k \in Hdrs |-> IF k = h THEN 0 ELSE i[k]]  BY <1>3
  <2>2. \A k \in Hdrs : (IF k = h THEN 0 ELSE i[k]) \in 0 .. g  OBVIOUS
  <2>3. QED  BY <2>1, <2>2
<1>6. QED  BY <1>1, <1>4, <1>5, Known, NothingFound, LinkedKept

(* What find_in_mklist leaves to those who take what it found              *)
LEMMA FoundOnList ==
  ASSUME IndInv, NEW h \in Hdrs, NEW l \in Lists, NEW p, p = FindIn(mem, inst, h, l), p # Nil,
         NEW u, u = AfterFind(mem, inst, h, l)
  PROVE  /\ p \in Links /\ u.list[p] = l /\ u \in Memory /\ AllStrung(u)
         /\ Linked(u, global_instance_ctr, detached)
         /\ Tidied(mem, u, StaleOn(mem, inst, l))
         /\ mem.list[p] = l /\ Live(mem, inst, p) /\ Same(mem, u, p)
<1>1. PICK m \in Memory : m = mem  BY Known
<1>2. PICK c : c = Chain(m, l)  OBVIOUS
<1>3. PICK i : i = inst  OBVIOUS
<1>4. PICK W : W = BoundTo(m, h)  OBVIOUS
<1>5. p = FirstWanted(m, i, c, W)  BY <1>1, <1>2, <1>3, <1>4 DEF FindIn
<1>6. u = AfterSearch(m, i, c, W)  BY <1>1, <1>2, <1>3, <1>4 DEF AfterFind
<1>7. AllStrung(m)  BY <1>1, Known
<1>8. /\ Tidied(m, u, StaleOn(m, i, l))
      /\ p \in Links /\ Live(m, i, p) /\ m.list[p] = l /\ Same(m, u, p)
  <2>1. Tidied(m, u, StaleOn(m, i, l))  BY <1>2, <1>6, <1>7, ListTidied
  <2>2. QED  BY <1>2, <1>5, <1>6, <1>7, <2>1, Searched
<1>9. PICK g \in Nat : g = global_instance_ctr  BY Known
<1>10. Linked(m, g, detached)  BY <1>1, <1>9, Known
<1>11. Tidied(m, u, Listed(m))  BY <1>8, StaleListed
<1>12. Linked(u, g, detached)  BY <1>10, <1>11, TidiedLinked
<1>13. p \in Links /\ u.list[p] = l  BY <1>8 DEF Same
<1>14. u \in Memory /\ AllStrung(u)  BY <1>12 DEF Linked
<1>15. QED  BY <1>1, <1>3, <1>8, <1>9, <1>12, <1>13, <1>14

LEMMA DiscardedLinked ==
  ASSUME NEW g \in Nat, NEW D, NEW m, Linked(m, g, D), NEW p \in Links, m.list[p] \in Lists,
         NEW u, Discarded(m, u, p)
  PROVE  Linked(u, g, D)
<1>1. ASSUME NEW q \in Links
      PROVE  /\ u.stamp[q] <= g
             /\ (u.list[q] = Nil) = (q \in D)
             /\ u.list[q] = Free => u.hdr[q] = Nil
             /\ u.list[q] \in Lists => Bound(u, q)
  <2>1. /\ m.stamp[q] <= g
        /\ (m.list[q] = Nil) = (q \in D)
        /\ m.list[q] = Free => m.hdr[q] = Nil
        /\ m.list[q] \in Lists => Bound(m, q)
    BY DEF Linked
  <2>2. CASE q = p
    <3>1. u.hdr[p] = Nil /\ u.stamp[p] = 0 /\ u.list[p] = Free  BY DEF Discarded, Freed
    <3>2. m.list[p] # Nil /\ Free \notin Lists \cup {Nil}  BY Distinct
    <3>3. QED  BY <2>1, <2>2, <3>1, <3>2
  <2>3. CASE q # p
    <3>1. Same(m, u, q)  BY <2>3 DEF Discarded
    <3>2. QED  BY <2>1, <3>1 DEF Same, Bound
  <2>4. QED  BY <2>2, <2>3
<1>2. u \in Memory /\ AllStrung(u)  BY DEF Discarded
<1>3. QED  BY <1>1, <1>2 DEF Linked

LEMMA PullKept ==
  ASSUME IndInv, NEW h \in Hdrs, NEW l \in Lists, mk_pull(h, l)
  PROVE  IndInv'
<1>1. PICK p : p = FindIn(mem, inst, h, l)  OBVIOUS
<1>2. PICK u : u = AfterFind(mem, inst, h, l)  OBVIOUS
<1>3. PICK w : w = Unlink(u, p)  OBVIOUS
<1>4. /\ p # Nil /\ mem' = w /\ detached' = detached \cup {p} /\ result' = Nil
      /\ UNCHANGED <<inst, global_instance_ctr>>
  BY <1>1, <1>2, <1>3 DEF mk_pull
<1>5. /\ p \in Links /\ u.list[p] = l /\ u \in Memory /\ AllStrung(u)
      /\ Linked(u, global_instance_ctr, detached)
  BY <1>1, <1>2, <1>4, FoundOnList
<1>6. Placed(u, w, p, Nil)
  <2>1. u.list[p] \in Lists \cup {Nil}  BY <1>5
  <2>2. QED  BY <1>3, <1>5, <2>1, UnlinkSame
<1>7. PICK g \in Nat : g = global_instance_ctr  BY Known
<1>8. ASSUME NEW q \in Links
      PROVE  /\ w.stamp[q] <= g
             /\ (w.list[q] = Nil) = (q \in detached \cup {p})
             /\ w.list[q] = Free => w.hdr[q] = Nil
             /\ w.list[q] \in Lists => Bound(w, q)
  <2>1. /\ u.stamp[q] <= g
        /\ (u.list[q] = Nil) = (q \in detached)
        /\ u.list[q] = Free => u.hdr[q] = Nil
        /\ u.list[q] \in Lists => Bound(u, q)
    BY <1>5, <1>7 DEF Linked
  <2>2. CASE q = p
    <3>1. w.list[p] = Nil /\ w.stamp[p] = u.stamp[p]  BY <1>6 DEF Placed
    <3>2. Free # Nil /\ Nil \notin Lists  BY Distinct
    <3>3. QED  BY <2>1, <2>2, <3>1, <3>2
  <2>3. CASE q # p
    <3>1. Same(u, w, q)  BY <1>6, <2>3 DEF Placed
    <3>2. QED  BY <2>1, <2>3, <3>1 DEF Same, Bound
  <2>4. QED  BY <2>2, <2>3
<1>9. w \in Memory /\ AllStrung(w)  BY <1>6 DEF Placed
<1>10. Linked(w, g, detached \cup {p})  BY <1>8, <1>9 DEF Linked
<1>11. detached \cup {p} \subseteq Links  BY <1>5, Known
<1>12. QED  BY <1>4, <1>7, <1>10, <1>11, Known DEF IndInv, Found

LEMMA PullDiscardKept ==
  ASSUME IndInv, NEW h \in Hdrs, NEW l \in Lists, mk_pull_discard(h, l)
  PROVE  IndInv'
<1>1. PICK p : p = FindIn(mem, inst, h, l)  OBVIOUS
<1>2. PICK u : u = AfterFind(mem, inst, h, l)  OBVIOUS
<1>3. PICK w : w = Discard(u, p)  OBVIOUS
<1>4. /\ p # Nil /\ mem' = w /\ result' = Nil
      /\ UNCHANGED <<inst, global_instance_ctr, detached>>
  BY <1>1, <1>2, <1>3 DEF mk_pull_discard
<1>5. /\ p \in Links /\ u.list[p] = l /\ u \in Memory /\ AllStrung(u)
      /\ Linked(u, global_instance_ctr, detached)
  BY <1>1, <1>2, <1>4, FoundOnList
<1>6. Discarded(u, w, p)
  <2>1. u.list[p] \in Lists \cup {Nil}  BY <1>5
  <2>2. QED  BY <1>3, <1>5, <2>1, DiscardFacts
<1>7. PICK g \in Nat : g = global_instance_ctr  BY Known
<1>8. Linked(w, g, detached)
  <2>1. Linked(u, g, detached) /\ u.list[p] \in Lists  BY <1>5, <1>7
  <2>2. QED  BY <1>5, <1>6, <2>1, DiscardedLinked
<1>9. PICK i : i = inst  OBVIOUS
<1>10. /\ w = mem' /\ i = inst' /\ Found(w, i, result')
       /\ i \in [Hdrs -> 0 .. global_instance_ctr]
       /\ Linked(w, global_instance_ctr, detached)
       /\ UNCHANGED <<global_instance_ctr, detached>>
  BY <1>4, <1>7, <1>8, <1>9, Known, NothingFound
<1>11. QED  BY <1>10, LinkedKept

----------------------------------------------------------------------------
(* Walks that treat every link of a list                                   *)

(* The memory of the links and the instances of the headers                *)
Stages(g) == [m : Memory, i : [Hdrs -> 0 .. g]]

(* Every stage is made from the one before by a function of the link.      *)
HasStages(S, x, c, R) ==
  \E f \in [0 .. Len(c) -> S] : f[0] = x /\ \A n \in 1 .. Len(c) : f[n] = R[c[n]][f[n - 1]]

LEMMA StagesExist ==
  ASSUME NEW S, NEW x \in S, NEW c \in Seq(Links), NEW R \in [Links -> [S -> S]]
  PROVE  HasStages(S, x, c, R)
<1>1. PICK L \in Nat : L = Len(c)  OBVIOUS
<1>2. \A n \in 1 .. L : c[n] \in Links  BY <1>1
<1>3. PICK G : G = [n \in 1 .. L |-> R[c[n]]]  OBVIOUS
<1>4. G \in [1 .. L -> [S -> S]]  BY <1>2, <1>3
<1>5. PICK f \in [0 .. L -> S] : f[0] = x /\ \A n \in 1 .. L : f[n] = G[n][f[n - 1]]
  <2>1. x \in S  OBVIOUS
  <2>2. QED  BY <1>4, <2>1, Iterated, SMTT(60)
<1>6. \A n \in 1 .. L : f[n] = R[c[n]][f[n - 1]]  BY <1>3, <1>5
<1>7. QED  BY <1>1, <1>5, <1>6 DEF HasStages

(* The links of c are treated one after the other, each is left alone or   *)
(* discarded; until then it stands for what it stood for.                  *)
LEMMA StagesTidy ==
  ASSUME NEW g \in Nat, NEW v \in Memory, AllStrung(v), NEW j \in [Hdrs -> 0 .. g],
         NEW c \in Seq(Links), IsInjective(c), \A k \in 1 .. Len(c) : v.list[c[k]] \in Lists,
         NEW D, NEW f, f[0] = [m |-> v, i |-> j],
         \A n \in 1 .. Len(c) : f[n - 1] \in Stages(g) =>
           /\ f[n] \in Stages(g)
           /\ \/ f[n].m = f[n - 1].m
              \/ c[n] \in D /\ f[n].m = Discard(f[n - 1].m, c[n])
  PROVE  /\ \A n \in 0 .. Len(c) : f[n] \in Stages(g) /\ Tidied(v, f[n].m, D)
         /\ \A n \in 1 .. Len(c) : Same(v, f[n - 1].m, c[n])
<1>1. PICK L \in Nat : L = Len(c)  OBVIOUS
<1>2. PICK S : S = Stages(g)  OBVIOUS
<1>3. \A n \in 1 .. L : f[n - 1] \in S =>
           /\ f[n] \in S
           /\ f[n].m = f[n - 1].m \/ (c[n] \in D /\ f[n].m = Discard(f[n - 1].m, c[n]))
  BY <1>1, <1>2
<1>4. f[0] \in S  BY <1>2 DEF Stages
<1>5. \A n \in 0 .. L : f[n] \in S
  <2> DEFINE I == {n \in Nat : n <= L /\ f[n] \notin S}
  <2>1. I = {}
    <3>1. SUFFICES ASSUME I # {} PROVE FALSE  OBVIOUS
    <3>2. PICK n \in I : \A k \in I : n <= k
      <4>1. I \in SUBSET Nat  OBVIOUS
      <4>2. QED  BY <3>1, <4>1, LeastNumber
    <3>3. n \in Nat /\ n <= L /\ f[n] \notin S  BY <3>2
    <3>4. n # 0  BY <1>4, <3>3
    <3>5. n - 1 \in Nat /\ n - 1 <= L /\ ~(n <= n - 1) /\ n \in 1 .. L  BY <3>3, <3>4
    <3>6. f[n - 1] \in S  BY <3>2, <3>5
    <3>7. QED  BY <1>3, <3>3, <3>5, <3>6
  <2>2. QED  BY <2>1
<1>6. PICK r : r = [n \in 0 .. L |-> f[n].m]  OBVIOUS
<1>7. \A n \in 0 .. L : r[n] = f[n].m  BY <1>6
<1>8. r[0] = v  BY <1>7
<1>9. \A n \in 1 .. L : r[n] = r[n - 1] \/ (c[n] \in D /\ r[n] = Discard(r[n - 1], c[n]))
  <2>1. ASSUME NEW n \in 1 .. L
        PROVE  r[n] = r[n - 1] \/ (c[n] \in D /\ r[n] = Discard(r[n - 1], c[n]))
    <3>1. n - 1 \in 0 .. L /\ n \in 0 .. L  OBVIOUS
    <3>2. r[n] = f[n].m /\ r[n - 1] = f[n - 1].m  BY <1>7, <3>1
    <3>3. f[n].m = f[n - 1].m \/ (c[n] \in D /\ f[n].m = Discard(f[n - 1].m, c[n]))
      BY <1>3, <1>5, <3>1
    <3>4. QED  BY <3>2, <3>3
  <2>2. QED  BY <2>1
<1>10. \A k \in 1 .. Len(c) : v.list[c[k]] \in Lists \cup {Nil}  OBVIOUS
<1>11. L \in 0 .. Len(c)  BY <1>1
<1>12. \A n \in 0 .. L : Tidied(v, r[n], D)
  BY <1>8, <1>9, <1>10, <1>11, Walked
<1>13. ASSUME NEW n \in 1 .. L PROVE Same(v, r[n - 1], c[n])
  <2>1. PICK N : N = n - 1  OBVIOUS
  <2>2. N \in 0 .. Len(c) /\ N \in 0 .. N /\ n \in 1 .. Len(c) /\ N < n  BY <1>1, <2>1
  <2>3. PICK E : E = {c[k] : k \in 1 .. N}  OBVIOUS
  <2>4. \A k \in 1 .. N : r[k] = r[k - 1] \/ (c[k] \in E /\ r[k] = Discard(r[k - 1], c[k]))
    <3>1. \A k \in 1 .. N : k \in 1 .. L /\ c[k] \in E  BY <2>1, <2>3
    <3>2. QED  BY <1>9, <3>1
  <2>5. \A k \in 0 .. N : Tidied(v, r[k], E)  BY <1>8, <1>10, <2>2, <2>4, Walked
  <2>6. Tidied(v, r[N], E)  BY <2>2, <2>5
  <2>7. c[n] \in Links /\ c[n] \notin E
    <3>1. \A a, b \in 1 .. Len(c) : c[a] = c[b] => a = b  BY SetView
    <3>2. \A k \in 1 .. N : k \in 1 .. Len(c) /\ k # n  BY <2>2
    <3>3. QED  BY <2>2, <2>3, <3>1, <3>2
  <2>8. QED  BY <2>1, <2>6, <2>7 DEF Tidied
<1>14. \A n \in 1 .. L : n - 1 \in 0 .. L  OBVIOUS
<1>15. QED  BY <1>1, <1>2, <1>5, <1>7, <1>12, <1>13, <1>14

(* Numbers that stay or fall to zero                                       *)
LEMMA Falls ==
  ASSUME NEW L \in Nat, NEW e, \A n \in 1 .. L : e[n] = e[n - 1] \/ e[n] = 0
  PROVE  /\ \A a \in 0 .. L : e[L] = e[a] \/ e[L] = 0
         /\ e[L] # e[0] => \E k \in 1 .. L : e[k - 1] = e[0] /\ e[k] # e[0]
<1>1. ASSUME NEW a \in 0 .. L, e[L] # e[a], e[L] # 0 PROVE FALSE
  <2> DEFINE I == {n \in Nat : a <= n /\ n <= L /\ e[n] # e[a] /\ e[n] # 0}
  <2>1. L \in I  BY <1>1
  <2>2. I \in SUBSET Nat /\ I # {}  BY <2>1
  <2>3. PICK n \in I : \A k \in I : n <= k  BY <2>2, LeastNumber
  <2>4. n \in Nat /\ a <= n /\ n <= L /\ e[n] # e[a] /\ e[n] # 0  BY <2>3
  <2>5. n # a  BY <2>4
  <2>6. n \in 1 .. L /\ n - 1 \in Nat /\ a <= n - 1 /\ n - 1 <= L /\ ~(n <= n - 1)
    BY <2>4, <2>5
  <2>7. e[n] = e[n - 1]  BY <2>4, <2>6
  <2>8. n - 1 \in I  BY <2>4, <2>6, <2>7
  <2>9. QED  BY <2>3, <2>6, <2>8
<1>2. ASSUME e[L] # e[0] PROVE \E k \in 1 .. L : e[k - 1] = e[0] /\ e[k] # e[0]
  <2> DEFINE I == {n \in Nat : n <= L /\ e[n] # e[0]}
  <2>1. L \in I  BY <1>2
  <2>2. I \in SUBSET Nat /\ I # {}  BY <2>1
  <2>3. PICK n \in I : \A k \in I : n <= k  BY <2>2, LeastNumber
  <2>4. n \in Nat /\ n <= L /\ e[n] # e[0]  BY <2>3
  <2>5. n # 0  BY <2>4
  <2>6. n \in 1 .. L /\ n - 1 \in Nat /\ n - 1 <= L /\ ~(n <= n - 1)  BY <2>4, <2>5
  <2>7. e[n - 1] = e[0]  BY <2>3, <2>6
  <2>8. QED  BY <2>4, <2>6, <2>7
<1>3. QED  BY <1>1, <1>2

LEMMA DestroyLinkType ==
  ASSUME NEW g \in Nat, NEW s \in Stages(g), NEW p \in Links, NEW t, t = DestroyLink(s, p)
  PROVE  t \in Stages(g) /\ t.m = Discard(s.m, p)
<1>1. s.m \in Memory /\ s.i \in [Hdrs -> 0 .. g]  BY DEF Stages
<1>2. t.m = Discard(s.m, p)  BY DEF DestroyLink, Discard
<1>3. t.m \in Memory  BY <1>1, <1>2, DiscardType
<1>4. PICK h : h = s.m.hdr[p]  OBVIOUS
<1>5. PICK j : j = IF Owned(s.m, s.i, p) THEN [s.i EXCEPT ![h] = 0] ELSE s.i  OBVIOUS
<1>6. j \in [Hdrs -> 0 .. g]
  <2>1. PICK i \in [Hdrs -> 0 .. g] : i = s.i  BY <1>1
  <2>2. [i EXCEPT ![h] = 0] \in [Hdrs -> 0 .. g]
    <3>1. [i EXCEPT ![h] = 0] = [k \in Hdrs |-> IF k = h THEN 0 ELSE i[k]]  OBVIOUS
    <3>2. \A k \in Hdrs : (IF k = h THEN 0 ELSE i[k]) \in 0 .. g  OBVIOUS
    <3>3. QED  BY <3>1, <3>2
  <2>3. QED  BY <1>5, <2>1, <2>2
<1>7. t = [m |-> Recycle(Unlink(s.m, p), p), i |-> j]  BY <1>4, <1>5 DEF DestroyLink
<1>8. t = [m |-> t.m, i |-> j]  BY <1>7
<1>9. QED  BY <1>2, <1>3, <1>6, <1>8 DEF Stages

LEMMA VisitType ==
  ASSUME NEW g \in Nat, NEW s \in Stages(g), NEW p \in Links, NEW K, NEW t, t = Visit(s, p, K)
  PROVE  t \in Stages(g) /\ (t.m = s.m \/ t.m = Discard(s.m, p))
<1>1. s.m \in Memory /\ s.i \in [Hdrs -> 0 .. g] /\ s = [m |-> s.m, i |-> s.i]
  BY DEF Stages
<1>2. CASE Live(s.m, s.i, p)
  <2>1. PICK j : j = [h \in Hdrs |-> IF h = s.m.hdr[p] /\ h \in K THEN 0 ELSE s.i[h]]  OBVIOUS
  <2>2. j \in [Hdrs -> 0 .. g]  BY <1>1, <2>1
  <2>3. t = [s EXCEPT !.i = j]  BY <1>2, <2>1 DEF Visit
  <2>4. t = [m |-> s.m, i |-> j]  BY <1>1, <2>3
  <2>5. QED  BY <1>1, <2>2, <2>4 DEF Stages
<1>3. CASE ~Live(s.m, s.i, p)
  <2>1. PICK d : d = Discard(s.m, p)  OBVIOUS
  <2>2. d \in Memory  BY <1>1, <2>1, DiscardType
  <2>3. t = [s EXCEPT !.m = d]  BY <1>3, <2>1 DEF Visit
  <2>4. t = [m |-> d, i |-> s.i]  BY <1>1, <2>3
  <2>5. QED  BY <1>1, <2>1, <2>2, <2>4 DEF Stages
<1>4. QED  BY <1>2, <1>3

(* What DestroyLinks and apply_to_mklist compute                           *)
Destroyed(v, j, c) ==
  LET after[n \in 0 .. Len(c)] == IF n = 0 THEN [m |-> v, i |-> j]
                                  ELSE DestroyLink(after[n - 1], c[n])
  IN after[Len(c)]

Visited(v, j, c, K) ==
  LET after[n \in 0 .. Len(c)] == IF n = 0 THEN [m |-> v, i |-> j]
                                  ELSE Visit(after[n - 1], c[n], K)
  IN after[Len(c)]

DestroyRun(f, v, j, c, s) ==
  /\ f[0] = [m |-> v, i |-> j] /\ f[Len(c)] = s
  /\ \A n \in 1 .. Len(c) : f[n] = DestroyLink(f[n - 1], c[n])

LEMMA DestroyPath ==
  ASSUME NEW g \in Nat, NEW v \in Memory, NEW j \in [Hdrs -> 0 .. g],
         NEW c \in Seq(Links), NEW s, s = Destroyed(v, j, c)
  PROVE  \E f : DestroyRun(f, v, j, c, s)
<1> DEFINE E(r) == [n \in 0 .. Len(c) |-> IF n = 0 THEN [m |-> v, i |-> j]
                                          ELSE DestroyLink(r[n - 1], c[n])]
           after == CHOOSE r : r = E(r)
<1>1. s = after[Len(c)]  BY DEF Destroyed
<1>2. PICK S : S = Stages(g)  OBVIOUS
<1>3. PICK x : x = [m |-> v, i |-> j]  OBVIOUS
<1>4. x \in S  BY <1>2, <1>3 DEF Stages
<1>5. \E r : r = E(r)
  <2>1. PICK R : R = [p \in Links |-> [t \in S |-> DestroyLink(t, p)]]  OBVIOUS
  <2>2. \A p \in Links : \A t \in S : DestroyLink(t, p) \in S
    <3>1. ASSUME NEW p \in Links, NEW t \in S PROVE DestroyLink(t, p) \in S
      <4>1. t \in Stages(g)  BY <1>2
      <4>2. QED  BY <1>2, <4>1, DestroyLinkType
    <3>2. QED  BY <3>1
  <2>3. R \in [Links -> [S -> S]]
    <3>1. ASSUME NEW p \in Links PROVE R[p] \in [S -> S]
      <4>1. R[p] = [t \in S |-> DestroyLink(t, p)]  BY <2>1
      <4>2. QED  BY <2>2, <4>1
    <3>2. R = [p \in Links |-> R[p]]  BY <2>1
    <3>3. QED  BY <3>1, <3>2
  <2>4. PICK f \in [0 .. Len(c) -> S] :
          f[0] = x /\ \A n \in 1 .. Len(c) : f[n] = R[c[n]][f[n - 1]]
    <3>1. HasStages(S, x, c, R)  BY <1>4, <2>3, StagesExist
    <3>2. QED  BY <3>1 DEF HasStages
  <2>5. ASSUME NEW n \in 0 .. Len(c)
        PROVE  f[n] = IF n = 0 THEN [m |-> v, i |-> j] ELSE DestroyLink(f[n - 1], c[n])
    <3>1. CASE n = 0  BY <1>3, <2>4, <3>1
    <3>2. CASE n # 0
      <4>1. n \in 1 .. Len(c) /\ n - 1 \in 0 .. Len(c) /\ c[n] \in Links  BY <3>2
      <4>2. f[n] = R[c[n]][f[n - 1]] /\ f[n - 1] \in S  BY <2>4, <4>1
      <4>3. R[c[n]][f[n - 1]] = DestroyLink(f[n - 1], c[n])  BY <2>1, <4>1, <4>2
      <4>4. QED  BY <3>2, <4>2, <4>3
    <3>3. QED  BY <3>1, <3>2
  <2>6. f = E(f)
    <3>1. f = [n \in 0 .. Len(c) |-> f[n]]  BY <2>4
    <3>2. QED  BY <2>5, <3>1
  <2>7. QED  BY <2>6
<1>6. after = E(after)  BY <1>5
<1>7. PICK f : f = after  OBVIOUS
<1>8. \A n \in 0 .. Len(c) : f[n] = IF n = 0 THEN [m |-> v, i |-> j]
                                    ELSE DestroyLink(f[n - 1], c[n])
  <2>1. f = E(f)  BY <1>6, <1>7
  <2>2. QED  BY <2>1, Zenon
<1>9. f[Len(c)] = s  BY <1>1, <1>7
<1> HIDE DEF E, after
<1>10. f[0] = [m |-> v, i |-> j] /\ \A n \in 1 .. Len(c) : f[n] = DestroyLink(f[n - 1], c[n])
  <2>1. 0 \in 0 .. Len(c) /\ \A n \in 1 .. Len(c) : n \in 0 .. Len(c) /\ n # 0  OBVIOUS
  <2>2. QED  BY <1>8, <2>1
<1>11. DestroyRun(f, v, j, c, s)  BY <1>9, <1>10 DEF DestroyRun
<1>12. QED  BY <1>11

VisitRun(f, v, j, c, K, s) ==
  /\ f[0] = [m |-> v, i |-> j] /\ f[Len(c)] = s
  /\ \A n \in 1 .. Len(c) : f[n] = Visit(f[n - 1], c[n], K)

LEMMA VisitPath ==
  ASSUME NEW g \in Nat, NEW v \in Memory, NEW j \in [Hdrs -> 0 .. g], NEW K,
         NEW c \in Seq(Links), NEW s, s = Visited(v, j, c, K)
  PROVE  \E f : VisitRun(f, v, j, c, K, s)
<1> DEFINE E(r) == [n \in 0 .. Len(c) |-> IF n = 0 THEN [m |-> v, i |-> j]
                                          ELSE Visit(r[n - 1], c[n], K)]
           after == CHOOSE r : r = E(r)
<1>1. s = after[Len(c)]  BY DEF Visited
<1>2. PICK S : S = Stages(g)  OBVIOUS
<1>3. PICK x : x = [m |-> v, i |-> j]  OBVIOUS
<1>4. x \in S  BY <1>2, <1>3 DEF Stages
<1>5. \E r : r = E(r)
  <2>1. PICK R : R = [p \in Links |-> [t \in S |-> Visit(t, p, K)]]  OBVIOUS
  <2>2. \A p \in Links : \A t \in S : Visit(t, p, K) \in S
    <3>1. ASSUME NEW p \in Links, NEW t \in S PROVE Visit(t, p, K) \in S
      <4>1. t \in Stages(g)  BY <1>2
      <4>2. QED  BY <1>2, <4>1, VisitType
    <3>2. QED  BY <3>1
  <2>3. R \in [Links -> [S -> S]]
    <3>1. ASSUME NEW p \in Links PROVE R[p] \in [S -> S]
      <4>1. R[p] = [t \in S |-> Visit(t, p, K)]  BY <2>1
      <4>2. QED  BY <2>2, <4>1
    <3>2. R = [p \in Links |-> R[p]]  BY <2>1
    <3>3. QED  BY <3>1, <3>2
  <2>4. PICK f \in [0 .. Len(c) -> S] :
          f[0] = x /\ \A n \in 1 .. Len(c) : f[n] = R[c[n]][f[n - 1]]
    <3>1. HasStages(S, x, c, R)  BY <1>4, <2>3, StagesExist
    <3>2. QED  BY <3>1 DEF HasStages
  <2>5. ASSUME NEW n \in 0 .. Len(c)
        PROVE  f[n] = IF n = 0 THEN [m |-> v, i |-> j] ELSE Visit(f[n - 1], c[n], K)
    <3>1. CASE n = 0  BY <1>3, <2>4, <3>1
    <3>2. CASE n # 0
      <4>1. n \in 1 .. Len(c) /\ n - 1 \in 0 .. Len(c) /\ c[n] \in Links  BY <3>2
      <4>2. f[n] = R[c[n]][f[n - 1]] /\ f[n - 1] \in S  BY <2>4, <4>1
      <4>3. R[c[n]][f[n - 1]] = Visit(f[n - 1], c[n], K)  BY <2>1, <4>1, <4>2
      <4>4. QED  BY <3>2, <4>2, <4>3
    <3>3. QED  BY <3>1, <3>2
  <2>6. f = E(f)
    <3>1. f = [n \in 0 .. Len(c) |-> f[n]]  BY <2>4
    <3>2. QED  BY <2>5, <3>1
  <2>7. QED  BY <2>6
<1>6. after = E(after)  BY <1>5
<1>7. PICK f : f = after  OBVIOUS
<1>8. \A n \in 0 .. Len(c) : f[n] = IF n = 0 THEN [m |-> v, i |-> j]
                                    ELSE Visit(f[n - 1], c[n], K)
  <2>1. f = E(f)  BY <1>6, <1>7
  <2>2. QED  BY <2>1, Zenon
<1>9. f[Len(c)] = s  BY <1>1, <1>7
<1> HIDE DEF E, after
<1>10. f[0] = [m |-> v, i |-> j] /\ \A n \in 1 .. Len(c) : f[n] = Visit(f[n - 1], c[n], K)
  <2>1. 0 \in 0 .. Len(c) /\ \A n \in 1 .. Len(c) : n \in 0 .. Len(c) /\ n # 0  OBVIOUS
  <2>2. QED  BY <1>8, <2>1
<1>11. VisitRun(f, v, j, c, K, s)  BY <1>9, <1>10 DEF VisitRun
<1>12. QED  BY <1>11

(* On the way every link is met as it was, and every one met is freed.     *)
LEMMA DestroyStages ==
  ASSUME NEW g \in Nat, NEW v \in Memory, AllStrung(v), NEW j \in [Hdrs -> 0 .. g],
         NEW c \in Seq(Links), IsInjective(c), \A k \in 1 .. Len(c) : v.list[c[k]] \in Lists,
         NEW D, \A k \in 1 .. Len(c) : c[k] \in D,
         NEW s, NEW f, DestroyRun(f, v, j, c, s)
  PROVE  /\ \A n \in 0 .. Len(c) : f[n] \in Stages(g) /\ Tidied(v, f[n].m, D)
         /\ \A n \in 1 .. Len(c) : /\ f[n].m = Discard(f[n - 1].m, c[n])
                                   /\ Same(v, f[n - 1].m, c[n])
<1>1. /\ f[0] = [m |-> v, i |-> j]
      /\ \A n \in 1 .. Len(c) : f[n] = DestroyLink(f[n - 1], c[n])
  BY DEF DestroyRun
<1>2. ASSUME NEW n \in 1 .. Len(c), f[n - 1] \in Stages(g)
      PROVE  f[n] \in Stages(g) /\ f[n].m = Discard(f[n - 1].m, c[n])
  <2>1. PICK p \in Links : p = c[n]  OBVIOUS
  <2>2. PICK w \in Stages(g) : w = f[n - 1]  BY <1>2
  <2>3. PICK t : t = f[n]  OBVIOUS
  <2>4. t = DestroyLink(w, p)  BY <1>1, <2>1, <2>2, <2>3
  <2>5. t \in Stages(g) /\ t.m = Discard(w.m, p)  BY <2>4, DestroyLinkType
  <2>6. QED  BY <2>1, <2>2, <2>3, <2>5
<1>3. \A n \in 1 .. Len(c) : f[n - 1] \in Stages(g) =>
           /\ f[n] \in Stages(g)
           /\ \/ f[n].m = f[n - 1].m
              \/ c[n] \in D /\ f[n].m = Discard(f[n - 1].m, c[n])
  BY <1>2
<1>4. /\ \A n \in 0 .. Len(c) : f[n] \in Stages(g) /\ Tidied(v, f[n].m, D)
      /\ \A n \in 1 .. Len(c) : Same(v, f[n - 1].m, c[n])
  <2>1. f[0] = [m |-> v, i |-> j]  BY <1>1
  <2>2. QED  BY <1>3, <2>1, StagesTidy
<1>5. \A n \in 1 .. Len(c) : n - 1 \in 0 .. Len(c)  OBVIOUS
<1>6. QED  BY <1>2, <1>4, <1>5

(* Links of c were destroyed or, if they were stale, given back.           *)
LEMMA DestroyedTidy ==
  ASSUME NEW g \in Nat, NEW v \in Memory, AllStrung(v), NEW j \in [Hdrs -> 0 .. g],
         NEW c \in Seq(Links), IsInjective(c), \A k \in 1 .. Len(c) : v.list[c[k]] \in Lists,
         NEW D, \A k \in 1 .. Len(c) : c[k] \in D, NEW s, s = Destroyed(v, j, c)
  PROVE  s \in Stages(g) /\ Tidied(v, s.m, D)
<1>1. PICK f : DestroyRun(f, v, j, c, s)  BY DestroyPath
<1>2. \A n \in 0 .. Len(c) : f[n] \in Stages(g) /\ Tidied(v, f[n].m, D)
  BY <1>1, DestroyStages
<1>3. Len(c) \in 0 .. Len(c) /\ f[Len(c)] = s  BY <1>1 DEF DestroyRun
<1>4. QED  BY <1>2, <1>3

LEMMA VisitedTidy ==
  ASSUME NEW g \in Nat, NEW v \in Memory, AllStrung(v), NEW j \in [Hdrs -> 0 .. g], NEW K,
         NEW c \in Seq(Links), IsInjective(c), \A k \in 1 .. Len(c) : v.list[c[k]] \in Lists,
         NEW D, \A k \in 1 .. Len(c) : c[k] \in D, NEW s, s = Visited(v, j, c, K)
  PROVE  s \in Stages(g) /\ Tidied(v, s.m, D)
<1>1. PICK f : VisitRun(f, v, j, c, K, s)  BY VisitPath
<1>2. /\ f[0] = [m |-> v, i |-> j] /\ f[Len(c)] = s
      /\ \A n \in 1 .. Len(c) : f[n] = Visit(f[n - 1], c[n], K)
  BY <1>1 DEF VisitRun
<1>3. \A n \in 1 .. Len(c) : f[n - 1] \in Stages(g) =>
           /\ f[n] \in Stages(g)
           /\ \/ f[n].m = f[n - 1].m
              \/ c[n] \in D /\ f[n].m = Discard(f[n - 1].m, c[n])
  <2>1. ASSUME NEW n \in 1 .. Len(c), f[n - 1] \in Stages(g)
        PROVE  /\ f[n] \in Stages(g)
               /\ f[n].m = f[n - 1].m \/ f[n].m = Discard(f[n - 1].m, c[n])
    <3>1. c[n] \in Links /\ f[n] = Visit(f[n - 1], c[n], K)  BY <1>2
    <3>2. QED  BY <2>1, <3>1, VisitType
  <2>2. QED  BY <2>1
<1>4. \A n \in 0 .. Len(c) : f[n] \in Stages(g) /\ Tidied(v, f[n].m, D)
  <2>1. f[0] = [m |-> v, i |-> j]  BY <1>2
  <2>2. QED  BY <1>3, <2>1, StagesTidy
<1>5. Len(c) \in 0 .. Len(c)  OBVIOUS
<1>6. QED  BY <1>2, <1>4, <1>5

(* A walk that ends with these links and instances                         *)
LEMMA StagesKept ==
  ASSUME IndInv, NEW g, g = global_instance_ctr, NEW v, Linked(v, g, detached),
         NEW s \in Stages(g), Tidied(v, s.m, Listed(v)),
         mem' = s.m, inst' = s.i, result' = Nil, UNCHANGED <<global_instance_ctr, detached>>
  PROVE  IndInv'
<1>1. g \in Nat  BY Known
<1>2. PICK u : u = s.m  OBVIOUS
<1>3. PICK i : i = s.i  OBVIOUS
<1>4. Tidied(v, u, Listed(v))  BY <1>2
<1>5. Linked(u, g, detached)  BY <1>1, <1>4, TidiedLinked
<1>6. i \in [Hdrs -> 0 .. g]  BY <1>3 DEF Stages
<1>7. u = mem' /\ i = inst' /\ Found(u, i, result')  BY <1>2, <1>3, NothingFound
<1>8. /\ Linked(u, global_instance_ctr, detached)
      /\ i \in [Hdrs -> 0 .. global_instance_ctr]
  BY <1>5, <1>6
<1>9. QED  BY <1>7, <1>8, LinkedKept

LEMMA DestroyKept ==
  ASSUME IndInv, NEW v, Linked(v, global_instance_ctr, detached),
         NEW c \in Seq(Links), IsInjective(c), \A k \in 1 .. Len(c) : v.list[c[k]] \in Lists,
         DestroyLinks(v, c)
  PROVE  IndInv'
<1>1. PICK g \in Nat : g = global_instance_ctr  BY Known
<1>2. PICK j \in [Hdrs -> 0 .. g] : j = inst  BY <1>1, Known
<1>3. PICK s : s = Destroyed(v, j, c)  OBVIOUS
<1>4. /\ mem' = s.m /\ inst' = s.i /\ result' = Nil
      /\ UNCHANGED <<global_instance_ctr, detached>>
  BY <1>2, <1>3 DEF DestroyLinks, Destroyed
<1>5. v \in Memory /\ AllStrung(v)  BY DEF Linked
<1>6. s \in Stages(g) /\ Tidied(v, s.m, Listed(v))
  <2>1. v \in Memory  BY <1>5
  <2>2. AllStrung(v)  BY <1>5
  <2>3. PICK D : D = Listed(v)  OBVIOUS
  <2>4. \A k \in 1 .. Len(c) : c[k] \in D  BY <2>3 DEF Listed
  <2>5. s \in Stages(g) /\ Tidied(v, s.m, D)  BY <1>3, <2>1, <2>2, <2>4, DestroyedTidy
  <2>6. QED  BY <2>3, <2>5
<1>7. Linked(v, g, detached)  BY <1>1
<1>8. QED  BY <1>1, <1>4, <1>6, <1>7, StagesKept

LEMMA OneLink ==
  ASSUME NEW p \in Links, NEW c, c = <<p>>
  PROVE  /\ c \in Seq(Links) /\ IsInjective(c)
         /\ \A k \in 1 .. Len(c) : c[k] = p
<1>1. c \in Seq(Links) /\ Len(c) = 1 /\ c[1] = p  OBVIOUS
<1>2. \A k \in 1 .. Len(c) : k = 1  BY <1>1
<1>3. IsInjective(c)  BY <1>1, <1>2, SetView
<1>4. QED  BY <1>1, <1>2, <1>3

LEMMA PullDestroyKept ==
  ASSUME IndInv, NEW h \in Hdrs, NEW l \in Lists, mk_pull_destroy(h, l)
  PROVE  IndInv'
<1>1. PICK p : p = FindIn(mem, inst, h, l)  OBVIOUS
<1>2. PICK u : u = AfterFind(mem, inst, h, l)  OBVIOUS
<1>3. PICK c : c = <<p>>  OBVIOUS
<1>4. p # Nil /\ DestroyLinks(u, c)  BY <1>1, <1>2, <1>3 DEF mk_pull_destroy
<1>5. p \in Links /\ u.list[p] = l /\ Linked(u, global_instance_ctr, detached)
  BY <1>1, <1>2, <1>4, FoundOnList
<1>6. c \in Seq(Links) /\ IsInjective(c) /\ \A k \in 1 .. Len(c) : c[k] = p
  BY <1>3, <1>5, OneLink
<1>7. \A k \in 1 .. Len(c) : u.list[c[k]] \in Lists  BY <1>5, <1>6
<1>8. c \in Seq(Links) /\ IsInjective(c)  BY <1>6
<1>9. Linked(u, global_instance_ctr, detached)  BY <1>5
<1>10. QED  BY <1>4, <1>7, <1>8, <1>9, DestroyKept

LEMMA DestroyOneKept ==
  ASSUME IndInv, NEW p \in Links, destroy_mkptr(p)
  PROVE  IndInv'
<1>1. PICK c : c = <<p>>  OBVIOUS
<1>2. PICK u : u = mem  OBVIOUS
<1>3. u.list[p] \in Lists /\ DestroyLinks(u, c)  BY <1>1, <1>2 DEF destroy_mkptr
<1>4. c \in Seq(Links) /\ IsInjective(c) /\ \A k \in 1 .. Len(c) : c[k] = p
  BY <1>1, OneLink
<1>5. \A k \in 1 .. Len(c) : u.list[c[k]] \in Lists  BY <1>3, <1>4
<1>6. c \in Seq(Links) /\ IsInjective(c)  BY <1>4
<1>7. Linked(u, global_instance_ctr, detached)  BY <1>2, Known
<1>8. QED  BY <1>3, <1>5, <1>6, <1>7, DestroyKept

(* The links of a whole list                                               *)
LEMMA WholeList ==
  ASSUME IndInv, NEW l \in Lists, NEW c, c = Chain(mem, l)
  PROVE  /\ c \in Seq(Links) /\ IsInjective(c)
         /\ \A k \in 1 .. Len(c) : mem.list[c[k]] \in Lists /\ mem.list[c[k]] = l
<1>1. PICK m \in Memory : m = mem  BY Known
<1>2. AllStrung(m) /\ c = Chain(m, l)  BY <1>1, Known
<1>3. Strung(m, l, c)
  <2>1. l \in Lists \cup {Free}  OBVIOUS
  <2>2. QED  BY <1>2, <2>1, ChainFacts
<1>4. c \in Seq(Links) /\ \A k \in 1 .. Len(c) : m.list[c[k]] = l  BY <1>3, OnChain
<1>5. IsInjective(c)  BY <1>3 DEF Strung
<1>6. QED  BY <1>1, <1>4, <1>5

LEMMA DestroyListKept ==
  ASSUME IndInv, NEW l \in Lists, destroy_list(l)
  PROVE  IndInv'
<1>1. PICK c : c = Chain(mem, l)  OBVIOUS
<1>2. PICK u : u = mem  OBVIOUS
<1>3. DestroyLinks(u, c)  BY <1>1, <1>2 DEF destroy_list
<1>4. /\ c \in Seq(Links) /\ IsInjective(c)
      /\ \A k \in 1 .. Len(c) : mem.list[c[k]] \in Lists
  BY <1>1, WholeList
<1>5. \A k \in 1 .. Len(c) : u.list[c[k]] \in Lists  BY <1>2, <1>4
<1>6. c \in Seq(Links) /\ IsInjective(c)  BY <1>4
<1>7. Linked(u, global_instance_ctr, detached)  BY <1>2, Known
<1>8. QED  BY <1>3, <1>5, <1>6, <1>7, DestroyKept

LEMMA ApplyKept ==
  ASSUME IndInv, NEW l \in Lists, NEW K, apply_to_mklist(l, K)
  PROVE  IndInv'
<1>1. PICK g \in Nat : g = global_instance_ctr  BY Known
<1>2. PICK j \in [Hdrs -> 0 .. g] : j = inst  BY <1>1, Known
<1>3. PICK v : v = mem  OBVIOUS
<1>4. PICK c : c = Chain(mem, l)  OBVIOUS
<1>5. PICK s : s = Visited(v, j, c, K)  OBVIOUS
<1>6. /\ mem' = s.m /\ inst' = s.i /\ result' = Nil
      /\ UNCHANGED <<global_instance_ctr, detached>>
  BY <1>2, <1>3, <1>4, <1>5 DEF apply_to_mklist, Visited
<1>7. Linked(v, g, detached)  BY <1>1, <1>3, Known
<1>8. v \in Memory  BY <1>7 DEF Linked
<1>9. AllStrung(v)  BY <1>7 DEF Linked
<1>10. /\ c \in Seq(Links) /\ IsInjective(c)
       /\ \A k \in 1 .. Len(c) : mem.list[c[k]] \in Lists
  BY <1>4, WholeList
<1>11. \A k \in 1 .. Len(c) : v.list[c[k]] \in Lists  BY <1>3, <1>10
<1>12. c \in Seq(Links) /\ IsInjective(c)  BY <1>10
<1>13. s \in Stages(g) /\ Tidied(v, s.m, Listed(v))
  <2>1. PICK D : D = Listed(v)  OBVIOUS
  <2>2. \A k \in 1 .. Len(c) : c[k] \in D  BY <1>11, <1>12, <2>1 DEF Listed
  <2>3. s \in Stages(g) /\ Tidied(v, s.m, D)
    BY <1>5, <1>8, <1>9, <1>11, <1>12, <2>2, VisitedTidy
  <2>4. QED  BY <2>1, <2>3
<1>14. QED  BY <1>1, <1>6, <1>7, <1>13, StagesKept

LEMMA DiscardAllTidy ==
  ASSUME NEW v \in Memory, AllStrung(v), NEW c \in Seq(Links), IsInjective(c),
         \A k \in 1 .. Len(c) : v.list[c[k]] \in Lists,
         NEW D, \A k \in 1 .. Len(c) : c[k] \in D, NEW u, u = DiscardAll(v, c)
  PROVE  Tidied(v, u, D)
<1>1. PICK L \in Nat : L = Len(c)  OBVIOUS
<1> DEFINE E(r) == [n \in 0 .. Len(c) |-> IF n = 0 THEN v ELSE Discard(r[n - 1], c[n])]
           after == CHOOSE r : r = E(r)
<1>2. u = after[Len(c)]  BY DEF DiscardAll
<1>3. \E r : r = E(r)
  <2>1. PICK q : q = [n \in 1 .. L |-> c[n]]  OBVIOUS
  <2>2. q \in [1 .. L -> Links]  BY <1>1, <2>1
  <2>3. PICK f \in [0 .. L -> Memory] :
          f[0] = v /\ \A n \in 1 .. L : f[n] = Discard(f[n - 1], q[n])
    <3>1. PICK K : K = {}  OBVIOUS
    <3>2. HasPath(v, L, K, q)  BY <2>2, PathExists
    <3>3. QED  BY <3>1, <3>2 DEF HasPath
  <2>4. \A n \in 0 .. L : f[n] = IF n = 0 THEN v ELSE Discard(f[n - 1], c[n])
    BY <1>1, <2>1, <2>3
  <2>5. f = E(f)
    <3>1. f = [n \in 0 .. L |-> f[n]]  BY <2>3
    <3>2. QED  BY <1>1, <2>4, <3>1
  <2>6. QED  BY <2>5
<1>4. after = E(after)  BY <1>3
<1>5. PICK f : f = after  OBVIOUS
<1>6. \A n \in 0 .. Len(c) : f[n] = IF n = 0 THEN v ELSE Discard(f[n - 1], c[n])
  <2>1. f = E(f)  BY <1>4, <1>5
  <2>2. QED  BY <2>1, Zenon
<1>7. u = f[Len(c)]  BY <1>2, <1>5
<1> HIDE DEF E, after
<1>8. f[0] = v  BY <1>6
<1>10. \A n \in 1 .. L : f[n] = f[n - 1] \/ (c[n] \in D /\ f[n] = Discard(f[n - 1], c[n]))
  <2>1. ASSUME NEW n \in 1 .. L PROVE c[n] \in D /\ f[n] = Discard(f[n - 1], c[n])
    <3>1. n \in 0 .. Len(c) /\ n # 0 /\ c[n] \in Links  BY <1>1
    <3>2. f[n] = Discard(f[n - 1], c[n])  BY <1>6, <3>1
    <3>3. QED  BY <1>1, <3>2
  <2>2. QED  BY <2>1
<1>11. \A k \in 1 .. Len(c) : v.list[c[k]] \in Lists \cup {Nil}  OBVIOUS
<1>12. L \in 0 .. Len(c)  BY <1>1
<1>13. \A n \in 0 .. L : Tidied(v, f[n], D)
  BY <1>8, <1>10, <1>11, <1>12, Walked
<1>14. QED  BY <1>1, <1>7, <1>13

LEMMA DiscardListKept ==
  ASSUME IndInv, NEW l \in Lists, discard_list(l)
  PROVE  IndInv'
<1>1. PICK g \in Nat : g = global_instance_ctr  BY Known
<1>2. PICK v : v = mem  OBVIOUS
<1>3. PICK c : c = Chain(mem, l)  OBVIOUS
<1>4. PICK u : u = DiscardAll(v, c)  OBVIOUS
<1>5. PICK i : i = inst  OBVIOUS
<1>6. /\ u = mem' /\ i = inst' /\ result' = Nil
      /\ UNCHANGED <<global_instance_ctr, detached>>
  BY <1>2, <1>3, <1>4, <1>5 DEF discard_list
<1>7. Linked(v, g, detached)  BY <1>1, <1>2, Known
<1>8. v \in Memory  BY <1>7 DEF Linked
<1>9. AllStrung(v)  BY <1>7 DEF Linked
<1>10. /\ c \in Seq(Links) /\ IsInjective(c)
       /\ \A k \in 1 .. Len(c) : mem.list[c[k]] \in Lists
  BY <1>3, WholeList
<1>11. \A k \in 1 .. Len(c) : v.list[c[k]] \in Lists  BY <1>2, <1>10
<1>12. c \in Seq(Links) /\ IsInjective(c)  BY <1>10
<1>13. Tidied(v, u, Listed(v))
  <2>1. PICK D : D = Listed(v)  OBVIOUS
  <2>2. \A k \in 1 .. Len(c) : c[k] \in D  BY <1>11, <1>12, <2>1 DEF Listed
  <2>3. Tidied(v, u, D)  BY <1>4, <1>8, <1>9, <1>11, <1>12, <2>2, DiscardAllTidy
  <2>4. QED  BY <2>1, <2>3
<1>14. Linked(u, g, detached)  BY <1>7, <1>13, TidiedLinked
<1>15. Found(u, i, result')  BY <1>6, NothingFound
<1>16. i \in [Hdrs -> 0 .. global_instance_ctr]  BY <1>5, Known
<1>17. Linked(u, global_instance_ctr, detached)  BY <1>1, <1>14
<1>18. QED  BY <1>6, <1>15, <1>16, <1>17, LinkedKept

----------------------------------------------------------------------------
(* Every operation                                                         *)

LEMMA StepKept ==
  ASSUME IndInv, [Next]_vars
  PROVE  IndInv'
<1>1. ASSUME NEW h \in Hdrs, HdrOps(h) PROVE IndInv'
  <2>1. CASE get_mkhdr(h)  BY <2>1, GetKept
  <2>2. CASE vdestroy_mkhdr_generic(h)  BY <2>2, VdestroyKept
  <2>3. ASSUME NEW p \in Links, mk_append_after_mkptr(h, p) PROVE IndInv'
    BY <2>3, AppendAfterBinds, BindKept
  <2>4. ASSUME NEW p \in Links, BindBefore(h, p) PROVE IndInv'
    BY <2>4, BeforeBinds, BindKept
  <2>5. ASSUME NEW l \in Lists, NEW own \in BOOLEAN, mk_insert(h, l, own) PROVE IndInv'
    BY <2>5, InsertBinds, BindKept
  <2>6. ASSUME NEW l \in Lists, mk_append(h, l) PROVE IndInv'  BY <2>6, AppendBinds, BindKept
  <2>7. ASSUME NEW l \in Lists, find_in_mklist(h, l) PROVE IndInv'
    BY <2>7, FindSearches, SearchKept
  <2>8. ASSUME NEW l \in Lists, mk_pull(h, l) PROVE IndInv'  BY <2>8, PullKept
  <2>9. ASSUME NEW l \in Lists, mk_pull_discard(h, l) PROVE IndInv'
    BY <2>9, PullDiscardKept
  <2>10. ASSUME NEW l \in Lists, mk_pull_destroy(h, l) PROVE IndInv'
    BY <2>10, PullDestroyKept
  <2>11. QED
    BY <1>1, <2>1, <2>2, <2>3, <2>4, <2>5, <2>6, <2>7, <2>8, <2>9, <2>10 DEF HdrOps
<1>2. ASSUME NEW l \in Lists, ListOps(l) PROVE IndInv'
  <2>1. CASE first_mkptr(l)  BY <2>1, FirstSearches, SearchKept
  <2>2. ASSUME NEW K \in SUBSET Hdrs, apply_to_mklist(l, K) PROVE IndInv'
    BY <2>2, ApplyKept
  <2>3. CASE destroy_list(l)  BY <2>3, DestroyListKept
  <2>4. CASE discard_list(l)  BY <2>4, DiscardListKept
  <2>5. QED  BY <1>2, <2>1, <2>2, <2>3, <2>4 DEF ListOps
<1>3. ASSUME NEW p \in Links, next_mkptr(p) PROVE IndInv'  
  <2>1. PICK l \in Lists : l = mem.list[p] /\ Searching(l)  BY <1>3, NextSearches
  <2>2. QED  BY <2>1, SearchKept
<1>4. ASSUME NEW p \in Links, destroy_mkptr(p) PROVE IndInv'  BY <1>4, DestroyOneKept
<1>5. CASE UNCHANGED vars  BY <1>5 DEF vars, IndInv
<1>6. QED  BY <1>1, <1>2, <1>3, <1>4, <1>5 DEF Next

(* What the run checks follows.                                            *)
LEMMA Sound == ASSUME IndInv PROVE ListsSound
<1>1. PICK g \in Nat : g = global_instance_ctr  BY Known
<1>2. Linked(mem, g, detached)  BY <1>1, Known
<1>3. Found(mem, inst, result)  BY DEF IndInv
<1>4. TypeOK
  <2>1. \A p \in Links : mem.stamp[p] <= global_instance_ctr  BY <1>1, <1>2 DEF Linked
  <2>2. \A h \in Hdrs : inst[h] <= global_instance_ctr
    <3>1. \A h \in Hdrs : inst[h] \in 0 .. g  BY <1>1, Known
    <3>2. QED  BY <1>1, <3>1
  <2>3. result \in Links \cup {Nil}  BY <1>3 DEF Found
  <2>4. QED  BY <2>1, <2>2, <2>3, Known DEF TypeOK
<1>5. LinksAccounted
  <2>1. WellLinked(mem)
    <3>1. PICK m \in Memory : m = mem  BY Known
    <3>2. AllStrung(m)  BY <3>1, Known
    <3>3. WellLinked(m)  BY <3>2, StrungWell
    <3>4. QED  BY <3>1, <3>3
  <2>2. \A p \in Links : /\ (mem.list[p] = Nil) = (p \in detached)
                         /\ mem.list[p] = Free => mem.hdr[p] = Nil
    BY <1>2 DEF Linked
  <2>3. QED  BY <2>1, <2>2 DEF LinksAccounted
<1>6. ResultLive  BY <1>3 DEF ResultLive, Found
<1>7. QED  BY <1>4, <1>5, <1>6 DEF ListsSound

(* However many links, lists and headers there are and in whatever order   *)
(* mk_struct.c is called, every list stays a proper doubly linked list, no *)
(* link is lost and a search returns a link of a living header.            *)
THEOREM ListsStaySound == Spec => []ListsSound
<1>1. Init => IndInv  BY InitKept
<1>2. IndInv /\ [Next]_vars => IndInv'  BY StepKept
<1>3. IndInv => ListsSound  BY Sound
<1>4. QED  BY <1>1, <1>2, <1>3, PTL DEF Spec

----------------------------------------------------------------------------
(* What LinkLists sees                                                     *)

(* The lists, the free links and what links stand for, as LinkLists sees   *)
(* them                                                                    *)
Order(m) == [l \in Lists |-> Chain(m, l)]
Idle(m) == ToSet(Chain(m, Free))
Bonds(m) == [p \in Links |-> [hdr |-> m.hdr[p], stamp |-> m.stamp[p], own |-> m.own[p]]]

Unbound == [hdr |-> Nil, stamp |-> 0, own |-> TRUE]

LEMMA FreedUnbound ==
  ASSUME NEW m, NEW p \in Links, Freed(m, p)
  PROVE  Bonds(m)[p] = Unbound
<1>1. m.hdr[p] = Nil /\ m.stamp[p] = 0 /\ m.own[p] = TRUE  BY DEF Freed
<1>2. Bonds(m)[p] = [hdr |-> m.hdr[p], stamp |-> m.stamp[p], own |-> m.own[p]]
  BY DEF Bonds
<1>3. QED  BY <1>1, <1>2, Zenon DEF Unbound

LEMMA SameBonds ==
  ASSUME NEW m, NEW u, NEW p \in Links, u.hdr[p] = m.hdr[p], u.stamp[p] = m.stamp[p],
         u.own[p] = m.own[p]
  PROVE  Bonds(u)[p] = Bonds(m)[p]
BY DEF Bonds

(* The links of a list                                                     *)
LEMMA OnOrder ==
  ASSUME NEW m \in Memory, AllStrung(m), NEW l \in Lists
  PROVE  /\ Order(m)[l] = Chain(m, l) /\ Chain(m, l) \in Seq(Links)
         /\ IsInjective(Chain(m, l))
         /\ ToSet(Chain(m, l)) = {p \in Links : m.list[p] = l}
<1>1. Strung(m, l, Chain(m, l))  BY ChainFacts
<1>2. QED  BY <1>1 DEF Strung, Order

LEMMA IdleIs ==
  ASSUME NEW m \in Memory, AllStrung(m)
  PROVE  Idle(m) = {p \in Links : m.list[p] = Free}
<1>1. Strung(m, Free, Chain(m, Free))  BY ChainFacts
<1>2. QED  BY <1>1 DEF Strung, Idle

(* LinkLists has the sequences of the library under names of its own.      *)
LEMMA ThroughLL ==
  ASSUME NEW s
  PROVE  /\ LL!ToSet(s) = ToSet(s) /\ (LL!IsInjective(s) <=> IsInjective(s))
         /\ \A i, p : LL!InsertAt(s, i, p) = InsertAt(s, i, p)
BY DEF LL!ToSet, ToSet, LL!IsInjective, IsInjective, LL!InsertAt, InsertAt

(* Links that left a list without changing the order of the others         *)
LEMMA RestOf ==
  ASSUME NEW m \in Memory, AllStrung(m), NEW u \in Memory, AllStrung(u), InOrder(m, u),
         NEW l \in Lists, NEW S,
         \A p \in Links : u.list[p] = l <=> m.list[p] = l /\ p \notin S
  PROVE  LL!Rest(Chain(m, l), S, Chain(u, l))
<1>1. PICK s : s = Chain(m, l)  OBVIOUS
<1>2. PICK t : t = Chain(u, l)  OBVIOUS
<1>3. Strung(m, l, s)  BY <1>1, ChainFacts
<1>4. Strung(u, l, t)  BY <1>2, ChainFacts
<1>5. IsInjective(t) /\ t \in Seq(Links) /\ ToSet(t) = {p \in Links : u.list[p] = l}
  BY <1>4 DEF Strung
<1>6. ToSet(s) = {p \in Links : m.list[p] = l} /\ s \in Seq(Links)  BY <1>3 DEF Strung
<1>7. ToSet(t) = ToSet(s) \ S  BY <1>5, <1>6
<1>8. ASSUME NEW i \in 1 .. Len(t), NEW k \in 1 .. Len(t), i < k
      PROVE  \E a, b \in 1 .. Len(s) : a < b /\ s[a] = t[i] /\ s[b] = t[k]
  <2>1. Precedes(u, t[i], t[k])  BY <1>2, <1>8 DEF Precedes
  <2>2. t[i] \in Links /\ t[k] \in Links /\ t[i] \in ToSet(t)  BY <1>5, ElemAt
  <2>3. Precedes(m, t[i], t[k])  BY <2>1, <2>2 DEF InOrder
  <2>4. PICK j \in Lists : \E a, b \in 1 .. Len(Chain(m, j)) :
          a < b /\ Chain(m, j)[a] = t[i] /\ Chain(m, j)[b] = t[k]
    BY <2>3 DEF Precedes
  <2>5. j = l
    <3>1. PICK a \in 1 .. Len(Chain(m, j)) : Chain(m, j)[a] = t[i]  BY <2>4
    <3>2. m.list[Chain(m, j)[a]] = j
      <4>1. PICK r : r = Chain(m, j)  OBVIOUS
      <4>2. Strung(m, j, r)  BY <4>1, ChainFacts
      <4>3. QED  BY <3>1, <4>1, <4>2, OnChain
    <3>3. m.list[t[i]] = l  BY <1>6, <1>7, <2>2
    <3>4. QED  BY <3>1, <3>2, <3>3
  <2>6. QED  BY <1>1, <2>4, <2>5
<1>9. DOMAIN s = 1 .. Len(s) /\ DOMAIN t = 1 .. Len(t)  BY <1>5, <1>6
<1>10. LL!IsInjective(t) /\ LL!ToSet(t) = LL!ToSet(s) \ S  BY <1>5, <1>7, ThroughLL
<1>11. LL!Rest(s, S, t)
  <2>1. ASSUME NEW i \in DOMAIN t, NEW k \in DOMAIN t, i < k
        PROVE  \E a, b \in DOMAIN s : a < b /\ s[a] = t[i] /\ s[b] = t[k]
    <3>1. i \in 1 .. Len(t) /\ k \in 1 .. Len(t)  BY <1>9
    <3>2. PICK a, b \in 1 .. Len(s) : a < b /\ s[a] = t[i] /\ s[b] = t[k]
      BY <1>8, <2>1, <3>1
    <3>3. a \in DOMAIN s /\ b \in DOMAIN s  BY <1>9
    <3>4. QED  BY <3>2, <3>3
  <2>2. QED  BY <1>10, <2>1, Zenon DEF LL!Rest
<1>12. QED  BY <1>1, <1>2, <1>11

(* Links S left list l, those of T to the free list, the others belong to  *)
(* the caller and stand for what they stood for.                           *)
Departed(m, u, l, S, T) ==
  /\ u \in Memory /\ AllStrung(u) /\ InOrder(m, u)
  /\ S \in SUBSET {p \in Links : m.list[p] = l} /\ T \in SUBSET S
  /\ \A p \in Links \ S : Same(m, u, p)
  /\ \A p \in T : Freed(u, p)
  /\ \A p \in S \ T : /\ u.list[p] = Nil /\ u.hdr[p] = m.hdr[p]
                      /\ u.stamp[p] = m.stamp[p] /\ u.own[p] = m.own[p]

(* What LinkLists sees of it                                               *)
Left(m, u, S, T) ==
  /\ Idle(u) = Idle(m) \cup T
  /\ Bonds(u) = [p \in Links |-> IF p \in T THEN Unbound ELSE Bonds(m)[p]]
  /\ Order(u) \in [Lists -> Seq(Links)]
  /\ \A k \in Lists : LL!Rest(Order(m)[k], S, Order(u)[k])

LEMMA DepartedFacts ==
  ASSUME NEW m \in Memory, AllStrung(m), NEW u, NEW l \in Lists, NEW S, NEW T,
         Departed(m, u, l, S, T)
  PROVE  Left(m, u, S, T)
<1>1. /\ u \in Memory /\ AllStrung(u) /\ InOrder(m, u)
      /\ S \in SUBSET {p \in Links : m.list[p] = l} /\ T \in SUBSET S
      /\ \A p \in Links \ S : Same(m, u, p)
      /\ \A p \in T : Freed(u, p)
      /\ \A p \in S \ T : /\ u.list[p] = Nil /\ u.hdr[p] = m.hdr[p]
                          /\ u.stamp[p] = m.stamp[p] /\ u.own[p] = m.own[p]
  BY DEF Departed
<1>2. \A p \in Links : u.list[p] = IF p \in T THEN Free ELSE IF p \in S THEN Nil ELSE m.list[p]
  BY <1>1 DEF Freed, Same
<1>3. Idle(u) = Idle(m) \cup T
  <2>1. Idle(u) = {p \in Links : u.list[p] = Free} /\ Idle(m) = {p \in Links : m.list[p] = Free}
    BY <1>1, IdleIs
  <2>2. \A p \in S : m.list[p] # Free  BY <1>1, Distinct
  <2>3. QED  BY <1>1, <1>2, <2>1, <2>2, Distinct
<1>4. Bonds(u) = [p \in Links |-> IF p \in T THEN Unbound ELSE Bonds(m)[p]]
  <2>1. ASSUME NEW p \in Links PROVE Bonds(u)[p] = IF p \in T THEN Unbound ELSE Bonds(m)[p]
    <3>1. CASE p \in T
      <4>1. Freed(u, p)  BY <1>1, <3>1
      <4>2. QED  BY <3>1, <4>1, FreedUnbound
    <3>2. CASE p \notin T
      <4>1. u.hdr[p] = m.hdr[p] /\ u.stamp[p] = m.stamp[p] /\ u.own[p] = m.own[p]
        BY <1>1, <3>2 DEF Same
      <4>2. QED  BY <3>2, <4>1, SameBonds
    <3>3. QED  BY <3>1, <3>2
  <2>2. Bonds(u) = [p \in Links |-> Bonds(u)[p]]  BY DEF Bonds
  <2>3. QED  BY <2>1, <2>2
<1>5. Order(u) \in [Lists -> Seq(Links)]
  <2>1. \A k \in Lists : Chain(u, k) \in Seq(Links)  BY <1>1, OnOrder
  <2>2. QED  BY <2>1 DEF Order
<1>6. ASSUME NEW k \in Lists PROVE LL!Rest(Order(m)[k], S, Order(u)[k])
  <2>1. \A p \in Links : u.list[p] = k <=> m.list[p] = k /\ p \notin S
    BY <1>1, <1>2, Distinct
  <2>2. LL!Rest(Chain(m, k), S, Chain(u, k))  BY <1>1, <2>1, RestOf
  <2>3. QED  BY <2>2 DEF Order
<1>7. QED  BY <1>3, <1>4, <1>5, <1>6, Zenon DEF Left

LEMMA InsertAtIs ==
  ASSUME NEW s \in Seq(Links), NEW i \in 1 .. Len(s) + 1, NEW p \in Links
  PROVE  InsertAt(s, i, p) = With(s, i, p)
<1>1. PICK n \in Nat : n = Len(s)  OBVIOUS
<1>2. PICK a : a = SubSeq(s, 1, i - 1)  OBVIOUS
<1>3. PICK c : c = SubSeq(s, i, n)  OBVIOUS
<1>4. i \in 1 .. n + 1 /\ i - 1 \in 0 .. n  BY <1>1
<1>5. a \in Seq(Links) /\ Len(a) = i - 1 /\ \A k \in 1 .. i - 1 : a[k] = s[k]
  BY <1>1, <1>2, <1>4
<1>6. c \in Seq(Links) /\ Len(c) = n - i + 1 /\ \A k \in 1 .. n - i + 1 : c[k] = s[k + i - 1]
  BY <1>1, <1>3, <1>4
<1>7. PICK b : b = a \o <<p>>  OBVIOUS
<1>8. /\ b \in Seq(Links) /\ Len(b) = i
      /\ \A k \in 1 .. i : b[k] = IF k = i THEN p ELSE s[k]
  BY <1>4, <1>5, <1>7
<1>9. PICK t : t = b \o c  OBVIOUS
<1>10. t \in Seq(Links) /\ Len(t) = n + 1  BY <1>1, <1>4, <1>6, <1>8, <1>9
<1>11. \A k \in 1 .. n + 1 : t[k] = IF k <= i THEN b[k] ELSE c[k - i]
  BY <1>1, <1>4, <1>6, <1>8, <1>9, SMTT(30)
<1>12. ASSUME NEW k \in 1 .. n + 1
       PROVE  t[k] = IF k < i THEN s[k] ELSE IF k = i THEN p ELSE s[k - 1]
  <2>1. CASE k <= i  BY <1>4, <1>8, <1>11, <2>1
  <2>2. CASE k > i
    <3>1. k - i \in 1 .. n - i + 1 /\ (k - i) + i - 1 = k - 1  BY <1>1, <1>4, <2>2
    <3>2. t[k] = c[k - i]  BY <1>4, <1>11, <2>2
    <3>3. c[k - i] = s[(k - i) + i - 1]  BY <1>6, <3>1
    <3>4. QED  BY <1>4, <2>2, <3>1, <3>2, <3>3
  <2>3. QED  BY <1>4, <2>1, <2>2
<1>13. t = With(s, i, p)
  <2>1. t = [k \in 1 .. n + 1 |-> t[k]]  BY <1>1, <1>10
  <2>2. QED  BY <1>1, <1>12, <2>1 DEF With
<1>14. t = InsertAt(s, i, p)  BY <1>1, <1>2, <1>3, <1>7, <1>9 DEF InsertAt
<1>15. QED  BY <1>13, <1>14

LEMMA AliveIs ==
  ASSUME IndInv, NEW p \in Links, mem.list[p] \in Lists
  PROVE  LL!alive(p) <=> Live(mem, inst, p)
<1>1. PICK g \in Nat : g = global_instance_ctr  BY Known
<1>2. Linked(mem, g, detached)  BY <1>1, Known
<1>3. mem.hdr[p] # Nil  BY <1>2 DEF Linked, Bound
<1>4. QED  BY <1>3 DEF LL!alive, Live

LEMMA OnListIs ==
  ASSUME IndInv, NEW l \in Lists
  PROVE  LL!OnList(l) = {p \in Links : mem.list[p] = l}
<1>1. PICK m \in Memory : m = mem  BY Known
<1>2. AllStrung(m)  BY <1>1, Known
<1>3. ToSet(Chain(mem, l)) = {p \in Links : mem.list[p] = l}  BY <1>1, <1>2, OnOrder
<1>4. LL!OnList(l) = LL!ToSet(Chain(mem, l))  BY DEF LL!OnList
<1>5. QED  BY <1>3, <1>4, ThroughLL

(* What LinkLists sees of links that left a list                           *)
LEMMA LeaveStep ==
  ASSUME IndInv, NEW l \in Lists, NEW S, NEW T, NEW u, u = mem', Departed(mem, u, l, S, T)
  PROVE  LL!Leave(S) /\ S \in SUBSET LL!OnList(l) /\ T \in SUBSET S /\ Left(mem, u, S, T)
<1>1. PICK m \in Memory : m = mem  BY Known
<1>2. AllStrung(m) /\ Departed(m, u, l, S, T)  BY <1>1, Known
<1>3. Left(m, u, S, T)  BY <1>2, DepartedFacts
<1>4. S \in SUBSET LL!OnList(l) /\ T \in SUBSET S
  BY <1>1, <1>2, OnListIs DEF Departed
<1>5. LL!Leave(S)  BY <1>1, <1>3 DEF LL!Leave, Order, Left
<1>6. QED  BY <1>1, <1>3, <1>4, <1>5

LEMMA SearchStep ==
  ASSUME IndInv, NEW l \in Lists, NEW S, NEW u, u = mem', Departed(mem, u, l, S, S),
         S \subseteq StaleOn(mem, inst, l), inst' = inst,
         result' # Nil => /\ result' \in Links /\ mem.list[result'] = l
                          /\ Live(mem, inst, result')
  PROVE  LL!Search(l)
<1>1. LL!Leave(S) /\ S \in SUBSET LL!OnList(l) /\ Left(mem, u, S, S)  BY LeaveStep
<1>2. ASSUME NEW p \in S PROVE ~LL!alive(p)
  <2>1. p \in Links /\ mem.list[p] \in Lists /\ ~Live(mem, inst, p)  BY DEF StaleOn, Stale
  <2>2. QED  BY <2>1, AliveIs
<1>3. result' = Nil \/ (result' \in LL!OnList(l) /\ LL!alive(result'))
  BY OnListIs, AliveIs
<1>4. QED
  BY <1>1, <1>2, <1>3 DEF LL!Search, Left, Idle, Bonds, Unbound

(* A header that DestroyLinks destroys is one that a link of c owned.      *)
LEMMA DestroyedEnds ==
  ASSUME NEW g \in Nat, NEW v \in Memory, AllStrung(v), NEW j \in [Hdrs -> 0 .. g],
         NEW c \in Seq(Links), IsInjective(c), \A k \in 1 .. Len(c) : v.list[c[k]] \in Lists,
         NEW s, s = Destroyed(v, j, c), NEW h \in Hdrs, s.i[h] # j[h]
  PROVE  s.i[h] = 0 /\ \E k \in 1 .. Len(c) : Owned(v, j, c[k]) /\ v.hdr[c[k]] = h
<1>1. PICK f : DestroyRun(f, v, j, c, s)  BY DestroyPath
<1>2. /\ f[0] = [m |-> v, i |-> j] /\ f[Len(c)] = s
      /\ \A n \in 1 .. Len(c) : f[n] = DestroyLink(f[n - 1], c[n])
  BY <1>1 DEF DestroyRun
<1>3. PICK D : D = Listed(v)  OBVIOUS
<1>4. \A k \in 1 .. Len(c) : c[k] \in Links /\ c[k] \in D  BY <1>3 DEF Listed
<1>5. /\ \A n \in 0 .. Len(c) : f[n] \in Stages(g) /\ Tidied(v, f[n].m, D)
      /\ \A n \in 1 .. Len(c) : /\ f[n].m = Discard(f[n - 1].m, c[n])
                                /\ Same(v, f[n - 1].m, c[n])
  BY <1>1, <1>4, DestroyStages
<1>6. PICK L \in Nat : L = Len(c)  OBVIOUS
<1>7. PICK e : e = [n \in 0 .. L |-> f[n].i[h]]  OBVIOUS
<1>8. \A n \in 0 .. L : e[n] = f[n].i[h]  BY <1>7
<1>9. ASSUME NEW n \in 1 .. L
      PROVE  \/ e[n] = e[n - 1]
             \/ /\ e[n] = 0
                /\ Owned(f[n - 1].m, f[n - 1].i, c[n]) /\ f[n - 1].m.hdr[c[n]] = h
  <2>1. n \in 0 .. L /\ n - 1 \in 0 .. L  OBVIOUS
  <2>2. e[n] = f[n].i[h] /\ e[n - 1] = f[n - 1].i[h]  BY <1>8, <2>1
  <2>3. PICK t : t = f[n - 1]  OBVIOUS
  <2>4. f[n] = DestroyLink(t, c[n]) /\ t \in Stages(g)  BY <1>2, <1>5, <1>6, <2>1, <2>3
  <2>5. PICK i \in [Hdrs -> 0 .. g] : i = t.i  BY <2>4 DEF Stages
  <2>6. f[n].i = IF Owned(t.m, t.i, c[n]) THEN [i EXCEPT ![t.m.hdr[c[n]]] = 0] ELSE i
    BY <2>4, <2>5 DEF DestroyLink
  <2>7. CASE Owned(t.m, t.i, c[n]) /\ t.m.hdr[c[n]] = h
    <3>1. f[n].i = [i EXCEPT ![h] = 0]  BY <2>6, <2>7
    <3>2. QED  BY <2>2, <2>3, <2>7, <3>1
  <2>8. CASE Owned(t.m, t.i, c[n]) /\ t.m.hdr[c[n]] # h
    <3>1. f[n].i = [i EXCEPT ![t.m.hdr[c[n]]] = 0]  BY <2>6, <2>8
    <3>2. f[n].i[h] = i[h]  BY <2>8, <3>1
    <3>3. QED  BY <2>2, <2>3, <2>5, <3>2
  <2>9. CASE ~Owned(t.m, t.i, c[n])  BY <2>2, <2>3, <2>5, <2>6, <2>9
  <2>10. QED  BY <2>7, <2>8, <2>9
<1>10. e[0] = j[h] /\ e[L] = s.i[h]
  <2>1. 0 \in 0 .. L /\ L \in 0 .. L  OBVIOUS
  <2>2. QED  BY <1>2, <1>6, <1>8, <2>1
<1>11. \A n \in 1 .. L : e[n] = e[n - 1] \/ e[n] = 0  BY <1>9
<1>12. /\ \A a \in 0 .. L : e[L] = e[a] \/ e[L] = 0
       /\ e[L] # e[0] => \E k \in 1 .. L : e[k - 1] = e[0] /\ e[k] # e[0]
  BY <1>11, Falls
<1>13. s.i[h] = 0  BY <1>10, <1>12
<1>14. PICK k \in 1 .. L : e[k - 1] = e[0] /\ e[k] # e[0]  BY <1>10, <1>12
<1>15. PICK t : t = f[k - 1]  OBVIOUS
<1>16. Owned(t.m, t.i, c[k]) /\ t.m.hdr[c[k]] = h /\ t.i[h] = j[h]
  <2>1. k - 1 \in 0 .. L  OBVIOUS
  <2>2. QED  BY <1>8, <1>9, <1>10, <1>14, <1>15, <2>1
<1>17. Same(v, t.m, c[k])  BY <1>5, <1>6, <1>15
<1>18. Owned(v, j, c[k]) /\ v.hdr[c[k]] = h
  <2>1. t.m.hdr[c[k]] = v.hdr[c[k]] /\ t.m.stamp[c[k]] = v.stamp[c[k]]
        /\ t.m.own[c[k]] = v.own[c[k]]
    BY <1>17 DEF Same
  <2>2. h # Nil /\ t.m.own[c[k]] /\ t.m.stamp[c[k]] = t.i[h] /\ t.i[h] # 0
    BY <1>16 DEF Owned
  <2>3. v.hdr[c[k]] = h /\ v.own[c[k]] /\ v.stamp[c[k]] = j[h] /\ j[h] # 0
    BY <1>16, <2>1, <2>2, Zenon
  <2>4. QED  BY <2>2, <2>3, Zenon DEF Owned
<1>19. QED  BY <1>6, <1>13, <1>18

(* A header that apply_to_mklist destroys had a live link among those of   *)
(* c; a link it gives back is stale when it is done.                       *)
Outlived(v, c, s) == {c[k] : k \in {k \in 1 .. Len(c) : v.stamp[c[k]] # s.i[v.hdr[c[k]]]}}

LEMMA VisitedEnds ==
  ASSUME NEW g \in Nat, NEW v \in Memory, AllStrung(v), NEW j \in [Hdrs -> 0 .. g], NEW K,
         NEW c \in Seq(Links), IsInjective(c), \A k \in 1 .. Len(c) : v.list[c[k]] \in Lists,
         \A k \in 1 .. Len(c) : Bound(v, c[k]), NEW s, s = Visited(v, j, c, K)
  PROVE  /\ Tidied(v, s.m, Outlived(v, c, s))
         /\ \A h \in Hdrs : s.i[h] # j[h] =>
              s.i[h] = 0 /\ \E k \in 1 .. Len(c) : Live(v, j, c[k]) /\ v.hdr[c[k]] = h
<1>1. PICK f : VisitRun(f, v, j, c, K, s)  BY VisitPath
<1>2. /\ f[0] = [m |-> v, i |-> j] /\ f[Len(c)] = s
      /\ \A n \in 1 .. Len(c) : f[n] = Visit(f[n - 1], c[n], K)
  BY <1>1 DEF VisitRun
<1>3. PICK D : D = {c[k] : k \in {k \in 1 .. Len(c) : ~Live(f[k - 1].m, f[k - 1].i, c[k])}}
  OBVIOUS
<1>4. \A k \in 1 .. Len(c) : c[k] \in Links  OBVIOUS
<1>5. \A n \in 1 .. Len(c) : f[n - 1] \in Stages(g) =>
           /\ f[n] \in Stages(g)
           /\ \/ f[n].m = f[n - 1].m
              \/ c[n] \in D /\ f[n].m = Discard(f[n - 1].m, c[n])
  <2>1. ASSUME NEW n \in 1 .. Len(c), f[n - 1] \in Stages(g)
        PROVE  /\ f[n] \in Stages(g)
               /\ \/ f[n].m = f[n - 1].m
                  \/ c[n] \in D /\ f[n].m = Discard(f[n - 1].m, c[n])
    <3>1. c[n] \in Links /\ f[n] = Visit(f[n - 1], c[n], K)  BY <1>2
    <3>2. PICK t \in Stages(g) : t = f[n - 1]  BY <2>1
    <3>3. f[n] = Visit(t, c[n], K)  BY <3>1, <3>2
    <3>4. f[n] \in Stages(g) /\ (f[n].m = t.m \/ f[n].m = Discard(t.m, c[n]))
      BY <3>1, <3>3, VisitType
    <3>5. CASE Live(t.m, t.i, c[n])
      <4>1. f[n] = [t EXCEPT !.i = [h \in Hdrs |-> IF h = t.m.hdr[c[n]] /\ h \in K
                                                  THEN 0 ELSE @[h]]]
        BY <3>3, <3>5 DEF Visit
      <4>2. f[n].m = t.m  BY <4>1 DEF Stages
      <4>3. QED  BY <3>2, <3>4, <4>2
    <3>6. CASE ~Live(t.m, t.i, c[n])
      <4>1. c[n] \in D  BY <1>3, <3>2, <3>6
      <4>2. QED  BY <3>2, <3>4, <4>1
    <3>7. QED  BY <3>5, <3>6
  <2>2. QED  BY <2>1
<1>6. /\ \A n \in 0 .. Len(c) : f[n] \in Stages(g) /\ Tidied(v, f[n].m, D)
      /\ \A n \in 1 .. Len(c) : Same(v, f[n - 1].m, c[n])
  <2>1. f[0] = [m |-> v, i |-> j]  BY <1>2
  <2>2. QED  BY <1>5, <2>1, StagesTidy
<1>7. PICK L \in Nat : L = Len(c)  OBVIOUS
<1>8. ASSUME NEW h \in Hdrs, NEW n \in 1 .. L
      PROVE  \/ f[n].i[h] = f[n - 1].i[h]
             \/ /\ f[n].i[h] = 0
                /\ Live(f[n - 1].m, f[n - 1].i, c[n]) /\ f[n - 1].m.hdr[c[n]] = h
  <2>1. n - 1 \in 0 .. L  OBVIOUS
  <2>2. PICK t : t = f[n - 1]  OBVIOUS
  <2>3. f[n] = Visit(t, c[n], K) /\ t \in Stages(g)  BY <1>2, <1>6, <1>7, <2>1, <2>2
  <2>4. PICK i \in [Hdrs -> 0 .. g] : i = t.i  BY <2>3 DEF Stages
  <2>5. t = [m |-> t.m, i |-> i]  BY <2>3, <2>4 DEF Stages
  <2>6. CASE Live(t.m, t.i, c[n])
    <3>1. f[n] = [t EXCEPT !.i = [k \in Hdrs |-> IF k = t.m.hdr[c[n]] /\ k \in K
                                                 THEN 0 ELSE i[k]]]
      BY <2>3, <2>4, <2>6 DEF Visit, Stages
    <3>2. f[n].i = [k \in Hdrs |-> IF k = t.m.hdr[c[n]] /\ k \in K THEN 0 ELSE i[k]]
      BY <2>5, <3>1
    <3>3. f[n].i[h] = IF h = t.m.hdr[c[n]] /\ h \in K THEN 0 ELSE i[h]  BY <3>2
    <3>4. QED  BY <2>2, <2>4, <2>6, <3>3
  <2>7. CASE ~Live(t.m, t.i, c[n])
    <3>1. f[n] = [t EXCEPT !.m = Discard(t.m, c[n])]  BY <2>3, <2>7 DEF Visit
    <3>2. f[n].i = i  BY <2>5, <3>1
    <3>3. QED  BY <2>2, <2>4, <3>2
  <2>8. QED  BY <2>6, <2>7
<1>9. ASSUME NEW h \in Hdrs
      PROVE  /\ \A a \in 0 .. L : s.i[h] = f[a].i[h] \/ s.i[h] = 0
             /\ s.i[h] # j[h] => \E k \in 1 .. L : /\ f[k - 1].i[h] = j[h]
                                                   /\ f[k].i[h] # j[h]
  <2>1. PICK e : e = [n \in 0 .. L |-> f[n].i[h]]  OBVIOUS
  <2>2. \A n \in 0 .. L : e[n] = f[n].i[h]  BY <2>1
  <2>3. \A n \in 1 .. L : n \in 0 .. L /\ n - 1 \in 0 .. L  OBVIOUS
  <2>4. \A n \in 1 .. L : e[n] = e[n - 1] \/ e[n] = 0  BY <1>8, <2>2, <2>3
  <2>5. /\ \A a \in 0 .. L : e[L] = e[a] \/ e[L] = 0
        /\ e[L] # e[0] => \E k \in 1 .. L : e[k - 1] = e[0] /\ e[k] # e[0]
    BY <2>4, Falls
  <2>6. e[0] = j[h] /\ e[L] = s.i[h]
    <3>1. 0 \in 0 .. L /\ L \in 0 .. L  OBVIOUS
    <3>2. QED  BY <1>2, <1>7, <2>2, <3>1
  <2>7. QED  BY <2>2, <2>3, <2>5, <2>6
<1>10. ASSUME NEW h \in Hdrs, s.i[h] # j[h]
      PROVE  s.i[h] = 0 /\ \E k \in 1 .. L : Live(v, j, c[k]) /\ v.hdr[c[k]] = h
  <2>1. PICK k \in 1 .. L : f[k - 1].i[h] = j[h] /\ f[k].i[h] # j[h]  BY <1>9, <1>10
  <2>2. 0 \in 0 .. L /\ f[0].i[h] = j[h]  BY <1>2
  <2>3. s.i[h] = 0  BY <1>9, <1>10, <2>2
  <2>4. PICK t : t = f[k - 1]  OBVIOUS
  <2>5. Live(t.m, t.i, c[k]) /\ t.m.hdr[c[k]] = h /\ t.i[h] = j[h]  BY <1>8, <2>1, <2>4
  <2>6. Same(v, t.m, c[k])  BY <1>6, <1>7, <2>4
  <2>7. v.hdr[c[k]] = h /\ v.stamp[c[k]] = j[h] /\ h # Nil
    BY <2>5, <2>6 DEF Same, Live
  <2>8. QED  BY <2>3, <2>7 DEF Live
<1>11. D \subseteq Outlived(v, c, s)
  <2>1. ASSUME NEW k \in 1 .. L, ~Live(f[k - 1].m, f[k - 1].i, c[k])
        PROVE  v.stamp[c[k]] # s.i[v.hdr[c[k]]]
    <3>1. PICK t : t = f[k - 1]  OBVIOUS
    <3>2. Same(v, t.m, c[k]) /\ c[k] \in Links /\ Bound(v, c[k])  BY <1>4, <1>6, <1>7, <3>1
    <3>3. PICK h : h = v.hdr[c[k]]  OBVIOUS
    <3>4. h \in Hdrs /\ h # Nil /\ v.stamp[c[k]] # 0
      BY <3>2, <3>3 DEF Bound, Memory
    <3>5. v.stamp[c[k]] # t.i[h]  BY <2>1, <3>1, <3>2, <3>3, <3>4 DEF Same, Live
    <3>6. k - 1 \in 0 .. L  OBVIOUS
    <3>7. s.i[h] = t.i[h] \/ s.i[h] = 0  BY <1>9, <3>1, <3>4, <3>6
    <3>8. QED  BY <3>3, <3>4, <3>5, <3>7
  <2>2. QED  BY <1>3, <1>7, <2>1 DEF Outlived
<1>12. Tidied(v, s.m, D)
  <2>1. Len(c) \in 0 .. Len(c)  OBVIOUS
  <2>2. QED  BY <1>2, <1>6, <2>1
<1>13. Tidied(v, s.m, Outlived(v, c, s))  BY <1>11, <1>12 DEF Tidied
<1>14. QED  BY <1>7, <1>10, <1>13

(* The links of list l that a tidying of it took away                      *)
Gone(m, u, l) == {q \in Links : m.list[q] = l /\ u.list[q] # l}

LEMMA TidiedDeparted ==
  ASSUME NEW m \in Memory, AllStrung(m), NEW l \in Lists,
         NEW D, \A q \in Links : q \in D => m.list[q] = l, NEW u, Tidied(m, u, D)
  PROVE  /\ Departed(m, u, l, Gone(m, u, l), Gone(m, u, l))
         /\ Gone(m, u, l) \subseteq D
<1>1. u \in Memory /\ AllStrung(u) /\ InOrder(m, u)  BY DEF Tidied
<1>2. \A q \in Links : Same(m, u, q) \/ (Freed(u, q) /\ q \in D)  BY DEF Tidied
<1>3. l # Free  BY Distinct
<1>4. PICK S : S = Gone(m, u, l)  OBVIOUS
<1>5. ASSUME NEW q \in S PROVE q \in Links /\ m.list[q] = l /\ Freed(u, q) /\ q \in D
  <2>1. q \in Links /\ m.list[q] = l /\ u.list[q] # l  BY <1>4 DEF Gone
  <2>2. ~Same(m, u, q)  BY <2>1 DEF Same
  <2>3. QED  BY <1>2, <2>1, <2>2
<1>6. ASSUME NEW q \in Links \ S PROVE Same(m, u, q)
  <2>1. SUFFICES ASSUME Freed(u, q), q \in D PROVE FALSE  BY <1>2
  <2>2. m.list[q] = l /\ u.list[q] = Free  BY <2>1 DEF Freed
  <2>3. q \in S  BY <1>3, <1>4, <2>2 DEF Gone
  <2>4. QED  BY <2>3
<1>7. S \in SUBSET {p \in Links : m.list[p] = l} /\ S \in SUBSET S  BY <1>5
<1>8. \A p \in S \ S : FALSE  OBVIOUS
<1>9. \A p \in S : Freed(u, p)  BY <1>5
<1>10. Departed(m, u, l, S, S)  BY <1>1, <1>6, <1>7, <1>8, <1>9 DEF Departed
<1>11. QED  BY <1>4, <1>5, <1>10

(* Links of l leave it; the headers of K, which they owned, die.           *)
LEMMA DropStep ==
  ASSUME IndInv, NEW l \in Lists, NEW S, NEW T, NEW u, u = mem', Departed(mem, u, l, S, T),
         T = S \/ \E p \in S : T = S \ {p}, result' = Nil,
         NEW K, \A h \in K : \E p \in S : Owned(mem, inst, p) /\ mem.hdr[p] = h,
         inst' = [h \in Hdrs |-> IF h \in K THEN 0 ELSE inst[h]]
  PROVE  LL!Next
<1>1. LL!Leave(S) /\ S \in SUBSET LL!OnList(l) /\ T \in SUBSET S /\ Left(mem, u, S, T)
  BY LeaveStep
<1>2. PICK m \in Memory : m = mem  BY Known
<1>3. AllStrung(m) /\ S \in SUBSET {p \in Links : m.list[p] = l}
  BY <1>2, Known DEF Departed
<1>4. ASSUME NEW h \in K
      PROVE  \E p \in S : LL!alive(p) /\ mem.own[p] /\ mem.hdr[p] = h
  <2>1. PICK p \in S : Owned(mem, inst, p) /\ mem.hdr[p] = h  OBVIOUS
  <2>2. p \in Links /\ mem.list[p] \in Lists  BY <1>2, <1>3
  <2>3. LL!alive(p)  BY <2>1, <2>2, AliveIs DEF Owned, Live
  <2>4. mem.own[p]  BY <2>1 DEF Owned
  <2>5. QED  BY <2>1, <2>3, <2>4
<1>5. Idle(u) = Idle(m) \cup T  BY <1>1, <1>2 DEF Left
<1>6. S \cap Idle(u) = T
  <2>1. Idle(m) = {p \in Links : m.list[p] = Free}  BY <1>3, IdleIs
  <2>2. S \cap Idle(m) = {}  BY <1>3, <2>1, Distinct
  <2>3. QED  BY <1>1, <1>5, <2>2
<1>7. Idle(u) \in {Idle(m) \cup S} \cup {Idle(m) \cup (S \ {p}) : p \in S}  BY <1>5
<1>8. Bonds(u) = [p \in Links |-> IF p \in S \cap Idle(u) THEN Unbound ELSE Bonds(mem)[p]]
  BY <1>1, <1>6 DEF Left
<1>9. PICK B : B = {Bonds(mem)[p].hdr : p \in {q \in S : LL!alive(q) /\ Bonds(mem)[q].own}}
  OBVIOUS
<1>10. K \in SUBSET B
  <2>1. ASSUME NEW h \in K PROVE h \in B
    <3>1. PICK p \in S : LL!alive(p) /\ mem.own[p] /\ mem.hdr[p] = h  BY <1>4
    <3>2. p \in Links  BY <1>3
    <3>3. Bonds(mem)[p].hdr = mem.hdr[p] /\ Bonds(mem)[p].own = mem.own[p]
      BY <3>2 DEF Bonds
    <3>4. Bonds(mem)[p].own  BY <3>1, <3>3, Zenon
    <3>5. QED  BY <1>9, <3>1, <3>3, <3>4
  <2>2. QED  BY <2>1
<1>11. LL!Drop(l, S)
  BY <1>1, <1>2, <1>7, <1>8, <1>9, <1>10 DEF LL!Drop, LL!Leave, Idle, Bonds, Unbound
<1>12. QED  BY <1>1, <1>11 DEF LL!Next

(* The headers of K were met alive on l; what leaves l is stale then.      *)
Culling(l, S, K, u) ==
  /\ Departed(mem, u, l, S, S)
  /\ inst' = [h \in Hdrs |-> IF h \in K THEN 0 ELSE inst[h]]
  /\ \A h \in K : \E p \in Links : mem.list[p] = l /\ Live(mem, inst, p) /\ mem.hdr[p] = h
  /\ \A p \in S : mem.stamp[p] # inst'[mem.hdr[p]]

LEMMA CullStep ==
  ASSUME IndInv, NEW l \in Lists, NEW S, NEW K, NEW u, u = mem', result' = Nil,
         Culling(l, S, K, u)
  PROVE  LL!Next
<1>1. /\ Departed(mem, u, l, S, S)
      /\ inst' = [h \in Hdrs |-> IF h \in K THEN 0 ELSE inst[h]]
      /\ \A h \in K : \E p \in Links : mem.list[p] = l /\ Live(mem, inst, p) /\ mem.hdr[p] = h
      /\ \A p \in S : mem.stamp[p] # inst'[mem.hdr[p]]
  BY DEF Culling
<1>2. LL!Leave(S) /\ S \in SUBSET LL!OnList(l) /\ Left(mem, u, S, S)  BY <1>1, LeaveStep
<1>3. Idle(u) = Idle(mem) \cup S  BY <1>2 DEF Left
<1>4. Bonds(u) = [p \in Links |-> IF p \in S THEN Unbound ELSE Bonds(mem)[p]]
  BY <1>2 DEF Left
<1>5. \A p \in S : p \in Links  BY <1>2, OnListIs
<1>6. \A p \in S : Bonds(mem)[p].stamp # inst'[Bonds(mem)[p].hdr]  BY <1>1, <1>5 DEF Bonds
<1>7. LL!Cull(l, K)
  <2>1. \A p \in S : [q \in Links |-> [hdr |-> mem.hdr[q], stamp |-> mem.stamp[q],
                                      own |-> mem.own[q]]][p].stamp
                     # inst'[[q \in Links |-> [hdr |-> mem.hdr[q], stamp |-> mem.stamp[q],
                                               own |-> mem.own[q]]][p].hdr]
    BY <1>6 DEF Bonds
  <2>2. LL!Leave(S) /\ S \in SUBSET LL!OnList(l)  BY <1>2
  <2>3. Idle(mem') = Idle(mem) \cup S  BY <1>3
  <2>4. Bonds(mem') = [p \in Links |-> IF p \in S THEN Unbound ELSE Bonds(mem)[p]]  BY <1>4
  <2>5. QED
    BY <1>1, <2>1, <2>2, <2>3, <2>4, Zenon DEF LL!Cull, Idle, Bonds, Unbound
<1>8. PICK B : B = {Bonds(mem)[p].hdr : p \in {q \in LL!OnList(l) : LL!alive(q)}}  OBVIOUS
<1>9. K \in SUBSET B
  <2>1. ASSUME NEW h \in K PROVE h \in B
    <3>1. PICK p \in Links : mem.list[p] = l /\ Live(mem, inst, p) /\ mem.hdr[p] = h
      BY <1>1
    <3>2. p \in LL!OnList(l) /\ LL!alive(p)  BY <3>1, OnListIs, AliveIs
    <3>3. Bonds(mem)[p].hdr = h  BY <3>1 DEF Bonds
    <3>4. QED  BY <1>8, <3>2, <3>3
  <2>2. QED  BY <2>1
<1>10. QED  BY <1>7, <1>8, <1>9 DEF LL!Next, Bonds

(* A free link is bound to a header and put on l.                          *)
LEMMA BindStep ==
  ASSUME IndInv, NEW h \in Hdrs, Binding(h)
  PROVE  LL!Next
<1>1. PICK p \in Links, l \in Lists, w \in Memory :
        Taken(mem, w, p, h, inst[h]) /\ Placed(w, mem', p, l) /\ Joined(w, mem', p, l)
  BY DEF Binding
<1>2. PICK u : /\ u = mem' /\ result' = Nil /\ inst' = inst
                 /\ Placed(w, u, p, l) /\ Joined(w, u, p, l)
  BY <1>1 DEF Binding
<1>3. PICK m \in Memory : m = mem  BY Known
<1>4. AllStrung(m) /\ Taken(m, w, p, h, inst[h])  BY <1>1, <1>3, Known
<1>5. /\ w \in Memory /\ AllStrung(w) /\ m.list[p] = Free
      /\ w.list[p] = Nil /\ w.hdr[p] = h /\ w.stamp[p] = inst[h]
      /\ \A q \in Links \ {p} : Same(m, w, q)
      /\ \A k \in Lists : Kept(m, w, k)
  BY <1>4 DEF Taken
<1>6. /\ u \in Memory /\ AllStrung(u)
      /\ u.list[p] = l /\ u.hdr[p] = w.hdr[p] /\ u.stamp[p] = w.stamp[p]
      /\ \A q \in Links \ {p} : Same(w, u, q)
  BY <1>2 DEF Placed
<1>7. Gains(w, u, p, l) /\ \A k \in Lists \ {l} : Kept(w, u, k)  BY <1>2 DEF Joined
<1>8. \A k \in Lists : Chain(w, k) = Chain(m, k)  BY <1>4, <1>5, KeptChain
<1>9. \A k \in Lists \ {l} : Chain(u, k) = Chain(m, k)
  <2>1. \A k \in Lists \ {l} : Chain(u, k) = Chain(w, k)  BY <1>5, <1>6, <1>7, KeptChain
  <2>2. QED  BY <1>8, <2>1
<1>10. PICK s \in Seq(Links) :
        /\ Strung(w, l, s)
        /\ \E i \in 1 .. Len(s) + 1 : Strung(u, l, With(s, i, p))
  BY <1>7 DEF Gains
<1>11. PICK i \in 1 .. Len(s) + 1 : Strung(u, l, With(s, i, p))  BY <1>10
<1>12. s = Chain(m, l)
  <2>1. s = Chain(w, l)  BY <1>5, <1>10, ChainIs
  <2>2. QED  BY <1>8, <2>1
<1>13. Chain(u, l) = InsertAt(s, i, p)
  <2>1. PICK t : t = With(s, i, p)  OBVIOUS
  <2>2. Strung(u, l, t)  BY <1>11, <2>1
  <2>3. t \in Seq(Links)  BY <2>2 DEF Strung
  <2>4. Chain(u, l) = t  BY <1>6, <2>2, <2>3, ChainIs
  <2>5. InsertAt(s, i, p) = t  BY <2>1, InsertAtIs
  <2>6. QED  BY <2>4, <2>5
<1>14. Order(u) = [Order(m) EXCEPT ![l] = LL!InsertAt(@, i, p)]
  <2>1. PICK t : t = InsertAt(s, i, p)  OBVIOUS
  <2>2. LL!InsertAt(Order(m)[l], i, p) = t  BY <1>12, <2>1, ThroughLL DEF Order
  <2>3. Order(u) = [k \in Lists |-> IF k = l THEN t ELSE Chain(m, k)]
    BY <1>9, <1>13, <2>1 DEF Order
  <2>4. [Order(m) EXCEPT ![l] = t] = [k \in Lists |-> IF k = l THEN t ELSE Chain(m, k)]
    BY DEF Order
  <2>5. QED  BY <2>2, <2>3, <2>4
<1>15. Idle(u) = Idle(m) \ {p} /\ p \in Idle(m)
  <2>1. Idle(u) = {q \in Links : u.list[q] = Free} /\ Idle(m) = {q \in Links : m.list[q] = Free}
    BY <1>4, <1>6, IdleIs
  <2>2. \A q \in Links \ {p} : u.list[q] = m.list[q]  BY <1>5, <1>6 DEF Same
  <2>3. QED  BY <1>5, <1>6, <2>1, <2>2, Distinct
<1>16. PICK own \in BOOLEAN : own = u.own[p]  BY <1>6 DEF Memory
<1>17. Bonds(u) = [Bonds(m) EXCEPT ![p] = [hdr |-> h, stamp |-> inst[h], own |-> own]]
  <2>1. \A q \in Links \ {p} : Bonds(u)[q] = Bonds(m)[q]  BY <1>5, <1>6 DEF Bonds, Same
  <2>2. Bonds(u)[p] = [hdr |-> h, stamp |-> inst[h], own |-> own]
    BY <1>5, <1>6, <1>16 DEF Bonds
  <2>3. Bonds(u) = [q \in Links |-> Bonds(u)[q]] /\ Bonds(m) = [q \in Links |-> Bonds(m)[q]]
    BY DEF Bonds
  <2>4. QED  BY <2>1, <2>2, <2>3
<1>18. i \in 1 .. Len(Order(m)[l]) + 1  BY <1>12 DEF Order
<1>19. LL!Bind(l, h, i)
  BY <1>2, <1>3, <1>14, <1>15, <1>16, <1>17, ZenonT(30)
     DEF LL!Bind, Order, Idle, Bonds
<1>20. QED  BY <1>3, <1>18, <1>19 DEF LL!Next, Order

(* A header is bound in a life that no link has seen.                      *)
LEMMA BornStep ==
  ASSUME IndInv, NEW h \in Hdrs, get_mkhdr(h)
  PROVE  LL!Next
<1>1. PICK g \in Nat : g = global_instance_ctr  BY Known
<1>2. PICK i \in [Hdrs -> 0 .. g] : i = inst  BY <1>1, Known
<1>3. PICK j : j = [i EXCEPT ![h] = g + 1]  OBVIOUS
<1>4. i[h] = 0 /\ inst' = j /\ result' = Nil /\ mem' = mem
  BY <1>1, <1>2, <1>3 DEF get_mkhdr
<1>5. \A k \in Hdrs : IF k = h THEN j[k] > i[k] ELSE j[k] = i[k]  BY <1>2, <1>3, <1>4
<1>6. \A k \in Hdrs : IF k = h THEN inst'[k] > inst[k] ELSE inst'[k] = inst[k]
  BY <1>2, <1>4, <1>5
<1>7. ASSUME NEW p \in Links PROVE inst'[h] # Bonds(mem)[p].stamp
  <2>1. PICK m \in Memory : m = mem /\ Linked(m, g, detached)  BY <1>1, Known
  <2>2. m.stamp[p] <= g /\ m.stamp[p] \in Nat  BY <2>1 DEF Linked, Memory
  <2>3. j[h] = g + 1  BY <1>3
  <2>4. Bonds(mem)[p].stamp = m.stamp[p]  BY <2>1 DEF Bonds
  <2>5. QED  BY <1>4, <2>2, <2>3, <2>4
<1>8. LL!Born(h)
  <2>1. inst[h] = 0 /\ result' = Nil  BY <1>2, <1>4
  <2>2. UNCHANGED <<[l \in Lists |-> Chain(mem, l)], LL!ToSet(Chain(mem, Free)), Bonds(mem)>>
    BY <1>4 DEF Bonds
  <2>3. QED  BY <1>4, <1>6, <1>7, <2>1 DEF LL!Born, Bonds
<1>9. QED  BY <1>8 DEF LL!Next

LEMMA DiesStep ==
  ASSUME IndInv, NEW h \in Hdrs, vdestroy_mkhdr_generic(h)
  PROVE  LL!Next
<1>1. inst' = [inst EXCEPT ![h] = 0] /\ result' = Nil /\ mem' = mem
  BY DEF vdestroy_mkhdr_generic
<1>2. LL!Dies(h)  BY <1>1 DEF LL!Dies
<1>3. QED  BY <1>2 DEF LL!Next

LEMMA SearchingStep ==
  ASSUME IndInv, NEW l \in Lists, Searching(l)
  PROVE  LL!Search(l)
<1>1. PICK m \in Memory : m = mem  BY Known
<1>2. PICK u : u = mem'  OBVIOUS
<1>3. PICK D : D = StaleOn(m, inst, l)  OBVIOUS
<1>4. AllStrung(m) /\ Tidied(m, u, D)  BY <1>1, <1>2, <1>3, Known DEF Searching
<1>5. \A q \in Links : q \in D => m.list[q] = l  BY <1>3 DEF StaleOn
<1>6. PICK S : S = Gone(m, u, l)  OBVIOUS
<1>7. Departed(m, u, l, S, S) /\ S \subseteq D  BY <1>4, <1>5, <1>6, TidiedDeparted
<1>8. Departed(mem, u, l, S, S) /\ S \subseteq StaleOn(mem, inst, l)  BY <1>1, <1>3, <1>7
<1>9. inst' = inst
      /\ (result' # Nil => result' \in Links /\ mem.list[result'] = l
                           /\ Live(mem, inst, result'))
  BY DEF Searching
<1>10. QED  BY <1>2, <1>8, <1>9, SearchStep

LEMMA TidiedTwice ==
  ASSUME NEW m, NEW u, NEW w, NEW D, NEW E, Tidied(m, u, D), Tidied(u, w, E)
  PROVE  Tidied(m, w, D \cup E)
<1>1. w \in Memory /\ AllStrung(w)  BY DEF Tidied
<1>2. InOrder(m, w)
  <2>1. InOrder(m, u) /\ InOrder(u, w)  BY DEF Tidied
  <2>2. QED  BY <2>1 DEF InOrder
<1>3. ASSUME NEW q \in Links PROVE Same(m, w, q) \/ (Freed(w, q) /\ q \in D \cup E)
  <2>1. Same(m, u, q) \/ (Freed(u, q) /\ q \in D)  BY DEF Tidied
  <2>2. Same(u, w, q) \/ (Freed(w, q) /\ q \in E)  BY DEF Tidied
  <2>3. CASE Freed(w, q) /\ q \in E  BY <2>3
  <2>4. CASE Same(u, w, q) /\ Same(m, u, q)
    <3>1. Same(m, w, q)  BY <2>4 DEF Same
    <3>2. QED  BY <3>1
  <2>5. CASE Same(u, w, q) /\ Freed(u, q) /\ q \in D
    <3>1. Freed(w, q)
      <4>1. w.hdr[q] = Nil /\ w.stamp[q] = 0 /\ w.list[q] = Free
        BY <2>5 DEF Same, Freed
      <4>2. w.own[q] = u.own[q] /\ u.own[q] = TRUE  BY <2>5 DEF Same, Freed
      <4>3. w.own[q] = TRUE  BY <4>2, Zenon
      <4>4. QED  BY <4>1, <4>3 DEF Freed
    <3>2. QED  BY <2>5, <3>1
  <2>6. QED  BY <2>1, <2>2, <2>3, <2>4, <2>5
<1>4. QED  BY <1>1, <1>2, <1>3 DEF Tidied

LEMMA NothingTidied ==
  ASSUME NEW m \in Memory, AllStrung(m), NEW D
  PROVE  Tidied(m, m, D)
<1>1. InOrder(m, m)  BY DEF InOrder
<1>2. \A q \in Links : Same(m, m, q)  BY DEF Same
<1>3. QED  BY <1>1, <1>2 DEF Tidied

(* Links of D, all on list l, went; the headers of K, which links that     *)
(* went owned, died.                                                       *)
Dropping(l, D, K, u) ==
  /\ Tidied(mem, u, D) /\ \A q \in Links : q \in D => mem.list[q] = l
  /\ \A h \in K : \E p \in Links : /\ mem.list[p] = l /\ u.list[p] # l
                                 /\ Owned(mem, inst, p) /\ mem.hdr[p] = h
  /\ inst' = [h \in Hdrs |-> IF h \in K THEN 0 ELSE inst[h]]

LEMMA TidyDrop ==
  ASSUME IndInv, NEW l \in Lists, NEW D, NEW K, NEW u, u = mem', result' = Nil,
         Dropping(l, D, K, u)
  PROVE  LL!Next
<1>1. PICK m \in Memory : m = mem  BY Known
<1>2. AllStrung(m) /\ Tidied(m, u, D)  BY <1>1, Known DEF Dropping
<1>3. \A q \in Links : q \in D => m.list[q] = l  BY <1>1 DEF Dropping
<1>4. PICK S : S = Gone(m, u, l)  OBVIOUS
<1>5. Departed(m, u, l, S, S)  BY <1>2, <1>3, <1>4, TidiedDeparted
<1>6. Departed(mem, u, l, S, S)  BY <1>1, <1>5
<1>7. \A h \in K : \E p \in S : Owned(mem, inst, p) /\ mem.hdr[p] = h
  BY <1>1, <1>4 DEF Gone, Dropping
<1>8. PICK T : T = S  OBVIOUS
<1>9. Departed(mem, u, l, S, T) /\ (T = S \/ \E p \in S : T = S \ {p})  BY <1>6, <1>8
<1>10. inst' = [h \in Hdrs |-> IF h \in K THEN 0 ELSE inst[h]]  BY DEF Dropping
<1>11. QED  BY <1>7, <1>9, <1>10, DropStep

(* All links that DestroyLinks treats are free when it is done.            *)
LEMMA DestroyedFrees ==
  ASSUME NEW g \in Nat, NEW v \in Memory, AllStrung(v), NEW j \in [Hdrs -> 0 .. g],
         NEW c \in Seq(Links), IsInjective(c), \A k \in 1 .. Len(c) : v.list[c[k]] \in Lists,
         NEW s, s = Destroyed(v, j, c), NEW a \in 1 .. Len(c)
  PROVE  s.m.list[c[a]] = Free
<1>1. PICK f : DestroyRun(f, v, j, c, s)  BY DestroyPath
<1>2. /\ f[0] = [m |-> v, i |-> j] /\ f[Len(c)] = s
      /\ \A n \in 1 .. Len(c) : f[n] = DestroyLink(f[n - 1], c[n])
  BY <1>1 DEF DestroyRun
<1>3. PICK D : D = Listed(v)  OBVIOUS
<1>4. \A k \in 1 .. Len(c) : c[k] \in Links /\ c[k] \in D  BY <1>3 DEF Listed
<1>5. /\ \A n \in 0 .. Len(c) : f[n] \in Stages(g) /\ Tidied(v, f[n].m, D)
      /\ \A n \in 1 .. Len(c) : /\ f[n].m = Discard(f[n - 1].m, c[n])
                                /\ Same(v, f[n - 1].m, c[n])
  BY <1>1, <1>4, DestroyStages
<1>6. PICK L \in Nat : L = Len(c)  OBVIOUS
<1>7. PICK q \in Links : q = c[a]  BY <1>4
<1>8. ASSUME NEW n \in 1 .. L
      PROVE  f[n].m.list[q] = IF n = a THEN Free ELSE f[n - 1].m.list[q]
  <2>1. n - 1 \in 0 .. Len(c) /\ n \in 1 .. Len(c)  BY <1>6
  <2>2. PICK w : w = f[n - 1].m  OBVIOUS
  <2>3. w \in Memory /\ AllStrung(w)  BY <1>5, <2>1, <2>2 DEF Tidied
  <2>4. PICK p \in Links : p = c[n]  BY <1>4, <2>1
  <2>5. w.list[p] \in Lists \cup {Nil}  BY <1>5, <2>1, <2>2, <2>4 DEF Same
  <2>6. PICK u : u = f[n].m  OBVIOUS
  <2>7. u = Discard(w, p)  BY <1>5, <2>1, <2>2, <2>4, <2>6
  <2>8. Discarded(w, u, p)  BY <2>3, <2>5, <2>7, DiscardFacts
  <2>9. CASE n = a
    <3>1. p = q  BY <1>7, <2>4, <2>9
    <3>2. QED  BY <2>6, <2>8, <2>9, <3>1 DEF Discarded, Freed
  <2>10. CASE n # a
    <3>1. \A x, y \in 1 .. Len(c) : c[x] = c[y] => x = y  BY SetView
    <3>2. p # q  BY <1>7, <2>1, <2>4, <2>10, <3>1
    <3>3. QED  BY <2>2, <2>6, <2>8, <2>10, <3>2 DEF Discarded, Same
  <2>11. QED  BY <2>9, <2>10
<1>9. PICK e : e = [n \in 0 .. L |-> IF f[n].m.list[q] = Free THEN 0 ELSE 1]  OBVIOUS
<1>10. \A n \in 0 .. L : e[n] = IF f[n].m.list[q] = Free THEN 0 ELSE 1  BY <1>9
<1>11. \A n \in 1 .. L : e[n] = e[n - 1] \/ e[n] = 0
  <2>1. ASSUME NEW n \in 1 .. L PROVE e[n] = e[n - 1] \/ e[n] = 0
    <3>1. n \in 0 .. L /\ n - 1 \in 0 .. L  OBVIOUS
    <3>2. QED  BY <1>8, <1>10, <3>1
  <2>2. QED  BY <2>1
<1>12. a \in 0 .. L /\ a \in 1 .. L /\ L \in 0 .. L  BY <1>6
<1>13. e[a] = 0  BY <1>8, <1>10, <1>12
<1>14. e[L] = 0
  <2>1. \A n \in 0 .. L : e[L] = e[n] \/ e[L] = 0  BY <1>11, Falls
  <2>2. QED  BY <1>12, <1>13, <2>1
<1>15. s.m.list[q] = Free  BY <1>2, <1>6, <1>10, <1>12, <1>14
<1>16. QED  BY <1>7, <1>15

(* Links of l are destroyed when a search of l found them.                 *)
LEMMA DestroyStep ==
  ASSUME IndInv, NEW l \in Lists, NEW v, Linked(v, global_instance_ctr, detached),
         NEW E, \A q \in Links : q \in E => mem.list[q] = l, Tidied(mem, v, E),
         NEW c \in Seq(Links), IsInjective(c),
         \A k \in 1 .. Len(c) : mem.list[c[k]] = l /\ Same(mem, v, c[k]),
         DestroyLinks(v, c)
  PROVE  LL!Next
<1>1. PICK g \in Nat : g = global_instance_ctr  BY Known
<1>2. PICK j \in [Hdrs -> 0 .. g] : j = inst  BY <1>1, Known
<1>3. PICK s : s = Destroyed(v, j, c)  OBVIOUS
<1>4. mem' = s.m /\ inst' = s.i /\ result' = Nil
  BY <1>2, <1>3 DEF DestroyLinks, Destroyed
<1>5. v \in Memory  BY DEF Linked
<1>6. AllStrung(v)  BY DEF Linked
<1>7. \A k \in 1 .. Len(c) : v.list[c[k]] \in Lists  BY DEF Same
<1>8. PICK D : D = {q \in Links : mem.list[q] = l}  OBVIOUS
<1>9. \A k \in 1 .. Len(c) : c[k] \in D  BY <1>8
<1>10. s \in Stages(g) /\ Tidied(v, s.m, D)
  BY <1>3, <1>5, <1>6, <1>7, <1>9, DestroyedTidy
<1>11. \A a \in 1 .. Len(c) : s.m.list[c[a]] = Free
  BY <1>3, <1>5, <1>6, <1>7, DestroyedFrees, ZenonT(30)
<1>12. \A h \in Hdrs : s.i[h] # j[h] =>
         s.i[h] = 0 /\ \E k \in 1 .. Len(c) : Owned(v, j, c[k]) /\ v.hdr[c[k]] = h
  <2>1. ASSUME NEW h \in Hdrs, s.i[h] # j[h]
        PROVE  s.i[h] = 0 /\ \E k \in 1 .. Len(c) : Owned(v, j, c[k]) /\ v.hdr[c[k]] = h
    BY <1>3, <1>5, <1>6, <1>7, <2>1, DestroyedEnds, SMTT(30)
  <2>2. QED  BY <2>1
<1>13. PICK u : u = s.m  OBVIOUS
<1>14. PICK B : B = E \cup D  OBVIOUS
<1>15. Tidied(mem, u, B)
  <2>1. Tidied(v, u, D)  BY <1>10, <1>13
  <2>2. QED  BY <1>14, <2>1, TidiedTwice
<1>16. \A q \in Links : q \in B => mem.list[q] = l  BY <1>8, <1>14
<1>17. PICK i \in [Hdrs -> 0 .. g] : i = s.i  BY <1>10 DEF Stages
<1>18. PICK K : K = {h \in Hdrs : i[h] # j[h]}  OBVIOUS
<1>19. ASSUME NEW h \in K
       PROVE  \E p \in Links : /\ mem.list[p] = l /\ u.list[p] # l
                               /\ Owned(mem, inst, p) /\ mem.hdr[p] = h
  <2>1. h \in Hdrs /\ s.i[h] # j[h]  BY <1>17, <1>18
  <2>2. PICK k \in 1 .. Len(c) : Owned(v, j, c[k]) /\ v.hdr[c[k]] = h  BY <1>12, <2>1
  <2>3. PICK p \in Links : p = c[k]  OBVIOUS
  <2>4. mem.list[p] = l /\ Same(mem, v, p)  BY <2>2, <2>3
  <2>5. u.list[p] # l  BY <1>11, <1>13, <2>2, <2>3, Distinct
  <2>6. mem.hdr[p] = h  BY <2>2, <2>3, <2>4 DEF Same
  <2>7. Owned(mem, inst, p)
    <3>1. Owned(v, inst, p)  BY <1>2, <2>2, <2>3
    <3>2. v.hdr[p] = mem.hdr[p] /\ v.stamp[p] = mem.stamp[p] /\ v.own[p] = mem.own[p]
      BY <2>4 DEF Same
    <3>3. v.hdr[p] # Nil /\ v.own[p] /\ v.stamp[p] = inst[v.hdr[p]] /\ inst[v.hdr[p]] # 0
      BY <3>1 DEF Owned
    <3>4. QED  BY <3>2, <3>3, Zenon DEF Owned
  <2>8. QED  BY <2>4, <2>5, <2>6, <2>7
<1>20. inst' = [h \in Hdrs |-> IF h \in K THEN 0 ELSE inst[h]]
  <2>1. \A h \in Hdrs : i[h] = IF h \in K THEN 0 ELSE j[h]  BY <1>12, <1>17, <1>18
  <2>2. QED  BY <1>2, <1>4, <1>17, <2>1
<1>21. u = mem' /\ result' = Nil  BY <1>4, <1>13
<1>22. Dropping(l, B, K, u)  BY <1>15, <1>16, <1>19, <1>20 DEF Dropping
<1>23. QED  BY <1>21, <1>22, TidyDrop

LEMMA DestroyOneStep ==
  ASSUME IndInv, NEW p \in Links, destroy_mkptr(p)
  PROVE  LL!Next
<1>1. PICK c : c = <<p>>  OBVIOUS
<1>2. PICK v \in Memory : v = mem  BY Known
<1>3. AllStrung(v) /\ Linked(v, global_instance_ctr, detached)  BY <1>2, Known
<1>4. mem.list[p] \in Lists /\ DestroyLinks(v, c)  BY <1>1, <1>2 DEF destroy_mkptr
<1>5. PICK l \in Lists : l = mem.list[p]  BY <1>4
<1>6. c \in Seq(Links) /\ IsInjective(c) /\ \A k \in 1 .. Len(c) : c[k] = p
  BY <1>1, OneLink
<1>7. \A k \in 1 .. Len(c) : mem.list[c[k]] = l /\ Same(mem, v, c[k])
  BY <1>2, <1>5, <1>6 DEF Same
<1>8. PICK E : E = {q \in Links : mem.list[q] = l}  OBVIOUS
<1>9. \A q \in Links : q \in E => mem.list[q] = l  BY <1>8
<1>10. Tidied(mem, v, E)  BY <1>2, <1>3, NothingTidied
<1>11. c \in Seq(Links) /\ IsInjective(c)  BY <1>6
<1>12. Linked(v, global_instance_ctr, detached)  BY <1>3
<1>13. QED  BY <1>4, <1>7, <1>9, <1>10, <1>11, <1>12, DestroyStep

LEMMA DestroyListStep ==
  ASSUME IndInv, NEW l \in Lists, destroy_list(l)
  PROVE  LL!Next
<1>1. PICK c : c = Chain(mem, l)  OBVIOUS
<1>2. PICK v \in Memory : v = mem  BY Known
<1>3. AllStrung(v) /\ Linked(v, global_instance_ctr, detached)  BY <1>2, Known
<1>4. DestroyLinks(v, c)  BY <1>1, <1>2 DEF destroy_list
<1>5. /\ c \in Seq(Links) /\ IsInjective(c)
      /\ \A k \in 1 .. Len(c) : mem.list[c[k]] = l
  BY <1>1, WholeList
<1>6. \A k \in 1 .. Len(c) : mem.list[c[k]] = l /\ Same(mem, v, c[k])
  BY <1>2, <1>5 DEF Same
<1>7. PICK E : E = {q \in Links : mem.list[q] = l}  OBVIOUS
<1>8. \A q \in Links : q \in E => mem.list[q] = l  BY <1>7
<1>9. Tidied(mem, v, E)  BY <1>2, <1>3, NothingTidied
<1>10. c \in Seq(Links) /\ IsInjective(c)  BY <1>5
<1>11. Linked(v, global_instance_ctr, detached)  BY <1>3
<1>12. QED  BY <1>4, <1>6, <1>8, <1>9, <1>10, <1>11, DestroyStep

LEMMA PullDestroyStep ==
  ASSUME IndInv, NEW h \in Hdrs, NEW l \in Lists, mk_pull_destroy(h, l)
  PROVE  LL!Next
<1>1. PICK p : p = FindIn(mem, inst, h, l)  OBVIOUS
<1>2. PICK v : v = AfterFind(mem, inst, h, l)  OBVIOUS
<1>3. PICK c : c = <<p>>  OBVIOUS
<1>4. p # Nil /\ DestroyLinks(v, c)  BY <1>1, <1>2, <1>3 DEF mk_pull_destroy
<1>5. /\ p \in Links /\ Linked(v, global_instance_ctr, detached)
      /\ Tidied(mem, v, StaleOn(mem, inst, l))
      /\ mem.list[p] = l /\ Same(mem, v, p)
  BY <1>1, <1>2, <1>4, FoundOnList
<1>6. c \in Seq(Links) /\ IsInjective(c) /\ \A k \in 1 .. Len(c) : c[k] = p
  BY <1>3, <1>5, OneLink
<1>7. \A k \in 1 .. Len(c) : mem.list[c[k]] = l /\ Same(mem, v, c[k])  BY <1>5, <1>6
<1>8. PICK E : E = StaleOn(mem, inst, l)  OBVIOUS
<1>9. \A q \in Links : q \in E => mem.list[q] = l  BY <1>8 DEF StaleOn
<1>10. Tidied(mem, v, E)  BY <1>5, <1>8
<1>11. c \in Seq(Links) /\ IsInjective(c)  BY <1>6
<1>12. Linked(v, global_instance_ctr, detached)  BY <1>5
<1>13. QED  BY <1>4, <1>7, <1>9, <1>10, <1>11, <1>12, DestroyStep

LEMMA NobodyDies ==
  ASSUME IndInv, inst' = inst
  PROVE  inst' = [h \in Hdrs |-> IF h \in {} THEN 0 ELSE inst[h]]
<1>1. inst = [h \in Hdrs |-> inst[h]]  BY Known
<1>2. QED  BY <1>1

LEMMA PullDiscardStep ==
  ASSUME IndInv, NEW h \in Hdrs, NEW l \in Lists, mk_pull_discard(h, l)
  PROVE  LL!Next
<1>1. PICK p : p = FindIn(mem, inst, h, l)  OBVIOUS
<1>2. PICK v : v = AfterFind(mem, inst, h, l)  OBVIOUS
<1>3. PICK u : u = Discard(v, p)  OBVIOUS
<1>4. p # Nil /\ u = mem' /\ result' = Nil /\ inst' = inst
  BY <1>1, <1>2, <1>3 DEF mk_pull_discard
<1>5. /\ p \in Links /\ v.list[p] = l /\ v \in Memory /\ AllStrung(v)
      /\ Tidied(mem, v, StaleOn(mem, inst, l)) /\ mem.list[p] = l
  BY <1>1, <1>2, <1>4, FoundOnList
<1>6. v.list[p] \in Lists \cup {Nil}  BY <1>5
<1>7. Discarded(v, u, p)  BY <1>3, <1>5, <1>6, DiscardFacts
<1>8. InOrder(v, u)  BY <1>3, <1>5, <1>6, DiscardInOrder
<1>9. PICK D : D = {q \in Links : mem.list[q] = l}  OBVIOUS
<1>10. Tidied(v, u, D)  BY <1>5, <1>7, <1>8, <1>9 DEF Discarded, Tidied
<1>11. PICK B : B = StaleOn(mem, inst, l) \cup D  OBVIOUS
<1>12. Tidied(mem, u, B)  BY <1>5, <1>10, <1>11, TidiedTwice
<1>13. \A q \in Links : q \in B => mem.list[q] = l  BY <1>9, <1>11 DEF StaleOn
<1>14. PICK K : K = {}  OBVIOUS
<1>15. inst' = [g \in Hdrs |-> IF g \in K THEN 0 ELSE inst[g]]  BY <1>4, <1>14, NobodyDies
<1>16. Dropping(l, B, K, u)  BY <1>12, <1>13, <1>14, <1>15 DEF Dropping
<1>17. QED  BY <1>4, <1>16, TidyDrop

LEMMA DiscardListStep ==
  ASSUME IndInv, NEW l \in Lists, discard_list(l)
  PROVE  LL!Next
<1>1. PICK v \in Memory : v = mem  BY Known
<1>2. PICK c : c = Chain(mem, l)  OBVIOUS
<1>3. PICK u : u = DiscardAll(v, c)  OBVIOUS
<1>4. u = mem' /\ result' = Nil /\ inst' = inst  BY <1>1, <1>2, <1>3 DEF discard_list
<1>5. AllStrung(v)  BY <1>1, Known
<1>6. /\ c \in Seq(Links) /\ IsInjective(c)
      /\ \A k \in 1 .. Len(c) : mem.list[c[k]] = l
  BY <1>2, WholeList
<1>7. \A k \in 1 .. Len(c) : v.list[c[k]] \in Lists  BY <1>1, <1>6
<1>8. PICK D : D = {q \in Links : mem.list[q] = l}  OBVIOUS
<1>9. \A k \in 1 .. Len(c) : c[k] \in D  BY <1>6, <1>8
<1>10. c \in Seq(Links) /\ IsInjective(c)  BY <1>6
<1>11. Tidied(v, u, D)  BY <1>3, <1>5, <1>7, <1>9, <1>10, DiscardAllTidy
<1>12. PICK K : K = {}  OBVIOUS
<1>13. inst' = [g \in Hdrs |-> IF g \in K THEN 0 ELSE inst[g]]  BY <1>4, <1>12, NobodyDies
<1>14. Dropping(l, D, K, u)  BY <1>1, <1>8, <1>11, <1>12, <1>13 DEF Dropping
<1>15. QED  BY <1>4, <1>14, TidyDrop

(* The link that mk_pull hands to its caller leaves the list and stands    *)
(* for what it stood for.                                                  *)
LEMMA PullStep ==
  ASSUME IndInv, NEW h \in Hdrs, NEW l \in Lists, mk_pull(h, l)
  PROVE  LL!Next
<1>1. PICK p : p = FindIn(mem, inst, h, l)  OBVIOUS
<1>2. PICK v : v = AfterFind(mem, inst, h, l)  OBVIOUS
<1>3. PICK u : u = Unlink(v, p)  OBVIOUS
<1>4. p # Nil /\ u = mem' /\ result' = Nil /\ inst' = inst
  BY <1>1, <1>2, <1>3 DEF mk_pull
<1>5. PICK m \in Memory : m = mem  BY Known
<1>6. /\ p \in Links /\ v.list[p] = l /\ v \in Memory /\ AllStrung(v)
      /\ Tidied(m, v, StaleOn(m, inst, l)) /\ m.list[p] = l /\ Same(m, v, p)
  BY <1>1, <1>2, <1>4, <1>5, FoundOnList
<1>7. v.list[p] \in Lists \cup {Nil}  BY <1>6
<1>8. Placed(v, u, p, Nil)  BY <1>3, <1>6, <1>7, UnlinkSame
<1>9. InOrder(v, u)  BY <1>3, <1>6, <1>7, UnlinkInOrder
<1>10. PICK D : D = StaleOn(m, inst, l)  OBVIOUS
<1>11. PICK T : T = Gone(m, v, l)  OBVIOUS
<1>12. Departed(m, v, l, T, T)
  <2>1. AllStrung(m) /\ Tidied(m, v, D)  BY <1>5, <1>6, <1>10, Known
  <2>2. \A q \in Links : q \in D => m.list[q] = l  BY <1>10 DEF StaleOn
  <2>3. QED  BY <1>11, <2>1, <2>2, TidiedDeparted
<1>13. PICK S : S = T \cup {p}  OBVIOUS
<1>14. p \notin T /\ T = S \ {p}  BY <1>6, <1>11, <1>13 DEF Gone
<1>15. Departed(m, u, l, S, T)
  <2>1. InOrder(m, u)
    <3>1. InOrder(m, v)  BY <1>12 DEF Departed
    <3>2. QED  BY <1>9, <3>1 DEF InOrder
  <2>2. u \in Memory /\ AllStrung(u)  BY <1>8 DEF Placed
  <2>3. S \in SUBSET {q \in Links : m.list[q] = l} /\ T \in SUBSET S
    BY <1>6, <1>12, <1>13 DEF Departed
  <2>4. ASSUME NEW q \in Links \ S PROVE Same(m, u, q)
    <3>1. Same(m, v, q)  BY <1>12, <1>13 DEF Departed
    <3>2. Same(v, u, q)  BY <1>8, <1>13 DEF Placed
    <3>3. QED  BY <3>1, <3>2 DEF Same
  <2>5. ASSUME NEW q \in T PROVE Freed(u, q)
    <3>1. Freed(v, q) /\ q \in Links  BY <1>12 DEF Departed
    <3>2. Same(v, u, q)  BY <1>8, <1>14, <3>1 DEF Placed
    <3>3. u.hdr[q] = Nil /\ u.stamp[q] = 0 /\ u.list[q] = Free
      BY <3>1, <3>2 DEF Same, Freed
    <3>4. u.own[q] = v.own[q] /\ v.own[q] = TRUE  BY <3>1, <3>2 DEF Same, Freed
    <3>5. u.own[q] = TRUE  BY <3>4, Zenon
    <3>6. QED  BY <3>3, <3>5 DEF Freed
  <2>6. ASSUME NEW q \in S \ T
        PROVE  /\ u.list[q] = Nil /\ u.hdr[q] = m.hdr[q]
               /\ u.stamp[q] = m.stamp[q] /\ u.own[q] = m.own[q]
    <3>1. q = p  BY <1>13
    <3>2. QED  BY <1>6, <1>8, <3>1 DEF Placed, Same
  <2>7. QED  BY <2>1, <2>2, <2>3, <2>4, <2>5, <2>6 DEF Departed
<1>16. Departed(mem, u, l, S, T)  BY <1>5, <1>15
<1>17. T = S \/ \E q \in S : T = S \ {q}  BY <1>13, <1>14
<1>18. PICK K : K = {}  OBVIOUS
<1>19. inst' = [g \in Hdrs |-> IF g \in K THEN 0 ELSE inst[g]]  BY <1>4, <1>18, NobodyDies
<1>20. \A g \in K : \E q \in S : Owned(mem, inst, q) /\ mem.hdr[q] = g  BY <1>18
<1>21. QED  BY <1>4, <1>16, <1>17, <1>19, <1>20, DropStep

LEMMA ApplyStep ==
  ASSUME IndInv, NEW l \in Lists, NEW K, apply_to_mklist(l, K)
  PROVE  LL!Next
<1>1. PICK g \in Nat : g = global_instance_ctr  BY Known
<1>2. PICK j \in [Hdrs -> 0 .. g] : j = inst  BY <1>1, Known
<1>3. PICK v \in Memory : v = mem  BY Known
<1>4. PICK c : c = Chain(mem, l)  OBVIOUS
<1>5. PICK s : s = Visited(v, j, c, K)  OBVIOUS
<1>6. mem' = s.m /\ inst' = s.i /\ result' = Nil
  BY <1>2, <1>3, <1>4, <1>5 DEF apply_to_mklist, Visited
<1>7. AllStrung(v) /\ Linked(v, g, detached)  BY <1>1, <1>3, Known
<1>8. /\ c \in Seq(Links) /\ IsInjective(c)
      /\ \A k \in 1 .. Len(c) : c[k] \in Links /\ v.list[c[k]] = l
  BY <1>3, <1>4, WholeList
<1>9. \A k \in 1 .. Len(c) : v.list[c[k]] \in Lists  BY <1>8
<1>10. \A k \in 1 .. Len(c) : Bound(v, c[k])  BY <1>7, <1>8 DEF Linked
<1>11. c \in Seq(Links) /\ IsInjective(c)  BY <1>8
<1>12. /\ Tidied(v, s.m, Outlived(v, c, s))
       /\ \A h \in Hdrs : s.i[h] # j[h] =>
            s.i[h] = 0 /\ \E k \in 1 .. Len(c) : Live(v, j, c[k]) /\ v.hdr[c[k]] = h
  BY <1>5, <1>7, <1>9, <1>10, <1>11, VisitedEnds
<1>13. PICK i \in [Hdrs -> 0 .. g] : i = s.i
  <2>1. PICK D : D = Listed(v)  OBVIOUS
  <2>2. \A k \in 1 .. Len(c) : c[k] \in D  BY <1>8, <2>1 DEF Listed
  <2>3. s \in Stages(g)  BY <1>5, <1>7, <1>9, <1>11, <2>2, VisitedTidy
  <2>4. QED  BY <2>3 DEF Stages
<1>14. PICK u : u = s.m  OBVIOUS
<1>15. PICK D : D = Outlived(v, c, s)  OBVIOUS
<1>16. \A q \in D : q \in Links /\ v.list[q] = l /\ v.stamp[q] # i[v.hdr[q]]
  BY <1>8, <1>13, <1>15 DEF Outlived
<1>17. PICK S : S = Gone(v, u, l)  OBVIOUS
<1>18. Departed(v, u, l, S, S) /\ S \subseteq D
  <2>1. Tidied(v, u, D)  BY <1>12, <1>14, <1>15
  <2>2. \A q \in Links : q \in D => v.list[q] = l  BY <1>16
  <2>3. QED  BY <1>7, <1>17, <2>1, <2>2, TidiedDeparted
<1>19. PICK B : B = {h \in Hdrs : i[h] # j[h]}  OBVIOUS
<1>20. inst' = [h \in Hdrs |-> IF h \in B THEN 0 ELSE inst[h]]
  <2>1. \A h \in Hdrs : i[h] = IF h \in B THEN 0 ELSE j[h]  BY <1>12, <1>13, <1>19
  <2>2. QED  BY <1>2, <1>6, <1>13, <2>1
<1>21. \A h \in B : \E p \in Links : mem.list[p] = l /\ Live(mem, inst, p) /\ mem.hdr[p] = h
  <2>1. ASSUME NEW h \in B
        PROVE  \E p \in Links : mem.list[p] = l /\ Live(mem, inst, p) /\ mem.hdr[p] = h
    <3>1. h \in Hdrs /\ s.i[h] # j[h]  BY <1>13, <1>19
    <3>2. PICK k \in 1 .. Len(c) : Live(v, j, c[k]) /\ v.hdr[c[k]] = h  BY <1>12, <3>1
    <3>3. QED  BY <1>2, <1>3, <1>8, <3>2
  <2>2. QED  BY <2>1
<1>22. \A p \in S : mem.stamp[p] # inst'[mem.hdr[p]]  BY <1>3, <1>6, <1>13, <1>16, <1>18
<1>23. u = mem' /\ Departed(mem, u, l, S, S) /\ result' = Nil  BY <1>3, <1>6, <1>14, <1>18
<1>24. Culling(l, S, B, u)  BY <1>20, <1>21, <1>22, <1>23 DEF Culling
<1>25. QED  BY <1>23, <1>24, CullStep

(* Every operation of mk_struct.c is a step of LinkLists.                  *)
LEMMA StepImplements ==
  ASSUME IndInv, [Next]_vars
  PROVE  [LL!Next]_LL!vars
<1>1. ASSUME NEW h \in Hdrs, HdrOps(h) PROVE LL!Next
  <2>1. CASE get_mkhdr(h)  BY <2>1, BornStep
  <2>2. CASE vdestroy_mkhdr_generic(h)  BY <2>2, DiesStep
  <2>3. ASSUME NEW p \in Links, mk_append_after_mkptr(h, p) PROVE LL!Next
    BY <2>3, AppendAfterBinds, BindStep
  <2>4. ASSUME NEW p \in Links, BindBefore(h, p) PROVE LL!Next
    BY <2>4, BeforeBinds, BindStep
  <2>5. ASSUME NEW l \in Lists, NEW own \in BOOLEAN, mk_insert(h, l, own) PROVE LL!Next
    BY <2>5, InsertBinds, BindStep
  <2>6. ASSUME NEW l \in Lists, mk_append(h, l) PROVE LL!Next
    BY <2>6, AppendBinds, BindStep
  <2>7. ASSUME NEW l \in Lists, find_in_mklist(h, l) PROVE LL!Next
    <3>1. LL!Search(l)  BY <2>7, FindSearches, SearchingStep
    <3>2. QED  BY <3>1 DEF LL!Next
  <2>8. ASSUME NEW l \in Lists, mk_pull(h, l) PROVE LL!Next  BY <2>8, PullStep
  <2>9. ASSUME NEW l \in Lists, mk_pull_discard(h, l) PROVE LL!Next
    BY <2>9, PullDiscardStep
  <2>10. ASSUME NEW l \in Lists, mk_pull_destroy(h, l) PROVE LL!Next
    BY <2>10, PullDestroyStep
  <2>11. QED
    BY <1>1, <2>1, <2>2, <2>3, <2>4, <2>5, <2>6, <2>7, <2>8, <2>9, <2>10 DEF HdrOps
<1>2. ASSUME NEW l \in Lists, ListOps(l) PROVE LL!Next
  <2>1. CASE first_mkptr(l)
    <3>1. LL!Search(l)  BY <2>1, FirstSearches, SearchingStep
    <3>2. QED  BY <3>1 DEF LL!Next
  <2>2. ASSUME NEW K \in SUBSET Hdrs, apply_to_mklist(l, K) PROVE LL!Next
    BY <2>2, ApplyStep
  <2>3. CASE destroy_list(l)  BY <2>3, DestroyListStep
  <2>4. CASE discard_list(l)  BY <2>4, DiscardListStep
  <2>5. QED  BY <1>2, <2>1, <2>2, <2>3, <2>4 DEF ListOps
<1>3. ASSUME NEW p \in Links, next_mkptr(p) PROVE LL!Next
  <2>1. PICK l \in Lists : l = mem.list[p] /\ Searching(l)  BY <1>3, NextSearches
  <2>2. LL!Search(l)  BY <2>1, SearchingStep
  <2>3. QED  BY <2>2 DEF LL!Next
<1>4. ASSUME NEW p \in Links, destroy_mkptr(p) PROVE LL!Next  BY <1>4, DestroyOneStep
<1>5. CASE UNCHANGED vars  BY <1>5 DEF vars, LL!vars
<1>6. QED  BY <1>1, <1>2, <1>3, <1>4, <1>5 DEF Next

LEMMA InitImplements == ASSUME Init PROVE LL!Init
<1>1. PICK s : s = SetToSeq(Links)  OBVIOUS
<1>2. mem = Pool(s) /\ inst = [h \in Hdrs |-> 0] /\ result = Nil  BY <1>1 DEF Init
<1>3. s \in Seq(Links) /\ IsInjective(s) /\ ToSet(s) = Links  BY <1>1, Ordered
<1>4. PICK m : m = Pool(s)  OBVIOUS
<1>5. m \in Memory /\ AllStrung(m) /\ \A q \in Links : Freed(m, q)
  BY <1>3, <1>4, PoolFacts
<1>6. \A q \in Links : m.list[q] = Free  BY <1>5 DEF Freed
<1>7. ASSUME NEW l \in Lists PROVE Chain(m, l) = <<>>
  <2>1. PICK t : t = Chain(m, l)  OBVIOUS
  <2>2. t \in Seq(Links) /\ ToSet(t) = {p \in Links : m.list[p] = l}
    BY <1>5, <2>1, OnOrder
  <2>3. \A k \in 1 .. Len(t) : t[k] \in ToSet(t)  BY <2>2, ElemAt
  <2>4. Len(t) = 0  BY <1>6, <2>2, <2>3, Distinct
  <2>5. QED  BY <2>1, <2>2, <2>4
<1>8. Order(m) = [l \in Lists |-> <<>>]  BY <1>7 DEF Order
<1>9. Idle(m) = Links  BY <1>5, <1>6, IdleIs
<1>10. \A q \in Links : Bonds(m)[q] = Unbound  BY <1>5, FreedUnbound
<1>11. Bonds(m) \in [Links -> [hdr : {Nil}, stamp : {0}, own : {TRUE}]]
  <2>1. Unbound \in [hdr : {Nil}, stamp : {0}, own : {TRUE}]  BY DEF Unbound
  <2>2. Bonds(m) = [q \in Links |-> Bonds(m)[q]]  BY DEF Bonds
  <2>3. QED  BY <1>10, <2>1, <2>2
<1>12. m = mem  BY <1>2, <1>4
<1>13. /\ Order(mem) = [l \in Lists |-> <<>>] /\ Idle(mem) = Links
       /\ Bonds(mem) \in [Links -> [hdr : {Nil}, stamp : {0}, own : {TRUE}]]
  BY <1>8, <1>9, <1>11, <1>12
<1>14. QED  BY <1>2, <1>13 DEF LL!Init, Order, Idle, Bonds

(* Whatever operations are called and in whatever order, what mk_struct.c  *)
(* does to its pointers is what LinkLists says of sequences of links: only *)
(* links whose header died fall out by themselves, what a search returns   *)
(* is alive, the rest keep their order, and a header is destroyed only     *)
(* with a link that owns it.                                               *)
THEOREM ListsImplementLinkLists == Spec => LinkListsSpec
<1>1. Init => IndInv  BY InitKept
<1>2. IndInv /\ [Next]_vars => IndInv'  BY StepKept
<1>3. Init => LL!Init  BY InitImplements
<1>4. IndInv /\ [Next]_vars => [LL!Next]_LL!vars  BY StepImplements
<1>5. QED  BY <1>1, <1>2, <1>3, <1>4, PTL DEF Spec, LinkListsSpec, LL!Spec

LEMMA FindComplete ==
  ASSUME IndInv, NEW h \in Hdrs, NEW l \in Lists, find_in_mklist(h, l)
  PROVE  LL!Finds(l, h)
<1>1. /\ Searching(l)
      /\ result' # Nil => mem.hdr[result'] = h
      /\ result' = Nil => \A q \in Links : mem.list[q] = l /\ Live(mem, inst, q) => mem.hdr[q] # h
  BY FindSearches
<1>2. LL!Search(l)  BY <1>1, SearchingStep
<1>3. \A q \in LL!OnList(l) : /\ q \in Links /\ mem.list[q] = l
                              /\ LL!alive(q) <=> Live(mem, inst, q)
                              /\ Bonds(mem)[q].hdr = mem.hdr[q]
  BY OnListIs, AliveIs DEF Bonds
<1>4. (result' = Nil) <=> (\A q \in LL!OnList(l) : ~(LL!alive(q) /\ Bonds(mem)[q].hdr = h))
  <2>1. CASE result' = Nil  BY <1>1, <1>3, <2>1
  <2>2. CASE result' # Nil
    <3>1. /\ result' \in Links /\ Live(mem, inst, result') /\ mem.list[result'] = l
          /\ mem.hdr[result'] = h
      BY <1>1, <2>2 DEF Searching
    <3>2. result' \in LL!OnList(l)  BY <3>1, OnListIs
    <3>3. QED  BY <1>3, <2>2, <3>1, <3>2
  <2>3. QED  BY <2>1, <2>2
<1>5. QED  BY <1>2, <1>4, Zenon DEF LL!Finds, Bonds

(* However many stale links a list holds, find_in_mklist finds a header    *)
(* that lives and is on it, and first_mkptr returns nothing only when no   *)
(* link of the list is alive.                                              *)
THEOREM SearchesComplete == Spec => SearchComplete
<1>1. Init => IndInv  BY InitKept
<1>2. IndInv /\ [Next]_vars => IndInv'  BY StepKept
<1> DEFINE Complete ==
      \A l \in Lists :
        /\ \A h \in Hdrs : find_in_mklist(h, l) => LL!Finds(l, h)
        /\ first_mkptr(l) /\ result' = Nil => \A p \in LL!OnList(l) : ~Live(mem, inst, p)
<1>3. IndInv => Complete
  <2>1. ASSUME IndInv, NEW l \in Lists, first_mkptr(l), result' = Nil,
               NEW p \in LL!OnList(l)
        PROVE  ~Live(mem, inst, p)
    <3>1. p \in Links /\ mem.list[p] = l  BY <2>1, OnListIs
    <3>2. QED  BY <2>1, <3>1, FirstSearches
  <2>2. QED  BY <2>1, FindComplete
<1>4. QED  BY <1>1, <1>2, <1>3, PTL DEF Spec, SearchComplete
===============================================================================
