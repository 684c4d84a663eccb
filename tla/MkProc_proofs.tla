----------------------------- MODULE MkProc_proofs -----------------------------
(***************************************************************************)
(* Proofs that the dispatcher's place in the list of processes survives    *)
(* whatever the process it runs does, that every living process is on the  *)
(* list once, and that the walk over the list implements the schedule.     *)
(***************************************************************************)
EXTENDS MkProc, LinkFacts

(* A link that stands for a process, living or dead                        *)
Busy(m, p, g) == m.list[p] = Active /\ m.hdr[p] \in Hdrs /\ m.stamp[p] \in 1 .. g

(* Every link but x is free or on the list.                                *)
Sound(m, g, x) == /\ m \in Memory /\ AllStrung(m)
                  /\ \A p \in Links \ {x} : Freed(m, p) \/ Busy(m, p, g)

LinkOf(m, i, b) == {p \in Links : m.list[p] = Active /\ m.hdr[p] = b /\ m.stamp[p] = i[b]}

Once(m, i, b) == i[b] # 0 => \E p \in Links : LinkOf(m, i, b) = {p}

Fields == [priority : Priorities \cup {0}, sleep_ticks : 0 .. MaxSleep, data : BOOLEAN,
           one_shot : BOOLEAN, immune : BOOLEAN, keep : BOOLEAN]

CountsKept == /\ global_instance_ctr \in Nat
              /\ inst \in [Hdrs -> 0 .. global_instance_ctr]
              /\ proc \in [Hdrs -> Fields]

LinksKept == /\ Sound(mem, global_instance_ctr, Nil)
             /\ \A b \in Hdrs : Once(mem, inst, b)

CursorKept == /\ state \in {"idle", "walk", "run"}
              /\ link \in Links \cup {Nil}
              /\ link # Nil => mem.list[link] = Active
              /\ state = "idle" => link = Nil
              /\ state = "run" => /\ link # Nil /\ Live(mem, inst, link)
                                  /\ aproc_nodestroy = mem.hdr[link]

(* The inductive invariant: a free link stands for nothing and no link is  *)
(* stamped with an instance that was not given out, so that an instance    *)
(* that is given out revives none; and the process that runs is the one    *)
(* that nobody can destroy.                                                *)
IndInv == CountsKept /\ LinksKept /\ CursorKept

----------------------------------------------------------------------------
(* The list of processes                                                   *)

(* Of the links but x, the list keeps those of living processes and gains  *)
(* none.                                                                   *)
Trimmed(m, u, i, x) ==
  \A q \in Links \ {x} : /\ u.list[q] = Active => Same(m, u, q)
                         /\ m.list[q] = Active /\ Live(m, i, q) => Same(m, u, q)

LEMMA TheList == Active \in Lists /\ Active # Nil /\ Active # Free /\ Free # Nil
BY ListAssumption, Distinct

(* A walk or a search of the list                                          *)
LEMMA TidyFacts ==
  ASSUME NEW g \in Nat, NEW i, NEW x, NEW m, Sound(m, g, x), m.list[x] = Nil \/ x = Nil,
         NEW u, Tidied(m, u, Stale(m, i))
  PROVE  /\ Sound(u, g, x) /\ Trimmed(m, u, i, Nil)
         /\ x \in Links => Same(m, u, x)
<1>1. /\ u \in Memory /\ AllStrung(u)
      /\ \A q \in Links : Same(m, u, q) \/ (Freed(u, q) /\ q \in Stale(m, i))
  BY DEF Tidied
<1>2. ASSUME NEW q \in Links \ {x} PROVE Freed(u, q) \/ Busy(u, q, g)
  <2>1. Freed(m, q) \/ Busy(m, q, g)  BY DEF Sound
  <2>2. Same(m, u, q) \/ Freed(u, q)  BY <1>1
  <2>3. QED  BY <2>1, <2>2 DEF Same, Freed, Busy
<1>3. Sound(u, g, x)  BY <1>1, <1>2 DEF Sound
<1>4. ASSUME NEW q \in Links, u.list[q] = Active PROVE Same(m, u, q)
  <2>1. ~Freed(u, q)  BY <1>4, TheList DEF Freed
  <2>2. QED  BY <1>1, <2>1
<1>5. ASSUME NEW q \in Links, Live(m, i, q) PROVE Same(m, u, q)
  <2>1. q \notin Stale(m, i)  BY <1>5 DEF Stale
  <2>2. QED  BY <1>1, <2>1
<1>6. Trimmed(m, u, i, Nil)  BY <1>4, <1>5 DEF Trimmed
<1>7. ASSUME x \in Links PROVE Same(m, u, x)
  <2>1. m.list[x] = Nil /\ m.list[x] \notin Lists  BY <1>7, Distinct
  <2>2. x \notin Stale(m, i)  BY <2>1 DEF Stale
  <2>3. QED  BY <1>1, <1>7, <2>2
<1>8. QED  BY <1>3, <1>6, <1>7

(* The processes that live keep their links.                               *)
LEMMA TrimmedLinks ==
  ASSUME NEW i, NEW x, NEW m, NEW u, Trimmed(m, u, i, x),
         x \in Links => m.list[x] # Active /\ u.list[x] # Active,
         NEW b \in Hdrs
  PROVE  LinkOf(u, i, b) = LinkOf(m, i, b)
<1>1. ASSUME NEW q \in Links, u.list[q] = Active, u.hdr[q] = b, u.stamp[q] = i[b]
      PROVE  m.list[q] = Active /\ m.hdr[q] = b /\ m.stamp[q] = i[b]
  <2>1. q # x  BY <1>1
  <2>2. Same(m, u, q)  BY <1>1, <2>1 DEF Trimmed
  <2>3. QED  BY <1>1, <2>2 DEF Same
<1>2. ASSUME NEW q \in Links, m.list[q] = Active, m.hdr[q] = b, m.stamp[q] = i[b]
      PROVE  u.list[q] = Active /\ u.hdr[q] = b /\ u.stamp[q] = i[b]
  <2>1. q # x  BY <1>2
  <2>2. Live(m, i, q)
    <3>1. b # Nil  BY Distinct
    <3>2. QED  BY <1>2, <3>1 DEF Live
  <2>3. Same(m, u, q)  BY <1>2, <2>1, <2>2 DEF Trimmed
  <2>4. QED  BY <1>2, <2>3 DEF Same
<1>3. \A q \in Links : q \in LinkOf(u, i, b) <=> q \in LinkOf(m, i, b)
  BY <1>1, <1>2 DEF LinkOf
<1>4. LinkOf(u, i, b) \subseteq Links /\ LinkOf(m, i, b) \subseteq Links  BY DEF LinkOf
<1>5. QED  BY <1>3, <1>4

(* What is true of a list onto which the process b has just been put       *)
Entered(m, u, i, g, b) ==
  /\ Sound(u, g, Nil)
  /\ \A c \in Hdrs \ {b} : LinkOf(u, i, c) = LinkOf(m, i, c)
  /\ \E p \in Links : LinkOf(u, i, b) = {p}
  /\ \A q \in Links : m.list[q] = Active /\ Live(m, i, q) => Same(m, u, q)

(* The links before which b does not come                                   *)
Later(m, b, f) == {q \in ToSet(Chain(m, Active)) : f[b].priority < f[m.hdr[q]].priority}

(* insert_proc_by_priority, step by step: link p is taken, the walk to its *)
(* place turns v into w, and p is put before the link at, or at the end.   *)
Inserting(m, v, w, u, i, g, b, f, p, at) ==
  /\ Taken(m, v, p, b, i[b]) /\ Sound(v, g, p)
  /\ Tidied(v, w, Stale(v, i)) /\ Trimmed(v, w, i, Nil) /\ Sound(w, g, p) /\ Same(v, w, p)
  /\ at = FirstWanted(v, i, Chain(v, Active), Later(v, b, f))
  /\ Placed(w, u, p, Active) /\ Joined(w, u, p, Active) /\ u.next[p] = at

LEMMA InsertPath ==
  ASSUME NEW g \in Nat, NEW i \in [Hdrs -> 0 .. g], NEW m, Sound(m, g, Nil),
         m.head[Free] # Nil, NEW b \in Hdrs,
         NEW f, NEW u, u = insert_proc_by_priority(m, i, b, f)
  PROVE  \E p \in Links : \E v, w, at : Inserting(m, v, w, u, i, g, b, f, p, at)
<1>1. m \in Memory /\ AllStrung(m) /\ \A q \in Links : Freed(m, q) \/ Busy(m, q, g)
  BY Distinct DEF Sound
<1>2. i \in [Hdrs -> Nat]
  <2>1. \A c \in Hdrs : i[c] \in 0 .. g  OBVIOUS
  <2>2. QED  BY <2>1
<1>3. PICK p : p = m.head[Free]  OBVIOUS
<1>4. PICK v : v = Take(m, i, b, TRUE)  OBVIOUS
<1>5. p \in Links /\ Taken(m, v, p, b, i[b])
  <2>1. m.head[Free] = p /\ p # Nil /\ TRUE \in BOOLEAN  BY <1>3
  <2>2. QED  BY <1>1, <1>2, <1>4, <2>1, TakeFacts
<1>6. /\ v \in Memory /\ AllStrung(v) /\ v.list[p] = Nil
      /\ \A q \in Links \ {p} : Same(m, v, q)
  BY <1>5 DEF Taken
<1>7. Sound(v, g, p)
  <2>1. ASSUME NEW q \in Links \ {p} PROVE Freed(v, q) \/ Busy(v, q, g)
    <3>1. Same(m, v, q) /\ (Freed(m, q) \/ Busy(m, q, g))  BY <1>1, <1>6
    <3>2. QED  BY <3>1 DEF Same, Freed, Busy
  <2>2. QED  BY <1>6, <2>1 DEF Sound
<1>8. PICK c : c = Chain(v, Active)  OBVIOUS
<1>9. PICK W : W = Later(v, b, f)  OBVIOUS
<1>10. PICK w : w = AfterSearch(v, i, c, W)  OBVIOUS
<1>11. PICK at : at = FirstWanted(v, i, c, W)  OBVIOUS
<1>12. u = IF at = Nil THEN AtEnd(w, p, Active) ELSE Before(w, p, at)
  BY <1>3, <1>4, <1>8, <1>9, <1>10, <1>11 DEF insert_proc_by_priority, Later
<1>13. /\ Tidied(v, w, Stale(v, i))
       /\ at # Nil => at \in Links /\ v.list[at] = Active /\ Same(v, w, at)
  BY <1>6, <1>8, <1>10, <1>11, Searched, TheList
<1>14. Sound(w, g, p) /\ Trimmed(v, w, i, Nil) /\ Same(v, w, p)
  BY <1>5, <1>6, <1>7, <1>13, TidyFacts
<1>15. w \in Memory /\ AllStrung(w) /\ w.list[p] = Nil
  BY <1>6, <1>14 DEF Sound, Same
<1>16. Placed(w, u, p, Active) /\ Joined(w, u, p, Active) /\ u.next[p] = at
  <2>1. CASE at = Nil
    <3>1. u = AtEnd(w, p, Active)  BY <1>12, <2>1
    <3>2. Placed(w, u, p, Active) /\ Joined(w, u, p, Active)
      BY <1>5, <1>15, <3>1, AtEndPlaced, TheList
    <3>3. u.next[p] = Nil  BY <1>5, <1>15, <3>1, AtEndLast, TheList
    <3>4. QED  BY <2>1, <3>2, <3>3
  <2>2. CASE at # Nil
    <3>1. u = Before(w, p, at) /\ at \in Links /\ w.list[at] = Active
      BY <1>12, <1>13, <2>2 DEF Same
    <3>2. w.list[at] \in Lists /\ p # at  BY <1>15, <3>1, TheList
    <3>3. Placed(w, u, p, w.list[at]) /\ Joined(w, u, p, w.list[at])
      BY <1>5, <1>15, <3>1, <3>2, BeforePlaced
    <3>4. u.next[p] = at  BY <1>5, <1>15, <3>1, <3>2, BeforeWrites
    <3>5. QED  BY <3>1, <3>3, <3>4
  <2>3. QED  BY <2>1, <2>2
<1>17. Inserting(m, v, w, u, i, g, b, f, p, at)
  BY <1>5, <1>7, <1>8, <1>9, <1>11, <1>13, <1>14, <1>16 DEF Inserting
<1>18. QED  BY <1>5, <1>17

(* Whatever the walk to the place gives back, the place is still on the    *)
(* list when the link is put before it.                                    *)
LEMMA InsertFacts ==
  ASSUME NEW g \in Nat, NEW i \in [Hdrs -> 0 .. g], NEW m, Sound(m, g, Nil),
         m.head[Free] # Nil, NEW b \in Hdrs, i[b] # 0, LinkOf(m, i, b) = {},
         NEW f, NEW u, u = insert_proc_by_priority(m, i, b, f)
  PROVE  Entered(m, u, i, g, b)
<1>2. i[b] \in 1 .. g
  <2>1. i[b] \in 0 .. g  OBVIOUS
  <2>2. QED  BY <2>1
<1>5. PICK p \in Links : \E v, w, at : Inserting(m, v, w, u, i, g, b, f, p, at)
  BY InsertPath
<1>8. PICK m1, m2, at : Inserting(m, m1, m2, u, i, g, b, f, p, at)  BY <1>5
<1>6. /\ m1 \in Memory /\ AllStrung(m1) /\ m.list[p] = Free
      /\ m1.list[p] = Nil /\ m1.hdr[p] = b /\ m1.stamp[p] = i[b]
      /\ \A q \in Links \ {p} : Same(m, m1, q)
  BY <1>8 DEF Inserting, Taken
<1>14. Sound(m2, g, p) /\ Trimmed(m1, m2, i, Nil) /\ Same(m1, m2, p)  BY <1>8 DEF Inserting
<1>15. m2 \in Memory /\ AllStrung(m2) /\ m2.list[p] = Nil /\ m2.hdr[p] = b /\ m2.stamp[p] = i[b]
  BY <1>6, <1>14 DEF Sound, Same
<1>16. Placed(m2, u, p, Active)  BY <1>8 DEF Inserting
<1>17. /\ u \in Memory /\ AllStrung(u)
       /\ u.list[p] = Active /\ u.hdr[p] = b /\ u.stamp[p] = i[b]
       /\ \A q \in Links \ {p} : Same(m2, u, q)
  BY <1>15, <1>16 DEF Placed
<1>18. Sound(u, g, Nil)
  <2>1. ASSUME NEW q \in Links PROVE Freed(u, q) \/ Busy(u, q, g)
    <3>1. CASE q = p  BY <1>2, <1>17, <3>1 DEF Busy
    <3>2. CASE q # p
      <4>1. Same(m2, u, q) /\ (Freed(m2, q) \/ Busy(m2, q, g))
        BY <1>14, <1>17, <3>2 DEF Sound
      <4>2. QED  BY <4>1 DEF Same, Freed, Busy
    <3>3. QED  BY <3>1, <3>2
  <2>2. QED  BY <1>17, <2>1 DEF Sound
<1>19. ASSUME NEW q \in Links \ {p}
       PROVE  /\ u.list[q] = Active => Same(m, u, q)
              /\ m.list[q] = Active /\ Live(m, i, q) => Same(m, u, q)
  <2>1. Same(m, m1, q) /\ Same(m2, u, q)  BY <1>6, <1>17
  <2>2. Live(m, i, q) => Live(m1, i, q)  BY <2>1 DEF Same, Live
  <2>3. q # Nil  BY Distinct
  <2>4. /\ m2.list[q] = Active => Same(m1, m2, q)
        /\ m1.list[q] = Active /\ Live(m1, i, q) => Same(m1, m2, q)
    BY <1>14, <2>3 DEF Trimmed
  <2>5. Same(m1, m2, q) => Same(m, u, q)  BY <2>1 DEF Same
  <2>6. QED  BY <2>1, <2>2, <2>4, <2>5 DEF Same
<1>20. ASSUME NEW q \in Links, m.list[q] = Active, Live(m, i, q) PROVE Same(m, u, q)
  <2>1. q # p  BY <1>6, <1>20, TheList
  <2>2. QED  BY <1>19, <1>20, <2>1
<1>21. ASSUME NEW d \in Hdrs, NEW q \in Links, q # p
       PROVE  q \in LinkOf(u, i, d) <=> q \in LinkOf(m, i, d)
  <2>1. ASSUME q \in LinkOf(u, i, d) PROVE q \in LinkOf(m, i, d)
    <3>1. u.list[q] = Active /\ u.hdr[q] = d /\ u.stamp[q] = i[d]  BY <2>1 DEF LinkOf
    <3>2. Same(m, u, q)  BY <1>19, <1>21, <3>1
    <3>3. QED  BY <3>1, <3>2 DEF LinkOf, Same
  <2>2. ASSUME q \in LinkOf(m, i, d) PROVE q \in LinkOf(u, i, d)
    <3>1. m.list[q] = Active /\ m.hdr[q] = d /\ m.stamp[q] = i[d] /\ d # Nil
      BY <2>2, Distinct DEF LinkOf
    <3>2. Live(m, i, q)  BY <3>1 DEF Live
    <3>3. Same(m, u, q)  BY <1>20, <3>1, <3>2
    <3>4. QED  BY <3>1, <3>3 DEF LinkOf, Same
  <2>3. QED  BY <2>1, <2>2
<1>22. p \in LinkOf(u, i, b)  BY <1>17 DEF LinkOf
<1>23. LinkOf(u, i, b) = {p}
  <2>1. LinkOf(u, i, b) \subseteq Links  BY DEF LinkOf
  <2>2. \A q \in Links : q # p => q \notin LinkOf(u, i, b)  BY <1>21
  <2>3. QED  BY <1>22, <2>1, <2>2
<1>24. ASSUME NEW d \in Hdrs \ {b} PROVE LinkOf(u, i, d) = LinkOf(m, i, d)
  <2>1. LinkOf(u, i, d) \subseteq Links /\ LinkOf(m, i, d) \subseteq Links  BY DEF LinkOf
  <2>2. p \notin LinkOf(u, i, d)  BY <1>17 DEF LinkOf
  <2>3. p \notin LinkOf(m, i, d)  BY <1>6, TheList DEF LinkOf
  <2>4. \A q \in Links : q # p => (q \in LinkOf(u, i, d) <=> q \in LinkOf(m, i, d))
    BY <1>21
  <2>5. QED  BY <2>1, <2>2, <2>3, <2>4
<1>25. \E q \in Links : LinkOf(u, i, b) = {q}  BY <1>23
<1>26. QED  BY <1>18, <1>20, <1>24, <1>25 DEF Entered

----------------------------------------------------------------------------
(* The steps                                                               *)

LEMMA Fielded ==
  ASSUME NEW n \in Priorities, NEW k \in Kinds, NEW f, f = NewProc(n, k)
  PROVE  f \in Fields
<1>1. k \in [priority : {0}, sleep_ticks : {0}, data : BOOLEAN,
             one_shot : BOOLEAN, immune : BOOLEAN, keep : BOOLEAN]
  BY FieldsAssumption
<1>2. f = [priority |-> n, sleep_ticks |-> k.sleep_ticks, data |-> k.data,
           one_shot |-> k.one_shot, immune |-> k.immune, keep |-> k.keep]
  BY <1>1 DEF NewProc
<1>3. k.sleep_ticks \in 0 .. MaxSleep  BY <1>1, FieldsAssumption
<1>4. /\ k.data \in BOOLEAN /\ k.one_shot \in BOOLEAN
      /\ k.immune \in BOOLEAN /\ k.keep \in BOOLEAN
  BY <1>1
<1>5. QED  BY <1>2, <1>3, <1>4 DEF Fields

LEMMA NoFields == NoProc \in Fields
BY FieldsAssumption DEF NoProc, Fields

LEMMA BuriedFields ==
  ASSUME proc \in [Hdrs -> Fields], NEW K
  PROVE  Buried(K) \in [Hdrs -> Fields]
BY NoFields DEF Buried

LEMMA InitKept == Init => IndInv
<1>1. SUFFICES ASSUME Init PROVE IndInv  OBVIOUS
<1>2. /\ inst = [b \in Hdrs |-> 0] /\ global_instance_ctr = 0
      /\ proc = [b \in Hdrs |-> NoProc]
      /\ link = Nil /\ state = "idle" /\ mem = Pool(SetToSeq(Links))
  BY <1>1 DEF Init
<1>3. PICK s : s = SetToSeq(Links)  OBVIOUS
<1>4. s \in Seq(Links) /\ IsInjective(s) /\ ToSet(s) = Links  BY <1>3, Ordered
<1>5. mem = Pool(s)  BY <1>2, <1>3
<1>6. mem \in Memory /\ AllStrung(mem) /\ \A q \in Links : Freed(mem, q)
  BY <1>4, <1>5, PoolFacts
<1>7. CountsKept  BY <1>2, NoFields DEF CountsKept
<1>8. LinksKept
  <2>1. Sound(mem, global_instance_ctr, Nil)  BY <1>6 DEF Sound
  <2>2. \A b \in Hdrs : Once(mem, inst, b)  BY <1>2 DEF Once
  <2>3. QED  BY <2>1, <2>2 DEF LinksKept
<1>9. CursorKept  BY <1>2 DEF CursorKept
<1>10. QED  BY <1>7, <1>8, <1>9 DEF IndInv

LEMMA Known ==
  ASSUME IndInv
  PROVE  /\ mem \in Memory /\ AllStrung(mem) /\ global_instance_ctr \in Nat
         /\ inst \in [Hdrs -> 0 .. global_instance_ctr] /\ proc \in [Hdrs -> Fields]
         /\ Sound(mem, global_instance_ctr, Nil)
         /\ \A q \in Links : Freed(mem, q) \/ Busy(mem, q, global_instance_ctr)
         /\ \A b \in Hdrs : Once(mem, inst, b)
         /\ link \in Links \cup {Nil}
         /\ link # Nil => /\ link \in Links /\ mem.list[link] = Active
                          /\ mem.hdr[link] \in Hdrs
                          /\ mem.stamp[link] \in 1 .. global_instance_ctr
<1>1. /\ global_instance_ctr \in Nat
      /\ inst \in [Hdrs -> 0 .. global_instance_ctr] /\ proc \in [Hdrs -> Fields]
      /\ Sound(mem, global_instance_ctr, Nil)
      /\ \A b \in Hdrs : Once(mem, inst, b)
      /\ link \in Links \cup {Nil} /\ (link # Nil => mem.list[link] = Active)
  BY DEF IndInv, CountsKept, LinksKept, CursorKept
<1>2. /\ mem \in Memory /\ AllStrung(mem)
      /\ \A q \in Links : Freed(mem, q) \/ Busy(mem, q, global_instance_ctr)
  BY <1>1, Distinct DEF Sound
<1>3. ASSUME link # Nil
      PROVE  /\ link \in Links /\ mem.list[link] = Active
             /\ mem.hdr[link] \in Hdrs
             /\ mem.stamp[link] \in 1 .. global_instance_ctr
  <2>1. link \in Links /\ mem.list[link] = Active  BY <1>1, <1>3
  <2>2. ~Freed(mem, link)  BY <2>1, TheList DEF Freed
  <2>3. QED  BY <1>2, <2>1, <2>2 DEF Busy
<1>4. QED  BY <1>1, <1>2, <1>3

(* What is done between two steps of the dispatcher, or by the process it  *)
(* runs, keeps the link it is at.                                          *)
LEMMA Operated ==
  ASSUME IndInv, CountsKept', LinksKept', UNCHANGED pass, state # "walk",
         state = "run" => Same(mem, mem', link) /\ inst'[mem.hdr[link]] = inst[mem.hdr[link]]
  PROVE  IndInv'
<1>1. link' = link /\ aproc_nodestroy' = aproc_nodestroy /\ state' = state  BY DEF pass
<1>2. CursorKept  BY DEF IndInv
<1>3. CASE state = "run"
  <2>1. link \in Links /\ link # Nil /\ mem.list[link] = Active /\ Live(mem, inst, link)
    BY <1>2, <1>3 DEF CursorKept
  <2>2. /\ mem'.list[link] = Active /\ mem'.hdr[link] = mem.hdr[link]
        /\ mem'.stamp[link] = mem.stamp[link]
    BY <1>3, <2>1 DEF Same
  <2>3. Live(mem', inst', link)  BY <1>3, <2>1, <2>2 DEF Live
  <2>4. CursorKept'  BY <1>1, <1>2, <1>3, <2>1, <2>2, <2>3 DEF CursorKept
  <2>5. QED  BY <2>4 DEF IndInv
<1>4. CASE state # "run"
  <2>1. state = "idle"  BY <1>2, <1>4 DEF CursorKept
  <2>2. CursorKept'  BY <1>1, <1>2, <2>1 DEF CursorKept
  <2>3. QED  BY <2>2 DEF IndInv
<1>5. QED  BY <1>3, <1>4

(* A new instance stands on no link.                                       *)
LEMMA NewInstance ==
  ASSUME IndInv, NEW b \in Hdrs, get_mkproc(b)
  PROVE  /\ global_instance_ctr' \in Nat
         /\ inst' \in [Hdrs -> 0 .. global_instance_ctr']
         /\ Sound(mem, global_instance_ctr', Nil)
         /\ inst'[b] # 0 /\ LinkOf(mem, inst', b) = {}
         /\ \A c \in Hdrs \ {b} : /\ inst'[c] = inst[c]
                                  /\ LinkOf(mem, inst', c) = LinkOf(mem, inst, c)
         /\ \A q \in Links : mem.list[q] = Active /\ Live(mem, inst, q) =>
                               mem.hdr[q] # b /\ Live(mem, inst', q)
<1>1. PICK g : g = global_instance_ctr  OBVIOUS
<1>2. /\ inst[b] = 0 /\ global_instance_ctr' = g + 1
      /\ inst' = [inst EXCEPT ![b] = g + 1]
  BY <1>1 DEF get_mkproc
<1>3. /\ g \in Nat /\ inst \in [Hdrs -> 0 .. g] /\ Sound(mem, g, Nil)
      /\ \A q \in Links : Freed(mem, q) \/ Busy(mem, q, g)
  BY <1>1, Known
<1>4. global_instance_ctr' \in Nat /\ inst' \in [Hdrs -> 0 .. global_instance_ctr']
  BY <1>2, <1>3
<1>5. inst'[b] = g + 1 /\ inst'[b] # 0 /\ \A c \in Hdrs \ {b} : inst'[c] = inst[c]
  BY <1>2, <1>3
<1>6. Sound(mem, g + 1, Nil)
  <2>1. ASSUME NEW q \in Links PROVE Freed(mem, q) \/ Busy(mem, q, g + 1)
    <3>1. Freed(mem, q) \/ Busy(mem, q, g)  BY <1>3
    <3>2. 1 .. g \subseteq 1 .. g + 1  BY <1>3
    <3>3. QED  BY <3>1, <3>2 DEF Busy
  <2>2. QED  BY <1>3, <2>1 DEF Sound
<1>7. ASSUME NEW q \in Links, mem.list[q] = Active
      PROVE  mem.hdr[q] \in Hdrs /\ mem.stamp[q] \in 1 .. g
  <2>1. ~Freed(mem, q)  BY <1>7, TheList DEF Freed
  <2>2. QED  BY <1>3, <2>1 DEF Busy
<1>8. LinkOf(mem, inst', b) = {}
  <2>1. \A n \in 1 .. g : n # g + 1  BY <1>3
  <2>2. QED  BY <1>5, <1>7, <2>1 DEF LinkOf
<1>9. ASSUME NEW c \in Hdrs \ {b}
      PROVE  inst'[c] = inst[c] /\ LinkOf(mem, inst', c) = LinkOf(mem, inst, c)
  BY <1>5 DEF LinkOf
<1>10. ASSUME NEW q \in Links, mem.list[q] = Active, Live(mem, inst, q)
       PROVE  mem.hdr[q] # b /\ Live(mem, inst', q)
  <2>1. mem.hdr[q] \in Hdrs /\ mem.stamp[q] \in 1 .. g  BY <1>7, <1>10
  <2>2. mem.stamp[q] = inst[mem.hdr[q]] /\ mem.stamp[q] # 0  BY <1>10, <2>1 DEF Live
  <2>3. mem.hdr[q] # b  BY <1>2, <2>2
  <2>4. inst'[mem.hdr[q]] = inst[mem.hdr[q]]  BY <1>5, <2>1, <2>3
  <2>5. QED  BY <1>10, <2>3, <2>4 DEF Live
<1>11. QED  BY <1>2, <1>4, <1>5, <1>6, <1>8, <1>9, <1>10

(* The list after a new process has entered it                             *)
LEMMA EnteredKept ==
  ASSUME IndInv, NEW b \in Hdrs, get_mkproc(b), NEW u,
         Entered(mem, u, inst', global_instance_ctr', b)
  PROVE  /\ Sound(u, global_instance_ctr', Nil)
         /\ \A c \in Hdrs : Once(u, inst', c)
         /\ state = "run" => /\ Same(mem, u, link)
                             /\ inst'[mem.hdr[link]] = inst[mem.hdr[link]]
<1>1. /\ Sound(u, global_instance_ctr', Nil)
      /\ \A c \in Hdrs \ {b} : LinkOf(u, inst', c) = LinkOf(mem, inst', c)
      /\ \E p \in Links : LinkOf(u, inst', b) = {p}
      /\ \A q \in Links : mem.list[q] = Active /\ Live(mem, inst', q) => Same(mem, u, q)
  BY DEF Entered
<1>2. ASSUME NEW c \in Hdrs PROVE Once(u, inst', c)
  <2>1. CASE c = b  BY <1>1, <2>1 DEF Once
  <2>2. CASE c # b
    <3>1. inst'[c] = inst[c] /\ LinkOf(mem, inst', c) = LinkOf(mem, inst, c)
      BY <2>2, NewInstance
    <3>2. LinkOf(u, inst', c) = LinkOf(mem, inst, c)  BY <1>1, <2>2, <3>1
    <3>3. Once(mem, inst, c)  BY Known
    <3>4. QED  BY <3>1, <3>2, <3>3 DEF Once
  <2>3. QED  BY <2>1, <2>2
<1>3. ASSUME state = "run"
      PROVE  Same(mem, u, link) /\ inst'[mem.hdr[link]] = inst[mem.hdr[link]]
  <2>1. link \in Links /\ mem.list[link] = Active /\ Live(mem, inst, link)
    BY <1>3 DEF IndInv, CursorKept
  <2>2. mem.hdr[link] # b /\ Live(mem, inst', link)  BY <2>1, NewInstance
  <2>3. mem.hdr[link] \in Hdrs
    <3>1. link # Nil  BY <2>1, Distinct
    <3>2. QED  BY <3>1, Known
  <2>4. inst'[mem.hdr[link]] = inst[mem.hdr[link]]
    <3>1. mem.hdr[link] \in Hdrs \ {b}  BY <2>2, <2>3
    <3>2. QED  BY <3>1, NewInstance
  <2>5. QED  BY <1>1, <2>1, <2>2, <2>4
<1>4. QED  BY <1>1, <1>2, <1>3

LEMMA FreeHead ==
  ASSUME NEW m \in Memory, AllStrung(m), NEW q \in Links, m.list[q] = Free
  PROVE  m.head[Free] # Nil
<1>1. PICK s : Strung(m, Free, s)  BY DEF AllStrung
<1>2. /\ Len(s) \in Nat /\ \A k \in 1 .. Len(s) : s[k] \in Links
      /\ \E k \in 1 .. Len(s) : s[k] = q
      /\ m.head[Free] = IF Len(s) = 0 THEN Nil ELSE s[1]
  BY <1>1, OnChain
<1>3. Len(s) # 0 /\ 1 \in 1 .. Len(s)  BY <1>2
<1>4. m.head[Free] \in Links  BY <1>2, <1>3
<1>5. QED  BY <1>4, Distinct

LEMMA CreateKept ==
  ASSUME IndInv, NEW b \in Hdrs, NEW n \in Priorities, NEW k \in Kinds,
         create_mkproc(b, n, k), state # "walk"
  PROVE  IndInv'
<1>1. /\ get_mkproc(b) /\ mem.head[Free] # Nil /\ UNCHANGED pass
      /\ proc' = [proc EXCEPT ![b] = NewProc(n, k)]
      /\ mem' = insert_proc_by_priority(mem, inst', b, proc')
  BY DEF create_mkproc
<1>2. /\ global_instance_ctr' \in Nat /\ inst' \in [Hdrs -> 0 .. global_instance_ctr']
      /\ Sound(mem, global_instance_ctr', Nil)
      /\ inst'[b] # 0 /\ LinkOf(mem, inst', b) = {}
  BY <1>1, NewInstance
<1>3. Entered(mem, mem', inst', global_instance_ctr', b)  BY <1>1, <1>2, InsertFacts
<1>4. /\ Sound(mem', global_instance_ctr', Nil)
      /\ \A c \in Hdrs : Once(mem', inst', c)
      /\ state = "run" => /\ Same(mem, mem', link)
                          /\ inst'[mem.hdr[link]] = inst[mem.hdr[link]]
  BY <1>1, <1>3, EnteredKept
<1>5. CountsKept'
  <2>1. proc \in [Hdrs -> Fields] /\ NewProc(n, k) \in Fields  BY Known, Fielded
  <2>2. proc' \in [Hdrs -> Fields]  BY <1>1, <2>1
  <2>3. QED  BY <1>2, <2>2 DEF CountsKept
<1>6. LinksKept'  BY <1>4 DEF LinksKept
<1>7. QED  BY <1>1, <1>4, <1>5, <1>6, Operated

(* The new process's link is found and given back; the others stay.        *)
Withdrawn(m, d, i, g, p) ==
  /\ Sound(d, g, Nil) /\ InOrder(m, d) /\ d.list[p] = Free
  /\ \A q \in Links \ {p} : /\ d.list[q] = Active => Same(m, d, q)
                            /\ m.list[q] = Active /\ Live(m, i, q) => Same(m, d, q)

LEMMA WithdrawFacts ==
  ASSUME NEW g \in Nat, NEW i, NEW m, Sound(m, g, Nil), NEW b \in Hdrs,
         NEW p \in Links, LinkOf(m, i, b) = {p},
         NEW d, d = Discard(AfterFind(m, i, b, Active), FindIn(m, i, b, Active))
  PROVE  Withdrawn(m, d, i, g, p)
<1>8. m \in Memory /\ AllStrung(m)  BY DEF Sound
<1>10. m.list[p] = Active /\ m.hdr[p] = b /\ m.stamp[p] = i[b] /\ Live(m, i, p)
  <2>1. p \in LinkOf(m, i, b)  OBVIOUS
  <2>2. m.list[p] = Active /\ m.hdr[p] = b /\ m.stamp[p] = i[b]  BY <2>1 DEF LinkOf
  <2>3. QED  BY <2>2, Distinct DEF Live
<1>11. PICK c : c = Chain(m, Active)  OBVIOUS
<1>12. PICK W : W = BoundTo(m, b)  OBVIOUS
<1>13. PICK w : w = AfterSearch(m, i, c, W)  OBVIOUS
<1>14. PICK r : r = FirstWanted(m, i, c, W)  OBVIOUS
<1>15. w = AfterFind(m, i, b, Active) /\ r = FindIn(m, i, b, Active)
  BY <1>11, <1>12, <1>13, <1>14 DEF AfterFind, FindIn
<1>16. /\ Tidied(m, w, Stale(m, i))
       /\ r # Nil => /\ r \in Links /\ r \in W /\ Live(m, i, r) /\ m.list[r] = Active
                     /\ Same(m, w, r)
       /\ r = Nil => \A q \in Links : m.list[q] = Active /\ Live(m, i, q) => q \notin W
  BY <1>8, <1>11, <1>13, <1>14, Searched, TheList
<1>17. r = p
  <2>1. p \in W  BY <1>10, <1>12 DEF BoundTo
  <2>2. r # Nil  BY <1>10, <1>16, <2>1
  <2>3. m.list[r] = Active /\ m.hdr[r] = b /\ m.stamp[r] = i[b] /\ r \in Links
    BY <1>12, <1>16, <2>2 DEF BoundTo, Live
  <2>4. r \in LinkOf(m, i, b)  BY <2>3 DEF LinkOf
  <2>5. QED  BY <2>4
<1>18. Sound(w, g, Nil) /\ Trimmed(m, w, i, Nil)
  BY <1>16, TidyFacts
<1>19. w \in Memory /\ AllStrung(w) /\ w.list[p] = Active
  <2>1. Same(m, w, p)  BY <1>16, <1>17, Distinct
  <2>2. QED  BY <1>10, <1>18, <2>1 DEF Sound, Same
<1>20. d = Discard(w, p)  BY <1>15, <1>17
<1>21. Discarded(w, d, p)
  <2>1. w.list[p] \in Lists \cup {Nil}  BY <1>19, TheList
  <2>2. QED  BY <1>19, <1>20, <2>1, DiscardFacts
<1>22. d \in Memory /\ AllStrung(d) /\ Freed(d, p) /\ \A q \in Links \ {p} : Same(w, d, q)
  BY <1>21 DEF Discarded
<1>23. Sound(d, g, Nil)
  <2>1. ASSUME NEW q \in Links PROVE Freed(d, q) \/ Busy(d, q, g)
    <3>1. q # Nil  BY Distinct
    <3>2. Freed(w, q) \/ Busy(w, q, g)  BY <1>18, <3>1 DEF Sound
    <3>3. q # p => Same(w, d, q)  BY <1>22
    <3>4. QED  BY <1>22, <3>2, <3>3 DEF Same, Freed, Busy
  <2>2. QED  BY <1>22, <2>1 DEF Sound
<1>24. ASSUME NEW q \in Links, q # p
       PROVE  /\ d.list[q] = Active => Same(m, d, q)
              /\ m.list[q] = Active /\ Live(m, i, q) => Same(m, d, q)
  <2>1. Same(w, d, q) /\ q # Nil  BY <1>22, <1>24, Distinct
  <2>2. /\ w.list[q] = Active => Same(m, w, q)
        /\ m.list[q] = Active /\ Live(m, i, q) => Same(m, w, q)
    BY <1>18, <2>1 DEF Trimmed
  <2>3. QED  BY <2>1, <2>2 DEF Same
<1>25. InOrder(m, d)
  <2>1. w.list[p] \in Lists \cup {Nil}  BY <1>19, TheList
  <2>2. InOrder(w, d)  BY <1>19, <1>20, <2>1, DiscardInOrder
  <2>3. InOrder(m, w)  BY <1>16 DEF Tidied
  <2>4. QED  BY <2>2, <2>3 DEF InOrder
<1>26. d.list[p] = Free  BY <1>22 DEF Freed
<1>27. QED  BY <1>23, <1>24, <1>25, <1>26 DEF Withdrawn

(* The link that mkproc_change_priority gives back is the new process's,   *)
(* so that a free link is there for it.                                    *)
Moving(m, d, f, b, p) ==
  /\ m = insert_proc_by_priority(mem, inst', b, f)
  /\ Entered(mem, m, inst', global_instance_ctr', b) /\ LinkOf(m, inst', b) = {p}
  /\ Withdrawn(m, d, inst', global_instance_ctr', p)
  /\ LinkOf(d, inst', b) = {} /\ d.head[Free] # Nil
  /\ mem' = insert_proc_by_priority(d, inst', b, proc')
  /\ Entered(d, mem', inst', global_instance_ctr', b)
  /\ Entered(mem, mem', inst', global_instance_ctr', b)

LEMMA MovePath ==
  ASSUME IndInv, NEW b \in Hdrs, NEW o \in Priorities, NEW n \in Priorities, NEW k \in Kinds,
         create_then_change_priority(b, o, n, k)
  PROVE  \E p \in Links : \E m, d : Moving(m, d, [proc EXCEPT ![b] = NewProc(o, k)], b, p)
<1>1. /\ get_mkproc(b) /\ mem.head[Free] # Nil /\ UNCHANGED pass
      /\ proc' = [proc EXCEPT ![b] = NewProc(n, k)]
  BY DEF create_then_change_priority
<1>2. PICK m : /\ m = insert_proc_by_priority(mem, inst', b, [proc EXCEPT ![b] = NewProc(o, k)])
               /\ mem' = insert_proc_by_priority(
                           Discard(AfterFind(m, inst', b, Active), FindIn(m, inst', b, Active)),
                           inst', b, proc')
  BY DEF create_then_change_priority
<1>3. PICK i : i = inst'  OBVIOUS
<1>4. PICK g \in Nat : g = global_instance_ctr'  BY <1>1, NewInstance
<1>5. /\ i \in [Hdrs -> 0 .. g] /\ Sound(mem, g, Nil)
      /\ i[b] # 0 /\ LinkOf(mem, i, b) = {}
  BY <1>1, <1>3, <1>4, NewInstance
<1>6. Entered(mem, m, i, g, b)
  <2>1. PICK f : f = [proc EXCEPT ![b] = NewProc(o, k)]  OBVIOUS
  <2>2. m = insert_proc_by_priority(mem, i, b, f)  BY <1>2, <1>3, <2>1
  <2>3. QED  BY <1>1, <1>5, <2>2, InsertFacts
<1>7. /\ Sound(m, g, Nil)
      /\ \A c \in Hdrs \ {b} : LinkOf(m, i, c) = LinkOf(mem, i, c)
      /\ \E p \in Links : LinkOf(m, i, b) = {p}
      /\ \A q \in Links : mem.list[q] = Active /\ Live(mem, i, q) => Same(mem, m, q)
  BY <1>6 DEF Entered
<1>9. PICK p \in Links : LinkOf(m, i, b) = {p}  BY <1>7
<1>10. m.hdr[p] = b /\ m.stamp[p] = i[b] /\ m.list[p] = Active
  <2>1. p \in LinkOf(m, i, b)  BY <1>9
  <2>2. QED  BY <2>1 DEF LinkOf
<1>20. PICK d : d = Discard(AfterFind(m, i, b, Active), FindIn(m, i, b, Active))  OBVIOUS
<1>22. Withdrawn(m, d, i, g, p)  BY <1>7, <1>9, <1>20, WithdrawFacts
<1>23. Sound(d, g, Nil) /\ d \in Memory /\ AllStrung(d)  BY <1>22 DEF Withdrawn, Sound
<1>24. ASSUME NEW q \in Links, q # p
       PROVE  /\ d.list[q] = Active => Same(m, d, q)
              /\ m.list[q] = Active /\ Live(m, i, q) => Same(m, d, q)
  BY <1>22, <1>24 DEF Withdrawn
<1>25. d.list[p] # Active /\ d.list[p] = Free  BY <1>22, TheList DEF Withdrawn
<1>26. ASSUME NEW e \in Hdrs PROVE LinkOf(d, i, e) = LinkOf(m, i, e) \ {p}
  <2>1. ASSUME NEW q \in Links, q # p PROVE q \in LinkOf(d, i, e) <=> q \in LinkOf(m, i, e)
    <3>1. ASSUME q \in LinkOf(d, i, e) PROVE q \in LinkOf(m, i, e)
      <4>1. d.list[q] = Active /\ d.hdr[q] = e /\ d.stamp[q] = i[e]  BY <3>1 DEF LinkOf
      <4>2. Same(m, d, q)  BY <1>24, <2>1, <4>1
      <4>3. QED  BY <4>1, <4>2 DEF LinkOf, Same
    <3>2. ASSUME q \in LinkOf(m, i, e) PROVE q \in LinkOf(d, i, e)
      <4>1. m.list[q] = Active /\ m.hdr[q] = e /\ m.stamp[q] = i[e] /\ e # Nil
        BY <3>2, Distinct DEF LinkOf
      <4>2. Live(m, i, q)  BY <4>1 DEF Live
      <4>3. Same(m, d, q)  BY <1>24, <2>1, <4>1, <4>2
      <4>4. QED  BY <4>1, <4>3 DEF LinkOf, Same
    <3>3. QED  BY <3>1, <3>2
  <2>2. p \notin LinkOf(d, i, e)  BY <1>25 DEF LinkOf
  <2>3. LinkOf(d, i, e) \subseteq Links /\ LinkOf(m, i, e) \subseteq Links  BY DEF LinkOf
  <2>4. QED  BY <2>1, <2>2, <2>3
<1>27. LinkOf(d, i, b) = {}  BY <1>9, <1>26
<1>28. d.head[Free] # Nil  BY <1>23, <1>25, FreeHead
<1>29. PICK f : f = proc'  OBVIOUS
<1>30. PICK u : u = insert_proc_by_priority(d, i, b, f)  OBVIOUS
<1>31. mem' = u  BY <1>2, <1>3, <1>20, <1>29, <1>30
<1>32. Entered(d, u, i, g, b)  BY <1>5, <1>23, <1>27, <1>28, <1>30, InsertFacts
<1>33. /\ Sound(u, g, Nil)
       /\ \A e \in Hdrs \ {b} : LinkOf(u, i, e) = LinkOf(d, i, e)
       /\ \E q \in Links : LinkOf(u, i, b) = {q}
       /\ \A q \in Links : d.list[q] = Active /\ Live(d, i, q) => Same(d, u, q)
  BY <1>32 DEF Entered
<1>34. ASSUME NEW e \in Hdrs \ {b} PROVE LinkOf(u, i, e) = LinkOf(mem, i, e)
  <2>1. p \notin LinkOf(m, i, e)  BY <1>10 DEF LinkOf
  <2>2. LinkOf(d, i, e) = LinkOf(m, i, e)  BY <1>26, <2>1
  <2>3. QED  BY <1>7, <1>33, <2>2
<1>35. ASSUME NEW q \in Links, mem.list[q] = Active, Live(mem, i, q) PROVE Same(mem, u, q)
  <2>1. q # p
    <3>1. ASSUME q = p PROVE FALSE
      <4>1. Same(mem, m, p)  BY <1>7, <1>35, <3>1
      <4>2. mem.hdr[p] = b /\ mem.stamp[p] = i[b] /\ mem.list[p] = Active
        BY <1>10, <1>35, <3>1, <4>1 DEF Same
      <4>3. p \in LinkOf(mem, i, b)  BY <4>2 DEF LinkOf
      <4>4. QED  BY <1>5, <4>3
    <3>2. QED  BY <3>1
  <2>2. Same(mem, m, q)  BY <1>7, <1>35
  <2>3. m.list[q] = Active /\ Live(m, i, q)  BY <1>35, <2>2 DEF Same, Live
  <2>4. Same(m, d, q)  BY <1>24, <2>1, <2>3
  <2>5. d.list[q] = Active /\ Live(d, i, q)  BY <2>3, <2>4 DEF Same, Live
  <2>6. Same(d, u, q)  BY <1>33, <2>5
  <2>7. QED  BY <2>2, <2>4, <2>6 DEF Same
<1>36. Entered(mem, u, i, g, b)  BY <1>33, <1>34, <1>35 DEF Entered
<1>37. Entered(mem, mem', inst', global_instance_ctr', b)  BY <1>3, <1>4, <1>31, <1>36
<1>38. Moving(m, d, [proc EXCEPT ![b] = NewProc(o, k)], b, p)
  BY <1>2, <1>3, <1>4, <1>6, <1>9, <1>22, <1>27, <1>28, <1>29, <1>30, <1>31, <1>32, <1>37
  DEF Moving
<1>39. QED  BY <1>38

LEMMA MoveKept ==
  ASSUME IndInv, NEW b \in Hdrs, NEW o \in Priorities, NEW n \in Priorities, NEW k \in Kinds,
         create_then_change_priority(b, o, n, k), state # "walk"
  PROVE  IndInv'
<1>1. /\ get_mkproc(b) /\ UNCHANGED pass
      /\ proc' = [proc EXCEPT ![b] = NewProc(n, k)]
  BY DEF create_then_change_priority
<1>2. Entered(mem, mem', inst', global_instance_ctr', b)  BY MovePath DEF Moving
<1>3. /\ Sound(mem', global_instance_ctr', Nil)
      /\ \A e \in Hdrs : Once(mem', inst', e)
      /\ state = "run" => /\ Same(mem, mem', link)
                          /\ inst'[mem.hdr[link]] = inst[mem.hdr[link]]
  BY <1>1, <1>2, EnteredKept
<1>4. CountsKept'
  <2>1. proc \in [Hdrs -> Fields] /\ NewProc(n, k) \in Fields  BY Known, Fielded
  <2>2. proc' \in [Hdrs -> Fields]  BY <1>1, <2>1
  <2>3. global_instance_ctr' \in Nat /\ inst' \in [Hdrs -> 0 .. global_instance_ctr']
    BY <1>1, NewInstance
  <2>4. QED  BY <2>2, <2>3 DEF CountsKept
<1>5. LinksKept'  BY <1>3 DEF LinksKept
<1>6. QED  BY <1>1, <1>3, <1>4, <1>5, Operated

(* Some processes die; no link changes its meaning.                        *)
LEMMA FewerLive ==
  ASSUME NEW i, NEW j, NEW m, NEW b \in Hdrs, Once(m, i, b), j[b] = i[b] \/ j[b] = 0
  PROVE  Once(m, j, b)
<1>1. CASE j[b] = 0  BY <1>1 DEF Once
<1>2. CASE j[b] = i[b]
  <2>1. LinkOf(m, j, b) = LinkOf(m, i, b)  BY <1>2 DEF LinkOf
  <2>2. QED  BY <1>2, <2>1 DEF Once
<1>3. QED  BY <1>1, <1>2

(* A walk or a search of the list, and nothing else                        *)
LEMMA WalkKept ==
  ASSUME IndInv, NEW W, NEW u, u = AfterSearch(mem, inst, Chain(mem, Active), W)
  PROVE  /\ Sound(u, global_instance_ctr, Nil)
         /\ \A b \in Hdrs : Once(u, inst, b)
         /\ state = "run" => Same(mem, u, link)
<1>1. PICK m \in Memory : m = mem  BY Known
<1>2. PICK i : i = inst  OBVIOUS
<1>3. AllStrung(m)  BY <1>1, Known
<1>4. PICK c : c = Chain(m, Active)  OBVIOUS
<1>5. PICK p : p = FirstWanted(m, i, c, W)  OBVIOUS
<1>6. u = AfterSearch(m, i, c, W)  BY <1>1, <1>2, <1>4
<1>7. Tidied(m, u, Stale(m, i))  BY <1>3, <1>4, <1>5, <1>6, Searched, TheList
<1>8. PICK g \in Nat : g = global_instance_ctr  BY Known
<1>9. Sound(m, g, Nil)  BY <1>1, <1>8, Known
<1>10. Sound(u, g, Nil) /\ Trimmed(m, u, i, Nil)  BY <1>7, <1>9, TidyFacts
<1>11. ASSUME NEW b \in Hdrs PROVE Once(u, i, b)
  <2>1. Nil \notin Links  BY Distinct
  <2>2. LinkOf(u, i, b) = LinkOf(m, i, b)  BY <1>10, <2>1, TrimmedLinks
  <2>3. Once(m, i, b)  BY <1>1, <1>2, Known
  <2>4. QED  BY <2>2, <2>3 DEF Once
<1>12. ASSUME state = "run" PROVE Same(mem, u, link)
  <2>1. link \in Links /\ link # Nil /\ m.list[link] = Active /\ Live(m, i, link)
    BY <1>1, <1>2, <1>12 DEF IndInv, CursorKept
  <2>2. Same(m, u, link)  BY <1>10, <2>1 DEF Trimmed
  <2>3. QED  BY <1>1, <2>2
<1>13. QED  BY <1>2, <1>8, <1>10, <1>11, <1>12

LEMMA FindKept ==
  ASSUME IndInv, NEW b \in Hdrs, find_mkproc_pid(b), state # "walk"
  PROVE  IndInv'
<1>1. UNCHANGED procs /\ UNCHANGED pass  BY DEF find_mkproc_pid
<1>2. \E W : mem' = AfterSearch(mem, inst, Chain(mem, Active), W)
  BY DEF find_mkproc_pid, AfterFind, AfterWalk
<1>3. PICK W : mem' = AfterSearch(mem, inst, Chain(mem, Active), W)  BY <1>2
<1>4. /\ Sound(mem', global_instance_ctr, Nil)
      /\ \A c \in Hdrs : Once(mem', inst, c)
      /\ state = "run" => Same(mem, mem', link)
  BY <1>3, WalkKept
<1>5. inst' = inst /\ global_instance_ctr' = global_instance_ctr /\ proc' = proc
  BY <1>1 DEF procs
<1>6. LinksKept'  BY <1>4, <1>5 DEF LinksKept
<1>7. CountsKept'  BY <1>5 DEF IndInv, CountsKept
<1>8. QED  BY <1>1, <1>4, <1>5, <1>6, <1>7, Operated

LEMMA DestroyDataKept ==
  ASSUME IndInv, NEW b \in Hdrs, DestroyData(b), state # "walk"
  PROVE  IndInv'
<1>1. /\ proc' = [proc EXCEPT ![b].data = FALSE]
      /\ mem' = mem /\ inst' = inst /\ global_instance_ctr' = global_instance_ctr
      /\ UNCHANGED pass
  BY DEF DestroyData
<1>2. proc' \in [Hdrs -> Fields]
  <2>1. proc \in [Hdrs -> Fields]  BY Known
  <2>2. [proc[b] EXCEPT !.data = FALSE] \in Fields  BY <2>1 DEF Fields
  <2>3. proc' = [proc EXCEPT ![b] = [proc[b] EXCEPT !.data = FALSE]]  BY <1>1, <2>1
  <2>4. QED  BY <2>1, <2>2, <2>3
<1>3. CountsKept'  BY <1>1, <1>2 DEF IndInv, CountsKept
<1>4. LinksKept'  BY <1>1 DEF IndInv, LinksKept
<1>5. Same(mem, mem', link)  BY <1>1 DEF Same
<1>6. QED  BY <1>1, <1>3, <1>4, <1>5, Operated

LEMMA DestroyKept ==
  ASSUME IndInv, NEW K \in SUBSET Hdrs, destroy_mkprocs_pid(K), state # "walk"
  PROVE  IndInv'
<1>1. /\ inst' = [b \in Hdrs |-> IF b \in K /\ Destroyable(b) THEN 0 ELSE inst[b]]
      /\ proc' = Buried({b \in K : Destroyable(b)})
      /\ mem' = AfterWalk(mem, inst, Active)
      /\ global_instance_ctr' = global_instance_ctr /\ UNCHANGED pass
  BY DEF destroy_mkprocs_pid
<1>2. mem' = AfterSearch(mem, inst, Chain(mem, Active), {})  BY <1>1 DEF AfterWalk
<1>3. /\ Sound(mem', global_instance_ctr, Nil)
      /\ \A c \in Hdrs : Once(mem', inst, c)
      /\ state = "run" => Same(mem, mem', link)
  BY <1>2, WalkKept
<1>4. \A c \in Hdrs : inst'[c] = inst[c] \/ inst'[c] = 0  BY <1>1
<1>5. \A c \in Hdrs : Once(mem', inst', c)  BY <1>3, <1>4, FewerLive
<1>6. LinksKept'  BY <1>1, <1>3, <1>5 DEF LinksKept
<1>7. CountsKept'
  <2>1. /\ global_instance_ctr \in Nat /\ inst \in [Hdrs -> 0 .. global_instance_ctr]
        /\ proc \in [Hdrs -> Fields]
    BY Known
  <2>2. proc' \in [Hdrs -> Fields]  BY <1>1, <2>1, BuriedFields
  <2>3. inst' \in [Hdrs -> 0 .. global_instance_ctr]  BY <1>1, <2>1
  <2>4. QED  BY <1>1, <2>1, <2>2, <2>3 DEF CountsKept
<1>8. ASSUME state = "run" PROVE inst'[mem.hdr[link]] = inst[mem.hdr[link]]
  <2>1. link # Nil /\ aproc_nodestroy = mem.hdr[link]  BY <1>8 DEF IndInv, CursorKept
  <2>2. mem.hdr[link] \in Hdrs  BY <2>1, Known
  <2>3. ~Destroyable(mem.hdr[link])  BY <2>1 DEF Destroyable
  <2>4. QED  BY <1>1, <2>2, <2>3
<1>9. QED  BY <1>1, <1>3, <1>6, <1>7, <1>8, Operated

----------------------------------------------------------------------------
(* The dispatcher                                                          *)

LEMMA NextOnList ==
  ASSUME NEW m \in Memory, AllStrung(m), NEW p \in Links, m.list[p] = Active,
         NEW q, q = m.next[p]
  PROVE  q # Nil => q \in Links /\ q # p /\ m.list[q] = Active
<1>1. PICK s : Strung(m, Active, s)  BY TheList DEF AllStrung
<1>2. /\ Len(s) \in Nat /\ \A k \in 1 .. Len(s) : s[k] \in Links /\ m.list[s[k]] = Active
      /\ \A j, k \in 1 .. Len(s) : s[j] = s[k] => j = k
      /\ \E k \in 1 .. Len(s) : s[k] = p
  BY <1>1, OnChain, TheList
<1>3. PICK k \in 1 .. Len(s) : s[k] = p  BY <1>2
<1>4. q = IF k = Len(s) THEN Nil ELSE s[k + 1]  BY <1>1, <1>3 DEF Strung
<1>5. ASSUME k # Len(s) PROVE q \in Links /\ q # p /\ m.list[q] = Active
  <2>1. k + 1 \in 1 .. Len(s) /\ k + 1 # k  BY <1>2, <1>5
  <2>2. q = s[k + 1]  BY <1>4, <1>5
  <2>3. QED  BY <1>2, <1>3, <2>1, <2>2
<1>6. QED  BY <1>4, <1>5

(* The dispatcher goes on to the next link, whatever process has died.     *)
LEMMA MovedOn ==
  ASSUME IndInv, link # Nil, mem' = mem, link' = mem.next[link], state' = "walk",
         global_instance_ctr' = global_instance_ctr,
         proc' \in [Hdrs -> Fields],
         inst' \in [Hdrs -> 0 .. global_instance_ctr],
         \A b \in Hdrs : inst'[b] = inst[b] \/ inst'[b] = 0
  PROVE  IndInv'
<1>1. CountsKept'
  <2>1. global_instance_ctr \in Nat  BY Known
  <2>2. QED  BY <2>1 DEF CountsKept
<1>2. LinksKept'
  <2>1. Sound(mem', global_instance_ctr', Nil)  BY Known
  <2>2. ASSUME NEW b \in Hdrs PROVE Once(mem, inst', b)
    <3>1. Once(mem, inst, b) /\ (inst'[b] = inst[b] \/ inst'[b] = 0)  BY Known
    <3>2. QED  BY <3>1, FewerLive
  <2>3. QED  BY <2>1, <2>2 DEF LinksKept
<1>3. PICK q : q = mem.next[link]  OBVIOUS
<1>4. q # Nil => q \in Links /\ q # link /\ mem.list[q] = Active
  <2>1. mem \in Memory /\ AllStrung(mem) /\ link \in Links /\ mem.list[link] = Active  BY Known
  <2>2. QED  BY <1>3, <2>1, NextOnList
<1>5. CursorKept'  BY <1>3, <1>4 DEF CursorKept
<1>6. QED  BY <1>1, <1>2, <1>5 DEF IndInv

LEMMA StartKept == ASSUME IndInv, StartPass PROVE IndInv'
<1>1. /\ link' = mem.head[Active] /\ state' = "walk" /\ mem' = mem /\ UNCHANGED procs
  BY DEF StartPass
<1>2. inst' = inst /\ global_instance_ctr' = global_instance_ctr /\ proc' = proc
  BY <1>1 DEF procs
<1>3. CountsKept' /\ LinksKept'  BY <1>1, <1>2 DEF IndInv, CountsKept, LinksKept
<1>4. link' # Nil => link' \in Links /\ mem.list[link'] = Active
  <2>1. mem \in Memory /\ AllStrung(mem)  BY Known
  <2>2. PICK s : Strung(mem, Active, s)  BY <2>1, TheList DEF AllStrung
  <2>3. /\ Len(s) \in Nat
        /\ \A k \in 1 .. Len(s) : s[k] \in Links /\ mem.list[s[k]] = Active
        /\ mem.head[Active] = IF Len(s) = 0 THEN Nil ELSE s[1]
    BY <2>1, <2>2, OnChain, TheList
  <2>4. Len(s) # 0 => 1 \in 1 .. Len(s)  BY <2>3
  <2>5. QED  BY <1>1, <2>3, <2>4
<1>5. CursorKept'  BY <1>1, <1>4 DEF CursorKept
<1>6. QED  BY <1>3, <1>5 DEF IndInv

LEMMA EndKept == ASSUME IndInv, EndPass PROVE IndInv'
<1>1. /\ link = Nil /\ link' = link /\ state' = "idle" /\ mem' = mem /\ UNCHANGED procs
  BY DEF EndPass
<1>2. inst' = inst /\ global_instance_ctr' = global_instance_ctr /\ proc' = proc
  BY <1>1 DEF procs
<1>3. CountsKept' /\ LinksKept'  BY <1>1, <1>2 DEF IndInv, CountsKept, LinksKept
<1>4. CursorKept'  BY <1>1 DEF CursorKept
<1>5. QED  BY <1>3, <1>4 DEF IndInv

LEMMA StaleKept == ASSUME IndInv, StaleLink PROVE IndInv'
<1>1. /\ state = "walk" /\ link # Nil /\ ~Live(mem, inst, link)
      /\ mem' = Discard(mem, link) /\ link' = mem.next[link] /\ state' = state
      /\ inst' = inst /\ global_instance_ctr' = global_instance_ctr /\ proc' = proc
  BY DEF StaleLink, procs
<1>2. PICK m \in Memory : m = mem  BY Known
<1>3. AllStrung(m) /\ link \in Links /\ m.list[link] = Active  BY <1>1, <1>2, Known
<1>4. PICK p \in Links : p = link  BY <1>3
<1>5. PICK u : u = mem'  OBVIOUS
<1>6. Discarded(m, u, p)
  <2>1. u = Discard(m, p)  BY <1>1, <1>2, <1>4, <1>5
  <2>2. m.list[p] \in Lists \cup {Nil}  BY <1>3, <1>4, TheList
  <2>3. QED  BY <1>3, <2>1, <2>2, DiscardFacts
<1>7. u \in Memory /\ AllStrung(u) /\ Freed(u, p) /\ \A q \in Links \ {p} : Same(m, u, q)
  BY <1>6 DEF Discarded
<1>8. PICK g \in Nat : g = global_instance_ctr  BY Known
<1>9. Sound(u, g, Nil)
  <2>1. ASSUME NEW q \in Links PROVE Freed(u, q) \/ Busy(u, q, g)
    <3>1. Freed(m, q) \/ Busy(m, q, g)  BY <1>2, <1>8, Known
    <3>2. q # p => Same(m, u, q)  BY <1>7
    <3>3. QED  BY <1>7, <3>1, <3>2 DEF Same, Freed, Busy
  <2>2. QED  BY <1>7, <2>1 DEF Sound
<1>10. ASSUME NEW b \in Hdrs PROVE Once(u, inst, b)
  <2>1. p \notin LinkOf(u, inst, b)  BY <1>7, TheList DEF Freed, LinkOf
  <2>2. p \notin LinkOf(m, inst, b)
    <3>1. ASSUME m.hdr[p] = b, m.stamp[p] = inst[b] PROVE FALSE
      BY <1>1, <1>2, <1>4, <3>1, Distinct DEF Live
    <3>2. QED  BY <3>1 DEF LinkOf
  <2>3. \A q \in Links : q # p => (q \in LinkOf(u, inst, b) <=> q \in LinkOf(m, inst, b))
    BY <1>7 DEF LinkOf, Same
  <2>4. LinkOf(u, inst, b) \subseteq Links /\ LinkOf(m, inst, b) \subseteq Links  BY DEF LinkOf
  <2>5. LinkOf(u, inst, b) = LinkOf(m, inst, b)  BY <2>1, <2>2, <2>3, <2>4
  <2>6. Once(m, inst, b)  BY <1>2, Known
  <2>7. QED  BY <2>5, <2>6 DEF Once
<1>11. LinksKept'  BY <1>1, <1>5, <1>8, <1>9, <1>10 DEF LinksKept
<1>12. CountsKept'  BY <1>1 DEF IndInv, CountsKept
<1>13. CursorKept'
  <2>1. PICK q : q = m.next[p]  OBVIOUS
  <2>2. q # Nil => q \in Links /\ q # p /\ m.list[q] = Active
    BY <1>3, <1>4, <2>1, NextOnList
  <2>3. q # Nil => u.list[q] = Active  BY <1>7, <2>2 DEF Same
  <2>4. link' = q  BY <1>1, <1>2, <1>4, <2>1
  <2>5. QED  BY <1>1, <1>5, <2>2, <2>3, <2>4 DEF CursorKept
<1>14. QED  BY <1>11, <1>12, <1>13 DEF IndInv

LEMMA PassKept == ASSUME IndInv, Pass PROVE IndInv'
<1>1. /\ state = "walk" /\ link # Nil /\ Live(mem, inst, link)
      /\ link' = mem.next[link] /\ mem' = mem /\ state' = state
      /\ inst' = inst /\ global_instance_ctr' = global_instance_ctr
  BY DEF Pass, AtLive
<1>2. PICK b \in Hdrs : b = mem.hdr[link]  BY <1>1, Known
<1>3. aproc = b  BY <1>2 DEF aproc
<1>4. proc' \in [Hdrs -> Fields]
  <2>1. proc \in [Hdrs -> Fields] /\ proc[b] \in Fields  BY Known
  <2>2. CASE proc' = proc  BY <2>1, <2>2
  <2>3. CASE /\ proc[b].sleep_ticks > 0
             /\ proc' = [proc EXCEPT ![b].sleep_ticks = @ - 1]
    <3>1. proc[b].sleep_ticks - 1 \in 0 .. MaxSleep  BY <2>1, <2>3, FieldsAssumption DEF Fields
    <3>2. [proc[b] EXCEPT !.sleep_ticks = proc[b].sleep_ticks - 1] \in Fields
      BY <2>1, <3>1 DEF Fields
    <3>3. proc' = [proc EXCEPT ![b] = [proc[b] EXCEPT !.sleep_ticks = proc[b].sleep_ticks - 1]]
      BY <2>1, <2>3
    <3>4. QED  BY <2>1, <3>2, <3>3
  <2>4. QED  BY <1>3, <2>2, <2>3 DEF Pass
<1>5. /\ state' = "walk"
      /\ inst' \in [Hdrs -> 0 .. global_instance_ctr]
      /\ \A c \in Hdrs : inst'[c] = inst[c] \/ inst'[c] = 0
  BY <1>1, Known
<1>6. QED  BY <1>1, <1>4, <1>5, MovedOn

LEMMA LapseKept == ASSUME IndInv, Lapse PROVE IndInv'
<1>1. /\ state = "walk" /\ link # Nil /\ Live(mem, inst, link)
      /\ link' = mem.next[link] /\ mem' = mem /\ state' = state
      /\ global_instance_ctr' = global_instance_ctr
      /\ \/ inst' = inst /\ proc' = proc
         \/ inst' = [inst EXCEPT ![aproc] = 0] /\ proc' = Buried({aproc})
  BY DEF Lapse, Due, AtLive
<1>2. PICK b \in Hdrs : b = mem.hdr[link]  BY <1>1, Known
<1>3. aproc = b  BY <1>2 DEF aproc
<1>4. /\ inst \in [Hdrs -> 0 .. global_instance_ctr] /\ global_instance_ctr \in Nat
      /\ proc \in [Hdrs -> Fields]
  BY Known
<1>5. proc' \in [Hdrs -> Fields]  BY <1>1, <1>4, BuriedFields
<1>6. inst' \in [Hdrs -> 0 .. global_instance_ctr]  BY <1>1, <1>3, <1>4
<1>7. \A c \in Hdrs : inst'[c] = inst[c] \/ inst'[c] = 0  BY <1>1, <1>3, <1>4
<1>8. state' = "walk"  BY <1>1
<1>9. QED  BY <1>1, <1>5, <1>6, <1>7, <1>8, MovedOn

LEMMA RunKept == ASSUME IndInv, Run PROVE IndInv'
<1>1. /\ state = "walk" /\ link # Nil /\ Live(mem, inst, link)
      /\ aproc_nodestroy' = mem.hdr[link] /\ state' = "run"
      /\ mem' = mem /\ link' = link
      /\ inst' = inst /\ global_instance_ctr' = global_instance_ctr /\ proc' = proc
  BY DEF Run, Due, AtLive, aproc, procs
<1>2. CountsKept' /\ LinksKept'  BY <1>1 DEF IndInv, CountsKept, LinksKept
<1>3. CursorKept'
  <2>1. link \in Links \cup {Nil} /\ mem.list[link] = Active  BY <1>1, Known
  <2>2. Live(mem', inst', link')  BY <1>1 DEF Live
  <2>3. QED  BY <1>1, <2>1, <2>2 DEF CursorKept
<1>4. QED  BY <1>2, <1>3 DEF IndInv

LEMMA SleepKept == ASSUME IndInv, NEW t \in 0 .. MaxSleep, Sleep(t) PROVE IndInv'
<1>1. /\ state = "run" /\ link' = mem.next[link] /\ mem' = mem /\ state' = "walk"
      /\ proc' = [proc EXCEPT ![aproc].sleep_ticks = t]
      /\ inst' = inst /\ global_instance_ctr' = global_instance_ctr
  BY DEF Sleep
<1>2. link # Nil  BY <1>1 DEF IndInv, CursorKept
<1>3. PICK b \in Hdrs : b = mem.hdr[link]  BY <1>2, Known
<1>4. proc' \in [Hdrs -> Fields]
  <2>1. proc \in [Hdrs -> Fields] /\ proc[b] \in Fields  BY Known
  <2>2. [proc[b] EXCEPT !.sleep_ticks = t] \in Fields  BY <2>1 DEF Fields
  <2>3. proc' = [proc EXCEPT ![b] = [proc[b] EXCEPT !.sleep_ticks = t]]
    BY <1>1, <1>3, <2>1 DEF aproc
  <2>4. QED  BY <2>1, <2>2, <2>3
<1>5. inst' \in [Hdrs -> 0 .. global_instance_ctr]  BY <1>1, Known
<1>6. \A c \in Hdrs : inst'[c] = inst[c] \/ inst'[c] = 0  BY <1>1
<1>7. QED  BY <1>1, <1>2, <1>4, <1>5, <1>6, MovedOn

LEMMA DieKept == ASSUME IndInv, Die PROVE IndInv'
<1>1. /\ state = "run" /\ link' = mem.next[link] /\ mem' = mem /\ state' = "walk"
      /\ inst' = [inst EXCEPT ![aproc] = 0] /\ proc' = Buried({aproc})
      /\ global_instance_ctr' = global_instance_ctr
  BY DEF Die
<1>2. link # Nil  BY <1>1 DEF IndInv, CursorKept
<1>3. PICK b \in Hdrs : b = mem.hdr[link]  BY <1>2, Known
<1>4. aproc = b  BY <1>3 DEF aproc
<1>5. /\ inst \in [Hdrs -> 0 .. global_instance_ctr] /\ global_instance_ctr \in Nat
      /\ proc \in [Hdrs -> Fields]
  BY Known
<1>6. proc' \in [Hdrs -> Fields]  BY <1>1, <1>5, BuriedFields
<1>7. inst' \in [Hdrs -> 0 .. global_instance_ctr]  BY <1>1, <1>4, <1>5
<1>8. \A c \in Hdrs : inst'[c] = inst[c] \/ inst'[c] = 0  BY <1>1, <1>4, <1>5
<1>9. QED  BY <1>1, <1>2, <1>6, <1>7, <1>8, MovedOn

(* The pool is laid out anew, and its first link is the new process's.     *)
LEMMA JumpKept ==
  ASSUME IndInv, NEW b \in Hdrs, NEW n \in Priorities, NEW k \in Kinds,
         gamelogic_jump(b, n, k)
  PROVE  IndInv'
<1>1. /\ state = "run"
      /\ global_instance_ctr' = global_instance_ctr + 1
      /\ inst' = [c \in Hdrs |-> IF c = b THEN global_instance_ctr + 1 ELSE 0]
      /\ proc' = [Buried(Hdrs) EXCEPT ![b] = NewProc(n, k)]
      /\ mem' = insert_proc_by_priority(Pool(SetToSeq(Links)), inst', b, proc')
      /\ link' = Nil /\ state' = "idle"
  BY DEF gamelogic_jump
<1>2. PICK s : s = SetToSeq(Links)  OBVIOUS
<1>3. s \in Seq(Links) /\ IsInjective(s) /\ ToSet(s) = Links  BY <1>2, Ordered
<1>4. PICK m : m = Pool(s)  OBVIOUS
<1>5. m \in Memory /\ AllStrung(m) /\ \A q \in Links : Freed(m, q)  BY <1>3, <1>4, PoolFacts
<1>6. PICK g \in Nat : g = global_instance_ctr + 1 /\ g # 0  BY Known
<1>7. PICK i : i = inst'  OBVIOUS
<1>8. i \in [Hdrs -> 0 .. g] /\ i[b] = g /\ \A c \in Hdrs : c # b => i[c] = 0
  <2>1. i = [c \in Hdrs |-> IF c = b THEN g ELSE 0]  BY <1>1, <1>6, <1>7
  <2>2. g \in 0 .. g /\ 0 \in 0 .. g  BY <1>6
  <2>3. QED  BY <2>1, <2>2
<1>9. Sound(m, g, Nil)  BY <1>5 DEF Sound
<1>10. m.head[Free] # Nil
  <2>1. link \in Links
    <3>1. link # Nil  BY <1>1 DEF IndInv, CursorKept
    <3>2. QED  BY <3>1, Known
  <2>2. m.list[link] = Free  BY <1>5, <2>1 DEF Freed
  <2>3. QED  BY <1>5, <2>1, <2>2, FreeHead
<1>11. LinkOf(m, i, b) = {}  BY <1>5, TheList DEF LinkOf, Freed
<1>12. PICK f : f = proc'  OBVIOUS
<1>13. PICK u : u = mem'  OBVIOUS
<1>14. Entered(m, u, i, g, b)
  <2>1. u = insert_proc_by_priority(m, i, b, f)  BY <1>1, <1>2, <1>4, <1>7, <1>12, <1>13
  <2>2. i[b] # 0  BY <1>6, <1>8
  <2>3. QED  BY <1>8, <1>9, <1>10, <1>11, <2>1, <2>2, InsertFacts
<1>15. Sound(u, g, Nil) /\ \E p \in Links : LinkOf(u, i, b) = {p}  BY <1>14 DEF Entered
<1>16. \A c \in Hdrs : Once(u, i, c)  BY <1>8, <1>15 DEF Once
<1>17. LinksKept'  BY <1>1, <1>6, <1>7, <1>13, <1>15, <1>16 DEF LinksKept
<1>18. CountsKept'
  <2>1. proc \in [Hdrs -> Fields]  BY Known
  <2>2. Buried(Hdrs) \in [Hdrs -> Fields] /\ NewProc(n, k) \in Fields
    BY <2>1, BuriedFields, Fielded
  <2>3. proc' \in [Hdrs -> Fields]  BY <1>1, <2>2
  <2>4. QED  BY <1>1, <1>6, <1>7, <1>8, <2>3 DEF CountsKept
<1>19. CursorKept'  BY <1>1 DEF CursorKept
<1>20. QED  BY <1>17, <1>18, <1>19 DEF IndInv

LEMMA StutterKept == ASSUME IndInv, UNCHANGED vars PROVE IndInv'
<1>1. /\ mem' = mem /\ inst' = inst /\ global_instance_ctr' = global_instance_ctr
      /\ proc' = proc /\ link' = link /\ aproc_nodestroy' = aproc_nodestroy
      /\ state' = state
  BY DEF vars
<1>2. CountsKept' /\ LinksKept' /\ CursorKept'
  BY <1>1 DEF IndInv, CountsKept, LinksKept, CursorKept, Live
<1>3. QED  BY <1>2 DEF IndInv

(* Every step keeps the inductive invariant.                               *)
LEMMA StepKept == IndInv /\ [Next]_vars => IndInv'
<1>1. SUFFICES ASSUME IndInv, [Next]_vars PROVE IndInv'  OBVIOUS
<1>2. CASE UNCHANGED vars  BY <1>1, <1>2, StutterKept
<1>3. CASE Dispatch
  BY <1>1, <1>3, StartKept, EndKept, StaleKept, PassKept, LapseKept, RunKept DEF Dispatch
<1>4. CASE Finish  BY <1>1, <1>4, SleepKept, DieKept, JumpKept DEF Finish
<1>5. CASE state # "walk" /\ Operation
  BY <1>1, <1>5, FindKept, DestroyDataKept, CreateKept, MoveKept, DestroyKept DEF Operation
<1>6. QED  BY <1>1, <1>2, <1>3, <1>4, <1>5 DEF Next

THEOREM ProcInvariant == Spec => []IndInv
<1>1. Init => IndInv  BY InitKept
<1>2. IndInv /\ [Next]_vars => IndInv'  BY StepKept
<1>3. QED  BY <1>1, <1>2, PTL DEF Spec

(* While a process runs and does what it likes, the dispatcher's link is   *)
(* that of the process, on the list and alive: dispatch_proc_list can go   *)
(* on from link->next (mk_proc.c).                                         *)
THEOREM CursorStaysOnList == Spec => []CursorOnList
<1>1. IndInv => CursorOnList  BY DEF IndInv, CursorKept, CursorOnList
<1>2. QED  BY <1>1, ProcInvariant, PTL

(* Every living process has one link on the list and every list is well    *)
(* linked, though blocks and links are used again.                         *)
THEOREM LinksStayAccounted == Spec => []LinksAccounted
<1>1. ASSUME IndInv PROVE LinksAccounted
  <2>1. TypeOK
    <3>1. ASSUME NEW b \in Hdrs
          PROVE  inst[b] <= global_instance_ctr /\ proc[b].sleep_ticks <= MaxSleep
      <4>1. /\ global_instance_ctr \in Nat /\ inst[b] \in 0 .. global_instance_ctr
            /\ proc[b] \in Fields
        BY <1>1, Known
      <4>2. proc[b].sleep_ticks \in 0 .. MaxSleep  BY <4>1 DEF Fields
      <4>3. QED  BY <4>1, <4>2, FieldsAssumption
    <3>2. state \in {"idle", "walk", "run"}  BY <1>1 DEF IndInv, CursorKept
    <3>3. state = "run" => aproc_nodestroy # Nil
      <4>1. ASSUME state = "run" PROVE aproc_nodestroy # Nil
        <5>1. link # Nil /\ aproc_nodestroy = mem.hdr[link]
          BY <1>1, <4>1 DEF IndInv, CursorKept
        <5>2. mem.hdr[link] \in Hdrs  BY <1>1, <5>1, Known
        <5>3. QED  BY <5>1, <5>2, Distinct
      <4>2. QED  BY <4>1
    <3>4. QED  BY <3>1, <3>2, <3>3 DEF TypeOK
  <2>2. LinksConserved
    <3>1. mem \in Memory /\ AllStrung(mem)  BY <1>1, Known
    <3>2. WellLinked(mem)  BY <3>1, StrungWell
    <3>3. \A p \in Links : mem.list[p] \in {Active, Free}
      BY <1>1, Known DEF Freed, Busy
    <3>4. QED  BY <3>2, <3>3 DEF LinksConserved
  <2>3. OneLinkEach
    <3>1. ASSUME NEW b \in Hdrs, inst[b] # 0
          PROVE  Cardinality({p \in Links : /\ mem.list[p] = Active
                                            /\ mem.hdr[p] = b
                                            /\ mem.stamp[p] = inst[b]}) = 1
      <4>1. Once(mem, inst, b)  BY <1>1, Known
      <4>2. PICK q \in Links : LinkOf(mem, inst, b) = {q}  BY <3>1, <4>1 DEF Once
      <4>3. Cardinality({q}) = 1  BY FS_Singleton
      <4>4. {p \in Links : /\ mem.list[p] = Active
                           /\ mem.hdr[p] = b
                           /\ mem.stamp[p] = inst[b]} = {q}
        BY <4>2 DEF LinkOf
      <4>5. QED  BY <4>3, <4>4
    <3>2. QED  BY <3>1 DEF OneLinkEach
  <2>4. QED  BY <2>1, <2>2, <2>3 DEF LinksAccounted
<1>2. QED  BY <1>1, ProcInvariant, PTL

----------------------------------------------------------------------------
(* The order of the list                                                   *)

Alive(m, i, q) == m.list[q] = Active /\ Live(m, i, q)

Comes(i, f, b, c) == \/ f[b].priority < f[c].priority
                     \/ f[b].priority = f[c].priority /\ i[b] < i[c]

(* The links of living processes are on the list by priority, and among    *)
(* equals by age; those of dead ones may be anywhere.                      *)
Sorted(m, i, f) ==
  \A p, q \in Links : Alive(m, i, p) /\ Alive(m, i, q) /\ Precedes(m, p, q)
                        => Comes(i, f, m.hdr[p], m.hdr[q])

Whole(f) == \A b \in Hdrs : f[b].priority \in Int

(* The links that were alive stand for what they did, in the same order.   *)
Steady(m, u, i) ==
  \A p, q \in Links : Alive(m, i, p) /\ Alive(m, i, q) =>
                        Same(m, u, p) /\ (Precedes(u, p, q) <=> Precedes(m, p, q))

(* The link of b is where its priority belongs.                            *)
Ranked(m, u, i, b, f) ==
  /\ Steady(m, u, i)
  /\ \E p \in Links :
       /\ LinkOf(u, i, b) = {p}
       /\ \A q \in Links : Alive(m, i, q) =>
            /\ Precedes(u, q, p) => f[m.hdr[q]].priority <= f[b].priority
            /\ Precedes(u, p, q) => f[b].priority < f[m.hdr[q]].priority

LEMMA SoundFacts ==
  ASSUME NEW g \in Nat, NEW x, NEW m, Sound(m, g, x)
  PROVE  /\ m \in Memory /\ AllStrung(m)
         /\ \A q \in Links \ {x} : m.list[q] = Active =>
                                     m.hdr[q] \in Hdrs /\ m.stamp[q] \in 1 .. g
<1>1. ASSUME NEW q \in Links \ {x}, m.list[q] = Active
      PROVE  m.hdr[q] \in Hdrs /\ m.stamp[q] \in 1 .. g
  <2>1. ~Freed(m, q)  BY <1>1, TheList DEF Freed
  <2>2. QED  BY <1>1, <2>1 DEF Sound, Busy
<1>2. QED  BY <1>1 DEF Sound

(* A link that is alive is the link of its process, which lives.           *)
LEMMA AliveFacts ==
  ASSUME NEW g \in Nat, NEW m, Sound(m, g, Nil), NEW i, NEW q \in Links
  PROVE  /\ Alive(m, i, q) => /\ m.hdr[q] \in Hdrs /\ i[m.hdr[q]] # 0
                              /\ m.stamp[q] = i[m.hdr[q]] /\ q \in LinkOf(m, i, m.hdr[q])
         /\ \A b \in Hdrs : q \in LinkOf(m, i, b) => Alive(m, i, q) /\ m.hdr[q] = b
<1>1. q \in Links \ {Nil}  BY Distinct
<1>2. ASSUME Alive(m, i, q)
      PROVE  /\ m.hdr[q] \in Hdrs /\ i[m.hdr[q]] # 0
             /\ m.stamp[q] = i[m.hdr[q]] /\ q \in LinkOf(m, i, m.hdr[q])
  <2>1. m.list[q] = Active /\ m.stamp[q] = i[m.hdr[q]]  BY <1>2 DEF Alive, Live
  <2>2. m.hdr[q] \in Hdrs /\ m.stamp[q] \in 1 .. g  BY <1>1, <2>1, SoundFacts
  <2>3. m.stamp[q] # 0  BY <2>2
  <2>4. QED  BY <2>1, <2>2, <2>3 DEF LinkOf
<1>3. ASSUME NEW b \in Hdrs, q \in LinkOf(m, i, b) PROVE Alive(m, i, q) /\ m.hdr[q] = b
  BY <1>3, Distinct DEF LinkOf, Alive, Live
<1>4. QED  BY <1>2, <1>3

(* Links that were alive and stay where they are keep their order.         *)
LEMMA TidySteady ==
  ASSUME NEW m \in Memory, AllStrung(m), NEW u \in Memory, AllStrung(u), InOrder(m, u), NEW i,
         \A q \in Links : Alive(m, i, q) => Same(m, u, q)
  PROVE  Steady(m, u, i)
<1>1. ASSUME NEW p \in Links, NEW q \in Links, Alive(m, i, p), Alive(m, i, q)
      PROVE  Precedes(u, p, q) <=> Precedes(m, p, q)
  <2>1. m.list[p] = Active /\ m.list[q] = Active  BY <1>1 DEF Alive
  <2>2. u.list[p] = Active /\ u.list[q] = Active  BY <1>1, <2>1 DEF Same
  <2>3. QED  BY <2>1, <2>2, OrderStays, TheList
<1>2. QED  BY <1>1 DEF Steady

(* insert_proc_by_priority puts the link before the first link of a        *)
(* process with a greater number, so that it comes after its equals.       *)
LEMMA InsertRanks ==
  ASSUME NEW g \in Nat, NEW i \in [Hdrs -> 0 .. g], NEW m, Sound(m, g, Nil),
         m.head[Free] # Nil, NEW b \in Hdrs, i[b] # 0, LinkOf(m, i, b) = {},
         NEW f, Whole(f), Sorted(m, i, f), NEW u, u = insert_proc_by_priority(m, i, b, f)
  PROVE  Ranked(m, u, i, b, f)
<1>1. PICK p \in Links : \E v, w, at : Inserting(m, v, w, u, i, g, b, f, p, at)
  BY InsertPath
<1>2. PICK v, w, at : Inserting(m, v, w, u, i, g, b, f, p, at)  BY <1>1
<1>3. /\ m \in Memory /\ AllStrung(m) /\ v \in Memory /\ AllStrung(v)
      /\ w \in Memory /\ AllStrung(w) /\ u \in Memory /\ AllStrung(u)
  BY <1>2 DEF Sound, Inserting, Placed
<1>4. /\ m.list[p] = Free /\ v.list[p] = Nil /\ w.list[p] = Nil
      /\ u.list[p] = Active /\ u.hdr[p] = b /\ u.stamp[p] = i[b]
      /\ \A q \in Links \ {p} : Same(m, v, q) /\ Same(w, u, q)
      /\ \A l \in Lists : Kept(m, v, l)
  BY <1>2 DEF Inserting, Taken, Placed, Same
<1>5. /\ at = FirstWanted(v, i, Chain(v, Active), Later(v, b, f))
      /\ InOrder(v, w) /\ u.next[p] = at /\ Gains(w, u, p, Active)
  BY <1>2 DEF Inserting, Tidied, Joined
<1>6. ASSUME NEW q \in Links, Alive(m, i, q)
      PROVE  /\ q # p /\ Alive(v, i, q) /\ Alive(w, i, q)
             /\ Same(m, v, q) /\ Same(v, w, q) /\ Same(w, u, q) /\ Same(m, u, q)
  <2>1. q # p  BY <1>4, <1>6, TheList DEF Alive
  <2>2. Same(m, v, q) /\ Same(w, u, q)  BY <1>4, <2>1
  <2>3. Alive(v, i, q)  BY <1>6, <2>2 DEF Alive, Live, Same
  <2>4. Same(v, w, q)
    <3>1. q # Nil /\ Trimmed(v, w, i, Nil)  BY <1>2, Distinct DEF Inserting
    <3>2. QED  BY <2>3, <3>1 DEF Trimmed, Alive
  <2>5. Alive(w, i, q)  BY <2>3, <2>4 DEF Alive, Live, Same
  <2>6. QED  BY <2>1, <2>2, <2>3, <2>4, <2>5 DEF Same
<1>7. \A q, r : Precedes(v, q, r) <=> Precedes(m, q, r)  BY <1>3, <1>4, KeptOrder
<1>8. ASSUME NEW q \in Links, NEW r \in Links, Alive(m, i, q), Alive(m, i, r)
      PROVE  /\ Precedes(w, q, r) <=> Precedes(m, q, r)
             /\ Precedes(u, q, r) <=> Precedes(m, q, r)
  <2>1. /\ v.list[q] = Active /\ v.list[r] = Active
        /\ w.list[q] = Active /\ w.list[r] = Active
    BY <1>6, <1>8 DEF Alive
  <2>2. Precedes(w, q, r) <=> Precedes(v, q, r)
    BY <1>3, <1>5, <2>1, OrderStays, TheList
  <2>3. Precedes(u, q, r) <=> Precedes(w, q, r)
    BY <1>3, <1>4, <1>5, <2>1, GainsOrder, TheList
  <2>4. QED  BY <1>7, <2>2, <2>3
<1>9. Steady(m, u, i)  BY <1>6, <1>8 DEF Steady
<1>10. LinkOf(u, i, b) = {p}
  <2>1. Entered(m, u, i, g, b)  BY InsertFacts
  <2>2. p \in LinkOf(u, i, b)  BY <1>4 DEF LinkOf
  <2>3. QED  BY <2>1, <2>2 DEF Entered
<1>11. at # Nil => /\ at \in Links /\ Alive(m, i, at)
                   /\ f[b].priority < f[m.hdr[at]].priority
  <2>1. ASSUME at # Nil
        PROVE  /\ at \in Links /\ Alive(m, i, at)
               /\ f[b].priority < f[m.hdr[at]].priority
    <3>1. at \in Later(v, b, f) /\ Live(v, i, at) /\ at \in Links /\ v.list[at] = Active
      BY <1>3, <1>5, <2>1, Searched, TheList
    <3>2. at # p  BY <1>4, <3>1, TheList
    <3>3. Same(m, v, at)  BY <1>4, <3>1, <3>2
    <3>4. Alive(m, i, at)  BY <3>1, <3>3 DEF Alive, Live, Same
    <3>5. f[b].priority < f[m.hdr[at]].priority  BY <3>1, <3>3 DEF Later, Same
    <3>6. QED  BY <3>1, <3>4, <3>5
  <2>2. QED  BY <2>1
<1>12. ASSUME NEW q \in Links, Alive(m, i, q)
       PROVE  Precedes(u, p, q) <=> at # Nil /\ (q = at \/ Precedes(m, at, q))
  <2>1. w.list[q] = Active  BY <1>6, <1>12 DEF Alive
  <2>2. Precedes(u, p, q) <=> at # Nil /\ (q = at \/ Precedes(w, at, q))
    BY <1>3, <1>4, <1>5, <2>1, GainsOrder, TheList
  <2>3. at # Nil => (Precedes(w, at, q) <=> Precedes(m, at, q))  BY <1>8, <1>11, <1>12
  <2>4. QED  BY <2>2, <2>3
<1>13. ASSUME NEW q \in Links, Alive(m, i, q), Precedes(u, p, q)
       PROVE  f[b].priority < f[m.hdr[q]].priority
  <2>1. at # Nil /\ (q = at \/ Precedes(m, at, q))  BY <1>12, <1>13
  <2>2. CASE q = at  BY <1>11, <2>1, <2>2
  <2>3. CASE Precedes(m, at, q)
    <3>1. Comes(i, f, m.hdr[at], m.hdr[q])  BY <1>11, <1>13, <2>1, <2>3 DEF Sorted
    <3>2. m.hdr[at] \in Hdrs /\ m.hdr[q] \in Hdrs  BY <1>11, <1>13, <2>1, AliveFacts
    <3>3. /\ f[m.hdr[at]].priority \in Int /\ f[m.hdr[q]].priority \in Int
          /\ f[b].priority \in Int
      BY <3>2 DEF Whole
    <3>4. f[b].priority < f[m.hdr[at]].priority  BY <1>11, <2>1
    <3>5. f[m.hdr[at]].priority <= f[m.hdr[q]].priority  BY <3>1, <3>3 DEF Comes
    <3>6. QED  BY <3>3, <3>4, <3>5
  <2>4. QED  BY <2>1, <2>2, <2>3
<1>14. ASSUME NEW q \in Links, Alive(m, i, q), Precedes(u, q, p)
       PROVE  f[m.hdr[q]].priority <= f[b].priority
  <2>1. m.hdr[q] \in Hdrs  BY <1>14, AliveFacts
  <2>2. f[m.hdr[q]].priority \in Int /\ f[b].priority \in Int  BY <2>1 DEF Whole
  <2>3. ASSUME f[b].priority < f[m.hdr[q]].priority PROVE FALSE
    <3>1. Alive(v, i, q) /\ Same(m, v, q) /\ v.list[q] = Active
      BY <1>6, <1>14 DEF Alive
    <3>2. q \in Later(v, b, f)
      <4>1. Strung(v, Active, Chain(v, Active))  BY <1>3, ChainFacts, TheList
      <4>2. q \in ToSet(Chain(v, Active))  BY <3>1, <4>1 DEF Strung
      <4>3. QED  BY <2>3, <3>1, <4>2 DEF Later, Same
    <3>3. at # Nil
      BY <1>3, <1>5, <3>1, <3>2, Searched, TheList DEF Alive
    <3>4. ~Precedes(v, q, at)
      BY <1>3, <1>5, <3>1, <3>2, <3>3, FirstOnList, TheList DEF Alive
    <3>5. q = at \/ Precedes(m, at, q)
      <4>1. m.list[at] = Active /\ m.list[q] = Active  BY <1>11, <1>14, <3>3 DEF Alive
      <4>2. q = at \/ Precedes(m, q, at) \/ Precedes(m, at, q)
        BY <1>3, <1>11, <3>3, <4>1, Orderly, TheList
      <4>3. QED  BY <1>7, <3>4, <4>2
    <3>6. Precedes(u, p, q)  BY <1>12, <1>14, <3>3, <3>5
    <3>7. u.list[q] = Active /\ u.list[p] = Active
      BY <1>4, <1>6, <1>14 DEF Alive, Same
    <3>8. QED  BY <1>3, <1>14, <3>6, <3>7, Orderly, TheList
  <2>4. QED  BY <2>2, <2>3
<1>15. QED  BY <1>9, <1>10, <1>13, <1>14 DEF Ranked

(* A list into which the youngest process came at its place is sorted.     *)
LEMMA RankSorts ==
  ASSUME NEW g \in Nat, NEW i \in [Hdrs -> 0 .. g], NEW m, Sound(m, g, Nil), NEW b \in Hdrs,
         \A c \in Hdrs \ {b} : i[c] < i[b],
         NEW f, Whole(f), Sorted(m, i, f),
         NEW u, Entered(m, u, i, g, b), Ranked(m, u, i, b, f)
  PROVE  Sorted(u, i, f)
<1>1. PICK p \in Links :
        /\ LinkOf(u, i, b) = {p}
        /\ \A q \in Links : Alive(m, i, q) =>
             /\ Precedes(u, q, p) => f[m.hdr[q]].priority <= f[b].priority
             /\ Precedes(u, p, q) => f[b].priority < f[m.hdr[q]].priority
  BY DEF Ranked
<1>2. /\ Sound(u, g, Nil) /\ Steady(m, u, i)
      /\ \A c \in Hdrs \ {b} : LinkOf(u, i, c) = LinkOf(m, i, c)
  BY DEF Entered, Ranked
<1>3. u \in Memory /\ AllStrung(u)  BY <1>2, SoundFacts
<1>4. ASSUME NEW q \in Links, Alive(u, i, q), q # p
      PROVE  Alive(m, i, q) /\ m.hdr[q] = u.hdr[q] /\ m.hdr[q] \in Hdrs \ {b}
  <2>1. u.hdr[q] \in Hdrs /\ q \in LinkOf(u, i, u.hdr[q])  BY <1>2, <1>4, AliveFacts
  <2>2. u.hdr[q] # b  BY <1>1, <1>4, <2>1
  <2>3. q \in LinkOf(m, i, u.hdr[q])  BY <1>2, <2>1, <2>2
  <2>4. QED  BY <2>1, <2>2, <2>3, AliveFacts
<1>5. p \in LinkOf(u, i, b)  BY <1>1
<1>6. u.hdr[p] = b /\ u.list[p] = Active  BY <1>5 DEF LinkOf
<1>7. SUFFICES ASSUME NEW q \in Links, NEW r \in Links, Alive(u, i, q), Alive(u, i, r),
                      Precedes(u, q, r)
               PROVE  Comes(i, f, u.hdr[q], u.hdr[r])
  BY DEF Sorted
<1>8. q # r
  <2>1. u.list[q] = Active /\ u.list[r] = Active  BY <1>7 DEF Alive
  <2>2. QED  BY <1>3, <1>7, <2>1, Orderly, TheList
<1>9. CASE q = p
  <2>1. Alive(m, i, r) /\ m.hdr[r] = u.hdr[r]  BY <1>4, <1>7, <1>8, <1>9
  <2>2. f[b].priority < f[m.hdr[r]].priority  BY <1>1, <1>7, <1>9, <2>1
  <2>3. QED  BY <1>6, <1>9, <2>1, <2>2 DEF Comes
<1>10. CASE r = p
  <2>1. Alive(m, i, q) /\ m.hdr[q] = u.hdr[q] /\ m.hdr[q] \in Hdrs \ {b}
    BY <1>4, <1>7, <1>8, <1>10
  <2>2. f[m.hdr[q]].priority <= f[b].priority  BY <1>1, <1>7, <1>10, <2>1
  <2>3. i[m.hdr[q]] < i[b]  BY <2>1
  <2>4. f[m.hdr[q]].priority \in Int /\ f[b].priority \in Int  BY <2>1 DEF Whole
  <2>5. f[m.hdr[q]].priority < f[b].priority \/ f[m.hdr[q]].priority = f[b].priority
    BY <2>2, <2>4
  <2>6. QED  BY <1>6, <1>10, <2>1, <2>3, <2>5 DEF Comes
<1>11. CASE q # p /\ r # p
  <2>1. /\ Alive(m, i, q) /\ m.hdr[q] = u.hdr[q]
        /\ Alive(m, i, r) /\ m.hdr[r] = u.hdr[r]
    BY <1>4, <1>7, <1>11
  <2>2. Precedes(m, q, r)  BY <1>2, <1>7, <2>1 DEF Steady
  <2>3. QED  BY <2>1, <2>2 DEF Sorted
<1>12. QED  BY <1>9, <1>10, <1>11

(* Links that leave and processes that die leave a list sorted.            *)
LEMMA FewerSorted ==
  ASSUME NEW g \in Nat, NEW m, NEW i, NEW f, Sorted(m, i, f),
         NEW u, Sound(u, g, Nil), InOrder(m, u),
         \A q \in Links : u.list[q] = Active => Same(m, u, q),
         NEW j, NEW h,
         \A b \in Hdrs : j[b] = 0 \/ (j[b] = i[b] /\ h[b].priority = f[b].priority)
  PROVE  Sorted(u, j, h)
<1>1. ASSUME NEW q \in Links, Alive(u, j, q)
      PROVE  /\ Alive(m, i, q) /\ m.hdr[q] = u.hdr[q] /\ u.hdr[q] \in Hdrs
             /\ j[u.hdr[q]] = i[u.hdr[q]] /\ h[u.hdr[q]].priority = f[u.hdr[q]].priority
  <2>1. u.hdr[q] \in Hdrs /\ j[u.hdr[q]] # 0  BY <1>1, AliveFacts
  <2>2. Same(m, u, q)  BY <1>1 DEF Alive
  <2>3. QED  BY <1>1, <2>1, <2>2 DEF Alive, Live, Same
<1>2. ASSUME NEW q \in Links, NEW r \in Links, Alive(u, j, q), Alive(u, j, r), Precedes(u, q, r)
      PROVE  Comes(j, h, u.hdr[q], u.hdr[r])
  <2>1. Precedes(m, q, r)  BY <1>2 DEF InOrder
  <2>2. Comes(i, f, m.hdr[q], m.hdr[r])  BY <1>1, <1>2, <2>1 DEF Sorted
  <2>3. QED  BY <1>1, <1>2, <2>2 DEF Comes
<1>3. QED  BY <1>2 DEF Sorted

LEMMA WholeProc ==
  ASSUME NEW f \in [Hdrs -> Fields]
  PROVE  Whole(f)
<1>1. ASSUME NEW b \in Hdrs PROVE f[b].priority \in Int
  <2>1. f[b] \in Fields  OBVIOUS
  <2>2. f[b].priority \in Priorities \cup {0}  BY <2>1 DEF Fields
  <2>3. \A n \in Priorities \cup {0} : n \in Int
    <3>1. Priorities \subseteq Int  BY FieldsAssumption
    <3>2. QED  BY <3>1
  <2>4. QED  BY <2>2, <2>3
<1>2. QED  BY <1>1 DEF Whole

(* No link is alive for a process that begins.                             *)
LEMMA NewSorted ==
  ASSUME IndInv, Sorted(mem, inst, proc), NEW b \in Hdrs, get_mkproc(b),
         NEW f, \A c \in Hdrs \ {b} : f[c] = proc[c]
  PROVE  /\ Sorted(mem, inst', f)
         /\ \A q \in Links : Alive(mem, inst', q) <=> Alive(mem, inst, q)
         /\ \A q \in Links : Alive(mem, inst', q) => mem.hdr[q] \in Hdrs \ {b}
<1>1. PICK m \in Memory : m = mem  BY Known
<1>2. PICK i : i = inst  OBVIOUS
<1>3. PICK j : j = inst'  OBVIOUS
<1>4. PICK g \in Nat : g = global_instance_ctr'  BY NewInstance
<1>5. /\ Sound(m, g, Nil) /\ LinkOf(m, j, b) = {}
      /\ \A c \in Hdrs \ {b} : j[c] = i[c]
      /\ \A q \in Links : m.list[q] = Active /\ Live(m, i, q) =>
                            m.hdr[q] # b /\ Live(m, j, q)
  BY <1>1, <1>2, <1>3, <1>4, NewInstance
<1>6. ASSUME NEW q \in Links, Alive(m, j, q)
      PROVE  Alive(m, i, q) /\ m.hdr[q] \in Hdrs \ {b}
  <2>1. m.hdr[q] \in Hdrs /\ q \in LinkOf(m, j, m.hdr[q])  BY <1>5, <1>6, AliveFacts
  <2>2. m.hdr[q] # b  BY <1>5, <2>1
  <2>3. j[m.hdr[q]] = i[m.hdr[q]]  BY <1>5, <2>1, <2>2
  <2>4. QED  BY <1>6, <2>1, <2>2, <2>3 DEF Alive, Live
<1>7. ASSUME NEW q \in Links, Alive(m, i, q) PROVE Alive(m, j, q)
  BY <1>5, <1>7 DEF Alive
<1>8. ASSUME NEW q \in Links, NEW r \in Links, Alive(m, j, q), Alive(m, j, r),
             Precedes(m, q, r)
      PROVE  Comes(j, f, m.hdr[q], m.hdr[r])
  <2>1. Comes(i, proc, m.hdr[q], m.hdr[r])  BY <1>1, <1>2, <1>6, <1>8 DEF Sorted
  <2>2. m.hdr[q] \in Hdrs \ {b} /\ m.hdr[r] \in Hdrs \ {b}  BY <1>6, <1>8
  <2>3. QED  BY <1>5, <2>1, <2>2 DEF Comes
<1>9. Sorted(m, j, f)  BY <1>8 DEF Sorted
<1>10. QED  BY <1>1, <1>2, <1>3, <1>6, <1>7, <1>9

(* A process that was created, or created and moved                        *)
Creating(b, n) ==
  /\ get_mkproc(b) /\ UNCHANGED pass
  /\ proc' \in [Hdrs -> Fields] /\ proc'[b].priority = n
  /\ \A c \in Hdrs \ {b} : proc'[c] = proc[c]
  /\ Entered(mem, mem', inst', global_instance_ctr', b)
  /\ Sorted(mem, inst', proc')
  /\ Ranked(mem, mem', inst', b, proc')

LEMMA FieldsOf ==
  ASSUME proc \in [Hdrs -> Fields], NEW b \in Hdrs, NEW n \in Priorities, NEW k \in Kinds,
         NEW f, f = [proc EXCEPT ![b] = NewProc(n, k)]
  PROVE  /\ f \in [Hdrs -> Fields] /\ f[b].priority = n
         /\ \A c \in Hdrs \ {b} : f[c] = proc[c]
<1>1. NewProc(n, k) \in Fields  BY Fielded
<1>2. f[b] = NewProc(n, k)  OBVIOUS
<1>3. NewProc(n, k).priority = n
  <2>1. k \in [priority : {0}, sleep_ticks : {0}, data : BOOLEAN,
               one_shot : BOOLEAN, immune : BOOLEAN, keep : BOOLEAN]
    BY FieldsAssumption
  <2>2. QED  BY <2>1 DEF NewProc
<1>4. QED  BY <1>1, <1>2, <1>3

LEMMA CreateRanks ==
  ASSUME IndInv, Sorted(mem, inst, proc), NEW b \in Hdrs, NEW n \in Priorities,
         NEW k \in Kinds, create_mkproc(b, n, k)
  PROVE  Creating(b, n)
<1>1. /\ get_mkproc(b) /\ mem.head[Free] # Nil /\ UNCHANGED pass
      /\ proc' = [proc EXCEPT ![b] = NewProc(n, k)]
      /\ mem' = insert_proc_by_priority(mem, inst', b, proc')
  BY DEF create_mkproc
<1>2. /\ global_instance_ctr' \in Nat /\ inst' \in [Hdrs -> 0 .. global_instance_ctr']
      /\ Sound(mem, global_instance_ctr', Nil)
      /\ inst'[b] # 0 /\ LinkOf(mem, inst', b) = {}
  BY <1>1, NewInstance
<1>3. Entered(mem, mem', inst', global_instance_ctr', b)  BY <1>1, <1>2, InsertFacts
<1>4. /\ proc' \in [Hdrs -> Fields] /\ proc'[b].priority = n
      /\ \A c \in Hdrs \ {b} : proc'[c] = proc[c]
  <2>1. PICK f : f = proc'  OBVIOUS
  <2>2. proc \in [Hdrs -> Fields]  BY Known
  <2>3. f = [proc EXCEPT ![b] = NewProc(n, k)]  BY <1>1, <2>1
  <2>4. f \in [Hdrs -> Fields] /\ f[b].priority = n /\ \A c \in Hdrs \ {b} : f[c] = proc[c]
    BY <2>2, <2>3, FieldsOf
  <2>5. QED  BY <2>1, <2>4
<1>5. Sorted(mem, inst', proc')  BY <1>1, <1>4, NewSorted
<1>6. Whole(proc')  BY <1>4, WholeProc
<1>7. Ranked(mem, mem', inst', b, proc')  BY <1>1, <1>2, <1>5, <1>6, InsertRanks
<1>8. QED  BY <1>1, <1>3, <1>4, <1>5, <1>7 DEF Creating

LEMMA MoveRanks ==
  ASSUME IndInv, Sorted(mem, inst, proc), NEW b \in Hdrs, NEW o \in Priorities,
         NEW n \in Priorities, NEW k \in Kinds, create_then_change_priority(b, o, n, k)
  PROVE  Creating(b, n)
<1>1. /\ get_mkproc(b) /\ mem.head[Free] # Nil /\ UNCHANGED pass
      /\ proc' = [proc EXCEPT ![b] = NewProc(n, k)]
  BY DEF create_then_change_priority
<1>2. PICK i : i = inst'  OBVIOUS
<1>3. PICK g \in Nat : g = global_instance_ctr'  BY <1>1, NewInstance
<1>4. /\ i \in [Hdrs -> 0 .. g] /\ Sound(mem, g, Nil) /\ i[b] # 0 /\ LinkOf(mem, i, b) = {}
  BY <1>1, <1>2, <1>3, NewInstance
<1>5. PICK f : f = [proc EXCEPT ![b] = NewProc(o, k)]  OBVIOUS
<1>6. PICK h : h = proc'  OBVIOUS
<1>7. /\ f \in [Hdrs -> Fields] /\ \A c \in Hdrs \ {b} : f[c] = proc[c]
      /\ h \in [Hdrs -> Fields] /\ \A c \in Hdrs \ {b} : h[c] = proc[c]
      /\ h[b].priority = n
  <2>1. proc \in [Hdrs -> Fields]  BY Known
  <2>2. f \in [Hdrs -> Fields] /\ \A c \in Hdrs \ {b} : f[c] = proc[c]
    BY <1>5, <2>1, FieldsOf
  <2>3. h = [proc EXCEPT ![b] = NewProc(n, k)]  BY <1>1, <1>6
  <2>4. /\ h \in [Hdrs -> Fields] /\ h[b].priority = n
        /\ \A c \in Hdrs \ {b} : h[c] = proc[c]
    BY <2>1, <2>3, FieldsOf
  <2>5. QED  BY <2>2, <2>4
<1>8. PICK p \in Links : \E m, d : Moving(m, d, f, b, p)  BY <1>5, MovePath
<1>9. PICK m, d : Moving(m, d, f, b, p)  BY <1>8
<1>10. PICK u : u = mem'  OBVIOUS
<1>11. /\ m = insert_proc_by_priority(mem, i, b, f) /\ LinkOf(m, i, b) = {p}
       /\ Entered(mem, m, i, g, b) /\ Withdrawn(m, d, i, g, p)
       /\ LinkOf(d, i, b) = {} /\ d.head[Free] # Nil
       /\ u = insert_proc_by_priority(d, i, b, h)
       /\ Entered(mem, u, i, g, b)
  BY <1>2, <1>3, <1>6, <1>9, <1>10 DEF Moving
<1>12. Sorted(mem, i, f) /\ Sorted(mem, i, h)  BY <1>1, <1>2, <1>7, NewSorted
<1>13. \A q \in Links : Alive(mem, i, q) => mem.hdr[q] \in Hdrs \ {b}
  BY <1>1, <1>2, <1>7, NewSorted
<1>14. Whole(f) /\ Whole(h)  BY <1>7, WholeProc
<1>15. Steady(mem, m, i)
  <2>1. Ranked(mem, m, i, b, f)  BY <1>1, <1>4, <1>11, <1>12, <1>14, InsertRanks
  <2>2. QED  BY <2>1 DEF Ranked
<1>16. /\ Sound(m, g, Nil) /\ Sound(d, g, Nil) /\ InOrder(m, d)
       /\ \A c \in Hdrs \ {b} : LinkOf(m, i, c) = LinkOf(mem, i, c)
       /\ \A q \in Links \ {p} : /\ d.list[q] = Active => Same(m, d, q)
                                 /\ Alive(m, i, q) => Same(m, d, q)
       /\ d.list[p] = Free
  BY <1>11 DEF Entered, Withdrawn, Alive
<1>17. ASSUME NEW q \in Links, Alive(mem, i, q)
       PROVE  /\ Same(mem, m, q) /\ Same(m, d, q) /\ Same(mem, d, q)
              /\ Alive(m, i, q) /\ Alive(d, i, q)
  <2>1. Same(mem, m, q)  BY <1>15, <1>17 DEF Steady
  <2>2. Alive(m, i, q)  BY <1>17, <2>1 DEF Alive, Live, Same
  <2>3. q # p
    <3>1. p \in LinkOf(m, i, b)  BY <1>11
    <3>2. m.hdr[p] = b  BY <3>1 DEF LinkOf
    <3>3. m.hdr[q] = mem.hdr[q]  BY <2>1 DEF Same
    <3>4. QED  BY <1>13, <1>17, <3>2, <3>3
  <2>4. Same(m, d, q)  BY <1>16, <2>2, <2>3
  <2>5. QED  BY <2>1, <2>2, <2>4 DEF Alive, Live, Same
<1>18. ASSUME NEW q \in Links, NEW r \in Links, Alive(mem, i, q), Alive(mem, i, r)
       PROVE  Precedes(d, q, r) <=> Precedes(mem, q, r)
  <2>1. Precedes(m, q, r) <=> Precedes(mem, q, r)  BY <1>15, <1>18 DEF Steady
  <2>2. /\ m.list[q] = Active /\ m.list[r] = Active
        /\ d.list[q] = Active /\ d.list[r] = Active
    BY <1>17, <1>18 DEF Alive
  <2>3. m \in Memory /\ AllStrung(m) /\ d \in Memory /\ AllStrung(d)
    BY <1>16, SoundFacts
  <2>4. Precedes(d, q, r) <=> Precedes(m, q, r)
    BY <1>16, <2>2, <2>3, OrderStays, TheList
  <2>5. QED  BY <2>1, <2>4
<1>19. ASSUME NEW q \in Links, Alive(d, i, q) PROVE Alive(mem, i, q)
  <2>1. q # p  BY <1>16, <1>19, TheList DEF Alive
  <2>2. Same(m, d, q)  BY <1>16, <1>19, <2>1 DEF Alive
  <2>3. Alive(m, i, q)  BY <1>19, <2>2 DEF Alive, Live, Same
  <2>4. m.hdr[q] \in Hdrs /\ q \in LinkOf(m, i, m.hdr[q])  BY <1>16, <2>3, AliveFacts
  <2>5. m.hdr[q] # b  BY <1>11, <2>1, <2>4
  <2>6. q \in LinkOf(mem, i, m.hdr[q])  BY <1>16, <2>4, <2>5
  <2>7. QED  BY <1>4, <2>4, <2>6, AliveFacts
<1>20. Sorted(d, i, h)
  <2>1. ASSUME NEW q \in Links, NEW r \in Links, Alive(d, i, q), Alive(d, i, r),
               Precedes(d, q, r)
        PROVE  Comes(i, h, d.hdr[q], d.hdr[r])
    <3>1. Alive(mem, i, q) /\ Alive(mem, i, r)  BY <1>19, <2>1
    <3>2. Precedes(mem, q, r)  BY <1>18, <2>1, <3>1
    <3>3. Comes(i, h, mem.hdr[q], mem.hdr[r])  BY <1>12, <3>1, <3>2 DEF Sorted
    <3>4. d.hdr[q] = mem.hdr[q] /\ d.hdr[r] = mem.hdr[r]  BY <1>17, <3>1 DEF Same
    <3>5. QED  BY <3>3, <3>4
  <2>2. QED  BY <2>1 DEF Sorted
<1>21. Ranked(d, u, i, b, h)  BY <1>4, <1>11, <1>14, <1>16, <1>20, InsertRanks
<1>22. Steady(mem, u, i)
  <2>1. ASSUME NEW q \in Links, NEW r \in Links, Alive(mem, i, q), Alive(mem, i, r)
        PROVE  Same(mem, u, q) /\ (Precedes(u, q, r) <=> Precedes(mem, q, r))
    <3>1. Same(mem, d, q) /\ Alive(d, i, q) /\ Alive(d, i, r)  BY <1>17, <2>1
    <3>2. Same(d, u, q) /\ (Precedes(u, q, r) <=> Precedes(d, q, r))
      BY <1>21, <3>1 DEF Ranked, Steady
    <3>3. QED  BY <1>18, <2>1, <3>1, <3>2 DEF Same
  <2>2. QED  BY <2>1 DEF Steady
<1>23. PICK x \in Links :
         /\ LinkOf(u, i, b) = {x}
         /\ \A q \in Links : Alive(d, i, q) =>
              /\ Precedes(u, q, x) => h[d.hdr[q]].priority <= h[b].priority
              /\ Precedes(u, x, q) => h[b].priority < h[d.hdr[q]].priority
  BY <1>21 DEF Ranked
<1>24. ASSUME NEW q \in Links, Alive(mem, i, q)
       PROVE  /\ Precedes(u, q, x) => h[mem.hdr[q]].priority <= h[b].priority
              /\ Precedes(u, x, q) => h[b].priority < h[mem.hdr[q]].priority
  <2>1. Alive(d, i, q) /\ d.hdr[q] = mem.hdr[q]  BY <1>17, <1>24 DEF Same
  <2>2. QED  BY <1>23, <2>1
<1>25. Ranked(mem, u, i, b, h)  BY <1>22, <1>23, <1>24 DEF Ranked
<1>26. QED  BY <1>1, <1>2, <1>3, <1>6, <1>7, <1>10, <1>11, <1>12, <1>25 DEF Creating

----------------------------------------------------------------------------
(* The list stays sorted.                                                  *)

(* The inductive invariant and the order of the list                       *)
SchedInv == IndInv /\ Sorted(mem, inst, proc)

(* A step that leaves the priorities alone                                 *)
PrioKept == \A b \in Hdrs : proc'[b].priority = proc[b].priority

(* Nothing enters the list, and whoever lives on keeps its priority.       *)
LEMMA StaySorted ==
  ASSUME SchedInv, Sound(mem', global_instance_ctr', Nil), global_instance_ctr' \in Nat,
         InOrder(mem, mem'), \A q \in Links : mem'.list[q] = Active => Same(mem, mem', q),
         \A b \in Hdrs : \/ inst'[b] = 0
                         \/ inst'[b] = inst[b] /\ proc'[b].priority = proc[b].priority
  PROVE  Sorted(mem', inst', proc')
<1>1. PICK u : u = mem'  OBVIOUS
<1>2. PICK j : j = inst'  OBVIOUS
<1>3. PICK h : h = proc'  OBVIOUS
<1>4. PICK g \in Nat : g = global_instance_ctr'  OBVIOUS
<1>5. /\ Sound(u, g, Nil) /\ InOrder(mem, u)
      /\ \A q \in Links : u.list[q] = Active => Same(mem, u, q)
      /\ \A b \in Hdrs : j[b] = 0 \/ (j[b] = inst[b] /\ h[b].priority = proc[b].priority)
  BY <1>1, <1>2, <1>3, <1>4
<1>6. Sorted(mem, inst, proc)  BY DEF SchedInv
<1>7. Sorted(u, j, h)  BY <1>5, <1>6, FewerSorted
<1>8. QED  BY <1>1, <1>2, <1>3, <1>7

LEMMA StandSorted ==
  ASSUME SchedInv, mem' = mem, global_instance_ctr' = global_instance_ctr,
         \A b \in Hdrs : \/ inst'[b] = 0
                         \/ inst'[b] = inst[b] /\ proc'[b].priority = proc[b].priority
  PROVE  Sorted(mem', inst', proc')
<1>1. IndInv  BY DEF SchedInv
<1>2. Sound(mem', global_instance_ctr', Nil) /\ global_instance_ctr' \in Nat  BY <1>1, Known
<1>3. InOrder(mem, mem')  BY DEF InOrder
<1>4. \A q \in Links : mem'.list[q] = Active => Same(mem, mem', q)  BY DEF Same
<1>5. QED  BY <1>2, <1>3, <1>4, StaySorted

LEMMA TicksOnly ==
  ASSUME IndInv, NEW b \in Hdrs, NEW t, proc' = [proc EXCEPT ![b].sleep_ticks = t]
  PROVE  PrioKept
<1>1. proc \in [Hdrs -> Fields]  BY Known
<1>2. ASSUME NEW c \in Hdrs PROVE proc'[c].priority = proc[c].priority
  <2>1. proc[c] \in Fields  BY <1>1
  <2>2. CASE c = b
    <3>1. proc'[c] = [proc[c] EXCEPT !.sleep_ticks = t]  BY <1>1, <2>2
    <3>2. QED  BY <2>1, <3>1 DEF Fields
  <2>3. CASE c # b  BY <1>1, <2>3
  <2>4. QED  BY <2>2, <2>3
<1>3. QED  BY <1>2 DEF PrioKept

LEMMA DataOnly ==
  ASSUME IndInv, NEW b \in Hdrs, proc' = [proc EXCEPT ![b].data = FALSE]
  PROVE  PrioKept
<1>1. proc \in [Hdrs -> Fields]  BY Known
<1>2. ASSUME NEW c \in Hdrs PROVE proc'[c].priority = proc[c].priority
  <2>1. proc[c] \in Fields  BY <1>1
  <2>2. CASE c = b
    <3>1. proc'[c] = [proc[c] EXCEPT !.data = FALSE]  BY <1>1, <2>2
    <3>2. QED  BY <2>1, <3>1 DEF Fields
  <2>3. CASE c # b  BY <1>1, <2>3
  <2>4. QED  BY <2>2, <2>3
<1>3. QED  BY <1>2 DEF PrioKept

(* What dies has no priority any more.                                     *)
LEMMA BuriedPrio ==
  ASSUME IndInv, NEW K \in SUBSET Hdrs, proc' = Buried(K)
  PROVE  \A b \in Hdrs : proc'[b].priority = IF b \in K THEN 0 ELSE proc[b].priority
<1>1. NoProc.priority = 0  BY DEF NoProc
<1>2. QED  BY <1>1 DEF Buried

LEMMA InitSorted == Init => SchedInv
<1>1. SUFFICES ASSUME Init PROVE SchedInv  OBVIOUS
<1>2. IndInv  BY <1>1, InitKept
<1>3. mem = Pool(SetToSeq(Links))  BY <1>1 DEF Init
<1>4. PICK s : s = SetToSeq(Links)  OBVIOUS
<1>5. s \in Seq(Links) /\ IsInjective(s) /\ ToSet(s) = Links  BY <1>4, Ordered
<1>6. PICK m : m = Pool(s)  OBVIOUS
<1>7. \A q \in Links : Freed(m, q)  BY <1>5, <1>6, PoolFacts
<1>8. \A q \in Links : mem.list[q] # Active  BY <1>3, <1>4, <1>6, <1>7, TheList DEF Freed
<1>9. Sorted(mem, inst, proc)  BY <1>8 DEF Sorted, Alive
<1>10. QED  BY <1>2, <1>9 DEF SchedInv

(* A walk or a search of the list, whoever dies of it                      *)
LEMMA WalkTidies ==
  ASSUME IndInv, NEW W, NEW u, u = AfterSearch(mem, inst, Chain(mem, Active), W)
  PROVE  /\ Sound(u, global_instance_ctr, Nil) /\ InOrder(mem, u)
         /\ \A q \in Links : u.list[q] = Active => Same(mem, u, q)
         /\ \A q \in Links : Alive(mem, inst, q) => Same(mem, u, q)
<1>1. PICK m \in Memory : m = mem  BY Known
<1>2. PICK i : i = inst  OBVIOUS
<1>3. AllStrung(m)  BY <1>1, Known
<1>4. PICK c : c = Chain(m, Active)  OBVIOUS
<1>5. PICK p : p = FirstWanted(m, i, c, W)  OBVIOUS
<1>6. u = AfterSearch(m, i, c, W)  BY <1>1, <1>2, <1>4
<1>7. Tidied(m, u, Stale(m, i))  BY <1>3, <1>4, <1>5, <1>6, Searched, TheList
<1>8. PICK g \in Nat : g = global_instance_ctr  BY Known
<1>9. Sound(m, g, Nil)  BY <1>1, <1>8, Known
<1>10. Sound(u, g, Nil) /\ Trimmed(m, u, i, Nil)  BY <1>7, <1>9, TidyFacts
<1>11. InOrder(m, u)  BY <1>7 DEF Tidied
<1>12. /\ \A q \in Links : u.list[q] = Active => Same(m, u, q)
       /\ \A q \in Links : Alive(m, i, q) => Same(m, u, q)
  BY <1>10, Distinct DEF Trimmed, Alive
<1>13. QED  BY <1>1, <1>2, <1>8, <1>10, <1>11, <1>12

LEMMA StaleTidies ==
  ASSUME IndInv, StaleLink
  PROVE  /\ Sound(mem', global_instance_ctr, Nil) /\ InOrder(mem, mem')
         /\ \A q \in Links : mem'.list[q] = Active => q # link
         /\ \A q \in Links : q # link => Same(mem, mem', q)
<1>1. link # Nil /\ mem' = Discard(mem, link)  BY DEF StaleLink
<1>2. PICK m \in Memory : m = mem  BY Known
<1>3. AllStrung(m) /\ link \in Links /\ m.list[link] = Active  BY <1>1, <1>2, Known
<1>4. PICK p \in Links : p = link  BY <1>3
<1>5. PICK u : u = mem'  OBVIOUS
<1>6. u = Discard(m, p) /\ m.list[p] \in Lists \cup {Nil}
  BY <1>1, <1>2, <1>3, <1>4, <1>5, TheList
<1>7. Discarded(m, u, p) /\ InOrder(m, u)  BY <1>3, <1>6, DiscardFacts, DiscardInOrder
<1>8. u.list[p] = Free /\ \A q \in Links \ {p} : Same(m, u, q)
  BY <1>7 DEF Discarded, Freed
<1>9. Sound(mem', global_instance_ctr, Nil)
  <2>1. IndInv'  BY StaleKept
  <2>2. global_instance_ctr' = global_instance_ctr  BY DEF StaleLink, procs
  <2>3. QED  BY <2>1, <2>2 DEF IndInv, LinksKept
<1>10. QED  BY <1>2, <1>4, <1>5, <1>7, <1>8, <1>9, TheList

(* A new instance is greater than all others.                              *)
LEMMA Youngest ==
  ASSUME IndInv, NEW b \in Hdrs, get_mkproc(b)
  PROVE  /\ inst[b] = 0 /\ inst' = [inst EXCEPT ![b] = inst'[b]]
         /\ \A c \in Hdrs : inst[c] < inst'[b]
<1>1. PICK g \in Nat : g = global_instance_ctr  BY Known
<1>2. inst \in [Hdrs -> 0 .. g]  BY <1>1, Known
<1>3. inst[b] = 0 /\ inst' = [inst EXCEPT ![b] = g + 1]  BY <1>1 DEF get_mkproc
<1>4. inst'[b] = g + 1  BY <1>2, <1>3
<1>5. \A c \in Hdrs : inst[c] < g + 1  BY <1>2
<1>6. QED  BY <1>3, <1>4, <1>5

LEMMA CreatingSorted ==
  ASSUME IndInv, NEW b \in Hdrs, NEW n \in Priorities, Creating(b, n)
  PROVE  Sorted(mem', inst', proc')
<1>1. PICK u : u = mem'  OBVIOUS
<1>2. PICK j : j = inst'  OBVIOUS
<1>3. PICK h : h = proc'  OBVIOUS
<1>4. get_mkproc(b)  BY DEF Creating
<1>5. PICK g \in Nat : g = global_instance_ctr'  BY <1>4, NewInstance
<1>6. j \in [Hdrs -> 0 .. g] /\ Sound(mem, g, Nil)  BY <1>2, <1>4, <1>5, NewInstance
<1>7. \A c \in Hdrs \ {b} : j[c] < j[b]  BY <1>2, <1>4, NewInstance, Youngest
<1>8. h \in [Hdrs -> Fields]  BY <1>3 DEF Creating
<1>9. Whole(h)  BY <1>8, WholeProc
<1>10. Sorted(mem, j, h) /\ Entered(mem, u, j, g, b) /\ Ranked(mem, u, j, b, h)
  BY <1>1, <1>2, <1>3, <1>5 DEF Creating
<1>11. Sorted(u, j, h)  BY <1>6, <1>7, <1>9, <1>10, RankSorts
<1>12. QED  BY <1>1, <1>2, <1>3, <1>11

(* After gamelogic_jump there is one process.                              *)
LEMMA JumpSorted ==
  ASSUME IndInv, NEW b \in Hdrs, NEW n \in Priorities, NEW k \in Kinds,
         gamelogic_jump(b, n, k)
  PROVE  Sorted(mem', inst', proc')
<1>1. IndInv'  BY JumpKept
<1>2. PICK u : u = mem'  OBVIOUS
<1>3. PICK j : j = inst'  OBVIOUS
<1>4. PICK g \in Nat : g = global_instance_ctr'  BY <1>1 DEF IndInv, CountsKept
<1>5. Sound(u, g, Nil) /\ \A c \in Hdrs : Once(u, j, c)
  BY <1>1, <1>2, <1>3, <1>4 DEF IndInv, LinksKept
<1>6. \A c \in Hdrs : c # b => j[c] = 0  BY <1>3 DEF gamelogic_jump
<1>7. ASSUME NEW q \in Links, NEW r \in Links, Alive(u, j, q), Alive(u, j, r)
      PROVE  ~Precedes(u, q, r)
  <2>1. /\ u.hdr[q] = b /\ q \in LinkOf(u, j, b) /\ j[b] # 0
        /\ u.hdr[r] = b /\ r \in LinkOf(u, j, b)
    BY <1>5, <1>6, <1>7, AliveFacts
  <2>2. q = r  BY <1>5, <2>1 DEF Once
  <2>3. u \in Memory /\ AllStrung(u)  BY <1>5, SoundFacts
  <2>4. u.list[q] = Active  BY <1>7 DEF Alive
  <2>5. Precedes(u, q, q) => q # q  BY <2>3, <2>4, Orderly, TheList
  <2>6. QED  BY <2>2, <2>5
<1>8. Sorted(u, j, proc')  BY <1>7 DEF Sorted
<1>9. QED  BY <1>2, <1>3, <1>8

LEMMA DispatchSorted == ASSUME SchedInv, Dispatch PROVE Sorted(mem', inst', proc')
<1>1. IndInv  BY DEF SchedInv
<1>2. CASE StartPass
  <2>1. /\ mem' = mem /\ inst' = inst /\ proc' = proc
        /\ global_instance_ctr' = global_instance_ctr
    BY <1>2 DEF StartPass, procs
  <2>2. QED  BY <2>1, StandSorted
<1>3. CASE EndPass
  <2>1. /\ mem' = mem /\ inst' = inst /\ proc' = proc
        /\ global_instance_ctr' = global_instance_ctr
    BY <1>3 DEF EndPass, procs
  <2>2. QED  BY <2>1, StandSorted
<1>4. CASE StaleLink
  <2>1. inst' = inst /\ proc' = proc /\ global_instance_ctr' = global_instance_ctr
    BY <1>4 DEF StaleLink, procs
  <2>2. /\ Sound(mem', global_instance_ctr, Nil) /\ InOrder(mem, mem')
        /\ \A q \in Links : mem'.list[q] = Active => Same(mem, mem', q)
    BY <1>1, <1>4, StaleTidies
  <2>3. global_instance_ctr \in Nat  BY <1>1, Known
  <2>4. QED  BY <2>1, <2>2, <2>3, StaySorted
<1>5. CASE Pass
  <2>1. /\ mem' = mem /\ inst' = inst /\ global_instance_ctr' = global_instance_ctr
        /\ link # Nil
        /\ \/ proc' = proc
           \/ proc' = [proc EXCEPT ![aproc].sleep_ticks = proc[aproc].sleep_ticks - 1]
    BY <1>5 DEF Pass, AtLive
  <2>2. PICK b \in Hdrs : b = aproc  BY <1>1, <2>1, Known DEF aproc
  <2>3. PrioKept
    <3>1. CASE proc' = proc  BY <3>1 DEF PrioKept
    <3>2. CASE proc' = [proc EXCEPT ![aproc].sleep_ticks = proc[aproc].sleep_ticks - 1]
      <4>1. PICK t : t = proc[b].sleep_ticks - 1  OBVIOUS
      <4>2. proc' = [proc EXCEPT ![b].sleep_ticks = t]  BY <2>2, <3>2, <4>1
      <4>3. QED  BY <1>1, <4>2, TicksOnly
    <3>3. QED  BY <2>1, <3>1, <3>2
  <2>4. QED  BY <2>1, <2>3, StandSorted DEF PrioKept
<1>6. CASE Lapse
  <2>1. /\ mem' = mem /\ global_instance_ctr' = global_instance_ctr /\ link # Nil
        /\ \/ inst' = inst /\ proc' = proc
           \/ inst' = [inst EXCEPT ![aproc] = 0] /\ proc' = Buried({aproc})
    BY <1>6 DEF Lapse, Due, AtLive
  <2>2. PICK b \in Hdrs : b = aproc  BY <1>1, <2>1, Known DEF aproc
  <2>3. inst \in [Hdrs -> 0 .. global_instance_ctr]  BY <1>1, Known
  <2>4. CASE inst' = inst /\ proc' = proc  BY <2>1, <2>4, StandSorted
  <2>5. CASE inst' = [inst EXCEPT ![aproc] = 0] /\ proc' = Buried({aproc})
    <3>1. \A c \in Hdrs : proc'[c].priority = IF c \in {b} THEN 0 ELSE proc[c].priority
      BY <1>1, <2>2, <2>5, BuriedPrio
    <3>2. \A c \in Hdrs : inst'[c] = IF c = b THEN 0 ELSE inst[c]  BY <2>2, <2>3, <2>5
    <3>3. QED  BY <2>1, <3>1, <3>2, StandSorted
  <2>6. QED  BY <2>1, <2>4, <2>5
<1>7. CASE Run
  <2>1. /\ mem' = mem /\ inst' = inst /\ proc' = proc
        /\ global_instance_ctr' = global_instance_ctr
    BY <1>7 DEF Run, procs
  <2>2. QED  BY <2>1, StandSorted
<1>8. QED  BY <1>2, <1>3, <1>4, <1>5, <1>6, <1>7 DEF Dispatch

LEMMA FinishSorted == ASSUME SchedInv, Finish PROVE Sorted(mem', inst', proc')
<1>1. IndInv  BY DEF SchedInv
<1>2. ASSUME NEW t \in 0 .. MaxSleep, Sleep(t) PROVE Sorted(mem', inst', proc')
  <2>1. /\ mem' = mem /\ inst' = inst /\ global_instance_ctr' = global_instance_ctr
        /\ proc' = [proc EXCEPT ![aproc].sleep_ticks = t] /\ state = "run"
    BY <1>2 DEF Sleep
  <2>2. link # Nil  BY <1>1, <2>1 DEF IndInv, CursorKept
  <2>3. aproc \in Hdrs  BY <1>1, <2>2, Known DEF aproc
  <2>4. PrioKept  BY <1>1, <2>1, <2>3, TicksOnly
  <2>5. QED  BY <2>1, <2>4, StandSorted DEF PrioKept
<1>3. CASE Die
  <2>1. /\ mem' = mem /\ global_instance_ctr' = global_instance_ctr /\ state = "run"
        /\ inst' = [inst EXCEPT ![aproc] = 0] /\ proc' = Buried({aproc})
    BY <1>3 DEF Die
  <2>2. link # Nil  BY <1>1, <2>1 DEF IndInv, CursorKept
  <2>3. PICK b \in Hdrs : b = aproc  BY <1>1, <2>2, Known DEF aproc
  <2>4. inst \in [Hdrs -> 0 .. global_instance_ctr]  BY <1>1, Known
  <2>5. \A c \in Hdrs : proc'[c].priority = IF c \in {b} THEN 0 ELSE proc[c].priority
    BY <1>1, <2>1, <2>3, BuriedPrio
  <2>6. \A c \in Hdrs : inst'[c] = IF c = b THEN 0 ELSE inst[c]  BY <2>1, <2>3, <2>4
  <2>7. QED  BY <2>1, <2>5, <2>6, StandSorted
<1>4. QED  BY <1>1, <1>2, <1>3, JumpSorted DEF Finish

LEMMA OperationSorted == ASSUME SchedInv, Operation PROVE Sorted(mem', inst', proc')
<1>1. IndInv /\ Sorted(mem, inst, proc)  BY DEF SchedInv
<1>2. global_instance_ctr \in Nat  BY <1>1, Known
<1>3. ASSUME NEW b \in Hdrs, find_mkproc_pid(b) PROVE Sorted(mem', inst', proc')
  <2>1. inst' = inst /\ proc' = proc /\ global_instance_ctr' = global_instance_ctr
    BY <1>3 DEF find_mkproc_pid, procs
  <2>2. \E W : mem' = AfterSearch(mem, inst, Chain(mem, Active), W)
    BY <1>3 DEF find_mkproc_pid, AfterFind, AfterWalk
  <2>3. /\ Sound(mem', global_instance_ctr, Nil) /\ InOrder(mem, mem')
        /\ \A q \in Links : mem'.list[q] = Active => Same(mem, mem', q)
    BY <1>1, <2>2, WalkTidies
  <2>4. QED  BY <1>2, <2>1, <2>3, StaySorted
<1>4. ASSUME NEW b \in Hdrs, DestroyData(b) PROVE Sorted(mem', inst', proc')
  <2>1. /\ mem' = mem /\ inst' = inst /\ global_instance_ctr' = global_instance_ctr
        /\ proc' = [proc EXCEPT ![b].data = FALSE]
    BY <1>4 DEF DestroyData
  <2>2. PrioKept  BY <1>1, <2>1, DataOnly
  <2>3. QED  BY <2>1, <2>2, StandSorted DEF PrioKept
<1>5. ASSUME NEW b \in Hdrs, NEW n \in Priorities, NEW k \in Kinds, create_mkproc(b, n, k)
      PROVE  Sorted(mem', inst', proc')
  <2>1. Creating(b, n)  BY <1>1, <1>5, CreateRanks
  <2>2. QED  BY <1>1, <2>1, CreatingSorted
<1>6. ASSUME NEW b \in Hdrs, NEW n \in Priorities, NEW k \in Kinds, NEW o \in Priorities,
             create_then_change_priority(b, o, n, k)
      PROVE  Sorted(mem', inst', proc')
  <2>1. Creating(b, n)  BY <1>1, <1>6, MoveRanks
  <2>2. QED  BY <1>1, <2>1, CreatingSorted
<1>7. ASSUME NEW K \in SUBSET Hdrs, destroy_mkprocs_pid(K)
      PROVE  Sorted(mem', inst', proc')
  <2>1. PICK D \in SUBSET Hdrs : D = {b \in K : Destroyable(b)}  OBVIOUS
  <2>2. /\ inst' = [b \in Hdrs |-> IF b \in K /\ Destroyable(b) THEN 0 ELSE inst[b]]
        /\ proc' = Buried(D) /\ mem' = AfterSearch(mem, inst, Chain(mem, Active), {})
        /\ global_instance_ctr' = global_instance_ctr
    BY <1>7, <2>1 DEF destroy_mkprocs_pid, AfterWalk
  <2>3. \A b \in Hdrs : proc'[b].priority = IF b \in D THEN 0 ELSE proc[b].priority
    BY <1>1, <2>2, BuriedPrio
  <2>4. \A b \in Hdrs : inst'[b] = IF b \in D THEN 0 ELSE inst[b]  BY <2>1, <2>2
  <2>5. /\ Sound(mem', global_instance_ctr, Nil) /\ InOrder(mem, mem')
        /\ \A q \in Links : mem'.list[q] = Active => Same(mem, mem', q)
    BY <1>1, <2>2, WalkTidies
  <2>6. QED  BY <1>2, <2>2, <2>3, <2>4, <2>5, StaySorted
<1>8. QED  BY <1>3, <1>4, <1>5, <1>6, <1>7 DEF Operation

LEMMA SchedKept == SchedInv /\ [Next]_vars => SchedInv'
<1>1. SUFFICES ASSUME SchedInv, [Next]_vars PROVE SchedInv'  OBVIOUS
<1>2. IndInv'  BY <1>1, StepKept DEF SchedInv
<1>3. CASE UNCHANGED vars
  <2>1. /\ mem' = mem /\ inst' = inst /\ proc' = proc
        /\ global_instance_ctr' = global_instance_ctr
    BY <1>3 DEF vars
  <2>2. Sorted(mem', inst', proc')  BY <1>1, <2>1, StandSorted
  <2>3. QED  BY <1>2, <2>2 DEF SchedInv
<1>4. CASE Next
  <2>1. Sorted(mem', inst', proc')
    BY <1>1, <1>4, DispatchSorted, FinishSorted, OperationSorted DEF Next
  <2>2. QED  BY <1>2, <2>1 DEF SchedInv
<1>5. QED  BY <1>1, <1>3, <1>4

(* The list is sorted at all times: processes by priority, and equals in   *)
(* the order of their creation.                                            *)
THEOREM ListStaysSorted == Spec => []SchedInv
<1>1. Init => SchedInv  BY InitSorted
<1>2. SchedInv /\ [Next]_vars => SchedInv'  BY SchedKept
<1>3. QED  BY <1>1, <1>2, PTL DEF Spec

----------------------------------------------------------------------------
(* The processes that the pass has still to come to                        *)

AllAlive(m, i) == {q \in Links : Alive(m, i, q)}

Following(m, i, p) == {m.hdr[q] : q \in {r \in Links : Alive(m, i, r) /\ Precedes(m, p, r)}}

TodoIn(m, i, x) == {m.hdr[q] : q \in {r \in ToSet(From(m, x)) : Live(m, i, r)}}

LEMMA TodoNone ==
  ASSUME NEW m \in Memory, AllStrung(m), NEW i
  PROVE  TodoIn(m, i, Nil) = {}
<1>1. PICK s \in Seq(Links) : Strung(m, Active, s)  BY TheList DEF AllStrung
<1>2. From(m, Nil) = <<>>  BY <1>1, FromOnward, TheList
<1>3. ToSet(From(m, Nil)) = {}  BY <1>2, ElemsEmpty
<1>4. QED  BY <1>3 DEF TodoIn

LEMMA TodoFacts ==
  ASSUME NEW m \in Memory, AllStrung(m), NEW i, NEW p \in Links, m.list[p] = Active
  PROVE  /\ TodoIn(m, i, p) = {m.hdr[q] : q \in {r \in Links : /\ Alive(m, i, r)
                                                               /\ r = p \/ Precedes(m, p, r)}}
         /\ TodoIn(m, i, m.next[p]) = Following(m, i, p)
<1>1. /\ ToSet(From(m, p)) = {q \in Links : q = p \/ Precedes(m, p, q)}
      /\ ToSet(From(m, m.next[p])) = {q \in Links : Precedes(m, p, q)}
  BY FromIs, TheList
<1>2. \A q \in Links : q = p \/ Precedes(m, p, q) => m.list[q] = Active  BY PrecedesOn
<1>3. {r \in ToSet(From(m, p)) : Live(m, i, r)}
        = {r \in Links : Alive(m, i, r) /\ (r = p \/ Precedes(m, p, r))}
  BY <1>1, <1>2 DEF Alive
<1>4. {r \in ToSet(From(m, m.next[p])) : Live(m, i, r)}
        = {r \in Links : Alive(m, i, r) /\ Precedes(m, p, r)}
  BY <1>1, <1>2 DEF Alive
<1>5. QED  BY <1>3, <1>4 DEF TodoIn, Following

(* The links that are alive are those of the living.                       *)
LEMMA LivingIs ==
  ASSUME NEW g \in Nat, NEW m, Sound(m, g, Nil), NEW i, \A b \in Hdrs : Once(m, i, b)
  PROVE  /\ \A q \in AllAlive(m, i) : m.hdr[q] \in Hdrs /\ i[m.hdr[q]] # 0
         /\ \A b \in Hdrs : i[b] # 0 => \E q \in AllAlive(m, i) : m.hdr[q] = b
         /\ \A q, r \in AllAlive(m, i) : m.hdr[q] = m.hdr[r] => q = r
<1>1. \A q \in AllAlive(m, i) : m.hdr[q] \in Hdrs /\ i[m.hdr[q]] # 0
  BY AliveFacts DEF AllAlive
<1>2. ASSUME NEW b \in Hdrs, i[b] # 0 PROVE \E q \in AllAlive(m, i) : m.hdr[q] = b
  <2>1. PICK q \in Links : LinkOf(m, i, b) = {q}  BY <1>2 DEF Once
  <2>2. q \in LinkOf(m, i, b)  BY <2>1
  <2>3. Alive(m, i, q) /\ m.hdr[q] = b  BY <2>2, AliveFacts
  <2>4. QED  BY <2>3 DEF AllAlive
<1>3. ASSUME NEW q \in AllAlive(m, i), NEW r \in AllAlive(m, i), m.hdr[q] = m.hdr[r]
      PROVE  q = r
  <2>1. q \in Links /\ Alive(m, i, q) /\ r \in Links /\ Alive(m, i, r)  BY DEF AllAlive
  <2>2. PICK b \in Hdrs : b = m.hdr[q] /\ i[b] # 0  BY <1>1
  <2>3. q \in LinkOf(m, i, b) /\ r \in LinkOf(m, i, b)  BY <1>3, <2>1, <2>2, AliveFacts
  <2>4. QED  BY <2>2, <2>3 DEF Once
<1>4. QED  BY <1>1, <1>2, <1>3

(* What the dead leave behind                                              *)
LEMMA FollowingBuried ==
  ASSUME NEW g \in Nat, NEW m, Sound(m, g, Nil), NEW i, NEW K, NEW j,
         \A b \in Hdrs : j[b] = IF b \in K THEN 0 ELSE i[b], NEW p
  PROVE  Following(m, j, p) = Following(m, i, p) \ K
<1>1. ASSUME NEW q \in Links
      PROVE  Alive(m, j, q) <=> Alive(m, i, q) /\ m.hdr[q] \notin K
  <2>1. Alive(m, j, q) => m.hdr[q] \in Hdrs /\ j[m.hdr[q]] # 0  BY AliveFacts
  <2>2. Alive(m, i, q) => m.hdr[q] \in Hdrs  BY AliveFacts
  <2>3. CASE m.hdr[q] \in Hdrs /\ m.hdr[q] \notin K
    <3>1. j[m.hdr[q]] = i[m.hdr[q]]  BY <2>3
    <3>2. QED  BY <2>3, <3>1 DEF Alive, Live
  <2>4. CASE ~(m.hdr[q] \in Hdrs /\ m.hdr[q] \notin K)  BY <2>1, <2>2, <2>4
  <2>5. QED  BY <2>3, <2>4
<1>2. QED  BY <1>1 DEF Following

(* The same, when no link that is alive changed its place                  *)
LEMMA FollowingStays ==
  ASSUME NEW m, NEW u, NEW i, Steady(m, u, i),
         \A q \in Links : Alive(u, i, q) => Alive(m, i, q),
         NEW p \in Links, Alive(m, i, p)
  PROVE  Following(u, i, p) = Following(m, i, p)
<1>1. ASSUME NEW q \in Links
      PROVE  Alive(u, i, q) /\ Precedes(u, p, q) <=> Alive(m, i, q) /\ Precedes(m, p, q)
  <2>1. Alive(m, i, q) => Alive(u, i, q)  BY DEF Steady, Same, Alive, Live
  <2>2. Alive(m, i, q) => (Precedes(u, p, q) <=> Precedes(m, p, q))  BY DEF Steady
  <2>3. QED  BY <2>1, <2>2
<1>2. ASSUME NEW q \in Links, Alive(m, i, q) PROVE u.hdr[q] = m.hdr[q]
  BY <1>2 DEF Steady, Same
<1>3. QED  BY <1>1, <1>2 DEF Following

----------------------------------------------------------------------------
(* The steps of the schedule                                               *)

LEMMA TodoView ==
  /\ Todo = TodoIn(mem, inst, IF state = "run" THEN mem.next[link] ELSE link)
  /\ Todo' = TodoIn(mem', inst', IF state' = "run" THEN mem'.next[link'] ELSE link')
BY DEF Todo, Ahead, TodoIn

(* A process that is alive does not follow itself.                         *)
LEMMA TodoAlive ==
  ASSUME NEW g \in Nat, NEW m, Sound(m, g, Nil), NEW i, \A b \in Hdrs : Once(m, i, b),
         NEW p \in Links, Alive(m, i, p)
  PROVE  /\ m.hdr[p] \in Hdrs /\ i[m.hdr[p]] # 0
         /\ m.hdr[p] \notin Following(m, i, p)
         /\ TodoIn(m, i, p) = Following(m, i, p) \cup {m.hdr[p]}
<1>1. m \in Memory /\ AllStrung(m)  BY SoundFacts
<1>2. m.list[p] = Active /\ p \in AllAlive(m, i)  BY DEF Alive, AllAlive
<1>3. m.hdr[p] \in Hdrs /\ i[m.hdr[p]] # 0  BY <1>2, LivingIs
<1>4. ASSUME NEW q \in Links, Alive(m, i, q), Precedes(m, p, q) PROVE m.hdr[q] # m.hdr[p]
  <2>1. q \in AllAlive(m, i) /\ m.list[q] = Active  BY <1>4 DEF AllAlive, Alive
  <2>2. p # q  BY <1>1, <1>2, <1>4, <2>1, Orderly, TheList
  <2>3. QED  BY <1>2, <2>1, <2>2, LivingIs
<1>5. m.hdr[p] \notin Following(m, i, p)  BY <1>4 DEF Following
<1>6. TodoIn(m, i, p) = {m.hdr[q] : q \in {r \in Links : /\ Alive(m, i, r)
                                                         /\ r = p \/ Precedes(m, p, r)}}
  BY <1>1, <1>2, TodoFacts
<1>7. TodoIn(m, i, p) = Following(m, i, p) \cup {m.hdr[p]}  BY <1>6 DEF Following
<1>8. QED  BY <1>3, <1>5, <1>7

(* What the invariant says of a process that runs                          *)
LEMMA Running ==
  ASSUME IndInv, state = "run"
  PROVE  /\ link \in Links /\ link # Nil /\ Alive(mem, inst, link) /\ mem.list[link] = Active
         /\ aproc = mem.hdr[link] /\ aproc \in Hdrs /\ inst[aproc] # 0
         /\ aproc_nodestroy = aproc /\ Serving = aproc
         /\ Todo = Following(mem, inst, link) /\ aproc \notin Todo
<1>1. /\ link # Nil /\ Live(mem, inst, link) /\ aproc_nodestroy = mem.hdr[link]
  BY DEF IndInv, CursorKept
<1>2. link \in Links /\ mem.list[link] = Active /\ mem \in Memory /\ AllStrung(mem)
  BY <1>1, Known
<1>3. Alive(mem, inst, link)  BY <1>1, <1>2 DEF Alive
<1>4. aproc = mem.hdr[link] /\ Serving = aproc  BY DEF aproc, Serving
<1>5. Todo = Following(mem, inst, link)
  <2>1. Todo = TodoIn(mem, inst, mem.next[link])  BY TodoView
  <2>2. QED  BY <1>2, <2>1, TodoFacts
<1>6. PICK g \in Nat : g = global_instance_ctr  BY Known
<1>7. Sound(mem, g, Nil) /\ \A b \in Hdrs : Once(mem, inst, b)  BY <1>6, Known
<1>8. /\ mem.hdr[link] \in Hdrs /\ inst[mem.hdr[link]] # 0
      /\ mem.hdr[link] \notin Following(mem, inst, link)
  BY <1>2, <1>3, <1>7, TodoAlive
<1>9. QED  BY <1>1, <1>2, <1>3, <1>4, <1>5, <1>8

LEMMA Resting ==
  ASSUME IndInv, state = "idle"
  PROVE  link = Nil /\ Todo = {} /\ Serving = Nil
<1>1. link = Nil  BY DEF IndInv, CursorKept
<1>2. mem \in Memory /\ AllStrung(mem)  BY Known
<1>3. Todo = TodoIn(mem, inst, Nil)  BY <1>1, TodoView
<1>4. QED  BY <1>1, <1>2, <1>3, TodoNone DEF Serving

(* The pass begins with the first link.                                    *)
LEMMA StartStep == ASSUME SchedInv, StartPass PROVE PS!StartPass
<1>1. /\ state = "idle" /\ link' = mem.head[Active] /\ state' = "walk"
      /\ mem' = mem /\ inst' = inst /\ proc' = proc
  BY DEF StartPass, procs
<1>2. Serving = Nil /\ Serving' = Nil  BY <1>1 DEF Serving
<1>3. Prio' = Prio  BY <1>1 DEF Prio
<1>4. IndInv  BY DEF SchedInv
<1>5. PICK m \in Memory : m = mem  BY <1>4, Known
<1>6. PICK i : i = inst  OBVIOUS
<1>7. PICK x : x = mem.head[Active]  OBVIOUS
<1>8. PICK g \in Nat : g = global_instance_ctr  BY <1>4, Known
<1>9. AllStrung(m) /\ Sound(m, g, Nil) /\ \A b \in Hdrs : Once(m, i, b)
  BY <1>4, <1>5, <1>6, <1>8, Known
<1>10. Todo' = TodoIn(m, i, x)  BY <1>1, <1>5, <1>6, <1>7, TodoView
<1>11. /\ x # Nil => x \in Links /\ m.list[x] = Active
       /\ \A q \in Links : m.list[q] = Active => x # Nil /\ (q = x \/ Precedes(m, x, q))
  BY <1>5, <1>7, <1>9, HeadFirst, TheList
<1>12. PICK S : S = AllAlive(m, i)  OBVIOUS
<1>13. /\ \A q \in S : m.hdr[q] \in Hdrs /\ i[m.hdr[q]] # 0
       /\ \A b \in Hdrs : i[b] # 0 => \E q \in S : m.hdr[q] = b
  BY <1>9, <1>12, LivingIs
<1>14. {b \in Hdrs : i[b] # 0} = {m.hdr[q] : q \in S}  BY <1>13
<1>15. TodoIn(m, i, x) = {m.hdr[q] : q \in S}
  <2>1. CASE x = Nil
    <3>1. S = {}  BY <1>11, <1>12, <2>1 DEF AllAlive, Alive
    <3>2. TodoIn(m, i, x) = {}  BY <1>9, <2>1, TodoNone
    <3>3. QED  BY <3>1, <3>2
  <2>2. CASE x # Nil
    <3>1. TodoIn(m, i, x) = {m.hdr[q] : q \in {r \in Links : /\ Alive(m, i, r)
                                                             /\ r = x \/ Precedes(m, x, r)}}
      BY <1>9, <1>11, <2>2, TodoFacts
    <3>2. {r \in Links : Alive(m, i, r) /\ (r = x \/ Precedes(m, x, r))} = S
      BY <1>11, <1>12 DEF AllAlive, Alive
    <3>3. QED  BY <3>1, <3>2
  <2>3. QED  BY <2>1, <2>2
<1>16. Todo' = PS!Living  BY <1>6, <1>10, <1>14, <1>15 DEF PS!Living
<1>17. QED  BY <1>1, <1>2, <1>3, <1>16 DEF PS!StartPass

LEMMA EndStep == ASSUME SchedInv, EndPass PROVE PS!EndPass
<1>1. /\ state = "walk" /\ link = Nil /\ link' = Nil /\ state' = "idle"
      /\ mem' = mem /\ inst' = inst /\ proc' = proc
  BY DEF EndPass, procs
<1>2. Serving = Nil /\ Serving' = Nil /\ Prio' = Prio  BY <1>1 DEF Serving, Prio
<1>3. mem \in Memory /\ AllStrung(mem)  BY Known DEF SchedInv
<1>4. Todo = TodoIn(mem, inst, Nil) /\ Todo' = TodoIn(mem, inst, Nil)  BY <1>1, TodoView
<1>5. Todo = {} /\ Todo' = {}  BY <1>3, <1>4, TodoNone
<1>6. QED  BY <1>1, <1>2, <1>5 DEF PS!EndPass

(* A stale link is given back: nobody in the schedule notices.             *)
LEMMA StaleStep == ASSUME SchedInv, StaleLink PROVE UNCHANGED PS!vars
<1>1. /\ state = "walk" /\ link # Nil /\ ~Live(mem, inst, link) /\ state' = "walk"
      /\ link' = mem.next[link] /\ inst' = inst /\ proc' = proc
  BY DEF StaleLink, procs
<1>2. Serving = Nil /\ Serving' = Nil /\ Prio' = Prio  BY <1>1 DEF Serving, Prio
<1>3. IndInv  BY DEF SchedInv
<1>4. PICK m \in Memory : m = mem  BY <1>3, Known
<1>5. PICK i : i = inst  OBVIOUS
<1>6. PICK u : u = mem'  OBVIOUS
<1>7. PICK p \in Links : p = link  BY <1>1, <1>3, Known
<1>8. PICK x : x = mem.next[link]  OBVIOUS
<1>9. PICK g \in Nat : g = global_instance_ctr  BY <1>3, Known
<1>10. AllStrung(m) /\ Sound(m, g, Nil) /\ m.list[p] = Active /\ ~Alive(m, i, p)
  BY <1>1, <1>3, <1>4, <1>5, <1>7, <1>9, Known DEF Alive
<1>11. /\ Sound(u, g, Nil) /\ InOrder(m, u)
       /\ \A q \in Links : u.list[q] = Active => q # p
       /\ \A q \in Links : q # p => Same(m, u, q)
  BY <1>3, <1>4, <1>6, <1>7, <1>9, StaleTidies
<1>12. u \in Memory /\ AllStrung(u)  BY <1>11, SoundFacts
<1>13. \A q \in Links : Alive(u, i, q) <=> Alive(m, i, q)
  BY <1>10, <1>11 DEF Alive, Live, Same
<1>14. \A q \in Links : Alive(m, i, q) => u.hdr[q] = m.hdr[q]
  BY <1>10, <1>11 DEF Same
<1>15. /\ x # Nil => x \in Links /\ m.list[x] = Active /\ Precedes(m, p, x)
       /\ \A q \in Links : Precedes(m, p, q) <=> x # Nil /\ (q = x \/ Precedes(m, x, q))
  BY <1>4, <1>7, <1>8, <1>10, NextPrecedes, TheList
<1>16. Todo = {m.hdr[q] : q \in {r \in Links : Alive(m, i, r) /\ Precedes(m, p, r)}}
  <2>1. Todo = TodoIn(m, i, p)  BY <1>1, <1>4, <1>5, <1>7, TodoView
  <2>2. TodoIn(m, i, p) = {m.hdr[q] : q \in {r \in Links : /\ Alive(m, i, r)
                                                           /\ r = p \/ Precedes(m, p, r)}}
    BY <1>10, TodoFacts
  <2>3. {r \in Links : Alive(m, i, r) /\ (r = p \/ Precedes(m, p, r))}
          = {r \in Links : Alive(m, i, r) /\ Precedes(m, p, r)}
    BY <1>10
  <2>4. QED  BY <2>1, <2>2, <2>3
<1>17. Todo' = TodoIn(u, i, x)  BY <1>1, <1>5, <1>6, <1>8, TodoView
<1>18. Todo' = Todo
  <2>1. CASE x = Nil
    <3>1. Todo' = {}  BY <1>12, <1>17, <2>1, TodoNone
    <3>2. {r \in Links : Alive(m, i, r) /\ Precedes(m, p, r)} = {}  BY <1>15, <2>1
    <3>3. Todo = {}  BY <1>16, <3>2
    <3>4. QED  BY <3>1, <3>3
  <2>2. CASE x # Nil
    <3>1. x # p
      <4>1. Precedes(m, p, x) /\ x \in Links /\ m.list[x] = Active  BY <1>15, <2>2
      <4>2. QED  BY <1>10, <4>1, Orderly, TheList
    <3>2. x \in Links /\ m.list[x] = Active /\ u.list[x] = Active
      BY <1>11, <1>15, <2>2, <3>1 DEF Same
    <3>3. TodoIn(u, i, x) = {u.hdr[q] : q \in {r \in Links : /\ Alive(u, i, r)
                                                             /\ r = x \/ Precedes(u, x, r)}}
      BY <1>12, <3>2, TodoFacts
    <3>4. ASSUME NEW q \in Links, Alive(m, i, q)
          PROVE  Precedes(u, x, q) <=> Precedes(m, x, q)
      <4>1. m.list[q] = Active /\ u.list[q] = Active  BY <1>13, <3>4 DEF Alive
      <4>2. QED  BY <1>10, <1>11, <1>12, <3>2, <4>1, OrderStays, TheList
    <3>5. {r \in Links : Alive(u, i, r) /\ (r = x \/ Precedes(u, x, r))}
            = {r \in Links : Alive(m, i, r) /\ Precedes(m, p, r)}
      BY <1>13, <1>15, <2>2, <3>4
    <3>6. QED  BY <1>14, <1>16, <1>17, <3>3, <3>5
  <2>3. QED  BY <2>1, <2>2
<1>19. (state # "idle")' = (state # "idle")  BY <1>1
<1>20. QED  BY <1>1, <1>2, <1>18, <1>19 DEF PS!vars

(* The process the walk comes to is the first of those still to be served. *)
LEMMA Turn ==
  ASSUME SchedInv, AtLive
  PROVE  /\ link \in Links /\ mem.list[link] = Active /\ aproc \in Hdrs /\ Serving = Nil
         /\ aproc \in Todo /\ \A c \in Todo \ {aproc} : PS!Earlier(aproc, c)
         /\ Todo \ {aproc} = Following(mem, inst, link)
<1>1. state = "walk" /\ link # Nil /\ Live(mem, inst, link)  BY DEF AtLive
<1>2. IndInv /\ Sorted(mem, inst, proc)  BY DEF SchedInv
<1>3. PICK m \in Memory : m = mem  BY <1>2, Known
<1>4. PICK i : i = inst  OBVIOUS
<1>5. PICK p \in Links : p = link  BY <1>1, <1>2, Known
<1>6. PICK g \in Nat : g = global_instance_ctr  BY <1>2, Known
<1>7. /\ AllStrung(m) /\ Sound(m, g, Nil) /\ \A b \in Hdrs : Once(m, i, b)
      /\ m.list[p] = Active
  BY <1>1, <1>2, <1>3, <1>4, <1>5, <1>6, Known
<1>8. Alive(m, i, p)  BY <1>1, <1>3, <1>4, <1>5, <1>7 DEF Alive
<1>9. PICK b \in Hdrs : b = m.hdr[p]  BY <1>7, <1>8, TodoAlive
<1>10. aproc = b  BY <1>3, <1>5, <1>9 DEF aproc
<1>11. Todo = TodoIn(m, i, p)  BY <1>1, <1>3, <1>4, <1>5, TodoView
<1>12. b \notin Following(m, i, p) /\ Todo = Following(m, i, p) \cup {b}
  BY <1>7, <1>8, <1>9, <1>11, TodoAlive
<1>13. ASSUME NEW c \in Following(m, i, p) PROVE PS!Earlier(b, c)
  <2>1. PICK q \in Links : Alive(m, i, q) /\ Precedes(m, p, q) /\ c = m.hdr[q]
    BY DEF Following
  <2>2. c \in Hdrs  BY <1>7, <2>1, AliveFacts
  <2>3. Comes(i, proc, b, c)  BY <1>2, <1>3, <1>4, <1>8, <1>9, <2>1 DEF Sorted
  <2>4. QED  BY <1>4, <2>2, <2>3 DEF Comes, PS!Earlier, Prio
<1>14. Serving = Nil  BY <1>1 DEF Serving
<1>15. QED  BY <1>3, <1>4, <1>5, <1>7, <1>10, <1>12, <1>13, <1>14

(* The walk goes on to the next link.                                      *)
LEMMA GoOn ==
  ASSUME IndInv, link \in Links, mem.list[link] = Active,
         mem' = mem, link' = mem.next[link], state' = "walk"
  PROVE  Todo' = Following(mem, inst', link) /\ Serving' = Nil
<1>1. Todo' = TodoIn(mem, inst', mem.next[link])  BY TodoView
<1>2. mem \in Memory /\ AllStrung(mem)  BY Known
<1>3. PICK j : j = inst'  OBVIOUS
<1>4. TodoIn(mem, j, mem.next[link]) = Following(mem, j, link)  BY <1>2, TodoFacts
<1>5. QED  BY <1>1, <1>3, <1>4 DEF Serving

LEMMA PassStep == ASSUME SchedInv, Pass PROVE PS!Serve(aproc)
<1>1. /\ AtLive /\ state = "walk" /\ state' = "walk" /\ mem' = mem /\ inst' = inst
      /\ link' = mem.next[link]
      /\ \/ proc' = proc
         \/ proc' = [proc EXCEPT ![aproc].sleep_ticks = proc[aproc].sleep_ticks - 1]
  BY DEF Pass, AtLive
<1>2. /\ link \in Links /\ mem.list[link] = Active /\ aproc \in Hdrs /\ Serving = Nil
      /\ aproc \in Todo /\ \A c \in Todo \ {aproc} : PS!Earlier(aproc, c)
      /\ Todo \ {aproc} = Following(mem, inst, link)
  BY <1>1, Turn
<1>3. IndInv  BY DEF SchedInv
<1>4. Todo' = Todo \ {aproc} /\ Serving' = Nil  BY <1>1, <1>2, <1>3, GoOn
<1>5. PrioKept
  <2>1. CASE proc' = proc  BY <2>1 DEF PrioKept
  <2>2. CASE proc' = [proc EXCEPT ![aproc].sleep_ticks = proc[aproc].sleep_ticks - 1]
    <3>1. PICK t : t = proc[aproc].sleep_ticks - 1  OBVIOUS
    <3>2. PICK b \in Hdrs : b = aproc  BY <1>2
    <3>3. proc' = [proc EXCEPT ![b].sleep_ticks = t]  BY <2>2, <3>1, <3>2
    <3>4. QED  BY <1>3, <3>3, TicksOnly
  <2>3. QED  BY <1>1, <2>1, <2>2
<1>6. Prio' = Prio  BY <1>5 DEF Prio, PrioKept
<1>7. QED  BY <1>1, <1>2, <1>4, <1>6 DEF PS!Serve

(* What the death of processes is in the schedule                          *)
LEMMA BuryStep ==
  ASSUME IndInv, NEW K \in SUBSET Hdrs, proc' = Buried(K),
         inst' = [b \in Hdrs |-> IF b \in K THEN 0 ELSE inst[b]]
  PROVE  PS!Bury(K)
<1>1. \A b \in Hdrs : proc'[b].priority = IF b \in K THEN 0 ELSE proc[b].priority
  BY BuriedPrio
<1>2. Prio' = [b \in Hdrs |-> IF b \in K THEN 0 ELSE Prio[b]]  BY <1>1 DEF Prio
<1>3. QED  BY <1>2 DEF PS!Bury

(* One process dies and the walk goes on behind its link.                  *)
LEMMA DeadBehind ==
  ASSUME IndInv, link \in Links, mem.list[link] = Active, aproc \in Hdrs,
         mem' = mem, link' = mem.next[link], state' = "walk",
         inst' = [inst EXCEPT ![aproc] = 0], proc' = Buried({aproc}),
         aproc \notin Following(mem, inst, link)
  PROVE  PS!Bury({aproc}) /\ Todo' = Following(mem, inst, link) /\ Serving' = Nil
<1>1. PICK b \in Hdrs : b = aproc  OBVIOUS
<1>2. PICK g \in Nat : g = global_instance_ctr  BY Known
<1>3. inst \in [Hdrs -> 0 .. g] /\ Sound(mem, g, Nil)  BY <1>2, Known
<1>4. inst' = [c \in Hdrs |-> IF c \in {b} THEN 0 ELSE inst[c]]  BY <1>1, <1>3
<1>5. proc' = Buried({b})  BY <1>1
<1>6. PS!Bury({b})  BY <1>4, <1>5, BuryStep
<1>7. PICK j : j = inst'  OBVIOUS
<1>8. \A c \in Hdrs : j[c] = IF c \in {b} THEN 0 ELSE inst[c]  BY <1>4, <1>7
<1>9. Following(mem, j, link) = Following(mem, inst, link) \ {b}
  <2>1. PICK m : m = mem  OBVIOUS
  <2>2. PICK i : i = inst  OBVIOUS
  <2>3. PICK D : D = {b}  OBVIOUS
  <2>4. PICK p : p = link  OBVIOUS
  <2>5. Sound(m, g, Nil) /\ \A c \in Hdrs : j[c] = IF c \in D THEN 0 ELSE i[c]
    BY <1>3, <1>8, <2>1, <2>2, <2>3
  <2>6. Following(m, j, p) = Following(m, i, p) \ D  BY <2>5, FollowingBuried
  <2>7. QED  BY <2>1, <2>2, <2>3, <2>4, <2>6
<1>10. Todo' = Following(mem, j, link) /\ Serving' = Nil  BY <1>7, GoOn
<1>11. QED  BY <1>1, <1>6, <1>9, <1>10

LEMMA LapseStep == ASSUME SchedInv, Lapse PROVE PS!Serve(aproc)
<1>1. /\ AtLive /\ state = "walk" /\ state' = "walk" /\ mem' = mem
      /\ link' = mem.next[link]
      /\ \/ inst' = inst /\ proc' = proc
         \/ inst' = [inst EXCEPT ![aproc] = 0] /\ proc' = Buried({aproc})
  BY DEF Lapse, Due, AtLive
<1>2. /\ link \in Links /\ mem.list[link] = Active /\ aproc \in Hdrs /\ Serving = Nil
      /\ aproc \in Todo /\ \A c \in Todo \ {aproc} : PS!Earlier(aproc, c)
      /\ Todo \ {aproc} = Following(mem, inst, link)
  BY <1>1, Turn
<1>3. IndInv  BY DEF SchedInv
<1>4. CASE inst' = inst /\ proc' = proc
  <2>1. Todo' = Todo \ {aproc} /\ Serving' = Nil  BY <1>1, <1>2, <1>3, <1>4, GoOn
  <2>2. Prio' = Prio  BY <1>4 DEF Prio
  <2>3. QED  BY <1>1, <1>2, <1>4, <2>1, <2>2 DEF PS!Serve
<1>5. CASE inst' = [inst EXCEPT ![aproc] = 0] /\ proc' = Buried({aproc})
  <2>1. aproc \notin Following(mem, inst, link)  BY <1>2
  <2>2. PS!Bury({aproc}) /\ Todo' = Following(mem, inst, link) /\ Serving' = Nil
    BY <1>1, <1>2, <1>3, <1>5, <2>1, DeadBehind
  <2>3. QED  BY <1>1, <1>2, <2>2 DEF PS!Serve
<1>6. QED  BY <1>1, <1>4, <1>5

LEMMA RunStep == ASSUME SchedInv, Run PROVE PS!Serve(aproc)
<1>1. /\ AtLive /\ state = "walk" /\ state' = "run" /\ mem' = mem /\ inst' = inst
      /\ link' = link /\ proc' = proc
  BY DEF Run, Due, AtLive, procs
<1>2. /\ link \in Links /\ mem.list[link] = Active /\ aproc \in Hdrs /\ Serving = Nil
      /\ aproc \in Todo /\ \A c \in Todo \ {aproc} : PS!Earlier(aproc, c)
      /\ Todo \ {aproc} = Following(mem, inst, link)
  BY <1>1, Turn
<1>3. Todo' = TodoIn(mem, inst, mem.next[link])  BY <1>1, TodoView
<1>4. mem \in Memory /\ AllStrung(mem)  BY Known DEF SchedInv
<1>5. Todo' = Todo \ {aproc}  BY <1>2, <1>3, <1>4, TodoFacts
<1>6. Serving' = aproc  BY <1>1 DEF Serving, aproc
<1>7. Prio' = Prio  BY <1>1 DEF Prio
<1>8. QED  BY <1>1, <1>2, <1>5, <1>6, <1>7 DEF PS!Serve

LEMMA SleepStep == ASSUME SchedInv, NEW t \in 0 .. MaxSleep, Sleep(t) PROVE PS!EndServe
<1>1. /\ state = "run" /\ link' = mem.next[link] /\ mem' = mem /\ state' = "walk"
      /\ proc' = [proc EXCEPT ![aproc].sleep_ticks = t] /\ inst' = inst
  BY DEF Sleep
<1>2. IndInv  BY DEF SchedInv
<1>3. /\ link \in Links /\ mem.list[link] = Active /\ aproc \in Hdrs /\ Serving = aproc
      /\ Todo = Following(mem, inst, link)
  BY <1>1, <1>2, Running
<1>4. Todo' = Todo /\ Serving' = Nil  BY <1>1, <1>2, <1>3, GoOn
<1>5. PrioKept  BY <1>1, <1>2, <1>3, TicksOnly
<1>6. Prio' = Prio  BY <1>5 DEF Prio, PrioKept
<1>7. Serving # Nil  BY <1>3, Distinct
<1>8. QED  BY <1>1, <1>4, <1>6, <1>7 DEF PS!EndServe

LEMMA DieStep == ASSUME SchedInv, Die PROVE PS!EndServe
<1>1. /\ state = "run" /\ link' = mem.next[link] /\ mem' = mem /\ state' = "walk"
      /\ inst' = [inst EXCEPT ![aproc] = 0] /\ proc' = Buried({aproc})
  BY DEF Die
<1>2. IndInv  BY DEF SchedInv
<1>3. /\ link \in Links /\ mem.list[link] = Active /\ aproc \in Hdrs /\ Serving = aproc
      /\ Todo = Following(mem, inst, link) /\ aproc \notin Todo
  BY <1>1, <1>2, Running
<1>4. PS!Bury({aproc}) /\ Todo' = Following(mem, inst, link) /\ Serving' = Nil
  BY <1>1, <1>2, <1>3, DeadBehind
<1>5. Serving # Nil  BY <1>3, Distinct
<1>6. QED  BY <1>1, <1>3, <1>4, <1>5 DEF PS!EndServe

(* gamelogic_jump ends everything and begins with one process.             *)
LEMMA JumpStep ==
  ASSUME SchedInv, NEW b \in Hdrs, NEW n \in Priorities, NEW k \in Kinds,
         gamelogic_jump(b, n, k)
  PROVE  PS!StartOver(b, n)
<1>1. IndInv  BY DEF SchedInv
<1>2. PICK g \in Nat : g = global_instance_ctr  BY <1>1, Known
<1>3. /\ inst' = [c \in Hdrs |-> IF c = b THEN g + 1 ELSE 0]
      /\ proc' = [Buried(Hdrs) EXCEPT ![b] = NewProc(n, k)]
      /\ link' = Nil /\ state' = "idle"
  BY <1>2 DEF gamelogic_jump
<1>4. inst \in [Hdrs -> 0 .. g] /\ inst'[b] = g + 1  BY <1>1, <1>2, <1>3, Known
<1>5. inst' = [q \in Hdrs |-> IF q = b THEN inst'[b] ELSE 0] /\ \A q \in Hdrs : inst[q] < inst'[b]
  BY <1>3, <1>4
<1>6. Prio' = [q \in Hdrs |-> IF q = b THEN n ELSE 0]
  <2>1. NewProc(n, k).priority = n
    <3>1. k \in [priority : {0}, sleep_ticks : {0}, data : BOOLEAN,
                 one_shot : BOOLEAN, immune : BOOLEAN, keep : BOOLEAN]
      BY FieldsAssumption
    <3>2. QED  BY <3>1 DEF NewProc
  <2>2. \A q \in Hdrs : proc'[q] = IF q = b THEN NewProc(n, k) ELSE NoProc
    BY <1>3 DEF Buried
  <2>3. NoProc.priority = 0  BY DEF NoProc
  <2>4. \A q \in Hdrs : proc'[q].priority = IF q = b THEN n ELSE 0  BY <2>1, <2>2, <2>3
  <2>5. QED  BY <2>4 DEF Prio
<1>7. Todo' = {} /\ Serving' = Nil
  <2>1. IndInv'  BY <1>1, JumpKept
  <2>2. PICK u : u = mem'  OBVIOUS
  <2>3. u \in Memory /\ AllStrung(u)  BY <2>1, <2>2 DEF IndInv, LinksKept, Sound
  <2>4. Todo' = TodoIn(u, inst', Nil)  BY <1>3, <2>2, TodoView
  <2>5. QED  BY <1>3, <2>3, <2>4, TodoNone DEF Serving
<1>8. QED  BY <1>3, <1>5, <1>6, <1>7 DEF PS!StartOver, PS!Youngest

(* A walk or a search by the process that runs, or between two passes:     *)
(* the pass has still to come to the same processes.                       *)
LEMMA WalkTodo ==
  ASSUME IndInv, state # "walk", NEW W,
         mem' = AfterSearch(mem, inst, Chain(mem, Active), W),
         link' = link, state' = state, NEW K \in SUBSET Hdrs,
         inst' = [b \in Hdrs |-> IF b \in K THEN 0 ELSE inst[b]]
  PROVE  Todo' = Todo \ K /\ Serving' = Serving
<1>1. PICK m \in Memory : m = mem  BY Known
<1>2. PICK i : i = inst  OBVIOUS
<1>3. PICK j : j = inst'  OBVIOUS
<1>4. PICK u : u = mem'  OBVIOUS
<1>5. PICK g \in Nat : g = global_instance_ctr  BY Known
<1>6. AllStrung(m) /\ Sound(m, g, Nil)  BY <1>1, <1>5, Known
<1>7. /\ Sound(u, g, Nil) /\ InOrder(m, u)
      /\ \A q \in Links : u.list[q] = Active => Same(m, u, q)
      /\ \A q \in Links : Alive(m, i, q) => Same(m, u, q)
  BY <1>1, <1>2, <1>4, <1>5, WalkTidies
<1>8. u \in Memory /\ AllStrung(u)  BY <1>7, SoundFacts
<1>9. CASE state = "run"
  <2>1. /\ link \in Links /\ Alive(m, i, link) /\ Serving = m.hdr[link]
        /\ Todo = Following(m, i, link)
    BY <1>1, <1>2, <1>9, Running
  <2>2. PICK p \in Links : p = link  BY <2>1
  <2>3. Same(m, u, p)  BY <1>7, <2>1, <2>2
  <2>4. u.list[p] = Active /\ u.hdr[p] = m.hdr[p]  BY <2>1, <2>2, <2>3 DEF Alive, Same
  <2>5. Serving' = Serving  BY <1>4, <1>9, <2>1, <2>2, <2>4 DEF Serving, aproc
  <2>6. Todo' = Following(u, j, p)
    <3>1. Todo' = TodoIn(u, j, u.next[p])  BY <1>3, <1>4, <1>9, <2>2, TodoView
    <3>2. QED  BY <1>8, <2>4, <3>1, TodoFacts
  <2>7. Following(u, j, p) = Following(u, i, p) \ K
    <3>1. \A b \in Hdrs : j[b] = IF b \in K THEN 0 ELSE i[b]  BY <1>2, <1>3
    <3>2. QED  BY <1>7, <3>1, FollowingBuried
  <2>8. Following(u, i, p) = Following(m, i, p)
    <3>1. Steady(m, u, i)  BY <1>6, <1>7, <1>8, TidySteady
    <3>2. \A q \in Links : Alive(u, i, q) => Alive(m, i, q)
      BY <1>7 DEF Alive, Live, Same
    <3>3. Alive(m, i, p)  BY <2>1, <2>2
    <3>4. QED  BY <3>1, <3>2, <3>3, FollowingStays
  <2>9. QED  BY <2>1, <2>2, <2>5, <2>6, <2>7, <2>8
<1>10. CASE state # "run"
  <2>1. state = "idle"  BY <1>10 DEF IndInv, CursorKept
  <2>2. link = Nil /\ Todo = {} /\ Serving = Nil  BY <2>1, Resting
  <2>3. Todo' = TodoIn(u, inst', Nil) /\ Serving' = Nil
    BY <1>4, <2>1, <2>2, TodoView DEF Serving
  <2>4. Todo' = {}  BY <1>8, <2>3, TodoNone
  <2>5. QED  BY <2>2, <2>3, <2>4
<1>11. QED  BY <1>9, <1>10

LEMMA FindStep ==
  ASSUME SchedInv, NEW b \in Hdrs, find_mkproc_pid(b), state # "walk"
  PROVE  UNCHANGED PS!vars
<1>1. inst' = inst /\ proc' = proc /\ link' = link /\ state' = state
  BY DEF find_mkproc_pid, procs, pass
<1>2. IndInv  BY DEF SchedInv
<1>3. PICK W : mem' = AfterSearch(mem, inst, Chain(mem, Active), W)
  BY DEF find_mkproc_pid, AfterFind, AfterWalk
<1>4. inst' = [c \in Hdrs |-> IF c \in {} THEN 0 ELSE inst[c]]
  <2>1. inst \in [Hdrs -> 0 .. global_instance_ctr]  BY <1>2, Known
  <2>2. QED  BY <1>1, <2>1
<1>5. {} \in SUBSET Hdrs  OBVIOUS
<1>6. Todo' = Todo \ {} /\ Serving' = Serving  BY <1>1, <1>2, <1>3, <1>4, <1>5, WalkTodo
<1>7. Prio' = Prio  BY <1>1 DEF Prio
<1>8. (state # "idle")' = (state # "idle")  BY <1>1
<1>9. QED  BY <1>1, <1>6, <1>7, <1>8 DEF PS!vars

LEMMA DataStep ==
  ASSUME SchedInv, NEW b \in Hdrs, DestroyData(b)
  PROVE  UNCHANGED PS!vars
<1>1. /\ mem' = mem /\ inst' = inst /\ link' = link /\ state' = state
      /\ proc' = [proc EXCEPT ![b].data = FALSE]
  BY DEF DestroyData, pass
<1>2. PrioKept  BY <1>1, DataOnly DEF SchedInv
<1>3. Prio' = Prio  BY <1>2 DEF Prio, PrioKept
<1>4. Todo' = Todo  BY <1>1, TodoView
<1>5. Serving' = Serving  BY <1>1 DEF Serving, aproc
<1>6. (state # "idle")' = (state # "idle")  BY <1>1
<1>7. QED  BY <1>1, <1>3, <1>4, <1>5, <1>6 DEF PS!vars

LEMMA DestroyStep ==
  ASSUME SchedInv, NEW K \in SUBSET Hdrs, destroy_mkprocs_pid(K), state # "walk"
  PROVE  \E D \in SUBSET Hdrs : PS!Destroy(D)
<1>1. IndInv  BY DEF SchedInv
<1>2. PICK D \in SUBSET Hdrs : D = {b \in K : Destroyable(b)}  OBVIOUS
<1>3. /\ inst' = [b \in Hdrs |-> IF b \in K /\ Destroyable(b) THEN 0 ELSE inst[b]]
      /\ proc' = Buried(D) /\ link' = link /\ state' = state
      /\ mem' = AfterSearch(mem, inst, Chain(mem, Active), {})
  BY <1>2 DEF destroy_mkprocs_pid, AfterWalk, pass
<1>4. inst' = [b \in Hdrs |-> IF b \in D THEN 0 ELSE inst[b]]  BY <1>2, <1>3
<1>5. PS!Bury(D)  BY <1>1, <1>3, <1>4, BuryStep
<1>6. PICK W : W = {}  OBVIOUS
<1>7. mem' = AfterSearch(mem, inst, Chain(mem, Active), W)  BY <1>3, <1>6
<1>8. Todo' = Todo \ D /\ Serving' = Serving  BY <1>1, <1>3, <1>4, <1>7, WalkTodo
<1>9. Serving \notin D
  <2>1. CASE state = "run"
    <3>1. Serving = aproc_nodestroy  BY <1>1, <2>1, Running
    <3>2. QED  BY <1>2, <3>1 DEF Destroyable
  <2>2. CASE state # "run"
    <3>1. Serving = Nil  BY <2>2 DEF Serving
    <3>2. QED  BY <3>1, Distinct
  <2>3. QED  BY <2>1, <2>2
<1>10. (state # "idle")' = (state # "idle")  BY <1>3
<1>11. PS!Destroy(D)  BY <1>5, <1>8, <1>9, <1>10 DEF PS!Destroy
<1>12. QED  BY <1>11

(* A new process comes into the pass that is under way if its place is     *)
(* behind the link of the process that runs, which is where its priority   *)
(* puts it if nobody who was passed comes after it.                        *)
LEMMA CreatedTodo ==
  ASSUME SchedInv, NEW b \in Hdrs, NEW n \in Priorities, Creating(b, n), state = "run"
  PROVE  /\ Serving' = Serving
         /\ Todo' = IF \A q \in PS!Living \ Todo : Prio[q] <= n THEN Todo \cup {b} ELSE Todo
<1>1. IndInv /\ Sorted(mem, inst, proc)  BY DEF SchedInv
<1>2. /\ get_mkproc(b) /\ link' = link /\ state' = state
      /\ proc' \in [Hdrs -> Fields] /\ proc'[b].priority = n
      /\ \A c \in Hdrs \ {b} : proc'[c] = proc[c]
      /\ Entered(mem, mem', inst', global_instance_ctr', b)
      /\ Ranked(mem, mem', inst', b, proc')
  BY DEF Creating, pass
<1>3. PICK m \in Memory : m = mem  BY <1>1, Known
<1>4. PICK i : i = inst  OBVIOUS
<1>5. PICK j : j = inst'  OBVIOUS
<1>6. PICK u : u = mem'  OBVIOUS
<1>7. PICK h : h = proc'  OBVIOUS
<1>8. PICK p \in Links : p = link  BY <1>1, Running
<1>9. PICK g \in Nat : g = global_instance_ctr'  BY <1>1, <1>2, NewInstance
<1>10. PICK o \in Nat : o = global_instance_ctr  BY <1>1, Known
<1>11. /\ AllStrung(m) /\ Sound(m, o, Nil) /\ \A c \in Hdrs : Once(m, i, c)
  BY <1>1, <1>3, <1>4, <1>10, Known
<1>12. Sound(m, g, Nil)  BY <1>1, <1>2, <1>3, <1>9, NewInstance
<1>13. /\ \A q \in Links : Alive(m, j, q) <=> Alive(m, i, q)
       /\ \A q \in Links : Alive(m, j, q) => m.hdr[q] \in Hdrs \ {b}
  BY <1>1, <1>2, <1>3, <1>4, <1>5, NewSorted
<1>14. /\ Alive(m, i, p) /\ m.list[p] = Active /\ Serving = m.hdr[p]
       /\ Todo = Following(m, i, p)
  BY <1>1, <1>3, <1>4, <1>8, Running
<1>15. Sound(u, g, Nil) /\ \A c \in Hdrs \ {b} : LinkOf(u, j, c) = LinkOf(m, j, c)
  BY <1>2, <1>3, <1>5, <1>6, <1>9 DEF Entered
<1>16. u \in Memory /\ AllStrung(u)  BY <1>15, SoundFacts
<1>17. Steady(m, u, j)  BY <1>2, <1>3, <1>5, <1>6 DEF Ranked
<1>18. PICK r \in Links :
         /\ LinkOf(u, j, b) = {r}
         /\ \A q \in Links : Alive(m, j, q) =>
              /\ Precedes(u, q, r) => h[m.hdr[q]].priority <= h[b].priority
              /\ Precedes(u, r, q) => h[b].priority < h[m.hdr[q]].priority
  BY <1>2, <1>3, <1>5, <1>6, <1>7 DEF Ranked
<1>19. h[b].priority = n /\ \A c \in Hdrs \ {b} : h[c].priority = proc[c].priority
  BY <1>2, <1>7
<1>20. Alive(u, j, r) /\ u.hdr[r] = b /\ u.list[r] = Active
  <2>1. r \in LinkOf(u, j, b)  BY <1>18
  <2>2. QED  BY <1>15, <2>1, AliveFacts DEF LinkOf
<1>21. ASSUME NEW q \in Links
       PROVE  Alive(u, j, q) <=> q = r \/ Alive(m, j, q)
  <2>1. Alive(m, j, q) => Alive(u, j, q)  BY <1>17 DEF Steady, Same, Alive, Live
  <2>2. ASSUME Alive(u, j, q), q # r PROVE Alive(m, j, q)
    <3>1. u.hdr[q] \in Hdrs /\ q \in LinkOf(u, j, u.hdr[q])  BY <1>15, <2>2, AliveFacts
    <3>2. u.hdr[q] # b  BY <1>18, <2>2, <3>1
    <3>3. q \in LinkOf(m, j, u.hdr[q])  BY <1>15, <3>1, <3>2
    <3>4. QED  BY <1>12, <3>1, <3>3, AliveFacts
  <2>3. QED  BY <1>20, <2>1, <2>2
<1>22. \A q \in Links : Alive(m, j, q) =>
         u.hdr[q] = m.hdr[q] /\ u.list[q] = Active /\ (Precedes(u, p, q) <=> Precedes(m, p, q))
                             /\ (Precedes(u, q, p) <=> Precedes(m, q, p))
  BY <1>13, <1>14, <1>17 DEF Steady, Same, Alive
<1>23. p # r
  <2>1. u.hdr[p] = m.hdr[p] /\ m.hdr[p] # b  BY <1>13, <1>14, <1>22
  <2>2. QED  BY <1>20, <2>1
<1>24. u.list[p] = Active /\ u.hdr[p] = m.hdr[p]  BY <1>13, <1>14, <1>22
<1>25. Serving' = Serving
  BY <1>2, <1>6, <1>8, <1>14, <1>24 DEF Serving, aproc
<1>26. Todo' = Following(u, j, p)
  <2>1. Todo' = TodoIn(u, j, u.next[p])  BY <1>2, <1>5, <1>6, <1>8, TodoView
  <2>2. QED  BY <1>16, <2>1, <1>24, TodoFacts
<1>27. CASE Precedes(u, p, r)
  <2>1. {q \in Links : Alive(u, j, q) /\ Precedes(u, p, q)}
          = {q \in Links : Alive(m, i, q) /\ Precedes(m, p, q)} \cup {r}
    BY <1>13, <1>21, <1>22, <1>27
  <2>2. \A q \in Links : Alive(m, i, q) => u.hdr[q] = m.hdr[q]  BY <1>13, <1>22
  <2>3. Todo' = Todo \cup {b}  BY <1>14, <1>20, <1>26, <2>1, <2>2 DEF Following
  <2>4. ASSUME NEW c \in PS!Living \ Todo PROVE Prio[c] <= n
    <3>1. c \in Hdrs /\ i[c] # 0 /\ c \notin Todo  BY <1>4 DEF PS!Living
    <3>2. PICK q \in AllAlive(m, i) : m.hdr[q] = c  BY <1>11, <3>1, LivingIs
    <3>3. q \in Links /\ Alive(m, i, q) /\ m.list[q] = Active  BY DEF AllAlive, Alive
    <3>4. ~Precedes(m, p, q)  BY <1>14, <3>1, <3>2, <3>3 DEF Following
    <3>5. p = q \/ Precedes(m, q, p)  BY <1>11, <1>14, <3>3, <3>4, Orderly, TheList
    <3>6. Precedes(u, q, r)
      <4>1. CASE p = q  BY <1>27, <4>1
      <4>2. CASE Precedes(m, q, p)
        <5>1. Precedes(u, q, p)  BY <1>13, <1>22, <3>3, <4>2
        <5>2. u.list[q] = Active  BY <1>13, <1>22, <3>3
        <5>3. QED  BY <1>16, <1>24, <1>27, <3>3, <5>1, <5>2, Orderly, TheList
      <4>3. QED  BY <3>5, <4>1, <4>2
    <3>7. c # b  BY <1>13, <3>2, <3>3
    <3>8. h[c].priority <= h[b].priority  BY <1>13, <1>18, <3>2, <3>3, <3>6
    <3>9. proc[c].priority <= n  BY <1>19, <3>1, <3>7, <3>8
    <3>10. QED  BY <3>1, <3>9 DEF Prio
  <2>5. QED  BY <1>25, <2>3, <2>4
<1>28. CASE ~Precedes(u, p, r)
  <2>1. {q \in Links : Alive(u, j, q) /\ Precedes(u, p, q)}
          = {q \in Links : Alive(m, i, q) /\ Precedes(m, p, q)}
    BY <1>13, <1>21, <1>22, <1>28
  <2>2. \A q \in Links : Alive(m, i, q) => u.hdr[q] = m.hdr[q]  BY <1>13, <1>22
  <2>3. Todo' = Todo  BY <1>14, <1>26, <2>1, <2>2 DEF Following
  <2>4. Precedes(u, r, p)
    BY <1>16, <1>20, <1>23, <1>24, <1>28, Orderly, TheList
  <2>5. PICK c \in Hdrs : c = m.hdr[p]  BY <1>13, <1>14
  <2>6. h[b].priority < h[c].priority  BY <1>13, <1>14, <1>18, <2>4, <2>5
  <2>7. c # b  BY <1>13, <1>14, <2>5
  <2>8. n < proc[c].priority  BY <1>19, <2>6, <2>7
  <2>9. proc[c].priority \in Int /\ n \in Int
    <3>1. Whole(proc)  BY <1>1, Known, WholeProc
    <3>2. Priorities \subseteq Int  BY FieldsAssumption
    <3>3. QED  BY <3>1, <3>2 DEF Whole
  <2>10. ~(Prio[c] <= n)  BY <2>8, <2>9 DEF Prio
  <2>11. c \in PS!Living \ Todo
    <3>1. aproc = c /\ inst[aproc] # 0 /\ aproc \notin Todo
      BY <1>1, <1>3, <1>8, <2>5, Running
    <3>2. QED  BY <3>1 DEF PS!Living
  <2>12. QED  BY <1>25, <2>3, <2>10, <2>11
<1>29. QED  BY <1>27, <1>28

LEMMA CreateStep ==
  ASSUME SchedInv, NEW b \in Hdrs, NEW n \in Priorities, Creating(b, n), state # "walk",
         IndInv'
  PROVE  PS!Create(b, n)
<1>1. IndInv  BY DEF SchedInv
<1>2. /\ get_mkproc(b) /\ link' = link /\ state' = state
      /\ proc' \in [Hdrs -> Fields] /\ proc'[b].priority = n
      /\ \A c \in Hdrs \ {b} : proc'[c] = proc[c]
  BY DEF Creating, pass
<1>3. /\ inst[b] = 0 /\ inst' = [inst EXCEPT ![b] = inst'[b]]
      /\ \A c \in Hdrs : inst[c] < inst'[b]
  BY <1>1, <1>2, Youngest
<1>4. b \notin PS!Living  BY <1>3 DEF PS!Living
<1>5. Prio' = [Prio EXCEPT ![b] = n]
  <2>1. \A c \in Hdrs : proc'[c].priority = IF c = b THEN n ELSE proc[c].priority  BY <1>2
  <2>2. QED  BY <2>1 DEF Prio
<1>6. /\ Serving' = Serving
      /\ Todo' = IF state # "idle" /\ \A q \in PS!Living \ Todo : Prio[q] <= n
                 THEN Todo \cup {b} ELSE Todo
  <2>1. CASE state = "run"  BY <2>1, CreatedTodo
  <2>2. CASE state # "run"
    <3>1. state = "idle"  BY <1>1, <2>2 DEF IndInv, CursorKept
    <3>2. link = Nil /\ Todo = {} /\ Serving = Nil  BY <1>1, <3>1, Resting
    <3>3. PICK u : u = mem'  OBVIOUS
    <3>4. u \in Memory /\ AllStrung(u)  BY <3>3 DEF IndInv, LinksKept, Sound
    <3>5. Todo' = TodoIn(u, inst', Nil)  BY <1>2, <3>1, <3>2, <3>3, TodoView
    <3>6. Todo' = {} /\ Serving' = Nil  BY <1>2, <3>1, <3>4, <3>5, TodoNone DEF Serving
    <3>7. QED  BY <3>1, <3>2, <3>6
  <2>3. QED  BY <2>1, <2>2
<1>7. (state # "idle")' = (state # "idle")  BY <1>2
<1>8. QED  BY <1>3, <1>4, <1>5, <1>6, <1>7 DEF PS!Create, PS!Youngest

LEMMA InitSchedule == Init => PS!Init
<1>1. SUFFICES ASSUME Init PROVE PS!Init  OBVIOUS
<1>2. /\ inst = [b \in Hdrs |-> 0] /\ proc = [b \in Hdrs |-> NoProc]
      /\ state = "idle"
  BY <1>1 DEF Init
<1>3. NoProc.priority = 0  BY DEF NoProc
<1>4. Prio = [b \in Hdrs |-> 0]  BY <1>2, <1>3 DEF Prio
<1>5. IndInv  BY <1>1, InitKept
<1>6. Todo = {} /\ Serving = Nil  BY <1>2, <1>5, Resting
<1>7. QED  BY <1>2, <1>4, <1>6 DEF PS!Init

LEMMA StutterStep == ASSUME UNCHANGED vars PROVE UNCHANGED PS!vars
<1>1. mem' = mem /\ inst' = inst /\ proc' = proc /\ link' = link /\ state' = state
  BY DEF vars
<1>2. Prio' = Prio /\ Serving' = Serving  BY <1>1 DEF Prio, Serving, aproc
<1>3. Todo' = Todo  BY <1>1, TodoView
<1>4. (state # "idle")' = (state # "idle")  BY <1>1
<1>5. QED  BY <1>1, <1>2, <1>3, <1>4 DEF PS!vars

LEMMA ScheduleStep == SchedInv /\ [Next]_vars => [PS!Next]_PS!vars
<1>1. SUFFICES ASSUME SchedInv, [Next]_vars PROVE [PS!Next]_PS!vars  OBVIOUS
<1>2. CASE UNCHANGED vars  BY <1>2, StutterStep
<1>3. CASE Dispatch
  <2>1. CASE StartPass  BY <1>1, <2>1, StartStep DEF PS!Next
  <2>2. CASE EndPass  BY <1>1, <2>2, EndStep DEF PS!Next
  <2>3. CASE StaleLink  BY <1>1, <2>3, StaleStep
  <2>4. CASE Pass \/ Lapse \/ Run
    <3>1. AtLive  BY <2>4 DEF Pass, Lapse, Run, Due
    <3>2. aproc \in Hdrs  BY <1>1, <3>1, Turn
    <3>3. PS!Serve(aproc)  BY <1>1, <2>4, PassStep, LapseStep, RunStep
    <3>4. QED  BY <3>2, <3>3 DEF PS!Next
  <2>5. QED  BY <1>3, <2>1, <2>2, <2>3, <2>4 DEF Dispatch
<1>4. CASE Finish
  <2>1. CASE Die \/ \E t \in 0 .. MaxSleep : Sleep(t)
    BY <1>1, <2>1, DieStep, SleepStep DEF PS!Next
  <2>2. ASSUME NEW b \in Hdrs, NEW n \in Priorities, NEW k \in Kinds, gamelogic_jump(b, n, k)
        PROVE  PS!Next
    <3>1. PS!StartOver(b, n)  BY <1>1, <2>2, JumpStep
    <3>2. QED  BY <3>1 DEF PS!Next
  <2>3. QED  BY <1>4, <2>1, <2>2 DEF Finish
<1>5. CASE state # "walk" /\ Operation
  <2>1. IndInv /\ Sorted(mem, inst, proc) /\ IndInv'  BY <1>1, StepKept DEF SchedInv
  <2>2. ASSUME NEW b \in Hdrs, find_mkproc_pid(b) \/ DestroyData(b) PROVE UNCHANGED PS!vars
    BY <1>1, <1>5, <2>2, FindStep, DataStep
  <2>3. ASSUME NEW b \in Hdrs, NEW n \in Priorities, NEW k \in Kinds, create_mkproc(b, n, k)
        PROVE  PS!Next
    <3>1. Creating(b, n)  BY <2>1, <2>3, CreateRanks
    <3>2. PS!Create(b, n)  BY <1>1, <1>5, <2>1, <3>1, CreateStep
    <3>3. QED  BY <3>2 DEF PS!Next
  <2>4. ASSUME NEW b \in Hdrs, NEW n \in Priorities, NEW k \in Kinds, NEW o \in Priorities,
               create_then_change_priority(b, o, n, k)
        PROVE  PS!Next
    <3>1. Creating(b, n)  BY <2>1, <2>4, MoveRanks
    <3>2. PS!Create(b, n)  BY <1>1, <1>5, <2>1, <3>1, CreateStep
    <3>3. QED  BY <3>2 DEF PS!Next
  <2>5. ASSUME NEW K \in SUBSET Hdrs, destroy_mkprocs_pid(K) PROVE PS!Next
    <3>1. \E D \in SUBSET Hdrs : PS!Destroy(D)  BY <1>1, <1>5, <2>5, DestroyStep
    <3>2. QED  BY <3>1 DEF PS!Next
  <2>6. QED  BY <1>5, <2>2, <2>3, <2>4, <2>5 DEF Operation
<1>6. QED  BY <1>1, <1>2, <1>3, <1>4, <1>5 DEF Next

(* The walk over the list, with stale links on it, links that are used     *)
(* again and processes that come and go while it is under way, serves      *)
(* every living process once a pass, by priority and among equals by age,  *)
(* and a new one in this pass if its turn has not gone by                  *)
(* (dispatch_proc_list, insert_proc_by_priority, mk_proc.c).               *)
THEOREM ProcessesFollowSchedule == Spec => ProcScheduleSpec
<1>1. Init => PS!Init  BY InitSchedule
<1>2. SchedInv /\ [Next]_vars => [PS!Next]_PS!vars  BY ScheduleStep
<1>3. QED  BY <1>1, <1>2, ListStaysSorted, PTL DEF Spec, ProcScheduleSpec, PS!Spec

===============================================================================
