----------------------------- MODULE ProcSchedule -----------------------------
(***************************************************************************)
(* What the process list promises to the game: a pass serves every living  *)
(* process once, by priority and among equals in the order of their        *)
(* creation; a process created meanwhile is served in this pass if nobody  *)
(* who comes after it was; a process that is destroyed is not served       *)
(* again; the one being served is destroyed by nobody but itself, unless   *)
(* everything is.                                                          *)
(***************************************************************************)
EXTENDS Integers

CONSTANTS Procs, Priorities, Nil

VARIABLES birth,          \* when every living process was created, 0 of the others
          prio,           \* its priority
          passing,        \* a pass is under way
          todo,           \* the living processes that this pass has still to serve
          serving         \* the process that is being served, or Nil

vars == <<birth, prio, passing, todo, serving>>

Living == {p \in Procs : birth[p] # 0}

(* Process p comes before process q.                                       *)
Earlier(p, q) == prio[p] < prio[q] \/ (prio[p] = prio[q] /\ birth[p] < birth[q])

Bury(K) == /\ birth' = [p \in Procs |-> IF p \in K THEN 0 ELSE birth[p]]
           /\ prio' = [p \in Procs |-> IF p \in K THEN 0 ELSE prio[p]]

Youngest(p) == \A q \in Procs : birth[q] < birth'[p]

Init == /\ birth \in [Procs -> {0}] /\ prio \in [Procs -> {0}]
        /\ passing = FALSE /\ todo = {} /\ serving = Nil

StartPass == /\ ~passing
             /\ passing' = TRUE
             /\ todo' = Living
             /\ UNCHANGED <<birth, prio, serving>>

(* The process whose turn it is: it is passed over, dies of it, or starts  *)
(* to be served.                                                           *)
Serve(p) == /\ passing /\ serving = Nil /\ p \in todo
            /\ \A q \in todo \ {p} : Earlier(p, q)
            /\ todo' = todo \ {p}
            /\ \/ serving' \in {Nil, p} /\ UNCHANGED <<birth, prio>>
               \/ Bury({p}) /\ UNCHANGED serving
            /\ UNCHANGED passing

EndServe == /\ serving # Nil /\ serving' = Nil
            /\ UNCHANGED <<birth, prio>> \/ Bury({serving})
            /\ UNCHANGED <<passing, todo>>

EndPass == /\ passing /\ serving = Nil /\ todo = {}
           /\ passing' = FALSE
           /\ UNCHANGED <<birth, prio, todo, serving>>

Create(p, n) ==
  /\ p \notin Living
  /\ birth' = [birth EXCEPT ![p] = birth'[p]] /\ Youngest(p)
  /\ prio' = [prio EXCEPT ![p] = n]
  /\ todo' = IF passing /\ \A q \in Living \ todo : prio[q] <= n THEN todo \cup {p} ELSE todo
  /\ UNCHANGED <<passing, serving>>

Destroy(K) == /\ serving \notin K
              /\ Bury(K)
              /\ todo' = todo \ K
              /\ UNCHANGED <<passing, serving>>

(* Everything ends, the pass too, and one process begins.                  *)
StartOver(p, n) == /\ birth' = [q \in Procs |-> IF q = p THEN birth'[p] ELSE 0] /\ Youngest(p)
                   /\ prio' = [q \in Procs |-> IF q = p THEN n ELSE 0]
                   /\ passing' = FALSE /\ todo' = {} /\ serving' = Nil

Next == \/ StartPass \/ EndServe \/ EndPass
        \/ \E p \in Procs : Serve(p)
        \/ \E p \in Procs, n \in Priorities : Create(p, n) \/ StartOver(p, n)
        \/ \E K \in SUBSET Procs : Destroy(K)

Spec == Init /\ [][Next]_vars
===============================================================================
