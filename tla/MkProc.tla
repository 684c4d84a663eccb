-------------------------------- MODULE MkProc --------------------------------
(***************************************************************************)
(* The cooperative processes of runtime/mk_proc.c: blocks of mkproc_heap   *)
(* on one list of links ordered by priority, dispatched once a frame.  A   *)
(* process runs until it sleeps or dies; while it runs it may create and   *)
(* destroy others, look for one, lose or destroy process data, or start    *)
(* the whole system over with gamelogic_jump.  Destroying a process sets   *)
(* its instance to 0 and frees its block: its link stays on the list, and  *)
(* the next process may be given the same block.                           *)
(*                                                                         *)
(* The context switches (dispatch, sleep, mkproc_die) are assembly and are *)
(* modelled from their use.  A process's data is one header that lives or  *)
(* does not; its link is not counted among Links.                          *)
(***************************************************************************)
EXTENDS Integers, MkLinks

CONSTANTS Active,           \* &active_proc_list
          Priorities,
          Kinds,            \* fields of a new process: its flags and whether it has data
          MaxSleep,         \* bound on the ticks a process sleeps
          MaxInstance       \* bound on the instances given out

ASSUME ListAssumption == Lists = {Active}
ASSUME FieldsAssumption ==
         /\ Kinds \subseteq [priority : {0}, sleep_ticks : {0}, data : BOOLEAN,
                            one_shot : BOOLEAN, immune : BOOLEAN, keep : BOOLEAN]
         /\ Priorities \subseteq Int /\ MaxSleep \in Nat

VARIABLES mem,              \* the links (MkLinks)
          inst,             \* instance of every process, 0 when its block is free
          global_instance_ctr,
          proc,             \* the other fields of every process
          link,             \* dispatch_proc_list's local
          paused,
          aproc_nodestroy,  \* the process destroy refuses, Nil: none
          state             \* "idle" between passes, "walk", or "run" a process

vars == <<mem, inst, global_instance_ctr, proc,
          link, paused, aproc_nodestroy, state>>
procs == <<inst, global_instance_ctr, proc>>
pass == <<link, paused, aproc_nodestroy, state>>

(* The fields of a free block are written again before they are read: they *)
(* are cleared when the process dies.  sleep_ticks counts the passes that  *)
(* will not run the process (ticks rounded up, less one); one_shot is set  *)
(* for a process that has data and dies with it.                           *)
NoProc == [priority |-> 0, sleep_ticks |-> 0, data |-> FALSE,
           one_shot |-> FALSE, immune |-> FALSE, keep |-> FALSE]
NewProc(n, k) == [k EXCEPT !.priority = n]
Buried(K) == [b \in Hdrs |-> IF b \in K THEN NoProc ELSE proc[b]]

LiveProcs == {b \in Hdrs : inst[b] # 0}
aproc == mem.hdr[link]

Init == /\ \E s \in {SetToSeq(Links)} : mem = Pool(s)
        /\ inst = [b \in Hdrs |-> 0]
        /\ global_instance_ctr = 0
        /\ proc = [b \in Hdrs |-> NoProc]
        /\ link = Nil /\ paused = FALSE /\ aproc_nodestroy = Nil
        /\ state = "idle"

-----------------------------------------------------------------------------
(* mutant: a new process goes before its equals *)
insert_proc_by_priority_before_equals(m, i, b, f) ==
  LET p == m.head[Free]
      m1 == Take(m, i, b, TRUE)
      c == Chain(m1, Active)
      later == {q \in ToSet(c) : f[b].priority <= f[m1.hdr[q]].priority}
      m2 == AfterSearch(m1, i, c, later)
      at == FirstWanted(m1, i, c, later)
  IN IF at = Nil THEN AtEnd(m2, p, Active) ELSE Before(m2, p, at)

(* The new link is taken first, then the walk to its place gives stale     *)
(* links back.  The game sizes the pool so that there is a free link: with *)
(* none the code writes through a null pointer.                            *)
insert_proc_by_priority(m, i, b, f) ==
  LET p == m.head[Free]
      m1 == Take(m, i, b, TRUE)
      c == Chain(m1, Active)
      later == {q \in ToSet(c) : f[b].priority < f[m1.hdr[q]].priority}
      m2 == AfterSearch(m1, i, c, later)
      at == FirstWanted(m1, i, c, later)
  IN IF at = Nil THEN AtEnd(m2, p, Active) ELSE Before(m2, p, at)

(* mutant: the instance of the block's last process is used again *)
get_mkproc_same(b) == /\ inst[b] = 0
                      /\ inst' = [inst EXCEPT ![b] = 1]
                      /\ global_instance_ctr < MaxInstance
                      /\ global_instance_ctr' = global_instance_ctr + 1

(* get_mkproc_*: the heap gives a free block, the counter an instance      *)
get_mkproc(b) == /\ inst[b] = 0
                 /\ global_instance_ctr < MaxInstance
                 /\ global_instance_ctr' = global_instance_ctr + 1
                 /\ inst' = [inst EXCEPT ![b] = global_instance_ctr + 1]

(* create_mkproc.  A one-shot process without data is destroyed before it  *)
(* is inserted and leaves nothing behind.                                  *)
create_mkproc(b, n, k) ==
  /\ get_mkproc(b)
  /\ k.one_shot => k.data
  /\ mem.head[Free] # Nil
  /\ proc' = [proc EXCEPT ![b] = NewProc(n, k)]
  /\ mem' = insert_proc_by_priority(mem, inst', b, proc')
  /\ UNCHANGED pass

(* A process that creates another at once moves it to another priority     *)
(* with mkproc_change_priority, as p_sc_spear does: the link goes back to  *)
(* the pool and the same one is taken again.                               *)
create_then_change_priority(b, o, n, k) ==
  /\ get_mkproc(b)
  /\ k.one_shot => k.data
  /\ o # n
  /\ mem.head[Free] # Nil
  /\ proc' = [proc EXCEPT ![b] = NewProc(n, k)]
  /\ \E m \in {insert_proc_by_priority(mem, inst', b, [proc EXCEPT ![b] = NewProc(o, k)])} :
       mem' = insert_proc_by_priority(
                Discard(AfterFind(m, inst', b, Active), FindIn(m, inst', b, Active)),
                inst', b, proc')
  /\ UNCHANGED pass

(* mutant: the process that runs is not spared *)
Destroyable_any(b) == inst[b] # 0 /\ ~proc[b].keep

(* vdestroy_mkproc_*: whom it destroys                                     *)
Destroyable(b) == inst[b] # 0 /\ b # aproc_nodestroy /\ ~proc[b].keep

(* destroy_mkprocs_pid: whoever has the pid, found by a walk of the list.  *)
destroy_mkprocs_pid(K) ==
  /\ K # {} /\ K \subseteq LiveProcs
  /\ inst' = [b \in Hdrs |-> IF b \in K /\ Destroyable(b) THEN 0 ELSE inst[b]]
  /\ proc' = Buried({b \in K : Destroyable(b)})
  /\ mem' = AfterWalk(mem, inst, Active)
  /\ UNCHANGED <<global_instance_ctr, pass>>

(* find_mkproc_pid, for a pid that b has first, or nobody                  *)
find_mkproc_pid(b) ==
  /\ mem' = IF b \in LiveProcs THEN AfterFind(mem, inst, b, Active)
            ELSE AfterWalk(mem, inst, Active)
  /\ UNCHANGED <<procs, pass>>

(* The object that is a process's data is destroyed by somebody.           *)
DestroyData(b) == /\ proc[b].data
                  /\ proc' = [proc EXCEPT ![b].data = FALSE]
                  /\ UNCHANGED <<mem, inst, global_instance_ctr, pass>>

Operation == \/ \E b \in Hdrs : find_mkproc_pid(b) \/ DestroyData(b)
             \/ \E b \in Hdrs, n \in Priorities, k \in Kinds :
                  \/ create_mkproc(b, n, k)
                  \/ \E o \in Priorities : create_then_change_priority(b, o, n, k)
             \/ \E K \in SUBSET Hdrs : destroy_mkprocs_pid(K)
-----------------------------------------------------------------------------
(* dispatch_proc_list: the start and the end of a pass                     *)
StartPass == /\ state = "idle"
             /\ paused' \in BOOLEAN
             /\ link' = mem.head[Active]
             /\ state' = "walk"
             /\ UNCHANGED <<mem, aproc_nodestroy, procs>>

EndPass == /\ state = "walk" /\ link = Nil
           /\ state' = "idle"
           /\ paused' = FALSE
           /\ UNCHANGED <<mem, link, aproc_nodestroy, procs>>

StaleLink == /\ state = "walk" /\ link # Nil
             /\ ~Live(mem, inst, link)
             /\ mem' = Discard(mem, link)
             /\ link' = mem.next[link]
             /\ UNCHANGED <<paused, aproc_nodestroy, state, procs>>

AtLive == state = "walk" /\ link # Nil /\ Live(mem, inst, link)

Skipped == paused /\ ~proc[aproc].immune

(* Its time has not come: it is paused, or sleeps on.                      *)
Pass == /\ AtLive
        /\ aproc_nodestroy' = Nil
        /\ link' = mem.next[link]
        /\ \/ Skipped /\ UNCHANGED proc
           \/ /\ ~Skipped
              /\ proc[aproc].sleep_ticks > 0
              /\ proc' = [proc EXCEPT ![aproc].sleep_ticks = @ - 1]
        /\ UNCHANGED <<mem, paused, state, inst, global_instance_ctr>>

Due == /\ AtLive
       /\ ~Skipped
       /\ proc[aproc].sleep_ticks = 0

(* A one-shot process whose data is gone is destroyed, the hook before     *)
(* dispatch (pre_destroy) of any other may destroy it.  destroy leaves a   *)
(* process marked no_destroy alone.                                        *)
Lapse == /\ Due
         /\ (proc[aproc].one_shot /\ ~proc[aproc].data) \/ ~proc[aproc].keep
         /\ aproc_nodestroy' = Nil
         /\ IF proc[aproc].keep THEN UNCHANGED <<inst, proc>>
            ELSE inst' = [inst EXCEPT ![aproc] = 0] /\ proc' = Buried({aproc})
         /\ link' = mem.next[link]
         /\ UNCHANGED <<mem, paused, state, global_instance_ctr>>

(* dispatch: the process runs and cannot be destroyed.                     *)
Run == /\ Due
       /\ proc[aproc].one_shot => proc[aproc].data
       /\ aproc_nodestroy' = aproc
       /\ state' = "run"
       /\ UNCHANGED <<mem, link, paused, procs>>

(* sleep, jump_sleep *)
Sleep(t) == /\ state = "run"
            /\ proc' = [proc EXCEPT ![aproc].sleep_ticks = t]
            /\ link' = mem.next[link]
            /\ state' = "walk"
            /\ UNCHANGED <<mem, paused, aproc_nodestroy, inst, global_instance_ctr>>

(* mkproc_die *)
Die == /\ state = "run"
       /\ aproc_nodestroy' = Nil
       /\ inst' = [inst EXCEPT ![aproc] = 0]
       /\ proc' = Buried({aproc})
       /\ link' = mem.next[link]
       /\ state' = "walk"
       /\ UNCHANGED <<mem, paused, global_instance_ctr>>

(* gamelogic_jump: from the running process the system stack destroys all  *)
(* processes, no_destroy or not, lays links and list out anew, creates a   *)
(* process and jumps to the top of the frame loop; the pass is never taken *)
(* up again.  (get_clean_system creates several system processes; one      *)
(* stands for them.)                                                       *)
gamelogic_jump(b, n, k) ==
  /\ state = "run"
  /\ global_instance_ctr < MaxInstance
  /\ global_instance_ctr' = global_instance_ctr + 1
  /\ inst' = [c \in Hdrs |-> IF c = b THEN global_instance_ctr + 1 ELSE 0]
  /\ k.one_shot => k.data
  /\ proc' = [Buried(Hdrs) EXCEPT ![b] = NewProc(n, k)]
  /\ \E s \in {SetToSeq(Links)} : mem' = insert_proc_by_priority(Pool(s), inst', b, proc')
  /\ aproc_nodestroy' = Nil
  /\ link' = Nil /\ paused' = FALSE
  /\ state' = "idle"

Dispatch == \/ StartPass \/ EndPass \/ StaleLink \/ Pass \/ Lapse \/ Run
Finish == \/ \E t \in 0 .. MaxSleep : Sleep(t)
          \/ Die
          \/ \E b \in Hdrs, n \in Priorities, k \in Kinds : gamelogic_jump(b, n, k)

Next == \/ Dispatch
        \/ Finish
        \/ state # "walk" /\ Operation

Spec == Init /\ [][Next]_vars

-----------------------------------------------------------------------------
(* Sleeping times and instances stay in their ranges, the dispatcher runs  *)
(* a process of the list.                                                  *)
TypeOK == /\ \A b \in Hdrs : inst[b] <= global_instance_ctr /\ proc[b].sleep_ticks <= MaxSleep
          /\ state \in {"idle", "walk", "run"}
          /\ state = "run" => aproc_nodestroy # Nil

(* dispatch_proc_list goes on from link->next when the process it ran is   *)
(* done: whatever was created, destroyed, searched for or moved meanwhile, *)
(* its link is still on the list, and while a process runs it is alive.    *)
CursorOnList == /\ link # Nil => mem.list[link] = Active
                /\ state = "run" => Live(mem, inst, link)

OneLinkEach == \A b \in Hdrs : inst[b] # 0 =>
                 Cardinality({p \in Links : /\ mem.list[p] = Active
                                            /\ mem.hdr[p] = b
                                            /\ mem.stamp[p] = inst[b]}) = 1

LinksConserved == /\ WellLinked(mem)
                  /\ \A p \in Links : mem.list[p] \in {Active, Free}

(* A living process is on the list once, though its block and the links of *)
(* blocks that died are used again: it is not run twice in a pass, and no  *)
(* stale link comes back to life. Links circulate between the list and the *)
(* pool and none is lost.                                                  *)
LinksAccounted == TypeOK /\ LinksConserved /\ OneLinkEach

(* The links the pass has still to come to                                 *)
Ahead == ToSet(From(mem, IF state = "run" THEN mem.next[link] ELSE link))

Todo == {mem.hdr[p] : p \in {q \in Ahead : Live(mem, inst, q)}}
Prio == [b \in Hdrs |-> proc[b].priority]
Serving == IF state = "run" THEN aproc ELSE Nil

PS == INSTANCE ProcSchedule WITH Procs <- Hdrs, birth <- inst, prio <- Prio,
                                 passing <- state # "idle", todo <- Todo,
                                 serving <- Serving

(* The walk over links, stale ones among them, implements the schedule.    *)
ProcScheduleSpec == PS!Spec
===============================================================================
