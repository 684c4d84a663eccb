----------------------------- MODULE SectionFiles -----------------------------
(***************************************************************************)
(* How the game loads its sections: the files of a memory slot             *)
(* (runtime/section.c), their requests (section_slot_file.c), the archive  *)
(* ("SSF") they are members of (mk_fileinfo.c) and the handle the archive  *)
(* is open through (mk_hwfile.c).                                          *)
(*                                                                         *)
(* Requests to open a member are queued and made one at a time.  An open   *)
(* answers at once when the archive is open, and otherwise from the        *)
(* archive's own open callback; the answer starts the read, closes the     *)
(* request and makes the next open from inside itself.  Any of this may    *)
(* have to wait, and a wait either lets other processes run or, in a       *)
(* callback and wherever the code clears aproc, ticks the file system,     *)
(* which runs callbacks on top of the waiting call.  Calls are therefore   *)
(* frames on the stack of their process, or of Main, which ticks.          *)
(*                                                                         *)
(* All reads are made at one priority, so they end in the order they were  *)
(* started (MwFileServer).                                                 *)
(***************************************************************************)
EXTENDS Integers, Sequences, SequencesExt, FiniteSets

CONSTANTS Requests,     \* ssf_req_Pool (40)
          Handles,      \* handle_data (10)
          Slots,        \* memory slots
          SlotSize,     \* their size, in units of 0x80 bytes
          Files,        \* the blocks a file's entry may be in
          Members,      \* the members of archives
          Archive,      \* the archive a member is in
          Units,        \* the size of a member, in those units
          Cluster,      \* units a disc read is rounded up to (0x800 bytes)
          Main,         \* the main loop, which ticks the file system
          Loader,       \* the process that changes archives
          Procs,        \* the processes that load sections, Loader among them
          SlotsOf,      \* the slots each of them uses
          SavesAnytime, \* may the archive be put aside with opens pending?
          MaxFailures,  \* bound: opens of an archive that fail
          Nil

Archives == {Archive[m] : m \in Members}
Contexts == Procs \cup {Main}

ASSUME SizesAssumption == /\ Units \in [Members -> Nat \ {0}]
                          /\ SlotSize \in Nat /\ Cluster \in Nat \ {0}
ASSUME ProcsAssumption == Loader \in Procs /\ SlotsOf \in [Procs -> SUBSET Slots]
ASSUME FlagsAssumption == SavesAnytime \in BOOLEAN /\ MaxFailures \in Nat

VARIABLES
  \* the handles; current_ssf and previous_ssf; the linked open callback
  hw, cur, prev, attached, linked,
  \* the requests, their free list and queue, ssf_req_CurrentItem
  req, reqFree, queue, current,
  \* the reads under way, in order
  reads,
  \* the entries of files, and the chain of them in each slot
  file, slot,
  \* the frames of each context, and which of them has the processor
  stack, cpu,
  \* bound: opens of an archive that may still fail
  failures

fsVars == <<hw, cur, prev, attached, linked>>
reqVars == <<req, reqFree, queue, current>>
secVars == <<file, slot>>
cpuVars == <<stack, cpu>>
vars == <<fsVars, reqVars, reads, secVars, cpuVars, failures>>

NoHandle == [ssf |-> Nil, open |-> FALSE, command |-> "none", late |-> Nil, pos |-> Nil]
NoSsf == [ssf |-> Nil, handle |-> Nil]
NoReq == [ssf |-> Nil, member |-> Nil, owner |-> Nil, loading |-> FALSE,
          queued |-> FALSE, cancelled |-> FALSE, entry |-> FALSE,
          read |-> "none", src |-> Nil, at |-> 0]
NoFile == [member |-> Nil, at |-> 0, size |-> 0, req |-> Nil, loaded |-> Nil]

Init == /\ hw = [h \in Handles |-> NoHandle]
        /\ cur = NoSsf /\ prev = NoSsf /\ attached = FALSE /\ linked = Nil
        /\ req = [r \in Requests |-> NoReq]
        /\ \E s \in {SetToSeq(Requests)} : reqFree = s
        /\ queue = <<>> /\ current = Nil /\ reads = <<>>
        /\ file = [f \in Files |-> NoFile]
        /\ slot = [s \in Slots |-> <<>>]
        /\ stack = [c \in Contexts |-> <<>>] /\ cpu = Main
        /\ failures = MaxFailures

----------------------------------------------------------------------------
(* Calls and waits                                                         *)

Frame(at, arg) == [at |-> at, arg |-> arg]

At(c, l) == cpu = c /\ stack[c] # <<>> /\ Head(stack[c]).at = l
Arg(c) == Head(stack[c]).arg

(* Go on with the frames fs in place of the one on top; a process that has *)
(* nothing left to do sleeps.                                              *)
Continue(c, fs) ==
  /\ stack' = [stack EXCEPT ![c] = fs \o Tail(@)]
  /\ cpu' = IF c # Main /\ stack'[c] = <<>> THEN Main ELSE c

(* A process waits asleep unless aproc is 0, as it is in the main loop and *)
(* wherever it has been cleared for a wait, whose callbacks then run with  *)
(* it; the end of a callback, "detach", says whether this one does.        *)
Sleeps(c) == c # Main /\ \A i \in DOMAIN stack[c] :
                           stack[c][i].at = "detach" => stack[c][i].arg
ClearsAproc == {"seek", "switch", "restore", "cancel"}

OpenSettled(h) == h # Nil => hw[h].open \/ hw[h].command # "opening"

PendingOn(s) == /\ s # Nil
                /\ \/ current # Nil /\ req[current].ssf = s
                   \/ \E i \in DOMAIN queue : req[queue[i]].ssf = s

(* sec_slot_file_wait_for_load: the request to wait for, and two loops     *)
Answered(f, r) == \/ file[f].req # r \/ req[r].owner # f
                  \/ ~(req[r].loading /\ req[r].read = "none")
Arrived(r) == req[r].read # "reading"

WaitOver(fr) ==
  CASE fr.at = "wait_on_ssf" -> ~PendingOn(fr.arg)
    [] fr.at = "wait_answer" -> Answered(fr.arg.file, fr.arg.req)
    [] fr.at = "wait_read" -> Arrived(fr.arg.req)
    [] OTHER -> TRUE
BusyWaitOver(fr) ==
  CASE fr.at \in {"seek", "switch", "restore"} -> OpenSettled(cur.handle)
    [] fr.at = "cancel" -> Arrived(fr.arg.req)
    [] OTHER -> TRUE

Ready(c) == stack[c] = <<>> \/ (WaitOver(Head(stack[c])) /\ BusyWaitOver(Head(stack[c])))

(* The context c ticks the file system: the main loop does, whoever waits  *)
(* without sleeping, and whoever finds a read completed                    *)
(* (mwFileIsCommandCompleted).                                             *)
Ticks(c) == /\ cpu = c
            /\ IF stack[c] = <<>> THEN c = Main
               ELSE LET top == Head(stack[c])
                    IN \/ top.at \in {"wait_read", "cancel"} /\ Arrived(top.arg.req)
                       \/ ~BusyWaitOver(top)
                       \/ ~Sleeps(c) /\ ~WaitOver(top)

Sleep(c) == /\ cpu = c /\ stack[c] # <<>> /\ Sleeps(c)
            /\ ~WaitOver(Head(stack[c]))
            /\ cpu' = Main
            /\ UNCHANGED <<fsVars, reqVars, reads, secVars, stack, failures>>

Dispatch(p) == /\ cpu = Main /\ stack[Main] = <<>>
               /\ stack[p] # <<>> /\ Ready(p)
               /\ cpu' = p
               /\ UNCHANGED <<fsVars, reqVars, reads, secVars, stack, failures>>

----------------------------------------------------------------------------
(* Handles of files (mk_hwfile.c)                                          *)

FreeHandles == {h \in Handles : hw[h].ssf = Nil}

(* open_callback, from the tick of c; a linked callback runs in it         *)
OpenCallback(c, h, success) ==
  /\ Ticks(c)
  /\ hw[h].command = "opening"
  /\ failures' = IF success THEN failures ELSE failures - 1
  /\ failures' \in Nat
  /\ hw' = [hw EXCEPT ![h].open = success, ![h].late = Nil,
                      ![h].command = IF success THEN "none" ELSE "opened"]
  /\ IF hw[h].late = Nil THEN UNCHANGED stack
     ELSE stack' = [stack EXCEPT ![c] =
            <<Frame("seek", hw[h].late),
              Frame("answer", [req |-> linked, success |-> success]),
              Frame("detach", Sleeps(c) /\ Head(@).at \notin ClearsAproc)>> \o @]
  /\ UNCHANGED <<cur, prev, attached, linked, reqVars, reads, secVars, cpu>>

(* require_file_opened, when its wait is over; the command is freed        *)
Required(hs, h) == IF h = Nil \/ hs[h].open THEN hs
                   ELSE [hs EXCEPT ![h].command = "none"]

\* a bug: the handle does not go back to the pool
Closed_kept(hs, h) == IF h = Nil THEN hs ELSE [hs EXCEPT ![h].open = FALSE]

(* mk_hwfile_close: a handle that is neither open nor opening stays taken  *)
Closed(hs, h) == IF h = Nil \/ ~(hs[h].open \/ hs[h].command # "none") THEN hs
                 ELSE [hs EXCEPT ![h] = NoHandle]

\* a bug: nothing is sought if the file had to be waited for
seek_unless_late(c) ==
  /\ At(c, "seek") /\ OpenSettled(cur.handle)
  /\ hw' = IF \E i \in DOMAIN stack[c] : stack[c][i].at = "detach" THEN hw
           ELSE [hw EXCEPT ![cur.handle].pos = Arg(c)]
  /\ Continue(c, <<>>)
  /\ UNCHANGED <<cur, prev, attached, linked, reqVars, reads, secVars, failures>>

(* mk_hwfile_seek on the current archive, which may have to wait for it    *)
seek(c) ==
  /\ At(c, "seek") /\ OpenSettled(cur.handle)
  /\ LET hs == Required(hw, cur.handle)
     IN hw' = IF cur.handle # Nil /\ hs[cur.handle].open
              THEN [hs EXCEPT ![cur.handle].pos = Arg(c)] ELSE hs
  /\ Continue(c, <<>>)
  /\ UNCHANGED <<cur, prev, attached, linked, reqVars, reads, secVars, failures>>

----------------------------------------------------------------------------
(* Archives (mk_fileinfo.c)                                                *)

wait_on_ssf(c) ==
  /\ At(c, "wait_on_ssf") /\ ~PendingOn(Arg(c))
  /\ Continue(c, <<>>)
  /\ UNCHANGED <<fsVars, reqVars, reads, secVars, failures>>

LoadFrames(s) == <<Frame("wait_on_ssf", cur.ssf), Frame("switch", s)>>

(* the end of load_ssf: close the current archive, open s                  *)
switch(c) ==
  /\ At(c, "switch") /\ OpenSettled(cur.handle)
  /\ LET hs == Closed(Required(hw, cur.handle), cur.handle)
         free == {h \in Handles : hs[h].ssf = Nil}
     IN IF free = {} THEN hw' = hs /\ cur' = [ssf |-> Arg(c), handle |-> Nil]
        ELSE \E h \in free :
               /\ hw' = [hs EXCEPT ![h] = [NoHandle EXCEPT !.ssf = Arg(c),
                                                           !.command = "opening"]]
               /\ cur' = [ssf |-> Arg(c), handle |-> h]
  /\ Continue(c, <<>>)
  /\ UNCHANGED <<prev, attached, linked, reqVars, reads, secVars, failures>>

(* the end of restore_previous_ssf                                         *)
restore(c) ==
  /\ At(c, "restore") /\ OpenSettled(cur.handle)
  /\ hw' = Closed(Required(hw, cur.handle), cur.handle)
  /\ cur' = prev /\ prev' = NoSsf
  /\ Continue(c, <<>>)
  /\ UNCHANGED <<attached, linked, reqVars, reads, secVars, failures>>

(* ssf_member_open_async_withcallback: answer now, or from the callback of *)
(* the archive's open if that can be linked                                *)
member(c) ==
  /\ At(c, "member")
  /\ LET r == Arg(c)
         h == cur.handle
         now == <<Frame("seek", req[r].member),
                  Frame("answer", [req |-> r, success |-> TRUE])>>
         linkable == ~hw[h].open /\ hw[h].command # "none" /\ hw[h].late = Nil
     IN IF hw[h].open \/ attached
        THEN Continue(c, now) /\ UNCHANGED <<hw, attached, linked>>
        ELSE /\ linked' = r
             /\ attached' = linkable
             /\ IF linkable
                THEN Continue(c, <<>>) /\ hw' = [hw EXCEPT ![h].late = req[r].member]
                ELSE Continue(c, now) /\ UNCHANGED hw
  /\ UNCHANGED <<cur, prev, reqVars, reads, secVars, failures>>

(* the end of ssf_member_open_async_callback                               *)
detach(c) == /\ At(c, "detach")
             /\ attached' = FALSE
             /\ Continue(c, <<>>)
             /\ UNCHANGED <<hw, cur, prev, linked, reqVars, reads, secVars, failures>>

----------------------------------------------------------------------------
(* Requests (section_slot_file.c)                                          *)

NextOf(f) == LET later == {g \in Files : \E s \in Slots :
                             \E i \in 2 .. Len(slot[s]) :
                               slot[s][i - 1] = f /\ slot[s][i] = g}
             IN IF later = {} THEN Nil ELSE CHOOSE g \in later : TRUE

(* the next file in the slot, if it has no buffer yet, begins where f ends *)
GiveNext(fs, f) ==
  LET g == NextOf(f)
  IN IF fs[f].at # 0 /\ g # Nil /\ fs[g].at = 0
     THEN [fs EXCEPT ![g].at = fs[f].at + fs[f].size] ELSE fs

RoundedUp(n) == ((n + Cluster - 1) \div Cluster) * Cluster

\* a bug: the size is not rounded up to what is read
Fits_exactly(f, m) == file[f].at # 0 /\ file[f].at - 1 + Units[m] <= SlotSize

(* a file without a buffer is as good as too large for its slot            *)
Fits(f, m) == file[f].at # 0 /\ file[f].at - 1 + RoundedUp(Units[m]) <= SlotSize

(* recycle_request                                                         *)
Recycle(r) == req' = [req EXCEPT ![r] = NoReq] /\ reqFree' = <<r>> \o reqFree

(* the beginning of an open, after it has been taken from the queue        *)
start(c) ==
  /\ At(c, "start")
  /\ LET r == Arg(c)
         s == req[r].ssf
     IN IF cur.ssf = s THEN Continue(c, <<Frame("member", r)>>)
        ELSE Continue(c, LoadFrames(s) \o <<Frame("member", r)>> \o
                         (IF cur.ssf = Nil THEN <<>> ELSE <<Frame("load", cur.ssf)>>))
  /\ UNCHANGED <<fsVars, reqVars, reads, secVars, failures>>

load(c) == /\ At(c, "load")
           /\ Continue(c, IF cur.ssf = Nil THEN <<Frame("switch", Arg(c))>>
                                           ELSE LoadFrames(Arg(c)))
           /\ UNCHANGED <<fsVars, reqVars, reads, secVars, failures>>

(* start_next_queued_request                                               *)
start_next(c) ==
  /\ At(c, "start_next")
  /\ IF queue = <<>>
     THEN current' = Nil /\ Continue(c, <<>>) /\ UNCHANGED <<queue, req>>
     ELSE /\ current' = Head(queue) /\ queue' = Tail(queue)
          /\ req' = [req EXCEPT ![Head(queue)].queued = FALSE]
          /\ Continue(c, <<Frame("start", Head(queue))>>)
  /\ UNCHANGED <<fsVars, reqFree, reads, secVars, failures>>

recycle(c) == /\ At(c, "recycle") /\ Recycle(Arg(c))
              /\ Continue(c, <<>>)
              /\ UNCHANGED <<fsVars, queue, current, reads, secVars, failures>>

\* a bug: a cancelled request is not recycled
answer_cancelled_leaks(c) ==
  /\ At(c, "answer")
  /\ req[Arg(c).req].cancelled
  /\ req' = [req EXCEPT ![Arg(c).req].loading = FALSE, ![Arg(c).req].entry = FALSE]
  /\ Continue(c, <<Frame("start_next", Nil)>>)
  /\ UNCHANGED <<fsVars, reqFree, queue, current, reads, secVars, failures>>

(* sec_slot_file_queue_open_callback for a request that was cancelled      *)
answer_cancelled(c) ==
  /\ At(c, "answer")
  /\ LET r == Arg(c).req
     IN /\ req[r].cancelled
        /\ req' = [req EXCEPT ![r].loading = FALSE, ![r].entry = FALSE]
        /\ Continue(c, <<Frame("start_next", Nil), Frame("recycle", r)>>)
  /\ UNCHANGED <<fsVars, reqFree, queue, current, reads, secVars, failures>>

(* sec_slot_file_queue_open_callback with priv_sec_slot_file_read_all:     *)
(* start the read if the file fits, and close the request                  *)
answer(c) ==
  /\ At(c, "answer")
  /\ LET r == Arg(c).req
         f == req[r].owner
         ok == Arg(c).success
         h == cur.handle
         m == req[r].member
         begun == ok /\ f # Nil /\ Fits(f, m) /\ h # Nil /\ hw[h].open
         opened == [req EXCEPT ![r].loading = FALSE, ![r].entry = ok]
         rest == Frame("answered", [req |-> r, success |-> ok])
     IN /\ ~req[r].cancelled
        /\ IF ok /\ f # Nil
           THEN /\ file' = GiveNext(IF Fits(f, m)
                                    THEN [file EXCEPT ![f].size = Units[m]]
                                    ELSE file, f)
                /\ Continue(c, <<Frame("close", f), rest>>)
           ELSE Continue(c, <<rest>>) /\ UNCHANGED file
        /\ req' = IF begun THEN [opened EXCEPT ![r].read = "reading",
                                               ![r].src = [ssf |-> hw[h].ssf,
                                                           member |-> hw[h].pos],
                                               ![r].at = file[f].at]
                           ELSE opened
        /\ reads' = IF begun THEN Append(reads, r) ELSE reads
        /\ hw' = IF begun THEN [hw EXCEPT ![h].pos = Nil] ELSE hw
  /\ UNCHANGED <<cur, prev, attached, linked, reqFree, queue, current, slot, failures>>

(* its end, which looks at the request again: after a failure the file is  *)
(* left with no size                                                       *)
answered(c) ==
  /\ At(c, "answered")
  /\ LET f == req[Arg(c).req].owner
     IN IF Arg(c).success \/ f = Nil
        THEN Continue(c, <<>>) /\ UNCHANGED file
        ELSE /\ file' = [GiveNext(file, f) EXCEPT ![f].size = 0]
             /\ Continue(c, <<Frame("close", f)>>)
  /\ UNCHANGED <<fsVars, reqVars, reads, slot, failures>>

(* sec_slot_file_close_file, in two parts about the start of the next open *)
close(c) ==
  /\ At(c, "close")
  /\ LET f == Arg(c)
         r == file[f].req
     IN IF r = Nil THEN Continue(c, <<>>) /\ UNCHANGED <<req, current>>
        ELSE /\ req' = [req EXCEPT ![r].entry = FALSE]
             /\ current' = IF current = r THEN Nil ELSE current
             /\ Continue(c, (IF current = r THEN <<Frame("start_next", Nil)>> ELSE <<>>)
                            \o <<Frame("closed", [file |-> f, req |-> r])>>)
  /\ UNCHANGED <<fsVars, reqFree, queue, reads, secVars, failures>>

closed(c) ==
  /\ At(c, "closed")
  /\ LET r == Arg(c).req
     IN IF req[r].read # "none" THEN UNCHANGED <<req, reqFree, file>>
        ELSE Recycle(r) /\ file' = [file EXCEPT ![Arg(c).file].req = Nil]
  /\ Continue(c, <<>>)
  /\ UNCHANGED <<fsVars, queue, current, reads, slot, failures>>

(* the oldest read ends, which a tick makes known                          *)
ReadEnds == /\ \E c \in Contexts : Ticks(c)
            /\ reads # <<>>
            /\ req' = [req EXCEPT ![Head(reads)].read = "read"]
            /\ reads' = Tail(reads)
            /\ UNCHANGED <<fsVars, reqFree, queue, current, secVars, cpuVars, failures>>
----------------------------------------------------------------------------
(* The files of a slot (section.c)                                         *)

(* one file is released: its data if it was loaded, or its request         *)
(* (release_slot_file_data, sec_slot_file_cancel_async)                    *)
Released(fs, f) == [fs EXCEPT ![f].loaded = Nil, ![f].member = Nil]

\* a bug: the request being opened keeps its owner
CancelledOpen_owned(r) == [req EXCEPT ![r].cancelled = TRUE]

CancelledOpen(r) == [req EXCEPT ![r].cancelled = TRUE, ![r].owner = Nil]

release_loaded(c) ==
  /\ At(c, "release") /\ file[Arg(c)].loaded # Nil
  /\ file' = Released(file, Arg(c))
  /\ Continue(c, <<>>)
  /\ UNCHANGED <<fsVars, reqVars, reads, slot, failures>>

release_unloaded(c) ==
  /\ At(c, "release") /\ file[Arg(c)].loaded = Nil
  /\ LET f == Arg(c)
         r == file[f].req
         fs == Released(GiveNext(file, f), f)
         rest == IF r # Nil /\ ~req[r].queued /\ r # current /\ req[r].read # "none"
                 THEN <<Frame("cancel", [req |-> r, file |-> f])>> ELSE <<>>
     IN /\ IF r = Nil THEN UNCHANGED reqVars /\ file' = fs
           ELSE IF req[r].queued
           THEN /\ queue' = SelectSeq(queue, LAMBDA q : q # r)
                /\ Recycle(r) /\ UNCHANGED current
                /\ file' = [fs EXCEPT ![f].req = Nil]
           ELSE IF r = current
           THEN /\ req' = CancelledOpen(r)
                /\ file' = [fs EXCEPT ![f].req = Nil]
                /\ UNCHANGED <<reqFree, queue, current>>
           ELSE UNCHANGED reqVars /\ file' = fs
        /\ Continue(c, rest)
  /\ UNCHANGED <<fsVars, reads, slot, failures>>

(* its read has been aborted (mk_hwfile_cancel), and has come to its end   *)
cancel(c) ==
  /\ At(c, "cancel") /\ Arrived(Arg(c).req)
  /\ LET r == Arg(c).req
     IN IF req[r].entry
        THEN req' = [req EXCEPT ![r].read = "none"] /\ UNCHANGED <<reqFree, file>>
        ELSE Recycle(r) /\ file' = [file EXCEPT ![Arg(c).file].req = Nil]
  /\ Continue(c, <<>>)
  /\ UNCHANGED <<fsVars, queue, current, reads, slot, failures>>

(* the entries are given back, and the slot keeps its first n              *)
free_files(c) ==
  /\ At(c, "free_files")
  /\ LET s == Arg(c).slot
         gone == {slot[s][i] : i \in Arg(c).keep + 1 .. Len(slot[s])}
     IN /\ slot' = [slot EXCEPT ![s] = SubSeq(@, 1, Arg(c).keep)]
        /\ file' = [f \in Files |-> IF f \in gone THEN NoFile ELSE file[f]]
  /\ Continue(c, <<>>)
  /\ UNCHANGED <<fsVars, reqVars, reads, failures>>

Entries == {f \in Files : \A s \in Slots : ~Contains(slot[s], f)}

(* add_art_section_async, add_anim_section_async: a new file at the end of *)
(* the slot (append_slot_file) and a request for it, which is made at once *)
(* if there is no other (enqueue_request)                                  *)
add(c) ==
  /\ At(c, "add") /\ reqFree # <<>>
  /\ \E f \in Entries :
       LET s == Arg(c).slot
           m == Arg(c).member
           r == Head(reqFree)
           tail == file[Last(slot[s])]
           at == IF slot[s] = <<>> THEN 1
                 ELSE IF tail.size = 0 THEN 0 ELSE tail.at + tail.size
           q == Append(queue, r)
           first == current = Nil
       IN /\ slot' = [slot EXCEPT ![s] = Append(@, f)]
          /\ file' = [file EXCEPT ![f] = [NoFile EXCEPT !.member = m, !.at = at,
                                                        !.req = r]]
          /\ reqFree' = Tail(reqFree)
          /\ req' = [req EXCEPT ![r] = [NoReq EXCEPT !.ssf = cur.ssf, !.member = m,
                                          !.owner = f, !.loading = TRUE,
                                          !.queued = ~(first /\ Head(q) = r)]]
          /\ current' = IF first THEN Head(q) ELSE current
          /\ queue' = IF first THEN Tail(q) ELSE q
          /\ Continue(c, IF first THEN <<Frame("start", Head(q))>> ELSE <<>>)
  /\ UNCHANGED <<fsVars, reads, failures>>

(* wait_for_slot_load, at file f: wait for its request and its read, ...   *)
wait_file(c) ==
  /\ At(c, "wait_file")
  /\ LET f == Arg(c)
         r == file[f].req
         both == [file |-> f, req |-> r]
         next == Frame("wait_next", f)
     IN Continue(c, IF file[f].loaded # Nil THEN <<next>>
                    ELSE IF r = Nil THEN <<Frame("process", f), next>>
                    ELSE <<Frame("wait_answer", both), Frame("process", f), next>>)
  /\ UNCHANGED <<fsVars, reqVars, reads, secVars, failures>>

wait_answer(c) ==
  /\ At(c, "wait_answer") /\ WaitOver(Head(stack[c]))
  /\ LET a == Arg(c)
     IN Continue(c, IF file[a.file].req # a.req \/ req[a.req].owner # a.file
                    THEN <<>> ELSE <<Frame("wait_read", a)>>)
  /\ UNCHANGED <<fsVars, reqVars, reads, secVars, failures>>

wait_read(c) ==
  /\ At(c, "wait_read") /\ WaitOver(Head(stack[c]))
  /\ Continue(c, <<>>)
  /\ UNCHANGED <<fsVars, reqVars, reads, secVars, failures>>

(* ... use what has been read (process_art_section_data), which frees the  *)
(* request (sec_slot_file_free_async); without a read there is no section  *)
(* in the buffer and nothing is done, ...                                  *)
process(c) ==
  /\ At(c, "process")
  /\ LET f == Arg(c)
         r == file[f].req
     IN IF file[f].loaded = Nil /\ r # Nil /\ req[r].read = "read"
        THEN /\ file' = [file EXCEPT ![f].loaded = req[r].src,
                                     ![f].req = IF req[r].entry THEN r ELSE Nil]
             /\ IF req[r].entry
                THEN req' = [req EXCEPT ![r].read = "none"] /\ UNCHANGED reqFree
                ELSE Recycle(r)
        ELSE UNCHANGED <<file, req, reqFree>>
  /\ Continue(c, <<>>)
  /\ UNCHANGED <<fsVars, queue, current, reads, slot, failures>>

\* a bug: the walk does not advance
wait_next_same(c) ==
  /\ At(c, "wait_next")
  /\ Continue(c, <<Frame("wait_file", Arg(c))>>)
  /\ UNCHANGED <<fsVars, reqVars, reads, secVars, failures>>

(* ... and go on to the next                                               *)
wait_next(c) ==
  /\ At(c, "wait_next")
  /\ LET g == NextOf(Arg(c))
     IN Continue(c, IF g = Nil THEN <<>> ELSE <<Frame("wait_file", g)>>)
  /\ UNCHANGED <<fsVars, reqVars, reads, secVars, failures>>

----------------------------------------------------------------------------
(* What the processes ask for                                              *)

Call(p, fs) == /\ cpu = Main /\ stack[Main] = <<>> /\ stack[p] = <<>>
               /\ stack' = [stack EXCEPT ![p] = fs] /\ cpu' = p
               /\ UNCHANGED <<fsVars, reqVars, reads, secVars, failures>>

ReleaseFrames(s, keep) ==
  [i \in 1 .. Len(slot[s]) - keep |-> Frame("release", slot[s][keep + i])]
    \o <<Frame("free_files", [slot |-> s, keep |-> keep])>>

load_ssf(s) == /\ s # cur.ssf
               /\ Call(Loader, <<Frame("load", s)>>)

(* The one caller of save_current_ssf has waited for a file of the current *)
(* archive before, so that it is open.                                     *)
save_current_ssf == /\ cpu = Main /\ stack[Main] = <<>> /\ stack[Loader] = <<>>
                    /\ prev = NoSsf /\ cur # NoSsf
                    /\ SavesAnytime \/ hw[cur.handle].open
                    /\ prev' = cur /\ cur' = NoSsf
                    /\ UNCHANGED <<hw, attached, linked, reqVars, reads, secVars,
                                   cpuVars, failures>>
restore_previous_ssf ==
  /\ prev # NoSsf
  /\ Call(Loader, (IF cur.ssf = Nil THEN <<>> ELSE <<Frame("wait_on_ssf", cur.ssf)>>)
                     \o <<Frame("restore", Nil)>>)

(* a section of the current archive that is not in the slot yet            *)
Offered(s, m) == /\ cur.ssf = Archive[m] /\ Entries # {}
                 /\ \A i \in DOMAIN slot[s] : file[slot[s][i]].member # m

add_section(p, s, m) == /\ Offered(s, m)
                        /\ Call(p, <<Frame("add", [slot |-> s, member |-> m])>>)
load_section(p, s, m) ==
  /\ slot[s] # <<>> /\ cur.ssf = Archive[m]
  /\ ~(Len(slot[s]) = 1 /\ file[slot[s][1]].member = m)
  /\ Call(p, ReleaseFrames(s, 0) \o <<Frame("add", [slot |-> s, member |-> m])>>)

unload_section_slot(p, s) == slot[s] # <<>> /\ Call(p, ReleaseFrames(s, 0))

(* Its callers unload the last file of a slot, and not the only one.       *)
unload_section_slot_file(p, s) ==
  Len(slot[s]) > 1 /\ Call(p, ReleaseFrames(s, Len(slot[s]) - 1))

wait_for_slot_load(p, s) ==
  slot[s] # <<>> /\ Call(p, <<Frame("wait_file", slot[s][1])>>)

Ask(p) == \E s \in SlotsOf[p] :
            \/ \E m \in Members : add_section(p, s, m) \/ load_section(p, s, m)
            \/ unload_section_slot(p, s) \/ unload_section_slot_file(p, s)
            \/ wait_for_slot_load(p, s)
AskLoader == \/ \E s \in Archives : load_ssf(s)
             \/ save_current_ssf \/ restore_previous_ssf

Step(c) == \/ seek(c) \/ wait_on_ssf(c) \/ switch(c) \/ restore(c) \/ member(c)
           \/ detach(c) \/ start(c) \/ load(c) \/ start_next(c) \/ recycle(c)
           \/ answer_cancelled(c) \/ answer(c) \/ answered(c) \/ close(c) \/ closed(c)
           \/ release_loaded(c) \/ release_unloaded(c) \/ cancel(c) \/ free_files(c)
           \/ add(c) \/ wait_file(c) \/ wait_answer(c) \/ wait_read(c) \/ process(c)
           \/ wait_next(c)

OpenEnds == \E c \in Contexts, h \in Handles, ok \in BOOLEAN : OpenCallback(c, h, ok)

Next == \/ \E p \in Procs : Ask(p) \/ Dispatch(p) \/ Sleep(p)
        \/ AskLoader
        \/ \E c \in Contexts : Step(c)
        \/ OpenEnds \/ ReadEnds

Spec == Init /\ [][Next]_vars

(* Whoever has the processor goes on; the main loop ticks the file system  *)
(* in every frame, and the disc ends what it has begun; each pass of the   *)
(* dispatcher looks at every process that waits.                           *)
Live == /\ WF_vars(\E c \in Contexts : Step(c))
        /\ SF_vars(\E c \in Contexts, h \in Handles : OpenCallback(c, h, TRUE))
        /\ SF_vars(ReadEnds)
        /\ \A p \in Procs : SF_vars(Dispatch(p)) /\ WF_vars(Sleep(p))
FairSpec == Spec /\ Live

----------------------------------------------------------------------------
(* Properties                                                              *)

Frames == UNION {{stack[c][i] : i \in DOMAIN stack[c]} : c \in Contexts}
Tops == {Head(stack[c]) : c \in {d \in Contexts : stack[d] # <<>>}}
Kept(f) == \E s \in Slots : Contains(slot[s], f)
HasData(f) == f.loaded # Nil \/ (f.req # Nil /\ req[f.req].read = "read")
Quiet(f) == f.req # Nil => req[f.req].read # "reading"
Sound(f) == [ssf |-> Archive[file[f].member], member |-> file[f].member]

TypeOK == /\ IsInjective(reqFree) /\ IsInjective(queue) /\ IsInjective(reads)
          /\ current \in Requests \cup {Nil} /\ ToSet(queue) \subseteq Requests
          /\ \A r \in ToSet(reqFree) : req[r] = NoReq
          /\ cpu \in Contexts

\* Something goes on with every request that is taken.
InUse ==
  \A r \in Requests :
    LET queued == Contains(queue, r)
        reading == \E f \in Files : file[f].req = r /\ req[r].read # "none"
        inHand == \E fr \in Frames :
                    \/ fr.at = "recycle" /\ fr.arg = r
                    \/ fr.at \in {"closed", "answer", "cancel"} /\ fr.arg.req = r
    IN /\ Contains(reqFree, r) => ~queued /\ r # current /\ ~reading
       /\ ~Contains(reqFree, r) => queued \/ r = current \/ reading \/ inHand
       /\ queued <=> req[r].queued

NeverExhausted == \A fr \in Tops : fr.at = "add" => reqFree # <<>>

(* A file and its request point to each other, and only the files of a     *)
(* slot have one: a callback, and what is left of it after a completion    *)
(* has recycled its request, finds no file that has been given back.       *)
OwnersAgree == /\ \A f \in Files : file[f].req # Nil => req[file[f].req].owner = f
               /\ \A r \in Requests : req[r].owner # Nil =>
                     Kept(req[r].owner) /\ file[req[r].owner].req = r

(* A request that is taken is known to the queue, to a file that reads     *)
(* with it, or to a call that has yet to end: completions that recycle     *)
(* from inside one another lose none, recycle none twice, and leave no     *)
(* file or request pointing at what was given back. There is one for every *)
(* file that is added.                                                     *)
RequestsAccounted == TypeOK /\ InUse /\ NeverExhausted /\ OwnersAgree

(* A read under way writes to the buffer of its file and not past the end  *)
(* of the slot, files lie behind one another, and what a read writes past  *)
(* its file, being rounded up, is there before the next file is.           *)
BuffersKept ==
  /\ \A i \in DOMAIN reads :
       LET r == reads[i]
           f == req[r].owner
       IN /\ f # Nil /\ req[r].at = file[f].at
          /\ req[r].at - 1 + RoundedUp(Units[req[r].member]) <= SlotSize
  /\ \A s \in Slots : \A i, j \in DOMAIN slot[s] :
       LET f == file[slot[s][i]]
           g == file[slot[s][j]]
       IN i < j /\ g.at # 0 =>
            /\ f.at # 0 /\ f.at + f.size <= g.at
            /\ HasData(g) => Quiet(f)

\* wait_for_slot_load uses a file that was given a place only once it has been read
ProcessesRead == \A fr \in Tops : fr.at = "process" =>
                   file[fr.arg].size = 0 \/ HasData(file[fr.arg])

(* What a file is read from is the member it asked for: the one position   *)
(* of the archive and the one linked callback are not another request's.   *)
(* It is used once it has been read and not before.                        *)
RightMember == /\ \A f \in Files :
                    /\ file[f].loaded # Nil => file[f].loaded = Sound(f)
                    /\ file[f].req # Nil /\ file[f].member # Nil
                         /\ req[file[f].req].read # "none" => req[file[f].req].src = Sound(f)
               /\ ProcessesRead

\* load_ssf, waiting for the requests before it, does not wait for what comes after
PendingIsCurrent == \A r \in ToSet(queue) \cup ({current} \ {Nil}) : req[r].ssf = cur.ssf

AnswersWhenOpen == \A fr \in Tops : fr.at = "answer" /\ fr.arg.success =>
                     cur.handle # Nil /\ hw[cur.handle].open

(* The handles taken are those of the current and the previous archive, an *)
(* open is answered with success only when the archive is open, and what   *)
(* waits is for the current archive.                                       *)
HandlesAccounted == /\ Handles \ FreeHandles = {cur.handle, prev.handle} \ {Nil}
                    /\ cur.ssf # Nil => cur.handle # Nil
                    /\ AnswersWhenOpen /\ PendingIsCurrent

(* Every call of a process ends.                                           *)
EveryCallEnds == \A p \in Procs : stack[p] # <<>> ~> stack[p] = <<>>

===============================================================================
