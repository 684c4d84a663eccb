---------------------------- MODULE MwFileServer ----------------------------
(***************************************************************************)
(* The asynchronous file system of the game (mw/mwFileServer.cpp,          *)
(* mwFileCommand.cpp, mwFilePlugin.cpp, mwFileGCPlatform.cpp): four actors *)
(* share a set of commands.                                                *)
(*                                                                         *)
(*   game thread     starts, aborts and frees commands and, in mwFileTick, *)
(*                   runs the completion callbacks (OS priority 16)        *)
(*   service thread  mwFileServerManagerMultiThreaded::serviceThread, runs *)
(*                   the commands' state machines (priority 10)            *)
(*   wakeup thread   gcnDriver::wakeupThreadThunk, gives a command its     *)
(*                   reference back when a disc read ends (priority 9)     *)
(*   disc interrupt  mwFileGCIOMixIn::gcCallbackThunk                      *)
(*                                                                         *)
(* A section under the server's or the manager's mutex is one step, and so *)
(* is a run of statements that touches nothing another actor writes.  The  *)
(* wakeup thread has the highest priority of the three threads: once the   *)
(* interrupt has queued a message for it, neither of the others takes a    *)
(* step before the queue is empty again (NoWakeupDue).  The service thread *)
(* outranks the game thread too, but nothing below depends on it: with     *)
(* GameYields = FALSE the two interleave freely, as they would if the game *)
(* started commands from a thread of higher priority.                      *)
(***************************************************************************)
EXTENDS Integers, Sequences, SequencesExt

CONSTANTS NumCommands,    \* bound: how many commands are ever started
          Jobs,           \* what a command may be asked to do
          Abortable,      \* the commands whose caller may abort them
          Files,          \* open files, each with one read buffer
          WakeupSlots,    \* entries of wakeup_messages (32)
          CallbackSlots,  \* capacity of the callbacks queue (max_commands)
          GameYields,     \* TRUE: the game thread runs only while the service
                          \* thread is blocked; FALSE: they interleave freely
          None            \* the null pointer

Commands == 1 .. NumCommands   \* command objects, numbered as they are created

Priorities == 0 .. 2           \* indices of active[3]

Kinds == {"open", "close", "unbuffered", "buffered"}

(* chunks: disc reads of at most 0x20000 bytes an unbuffered read is cut   *)
(* into; for a buffered read, the buffer fills it needs                    *)
JobType == [kind : Kinds, prio : Priorities, file : Files, chunks : Nat]

ASSUME CommandsAssumption == NumCommands \in Nat /\ Abortable \subseteq Commands
ASSUME NoneAssumption == None \notin Commands
ASSUME JobsAssumption == /\ Jobs \subseteq JobType
                         /\ \A j \in Jobs : j.kind = "unbuffered" => j.chunks > 0
ASSUME SlotsAssumption == /\ WakeupSlots \in Nat /\ WakeupSlots >= 3
                          /\ CallbackSlots \in Nat \ {0}
ASSUME SchedulingAssumption == GameYields \in BOOLEAN

VARIABLES
  \* fields of mwFileCommand and mwFileCommandPluginBase
  job, life, signalState, refs, aborted, pendingDelete, error,
  \* fields of mwFileGCIOMixIn
  busy, ioError, left, done,
  \* mwFileServerQueued, and buffer_locked of each file
  pending, ready, active, activeCount, bufferOwner,
  \* the service thread: where it is, the command it serves, service()'s local state
  svc, cur, state,
  \* gcnDriver::wakeup_queue and the manager's callbacks
  wakeupQueue, callbacks,
  \* the game thread: where it is, the callbacks it is inside, callbacks run
  game, frames, delivered

cmdVars == <<job, life, signalState, refs, aborted, pendingDelete, error>>
ioVars == <<busy, ioError, left, done>>
serverVars == <<pending, ready, active, activeCount, bufferOwner>>
svcVars == <<svc, cur, state>>
queueVars == <<wakeupQueue, callbacks>>
gameVars == <<game, frames, delivered>>
vars == <<cmdVars, ioVars, serverVars, svcVars, queueVars, gameVars>>

States == {"NotStarted", "Completed", "Signal", "Finished", "Reading", "Filling"}
Errors == {"none", "aborted", "failed"}

Init == /\ job = [c \in Commands |-> None]
        /\ life = [c \in Commands |-> "unborn"]
        /\ signalState = [c \in Commands |-> "NotStarted"]
        /\ refs = [c \in Commands |-> 0]
        /\ aborted = [c \in Commands |-> FALSE]
        /\ pendingDelete = [c \in Commands |-> FALSE]
        /\ error = [c \in Commands |-> "none"]
        /\ busy = [c \in Commands |-> FALSE]
        /\ ioError = [c \in Commands |-> "none"]
        /\ left = [c \in Commands |-> 0]
        /\ done = [c \in Commands |-> 0]
        /\ pending = <<>> /\ ready = <<>>
        /\ active = [p \in Priorities |-> None]
        /\ activeCount = 0
        /\ bufferOwner = [f \in Files |-> None]
        /\ svc = "check" /\ cur = None /\ state = "NotStarted"
        /\ wakeupQueue = <<>> /\ callbacks = <<>>
        /\ game = "run" /\ frames = <<>>
        /\ delivered = [c \in Commands |-> 0]

(* mutant: the wakeup thread does not outrank the others *)
NoWakeupDue_unranked == TRUE

(* OSSendMessage makes the wakeup thread ready, and it preempts both other *)
(* threads when the interrupt returns.                                     *)
NoWakeupDue == wakeupQueue = <<>>

GameMayRun == /\ NoWakeupDue
              /\ GameYields => \/ svc = "asleep"
                               \/ svc = "post" /\ Len(callbacks) = CallbackSlots

----------------------------------------------------------------------------
(* The server and its activity, as seen by whoever asks.                   *)

Occupied == {p \in Priorities : active[p] # None}

FirstActive == active[CHOOSE p \in Occupied : \A q \in Occupied : p <= q]

(* mwFileServerQueued::queryActive: only the first occupied slot counts    *)
queryActive == \/ pending # <<>>
               \/ Occupied # {} /\ refs[FirstActive] > 0

(* condition.signal() in notifyServerActivityChange                        *)
Woken == IF svc = "asleep" THEN "check" ELSE svc

----------------------------------------------------------------------------
(* The game thread.                                                        *)

(* mwFileOpenAsync, mwFileCloseAsync and mwFileReadAsync build a command   *)
(* with one reference; mwFileServerQueued::addCommand pushes it under the  *)
(* server's mutex                                                          *)
addCommand(c, j) ==
  /\ GameMayRun /\ game = "run"
  /\ life[c] = "unborn"
  /\ \A d \in 1 .. c - 1 : life[d] # "unborn"
  /\ life' = [life EXCEPT ![c] = "live"]
  /\ job' = [job EXCEPT ![c] = j]
  /\ refs' = [refs EXCEPT ![c] = 1]
  /\ left' = [left EXCEPT ![c] = j.chunks]
  /\ pending' = Append(pending, c)
  /\ game' = "notify"
  /\ UNCHANGED <<signalState, aborted, pendingDelete, error, busy, ioError, done,
                 ready, active, activeCount, bufferOwner, svcVars, queueVars,
                 frames, delivered>>

(* notifyCommandAdded: queryActive ...                                     *)
notifyCommandAdded ==
  /\ GameMayRun /\ game = "notify"
  /\ game' = IF queryActive THEN "signal" ELSE "run"
  /\ UNCHANGED <<cmdVars, ioVars, serverVars, svcVars, queueVars, frames, delivered>>

(* mutant: the condition is not signalled *)
notifyServerActivityChange_silent ==
  /\ GameMayRun /\ game = "signal"
  /\ game' = "run"
  /\ UNCHANGED <<cmdVars, ioVars, serverVars, svcVars, queueVars, frames, delivered>>

(* ... then notifyServerActivityChange(true), under the manager's mutex    *)
notifyServerActivityChange ==
  /\ GameMayRun /\ game = "signal"
  /\ game' = "run"
  /\ svc' = Woken
  /\ UNCHANGED <<cmdVars, ioVars, serverVars, cur, state, queueVars, frames, delivered>>

(* The caller still holds the command: it is live and was not freed.       *)
Held(c) == game = "run" /\ life[c] = "live" /\ ~pendingDelete[c]

(* mwFileAbortCommand; nativeAbort does nothing                            *)
abort(c) ==
  /\ GameMayRun /\ Held(c) /\ c \in Abortable
  /\ signalState[c] \notin {"Signal", "Completed"}
  /\ aborted' = [aborted EXCEPT ![c] = TRUE]
  /\ UNCHANGED <<job, life, signalState, refs, pendingDelete, error, ioVars,
                 serverVars, svcVars, queueVars, gameVars>>

(* "delete this": the object's fields are gone                             *)
delete(c) == /\ life' = [life EXCEPT ![c] = "freed"]
             /\ refs' = [refs EXCEPT ![c] = 0]
             /\ aborted' = [aborted EXCEPT ![c] = FALSE]
             /\ pendingDelete' = [pendingDelete EXCEPT ![c] = FALSE]
             /\ error' = [error EXCEPT ![c] = "none"]
             /\ ioError' = [ioError EXCEPT ![c] = "none"]
             /\ left' = [left EXCEPT ![c] = 0]
             /\ done' = [done EXCEPT ![c] = 0]

keep == UNCHANGED <<life, refs, aborted, error, ioError, left, done>>

(* mutant: deleted at once, wherever the command is *)
deleteSelf_now(c) ==
  /\ GameMayRun /\ Held(c)
  /\ delete(c)
  /\ UNCHANGED <<job, signalState, busy, serverVars, svcVars, queueVars, gameVars>>

(* mwFileFreeCommand -> deleteSelf: a command that has not completed, or   *)
(* whose callback is running, is only marked                               *)
deleteSelf(c) ==
  /\ GameMayRun /\ Held(c)
  /\ IF signalState[c] # "Completed" \/ c \in ToSet(frames)
     THEN pendingDelete' = [pendingDelete EXCEPT ![c] = TRUE] /\ keep
     ELSE delete(c)
  /\ UNCHANGED <<job, signalState, busy, serverVars, svcVars, queueVars, gameVars>>

(* mwFileServerManagerMultiThreaded::service, one turn of its loop: take a *)
(* command, serviceCallbackAndPendingDelete raises callback_depth, and     *)
(* serviceCallback completes it and calls the user back.  A callback may   *)
(* wait for another command, which runs this loop again inside it.         *)
serviceCallback ==
  /\ GameMayRun /\ game = "run"
  /\ callbacks # <<>>
  /\ LET c == Head(callbacks) IN
       /\ callbacks' = Tail(callbacks)
       /\ frames' = Append(frames, c)
       /\ signalState' = [signalState EXCEPT ![c] = "Completed"]
       /\ delivered' = [delivered EXCEPT ![c] = @ + 1]
  /\ UNCHANGED <<job, life, refs, aborted, pendingDelete, error, ioVars, serverVars,
                 svcVars, wakeupQueue, game>>

(* mutant: a command freed during its callback is forgotten *)
pendingDeleteSelf_leak ==
  /\ GameMayRun /\ game = "run"
  /\ frames # <<>>
  /\ frames' = Front(frames)
  /\ keep /\ UNCHANGED pendingDelete
  /\ UNCHANGED <<job, signalState, busy, serverVars, svcVars, queueVars, game,
                 delivered>>

(* The user's callback returns: a command freed meanwhile is deleted now   *)
pendingDeleteSelf ==
  /\ GameMayRun /\ game = "run"
  /\ frames # <<>>
  /\ LET c == Last(frames) IN
       /\ frames' = Front(frames)
       /\ IF pendingDelete[c] THEN delete(c) ELSE keep /\ UNCHANGED pendingDelete
  /\ UNCHANGED <<job, signalState, busy, serverVars, svcVars, queueVars, game,
                 delivered>>

GameStep == \/ \E c \in Commands : \/ \E j \in Jobs : addCommand(c, j)
                                   \/ abort(c)
                                   \/ deleteSelf(c)
            \/ notifyCommandAdded
            \/ notifyServerActivityChange
            \/ serviceCallback
            \/ pendingDeleteSelf

----------------------------------------------------------------------------
(* The service thread.                                                     *)

SvcAt(l) == NoWakeupDue /\ svc = l

(* serviceThread: under the manager's mutex, wait while nothing is active. *)
(* The query serviceCommands makes next sees at least as much.             *)
isActive ==
  /\ SvcAt("check")
  /\ svc' = IF queryActive THEN "drain" ELSE "asleep"
  /\ UNCHANGED <<cmdVars, ioVars, serverVars, cur, state, queueVars, gameVars>>

(* service(): empty pending into ready; leave if there is nothing at all   *)
drain ==
  /\ SvcAt("drain")
  /\ ready' = ready \o pending
  /\ pending' = <<>>
  /\ svc' = IF ready' = <<>> /\ activeCount = 0 THEN "check" ELSE "activate"
  /\ UNCHANGED <<cmdVars, ioVars, active, activeCount, bufferOwner, cur, state,
                 queueVars, gameVars>>

(* mutant: the newest of the lowest priority number *)
IsTop_newest(i) == /\ i \in 1 .. Len(ready)
                   /\ \A k \in 1 .. Len(ready) :
                        \/ job[ready[i]].prio < job[ready[k]].prio
                        \/ job[ready[i]].prio = job[ready[k]].prio /\ i >= k

(* ready->top(): the lowest priority number, and the oldest of those       *)
IsTop(i) == /\ i \in 1 .. Len(ready)
            /\ \A k \in 1 .. Len(ready) :
                 \/ job[ready[i]].prio < job[ready[k]].prio
                 \/ job[ready[i]].prio = job[ready[k]].prio /\ i <= k

(* move the top of ready into its slot when the slot is free               *)
activate ==
  /\ SvcAt("activate")
  /\ svc' = "pick"
  /\ IF ready # <<>> /\ activeCount < 3
     THEN \E i \in 1 .. Len(ready) :
            /\ IsTop(i)
            /\ IF active[job[ready[i]].prio] = None
               THEN /\ active' = [active EXCEPT ![job[ready[i]].prio] = ready[i]]
                    /\ activeCount' = activeCount + 1
                    /\ ready' = RemoveAt(ready, i)
               ELSE UNCHANGED <<active, activeCount, ready>>
     ELSE UNCHANGED <<active, activeCount, ready>>
  /\ UNCHANGED <<cmdVars, ioVars, pending, bufferOwner, cur, state, queueVars, gameVars>>

(* the first occupied slot is served if its command has a reference        *)
pick ==
  /\ SvcAt("pick")
  /\ IF Occupied # {} /\ refs[FirstActive] > 0
     THEN /\ cur' = FirstActive
          /\ state' = signalState[FirstActive]
          /\ svc' = "serve"
     ELSE /\ svc' = "check"
          /\ UNCHANGED <<cur, state>>
  /\ UNCHANGED <<cmdVars, ioVars, serverVars, queueVars, gameVars>>

(* One turn of the loop of mwFileCommandPlugin<T>::service serves the      *)
(* command in one state.  The loop goes on while the state changes.        *)
Serving(kinds, s) == /\ SvcAt("serve")
                     /\ state = s
                     /\ job[cur].kind \in kinds

Goto(s) == state' = s /\ UNCHANGED <<svc, cur>>

Fail(e) == error' = [error EXCEPT ![cur] = e]

(* nativeContinueRead, the part that starts the next disc read             *)
issueRead == /\ busy' = [busy EXCEPT ![cur] = TRUE]
             /\ left' = [left EXCEPT ![cur] = @ - 1]

NoIO == UNCHANGED ioVars

ServeFrame == UNCHANGED <<job, life, signalState, refs, aborted, pendingDelete,
                          pending, ready, active, activeCount, queueVars, gameVars>>

(* mwFileXPOpenCommand::handleNotStartedState: an aborted open is not      *)
(* carried out, and reports no error                                       *)
openNotStarted ==
  /\ Serving({"open"}, "NotStarted")
  /\ Goto("Signal")
  /\ IF aborted[cur] THEN UNCHANGED error ELSE \E e \in {"none", "failed"} : Fail(e)
  /\ NoIO /\ UNCHANGED bufferOwner /\ ServeFrame

(* mwFileXPCloseCommand::handleNotStartedState on the disc, which is       *)
(* read-only: nothing to flush, nativeClose returns 0                      *)
closeNotStarted ==
  /\ Serving({"close"}, "NotStarted")
  /\ Goto("Signal")
  /\ Fail(IF aborted[cur] THEN "aborted" ELSE "none")
  /\ NoIO /\ UNCHANGED bufferOwner /\ ServeFrame

(* mwFileXPReadUnbufferedCommand::handleNotStartedState                    *)
unbufferedNotStarted ==
  /\ Serving({"unbuffered"}, "NotStarted")
  /\ IF aborted[cur]
     THEN Goto("Signal") /\ Fail("aborted") /\ NoIO
     ELSE \/ Goto("Signal") /\ Fail("failed") /\ NoIO      \* no DVDFileInfo: -12
          \/ Goto("Reading") /\ issueRead /\ UNCHANGED <<error, ioError, done>>
  /\ UNCHANGED bufferOwner /\ ServeFrame

(* mutant: the disc's error is not looked at *)
ReadResult_unchecked == IF aborted[cur] THEN "aborted" ELSE "none"

(* The outcome of a read that nativeContinueRead reports as over           *)
ReadResult == IF aborted[cur] THEN "aborted" ELSE ioError[cur]

ReadOver == ~busy[cur] /\ (ioError[cur] # "none" \/ left[cur] = 0 \/ aborted[cur])

(* nativeContinueRead says "in progress": the handler goes on to give up   *)
(* the command's reference                                                 *)
InProgress == svc' = "release" /\ UNCHANGED <<cur, state, error>>

(* mwFileXPReadUnbufferedCommand::handleReadingState                       *)
unbufferedReading ==
  /\ Serving({"unbuffered"}, "Reading")
  /\ CASE ReadOver  -> Goto("Signal") /\ Fail(ReadResult) /\ NoIO
       [] busy[cur] -> InProgress /\ NoIO
       [] OTHER     -> InProgress /\ issueRead /\ UNCHANGED <<ioError, done>>
  /\ UNCHANGED bufferOwner /\ ServeFrame

(* mwFileXPReadBufferedCommand::handleNotStartedState: a locked buffer is  *)
(* tried again on the next service, with the reference kept                *)
bufferedNotStarted ==
  /\ Serving({"buffered"}, "NotStarted")
  /\ LET f == job[cur].file IN
       CASE aborted[cur] ->
              Goto("Signal") /\ Fail("aborted") /\ UNCHANGED bufferOwner
         [] ~aborted[cur] /\ bufferOwner[f] = None ->
              Goto("Reading") /\ bufferOwner' = [bufferOwner EXCEPT ![f] = cur]
                              /\ UNCHANGED error
         [] OTHER ->
              svc' = "commit" /\ UNCHANGED <<cur, state, error, bufferOwner>>
  /\ NoIO /\ ServeFrame

(* mwFileXPReadBufferedCommand::handleReadingState: the bytes the buffer   *)
(* holds are copied out, and the buffer is filled again if some are left   *)
bufferedReading ==
  /\ Serving({"buffered"}, "Reading")
  /\ \/ aborted[cur] /\ Goto("Signal") /\ Fail("aborted") /\ NoIO
     \/ ~aborted[cur] /\ Goto("Signal") /\ Fail("failed") /\ NoIO  \* past the end: -9
     \/ ~aborted[cur] /\ left[cur] = 0 /\ Goto("Signal") /\ Fail("none") /\ NoIO
     \/ ~aborted[cur] /\ left[cur] > 0 /\ Goto("Filling") /\ issueRead
                      /\ UNCHANGED <<error, ioError, done>>
  /\ UNCHANGED bufferOwner /\ ServeFrame

(* mwFileXPReadBufferedCommand::handleFillingState; one fill is one chunk  *)
bufferedFilling ==
  /\ Serving({"buffered"}, "Filling")
  /\ CASE busy[cur] -> InProgress
       [] ~busy[cur] /\ ReadResult # "none" -> Goto("Signal") /\ Fail(ReadResult)
       [] OTHER -> Goto("Reading") /\ UNCHANGED error
  /\ NoIO /\ UNCHANGED bufferOwner /\ ServeFrame

(* mutant: an error path keeps the buffer locked *)
signal_locked ==
  /\ Serving(Kinds, "Signal")
  /\ state' = "Finished"
  /\ svc' = "commit"
  /\ bufferOwner' = [f \in Files |-> IF bufferOwner[f] = cur /\ error[cur] = "none"
                                     THEN None ELSE bufferOwner[f]]
  /\ NoIO /\ UNCHANGED <<cur, error>> /\ ServeFrame

(* handleSignalState: a buffered read lets go of the buffer it locked; the *)
(* loop ends with the state Finished                                       *)
signal ==
  /\ Serving(Kinds, "Signal")
  /\ state' = "Finished"
  /\ svc' = "commit"
  /\ bufferOwner' = [f \in Files |-> IF bufferOwner[f] = cur THEN None
                                                             ELSE bufferOwner[f]]
  /\ NoIO /\ UNCHANGED <<cur, error>> /\ ServeFrame

(* gcnInterlockedDecrement(reference_count) in the reading states          *)
release ==
  /\ SvcAt("release")
  /\ refs' = [refs EXCEPT ![cur] = @ - 1]
  /\ svc' = "commit"
  /\ UNCHANGED <<job, life, signalState, aborted, pendingDelete, error, ioVars,
                 serverVars, cur, state, queueVars, gameVars>>

(* mwFileCommandPlugin<T>::service stores the state and returns 2 when     *)
(* finished, else whether the command still has a reference; the server    *)
(* leaves its loop on 1 and goes round again on 0                          *)
commit ==
  /\ SvcAt("commit")
  /\ signalState' = [signalState EXCEPT ![cur] = state]
  /\ svc' = CASE state = "Finished" -> "retire"
              [] state # "Finished" /\ refs[cur] > 0 -> "check"
              [] OTHER -> "drain"
  /\ cur' = IF state = "Finished" THEN cur ELSE None
  /\ UNCHANGED <<job, life, refs, aborted, pendingDelete, error, ioVars, serverVars,
                 state, queueVars, gameVars>>

(* service(), case 2: free the slot under the mutex ...                    *)
retire ==
  /\ SvcAt("retire")
  /\ active' = [p \in Priorities |-> IF active[p] = cur THEN None ELSE active[p]]
  /\ svc' = "post"
  /\ UNCHANGED <<cmdVars, ioVars, pending, ready, activeCount, bufferOwner, cur,
                 state, queueVars, gameVars>>

(* mutant: active_count is not decremented *)
queueCommandCallback_uncounted ==
  /\ SvcAt("post")
  /\ Len(callbacks) < CallbackSlots
  /\ callbacks' = Append(callbacks, cur)
  /\ cur' = None
  /\ svc' = "drain"
  /\ UNCHANGED <<cmdVars, ioVars, pending, ready, active, activeCount, bufferOwner,
                 state, wakeupQueue, gameVars>>

(* ... then queueCommandCallback, which blocks while callbacks is full     *)
queueCommandCallback ==
  /\ SvcAt("post")
  /\ Len(callbacks) < CallbackSlots
  /\ callbacks' = Append(callbacks, cur)
  /\ activeCount' = activeCount - 1
  /\ cur' = None
  /\ svc' = "drain"
  /\ UNCHANGED <<cmdVars, ioVars, pending, ready, active, bufferOwner, state,
                 wakeupQueue, gameVars>>

ServeStep == \/ openNotStarted \/ closeNotStarted
             \/ unbufferedNotStarted \/ unbufferedReading
             \/ bufferedNotStarted \/ bufferedReading \/ bufferedFilling
             \/ signal

ServiceStep == \/ isActive \/ drain \/ activate \/ pick
               \/ ServeStep
               \/ release \/ commit \/ retire \/ queueCommandCallback

----------------------------------------------------------------------------
(* The disc interrupt and the wakeup thread.                               *)

(* mutant: the interrupt sends no message *)
gcCallbackThunk_silent(c) ==
  /\ busy[c]
  /\ busy' = [busy EXCEPT ![c] = FALSE]
  /\ done' = [done EXCEPT ![c] = @ + 1]
  /\ UNCHANGED <<cmdVars, ioError, left, serverVars, svcVars, queueVars, gameVars>>

(* gcCallbackThunk: the read ends, well or not, and a message is sent      *)
(* without waiting; it is dropped when the queue is full                   *)
gcCallbackThunk(c) ==
  /\ busy[c]
  /\ busy' = [busy EXCEPT ![c] = FALSE]
  /\ \/ done' = [done EXCEPT ![c] = @ + 1] /\ UNCHANGED ioError
     \/ ioError' = [ioError EXCEPT ![c] = "failed"] /\ UNCHANGED done
  /\ wakeupQueue' = IF Len(wakeupQueue) < WakeupSlots
                    THEN Append(wakeupQueue, c) ELSE wakeupQueue
  /\ UNCHANGED <<cmdVars, left, serverVars, svcVars, callbacks, gameVars>>

(* mutant: the reference comes back but the server is not told *)
wakeup_silent ==
  /\ wakeupQueue # <<>>
  /\ LET c == Head(wakeupQueue) IN refs' = [refs EXCEPT ![c] = @ + 1]
  /\ wakeupQueue' = Tail(wakeupQueue)
  /\ UNCHANGED <<job, life, signalState, aborted, pendingDelete, error, ioVars,
                 serverVars, svcVars, callbacks, gameVars>>

(* wakeupThreadThunk: command->wakeup() adds the reference back, then      *)
(* notifyCommandActive                                                     *)
wakeup ==
  /\ wakeupQueue # <<>>
  /\ LET c == Head(wakeupQueue) IN refs' = [refs EXCEPT ![c] = @ + 1]
  /\ wakeupQueue' = Tail(wakeupQueue)
  /\ UNCHANGED <<job, life, signalState, aborted, pendingDelete, error, ioVars,
                 serverVars, cur, state, callbacks, gameVars>>
  /\ svc' = IF queryActive' THEN Woken ELSE svc

Next == \/ GameStep
        \/ ServiceStep
        \/ \E c \in Commands : gcCallbackThunk(c)
        \/ wakeup

Spec == Init /\ [][Next]_vars

(* Every thread that can run does run, a disc read ends, and the game      *)
(* calls mwFileTick every frame and returns from its callbacks.            *)
Fairness == /\ WF_vars(ServiceStep)
            /\ WF_vars(wakeup)
            /\ \A c \in Commands : WF_vars(gcCallbackThunk(c))
            /\ WF_vars(notifyCommandAdded)
            /\ WF_vars(notifyServerActivityChange)
            /\ WF_vars(serviceCallback)
            /\ WF_vars(pendingDeleteSelf)

FairSpec == Spec /\ Fairness

----------------------------------------------------------------------------
(* Every field keeps to its declared range; in particular a reference      *)
(* count never goes below zero.                                            *)
TypeOK ==
  /\ job \in [Commands -> Jobs \cup {None}]
  /\ life \in [Commands -> {"unborn", "live", "freed"}]
  /\ signalState \in [Commands -> States]
  /\ refs \in [Commands -> Nat]
  /\ aborted \in [Commands -> BOOLEAN]
  /\ pendingDelete \in [Commands -> BOOLEAN]
  /\ error \in [Commands -> Errors]
  /\ busy \in [Commands -> BOOLEAN]
  /\ ioError \in [Commands -> Errors]
  /\ left \in [Commands -> Nat]
  /\ done \in [Commands -> Nat]
  /\ pending \in Seq(Commands)
  /\ ready \in Seq(Commands)
  /\ active \in [Priorities -> Commands \cup {None}]
  /\ activeCount \in 0 .. 3
  /\ bufferOwner \in [Files -> Commands \cup {None}]
  /\ svc \in {"check", "asleep", "drain", "activate", "pick", "serve", "release",
              "commit", "retire", "post"}
  /\ cur \in Commands \cup {None}
  /\ state \in States
  /\ wakeupQueue \in Seq(Commands)
  /\ callbacks \in Seq(Commands)
  /\ game \in {"run", "notify", "signal"}
  /\ frames \in Seq(Commands)
  /\ delivered \in [Commands -> Nat]

Active == {active[p] : p \in Occupied}

(* The places that hold a pointer to a command some actor will follow:     *)
(* the server's queues and slots, the command being served, the reads in   *)
(* flight, the wakeup messages, the callback queue and the running         *)
(* callbacks.                                                              *)
Referenced(c) == \/ c \in ToSet(pending) \cup ToSet(ready) \cup Active
                 \/ c = cur
                 \/ busy[c] \/ c \in ToSet(wakeupQueue)
                 \/ c \in ToSet(callbacks) \cup ToSet(frames)
                 \/ \E f \in Files : bufferOwner[f] = c

(* No actor is left with a pointer to a command that deleteSelf deleted:   *)
(* not the interrupt of a late read, not a late wakeup message.            *)
NoDanglingCommand == \A c \in Commands : life[c] = "freed" => ~Referenced(c)

(* A command in a slot can always still be woken: it holds a reference, or *)
(* its disc read is in flight, or the message about its end is queued.     *)
(* Otherwise it would keep its slot for ever.                              *)
NeverStranded == \A c \in Active : \/ refs[c] > 0
                                   \/ busy[c]
                                   \/ c \in ToSet(wakeupQueue)

(* The service thread never sleeps on work it would find if it looked,     *)
(* unless somebody is on the way to signal it.                             *)
NoLostSignal == svc = "asleep" /\ queryActive =>
                  game \in {"notify", "signal"} \/ ~NoWakeupDue

(* The user's callback runs at most once per command, and never on a       *)
(* command that is still with the server; a deleted command was told.      *)
CompletedOnce == \A c \in Commands :
                   /\ delivered[c] <= 1
                   /\ life[c] = "freed" => delivered[c] = 1
                   /\ delivered[c] = 1 => c \notin Active /\ ~busy[c]

(* A read that reports success got every chunk it asked for.               *)
SuccessIsComplete ==
  \A c \in Commands :
    delivered[c] = 1 /\ life[c] = "live" /\ error[c] = "none" /\ job[c].kind \in {"unbuffered", "buffered"}
      => done[c] = job[c].chunks

Slot(p) == IF active[p] = None THEN 0 ELSE 1

SlotsHeld == Slot(0) + Slot(1) + Slot(2)

(* active_count, kept by hand, agrees with the slots, so the server never  *)
(* stops activating commands because of a stale count.                     *)
ActiveCountAgrees == activeCount = SlotsHeld + (IF svc = "post" THEN 1 ELSE 0)

(* A file's buffer is locked only on behalf of a command in a slot that is *)
(* past its start: it is never leaked by an error, an abort or a free.     *)
BufferHeldByActive ==
  \A f \in Files : bufferOwner[f] # None =>
    /\ bufferOwner[f] \in Active
    /\ job[bufferOwner[f]].kind = "buffered" /\ job[bufferOwner[f]].file = f

Phase(c) == CASE life[c] = "unborn" -> "unborn"
              [] life[c] = "freed" -> "freed"
              [] life[c] = "live" /\ c \in ToSet(frames) -> "running"
              [] life[c] = "live" /\ c \notin ToSet(frames) /\ delivered[c] = 1 -> "told"
              [] OTHER -> "waiting"

Async == INSTANCE AsyncCommands
           WITH phase <- [c \in Commands |-> Phase(c)],
                class <- [c \in Commands |-> IF life[c] = "unborn" THEN None
                                                                 ELSE job[c].prio],
                asked <- [c \in Commands |-> pendingDelete[c] \/ life[c] = "freed"]

(* What callers are promised: one callback per command, in the order the   *)
(* commands of one priority were started, and deletion once the callback   *)
(* has returned and the caller has freed the command.                      *)
AsyncSpec == Async!Spec

(* Every command that was added is called back.                            *)
EventuallyDelivered == \A c \in Commands : life[c] = "live" ~> delivered[c] = 1

(* A command the game has freed goes away.                                 *)
EventuallyFreed == \A c \in Commands : pendingDelete[c] ~> life[c] = "freed"
=============================================================================
