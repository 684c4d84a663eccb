-------------------------- MODULE MwFileServerInv --------------------------
(***************************************************************************)
(* The inductive invariant of the file server: what the threads rely on    *)
(* between any two steps.                                                  *)
(***************************************************************************)
EXTENDS MwFileServer

Distinct == /\ IsInjective(pending) /\ IsInjective(ready)
            /\ IsInjective(callbacks) /\ IsInjective(frames)
            /\ IsInjective(wakeupQueue)

(* A command waits in pending, then in ready, then in a slot, then in the  *)
(* callback queue, and is in one of these places only.                     *)
PendingWaits ==
  \A c \in ToSet(pending) :
    /\ life[c] = "live" /\ signalState[c] = "NotStarted" /\ refs[c] > 0
    /\ c \notin ToSet(ready) /\ c \notin Active /\ c # cur

ReadyWaits ==
  \A c \in ToSet(ready) :
    /\ life[c] = "live" /\ signalState[c] = "NotStarted" /\ refs[c] > 0
    /\ c \notin Active /\ c # cur

SlotsServed ==
  \A p \in Priorities : active[p] # None =>
    /\ job[active[p]].prio = p
    /\ life[active[p]] = "live"
    /\ signalState[active[p]] \in {"NotStarted", "Reading", "Filling", "Finished"}
    /\ signalState[active[p]] = "Finished" => svc = "retire" /\ active[p] = cur

CallbacksDue ==
  \A c \in ToSet(callbacks) : /\ life[c] = "live" /\ signalState[c] = "Finished"
                              /\ c \notin Active /\ c # cur

FramesRun == \A c \in ToSet(frames) : life[c] = "live" /\ delivered[c] = 1

(* The committed state and the callback count tell the same story.         *)
Lives ==
  \A c \in Commands :
    /\ delivered[c] \in {0, 1}
    /\ delivered[c] = 1 <=> signalState[c] = "Completed"
    /\ life[c] = "unborn" => delivered[c] = 0 /\ signalState[c] = "NotStarted"
    /\ life[c] = "freed" => delivered[c] = 1
    /\ life[c] # "unborn" => job[c] \in Jobs

(* The state a command is in: the service thread has that of the command   *)
(* it serves in hand, and writes it back only in commit.                   *)
Stage(c) == IF c = cur THEN state ELSE signalState[c]

Reads == {"unbuffered", "buffered"}

BusyBit(c) == IF busy[c] THEN 1 ELSE 0

(* Every chunk of a read is still to be asked for, on its way, or done,    *)
(* until the disc fails; a read ends well only with all of them done.      *)
Progress ==
  \A c \in Commands :
    /\ life[c] = "unborn" => done[c] = 0 /\ ioError[c] = "none"
    /\ life[c] = "live" /\ Stage(c) = "NotStarted" =>
         left[c] = job[c].chunks /\ ioError[c] = "none"
    /\ life[c] = "live" /\ job[c].kind \in Reads =>
         /\ ioError[c] = "none" => done[c] + left[c] + BusyBit(c) = job[c].chunks
         /\ job[c].kind = "buffered" /\ Stage(c) = "Reading" => ioError[c] = "none"
         /\ Stage(c) \in {"Signal", "Finished", "Completed"} /\ error[c] = "none" =>
              done[c] = job[c].chunks

(* The service thread's program counter, the command it serves and the     *)
(* state it has in hand fit together.                                      *)
Serviced ==
  /\ cur # None <=> svc \in {"serve", "release", "commit", "retire", "post"}
  /\ svc \in {"serve", "release", "commit", "retire"} => cur \in Active
  /\ svc = "serve" => /\ state \in {"NotStarted", "Reading", "Filling", "Signal"}
                      /\ refs[cur] > 0
  /\ svc = "release" => /\ state \in {"Reading", "Filling"}
                        /\ refs[cur] > 0
                        /\ busy[cur] \/ cur \in ToSet(wakeupQueue) \/ refs[cur] > 1
  /\ svc = "commit" => state \in {"NotStarted", "Reading", "Filling", "Finished"}
  /\ svc = "post" => cur \notin Active /\ life[cur] = "live"
  /\ svc \in {"retire", "post"} => signalState[cur] = "Finished" /\ state = "Finished"

(* A disc read in flight, and the message about its end, belong to a       *)
(* command in a slot that is not yet past reading; at most one of the two  *)
(* exists, so the wakeup queue never overflows.                            *)
InFlight ==
  /\ \A c \in Commands : busy[c] => c \notin ToSet(wakeupQueue)
  /\ \A c \in Commands :
       busy[c] \/ c \in ToSet(wakeupQueue) =>
         /\ c \in Active
         /\ \/ job[c].kind = "unbuffered" /\ Stage(c) = "Reading"
            \/ job[c].kind = "buffered" /\ Stage(c) = "Filling"

Finishing == (svc = "commit" /\ state = "Finished") \/ svc \in {"retire", "post"}

(* A buffer is locked for a command in a slot that has not let go of it.   *)
BufferLocked ==
  /\ BufferHeldByActive
  /\ Finishing => \A f \in Files : bufferOwner[f] # cur

IndInv == /\ TypeOK /\ Distinct /\ PendingWaits /\ ReadyWaits /\ SlotsServed
          /\ CallbacksDue /\ FramesRun /\ Lives /\ Progress /\ Serviced /\ InFlight
          /\ BufferLocked /\ ActiveCountAgrees /\ NeverStranded /\ NoLostSignal

(* The commands that were not called back, and where they are: a command   *)
(* of one priority never overtakes another that was started before.        *)
Waiting == {c \in Commands : life[c] = "live" /\ delivered[c] = 0}

Posted == IF svc = "post" THEN {cur} ELSE {}

Over == ToSet(callbacks) \cup Posted

Leads(S) == \A c \in S, d \in Waiting : d < c /\ job[d].prio = job[c].prio => d \in S

Ascending(s) == \A i, k \in 1 .. Len(s) : i < k => s[i] < s[k]

OrderKept ==
  /\ \A c, d \in Commands : c < d /\ life[c] = "unborn" => life[d] = "unborn"
  /\ Waiting \subseteq Over \cup Active \cup ToSet(ready) \cup ToSet(pending)
  /\ Leads(ToSet(callbacks)) /\ Leads(Over) /\ Leads(Over \cup Active)
  /\ Leads(Over \cup Active \cup ToSet(ready))
  /\ \A i, k \in 1 .. Len(callbacks) :
       i < k /\ job[callbacks[i]].prio = job[callbacks[k]].prio => callbacks[i] < callbacks[k]
  /\ Ascending(ready) /\ Ascending(pending)
  /\ \A c \in ToSet(ready), d \in ToSet(pending) : c < d
=============================================================================
