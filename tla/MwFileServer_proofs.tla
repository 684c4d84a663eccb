------------------------ MODULE MwFileServer_proofs ------------------------
EXTENDS MwFileServerInv, SeqFacts
USE DEF cmdVars, ioVars, serverVars, svcVars, queueVars, gameVars, ServeFrame, NoIO, SvcAt, GameMayRun
USE NoneAssumption, JobsAssumption DEF JobType

(* Membership in Active, without the set comprehension.                    *)
LEMMA ActiveView ==
  ASSUME NEW c
  PROVE  c \in Active <=> \E p \in Priorities : active[p] # None /\ active[p] = c
BY DEF Active, Occupied

(* The queues hold commands.                                               *)
LEMMA Elements ==
  ASSUME TypeOK
  PROVE  /\ ToSet(pending) \subseteq Commands /\ ToSet(ready) \subseteq Commands
         /\ ToSet(callbacks) \subseteq Commands /\ ToSet(frames) \subseteq Commands
         /\ ToSet(wakeupQueue) \subseteq Commands
BY ElemsIn DEF TypeOK

(* A command in a slot is a live one, with a job.                          *)
LEMMA InSlot ==
  ASSUME IndInv, NEW c \in Active
  PROVE  /\ c \in Commands /\ c # None
         /\ life[c] = "live" /\ delivered[c] = 0
         /\ signalState[c] \in {"NotStarted", "Reading", "Filling", "Finished"}
         /\ signalState[c] = "Finished" => svc = "retire" /\ c = cur
         /\ job[c] \in Jobs /\ job[c] \in JobType
         /\ active[job[c].prio] = c
<1>1. PICK p \in Priorities : active[p] # None /\ active[p] = c  BY ActiveView
<1>2. c \in Commands  BY <1>1 DEF IndInv, TypeOK
<1>3. QED  BY <1>1, <1>2 DEF IndInv, SlotsServed, Lives

(* The command being served.                                               *)
LEMMA CurServed ==
  ASSUME IndInv, svc \in {"serve", "release", "commit", "retire"}
  PROVE  /\ cur \in Active /\ cur \in Commands /\ cur # None
         /\ life[cur] = "live" /\ delivered[cur] = 0
         /\ signalState[cur] \in {"NotStarted", "Reading", "Filling", "Finished"}
         /\ signalState[cur] = "Finished" => svc = "retire"
         /\ job[cur] \in Jobs /\ job[cur] \in JobType
<1>1. cur \in Active  BY DEF IndInv, Serviced
<1>2. QED  BY <1>1, InSlot

(* FirstActive is the command in one of the slots.                         *)
LEMMA FirstActiveIn ==
  ASSUME Occupied # {}
  PROVE  FirstActive \in Active
<1> DEFINE First(p) == p \in Occupied /\ \A q \in Occupied : p <= q
<1>1. \E p \in Occupied : \A q \in Occupied : p <= q
  BY DEF Occupied, Priorities
<1>2. FirstActive \in {active[p] : p \in Occupied}
  BY <1>1 DEF FirstActive
<1>3. QED  BY <1>2 DEF Active

(* Whether the server is active depends on pending, the slots and the      *)
(* references of the commands in them.                                     *)
LEMMA QueryStable ==
  ASSUME pending' = pending, active' = active,
         \A c \in Active : refs'[c] = refs[c]
  PROVE  queryActive' <=> queryActive
<1>1. Occupied' = Occupied /\ FirstActive' = FirstActive
  BY DEF Occupied, FirstActive
<1>2. QED  BY <1>1, FirstActiveIn DEF queryActive

(* A command in some place of the pipeline was started and is not deleted. *)
LEMMA Placed ==
  ASSUME IndInv, NEW c \in Commands,
         c \in ToSet(pending) \cup ToSet(ready) \cup ToSet(callbacks) \cup ToSet(frames)
           \cup Active \cup {cur} \cup ToSet(wakeupQueue) \/ busy[c]
  PROVE  life[c] = "live"
<1>1. c \in Active => life[c] = "live"  BY InSlot
<1>2. c = cur => life[c] = "live"
  BY CurServed, NoneAssumption DEF IndInv, Serviced
<1>3. c \in ToSet(wakeupQueue) \/ busy[c] => c \in Active
  BY DEF IndInv, InFlight
<1>4. QED
  BY <1>1, <1>2, <1>3
  DEF IndInv, PendingWaits, ReadyWaits, CallbacksDue, FramesRun

(* A command that was called back has left the pipeline.                   *)
LEMMA Left ==
  ASSUME IndInv, NEW c \in Commands, signalState[c] = "Completed"
  PROVE  /\ c \notin ToSet(pending) /\ c \notin ToSet(ready)
         /\ c \notin ToSet(callbacks) /\ c \notin Active /\ c # cur
         /\ c \notin ToSet(wakeupQueue) /\ ~busy[c]
         /\ delivered[c] = 1
<1>1. c \notin Active  BY InSlot
<1>2. c # cur
  BY CurServed, NoneAssumption DEF IndInv, Serviced
<1>3. QED
  BY <1>1, <1>2
  DEF IndInv, PendingWaits, ReadyWaits, CallbacksDue, Lives, InFlight

(* At most three commands hold slots, and one whose read is in flight has  *)
(* no message: there is always room for the message about its end.         *)
LEMMA WakeupSlotFree ==
  ASSUME IndInv, NEW c \in Commands, busy[c]
  PROVE  Len(wakeupQueue) < WakeupSlots
<1> DEFINE w == wakeupQueue
           slot(d) == job[d].prio
<1>1. SUFFICES ASSUME Len(w) >= 3 PROVE FALSE
  BY SlotsAssumption DEF IndInv, TypeOK
<1>2. w \in Seq(Commands) /\ IsInjective(w)
  BY DEF IndInv, TypeOK, Distinct
<1>3. /\ w[1] \in ToSet(w) /\ w[2] \in ToSet(w) /\ w[3] \in ToSet(w)
      /\ w[1] # w[2] /\ w[1] # w[3] /\ w[2] # w[3]
  BY <1>1, <1>2, SetView
<1> HIDE DEF w
<1>4. c \in Active /\ c \notin ToSet(w) /\ \A d \in ToSet(w) : d \in Active
  BY <1>2, Elements DEF IndInv, InFlight, w
<1>5. \A d \in Active : slot(d) \in 0 .. 2 /\ active[slot(d)] = d
  BY InSlot DEF Priorities
<1> HIDE DEF slot
<1>6. QED  BY <1>3, <1>4, <1>5

----------------------------------------------------------------------------
(* The game thread.                                                        *)

(* addCommand keeps the invariant.                                         *)
LEMMA addCommandKeeps ==
  ASSUME IndInv, NEW c \in Commands, NEW j \in Jobs, addCommand(c, j)
  PROVE  IndInv'
<1> USE DEF addCommand
<1>1. Active' = Active  BY DEF Active, Occupied
<1>2. /\ life[c] = "unborn" /\ delivered[c] = 0 /\ signalState[c] = "NotStarted"
      /\ done[c] = 0 /\ ioError[c] = "none" /\ ~busy[c] /\ c # cur
      /\ c \notin Active /\ c \notin ToSet(ready) /\ c \notin ToSet(callbacks)
      /\ c \notin ToSet(frames) /\ c \notin ToSet(pending)
      /\ c \notin ToSet(wakeupQueue)
  BY Placed DEF IndInv, Lives, Progress
<1>3. /\ pending' \in Seq(Commands) /\ ToSet(pending') = ToSet(pending) \cup {c}
      /\ IsInjective(pending')
  BY <1>2, ElemsAppend DEF IndInv, TypeOK, Distinct
<1>4. j \in JobType /\ cur # c
  BY <1>2
<1>5. \A d \in Active : d \in Commands /\ d # c /\ active[job[d].prio] = d
  BY <1>2, InSlot
<1>6. UNCHANGED <<ActiveCountAgrees>>
  BY DEF ActiveCountAgrees, SlotsHeld, Slot
<1>7. TypeOK'  BY <1>3 DEF IndInv, TypeOK
<1>8. Distinct'  BY <1>3 DEF IndInv, Distinct
<1>9. PendingWaits'  BY <1>1, <1>2, <1>3 DEF IndInv, TypeOK, PendingWaits
<1>10. ReadyWaits'  BY <1>1 DEF IndInv, ReadyWaits
<1>11. SlotsServed'  BY DEF IndInv, SlotsServed
<1>12. CallbacksDue'  BY <1>1 DEF IndInv, CallbacksDue
<1>13. FramesRun'  BY DEF IndInv, FramesRun
<1>14. Lives'  BY DEF IndInv, TypeOK, Lives
<1>15. Progress'
  <2>1. ASSUME NEW d \in Commands, d # c
        PROVE  /\ Stage(d)' = Stage(d) /\ BusyBit(d)' = BusyBit(d) /\ left'[d] = left[d]
               /\ life'[d] = life[d] /\ job'[d] = job[d]
    BY <2>1 DEF IndInv, TypeOK, Stage, BusyBit
  <2>2. /\ life'[c] = "live" /\ job'[c] = j /\ left'[c] = j.chunks /\ j.chunks \in Nat
        /\ Stage(c)' = "NotStarted" /\ BusyBit(c)' = 0
    BY <1>2, <1>4 DEF IndInv, TypeOK, Stage, BusyBit
  <2>3. QED
    BY <1>2, <2>1, <2>2 DEF IndInv, Progress, Reads
<1>16. Serviced'  BY <1>1, <1>5 DEF IndInv, Serviced
<1>17. InFlight'  BY <1>1, <1>5 DEF IndInv, InFlight, Stage
<1>18. BufferLocked'
  BY <1>1, <1>5 DEF IndInv, BufferLocked, BufferHeldByActive, Finishing
<1>19. NeverStranded'  BY <1>1 DEF IndInv, NeverStranded
<1>20. NoLostSignal'  BY DEF IndInv, NoLostSignal, NoWakeupDue
<1>21. QED  BY <1>6, <1>7, <1>8, <1>9, <1>10, <1>11, <1>12, <1>13, <1>14,
   <1>15, <1>16, <1>17, <1>18, <1>19, <1>20 DEF IndInv

(* notifyCommandAdded keeps the invariant.                                 *)
LEMMA notifyCommandAddedKeeps ==
  ASSUME IndInv, notifyCommandAdded
  PROVE  IndInv'
<1> USE DEF notifyCommandAdded
<1>1. Active' = Active  BY DEF Active, Occupied
<1>2. UNCHANGED <<Distinct, PendingWaits, ReadyWaits, SlotsServed,
   CallbacksDue, FramesRun, Lives, Progress, Serviced, InFlight, BufferLocked,
   ActiveCountAgrees, NeverStranded>>
  BY <1>1
  DEF Distinct, PendingWaits, ReadyWaits, SlotsServed, CallbacksDue, FramesRun,
     Lives, Progress, Stage, Reads, BusyBit, Serviced, InFlight, BufferLocked,
     BufferHeldByActive, Finishing, ActiveCountAgrees, SlotsHeld, Slot,
     NeverStranded
<1>3. TypeOK'  BY DEF IndInv, TypeOK
<1>4. NoLostSignal'  BY QueryStable DEF IndInv, NoLostSignal, NoWakeupDue
<1>5. QED  BY <1>2, <1>3, <1>4 DEF IndInv

(* notifyServerActivityChange keeps the invariant.                         *)
LEMMA notifyServerActivityChangeKeeps ==
  ASSUME IndInv, notifyServerActivityChange
  PROVE  IndInv'
<1> USE DEF notifyServerActivityChange, Woken
<1>1. Active' = Active  BY DEF Active, Occupied
<1>2. UNCHANGED <<Distinct, PendingWaits, ReadyWaits, CallbacksDue, FramesRun,
   Lives, Progress, InFlight, NeverStranded>>
  BY <1>1
  DEF Distinct, PendingWaits, ReadyWaits, CallbacksDue, FramesRun, Lives,
     Progress, Stage, Reads, BusyBit, InFlight, NeverStranded
<1>3. TypeOK'  BY DEF IndInv, TypeOK
<1>4. SlotsServed'  BY DEF IndInv, SlotsServed
<1>5. Serviced'  BY <1>1 DEF IndInv, Serviced
<1>6. BufferLocked'
  BY <1>1 DEF IndInv, BufferLocked, BufferHeldByActive, Finishing
<1>7. ActiveCountAgrees'  BY DEF IndInv, ActiveCountAgrees, SlotsHeld, Slot
<1>8. NoLostSignal'  BY DEF IndInv, NoLostSignal, NoWakeupDue
<1>9. QED  BY <1>2, <1>3, <1>4, <1>5, <1>6, <1>7, <1>8 DEF IndInv

(* abort keeps the invariant.                                              *)
LEMMA abortKeeps ==
  ASSUME IndInv, NEW c \in Commands, abort(c)
  PROVE  IndInv'
<1> USE DEF abort, Held
<1>1. Active' = Active  BY DEF Active, Occupied
<1>2. UNCHANGED <<Distinct, PendingWaits, ReadyWaits, SlotsServed,
   CallbacksDue, FramesRun, Lives, Progress, Serviced, InFlight, BufferLocked,
   ActiveCountAgrees, NeverStranded>>
  BY <1>1
  DEF Distinct, PendingWaits, ReadyWaits, SlotsServed, CallbacksDue, FramesRun,
     Lives, Progress, Stage, Reads, BusyBit, Serviced, InFlight, BufferLocked,
     BufferHeldByActive, Finishing, ActiveCountAgrees, SlotsHeld, Slot,
     NeverStranded
<1>3. TypeOK'  BY DEF IndInv, TypeOK
<1>4. NoLostSignal'  BY QueryStable DEF IndInv, NoLostSignal, NoWakeupDue
<1>5. QED  BY <1>2, <1>3, <1>4 DEF IndInv

(* A command that may not be deleted yet is marked.                        *)
LEMMA MarksKeeps ==
  ASSUME IndInv, NEW c \in Commands,
         pendingDelete' = [pendingDelete EXCEPT ![c] = TRUE], keep,
         UNCHANGED <<job, signalState, busy, serverVars, svcVars, queueVars, gameVars>>
  PROVE  IndInv'
<1> USE DEF keep
<1>1. Active' = Active  BY DEF Active, Occupied
<1>2. UNCHANGED <<Distinct, PendingWaits, ReadyWaits, SlotsServed,
   CallbacksDue, FramesRun, Lives, Progress, Serviced, InFlight, BufferLocked,
   ActiveCountAgrees, NeverStranded>>
  BY <1>1
  DEF Distinct, PendingWaits, ReadyWaits, SlotsServed, CallbacksDue, FramesRun,
     Lives, Progress, Stage, Reads, BusyBit, Serviced, InFlight, BufferLocked,
     BufferHeldByActive, Finishing, ActiveCountAgrees, SlotsHeld, Slot,
     NeverStranded
<1>3. TypeOK'  BY DEF IndInv, TypeOK
<1>4. NoLostSignal'  BY QueryStable DEF IndInv, NoLostSignal, NoWakeupDue
<1>5. QED  BY <1>2, <1>3, <1>4 DEF IndInv

(* A callback returns and nothing is deleted.                              *)
LEMMA UnwindsKeeps ==
  ASSUME IndInv, UNCHANGED pendingDelete, keep,
         frames' \in Seq(Commands), IsInjective(frames'),
         ToSet(frames') \subseteq ToSet(frames),
         UNCHANGED <<job, signalState, busy, serverVars, svcVars, queueVars,
                     game, delivered>>
  PROVE  IndInv'
<1> USE DEF keep
<1>1. Active' = Active  BY DEF Active, Occupied
<1>2. UNCHANGED <<PendingWaits, ReadyWaits, SlotsServed, CallbacksDue, Lives,
   Progress, Serviced, InFlight, BufferLocked, ActiveCountAgrees,
   NeverStranded>>
  BY <1>1
  DEF PendingWaits, ReadyWaits, SlotsServed, CallbacksDue, Lives, Progress,
     Stage, Reads, BusyBit, Serviced, InFlight, BufferLocked,
     BufferHeldByActive, Finishing, ActiveCountAgrees, SlotsHeld, Slot,
     NeverStranded
<1>3. TypeOK'  BY DEF IndInv, TypeOK
<1>4. Distinct'  BY DEF IndInv, Distinct
<1>5. FramesRun'  BY DEF IndInv, FramesRun
<1>6. NoLostSignal'  BY QueryStable DEF IndInv, NoLostSignal, NoWakeupDue
<1>7. QED  BY <1>2, <1>3, <1>4, <1>5, <1>6 DEF IndInv

(* A command that was told, and whose callback is over, is deleted.        *)
LEMMA DeletesKeeps ==
  ASSUME IndInv, NEW c \in Commands, signalState[c] = "Completed",
         delete(c),
         frames' \in Seq(Commands), IsInjective(frames'),
         ToSet(frames') \subseteq ToSet(frames), c \notin ToSet(frames'),
         UNCHANGED <<job, signalState, busy, serverVars, svcVars, queueVars,
                     game, delivered>>
  PROVE  IndInv'
<1> USE DEF delete
<1>1. Active' = Active  BY DEF Active, Occupied
<1>2. /\ c \notin ToSet(pending) /\ c \notin ToSet(ready)
      /\ c \notin ToSet(callbacks) /\ c \notin Active /\ c # cur
      /\ c \notin ToSet(wakeupQueue) /\ ~busy[c] /\ delivered[c] = 1
  BY Left
<1>5. UNCHANGED <<InFlight, BufferLocked, ActiveCountAgrees>>
  BY <1>1
  DEF InFlight, Stage, BufferLocked, BufferHeldByActive, Finishing,
     ActiveCountAgrees, SlotsHeld, Slot
<1>6. TypeOK'  BY DEF IndInv, TypeOK, Errors
<1>7. Distinct'  BY DEF IndInv, Distinct
<1>8. PendingWaits'  BY <1>1 DEF IndInv, PendingWaits
<1>9. ReadyWaits'  BY <1>1 DEF IndInv, ReadyWaits
<1>10. SlotsServed'  BY DEF IndInv, SlotsServed
<1>11. CallbacksDue'  BY <1>1 DEF IndInv, CallbacksDue
<1>12. FramesRun'  BY DEF IndInv, FramesRun
<1>13. Lives'  BY DEF IndInv, Lives
<1>14. Progress'  BY DEF IndInv, TypeOK, Progress, Stage, Reads, BusyBit
<1>15. Serviced'  BY <1>1, <1>2 DEF IndInv, Serviced
<1>16. NeverStranded'  BY <1>1, <1>2 DEF IndInv, NeverStranded
<1>17. NoLostSignal'
  BY <1>2, QueryStable DEF IndInv, NoLostSignal, NoWakeupDue
<1>18. QED  BY <1>5, <1>6, <1>7, <1>8, <1>9, <1>10, <1>11, <1>12, <1>13, <1>14,
   <1>15, <1>16, <1>17 DEF IndInv

(* deleteSelf keeps the invariant.                                         *)
LEMMA deleteSelfKeeps ==
  ASSUME IndInv, NEW c \in Commands, deleteSelf(c)
  PROVE  IndInv'
<1>1. CASE pendingDelete' = [pendingDelete EXCEPT ![c] = TRUE] /\ keep
  BY <1>1, MarksKeeps DEF deleteSelf
<1>2. CASE signalState[c] = "Completed" /\ c \notin ToSet(frames) /\ delete(c)
  <2>1. frames' = frames /\ frames' \in Seq(Commands) /\ IsInjective(frames')
    BY DEF deleteSelf, IndInv, TypeOK, Distinct
  <2>2. QED  BY <1>2, <2>1, DeletesKeeps DEF deleteSelf
<1>3. QED  BY <1>1, <1>2 DEF deleteSelf

(* pendingDeleteSelf keeps the invariant.                                  *)
LEMMA pendingDeleteSelfKeeps ==
  ASSUME IndInv, pendingDeleteSelf
  PROVE  IndInv'
<1> DEFINE c == Last(frames)
<1>1. /\ c \in ToSet(frames) /\ frames' \in Seq(Commands) /\ IsInjective(frames')
      /\ ToSet(frames') \subseteq ToSet(frames) /\ c \notin ToSet(frames')
  BY ElemsFront DEF pendingDeleteSelf, IndInv, TypeOK, Distinct
<1>2. c \in Commands /\ signalState[c] = "Completed"
  BY <1>1, Elements DEF IndInv, FramesRun, Lives
<1>3. CASE delete(c)
  BY <1>1, <1>2, <1>3, DeletesKeeps DEF pendingDeleteSelf
<1>4. CASE keep /\ UNCHANGED pendingDelete
  BY <1>1, <1>4, UnwindsKeeps DEF pendingDeleteSelf
<1>5. QED  BY <1>3, <1>4 DEF pendingDeleteSelf

(* serviceCallback keeps the invariant.                                    *)
LEMMA serviceCallbackKeeps ==
  ASSUME IndInv, serviceCallback
  PROVE  IndInv'
<1> DEFINE c == Head(callbacks)
<1>1. /\ callbacks # <<>> /\ callbacks' = Tail(callbacks)
      /\ frames' = Append(frames, c)
  BY DEF serviceCallback
<1>0. UNCHANGED <<job, life, refs, aborted, pendingDelete, error, ioVars, serverVars,
                  svcVars, wakeupQueue, game>>
  BY DEF serviceCallback
<1>2. Active' = Active  BY <1>0 DEF Active, Occupied
<1>3. /\ c \in Commands /\ callbacks' \in Seq(Commands)
      /\ ToSet(callbacks) = {c} \cup ToSet(callbacks')
      /\ IsInjective(callbacks') /\ c \notin ToSet(callbacks')
  BY <1>1, ElemsTail DEF IndInv, TypeOK, Distinct
<1> HIDE DEF c
<1>4. /\ life[c] = "live" /\ signalState[c] = "Finished" /\ delivered[c] = 0
      /\ c \notin Active /\ c # cur /\ c \notin ToSet(frames)
      /\ c \notin ToSet(pending) /\ c \notin ToSet(ready)
  BY <1>3
  DEF IndInv, CallbacksDue, FramesRun, Lives, PendingWaits, ReadyWaits
<1>5. /\ frames' \in Seq(Commands) /\ ToSet(frames') = ToSet(frames) \cup {c}
      /\ IsInjective(frames')
  BY <1>1, <1>3, <1>4, ElemsAppend DEF IndInv, TypeOK, Distinct
<1>6. /\ ToSet(pending) \subseteq Commands /\ ToSet(ready) \subseteq Commands
      /\ Active \subseteq Commands /\ ToSet(frames) \subseteq Commands
  BY Elements, InSlot DEF IndInv
<1>9. /\ signalState' = [signalState EXCEPT ![c] = "Completed"]
      /\ delivered' = [delivered EXCEPT ![c] = @ + 1]
  BY DEF serviceCallback, c
<1>7. /\ signalState' \in [Commands -> States] /\ signalState'[c] = "Completed"
      /\ delivered' \in [Commands -> Nat] /\ delivered'[c] = 1
      /\ \A d \in Commands \ {c} : /\ signalState'[d] = signalState[d]
                                  /\ delivered'[d] = delivered[d]
  BY <1>9, <1>3, <1>4 DEF IndInv, TypeOK, States
<1>8. \A p \in Priorities : active[p] # None => active[p] \in Commands \ {c}
  BY <1>4, <1>6, ActiveView
<1>10. UNCHANGED <<BufferLocked, ActiveCountAgrees, NeverStranded>>
  BY <1>0, <1>2
  DEF BufferLocked, BufferHeldByActive, Finishing, ActiveCountAgrees,
     SlotsHeld, Slot, NeverStranded
<1>11. TypeOK'  BY <1>0, <1>1, <1>3, <1>5, <1>7 DEF IndInv, TypeOK
<1>12. Distinct'  BY <1>0, <1>3, <1>5 DEF IndInv, Distinct
<1>13. PendingWaits'  BY <1>0, <1>2, <1>4, <1>6, <1>7 DEF IndInv, PendingWaits
<1>14. ReadyWaits'  BY <1>0, <1>2, <1>4, <1>6, <1>7 DEF IndInv, ReadyWaits
<1>15. SlotsServed'  BY <1>0, <1>7, <1>8 DEF IndInv, SlotsServed
<1>16. CallbacksDue'
  BY <1>0, <1>2, <1>3, <1>6, <1>7, Elements DEF IndInv, CallbacksDue
<1>17. FramesRun'  BY <1>0, <1>4, <1>5, <1>6, <1>7 DEF IndInv, FramesRun
<1>18. Lives'  BY <1>0, <1>3, <1>4, <1>7 DEF IndInv, Lives
<1>19. Progress'
  BY <1>0, <1>3, <1>4, <1>7 DEF IndInv, Progress, Stage, BusyBit, Reads
<1>20. Serviced'  BY <1>0, <1>2, <1>4, <1>7 DEF IndInv, TypeOK, Serviced
<1>21. InFlight'  BY <1>0, <1>2, <1>4, <1>7 DEF IndInv, InFlight, Stage
<1>22. NoLostSignal'
  BY <1>0, QueryStable DEF IndInv, NoLostSignal, NoWakeupDue
<1>23. QED  BY <1>10, <1>11, <1>12, <1>13, <1>14, <1>15, <1>16, <1>17, <1>18,
   <1>19, <1>20, <1>21, <1>22 DEF IndInv

----------------------------------------------------------------------------
(* The service thread.                                                     *)

(* isActive keeps the invariant.                                           *)
LEMMA isActiveKeeps ==
  ASSUME IndInv, isActive
  PROVE  IndInv'
<1> USE DEF isActive
<1>1. Active' = Active  BY DEF Active, Occupied
<1>2. UNCHANGED <<Distinct, PendingWaits, ReadyWaits, CallbacksDue, FramesRun,
   Lives, Progress, InFlight, NeverStranded>>
  BY <1>1
  DEF Distinct, PendingWaits, ReadyWaits, CallbacksDue, FramesRun, Lives,
     Progress, Stage, Reads, BusyBit, InFlight, NeverStranded
<1>3. TypeOK'  BY DEF IndInv, TypeOK
<1>4. SlotsServed'  BY DEF IndInv, SlotsServed
<1>5. Serviced'  BY DEF IndInv, Serviced
<1>6. BufferLocked'
  BY <1>1 DEF IndInv, BufferLocked, BufferHeldByActive, Finishing
<1>7. ActiveCountAgrees'  BY DEF IndInv, ActiveCountAgrees, SlotsHeld, Slot
<1>8. NoLostSignal'  BY QueryStable DEF IndInv, NoLostSignal, NoWakeupDue
<1>9. QED  BY <1>2, <1>3, <1>4, <1>5, <1>6, <1>7, <1>8 DEF IndInv

(* drain keeps the invariant.                                              *)
LEMMA drainKeeps ==
  ASSUME IndInv, drain
  PROVE  IndInv'
<1> USE DEF drain
<1>1. Active' = Active  BY DEF Active, Occupied
<1>2. pending \in Seq(Commands) /\ ready \in Seq(Commands)
  BY DEF IndInv, TypeOK
<1>3. ToSet(ready) \cap ToSet(pending) = {}
  BY DEF IndInv, PendingWaits
<1>4. IsInjective(ready) /\ IsInjective(pending)
  BY DEF IndInv, Distinct
<1>5. /\ ready' \in Seq(Commands) /\ IsInjective(ready')
      /\ ToSet(ready') = ToSet(ready) \cup ToSet(pending)
  BY <1>2, <1>3, <1>4, ElemsConcat
<1>6. pending' \in Seq(Commands) /\ IsInjective(pending') /\ ToSet(pending') = {}
  BY ElemsEmpty
<1>7. UNCHANGED <<CallbacksDue, FramesRun, Lives, Progress, InFlight,
   NeverStranded>>
  BY <1>1
  DEF CallbacksDue, FramesRun, Lives, Progress, Stage, Reads, BusyBit,
     InFlight, NeverStranded
<1>8. TypeOK'  BY <1>5, <1>6 DEF IndInv, TypeOK
<1>9. Distinct'  BY <1>5, <1>6 DEF IndInv, Distinct
<1>10. PendingWaits'  BY <1>6 DEF IndInv, PendingWaits
<1>11. ReadyWaits'  BY <1>1, <1>5 DEF IndInv, ReadyWaits, PendingWaits
<1>12. SlotsServed'  BY DEF IndInv, SlotsServed
<1>13. Serviced'  BY DEF IndInv, Serviced
<1>14. BufferLocked'
  BY <1>1 DEF IndInv, BufferLocked, BufferHeldByActive, Finishing
<1>15. ActiveCountAgrees'  BY DEF IndInv, ActiveCountAgrees, SlotsHeld, Slot
<1>16. NoLostSignal'  BY DEF IndInv, NoLostSignal, NoWakeupDue
<1>17. QED  BY <1>7, <1>8, <1>9, <1>10, <1>11, <1>12, <1>13, <1>14, <1>15,
   <1>16 DEF IndInv

(* activate finds no room, or nothing to activate.                         *)
LEMMA PassesKeeps ==
  ASSUME IndInv, svc = "activate", svc' = "pick",
         UNCHANGED <<cmdVars, ioVars, serverVars, cur, state, queueVars, gameVars>>
  PROVE  IndInv'
<1>1. Active' = Active  BY DEF Active, Occupied
<1>2. UNCHANGED <<Distinct, PendingWaits, ReadyWaits, CallbacksDue, FramesRun,
   Lives, Progress, InFlight, NeverStranded>>
  BY <1>1
  DEF Distinct, PendingWaits, ReadyWaits, CallbacksDue, FramesRun, Lives,
     Progress, Stage, Reads, BusyBit, InFlight, NeverStranded
<1>3. TypeOK'  BY DEF IndInv, TypeOK
<1>4. SlotsServed'  BY DEF IndInv, SlotsServed
<1>5. Serviced'  BY DEF IndInv, Serviced
<1>6. BufferLocked'
  BY <1>1 DEF IndInv, BufferLocked, BufferHeldByActive, Finishing
<1>7. ActiveCountAgrees'  BY DEF IndInv, ActiveCountAgrees, SlotsHeld, Slot
<1>8. NoLostSignal'  BY DEF IndInv, NoLostSignal, NoWakeupDue
<1>9. QED  BY <1>2, <1>3, <1>4, <1>5, <1>6, <1>7, <1>8 DEF IndInv

(* activate moves the top of ready into its slot.                          *)
LEMMA ActivatesKeeps ==
  ASSUME IndInv, activate, NEW i \in 1 .. Len(ready),
         active[job[ready[i]].prio] = None,
         active' = [active EXCEPT ![job[ready[i]].prio] = ready[i]],
         activeCount' = activeCount + 1,
         ready' = RemoveAt(ready, i), activeCount < 3
  PROVE  IndInv'
<1> DEFINE c == ready[i]
            q == job[c].prio
<1>1. /\ svc = "activate" /\ svc' = "pick" /\ cur = None
      /\ UNCHANGED <<cmdVars, ioVars, pending, bufferOwner, cur, state, queueVars, gameVars>>
  BY DEF activate, IndInv, Serviced
<1>2. /\ c \in ToSet(ready) /\ c \in Commands /\ ready' \in Seq(Commands)
      /\ ToSet(ready') = ToSet(ready) \ {c} /\ IsInjective(ready')
  <2>1. ready \in Seq(Commands) /\ IsInjective(ready)
    BY DEF IndInv, TypeOK, Distinct
  <2>2. c \in ToSet(ready) /\ c \in Commands
    BY <2>1, SetView
  <2>3. QED  BY <2>1, <2>2, ElemsWithout
<1>3. active' = [active EXCEPT ![q] = c] /\ active[q] = None
  OBVIOUS
<1> HIDE DEF c
<1>4. /\ life[c] = "live" /\ signalState[c] = "NotStarted" /\ refs[c] > 0
      /\ c \notin Active /\ c # None /\ q \in Priorities /\ c \notin ToSet(pending)
      /\ c \notin ToSet(callbacks)
  BY <1>1, <1>2
  DEF IndInv, ReadyWaits, PendingWaits, CallbacksDue, Lives, Priorities
<1>5. /\ active' \in [Priorities -> Commands \cup {None}] /\ active'[q] = c
      /\ \A p \in Priorities \ {q} : active'[p] = active[p]
  <2>1. active \in [Priorities -> Commands \cup {None}]  BY DEF IndInv, TypeOK
  <2>2. q \in Priorities  BY <1>4
  <2> HIDE DEF q
  <2>3. QED  BY <1>2, <1>3, <2>1, <2>2
<1> HIDE DEF q
<1>6. Active' = Active \cup {c}
  BY <1>3, <1>4, <1>5 DEF Active, Occupied
<1>8. UNCHANGED <<FramesRun, Lives, Progress>>
  BY <1>1 DEF FramesRun, Lives, Progress, Stage, Reads, BusyBit
<1>9. TypeOK'
  <2>1. activeCount' \in 0 .. 3  BY DEF IndInv, TypeOK
  <2>2. active' \in [Priorities -> Commands \cup {None}]  BY <1>5
  <2>3. ready' \in Seq(Commands)  BY <1>2
  <2>4. QED  BY <1>1, <2>1, <2>2, <2>3 DEF IndInv, TypeOK
<1>10. Distinct'  BY <1>1, <1>2 DEF IndInv, Distinct
<1>11. PendingWaits'  BY <1>1, <1>2, <1>6 DEF IndInv, PendingWaits
<1>12. ReadyWaits'  BY <1>1, <1>2, <1>6 DEF IndInv, ReadyWaits
<1>13. SlotsServed'  BY <1>1, <1>2, <1>4, <1>5 DEF IndInv, SlotsServed, q
<1>14. CallbacksDue'  BY <1>1, <1>4, <1>6 DEF IndInv, CallbacksDue
<1>15. Serviced'  BY <1>1 DEF IndInv, Serviced
<1>16. InFlight'  BY <1>1, <1>6 DEF IndInv, InFlight, Stage
<1>17. BufferLocked'
  BY <1>1, <1>6 DEF IndInv, BufferLocked, BufferHeldByActive, Finishing
<1>18. ActiveCountAgrees'
  <2> PICK r \in Priorities : r = q  BY <1>4  <2>1. Slot(r) = 0 /\ Slot(r)' = 1
    BY <1>3, <1>4, <1>5 DEF Slot
  <2>2. \A p \in Priorities \ {r} : Slot(p)' = Slot(p)
    BY <1>5 DEF Slot
  <2>3. \A p \in Priorities : Slot(p) \in {0, 1}
    BY DEF Slot
  <2>4. SlotsHeld' = SlotsHeld + 1
    BY <1>4, <2>1, <2>2, <2>3 DEF SlotsHeld, Priorities
  <2>5. SlotsHeld \in Int
    BY <2>3 DEF SlotsHeld, Priorities
  <2>6. QED  BY <1>1, <2>4, <2>5 DEF IndInv, TypeOK, ActiveCountAgrees
<1>19. NeverStranded'  BY <1>1, <1>4, <1>6 DEF IndInv, NeverStranded
<1>20. NoLostSignal'  BY <1>1 DEF IndInv, NoLostSignal, NoWakeupDue
<1>21. QED  BY <1>8, <1>9, <1>10, <1>11, <1>12, <1>13, <1>14, <1>15, <1>16,
   <1>17, <1>18, <1>19, <1>20 DEF IndInv

(* activate keeps the invariant.                                           *)
LEMMA activateKeeps ==
  ASSUME IndInv, activate
  PROVE  IndInv'
<1>1. CASE UNCHANGED <<active, activeCount, ready>>
  BY <1>1, PassesKeeps DEF activate
<1>2. CASE ~UNCHANGED <<active, activeCount, ready>>
  BY <1>2, ActivatesKeeps DEF activate
<1>3. QED  BY <1>1, <1>2

(* pick keeps the invariant.                                               *)
LEMMA pickKeeps ==
  ASSUME IndInv, pick
  PROVE  IndInv'
<1> USE DEF pick
<1>1. Active' = Active  BY DEF Active, Occupied
<1>2. Occupied # {} => FirstActive \in Active /\ FirstActive \in Commands
  BY FirstActiveIn, InSlot
<1>3. \A c \in Active : signalState[c] \in {"NotStarted", "Reading", "Filling"}
  BY InSlot
<1>5. UNCHANGED <<Distinct, FramesRun, Lives, NeverStranded>>
  BY <1>1 DEF Distinct, FramesRun, Lives, NeverStranded
<1>6. TypeOK'  BY <1>2 DEF IndInv, TypeOK, States
<1>7. PendingWaits'  BY <1>1, <1>2 DEF IndInv, PendingWaits
<1>8. ReadyWaits'  BY <1>1, <1>2 DEF IndInv, ReadyWaits
<1>9. SlotsServed'  BY DEF IndInv, SlotsServed
<1>10. CallbacksDue'  BY <1>1, <1>2 DEF IndInv, CallbacksDue
<1>11. Progress'  BY DEF IndInv, Serviced, Progress, Stage, Reads, BusyBit
<1>12. Serviced'  BY <1>1, <1>2, <1>3 DEF IndInv, Serviced
<1>13. InFlight'  BY <1>1 DEF IndInv, Serviced, InFlight, Stage
<1>14. BufferLocked'
  BY <1>1 DEF IndInv, BufferLocked, BufferHeldByActive, Finishing
<1>15. ActiveCountAgrees'  BY DEF IndInv, ActiveCountAgrees, SlotsHeld, Slot
<1>16. NoLostSignal'  BY DEF IndInv, NoLostSignal, NoWakeupDue
<1>17. QED  BY <1>5, <1>6, <1>7, <1>8, <1>9, <1>10, <1>11, <1>12, <1>13, <1>14,
   <1>15, <1>16 DEF IndInv

(* A handler is through with its command: the state Signal, an outcome,    *)
(* and no read in flight.                                                  *)
LEMMA EndsKeeps ==
  ASSUME IndInv, SvcAt("serve"), NEW e \in Errors,
         Goto("Signal"), Fail(e), NoIO, UNCHANGED bufferOwner, ServeFrame,
         ~busy[cur],
         e = "none" /\ job[cur].kind \in Reads => done[cur] = job[cur].chunks
  PROVE  IndInv'
<1> USE DEF Goto, Fail
<1>1. Active' = Active  BY DEF Active, Occupied
<1>3. ToSet(wakeupQueue) = {}
  BY ElemsEmpty DEF NoWakeupDue
<1>4. UNCHANGED <<Distinct, PendingWaits, ReadyWaits, SlotsServed,
   CallbacksDue, FramesRun, Lives, ActiveCountAgrees, NeverStranded,
   NoLostSignal>>
  BY <1>1
  DEF Distinct, PendingWaits, ReadyWaits, SlotsServed, CallbacksDue, FramesRun,
     Lives, ActiveCountAgrees, SlotsHeld, Slot, NeverStranded, NoLostSignal,
     NoWakeupDue
<1>5. TypeOK'  BY DEF IndInv, TypeOK, States
<1>6. Progress'  BY DEF IndInv, TypeOK, Progress, Stage, Reads, BusyBit
<1>7. Serviced'  BY <1>1 DEF IndInv, Serviced
<1>8. InFlight'  BY <1>1, <1>3 DEF IndInv, InFlight, Stage
<1>9. BufferLocked'
  BY <1>1 DEF IndInv, BufferLocked, BufferHeldByActive, Finishing
<1>10. QED  BY <1>4, <1>5, <1>6, <1>7, <1>8, <1>9 DEF IndInv

(* A handler starts a disc read.                                           *)
LEMMA IssuesKeeps ==
  ASSUME IndInv, SvcAt("serve"), issueRead,
         cur' = cur, svc' \in {"serve", "release"},
         UNCHANGED <<error, ioError, done, bufferOwner>>, ServeFrame,
         ~busy[cur], left[cur] > 0, ioError[cur] = "none",
         \/ job[cur].kind = "unbuffered" /\ state' = "Reading"
         \/ job[cur].kind = "buffered" /\ state' = "Filling"
  PROVE  IndInv'
<1> USE DEF issueRead
<1>1. Active' = Active  BY DEF Active, Occupied
<1>2. /\ cur \in Active /\ cur \in Commands /\ cur # None /\ life[cur] = "live"
      /\ delivered[cur] = 0 /\ job[cur] \in Jobs /\ job[cur] \in JobType
      /\ signalState[cur] # "Finished"
  BY CurServed
<1>3. ToSet(wakeupQueue) = {}
  BY ElemsEmpty DEF NoWakeupDue
<1>4. left' \in [Commands -> Nat] /\ busy' \in [Commands -> BOOLEAN] /\ state' \in States
  BY <1>2 DEF IndInv, TypeOK, States
<1>5. busy'[cur] /\ left'[cur] = left[cur] - 1
  BY <1>2 DEF IndInv, TypeOK
<1>6. UNCHANGED <<Distinct, PendingWaits, ReadyWaits, CallbacksDue, FramesRun,
   Lives>>
  BY <1>1
  DEF Distinct, PendingWaits, ReadyWaits, CallbacksDue, FramesRun, Lives
<1>7. TypeOK'  BY <1>1, <1>2, <1>4 DEF IndInv, TypeOK, Serviced, States, Errors
<1>8. SlotsServed'  BY DEF IndInv, SlotsServed
<1>9. Progress'
  <2>1. ASSUME NEW c \in Commands, c # cur
        PROVE  Stage(c)' = Stage(c) /\ BusyBit(c)' = BusyBit(c) /\ left'[c] = left[c]
    BY <1>2, <2>1 DEF IndInv, TypeOK, Stage, BusyBit
  <2>2. /\ BusyBit(cur) = 0 /\ BusyBit(cur)' = 1
        /\ Stage(cur)' = "Filling" \/ (Stage(cur)' = "Reading" /\ job[cur].kind = "unbuffered")
    BY <1>5 DEF Stage, BusyBit
  <2>3. left[cur] \in Nat /\ done[cur] \in Nat /\ job[cur].chunks \in Nat
    BY <1>2 DEF IndInv, TypeOK
  <2>4. QED
    BY <1>2, <1>5, <2>1, <2>2, <2>3 DEF IndInv, Progress, Reads
<1>10. Serviced'  BY <1>1 DEF IndInv, TypeOK, Serviced
<1>11. InFlight'  BY <1>1, <1>2, <1>3 DEF IndInv, InFlight, Stage
<1>12. BufferLocked'
  BY <1>1 DEF IndInv, BufferLocked, BufferHeldByActive, Finishing
<1>13. ActiveCountAgrees'  BY DEF IndInv, ActiveCountAgrees, SlotsHeld, Slot
<1>14. NeverStranded'  BY <1>1 DEF IndInv, NeverStranded
<1>15. NoLostSignal'  BY DEF IndInv, NoLostSignal, NoWakeupDue
<1>16. QED  BY <1>6, <1>7, <1>8, <1>9, <1>10, <1>11, <1>12, <1>13, <1>14, <1>15
   DEF IndInv

(* A handler finds its read in flight and goes on to give up the           *)
(* reference.                                                              *)
LEMMA WaitsKeeps ==
  ASSUME IndInv, SvcAt("serve"), InProgress,
         NoIO, UNCHANGED bufferOwner, ServeFrame, busy[cur]
  PROVE  IndInv'
<1> USE DEF InProgress
<1>1. Active' = Active  BY DEF Active, Occupied
<1>2. /\ cur \in Active /\ cur \in Commands /\ cur # None /\ life[cur] = "live"
      /\ delivered[cur] = 0 /\ job[cur] \in Jobs /\ job[cur] \in JobType
      /\ signalState[cur] # "Finished"
  BY CurServed
<1>4. UNCHANGED <<Distinct, PendingWaits, ReadyWaits, CallbacksDue, FramesRun,
   Lives, Progress, InFlight, NeverStranded>>
  BY <1>1
  DEF Distinct, PendingWaits, ReadyWaits, CallbacksDue, FramesRun, Lives,
     Progress, Stage, Reads, BusyBit, InFlight, NeverStranded
<1>5. TypeOK'  BY DEF IndInv, TypeOK
<1>6. SlotsServed'  BY DEF IndInv, SlotsServed
<1>7. Serviced'  BY <1>1, <1>2 DEF IndInv, Serviced, InFlight, Stage
<1>8. BufferLocked'
  BY <1>1 DEF IndInv, BufferLocked, BufferHeldByActive, Finishing
<1>9. ActiveCountAgrees'  BY DEF IndInv, ActiveCountAgrees, SlotsHeld, Slot
<1>10. NoLostSignal'  BY DEF IndInv, NoLostSignal, NoWakeupDue
<1>11. QED  BY <1>4, <1>5, <1>6, <1>7, <1>8, <1>9, <1>10 DEF IndInv

(* A buffered read takes its file's buffer.                                *)
LEMMA LocksKeeps ==
  ASSUME IndInv, SvcAt("serve"), state = "NotStarted",
         job[cur].kind = "buffered", bufferOwner[job[cur].file] = None,
         Goto("Reading"), bufferOwner' = [bufferOwner EXCEPT ![job[cur].file] = cur],
         UNCHANGED error, NoIO, ServeFrame
  PROVE  IndInv'
<1> USE DEF Goto
<1>1. Active' = Active  BY DEF Active, Occupied
<1>2. /\ cur \in Active /\ cur \in Commands /\ cur # None /\ life[cur] = "live"
      /\ delivered[cur] = 0 /\ job[cur] \in Jobs /\ job[cur] \in JobType
      /\ signalState[cur] # "Finished"
  BY CurServed
<1>4. UNCHANGED <<Distinct, PendingWaits, ReadyWaits, SlotsServed,
   CallbacksDue, FramesRun, Lives, ActiveCountAgrees, NeverStranded,
   NoLostSignal>>
  BY <1>1
  DEF Distinct, PendingWaits, ReadyWaits, SlotsServed, CallbacksDue, FramesRun,
     Lives, ActiveCountAgrees, SlotsHeld, Slot, NeverStranded, NoLostSignal,
     NoWakeupDue
<1>5. TypeOK'  BY DEF IndInv, TypeOK, States
<1>6. Progress'  BY DEF IndInv, Progress, Stage, Reads, BusyBit
<1>7. Serviced'  BY <1>1 DEF IndInv, Serviced
<1>8. InFlight'  BY <1>1 DEF IndInv, InFlight, Stage
<1>9. BufferLocked'
  BY <1>1, <1>2 DEF IndInv, BufferLocked, BufferHeldByActive, Finishing
<1>10. QED  BY <1>4, <1>5, <1>6, <1>7, <1>8, <1>9 DEF IndInv

(* A buffered read finds the buffer locked, and will be tried again.       *)
LEMMA RetriesKeeps ==
  ASSUME IndInv, SvcAt("serve"), state = "NotStarted",
         svc' = "commit", UNCHANGED <<cur, state, error, bufferOwner>>,
         NoIO, ServeFrame
  PROVE  IndInv'
<1>1. Active' = Active  BY DEF Active, Occupied
<1>4. UNCHANGED <<Distinct, PendingWaits, ReadyWaits, CallbacksDue, FramesRun,
   Lives, Progress, InFlight, NeverStranded>>
  BY <1>1
  DEF Distinct, PendingWaits, ReadyWaits, CallbacksDue, FramesRun, Lives,
     Progress, Stage, Reads, BusyBit, InFlight, NeverStranded
<1>5. TypeOK'  BY DEF IndInv, TypeOK
<1>6. SlotsServed'  BY DEF IndInv, SlotsServed
<1>7. Serviced'  BY <1>1 DEF IndInv, Serviced
<1>8. BufferLocked'
  BY <1>1 DEF IndInv, BufferLocked, BufferHeldByActive, Finishing
<1>9. ActiveCountAgrees'  BY DEF IndInv, ActiveCountAgrees, SlotsHeld, Slot
<1>10. NoLostSignal'  BY DEF IndInv, NoLostSignal, NoWakeupDue
<1>11. QED  BY <1>4, <1>5, <1>6, <1>7, <1>8, <1>9, <1>10 DEF IndInv

(* A buffer fill ended well.                                               *)
LEMMA FillsKeeps ==
  ASSUME IndInv, SvcAt("serve"), state = "Filling",
         job[cur].kind = "buffered", ~busy[cur], ioError[cur] = "none",
         Goto("Reading"), UNCHANGED <<error, bufferOwner>>, NoIO, ServeFrame
  PROVE  IndInv'
<1> USE DEF Goto
<1>1. Active' = Active  BY DEF Active, Occupied
<1>3. ToSet(wakeupQueue) = {}
  BY ElemsEmpty DEF NoWakeupDue
<1>4. UNCHANGED <<Distinct, PendingWaits, ReadyWaits, SlotsServed,
   CallbacksDue, FramesRun, Lives, ActiveCountAgrees, NeverStranded,
   NoLostSignal>>
  BY <1>1
  DEF Distinct, PendingWaits, ReadyWaits, SlotsServed, CallbacksDue, FramesRun,
     Lives, ActiveCountAgrees, SlotsHeld, Slot, NeverStranded, NoLostSignal,
     NoWakeupDue
<1>5. TypeOK'  BY DEF IndInv, TypeOK, States
<1>6. Progress'  BY DEF IndInv, Progress, Stage, Reads, BusyBit
<1>7. Serviced'  BY <1>1 DEF IndInv, Serviced
<1>8. InFlight'  BY <1>1, <1>3 DEF IndInv, InFlight, Stage
<1>9. BufferLocked'
  BY <1>1 DEF IndInv, BufferLocked, BufferHeldByActive, Finishing
<1>10. QED  BY <1>4, <1>5, <1>6, <1>7, <1>8, <1>9 DEF IndInv

(* openNotStarted keeps the invariant.                                     *)
LEMMA openNotStartedKeeps ==
  ASSUME IndInv, openNotStarted
  PROVE  IndInv'
<1>1. cur \in Commands /\ ~busy[cur] /\ job[cur].kind = "open" /\ error[cur] \in Errors
  BY CurServed DEF openNotStarted, Serving, IndInv, InFlight, Stage, TypeOK
<1>2. PICK e \in Errors : error' = [error EXCEPT ![cur] = e]
  <2>1. CASE aborted[cur]
    <3>1. error' = [error EXCEPT ![cur] = error[cur]]
      BY <1>1, <2>1 DEF openNotStarted, IndInv, TypeOK
    <3>2. QED  BY <1>1, <3>1
  <2>2. CASE ~aborted[cur]  BY <2>2 DEF openNotStarted, Fail, Errors
  <2>3. QED  BY <2>1, <2>2
<1>3. QED  BY <1>1, <1>2, EndsKeeps DEF openNotStarted, Serving, Fail, Reads

(* closeNotStarted keeps the invariant.                                    *)
LEMMA closeNotStartedKeeps ==
  ASSUME IndInv, closeNotStarted
  PROVE  IndInv'
<1>1. ~busy[cur] /\ job[cur].kind = "close"
  BY CurServed DEF closeNotStarted, Serving, IndInv, InFlight, Stage
<1>2. QED  BY <1>1, EndsKeeps DEF closeNotStarted, Serving, Fail, Reads, Errors

(* unbufferedNotStarted keeps the invariant.                               *)
LEMMA unbufferedNotStartedKeeps ==
  ASSUME IndInv, unbufferedNotStarted
  PROVE  IndInv'
<1>1. ~busy[cur] /\ job[cur].kind = "unbuffered"
  BY CurServed DEF unbufferedNotStarted, Serving, IndInv, InFlight, Stage
<1>2. left[cur] > 0 /\ ioError[cur] = "none"
  BY <1>1, CurServed
  DEF unbufferedNotStarted, Serving, IndInv, Progress, Stage
<1>3. ASSUME NEW e \in {"aborted", "failed"},
             Goto("Signal"), Fail(e), NoIO
      PROVE  IndInv'
  BY <1>1, <1>3, EndsKeeps DEF unbufferedNotStarted, Serving, Errors
<1>4. ASSUME Goto("Reading"), issueRead, UNCHANGED <<error, ioError, done>>
      PROVE  IndInv'
  BY <1>1, <1>2, <1>4, IssuesKeeps DEF unbufferedNotStarted, Serving, Goto
<1>5. QED  BY <1>3, <1>4 DEF unbufferedNotStarted

(* unbufferedReading keeps the invariant.                                  *)
LEMMA unbufferedReadingKeeps ==
  ASSUME IndInv, unbufferedReading
  PROVE  IndInv'
<1>1. /\ SvcAt("serve") /\ state = "Reading" /\ job[cur].kind = "unbuffered"
      /\ UNCHANGED bufferOwner /\ ServeFrame
  BY DEF unbufferedReading, Serving
<1>2. /\ cur \in Commands /\ life[cur] = "live" /\ left[cur] \in Nat
      /\ done[cur] \in Nat /\ ioError[cur] \in Errors /\ job[cur].chunks \in Nat
  BY <1>1, CurServed DEF IndInv, TypeOK
<1>3. CASE ReadOver /\ Goto("Signal") /\ Fail(ReadResult) /\ NoIO
  <2>1. ReadResult \in Errors  BY <1>2 DEF ReadResult, Errors
  <2>2. ReadResult = "none" => left[cur] = 0 /\ ioError[cur] = "none"
    BY <1>3 DEF ReadResult, ReadOver
  <2>3. ReadResult = "none" => done[cur] = job[cur].chunks
    BY <1>1, <1>2, <1>3, <2>2 DEF ReadOver, IndInv, Progress, Reads, BusyBit
  <2>4. QED  BY <1>1, <1>3, <2>1, <2>3, EndsKeeps DEF ReadOver
<1>4. CASE busy[cur] /\ InProgress /\ NoIO
  BY <1>1, <1>4, WaitsKeeps
<1>5. CASE /\ ~ReadOver /\ ~busy[cur]
           /\ InProgress /\ issueRead /\ UNCHANGED <<ioError, done>>
  <2>1. left[cur] > 0 /\ ioError[cur] = "none"  BY <1>2, <1>5 DEF ReadOver
  <2>2. QED  BY <1>1, <1>5, <2>1, IssuesKeeps DEF InProgress
<1>6. ReadOver => ~busy[cur]  BY DEF ReadOver
<1>7. QED  BY <1>3, <1>4, <1>5, <1>6 DEF unbufferedReading

(* bufferedNotStarted keeps the invariant.                                 *)
LEMMA bufferedNotStartedKeeps ==
  ASSUME IndInv, bufferedNotStarted
  PROVE  IndInv'
<1>1. /\ SvcAt("serve") /\ state = "NotStarted" /\ job[cur].kind = "buffered"
      /\ NoIO /\ ServeFrame
  BY DEF bufferedNotStarted, Serving
<1>2. ~busy[cur]  BY <1>1, CurServed DEF IndInv, InFlight, Stage
<1>3. CASE Goto("Signal") /\ Fail("aborted") /\ UNCHANGED bufferOwner
  BY <1>1, <1>2, <1>3, EndsKeeps DEF Errors
<1>4. CASE /\ bufferOwner[job[cur].file] = None /\ Goto("Reading")
           /\ bufferOwner' = [bufferOwner EXCEPT ![job[cur].file] = cur]
           /\ UNCHANGED error
  BY <1>1, <1>4, LocksKeeps
<1>5. CASE svc' = "commit" /\ UNCHANGED <<cur, state, error, bufferOwner>>
  BY <1>1, <1>5, RetriesKeeps
<1>6. QED  BY <1>3, <1>4, <1>5 DEF bufferedNotStarted

(* bufferedReading keeps the invariant.                                    *)
LEMMA bufferedReadingKeeps ==
  ASSUME IndInv, bufferedReading
  PROVE  IndInv'
<1>1. /\ SvcAt("serve") /\ state = "Reading" /\ job[cur].kind = "buffered"
      /\ UNCHANGED bufferOwner /\ ServeFrame
  BY DEF bufferedReading, Serving
<1>2. /\ cur \in Commands /\ life[cur] = "live" /\ left[cur] \in Nat
      /\ done[cur] \in Nat /\ job[cur].chunks \in Nat
  BY <1>1, CurServed DEF IndInv, TypeOK
<1>3. ~busy[cur]  BY <1>1, <1>2 DEF IndInv, InFlight, Stage
<1>4. /\ ioError[cur] = "none"
      /\ done[cur] + left[cur] = job[cur].chunks
  BY <1>1, <1>2, <1>3 DEF IndInv, Progress, Stage, Reads, BusyBit
<1>5. ASSUME NEW e \in Errors, e = "none" => left[cur] = 0,
             Goto("Signal"), Fail(e), NoIO
      PROVE  IndInv'
  BY <1>1, <1>2, <1>3, <1>4, <1>5, EndsKeeps
<1>6. ASSUME left[cur] > 0, Goto("Filling"), issueRead,
             UNCHANGED <<error, ioError, done>>
      PROVE  IndInv'
  BY <1>1, <1>3, <1>4, <1>6, IssuesKeeps DEF Goto
<1>7. QED  BY <1>5, <1>6 DEF bufferedReading, Errors

(* bufferedFilling keeps the invariant.                                    *)
LEMMA bufferedFillingKeeps ==
  ASSUME IndInv, bufferedFilling
  PROVE  IndInv'
<1>1. /\ SvcAt("serve") /\ state = "Filling" /\ job[cur].kind = "buffered"
      /\ NoIO /\ UNCHANGED bufferOwner /\ ServeFrame
  BY DEF bufferedFilling, Serving
<1>2. cur \in Commands /\ ioError[cur] \in Errors
  BY <1>1, CurServed DEF IndInv, TypeOK
<1>3. CASE busy[cur] /\ InProgress  BY <1>1, <1>3, WaitsKeeps
<1>4. CASE ~busy[cur] /\ ReadResult # "none" /\ Goto("Signal") /\ Fail(ReadResult)
  <2>1. ReadResult \in Errors  BY <1>2 DEF ReadResult, Errors
  <2>2. QED  BY <1>1, <1>4, <2>1, EndsKeeps
<1>5. CASE ~busy[cur] /\ ReadResult = "none" /\ Goto("Reading") /\ UNCHANGED error
  BY <1>1, <1>5, FillsKeeps DEF ReadResult
<1>6. QED  BY <1>3, <1>4, <1>5 DEF bufferedFilling

(* signal keeps the invariant.                                             *)
LEMMA signalKeeps ==
  ASSUME IndInv, signal
  PROVE  IndInv'
<1> USE DEF signal, Serving
<1>1. Active' = Active  BY DEF Active, Occupied
<1>2. /\ cur \in Active /\ cur \in Commands /\ cur # None /\ life[cur] = "live"
      /\ delivered[cur] = 0 /\ job[cur] \in Jobs /\ job[cur] \in JobType
      /\ signalState[cur] # "Finished"
  BY CurServed
<1>3. UNCHANGED <<Distinct, PendingWaits, ReadyWaits, CallbacksDue, FramesRun,
   Lives, NeverStranded>>
  BY <1>1
  DEF Distinct, PendingWaits, ReadyWaits, CallbacksDue, FramesRun, Lives,
     NeverStranded
<1>4. TypeOK'  BY DEF IndInv, TypeOK, States
<1>5. SlotsServed'  BY DEF IndInv, SlotsServed
<1>6. Progress'  BY DEF IndInv, Progress, Stage, Reads, BusyBit
<1>7. Serviced'  BY <1>1 DEF IndInv, Serviced
<1>8. InFlight'  BY <1>1 DEF IndInv, InFlight, Stage
<1>9. BufferLocked'
  BY <1>1, <1>2 DEF IndInv, BufferLocked, BufferHeldByActive, Finishing
<1>10. ActiveCountAgrees'  BY DEF IndInv, ActiveCountAgrees, SlotsHeld, Slot
<1>11. NoLostSignal'  BY DEF IndInv, NoLostSignal, NoWakeupDue
<1>12. QED  BY <1>3, <1>4, <1>5, <1>6, <1>7, <1>8, <1>9, <1>10, <1>11 DEF
   IndInv

(* release keeps the invariant.                                            *)
LEMMA releaseKeeps ==
  ASSUME IndInv, release
  PROVE  IndInv'
<1> USE DEF release
<1>1. Active' = Active  BY DEF Active, Occupied
<1>2. UNCHANGED <<Distinct, CallbacksDue, FramesRun, Lives, Progress,
   InFlight>>
  BY <1>1
  DEF Distinct, CallbacksDue, FramesRun, Lives, Progress, Stage, Reads,
     BusyBit, InFlight
<1>3. TypeOK'  BY <1>1 DEF IndInv, TypeOK, Serviced, States, Errors
<1>4. PendingWaits'  BY <1>1 DEF IndInv, PendingWaits
<1>5. ReadyWaits'  BY <1>1 DEF IndInv, ReadyWaits
<1>6. SlotsServed'  BY DEF IndInv, SlotsServed
<1>7. Serviced'  BY <1>1 DEF IndInv, Serviced
<1>8. BufferLocked'
  BY <1>1 DEF IndInv, Serviced, BufferLocked, BufferHeldByActive, Finishing
<1>9. ActiveCountAgrees'  BY DEF IndInv, ActiveCountAgrees, SlotsHeld, Slot
<1>10. NeverStranded'  BY <1>1 DEF IndInv, TypeOK, Serviced, NeverStranded
<1>11. NoLostSignal'  BY DEF IndInv, NoLostSignal, NoWakeupDue
<1>12. QED  BY <1>2, <1>3, <1>4, <1>5, <1>6, <1>7, <1>8, <1>9, <1>10, <1>11 DEF
   IndInv

(* commit keeps the invariant.                                             *)
LEMMA commitKeeps ==
  ASSUME IndInv, commit
  PROVE  IndInv'
<1> USE DEF commit
<1>1. Active' = Active  BY DEF Active, Occupied
<1>2. /\ cur \in Active /\ cur \in Commands /\ cur # None /\ life[cur] = "live"
      /\ delivered[cur] = 0 /\ job[cur] \in Jobs /\ job[cur] \in JobType
      /\ signalState[cur] # "Finished"
  BY CurServed
<1>3. /\ ToSet(pending) \subseteq Commands /\ ToSet(ready) \subseteq Commands
      /\ ToSet(callbacks) \subseteq Commands
  BY Elements DEF IndInv
<1>4. UNCHANGED <<Distinct, FramesRun, NeverStranded>>
  BY <1>1 DEF Distinct, FramesRun, NeverStranded
<1>5. TypeOK'  BY DEF IndInv, TypeOK
<1>6. PendingWaits'  BY <1>1, <1>3 DEF IndInv, PendingWaits
<1>7. ReadyWaits'  BY <1>1, <1>3 DEF IndInv, ReadyWaits
<1>8. SlotsServed'  BY DEF IndInv, Serviced, SlotsServed
<1>9. CallbacksDue'  BY <1>1, <1>3 DEF IndInv, CallbacksDue
<1>10. Lives'  BY <1>2 DEF IndInv, Serviced, Lives
<1>11. Progress'  BY DEF IndInv, TypeOK, Progress, Stage, Reads, BusyBit
<1>12. Serviced'  BY <1>1 DEF IndInv, TypeOK, Serviced
<1>13. InFlight'  BY <1>1 DEF IndInv, TypeOK, InFlight, Stage
<1>14. BufferLocked'
  BY <1>1 DEF IndInv, BufferLocked, BufferHeldByActive, Finishing
<1>15. ActiveCountAgrees'  BY DEF IndInv, ActiveCountAgrees, SlotsHeld, Slot
<1>16. NoLostSignal'  BY DEF IndInv, NoLostSignal, NoWakeupDue
<1>17. QED  BY <1>4, <1>5, <1>6, <1>7, <1>8, <1>9, <1>10, <1>11, <1>12, <1>13,
   <1>14, <1>15, <1>16 DEF IndInv

(* retire keeps the invariant.                                             *)
LEMMA retireKeeps ==
  ASSUME IndInv, retire
  PROVE  IndInv'
<1> USE DEF retire
<1>1. /\ cur \in Active /\ cur \in Commands /\ cur # None /\ life[cur] = "live"
      /\ signalState[cur] = "Finished" /\ job[cur] \in JobType
      /\ active[job[cur].prio] = cur
  BY CurServed, InSlot DEF retire, IndInv, Serviced
<1>2. \A p \in Priorities : /\ active[p] = cur => p = job[cur].prio
                           /\ active'[p] = IF active[p] = cur THEN None ELSE active[p]
  BY <1>1 DEF IndInv, SlotsServed
<1>3. Active' = Active \ {cur}
  BY <1>1, <1>2 DEF Active, Occupied
<1>4. ~busy[cur] /\ cur \notin ToSet(wakeupQueue)
  BY <1>1 DEF IndInv, InFlight, Stage, Serviced
<1>5. UNCHANGED <<Distinct, FramesRun, Lives, Progress>>
  BY DEF Distinct, FramesRun, Lives, Progress, Stage, Reads, BusyBit
<1>6. TypeOK'  BY DEF IndInv, TypeOK
<1>7. PendingWaits'  BY <1>3 DEF IndInv, PendingWaits
<1>8. ReadyWaits'  BY <1>3 DEF IndInv, ReadyWaits
<1>9. SlotsServed'  BY DEF IndInv, SlotsServed
<1>10. CallbacksDue'  BY <1>3 DEF IndInv, CallbacksDue
<1>11. Serviced'  BY <1>1, <1>3 DEF IndInv, Serviced
<1>12. InFlight'  BY <1>3, <1>4 DEF IndInv, InFlight, Stage
<1>13. BufferLocked'
  BY <1>3 DEF IndInv, BufferLocked, BufferHeldByActive, Finishing
<1>14. ActiveCountAgrees'
  <2> PICK q \in Priorities : q = job[cur].prio  BY <1>1
  <2>1. q \in Priorities /\ active[q] = cur /\ active'[q] = None
    BY <1>1, <1>2
  <2>2. \A p \in Priorities \ {q} : active'[p] = active[p]
    BY <1>2
  <2>3. Slot(q) = 1 /\ Slot(q)' = 0
    BY <1>1, <2>1 DEF Slot
  <2>4. \A p \in Priorities \ {q} : Slot(p)' = Slot(p)
    BY <2>2 DEF Slot
  <2>5. \A p \in Priorities : Slot(p) \in {0, 1}
    BY DEF Slot
  <2>6. SlotsHeld' = SlotsHeld - 1
    BY <2>3, <2>4, <2>5 DEF SlotsHeld, Priorities
  <2>7. SlotsHeld \in Int
    BY <2>5 DEF SlotsHeld, Priorities
  <2>8. QED  BY <2>6, <2>7 DEF IndInv, TypeOK, ActiveCountAgrees
<1>15. NeverStranded'  BY <1>3 DEF IndInv, NeverStranded
<1>16. NoLostSignal'  BY DEF IndInv, NoLostSignal, NoWakeupDue
<1>17. QED  BY <1>5, <1>6, <1>7, <1>8, <1>9, <1>10, <1>11, <1>12, <1>13, <1>14,
   <1>15, <1>16 DEF IndInv

(* queueCommandCallback keeps the invariant.                               *)
LEMMA queueCommandCallbackKeeps ==
  ASSUME IndInv, queueCommandCallback
  PROVE  IndInv'
<1> USE DEF queueCommandCallback
<1>1. Active' = Active  BY DEF Active, Occupied
<1>2. /\ cur \in Commands /\ cur # None /\ cur \notin Active /\ life[cur] = "live"
      /\ signalState[cur] = "Finished" /\ state = "Finished" /\ cur \notin ToSet(callbacks)
  BY DEF IndInv, TypeOK, Serviced, CallbacksDue
<1>3. /\ callbacks' \in Seq(Commands) /\ ToSet(callbacks') = ToSet(callbacks) \cup {cur}
      /\ IsInjective(callbacks')
  BY <1>2, ElemsAppend DEF IndInv, TypeOK, Distinct
<1>4. /\ ToSet(pending) \subseteq Commands /\ ToSet(ready) \subseteq Commands
      /\ ToSet(callbacks) \subseteq Commands /\ ToSet(wakeupQueue) \subseteq Commands
  BY Elements DEF IndInv
<1>5. activeCount' \in 0 .. 3
  BY DEF IndInv, TypeOK, ActiveCountAgrees, SlotsHeld, Slot
<1>6. UNCHANGED <<FramesRun, Lives, NeverStranded>>
  BY <1>1 DEF FramesRun, Lives, NeverStranded
<1>7. TypeOK'  BY <1>3, <1>5 DEF IndInv, TypeOK
<1>8. Distinct'  BY <1>3 DEF IndInv, Distinct
<1>9. PendingWaits'  BY <1>1, <1>4 DEF IndInv, PendingWaits
<1>10. ReadyWaits'  BY <1>1, <1>4 DEF IndInv, ReadyWaits
<1>11. SlotsServed'  BY DEF IndInv, SlotsServed
<1>12. CallbacksDue'  BY <1>1, <1>2, <1>3, <1>4 DEF IndInv, CallbacksDue
<1>13. Progress'  BY <1>2 DEF IndInv, Progress, Stage, Reads, BusyBit
<1>14. Serviced'  BY DEF IndInv, Serviced
<1>15. InFlight'  BY <1>1, <1>2 DEF IndInv, InFlight, Stage
<1>16. BufferLocked'
  BY <1>1 DEF IndInv, BufferLocked, BufferHeldByActive, Finishing
<1>17. ActiveCountAgrees'  BY DEF IndInv, ActiveCountAgrees, SlotsHeld, Slot
<1>18. NoLostSignal'  BY DEF IndInv, NoLostSignal, NoWakeupDue
<1>19. QED  BY <1>6, <1>7, <1>8, <1>9, <1>10, <1>11, <1>12, <1>13, <1>14,
   <1>15, <1>16, <1>17, <1>18 DEF IndInv

----------------------------------------------------------------------------
(* The disc interrupt and the wakeup thread.                               *)

(* gcCallbackThunk keeps the invariant.                                    *)
LEMMA gcCallbackThunkKeeps ==
  ASSUME IndInv, NEW c \in Commands, gcCallbackThunk(c)
  PROVE  IndInv'
<1>1. /\ busy[c] /\ busy' = [busy EXCEPT ![c] = FALSE]
      /\ UNCHANGED <<cmdVars, left, serverVars, svcVars, callbacks, gameVars>>
  BY DEF gcCallbackThunk
<1>2. Active' = Active /\ \A d \in Commands : Stage(d)' = Stage(d)
  BY <1>1 DEF Active, Occupied, Stage
<1>3. /\ c \in Active /\ c \notin ToSet(wakeupQueue) /\ life[c] = "live"
      /\ signalState[c] # "Completed"
      /\ Stage(c) \in {"Reading", "Filling"} /\ job[c].kind \in Reads
  BY <1>1, InSlot DEF IndInv, InFlight, Reads
<1>4. Len(wakeupQueue) < WakeupSlots
  BY <1>1, WakeupSlotFree
<1>5. wakeupQueue' = Append(wakeupQueue, c)
  BY <1>4 DEF gcCallbackThunk
<1>6. /\ wakeupQueue' \in Seq(Commands) /\ IsInjective(wakeupQueue')
      /\ ToSet(wakeupQueue') = ToSet(wakeupQueue) \cup {c}
  BY <1>3, <1>5, ElemsAppend DEF IndInv, TypeOK, Distinct
<1>7. wakeupQueue' # <<>>
  BY <1>6, ElemsEmpty
<1>8. /\ done' \in [Commands -> Nat] /\ ioError' \in [Commands -> Errors]
      /\ \A d \in Commands \ {c} : done'[d] = done[d] /\ ioError'[d] = ioError[d]
      /\ (done'[c] = done[c] + 1 /\ ioError'[c] = ioError[c]) \/ ioError'[c] = "failed"
  <2>1. done \in [Commands -> Nat] /\ ioError \in [Commands -> Errors]
    BY DEF IndInv, TypeOK
  <2>2. CASE done' = [done EXCEPT ![c] = @ + 1] /\ UNCHANGED ioError
    BY <2>1, <2>2
  <2>3. CASE ioError' = [ioError EXCEPT ![c] = "failed"] /\ UNCHANGED done
    BY <2>1, <2>3 DEF Errors
  <2>4. QED  BY <2>2, <2>3 DEF gcCallbackThunk
<1>10. UNCHANGED <<PendingWaits, ReadyWaits, SlotsServed, CallbacksDue,
   FramesRun, Lives, BufferLocked, ActiveCountAgrees>>
  BY <1>1, <1>2
  DEF PendingWaits, ReadyWaits, SlotsServed, CallbacksDue, FramesRun, Lives,
     BufferLocked, BufferHeldByActive, Finishing, ActiveCountAgrees, SlotsHeld,
     Slot
<1>11. TypeOK'  BY <1>1, <1>6, <1>8 DEF IndInv, TypeOK
<1>12. Distinct'  BY <1>1, <1>6 DEF IndInv, Distinct
<1>13. Progress'
  <2>1. ASSUME NEW d \in Commands, d # c PROVE BusyBit(d)' = BusyBit(d)
    BY <1>1, <2>1 DEF IndInv, TypeOK, BusyBit
  <2>2. BusyBit(c) = 1 /\ BusyBit(c)' = 0
    BY <1>1 DEF IndInv, TypeOK, BusyBit
  <2>3. done[c] \in Nat /\ left[c] \in Nat
    BY DEF IndInv, TypeOK
  <2>4. job[c].kind = "buffered" => Stage(c) = "Filling"
    BY <1>1 DEF IndInv, InFlight
  <2>5. QED
    BY <1>1, <1>2, <1>3, <1>8, <2>1, <2>2, <2>3, <2>4 DEF IndInv, Progress, Reads
<1>14. Serviced'  BY <1>1, <1>2, <1>6 DEF IndInv, Serviced
<1>15. InFlight'  BY <1>1, <1>2, <1>6 DEF IndInv, TypeOK, InFlight, Stage
<1>16. NeverStranded'
  <2>1. \A d \in Commands \ {c} : busy'[d] = busy[d]
    BY <1>1 DEF IndInv, TypeOK
  <2>2. Active \subseteq Commands  BY InSlot
  <2>3. QED  BY <1>1, <1>2, <1>6, <2>1, <2>2 DEF IndInv, NeverStranded
<1>17. NoLostSignal'  BY <1>7 DEF NoLostSignal, NoWakeupDue
<1>18. QED  BY <1>10, <1>11, <1>12, <1>13, <1>14, <1>15, <1>16, <1>17 DEF
   IndInv

(* wakeup keeps the invariant.                                             *)
LEMMA wakeupKeeps ==
  ASSUME IndInv, wakeup
  PROVE  IndInv'
<1> DEFINE c == Head(wakeupQueue)
<1>1. wakeupQueue # <<>> /\ wakeupQueue' = Tail(wakeupQueue)
  BY DEF wakeup
<1>2. /\ refs' = [refs EXCEPT ![c] = @ + 1]
      /\ UNCHANGED <<job, life, signalState, aborted, pendingDelete, error, ioVars,
                     serverVars, cur, state, callbacks, gameVars>>
      /\ svc' = IF queryActive' THEN Woken ELSE svc
  BY DEF wakeup
<1>3. Active' = Active  BY <1>2 DEF Active, Occupied
<1>4. /\ c \in Commands /\ wakeupQueue' \in Seq(Commands) /\ IsInjective(wakeupQueue')
      /\ ToSet(wakeupQueue) = {c} \cup ToSet(wakeupQueue')
      /\ c \notin ToSet(wakeupQueue')
  BY <1>1, ElemsTail DEF IndInv, TypeOK, Distinct
<1> HIDE DEF c
<1>5. c \in Active /\ refs[c] \in Nat
  BY <1>4 DEF IndInv, InFlight, TypeOK
<1>6. /\ refs' \in [Commands -> Nat] /\ refs'[c] = refs[c] + 1
      /\ \A d \in Commands \ {c} : refs'[d] = refs[d]
  BY <1>2, <1>4, <1>5 DEF IndInv, TypeOK
<1>7. svc' = svc \/ (svc = "asleep" /\ svc' = "check")
  BY <1>2 DEF Woken
<1>8. svc' = "asleep" => ~queryActive'
  BY <1>2 DEF Woken
<1>10. UNCHANGED <<CallbacksDue, FramesRun, Lives, Progress>>
  BY <1>2, <1>3
  DEF CallbacksDue, FramesRun, Lives, Progress, Stage, Reads, BusyBit
<1>11. TypeOK'  BY <1>2, <1>4, <1>6, <1>7 DEF IndInv, TypeOK
<1>12. Distinct'  BY <1>2, <1>4 DEF IndInv, Distinct
<1>13. PendingWaits'  BY <1>2, <1>3, <1>5 DEF IndInv, PendingWaits
<1>14. ReadyWaits'  BY <1>2, <1>3, <1>5 DEF IndInv, ReadyWaits
<1>15. SlotsServed'  BY <1>2, <1>7 DEF IndInv, SlotsServed
<1>16. Serviced'
  <2>1. \A d \in Commands : refs[d] \in Nat
    BY DEF IndInv, TypeOK
  <2>2. svc \in {"serve", "release"} => cur \in Commands /\ refs[cur] > 0 /\ refs'[cur] > 0
    BY <1>5, <1>6, <2>1, CurServed DEF IndInv, Serviced
  <2>3. CASE cur = c
    <3>1. svc = "release" => refs'[cur] > 1
      BY <1>5, <1>6, <2>2, <2>3
    <3>2. QED  BY <1>2, <1>3, <1>7, <2>2, <3>1 DEF IndInv, Serviced
  <2>4. CASE cur # c
    <3>1. svc = "release" => busy[cur] \/ cur \in ToSet(wakeupQueue') \/ refs'[cur] > 1
      BY <1>4, <1>6, <2>2, <2>4 DEF IndInv, Serviced
    <3>2. QED  BY <1>2, <1>3, <1>7, <2>2, <3>1 DEF IndInv, Serviced
  <2>5. QED  BY <2>3, <2>4
<1>17. InFlight'  BY <1>2, <1>3, <1>4 DEF IndInv, InFlight, Stage
<1>18. BufferLocked'
  BY <1>2, <1>3, <1>7 DEF IndInv, BufferLocked, BufferHeldByActive, Finishing
<1>19. ActiveCountAgrees'
  BY <1>2, <1>7 DEF IndInv, ActiveCountAgrees, SlotsHeld, Slot
<1>20. NeverStranded'
  BY <1>2, <1>3, <1>4, <1>5, <1>6 DEF IndInv, Serviced, NeverStranded
<1>21. NoLostSignal'  BY <1>8 DEF NoLostSignal
<1>22. QED  BY <1>10, <1>11, <1>12, <1>13, <1>14, <1>15, <1>16, <1>17, <1>18,
   <1>19, <1>20, <1>21 DEF IndInv

(* A step that changes nothing.                                            *)
LEMMA StutterKeeps ==
  ASSUME IndInv, UNCHANGED vars
  PROVE  IndInv'
<1> USE DEF vars
<1>1. Active' = Active  BY DEF Active, Occupied
<1>2. UNCHANGED <<Distinct, PendingWaits, ReadyWaits, SlotsServed,
   CallbacksDue, FramesRun, Lives, Progress, Serviced, InFlight, BufferLocked,
   ActiveCountAgrees, NeverStranded>>
  BY <1>1
  DEF Distinct, PendingWaits, ReadyWaits, SlotsServed, CallbacksDue, FramesRun,
     Lives, Progress, Stage, Reads, BusyBit, Serviced, InFlight, BufferLocked,
     BufferHeldByActive, Finishing, ActiveCountAgrees, SlotsHeld, Slot,
     NeverStranded
<1>3. TypeOK'  BY DEF IndInv, TypeOK
<1>4. NoLostSignal'  BY QueryStable DEF IndInv, NoLostSignal, NoWakeupDue
<1>5. QED  BY <1>2, <1>3, <1>4 DEF IndInv

----------------------------------------------------------------------------
(* The initial states satisfy the invariant.                               *)
LEMMA InitHolds ==
  ASSUME Init
  PROVE  IndInv
<1>1. ToSet(<<>>) = {} /\ IsInjective(<<>>)
  BY ElemsEmpty
<1>2. Occupied = {} /\ Active = {}
  BY DEF Init, Occupied, Active
<1>3. TypeOK  BY DEF Init, TypeOK, States, Errors, Priorities
<1>4. Distinct /\ PendingWaits /\ ReadyWaits /\ CallbacksDue /\ FramesRun
  BY <1>1 DEF Init, Distinct, PendingWaits, ReadyWaits, CallbacksDue, FramesRun
<1>5. SlotsServed /\ Serviced /\ NeverStranded /\ NoLostSignal
  BY <1>2 DEF Init, SlotsServed, Serviced, NeverStranded, NoLostSignal
<1>6. Lives /\ Progress
  BY DEF Init, Lives, Progress, Stage, Reads, BusyBit
<1>7. InFlight  BY <1>1 DEF Init, InFlight
<1>8. BufferLocked  BY DEF Init, BufferLocked, BufferHeldByActive, Finishing
<1>9. ActiveCountAgrees
  BY DEF Init, ActiveCountAgrees, SlotsHeld, Slot, Priorities
<1>10. QED  BY <1>3, <1>4, <1>5, <1>6, <1>7, <1>8, <1>9 DEF IndInv

(* Every step of every actor keeps it.                                     *)
LEMMA NextKeeps ==
  ASSUME IndInv, [Next]_vars
  PROVE  IndInv'
<1>1. CASE GameStep
  BY <1>1, addCommandKeeps, abortKeeps, deleteSelfKeeps, notifyCommandAddedKeeps,
     notifyServerActivityChangeKeeps, serviceCallbackKeeps, pendingDeleteSelfKeeps
  DEF GameStep
<1>2. CASE ServeStep
  BY <1>2, openNotStartedKeeps, closeNotStartedKeeps, unbufferedNotStartedKeeps,
     unbufferedReadingKeeps, bufferedNotStartedKeeps, bufferedReadingKeeps,
     bufferedFillingKeeps, signalKeeps
  DEF ServeStep
<1>3. CASE ServiceStep
  BY <1>2, <1>3, isActiveKeeps, drainKeeps, activateKeeps, pickKeeps, releaseKeeps,
     commitKeeps, retireKeeps, queueCommandCallbackKeeps
  DEF ServiceStep
<1>4. CASE \E c \in Commands : gcCallbackThunk(c)
  BY <1>4, gcCallbackThunkKeeps
<1>5. CASE wakeup  BY <1>5, wakeupKeeps
<1>6. CASE UNCHANGED vars  BY <1>6, StutterKeeps
<1>7. QED  BY <1>1, <1>3, <1>4, <1>5, <1>6 DEF Next

(* The inductive invariant holds in every reachable state, however many    *)
(* commands, files, jobs and queue entries there are and whether or not    *)
(* the game thread yields to the service thread.                           *)
THEOREM ServerInvariant == Spec => []IndInv
<1>1. Init => IndInv  BY InitHolds
<1>2. IndInv /\ [Next]_vars => IndInv'  BY NextKeeps
<1>3. QED  BY <1>1, <1>2, PTL DEF Spec

(* Every field keeps to its range; reference counts and chunk counts never *)
(* go below zero, active_count stays within the three slots.               *)
THEOREM TypeCorrect == Spec => []TypeOK
<1>1. IndInv => TypeOK  BY DEF IndInv
<1>2. QED  BY <1>1, ServerInvariant, PTL

(* A command in a slot can always still be woken: the interplay of the     *)
(* service thread's release, the disc interrupt and the wakeup thread      *)
(* never leaves a read without reference, without read and without message *)
THEOREM NothingStranded == Spec => []NeverStranded
<1>1. IndInv => NeverStranded  BY DEF IndInv
<1>2. QED  BY <1>1, ServerInvariant, PTL

(* The service thread never sleeps on work nobody will signal.             *)
THEOREM NoSignalLost == Spec => []NoLostSignal
<1>1. IndInv => NoLostSignal  BY DEF IndInv
<1>2. QED  BY <1>1, ServerInvariant, PTL

(* active_count agrees with the slots in every state.                      *)
THEOREM CountAgrees == Spec => []ActiveCountAgrees
<1>1. IndInv => ActiveCountAgrees  BY DEF IndInv
<1>2. QED  BY <1>1, ServerInvariant, PTL

(* No file buffer stays locked for a command that is no longer in a slot.  *)
THEOREM NoBufferLeaked == Spec => []BufferHeldByActive
<1>1. IndInv => BufferHeldByActive  BY DEF IndInv, BufferLocked
<1>2. QED  BY <1>1, ServerInvariant, PTL

(* No queue, slot, message, read in flight or buffer refers to a command   *)
(* that was deleted.                                                       *)
THEOREM NothingDangles == Spec => []NoDanglingCommand
<1>1. ASSUME IndInv, NEW c \in Commands, Referenced(c)
      PROVE  life[c] = "live"
  <2>1. CASE \E f \in Files : bufferOwner[f] = c
    <3>1. c \in Active
      BY <1>1, <2>1 DEF IndInv, BufferLocked, BufferHeldByActive
    <3>2. QED  BY <1>1, <3>1, InSlot
  <2>2. CASE ~\E f \in Files : bufferOwner[f] = c
    BY <1>1, <2>2, Placed DEF Referenced
  <2>3. QED  BY <2>1, <2>2
<1>2. IndInv => NoDanglingCommand  BY <1>1 DEF NoDanglingCommand
<1>3. QED  BY <1>2, ServerInvariant, PTL

(* Callbacks run at most once per command, and never while the command is  *)
(* with the server; no command is deleted untold.                          *)
THEOREM CallbackOnce == Spec => []CompletedOnce
<1>1. IndInv => CompletedOnce
  <2>1. ASSUME IndInv, NEW c \in Commands, delivered[c] = 1
        PROVE  c \notin Active /\ ~busy[c]
    BY <2>1, Left DEF IndInv, Lives
  <2>2. QED  BY <2>1 DEF IndInv, Lives, CompletedOnce
<1>2. QED  BY <1>1, ServerInvariant, PTL

(* A read that reports success transferred every chunk it was asked for.   *)
THEOREM SuccessMeansComplete == Spec => []SuccessIsComplete
<1>1. IndInv => SuccessIsComplete
  <2> SUFFICES ASSUME IndInv, NEW c \in Commands, delivered[c] = 1,
                      life[c] = "live", error[c] = "none", job[c].kind \in Reads
               PROVE  done[c] = job[c].chunks
    BY DEF SuccessIsComplete, Reads
  <2>1. signalState[c] = "Completed"  BY DEF IndInv, Lives
  <2>2. Stage(c) = "Completed"  BY <2>1, Left DEF Stage
  <2>3. QED  BY <2>2 DEF IndInv, Progress
<1>2. QED  BY <1>1, ServerInvariant, PTL

----------------------------------------------------------------------------
(* Commands of one priority keep their order on the way from pending to    *)
(* their callbacks.                                                        *)

(* What the callers see moves only where the order may.                    *)
Aside == /\ UNCHANGED <<job, life, delivered, callbacks, active, ready, pending, frames,
                        pendingDelete>>
         /\ Posted' = Posted

LEMMA AsideSteps ==
  ASSUME \/ notifyCommandAdded \/ notifyServerActivityChange
         \/ isActive \/ pick \/ ServeStep \/ release \/ commit
         \/ \E c \in Commands : abort(c) \/ gcCallbackThunk(c)
         \/ wakeup \/ UNCHANGED vars
  PROVE  Aside
<1> USE DEF Aside, Posted
<1>1. CASE notifyCommandAdded  BY <1>1 DEF notifyCommandAdded
<1>2. CASE notifyServerActivityChange
  BY <1>2 DEF notifyServerActivityChange, Woken
<1>3. CASE \E c \in Commands : abort(c)  BY <1>3 DEF abort
<1>4. CASE isActive  BY <1>4 DEF isActive
<1>5. CASE pick  BY <1>5 DEF pick
<1>6. CASE ServeStep
  <2>1. CASE openNotStarted \/ closeNotStarted \/ signal
    BY <2>1 DEF openNotStarted, closeNotStarted, signal, Serving, Goto, Fail
  <2>2. CASE unbufferedNotStarted \/ unbufferedReading
    BY <2>2 DEF unbufferedNotStarted, unbufferedReading, Serving, Goto, InProgress
  <2>3. CASE bufferedNotStarted \/ bufferedReading \/ bufferedFilling
    BY <2>3 DEF bufferedNotStarted, bufferedReading, bufferedFilling, Serving, Goto,
                InProgress
  <2>4. QED  BY <1>6, <2>1, <2>2, <2>3 DEF ServeStep
<1>7. CASE release  BY <1>7 DEF release
<1>8. CASE commit  BY <1>8 DEF commit
<1>9. CASE \E c \in Commands : gcCallbackThunk(c)  BY <1>9 DEF gcCallbackThunk
<1>10. CASE wakeup  BY <1>10 DEF wakeup, Woken
<1>11. CASE UNCHANGED vars  BY <1>11 DEF vars
<1>12. QED
  BY <1>1, <1>2, <1>3, <1>4, <1>5, <1>6, <1>7, <1>8, <1>9, <1>10, <1>11

(* The order does not depend on anything else.                             *)
LEMMA OrderStable ==
  ASSUME OrderKept, Waiting' = Waiting, Posted' = Posted,
         UNCHANGED <<job, callbacks, active, ready, pending>>,
         \A c \in Commands : life'[c] = "unborn" <=> life[c] = "unborn"
  PROVE  OrderKept'
<1>1. Active' = Active /\ Over' = Over  BY DEF Active, Occupied, Over
<1>2. \A S : Leads(S)' <=> Leads(S)  BY DEF Leads
<1>3. QED  BY <1>1, <1>2 DEF OrderKept, Ascending, Leads

(* The places hold commands that wait.                                     *)
LEMMA PlacesWait ==
  ASSUME IndInv
  PROVE  /\ Over \cup Active \cup ToSet(ready) \cup ToSet(pending) \subseteq Waiting
         /\ Posted \cap ToSet(callbacks) = {} /\ Active \cap Over = {}
         /\ ToSet(ready) \cap (Over \cup Active) = {}
<1>1. /\ ToSet(pending) \subseteq Commands /\ ToSet(ready) \subseteq Commands
      /\ ToSet(callbacks) \subseteq Commands
  BY Elements DEF IndInv
<1>2. Active \subseteq Waiting  BY InSlot DEF Waiting
<1>3. ToSet(ready) \cup ToSet(pending) \subseteq Waiting
  BY <1>1 DEF IndInv, PendingWaits, ReadyWaits, Lives, Waiting
<1>4. ToSet(callbacks) \subseteq Waiting
  BY <1>1 DEF IndInv, CallbacksDue, Lives, Waiting
<1>5. Posted \subseteq Waiting /\ Posted \cap ToSet(callbacks) = {}
      /\ Posted \cap Active = {} /\ Posted \cap ToSet(ready) = {}
  BY DEF IndInv, TypeOK, Serviced, CallbacksDue, ReadyWaits, Lives, Waiting, Posted
<1>6. Active \cap ToSet(callbacks) = {} /\ ToSet(ready) \cap Active = {}
  BY DEF IndInv, CallbacksDue, ReadyWaits
<1>7. ToSet(ready) \cap ToSet(callbacks) = {}
  BY <1>1 DEF IndInv, CallbacksDue, ReadyWaits
<1>8. QED  BY <1>2, <1>3, <1>4, <1>5, <1>6, <1>7 DEF Over

LEMMA addCommandOrder ==
  ASSUME IndInv, OrderKept, NEW c \in Commands, NEW j \in Jobs, addCommand(c, j)
  PROVE  OrderKept'
<1>1. /\ life[c] = "unborn" /\ \A d \in 1 .. c - 1 : life[d] # "unborn"
      /\ life' = [life EXCEPT ![c] = "live"] /\ job' = [job EXCEPT ![c] = j]
      /\ pending' = Append(pending, c)
      /\ UNCHANGED <<ready, active, svc, cur, callbacks, delivered>>
  BY DEF addCommand
<1>2. /\ life'[c] = "live" /\ \A d \in Commands : d # c => life'[d] = life[d]
      /\ \A d \in Commands : d # c => job'[d] = job[d]
  BY <1>1 DEF IndInv, TypeOK
<1>3. \A d \in Commands : life[d] # "unborn" => d < c
  BY <1>1 DEF OrderKept, Commands
<1>4. Waiting' = Waiting \cup {c} /\ c \notin Waiting
  BY <1>1, <1>2 DEF Waiting, IndInv, Lives
<1>5. \A d \in Waiting : d \in Commands /\ d # c /\ d < c  BY <1>1, <1>3 DEF Waiting
<1>6. /\ pending \in Seq(Commands) /\ pending' \in Seq(Commands)
      /\ ToSet(pending') = ToSet(pending) \cup {c}
  BY <1>1, ElemsAppend DEF IndInv, TypeOK
<1>7. Over' = Over /\ Active' = Active /\ Posted' = Posted
  BY <1>1 DEF Over, Posted, Active, Occupied
<1>8. /\ Over \cup Active \cup ToSet(ready) \cup ToSet(pending) \subseteq Waiting
  BY PlacesWait
<1>9. ASSUME NEW S, S \subseteq Waiting, Leads(S)
      PROVE  \A e \in S, d \in Waiting' : d < e /\ job'[d].prio = job'[e].prio => d \in S
  <2> SUFFICES ASSUME NEW e \in S, NEW d \in Waiting', d < e, job'[d].prio = job'[e].prio
               PROVE  d \in S
    OBVIOUS
  <2>1. e \in Commands /\ e # c /\ e < c /\ job'[e] = job[e]  BY <1>2, <1>5, <1>9
  <2>2. d # c  BY <2>1 DEF Commands
  <2>3. d \in Waiting /\ job'[d] = job[d]  BY <1>2, <1>4, <1>5, <2>2
  <2>4. QED  BY <1>9, <2>1, <2>3 DEF Leads
<1>10. /\ Leads(ToSet(callbacks))' /\ Leads(Over)' /\ Leads(Over \cup Active)'
       /\ Leads(Over \cup Active \cup ToSet(ready))'
  <2>1. ToSet(callbacks) \subseteq Over  BY DEF Over
  <2>2. QED  BY <1>1, <1>7, <1>8, <1>9, <2>1 DEF OrderKept, Leads
<1>11. ASSUME NEW a \in Commands, NEW b \in Commands, a < b, life'[a] = "unborn"
       PROVE  life'[b] = "unborn"
  BY <1>1, <1>2, <1>11 DEF OrderKept, Commands
<1>12. Waiting' \subseteq (Over \cup Active \cup ToSet(ready) \cup ToSet(pending))'
  BY <1>1, <1>4, <1>6, <1>7 DEF OrderKept
<1>13. ASSUME NEW i \in 1 .. Len(callbacks), NEW k \in 1 .. Len(callbacks), i < k,
              job'[callbacks[i]].prio = job'[callbacks[k]].prio
       PROVE  callbacks[i] < callbacks[k]
  <2>1. callbacks[i] \in ToSet(callbacks) /\ callbacks[k] \in ToSet(callbacks)
    BY ElemAt DEF IndInv, TypeOK
  <2>2. callbacks[i] \in Waiting /\ callbacks[k] \in Waiting  BY <1>8, <2>1 DEF Over
  <2>3. job'[callbacks[i]] = job[callbacks[i]] /\ job'[callbacks[k]] = job[callbacks[k]]
    BY <1>2, <1>5, <2>2
  <2>4. QED  BY <1>13, <2>3 DEF OrderKept
<1>14. Ascending(pending)'
  <2>1. Len(pending) \in Nat /\ Len(pending') = Len(pending) + 1
        /\ \A i \in 1 .. Len(pending) : pending'[i] = pending[i]
        /\ pending'[Len(pending) + 1] = c
    BY <1>1, <1>6
  <2>2. \A i \in 1 .. Len(pending) : pending[i] < c
    <3>1. \A i \in 1 .. Len(pending) : pending[i] \in ToSet(pending)  BY <1>6, ElemAt
    <3>2. QED  BY <1>5, <1>8, <3>1
  <2> SUFFICES ASSUME NEW i \in 1 .. Len(pending'), NEW k \in 1 .. Len(pending'), i < k
               PROVE  pending'[i] < pending'[k]
    BY DEF Ascending
  <2>3. i \in 1 .. Len(pending)  BY <2>1
  <2>4. CASE k = Len(pending) + 1  BY <2>1, <2>2, <2>3, <2>4
  <2>5. CASE k # Len(pending) + 1
    <3>1. k \in 1 .. Len(pending)  BY <2>1, <2>5
    <3>2. QED  BY <2>1, <2>3, <3>1 DEF OrderKept, Ascending
  <2>6. QED  BY <2>4, <2>5
<1>15. \A a \in ToSet(ready), b \in ToSet(pending') : a < b
  BY <1>5, <1>6, <1>8 DEF OrderKept
<1>16. QED
  BY <1>1, <1>10, <1>11, <1>12, <1>13, <1>14, <1>15 DEF OrderKept, Ascending

(* A command that was called back already comes or goes, and no other.     *)
LEMMA deleteSelfOrder ==
  ASSUME IndInv, OrderKept, (\E c \in Commands : deleteSelf(c)) \/ pendingDeleteSelf
  PROVE  OrderKept'
<1>1. PICK e \in Commands : \/ UNCHANGED life
                            \/ signalState[e] = "Completed" /\ life' = [life EXCEPT ![e] = "freed"]
  <2>1. CASE \E c \in Commands : deleteSelf(c)  BY <2>1 DEF deleteSelf, delete, keep
  <2>2. CASE pendingDeleteSelf
    <3>1. Last(frames) \in ToSet(frames)
      BY <2>2, ElemsFront DEF pendingDeleteSelf, IndInv, TypeOK, Distinct
    <3>2. Last(frames) \in Commands /\ signalState[Last(frames)] = "Completed"
      BY <3>1, Elements DEF IndInv, FramesRun, Lives
    <3>3. QED  BY <2>2, <3>2 DEF pendingDeleteSelf, delete, keep
  <2>3. QED  BY <2>1, <2>2
<1>2. UNCHANGED <<job, svc, cur, callbacks, active, ready, pending, delivered>>
  BY DEF deleteSelf, pendingDeleteSelf
<1>3. signalState[e] = "Completed" => delivered[e] = 1 /\ life[e] # "unborn"
  BY DEF IndInv, Lives
<1>4. Waiting' = Waiting
  BY <1>1, <1>2, <1>3 DEF Waiting, IndInv, TypeOK
<1>5. \A d \in Commands : life'[d] = "unborn" <=> life[d] = "unborn"
  BY <1>1, <1>3 DEF IndInv, TypeOK
<1>6. QED  BY <1>2, <1>4, <1>5, OrderStable DEF Posted

LEMMA serviceCallbackOrder ==
  ASSUME IndInv, OrderKept, serviceCallback
  PROVE  OrderKept'
<1>1. PICK c : c = Head(callbacks)  OBVIOUS
<1>2. /\ callbacks \in Seq(Commands) /\ callbacks # <<>> /\ callbacks' = Tail(callbacks)
      /\ delivered' = [delivered EXCEPT ![c] = @ + 1]
      /\ UNCHANGED <<job, life, active, ready, pending, svc, cur>>
  BY <1>1 DEF serviceCallback, IndInv, TypeOK
<1>3. /\ c \in Commands /\ ToSet(callbacks) = {c} \cup ToSet(callbacks')
      /\ c \notin ToSet(callbacks')
  BY <1>1, <1>2, ElemsTail DEF IndInv, Distinct
<1>4. c \in Waiting /\ delivered[c] = 0
  BY <1>3, PlacesWait DEF Over, Waiting
<1>5. Waiting' = Waiting \ {c}
  <2>1. delivered'[c] = 1 /\ \A d \in Commands : d # c => delivered'[d] = delivered[d]
    BY <1>2, <1>3, <1>4 DEF IndInv, TypeOK
  <2>2. QED  BY <1>2, <1>3, <2>1 DEF Waiting
<1>6. Active' = Active /\ Posted' = Posted /\ c \notin Posted
  BY <1>2, <1>3, PlacesWait DEF Active, Occupied, Posted
<1>7. Over' = Over \ {c} /\ c \notin Active /\ c \notin ToSet(ready)
  BY <1>3, <1>6, PlacesWait DEF Over
<1>8. ASSUME NEW S, Leads(S)
      PROVE  \A e \in S \ {c}, d \in Waiting' :
               d < e /\ job[d].prio = job[e].prio => d \in S \ {c}
  BY <1>5, <1>8 DEF Leads
<1>9. /\ ToSet(callbacks)' = ToSet(callbacks) \ {c}
      /\ (Over \cup Active)' = (Over \cup Active) \ {c}
      /\ (Over \cup Active \cup ToSet(ready))' = (Over \cup Active \cup ToSet(ready)) \ {c}
  BY <1>2, <1>3, <1>6, <1>7
<1>10. /\ Leads(ToSet(callbacks))' /\ Leads(Over)' /\ Leads(Over \cup Active)'
       /\ Leads(Over \cup Active \cup ToSet(ready))'
  <2>1. Leads(ToSet(callbacks))'  BY <1>2, <1>8, <1>9 DEF OrderKept, Leads
  <2>2. Leads(Over)'  BY <1>2, <1>7, <1>8 DEF OrderKept, Leads
  <2>3. Leads(Over \cup Active)'  BY <1>2, <1>8, <1>9 DEF OrderKept, Leads
  <2>4. Leads(Over \cup Active \cup ToSet(ready))'
    BY <1>2, <1>8, <1>9 DEF OrderKept, Leads
  <2>5. QED  BY <2>1, <2>2, <2>3, <2>4
<1>11. Waiting' \subseteq (Over \cup Active \cup ToSet(ready) \cup ToSet(pending))'
  BY <1>2, <1>5, <1>6, <1>7 DEF OrderKept
<1>12. ASSUME NEW i \in 1 .. Len(callbacks'), NEW k \in 1 .. Len(callbacks'), i < k,
              job[callbacks'[i]].prio = job[callbacks'[k]].prio
       PROVE  callbacks'[i] < callbacks'[k]
  <2>1. Len(callbacks') = Len(callbacks) - 1 /\ Len(callbacks) \in Nat  BY <1>2
  <2>2. i + 1 \in 1 .. Len(callbacks) /\ k + 1 \in 1 .. Len(callbacks) /\ i + 1 < k + 1
    BY <1>12, <2>1
  <2>3. callbacks'[i] = callbacks[i + 1] /\ callbacks'[k] = callbacks[k + 1]  BY <1>2
  <2>4. QED  BY <1>12, <2>2, <2>3 DEF OrderKept
<1>13. QED
  BY <1>2, <1>10, <1>11, <1>12 DEF OrderKept, Ascending

LEMMA drainOrder ==
  ASSUME IndInv, OrderKept, drain
  PROVE  OrderKept'
<1>1. /\ ready \in Seq(Commands) /\ pending \in Seq(Commands)
      /\ ready' = ready \o pending /\ pending' = <<>> /\ svc = "drain" /\ svc' # "post"
      /\ UNCHANGED <<job, life, active, callbacks, cur, delivered>>
  BY DEF drain, IndInv, TypeOK
<1>2. ToSet(ready') = ToSet(ready) \cup ToSet(pending) /\ ToSet(pending') = {}
  BY <1>1, ElemsConcat, ElemsEmpty
<1>3. Waiting' = Waiting /\ Over' = Over /\ Active' = Active
  BY <1>1 DEF Waiting, Over, Posted, Active, Occupied
<1>4. Leads(ToSet(callbacks))' /\ Leads(Over)' /\ Leads(Over \cup Active)'
  BY <1>1, <1>3 DEF OrderKept, Leads
<1>5. Waiting' \subseteq (Over \cup Active \cup ToSet(ready))'
  BY <1>2, <1>3 DEF OrderKept
<1>6. Leads(Over \cup Active \cup ToSet(ready))'  BY <1>5 DEF Leads
<1>7. Ascending(ready')
  <2> SUFFICES ASSUME NEW i \in 1 .. Len(ready'), NEW k \in 1 .. Len(ready'), i < k
               PROVE  ready'[i] < ready'[k]
    BY DEF Ascending
  <2>1. /\ Len(ready') = Len(ready) + Len(pending) /\ Len(ready) \in Nat
        /\ Len(pending) \in Nat
        /\ \A m \in 1 .. Len(ready) : ready'[m] = ready[m] /\ ready[m] \in ToSet(ready)
        /\ \A m \in 1 .. Len(pending) : pending[m] \in ToSet(pending)
    BY <1>1, ElemAt
  <2>2. ASSUME NEW m \in 1 .. Len(ready'), m > Len(ready)
        PROVE  m - Len(ready) \in 1 .. Len(pending) /\ ready'[m] = pending[m - Len(ready)]
    BY <1>1, <2>1, <2>2
  <2>3. CASE k <= Len(ready)  BY <2>1, <2>3 DEF OrderKept, Ascending
  <2>4. CASE i <= Len(ready) /\ k > Len(ready)
    <3>1. ready'[i] \in ToSet(ready)  BY <2>1, <2>4
    <3>2. ready'[k] \in ToSet(pending)  BY <2>1, <2>2, <2>4
    <3>3. QED  BY <3>1, <3>2 DEF OrderKept
  <2>5. CASE i > Len(ready)
    <3>1. i - Len(ready) < k - Len(ready) /\ k > Len(ready)  BY <2>1, <2>5
    <3>2. QED  BY <2>2, <2>5, <3>1 DEF OrderKept, Ascending
  <2>6. QED  BY <2>1, <2>3, <2>4, <2>5
<1>8. Ascending(pending')  BY <1>1 DEF Ascending
<1>9. Waiting' \subseteq (Over \cup Active \cup ToSet(ready) \cup ToSet(pending))'
  BY <1>5
<1>10. QED
  BY <1>1, <1>2, <1>4, <1>6, <1>7, <1>8, <1>9 DEF OrderKept, Ascending

(* The top of ready is the oldest of its priority there, and the slot is   *)
(* free.                                                                   *)
LEMMA activateOrder ==
  ASSUME IndInv, OrderKept, activate
  PROVE  OrderKept'
<1>1. /\ svc = "activate" /\ svc' = "pick" /\ ready \in Seq(Commands) /\ IsInjective(ready)
      /\ UNCHANGED <<job, life, delivered, callbacks, cur, pending>>
  BY DEF activate, IndInv, TypeOK, Distinct
<1>2. Waiting' = Waiting /\ Posted' = Posted /\ Over' = Over
  BY <1>1 DEF Waiting, Posted, Over
<1>3. CASE UNCHANGED <<active, activeCount, ready>>
  BY <1>1, <1>2, <1>3, OrderStable
<1>4. CASE ~UNCHANGED <<active, activeCount, ready>>
  <2>1. PICK i \in 1 .. Len(ready) :
          /\ IsTop(i) /\ active[job[ready[i]].prio] = None
          /\ active' = [active EXCEPT ![job[ready[i]].prio] = ready[i]]
          /\ ready' = RemoveAt(ready, i)
    BY <1>4 DEF activate
  <2>2. PICK c : c = ready[i]  OBVIOUS
  <2>3. /\ c \in Commands /\ c \in ToSet(ready) /\ ToSet(ready') = ToSet(ready) \ {c}
        /\ ready' \in Seq(Commands)
    BY <1>1, <2>1, <2>2, ElemAt, ElemsWithout
  <2>4. \A d \in ToSet(ready) : job[d].prio = job[c].prio => c <= d
    <3> SUFFICES ASSUME NEW k \in 1 .. Len(ready), job[ready[k]].prio = job[c].prio
                 PROVE  c <= ready[k]
      BY <1>1, SetView
    <3>1. ~(job[c].prio < job[ready[k]].prio)
      <4>1. ready[k] \in ToSet(ready) /\ ready[k] \in Commands  BY <1>1, ElemAt
      <4>2. job[c] \in JobType
        BY <2>3 DEF IndInv, ReadyWaits, Lives
      <4>3. job[c].prio \in 0 .. 2  BY <4>2 DEF JobType, Priorities
      <4>4. PICK x : x = job[c].prio  OBVIOUS
      <4>5. ~(x < x)  BY <4>3, <4>4
      <4>6. QED  BY <4>4, <4>5
    <3>2. i <= k  BY <2>1, <2>2, <3>1 DEF IsTop
    <3>3. CASE i = k
      <4>1. c = ready[k] /\ c \in Int  BY <2>2, <2>3, <3>3 DEF Commands
      <4>2. QED  BY <4>1
    <3>4. CASE i < k
      <4>1. c < ready[k]  BY <2>2, <3>4 DEF OrderKept, Ascending
      <4>2. c \in Int /\ ready[k] \in Int
        <5>1. ready[k] \in Commands  BY <1>1, ElemAt
        <5>2. QED  BY <2>3, <5>1 DEF Commands
      <4>3. QED  BY <4>1, <4>2
    <3>5. QED  BY <3>2, <3>3, <3>4
  <2>5. Active' = Active \cup {c}
    <3>1. job[c].prio \in Priorities /\ active \in [Priorities -> Commands \cup {None}]
          /\ c # None
      BY <2>3 DEF IndInv, ReadyWaits, Lives, TypeOK
    <3>2. /\ active[job[c].prio] = None /\ active' = [active EXCEPT ![job[c].prio] = c]
      BY <2>1, <2>2
    <3>3. PICK q : q = job[c].prio  OBVIOUS
    <3>4. /\ active'[q] = c /\ q \in Priorities /\ active[q] = None
          /\ \A p \in Priorities : p # q => active'[p] = active[p]
      BY <3>1, <3>2, <3>3
    <3>5. QED  BY <3>1, <3>4 DEF Active, Occupied
  <2>6. c \in Waiting /\ c \notin Over \cup Active  BY <2>3, PlacesWait
  <2>7. (Over \cup Active \cup ToSet(ready))' = Over \cup Active \cup ToSet(ready)
    BY <1>2, <2>3, <2>5
  <2>8. Leads(Over \cup Active)'
    <3> SUFFICES ASSUME NEW e \in Over \cup Active \cup {c}, NEW d \in Waiting, d < e,
                        job[d].prio = job[e].prio
                 PROVE  d \in Over \cup Active \cup {c}
      BY <1>1, <1>2, <2>5 DEF Leads
    <3>1. CASE e \in Over \cup Active  BY <3>1 DEF OrderKept, Leads
    <3>2. CASE e = c
      <4>1. d \in Over \cup Active \cup ToSet(ready)
        BY <2>3, <3>2 DEF OrderKept, Leads
      <4>2. d \notin ToSet(ready)
        <5>1. d \in Int /\ c \in Int  BY <2>3 DEF Waiting, Commands
        <5>2. QED  BY <2>4, <3>2, <5>1
      <4>3. QED  BY <4>1, <4>2
    <3>3. QED  BY <3>1, <3>2
  <2>9. Leads(Over \cup Active \cup ToSet(ready))'
    BY <1>1, <1>2, <2>7 DEF OrderKept, Leads
  <2>10. Leads(ToSet(callbacks))' /\ Leads(Over)'
    BY <1>1, <1>2 DEF OrderKept, Leads
  <2>11. Ascending(ready')
    <3>1. /\ Len(ready') = Len(ready) - 1 /\ Len(ready) \in Nat
          /\ \A k \in 1 .. Len(ready) - 1 :
               ready'[k] = IF k < i THEN ready[k] ELSE ready[k + 1]
      <4>1. /\ i \in 1 .. Len(ready) /\ ready' = RemoveAt(ready, i)
            /\ Len(ready) \in Nat /\ ready \in Seq(Commands)
        BY <1>1, <2>1
      <4>2. /\ Len(RemoveAt(ready, i)) = Len(ready) - 1
            /\ \A k \in 1 .. Len(ready) - 1 :
                 RemoveAt(ready, i)[k] = IF k < i THEN ready[k] ELSE ready[k + 1]
        BY <4>1, RemoveAtView
      <4>3. QED  BY <4>1, <4>2
    <3> SUFFICES ASSUME NEW m \in 1 .. Len(ready'), NEW n \in 1 .. Len(ready'), m < n
                 PROVE  ready'[m] < ready'[n]
      BY DEF Ascending
    <3>2. /\ m \in 1 .. Len(ready) /\ m + 1 \in 1 .. Len(ready)
          /\ n \in 1 .. Len(ready) /\ n + 1 \in 1 .. Len(ready)
          /\ m < n + 1 /\ m + 1 < n + 1
      BY <3>1
    <3>3. \A k, l \in 1 .. Len(ready) : k < l => ready[k] < ready[l]
      BY DEF OrderKept, Ascending
    <3>4. CASE n < i  BY <3>1, <3>2, <3>3, <3>4
    <3>5. CASE ~(n < i)  BY <3>1, <3>2, <3>3, <3>5
    <3>6. QED  BY <3>4, <3>5
  <2>12. Waiting' \subseteq (Over \cup Active \cup ToSet(ready) \cup ToSet(pending))'
    BY <1>1, <1>2, <2>7 DEF OrderKept
  <2>13. \A a \in ToSet(ready'), b \in ToSet(pending) : a < b
    BY <2>3 DEF OrderKept
  <2>14. QED
    BY <1>1, <2>8, <2>9, <2>10, <2>11, <2>12, <2>13 DEF OrderKept, Ascending
<1>5. QED  BY <1>3, <1>4

LEMMA retireOrder ==
  ASSUME IndInv, OrderKept, retire
  PROVE  OrderKept'
<1>1. /\ svc = "retire" /\ svc' = "post" /\ cur' = cur
      /\ active' = [p \in Priorities |-> IF active[p] = cur THEN None ELSE active[p]]
      /\ UNCHANGED <<job, life, delivered, callbacks, ready, pending>>
  BY DEF retire
<1>2. cur \in Active /\ cur \in Commands /\ active[job[cur].prio] = cur
  BY <1>1, CurServed, InSlot
<1>3. Active' = Active \ {cur}
  BY <1>1, <1>2, ActiveView DEF Active, Occupied
<1>4. Posted = {} /\ Over' = Over \cup {cur} /\ Waiting' = Waiting
  BY <1>1 DEF Posted, Over, Waiting
<1>5. (Over \cup Active)' = Over \cup Active  BY <1>2, <1>3, <1>4
<1>6. Leads(Over)'
  <2> SUFFICES ASSUME NEW e \in Over \cup {cur}, NEW d \in Waiting, d < e,
                      job[d].prio = job[e].prio
               PROVE  d \in Over \cup {cur}
    BY <1>1, <1>4 DEF Leads
  <2>1. CASE e \in Over  BY <2>1 DEF OrderKept, Leads
  <2>2. CASE e = cur
    <3>1. d \in Over \cup Active  BY <1>2, <2>2 DEF OrderKept, Leads
    <3>2. d \in Active => d = cur
      <4>1. d \in Active => active[job[d].prio] = d  BY InSlot
      <4>2. QED  BY <1>2, <2>2, <4>1
    <3>3. QED  BY <3>1, <3>2
  <2>3. QED  BY <2>1, <2>2
<1>7. /\ Leads(ToSet(callbacks))' /\ Leads(Over \cup Active)'
      /\ Leads(Over \cup Active \cup ToSet(ready))'
  BY <1>1, <1>4, <1>5 DEF OrderKept, Leads
<1>8. Waiting' \subseteq (Over \cup Active \cup ToSet(ready) \cup ToSet(pending))'
  BY <1>1, <1>4, <1>5 DEF OrderKept
<1>9. QED  BY <1>1, <1>6, <1>7, <1>8 DEF OrderKept, Ascending

LEMMA queueCommandCallbackOrder ==
  ASSUME IndInv, OrderKept, queueCommandCallback
  PROVE  OrderKept'
<1>1. /\ svc = "post" /\ svc' = "drain" /\ callbacks \in Seq(Commands)
      /\ callbacks' = Append(callbacks, cur)
      /\ UNCHANGED <<job, life, delivered, active, ready, pending>>
  BY DEF queueCommandCallback, IndInv, TypeOK
<1>2. Posted = {cur} /\ cur \in Commands /\ cur \in Waiting /\ cur \notin ToSet(callbacks)
  <2>1. Posted = {cur}  BY <1>1 DEF Posted
  <2>2. QED  BY <2>1, PlacesWait DEF Over, Waiting
<1>3. ToSet(callbacks') = ToSet(callbacks) \cup {cur} /\ callbacks' \in Seq(Commands)
  BY <1>1, <1>2, ElemsAppend
<1>4. /\ Posted' = {} /\ ToSet(callbacks') = Over /\ Over' = Over /\ Active' = Active
      /\ Waiting' = Waiting
  BY <1>1, <1>2, <1>3 DEF Posted, Over, Active, Occupied, Waiting
<1>5. /\ Leads(ToSet(callbacks))' /\ Leads(Over)' /\ Leads(Over \cup Active)'
      /\ Leads(Over \cup Active \cup ToSet(ready))'
  BY <1>1, <1>4 DEF OrderKept, Leads
<1>6. ASSUME NEW i \in 1 .. Len(callbacks'), NEW k \in 1 .. Len(callbacks'), i < k,
             job[callbacks'[i]].prio = job[callbacks'[k]].prio
      PROVE  callbacks'[i] < callbacks'[k]
  <2>1. /\ Len(callbacks') = Len(callbacks) + 1 /\ Len(callbacks) \in Nat
        /\ \A m \in 1 .. Len(callbacks) : callbacks'[m] = callbacks[m]
        /\ callbacks'[Len(callbacks) + 1] = cur
    BY <1>1
  <2>2. i \in 1 .. Len(callbacks)  BY <1>6, <2>1
  <2>3. callbacks[i] \in ToSet(callbacks) /\ callbacks[i] \in Commands
    BY <1>1, <2>2, ElemAt
  <2>4. CASE k = Len(callbacks) + 1
    <3>1. callbacks'[k] = cur /\ callbacks'[i] = callbacks[i]  BY <2>1, <2>2, <2>4
    <3>2. ~(cur < callbacks[i])
      BY <1>2, <1>6, <2>3, <3>1 DEF OrderKept, Leads
    <3>3. callbacks[i] # cur  BY <1>2, <2>3
    <3>4. callbacks[i] \in Int /\ cur \in Int  BY <1>2, <2>3 DEF Commands
    <3>5. QED  BY <3>1, <3>2, <3>3, <3>4
  <2>5. CASE k # Len(callbacks) + 1
    <3>1. k \in 1 .. Len(callbacks)  BY <2>1, <2>5
    <3>2. QED  BY <1>6, <2>1, <2>2, <3>1 DEF OrderKept
  <2>6. QED  BY <2>4, <2>5
<1>7. Waiting' \subseteq (Over \cup Active \cup ToSet(ready) \cup ToSet(pending))'
  BY <1>1, <1>4 DEF OrderKept
<1>8. QED  BY <1>1, <1>5, <1>6, <1>7 DEF OrderKept, Ascending

LEMMA NextOrder ==
  ASSUME IndInv, OrderKept, [Next]_vars
  PROVE  OrderKept'
<1>1. ASSUME NEW c \in Commands, NEW j \in Jobs, addCommand(c, j) PROVE OrderKept'
  BY <1>1, addCommandOrder
<1>2. CASE drain \/ activate \/ retire \/ queueCommandCallback
  BY <1>2, drainOrder, activateOrder, retireOrder, queueCommandCallbackOrder
<1>3. CASE serviceCallback  BY <1>3, serviceCallbackOrder
<1>4. CASE (\E c \in Commands : deleteSelf(c)) \/ pendingDeleteSelf
  BY <1>4, deleteSelfOrder
<1>5. CASE Aside
  BY <1>5, OrderStable DEF Aside, Waiting
<1>6. QED
  BY <1>1, <1>2, <1>3, <1>4, <1>5, AsideSteps DEF Next, GameStep, ServiceStep

LEMMA InitOrder == Init => OrderKept
<1> SUFFICES ASSUME Init PROVE OrderKept
  OBVIOUS
<1>1. /\ pending = <<>> /\ ready = <<>> /\ callbacks = <<>> /\ svc = "check"
      /\ life = [c \in Commands |-> "unborn"]
      /\ ToSet(<<>>) = {} /\ Len(<<>>) = 0
  BY ElemsEmpty DEF Init
<1>2. Waiting = {} /\ Active = {} /\ Over = {}
  BY <1>1 DEF Init, Waiting, Active, Occupied, Over, Posted
<1>3. QED  BY <1>1, <1>2 DEF OrderKept, Leads, Ascending

(* Commands of one priority go through pending, ready, their slot and the  *)
(* callback queue in the order in which they were started.                 *)
THEOREM OrderInvariant == Spec => []OrderKept
<1>1. Init => OrderKept  BY InitOrder
<1>2. IndInv /\ OrderKept /\ [Next]_vars => OrderKept'  BY NextOrder
<1>3. QED  BY <1>1, <1>2, ServerInvariant, PTL DEF Spec

----------------------------------------------------------------------------
(* The file server implements AsyncCommands.                               *)

phases == [c \in Commands |-> Phase(c)]
classes == [c \in Commands |-> IF life[c] = "unborn" THEN None ELSE job[c].prio]
askeds == [c \in Commands |-> pendingDelete[c] \/ life[c] = "freed"]

(* The phase of a command depends on its life, the running callbacks and   *)
(* whether it was called back.                                             *)
LEMMA AsideStutters ==
  ASSUME Aside
  PROVE  UNCHANGED <<phases, classes, askeds>>
BY DEF Aside, phases, classes, askeds, Phase

LEMMA addCommandStarts ==
  ASSUME IndInv, OrderKept, NEW c \in Commands, NEW j \in Jobs, addCommand(c, j)
  PROVE  Async!Start(c, j.prio)
<1>1. /\ life[c] = "unborn" /\ \A d \in 1 .. c - 1 : life[d] # "unborn"
      /\ life' = [life EXCEPT ![c] = "live"] /\ job' = [job EXCEPT ![c] = j]
      /\ UNCHANGED <<frames, delivered, pendingDelete>>
  BY DEF addCommand
<1>2. /\ life'[c] = "live" /\ \A d \in Commands : d # c => life'[d] = life[d]
      /\ job'[c] = j /\ \A d \in Commands : d # c => job'[d] = job[d]
  BY <1>1 DEF IndInv, TypeOK
<1>3. c \notin ToSet(frames) /\ delivered[c] = 0
  BY <1>1 DEF IndInv, FramesRun, Lives
<1>4. Phase(c) = "unborn" /\ Phase(c)' = "waiting"
  BY <1>1, <1>2, <1>3 DEF Phase
<1>5. \A d \in Commands : d # c => Phase(d)' = Phase(d)
  BY <1>1, <1>2 DEF Phase
<1>6. \A d \in Commands : d < c => Phase(d) # "unborn"
  <2>1. \A d \in Commands : d < c => d \in 1 .. c - 1  BY DEF Commands
  <2>2. \A d \in Commands : d < c => life[d] # "unborn"  BY <1>1, <2>1
  <2>3. QED  BY <2>2 DEF Phase, IndInv, TypeOK
<1>7. phases' = [phases EXCEPT ![c] = "waiting"]  BY <1>4, <1>5 DEF phases
<1>8. classes' = [classes EXCEPT ![c] = j.prio]  BY <1>2 DEF classes
<1>9. askeds' = askeds  BY <1>1, <1>2 DEF askeds
<1>10. QED
  BY <1>4, <1>6, <1>7, <1>8, <1>9 DEF Async!Start, phases, classes, askeds

LEMMA serviceCallbackCalls ==
  ASSUME IndInv, OrderKept, serviceCallback
  PROVE  \E c \in Commands : Async!CallBack(c)
<1>1. PICK c : c = Head(callbacks)  OBVIOUS
<1>2. /\ callbacks \in Seq(Commands) /\ callbacks # <<>>
      /\ frames \in Seq(Commands) /\ frames' = Append(frames, c)
      /\ delivered' = [delivered EXCEPT ![c] = @ + 1]
      /\ UNCHANGED <<job, life, pendingDelete>>
  BY <1>1 DEF serviceCallback, IndInv, TypeOK
<1>3. c \in Commands /\ c \in ToSet(callbacks)
  BY <1>1, <1>2, ElemsTail
<1>4. life[c] = "live" /\ delivered[c] = 0 /\ c \notin ToSet(frames)
  <2>1. c \in Waiting  BY <1>3, PlacesWait DEF Over
  <2>2. QED  BY <2>1 DEF Waiting, IndInv, FramesRun
<1>5. /\ ToSet(frames') = ToSet(frames) \cup {c}
      /\ \A d \in Commands : d # c => delivered'[d] = delivered[d]
  <2>1. ToSet(frames') = ToSet(frames) \cup {c}  BY <1>2, <1>3, ElemsAppend
  <2>2. QED  BY <1>2, <1>3, <2>1 DEF IndInv, TypeOK
<1>6. Phase(c) = "waiting" /\ Phase(c)' = "running"
  BY <1>2, <1>4, <1>5 DEF Phase
<1>7. \A d \in Commands : d # c => Phase(d)' = Phase(d)
  BY <1>2, <1>5 DEF Phase
<1>8. ASSUME NEW d \in Commands, d < c, classes[d] = classes[c], Phase(d) = "waiting"
      PROVE  FALSE
  <2>1. life[d] = "live" /\ delivered[d] = 0
    BY <1>8 DEF Phase, IndInv, TypeOK, Lives
  <2>2. d \in Waiting /\ job[d].prio = job[c].prio
    BY <1>3, <1>4, <1>8, <2>1 DEF Waiting, classes
  <2>3. d \in ToSet(callbacks)  BY <1>3, <1>8, <2>2 DEF OrderKept, Leads
  <2>4. PICK k \in 1 .. Len(callbacks) : callbacks[k] = d  BY <1>2, <2>3, SetView
  <2>5. 1 \in 1 .. Len(callbacks) /\ callbacks[1] = c  BY <1>1, <1>2
  <2>6. d \in Int /\ c \in Int  BY <1>3 DEF Commands
  <2>7. 1 < k  BY <1>8, <2>4, <2>5, <2>6
  <2>8. c < d  BY <2>2, <2>4, <2>5, <2>7 DEF OrderKept
  <2>9. QED  BY <1>8, <2>6, <2>8
<1>9. phases' = [phases EXCEPT ![c] = "running"]  BY <1>6, <1>7 DEF phases
<1>10. classes' = classes /\ askeds' = askeds  BY <1>2 DEF classes, askeds
<1>11. Async!CallBack(c)
  BY <1>3, <1>6, <1>8, <1>9, <1>10 DEF Async!CallBack, phases, classes, askeds
<1>12. QED  BY <1>3, <1>11

LEMMA pendingDeleteSelfReturns ==
  ASSUME IndInv, pendingDeleteSelf
  PROVE  \E c \in Commands : Async!Return(c)
<1>1. PICK c : c = Last(frames)  OBVIOUS
<1>2. /\ c \in ToSet(frames) /\ ToSet(frames') = ToSet(frames) \ {c}
      /\ c \in Commands
  <2>1. /\ frames \in Seq(Commands) /\ IsInjective(frames) /\ frames # <<>>
        /\ frames' = Front(frames)
    BY DEF pendingDeleteSelf, IndInv, TypeOK, Distinct
  <2>2. /\ c \in ToSet(frames) /\ c \notin ToSet(Front(frames))
        /\ ToSet(frames) = ToSet(Front(frames)) \cup {c}
    BY <1>1, <2>1, ElemsFront
  <2>3. QED  BY <2>1, <2>2, Elements DEF IndInv
<1>3. life[c] = "live" /\ delivered[c] = 1  BY <1>2 DEF IndInv, FramesRun
<1>4. /\ UNCHANGED <<job, delivered>>
      /\ IF pendingDelete[c] THEN delete(c) ELSE keep /\ UNCHANGED pendingDelete
  BY <1>1 DEF pendingDeleteSelf
<1>5. /\ life'[c] = IF pendingDelete[c] THEN "freed" ELSE "live"
      /\ pendingDelete'[c] = FALSE
      /\ \A d \in Commands : d # c => life'[d] = life[d] /\ pendingDelete'[d] = pendingDelete[d]
  BY <1>2, <1>3, <1>4 DEF delete, keep, IndInv, TypeOK
<1>6. /\ Phase(c) = "running"
      /\ Phase(c)' = IF pendingDelete[c] THEN "freed" ELSE "told"
  BY <1>2, <1>3, <1>4, <1>5 DEF Phase
<1>7. \A d \in Commands : d # c => Phase(d)' = Phase(d)
  BY <1>2, <1>4, <1>5 DEF Phase
<1>8. askeds[c] = pendingDelete[c]  BY <1>2, <1>3 DEF askeds, IndInv, TypeOK
<1>9. phases' = [phases EXCEPT ![c] = IF askeds[c] THEN "freed" ELSE "told"]
  BY <1>6, <1>7, <1>8 DEF phases
<1>10. classes' = classes  BY <1>3, <1>4, <1>5 DEF classes
<1>11. askeds' = askeds  BY <1>3, <1>5 DEF askeds, IndInv, TypeOK
<1>12. Async!Return(c)
  BY <1>2, <1>6, <1>9, <1>10, <1>11 DEF Async!Return, phases, classes, askeds
<1>13. QED  BY <1>2, <1>12

LEMMA deleteSelfFrees ==
  ASSUME IndInv, NEW c \in Commands, deleteSelf(c)
  PROVE  Async!Free(c)
<1>1. /\ life[c] = "live" /\ ~pendingDelete[c] /\ UNCHANGED <<job, frames, delivered>>
      /\ IF signalState[c] # "Completed" \/ c \in ToSet(frames)
         THEN pendingDelete' = [pendingDelete EXCEPT ![c] = TRUE] /\ keep
         ELSE delete(c)
  BY DEF deleteSelf, Held
<1>2. delivered[c] = 1 <=> signalState[c] = "Completed"  BY DEF IndInv, Lives
<1>3. /\ pendingDelete'[c] \/ life'[c] = "freed"
      /\ life'[c] = IF delivered[c] = 1 /\ c \notin ToSet(frames) THEN "freed" ELSE "live"
      /\ \A d \in Commands : d # c => life'[d] = life[d] /\ pendingDelete'[d] = pendingDelete[d]
  BY <1>1, <1>2 DEF delete, keep, IndInv, TypeOK
<1>4. /\ Phase(c) \in {"waiting", "running", "told"}
      /\ Phase(c)' = IF Phase(c) = "told" THEN "freed" ELSE Phase(c)
  BY <1>1, <1>3 DEF Phase
<1>5. \A d \in Commands : d # c => Phase(d)' = Phase(d)
  BY <1>1, <1>3 DEF Phase
<1>6. phases' = [phases EXCEPT ![c] = IF @ = "told" THEN "freed" ELSE @]
  BY <1>4, <1>5 DEF phases
<1>7. ~askeds[c] /\ askeds' = [askeds EXCEPT ![c] = TRUE]
  BY <1>1, <1>3 DEF askeds
<1>8. classes' = classes  BY <1>1, <1>3 DEF classes
<1>9. QED
  BY <1>4, <1>6, <1>7, <1>8 DEF Async!Free, phases, classes, askeds

LEMMA StepAsync ==
  ASSUME IndInv, OrderKept, [Next]_vars
  PROVE  Async!Next \/ UNCHANGED <<phases, classes, askeds>>
<1>1. ASSUME NEW c \in Commands, NEW j \in Jobs, addCommand(c, j) PROVE Async!Next
  <2>1. j.prio \in Priorities  OBVIOUS
  <2>2. QED  BY <1>1, <2>1, addCommandStarts DEF Async!Next
<1>2. CASE drain \/ activate \/ retire \/ queueCommandCallback
  <2>1. UNCHANGED <<life, job, delivered, frames, pendingDelete>>
    BY <1>2 DEF drain, activate, retire, queueCommandCallback
  <2>2. QED  BY <2>1 DEF phases, classes, askeds, Phase
<1>3. CASE serviceCallback
  BY <1>3, serviceCallbackCalls DEF Async!Next
<1>4. CASE pendingDeleteSelf
  BY <1>4, pendingDeleteSelfReturns DEF Async!Next
<1>5. ASSUME NEW c \in Commands, deleteSelf(c) PROVE Async!Next
  BY <1>5, deleteSelfFrees DEF Async!Next
<1>6. CASE Aside  BY <1>6, AsideStutters
<1>7. QED
  BY <1>1, <1>2, <1>3, <1>4, <1>5, <1>6, AsideSteps DEF Next, GameStep, ServiceStep

(* mwFileServerQueued, its commands and the callbacks implement            *)
(* AsyncCommands: every command is called back at most once, those of one  *)
(* priority in the order they were started, and is deleted when it was     *)
(* called back and its caller has freed it.                                *)
THEOREM ServerImplementsAsync == Spec => AsyncSpec
<1>1. Init => Async!Init
  <2> SUFFICES ASSUME Init PROVE Async!Init
    OBVIOUS
  <2>1. \A c \in Commands : life[c] = "unborn" /\ pendingDelete[c] = FALSE
    BY DEF Init
  <2>2. \A c \in Commands : Phase(c) = "unborn"  BY <2>1 DEF Phase
  <2>3. QED  BY <2>1, <2>2 DEF Async!Init
<1>2. IndInv /\ OrderKept /\ [Next]_vars =>
        Async!Next \/ UNCHANGED <<phases, classes, askeds>>
  BY StepAsync
<1>3. QED
  BY <1>1, <1>2, ServerInvariant, OrderInvariant, PTL
  DEF Spec, AsyncSpec, Async!Spec, phases, classes, askeds
=============================================================================
