---------------------------- MODULE MslStreamFile ----------------------------
(***************************************************************************)
(* The dynamic stream buffers of the sound library                         *)
(* (libmsl/mslStreamFile.cpp) with their surroundings: the streams and     *)
(* banks that ask for data (mslSoundBuffer.cpp, mslBank.cpp), the uploads  *)
(* to audio memory (mslGCN_ARamBlock.cpp), and the callbacks that          *)
(* interrupts leave for mslTick (mslgcn.cpp).                              *)
(*                                                                         *)
(* A request is cut into chunks of one buffer each.  It has up to three    *)
(* disc reads under way; a chunk that has been read goes to the client,    *)
(* who uploads it, and when the upload ends the buffer comes back through  *)
(* mslTick and serves the request at the head of the queue.                *)
(*                                                                         *)
(* All of it runs on the game thread except the uploads' completions,      *)
(* which are interrupts, and the reads themselves.  Streams read at        *)
(* priority 0x10 and banks at 0, and the server masks a priority with 3,   *)
(* so all the reads share one slot of the file server, which MwFileServer  *)
(* shows to complete in the order they were started; an aborted read that  *)
(* is under way still runs to its end.                                     *)
(***************************************************************************)
EXTENDS Integers, Sequences, SequencesExt, FiniteSets

CONSTANTS NumRequests,   \* size of DSB_PAR_Pool (32)
          NumBuffers,    \* size of g_DSB_Buffers and of DSB_FILEREAD_Pool (5)
          Commands,      \* the addresses a file command may have
          MaxDropped,    \* bound: cancelled reads whose callback is still to come
          ArqSlots,      \* size of mslARQ_Req_Pool (24)
          TickSlots,     \* size of g_mslTickCB_Queue (20)
          Generations,   \* a handle's generation counts modulo this (2^16)
          Streams,       \* clients that may cancel
          Banks,         \* clients that do not
          MaxChunks,     \* bound: chunks of a request
          None           \* the null pointer

Requests == 1 .. NumRequests
Buffers == 1 .. NumBuffers
FileReads == 1 .. NumBuffers
Clients == Streams \cup Banks

ASSUME PoolAssumption == /\ NumRequests \in Nat /\ NumBuffers \in Nat \ {0}
                         /\ MaxDropped \in Nat /\ MaxChunks \in Nat \ {0}
                         /\ Generations \in Nat \ {0}
ASSUME CommandsAssumption == /\ None \notin Commands /\ IsFiniteSet(Commands)
                             /\ Cardinality(Commands) >= NumBuffers + MaxDropped
ASSUME ClientsAssumption == /\ Streams \cap Banks = {}
                            /\ IsFiniteSet(Clients)
                            /\ Cardinality(Clients) <= NumRequests
\* a null pointer is not a handle, and points to nothing
ASSUME NoneAssumption == /\ None \notin Clients
                         /\ None \notin Requests \cup Buffers
                         /\ None \notin [index : Requests, generation : 0 .. Generations - 1]
\* a chunk takes at most two transfers; a tick entry per buffer and per bank
ASSUME ArqAssumption == /\ ArqSlots \in Nat /\ ArqSlots >= 2 * NumBuffers
                        /\ TickSlots \in Nat
                        /\ TickSlots >= NumBuffers + Cardinality(Banks)

VARIABLES
  \* mslDSB_PendingAsyncRead: the pool, its free list and the queue
  par, parFree, parQueue,
  \* mslDSB_FileRead: the pool and its free list; g_DSB_BufferFree
  fileRead, readFree, bufferFree,
  \* the game thread: where it is, and ServiceNextRead's request, read, buffer
  game, cur,
  \* the file commands: in the order they were started, and what they are
  cmds, cmd,
  \* clients: the handle each holds; banks whose load is not over
  pending, loading,
  \* transfers under way from each buffer, and for whom; free ARQ requests
  upload, arqFree,
  \* the callbacks waiting for mslTick, those of its turn, those it has run
  tickQueue, batch, processed,
  \* an OSPanic, or a bank load that fails for want of an ARQ request
  panic,
  \* history: chunks each client asked for, and the one it got last
  total, got

poolVars == <<par, parFree, parQueue>>
readVars == <<fileRead, readFree, bufferFree>>
gameVars == <<game, cur>>
cmdVars == <<cmds, cmd>>
clientVars == <<pending, loading>>
arqVars == <<upload, arqFree>>
tickVars == <<tickQueue, batch, processed>>
historyVars == <<total, got>>
vars == <<poolVars, readVars, gameVars, cmdVars, clientVars, arqVars, tickVars,
          panic, historyVars>>

(* memset of a request keeps its handle                                    *)
Cleared(g) == [in_use |-> FALSE, queued |-> FALSE, final_issued |-> FALSE,
               remaining |-> 0, next_chunk |-> 0, active_reads |-> 0,
               generation |-> g, client |-> None, reads |-> <<>>]

NoRead == [owner |-> None, buffer |-> None, command |-> None, chunk |-> 0]
NoCommand == [state |-> "free", read |-> None, buffer |-> None, dropped |-> FALSE]
NoUpload == [transfers |-> 0, client |-> None, last |-> FALSE]
NoService == [request |-> None, read |-> None, buffer |-> None]

Init == /\ par = [r \in Requests |-> Cleared(0)]
        /\ parFree = [r \in Requests |-> r]
        /\ parQueue = <<>>
        /\ fileRead = [d \in FileReads |-> NoRead]
        /\ readFree = [d \in FileReads |-> d]
        /\ bufferFree = [b \in Buffers |-> TRUE]
        /\ game = "idle" /\ cur = NoService
        /\ cmds = <<>> /\ cmd = [c \in Commands |-> NoCommand]
        /\ pending = [c \in Clients |-> None]
        /\ loading = [c \in Banks |-> FALSE]
        /\ upload = [b \in Buffers |-> NoUpload]
        /\ arqFree = ArqSlots
        /\ tickQueue = <<>> /\ batch = 0 /\ processed = 0
        /\ panic = FALSE
        /\ total = [c \in Clients |-> 0] /\ got = [c \in Clients |-> 0]

GameAt(l) == ~panic /\ game = l

(* mslTick runs the file callbacks and the streams' updates, where reads   *)
(* are asked for, before it turns to the callbacks of interrupts.          *)
BeforeCallbacks == GameAt("idle") /\ batch = 0

Uploading(c) == \E b \in Buffers : upload[b].transfers > 0 /\ upload[b].client = c

----------------------------------------------------------------------------
(* Buffers and read records                                                *)

FreeBuffers == {b \in Buffers : bufferFree[b]}

(* mslDSB_AllocBuffer: the first that is free                              *)
AllocBuffer == CHOOSE b \in FreeBuffers : \A d \in FreeBuffers : b <= d

(* mslDSB_AllocFileRead: null when there is none                           *)
AllocFileRead == IF readFree = <<>> THEN None ELSE Head(readFree)

(* Take a buffer and a read record for request r, in the two places where  *)
(* ServiceNextRead does; without a record the loop ends, with the buffer   *)
(* taken and the read counted.  p is the pool as it is by then.            *)
Take(p, r) ==
  /\ bufferFree' = [bufferFree EXCEPT ![AllocBuffer] = FALSE]
  /\ par' = [p EXCEPT ![r].active_reads = @ + 1]
  /\ IF AllocFileRead = None
     THEN game' = "idle" /\ cur' = NoService /\ UNCHANGED readFree
     ELSE /\ game' = "issue"
          /\ cur' = [request |-> r, read |-> AllocFileRead, buffer |-> AllocBuffer]
          /\ readFree' = Tail(readFree)

Leave == game' = "idle" /\ cur' = NoService

----------------------------------------------------------------------------
(* Asking for data                                                         *)

(* A stream asks when it has no request and no transfer under way          *)
(* (iUpdate_MslTick), a bank when it is not being loaded.                  *)
MayAsk(c) == /\ BeforeCallbacks
             /\ IF c \in Banks THEN ~loading[c]
                               ELSE pending[c] = None /\ ~Uploading(c)

(* mslStreamFile_QueueRequest, until it calls ServiceNextRead.  (With no   *)
(* free request it would spin; a client has at most one.)                  *)
QueueRequest(c, n) ==
  /\ MayAsk(c)
  /\ parFree # <<>>
  /\ LET r == Head(parFree)
         g == (par[r].generation + 1) % Generations
     IN /\ par' = [par EXCEPT ![r] = [Cleared(g) EXCEPT !.in_use = TRUE,
                                                        !.queued = TRUE,
                                                        !.client = c,
                                                        !.remaining = n,
                                                        !.next_chunk = 1]]
        /\ parFree' = Tail(parFree)
        /\ parQueue' = Append(parQueue, r)
        /\ pending' = IF c \in Streams
                      THEN [pending EXCEPT ![c] = [index |-> r, generation |-> g]]
                      ELSE pending
  /\ loading' = [b \in Banks |-> loading[b] \/ b = c]
  /\ game' = "service"
  /\ total' = [total EXCEPT ![c] = n]
  /\ got' = [got EXCEPT ![c] = 0]
  /\ UNCHANGED <<readVars, cur, cmdVars, arqVars, tickVars, panic>>

(* mslDSB_ServiceNextRead, its start: the request at the head of the queue *)
(* leaves it when there is a buffer for it                                 *)
ServiceNextRead ==
  /\ GameAt("service")
  /\ IF parQueue # <<>> /\ FreeBuffers # {}
     THEN LET r == Head(parQueue) IN
            /\ Take([par EXCEPT ![r].queued = FALSE], r)
            /\ parQueue' = Tail(parQueue)
     ELSE Leave /\ UNCHANGED <<par, parQueue, bufferFree, readFree>>
  /\ UNCHANGED <<parFree, fileRead, cmdVars, clientVars, arqVars, tickVars, panic,
                 historyVars>>

(* The loop goes on while the request may have more reads under way        *)
More(r, left) == left # 0 /\ par[r].active_reads < 3 /\ FreeBuffers # {}

(* One turn of the loop: start the next read of the request                *)
IssueRead ==
  /\ GameAt("issue")
  /\ LET r == cur.request
         d == cur.read
         left == par[r].remaining - 1
         issued == [par EXCEPT ![r].reads = Append(@, d),
                               ![r].remaining = left,
                               ![r].next_chunk = @ + 1,
                               ![r].final_issued = @ \/ left = 0]
     IN /\ \E c \in Commands :
             /\ cmd[c].state = "free"
             /\ fileRead' = [fileRead EXCEPT ![d] =
                   [owner |-> r, buffer |-> cur.buffer, command |-> c,
                    chunk |-> par[r].next_chunk]]
             /\ cmds' = Append(cmds, c)
             /\ cmd' = [cmd EXCEPT ![c] = [state |-> "waiting", read |-> d,
                                           buffer |-> cur.buffer,
                                           dropped |-> FALSE]]
        /\ IF More(r, left)
           THEN Take(issued, r)
           ELSE par' = issued /\ Leave /\ UNCHANGED <<bufferFree, readFree>>
  /\ UNCHANGED <<parFree, parQueue, clientVars, arqVars, tickVars, panic, historyVars>>

Dropped == {c \in Commands : cmd[c].dropped}

(* mutant: the buffers of the reads are not returned *)
Returned_leak(r) == {}

(* The buffers of the reads a request has under way                        *)
Returned(r) == {fileRead[d].buffer : d \in ToSet(par[r].reads)} \ {None}

(* mslStreamFile_CancelRequest and mslDSB_CancelRead: reads under way are  *)
(* aborted and freed, their buffers and records go back at once, and the   *)
(* client is told.  Nobody is served.                                      *)
CancelRequest(s) ==
  /\ GameAt("idle")
  /\ pending[s] # None
  /\ LET r == pending[s].index
         valid == par[r].generation = pending[s].generation /\ par[r].in_use
         reads == ToSet(par[r].reads)
         aborted == {fileRead[d].command : d \in reads} \ {None}
     IN IF valid
        THEN /\ Cardinality(aborted \cup Dropped) <= MaxDropped
             /\ cmd' = [c \in Commands |-> IF c \in aborted
                                           THEN [cmd[c] EXCEPT !.dropped = TRUE]
                                           ELSE cmd[c]]
             /\ bufferFree' = [b \in Buffers |-> bufferFree[b] \/ b \in Returned(r)]
             /\ fileRead' = [d \in FileReads |-> IF d \in reads THEN NoRead
                                                                ELSE fileRead[d]]
             /\ readFree' = par[r].reads \o readFree
             /\ parQueue' = IF par[r].queued THEN RemoveFirst(parQueue, r) ELSE parQueue
             /\ par' = [par EXCEPT ![r] = Cleared(@.generation)]
             /\ parFree' = <<r>> \o parFree
        ELSE UNCHANGED <<cmd, readVars, poolVars>>
  /\ pending' = [pending EXCEPT ![s] = None]
  /\ total' = [total EXCEPT ![s] = 0]
  /\ UNCHANGED <<gameVars, cmds, loading, arqVars, tickVars, panic, got>>

----------------------------------------------------------------------------
(* The end of a read                                                       *)

(* mutant: any record in use is taken for the command's *)
Current_any(c) == fileRead[cmd[c].read].command # None

(* The record of a command that was cancelled may be free, or in use for   *)
(* another command by now                                                  *)
Current(c) == fileRead[cmd[c].read].command = c

(* The callback of a read that was cancelled frees its command             *)
DroppedRead ==
  /\ BeforeCallbacks
  /\ cmds # <<>> /\ cmd[Head(cmds)].state = "finished"
  /\ LET c == Head(cmds) IN
       /\ ~Current(c)
       /\ cmd' = [cmd EXCEPT ![c] = NoCommand]
  /\ cmds' = Tail(cmds)
  /\ UNCHANGED <<poolVars, readVars, gameVars, clientVars, arqVars, tickVars, panic,
                 historyVars>>

(* The client's callback (StreamFileRead_CallBack, or                      *)
(* mslBankLoadResidentWaveChunkDone): it starts the transfers of a chunk;  *)
(* a stream's chunk may span two segments of its ring.                     *)
Transfers(c) == IF c \in Streams THEN 1 .. 2 ELSE {1}

(* mutant: the stream keeps the handle of a request that is over *)
Forget_late(c, final) == UNCHANGED pending

(* pending_file_request = 0 with the final chunk                           *)
Forget(c, final) ==
  pending' = IF final /\ c \in Streams THEN [pending EXCEPT ![c] = None] ELSE pending

ClientCallback(c, b, chunk, final) ==
  /\ \E n \in Transfers(c) :
       IF n <= arqFree
       THEN /\ upload' = [upload EXCEPT ![b] = [transfers |-> n, client |-> c,
                                                last |-> final]]
            /\ arqFree' = arqFree - n
            /\ UNCHANGED panic
       ELSE panic' = TRUE /\ UNCHANGED arqVars
  /\ Forget(c, final)
  /\ total' = IF final THEN [total EXCEPT ![c] = 0] ELSE total
  /\ got' = [got EXCEPT ![c] = chunk]

(* mutant: "final" as soon as the last read was started *)
Final_issued(r, active) == par[r].final_issued

(* With active reads left: the chunk is the last one; the request has more *)
(* to read, and goes back to the queue unless it is there                  *)
Final(r, active) == par[r].final_issued /\ active = 0

Requeue(r, active) == ~par[r].final_issued /\ active <= 1

(* mutant: does not look whether the request is in the queue *)
Enqueue_twice(r, active) == Requeue(r, active)

Enqueue(r, active) == Requeue(r, active) /\ ~par[r].queued

(* mslDSB_FileReadCompletionCallback.  The result of the read is not       *)
(* looked at; error can only be copied from an earlier error of the        *)
(* request, so it is always zero.  The command's address may be used again *)
(* as soon as it has been freed.                                           *)
FileReadCompletion ==
  /\ BeforeCallbacks
  /\ cmds # <<>> /\ cmd[Head(cmds)].state = "finished"
  /\ LET c == Head(cmds)
         d == cmd[c].read
         r == fileRead[d].owner
         active == par[r].active_reads - 1
         append == Enqueue(r, active)
         over == ~Requeue(r, active) /\ active = 0
     IN /\ Current(c)
        /\ ClientCallback(par[r].client, fileRead[d].buffer, fileRead[d].chunk,
                          Final(r, active))
        /\ par' = [par EXCEPT ![r] =
                     IF over THEN Cleared(@.generation)
                     ELSE [par[r] EXCEPT !.active_reads = active,
                                         !.reads = RemoveFirst(par[r].reads, d),
                                         !.queued = par[r].queued \/ append]]
        /\ parFree' = IF over THEN <<r>> \o parFree ELSE parFree
        /\ parQueue' = IF append THEN Append(parQueue, r) ELSE parQueue
        /\ fileRead' = [fileRead EXCEPT ![d] = NoRead]
        /\ readFree' = <<d>> \o readFree
        /\ cmd' = [cmd EXCEPT ![c] = NoCommand]
        /\ game' = IF append THEN "service" ELSE "idle"
  /\ cmds' = Tail(cmds)
  /\ UNCHANGED <<bufferFree, cur, loading, tickVars>>

----------------------------------------------------------------------------
(* Interrupts and mslTick                                                  *)

(* The entries an upload's end leaves for mslTick: the buffer's return     *)
(* and, after the last upload of a bank, mslBankLoadResidentARamUpload-    *)
(* Complete                                                                *)
Entries(b) ==
  <<[buffer |-> b, bank |-> None]>> \o
     (IF upload[b].last /\ upload[b].client \in Banks
      THEN <<[buffer |-> None, bank |-> upload[b].client]>> ELSE <<>>)

(* mslTickCallBack_Queue: OSPanic when there is no room                    *)
TickCallBackQueue(entries) ==
  IF Len(tickQueue \o entries) <= TickSlots
  THEN tickQueue' = tickQueue \o entries /\ UNCHANGED panic
  ELSE panic' = TRUE /\ UNCHANGED tickQueue

(* mutant: the ARQ request is not put back *)
ReturnArq_leak == UNCHANGED arqFree

(* i_ARQCALLBACK_ReturnArq                                                 *)
ReturnArq == arqFree' = arqFree + 1

(* A transfer from buffer b to audio memory ends; the last one of a chunk  *)
(* returns the buffer                                                      *)
ArqComplete(b) ==
  /\ ~panic
  /\ upload[b].transfers > 0
  /\ ReturnArq
  /\ IF upload[b].transfers > 1
     THEN upload' = [upload EXCEPT ![b].transfers = @ - 1]
          /\ UNCHANGED <<tickQueue, panic>>
     ELSE /\ upload' = [upload EXCEPT ![b] = NoUpload]
          /\ TickCallBackQueue(Entries(b))
  /\ UNCHANGED <<poolVars, readVars, gameVars, cmdVars, clientVars, batch, processed,
                 historyVars>>

(* mslTick takes the callbacks that are there ...                          *)
TickBegin ==
  /\ BeforeCallbacks
  /\ tickQueue # <<>>
  /\ batch' = Len(tickQueue)
  /\ UNCHANGED <<poolVars, readVars, gameVars, cmdVars, clientVars, arqVars, tickQueue,
                 processed, panic, historyVars>>

(* mutant: nobody is served *)
ReturnBuffer_silent(b) ==
  /\ bufferFree' = [bufferFree EXCEPT ![b] = TRUE]
  /\ UNCHANGED <<game, loading>>

(* mslStreamFile_ReturnBuffer_CB: the buffer is free, and somebody waiting *)
(* is served                                                               *)
ReturnBuffer(b) ==
  /\ bufferFree' = [bufferFree EXCEPT ![b] = TRUE]
  /\ game' = IF parQueue # <<>> THEN "service" ELSE "idle"
  /\ UNCHANGED loading

(* ... runs them one by one ...                                            *)
TickCallback ==
  /\ GameAt("idle") /\ processed < batch
  /\ LET e == tickQueue[processed + 1] IN
       IF e.bank = None
       THEN ReturnBuffer(e.buffer)
       ELSE loading' = [loading EXCEPT ![e.bank] = FALSE] /\ UNCHANGED <<bufferFree, game>>
  /\ processed' = processed + 1
  /\ UNCHANGED <<poolVars, fileRead, readFree, cur, cmdVars, pending, arqVars, tickQueue,
                 batch, panic, historyVars>>

(* ... and gives their entries up when all have run                        *)
TickEnd ==
  /\ GameAt("idle") /\ batch > 0 /\ processed = batch
  /\ tickQueue' = SubSeq(tickQueue, batch + 1, Len(tickQueue))
  /\ batch' = 0 /\ processed' = 0
  /\ UNCHANGED <<poolVars, readVars, gameVars, cmdVars, clientVars, arqVars, panic,
                 historyVars>>

----------------------------------------------------------------------------
(* The file server: reads of one priority, one at a time and in order      *)

AtFront(c) == \E i \in 1 .. Len(cmds) :
               cmds[i] = c /\ \A k \in 1 .. i - 1 : cmd[cmds[k]].state = "finished"

(* An aborted command ends without a read when its turn comes              *)
ServeCommand(c) ==
  /\ AtFront(c) /\ cmd[c].state = "waiting"
  /\ cmd' = [cmd EXCEPT ![c].state = IF cmd[c].dropped THEN "finished" ELSE "reading"]
  /\ UNCHANGED <<poolVars, readVars, gameVars, cmds, clientVars, arqVars, tickVars,
                 panic, historyVars>>

ReadEnds(c) ==
  /\ cmd[c].state = "reading"
  /\ cmd' = [cmd EXCEPT ![c].state = "finished"]
  /\ UNCHANGED <<poolVars, readVars, gameVars, cmds, clientVars, arqVars, tickVars,
                 panic, historyVars>>

----------------------------------------------------------------------------
Service == ServiceNextRead \/ IssueRead
Completion == DroppedRead \/ FileReadCompletion
Tick == TickBegin \/ TickCallback \/ TickEnd
Disc == \E c \in Commands : ServeCommand(c) \/ ReadEnds(c)

Next == \/ \E c \in Clients, n \in 1 .. MaxChunks : QueueRequest(c, n)
        \/ \E s \in Streams : CancelRequest(s)
        \/ Service \/ Completion \/ Tick \/ Disc
        \/ \E b \in Buffers : ArqComplete(b)

Spec == Init /\ [][Next]_vars

(* The game ticks the file system and the sound library every frame,       *)
(* however often it asks and cancels between two frames; reads and         *)
(* transfers end.                                                          *)
FairSpec == /\ Spec
            /\ WF_vars(Service) /\ WF_vars(Disc)
            /\ SF_vars(Completion) /\ SF_vars(Tick)
            /\ \A b \in Buffers : WF_vars(ArqComplete(b))

----------------------------------------------------------------------------
Handles == [index : Requests, generation : 0 .. Generations - 1]

(* Every field keeps to its range; a request never has more than three     *)
(* reads under way.                                                        *)
TypeOK ==
  /\ \A r \in Requests :
       /\ par[r].active_reads \in 0 .. 3
       /\ par[r].remaining \in 0 .. MaxChunks
       /\ par[r].generation \in 0 .. Generations - 1
       /\ par[r].client \in Clients \cup {None}
       /\ par[r].reads \in Seq(FileReads)
  /\ parFree \in Seq(Requests) /\ parQueue \in Seq(Requests)
  /\ fileRead \in [FileReads -> [owner : Requests \cup {None},
                                 buffer : Buffers \cup {None},
                                 command : Commands \cup {None}, chunk : 0 .. MaxChunks]]
  /\ readFree \in Seq(FileReads)
  /\ bufferFree \in [Buffers -> BOOLEAN]
  /\ game \in {"idle", "service", "issue"}
  /\ cmds \in Seq(Commands)
  /\ cmd \in [Commands -> [state : {"free", "waiting", "reading", "finished"},
                           read : FileReads \cup {None},
                           buffer : Buffers \cup {None}, dropped : BOOLEAN]]
  /\ pending \in [Clients -> Handles \cup {None}]
  /\ loading \in [Banks -> BOOLEAN]
  /\ arqFree \in 0 .. ArqSlots
  /\ batch \in 0 .. TickSlots /\ processed \in 0 .. batch

Linked(r) == ToSet(par[r].reads)

Returning(b) == \E i \in processed + 1 .. Len(tickQueue) : tickQueue[i].buffer = b

(* Who may touch buffer b: the free list, a read under way, the loop that  *)
(* is about to start one, the upload of a chunk, or the return through     *)
(* mslTick.                                                                *)
Holders(b) == {h \in {"free", "read", "issue", "upload", "return"} :
                 \/ h = "free" /\ bufferFree[b]
                 \/ h = "read" /\ \E d \in FileReads : fileRead[d].buffer = b
                 \/ h = "issue" /\ cur.buffer = b
                 \/ h = "upload" /\ upload[b].transfers > 0
                 \/ h = "return" /\ Returning(b)}

(* A buffer is in one place at any time: not lost by a cancellation or a   *)
(* lack of records, not returned twice, not given to two reads.            *)
BufferHeldOnce ==
  /\ ~panic => \A b \in Buffers : Cardinality(Holders(b)) = 1
  /\ \A d, e \in FileReads : fileRead[d].buffer = fileRead[e].buffer =>
                               d = e \/ fileRead[d].buffer = None

(* A request is on the free list, or it is in use and something will go on *)
(* with it: the queue, a read under way or the loop.  It is never freed    *)
(* twice and never forgotten.                                              *)
RequestAccounted ==
  /\ TypeOK
  /\ IsInjective(parFree) /\ IsInjective(parQueue)
  /\ \A r \in Requests :
       /\ par[r].in_use <=> r \notin ToSet(parFree)
       /\ par[r].queued <=> r \in ToSet(parQueue)
       /\ par[r].in_use => par[r].queued \/ par[r].active_reads > 0
       /\ par[r].queued => par[r].in_use /\ par[r].remaining > 0
       /\ par[r].active_reads = Len(par[r].reads) + (IF cur.request = r THEN 1 ELSE 0)
       /\ \A d \in Linked(r) : fileRead[d].owner = r

(* The disc never writes into a chunk its client is still uploading, nor   *)
(* into one that is on its way back, although a cancelled read goes on     *)
(* into a buffer that was given to another request meanwhile.              *)
ChunkUndisturbed ==
  \A c \in Commands : cmd[c].state = "reading" =>
    upload[cmd[c].buffer].transfers = 0 /\ ~Returning(cmd[c].buffer)

(* The transfers and the callbacks left by interrupts never run out of     *)
(* room, which OSPanic and the failure of a bank's load would answer.      *)
NeverExhausted == ~panic

(* The handle a stream holds always names its own request, whatever was    *)
(* cancelled and handed out again in between.                              *)
HandleCurrent ==
  \A s \in Streams : pending[s] # None =>
    LET r == pending[s].index IN
      /\ par[r].generation = pending[s].generation
      /\ par[r].in_use /\ par[r].client = s

Reads == INSTANCE StreamReads

(* Each request delivers its chunks once and in order, "final" with the    *)
(* last one, and nothing after it was cancelled.                           *)
ChunksInOrder == Reads!Spec

(* Every request ends.                                                     *)
EveryRequestEnds == \A c \in Clients : total[c] > 0 ~> total[c] = 0
=============================================================================
