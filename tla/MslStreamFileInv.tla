-------------------------- MODULE MslStreamFileInv --------------------------
(***************************************************************************)
(* The inductive invariant of the stream buffers: what the parts of the    *)
(* sound library rely on between any two steps.                            *)
(***************************************************************************)
EXTENDS MslStreamFile

RequestType == [in_use : BOOLEAN, queued : BOOLEAN, final_issued : BOOLEAN,
                remaining : 0 .. MaxChunks, next_chunk : 0 .. MaxChunks + 1,
                active_reads : 0 .. 3, generation : 0 .. Generations - 1,
                client : Clients \cup {None}, reads : Seq(FileReads)]
UploadType == [transfers : 0 .. 2, client : Clients \cup {None}, last : BOOLEAN]
ServiceType == [request : Requests, read : FileReads, buffer : Buffers]
EntryType == [buffer : Buffers, bank : {None}] \cup [buffer : {None}, bank : Banks]

Typed ==
  /\ TypeOK
  /\ par \in [Requests -> RequestType]
  /\ upload \in [Buffers -> UploadType]
  /\ tickQueue \in Seq(EntryType)
  /\ total \in [Clients -> 0 .. MaxChunks] /\ got \in [Clients -> 0 .. MaxChunks]

(* The loop of ServiceNextRead, between two reads: it has a request that   *)
(* has more to read, a record and a buffer.                                *)
InService ==
  /\ game # "issue" => cur = NoService
  /\ game = "issue" => /\ cur \in ServiceType
                       /\ par[cur.request].in_use /\ ~par[cur.request].queued
                       /\ par[cur.request].remaining > 0

Started(r) == Len(par[r].reads) + (IF cur.request = r THEN 1 ELSE 0)

(* A request waits in the queue with at most one read under way, or has    *)
(* reads under way; those it still has to start are counted.               *)
RequestKept(r) ==
  /\ par[r].in_use <=> r \notin ToSet(parFree)
  /\ par[r].queued <=> r \in ToSet(parQueue)
  /\ ~par[r].in_use => par[r] = Cleared(par[r].generation)
  /\ par[r].in_use => /\ par[r].queued \/ par[r].active_reads > 0
                      /\ par[r].final_issued <=> par[r].remaining = 0
                      /\ par[r].client # None
  /\ par[r].queued => /\ par[r].in_use
                      /\ par[r].remaining > 0 /\ par[r].active_reads <= 1
  /\ par[r].active_reads = Started(r)

RequestsKept == /\ IsInjective(parFree) /\ IsInjective(parQueue)
                /\ \A r \in Requests : RequestKept(r)

(* A record is free, or with the loop, or linked to the request that owns  *)
(* it.                                                                     *)
RecordKept(d) ==
  /\ d \in ToSet(readFree) <=> fileRead[d] = NoRead /\ cur.read # d
  /\ cur.read = d => fileRead[d] = NoRead
  /\ fileRead[d] # NoRead => /\ fileRead[d].owner # None
                             /\ fileRead[d].buffer # None
                             /\ fileRead[d].command # None
                             /\ d \in Linked(fileRead[d].owner)

RecordsKept ==
  /\ IsInjective(readFree)
  /\ \A d \in FileReads : RecordKept(d)
  /\ \A r \in Requests : /\ IsInjective(par[r].reads)
                         /\ \A d \in Linked(r) : fileRead[d].owner = r

(* A command that was started has not been given back; it is the command   *)
(* of its record until it is aborted, and never after.                     *)
CommandKept(c) ==
  /\ c \in ToSet(cmds) <=> cmd[c].state # "free"
  /\ cmd[c].state = "free" => cmd[c] = NoCommand
  /\ cmd[c].state # "free" => /\ cmd[c].read \in FileReads
                              /\ cmd[c].buffer \in Buffers
                              /\ cmd[c].dropped <=> ~Current(c)

CommandsKept ==
  /\ IsInjective(cmds)
  /\ \A c \in Commands : CommandKept(c)
  /\ \A d \in FileReads : fileRead[d] # NoRead =>
       LET c == fileRead[d].command IN
         /\ cmd[c].state # "free"
         /\ cmd[c].read = d /\ cmd[c].buffer = fileRead[d].buffer

(* The disc serves the commands one by one.                                *)
InTurn ==
  \A i, k \in 1 .. Len(cmds) :
    i < k /\ cmd[cmds[k]].state \in {"reading", "finished"} =>
      cmd[cmds[i]].state = "finished"

(* While the disc reads into a buffer nobody has got a chunk in it, though *)
(* it may be another request's by now.                                     *)
ReadingApart ==
  \A c \in Commands : cmd[c].state = "reading" =>
    /\ upload[cmd[c].buffer].transfers = 0 /\ ~Returning(cmd[c].buffer)
    /\ \A d \in FileReads : fileRead[d].buffer = cmd[c].buffer =>
         cmd[fileRead[d].command].state # "finished"

InRead(b) == \E d \in FileReads : fileRead[d].buffer = b

(* The places a buffer may be in exclude one another.                      *)
BufferKept(b) ==
  /\ bufferFree[b] => ~InRead(b)
  /\ bufferFree[b] \/ InRead(b) => cur.buffer # b
  /\ bufferFree[b] \/ InRead(b) \/ cur.buffer = b => upload[b].transfers = 0
  /\ bufferFree[b] \/ InRead(b) \/ cur.buffer = b \/ upload[b].transfers > 0 =>
       ~Returning(b)
  /\ bufferFree[b] \/ InRead(b) \/ cur.buffer = b \/ upload[b].transfers > 0
       \/ Returning(b)

BuffersKept ==
  /\ \A b \in Buffers : BufferKept(b)
  /\ \A d, e \in FileReads : fileRead[d].buffer = fileRead[e].buffer =>
                               d = e \/ fileRead[d].buffer = None

(* Each buffer and each bank has one entry at most, which its upload has   *)
(* left; an entry that has run stays until its turn is over, and no upload *)
(* starts before that.                                                     *)
EntriesKept ==
  /\ IsInjective(tickQueue)
  /\ batch <= Len(tickQueue) /\ (batch = 0 => processed = 0)
  /\ batch > 0 => batch >= processed
  /\ \A i \in 1 .. Len(tickQueue) :
       /\ tickQueue[i].buffer # None => upload[tickQueue[i].buffer].transfers = 0
       /\ tickQueue[i].bank # None =>
            \A b \in Buffers : upload[b].last => upload[b].client # tickQueue[i].bank

UploadKept(b) ==
  /\ upload[b].transfers = 0 => upload[b] = NoUpload
  /\ upload[b].transfers > 0 => upload[b].client # None

(* The transfers under way, one by one                                     *)
Under == {t \in Buffers \X {1, 2} : t[2] <= upload[t[1]].transfers}

UploadsKept == /\ \A b \in Buffers : UploadKept(b)
               /\ arqFree = ArqSlots - Cardinality(Under)

(* A bank loads until its last upload's entry has run; it has at most one  *)
(* such upload or entry, after its request.                                *)
Requested(c) == \E r \in Requests : par[r].client = c
LastUpload(c) == \E b \in Buffers : upload[b].client = c /\ upload[b].last
Ending(c) == \E i \in processed + 1 .. Len(tickQueue) : tickQueue[i].bank = c

BanksKept ==
  /\ \A c \in Banks : /\ Requested(c) \/ LastUpload(c) \/ Ending(c) => loading[c]
                      /\ LastUpload(c) \/ Ending(c) => ~Requested(c)
                      /\ pending[c] = None
  /\ \A a, b \in Buffers : upload[a].last /\ upload[b].last /\ upload[a].client \in Banks
       /\ upload[a].client = upload[b].client => a = b

(* A client has one request at most, and a stream the handle of it.        *)
HandlesKept ==
  /\ \A q, r \in Requests : par[q].client = par[r].client =>
                              q = r \/ par[q].client = None
  /\ \A r \in Requests : par[r].client \in Streams =>
       pending[par[r].client] = [index |-> r, generation |-> par[r].generation]
  /\ \A s \in Streams : pending[s] # None => par[pending[s].index].client = s

(* What a request has delivered, has under way, in the order of its reads, *)
(* and has to start still is all that was asked for.                       *)
ChunksKept ==
  /\ \A c \in Clients : ~Requested(c) => total[c] = 0
  /\ \A r \in Requests : par[r].in_use =>
       /\ total[par[r].client] = par[r].next_chunk - 1 + par[r].remaining
       /\ got[par[r].client] = par[r].next_chunk - 1 - Len(par[r].reads)
       /\ \A i \in 1 .. Len(par[r].reads) :
            fileRead[par[r].reads[i]].chunk = got[par[r].client] + i

(* The commands of a request are in the order of its reads.                *)
InOrder ==
  \A r \in Requests : \A i, k \in 1 .. Len(par[r].reads), m, n \in 1 .. Len(cmds) :
    /\ i < k
    /\ cmds[m] = fileRead[par[r].reads[i]].command
    /\ cmds[n] = fileRead[par[r].reads[k]].command
    => m < n

IndInv == /\ ~panic /\ Typed /\ InService /\ RequestsKept /\ RecordsKept /\ CommandsKept
          /\ InTurn /\ ReadingApart /\ BuffersKept /\ EntriesKept /\ UploadsKept
          /\ BanksKept /\ HandlesKept /\ ChunksKept /\ InOrder
=============================================================================
