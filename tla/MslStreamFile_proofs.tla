------------------------ MODULE MslStreamFile_proofs ------------------------
(***************************************************************************)
(* Proofs about the stream buffers: their inductive invariant, the         *)
(* invariants that the runs check and the refinement of StreamReads.       *)
(***************************************************************************)
EXTENDS MslStreamFileInv, SeqFacts, SequenceTheorems

USE DEF poolVars, readVars, gameVars, cmdVars, clientVars, arqVars, tickVars,
        historyVars, GameAt, BeforeCallbacks
USE PoolAssumption, CommandsAssumption, ClientsAssumption, NoneAssumption, ArqAssumption

----------------------------------------------------------------------------
(* Counting.                                                               *)

LEMMA BuffersFinite == IsFiniteSet(Buffers) /\ Cardinality(Buffers) = NumBuffers
<1>1. 1 \in Int /\ NumBuffers \in Int  OBVIOUS
<1>2. /\ IsFiniteSet(1 .. NumBuffers)
      /\ Cardinality(1 .. NumBuffers) = IF 1 > NumBuffers THEN 0 ELSE NumBuffers - 1 + 1
  BY <1>1, FS_Interval
<1>3. QED  BY <1>2 DEF Buffers

(* The records that are not free hold as many buffers that are not free,   *)
(* so a free buffer always finds a record.                                 *)
LEMMA RecordForBuffer ==
  ASSUME IndInv, FreeBuffers # {}
  PROVE  readFree # <<>>
<1> SUFFICES ASSUME readFree = <<>> PROVE FALSE
  OBVIOUS
<1>1. PICK b \in Buffers : bufferFree[b]  BY DEF FreeBuffers
<1> DEFINE held(d) == IF d = cur.read THEN cur.buffer ELSE fileRead[d].buffer
           h == [d \in FileReads |-> held(d)]
           T == Buffers \ {b}
<1>2. \A d \in FileReads : d \notin ToSet(readFree)  BY ElemsEmpty
<1>3. \A d \in FileReads : fileRead[d] # NoRead \/ cur.read = d
  BY <1>2 DEF IndInv, RecordsKept, RecordKept
<1>4. ASSUME NEW d \in FileReads, d # cur.read PROVE held(d) \in T
  <2>1. fileRead[d].buffer # None  BY <1>3, <1>4 DEF IndInv, RecordsKept, RecordKept
  <2>2. fileRead[d].buffer \in Buffers  BY <2>1 DEF IndInv, Typed, TypeOK
  <2>3. fileRead[d].buffer # b  BY <1>1 DEF IndInv, BuffersKept, BufferKept, InRead
  <2>4. QED  BY <1>4, <2>2, <2>3
<1>5. ASSUME NEW d \in FileReads, d = cur.read PROVE held(d) \in T
  <2>1. d # None  BY DEF FileReads, Buffers
  <2>2. cur \in ServiceType  BY <1>5, <2>1 DEF IndInv, InService, NoService
  <2>3. cur.buffer # b  BY <1>1 DEF IndInv, BuffersKept, BufferKept
  <2>4. QED  BY <1>5, <2>2, <2>3 DEF ServiceType
<1>6. h \in [FileReads -> T]  BY <1>4, <1>5
<1>7. ASSUME NEW d \in FileReads, NEW e \in FileReads, held(d) = held(e) PROVE d = e
  <2>1. CASE d # cur.read /\ e # cur.read
    <3>1. fileRead[d].buffer = fileRead[e].buffer /\ fileRead[d].buffer # None
      BY <2>1, <1>7, <1>3 DEF IndInv, RecordsKept, RecordKept
    <3>2. QED  BY <3>1 DEF IndInv, BuffersKept
  <2>2. CASE d = cur.read /\ e # cur.read
    <3>1. fileRead[e].buffer = cur.buffer /\ cur.buffer \in Buffers  BY <2>2, <1>5, <1>7
    <3>2. InRead(cur.buffer)  BY <3>1 DEF InRead
    <3>3. QED  BY <3>1, <3>2 DEF IndInv, BuffersKept, BufferKept
  <2>3. CASE d # cur.read /\ e = cur.read
    <3>1. fileRead[d].buffer = cur.buffer /\ cur.buffer \in Buffers  BY <2>3, <1>5, <1>7
    <3>2. InRead(cur.buffer)  BY <3>1 DEF InRead
    <3>3. QED  BY <3>1, <3>2 DEF IndInv, BuffersKept, BufferKept
  <2>4. QED  BY <2>1, <2>2, <2>3
<1>8. h \in Injection(FileReads, T)
  BY <1>6, <1>7 DEF Injection, IsInjective
<1>9. IsFiniteSet(T) /\ Cardinality(T) = NumBuffers - 1
  BY BuffersFinite, FS_RemoveElement
<1>10. Cardinality(FileReads) <= Cardinality(T)
  BY <1>8, <1>9, FS_Injection
<1>11. QED  BY <1>9, <1>10, BuffersFinite DEF FileReads, Buffers

LEMMA AllocIn ==
  ASSUME FreeBuffers # {}
  PROVE  AllocBuffer \in Buffers /\ bufferFree[AllocBuffer]
<1>1. FreeBuffers \in SUBSET Nat  BY DEF FreeBuffers, Buffers
<1>2. PICK b \in FreeBuffers : \A d \in FreeBuffers : b <= d
  BY <1>1, LeastNumber
<1>3. AllocBuffer \in FreeBuffers  BY <1>2 DEF AllocBuffer
<1>4. QED  BY <1>3 DEF FreeBuffers

(* The callbacks that may wait at once: one per buffer and one per bank.   *)
LEMMA TickRoom ==
  ASSUME NEW s \in Seq(EntryType), IsInjective(s)
  PROVE  Len(s) <= TickSlots
<1> DEFINE ofBuffer == [buffer : Buffers, bank : {None}]
           ofBank == [buffer : {None}, bank : Banks]
           f == [e \in ofBuffer |-> e.buffer]
           g == [e \in ofBank |-> e.bank]
<1>1. IsFiniteSet(Banks)  BY FS_Subset DEF Clients
<1>2. IsFiniteSet(ofBuffer) /\ Cardinality(ofBuffer) <= NumBuffers
  <2>1. f \in Injection(ofBuffer, Buffers)  BY DEF Injection, IsInjective
  <2>2. QED  BY <2>1, BuffersFinite, FS_Injection
<1>3. IsFiniteSet(ofBank) /\ Cardinality(ofBank) <= Cardinality(Banks)
  <2>1. g \in Injection(ofBank, Banks)  BY DEF Injection, IsInjective
  <2>2. QED  BY <1>1, <2>1, FS_Injection
<1>4. /\ IsFiniteSet(EntryType)
      /\ Cardinality(EntryType) = Cardinality(ofBuffer) + Cardinality(ofBank)
                                    - Cardinality(ofBuffer \cap ofBank)
  BY <1>2, <1>3, FS_Union DEF EntryType
<1>5. IsFiniteSet(ofBuffer \cap ofBank)  BY <1>2, FS_Subset
<1>6. /\ Cardinality(ofBuffer) \in Nat /\ Cardinality(ofBank) \in Nat
      /\ Cardinality(ofBuffer \cap ofBank) \in Nat /\ Cardinality(Banks) \in Nat
  BY <1>1, <1>2, <1>3, <1>5, FS_CardinalityType
<1> HIDE DEF ofBuffer, ofBank
<1>7. Len(s) \in Nat /\ Len(s) <= Cardinality(EntryType)
  BY <1>4, InjectiveLength
<1>8. QED  BY <1>2, <1>3, <1>4, <1>6, <1>7

(* The transfers under way: at most two per buffer.                        *)
LEMMA UnderRoom ==
  ASSUME upload \in [Buffers -> UploadType], NEW b \in Buffers
  PROVE  /\ IsFiniteSet(Under) /\ Cardinality(Under) \in 0 .. 2 * NumBuffers
         /\ upload[b].transfers = 0 => Cardinality(Under) + 2 <= 2 * NumBuffers
<1>1. IsFiniteSet({1, 2}) /\ Cardinality({1, 2}) = 2
  <2>1. ASSUME NEW x, NEW y, x # y
        PROVE  IsFiniteSet({x, y}) /\ Cardinality({x, y}) = 1 + 1
    <3>1. IsFiniteSet({x}) /\ Cardinality({x}) = 1  BY FS_Singleton
    <3>2. y \notin {x} /\ {x, y} = {x} \cup {y}  BY <2>1
    <3>3. /\ IsFiniteSet({x} \cup {y})
          /\ Cardinality({x} \cup {y}) =
               IF y \in {x} THEN Cardinality({x}) ELSE Cardinality({x}) + 1
      BY <3>1, FS_AddElement
    <3>4. QED  BY <3>1, <3>2, <3>3
  <2>2. 1 # 2 /\ 1 + 1 = 2  OBVIOUS
  <2>3. QED  BY <2>1, <2>2
<1>2. /\ IsFiniteSet(Buffers \X {1, 2})
      /\ Cardinality(Buffers \X {1, 2}) = NumBuffers * 2
  BY <1>1, BuffersFinite, FS_Product
<1>3. Under \subseteq Buffers \X {1, 2}  BY DEF Under
<1>4. /\ IsFiniteSet(Under) /\ Cardinality(Under) \in Nat
      /\ Cardinality(Under) <= NumBuffers * 2
  <2>1. IsFiniteSet(Under) /\ Cardinality(Under) <= Cardinality(Buffers \X {1, 2})
    BY <1>2, <1>3, FS_Subset
  <2>2. QED  BY <1>2, <2>1, FS_CardinalityType
<1>5. ASSUME upload[b].transfers = 0 PROVE Cardinality(Under) + 2 <= 2 * NumBuffers
  <2>1. Under \subseteq (Buffers \ {b}) \X {1, 2}
    <3>1. ASSUME NEW t \in Under PROVE t[1] # b /\ t \in Buffers \X {1, 2}
      BY <1>5 DEF Under
    <3>2. QED  BY <3>1
  <2>2. IsFiniteSet(Buffers \ {b}) /\ Cardinality(Buffers \ {b}) = NumBuffers - 1
    BY BuffersFinite, FS_RemoveElement
  <2>3. /\ IsFiniteSet((Buffers \ {b}) \X {1, 2})
        /\ Cardinality((Buffers \ {b}) \X {1, 2}) = (NumBuffers - 1) * 2
    BY <1>1, <2>2, FS_Product, ZenonT(60)
  <2>4. Cardinality(Under) <= (NumBuffers - 1) * 2  BY <2>1, <2>3, FS_Subset
  <2>5. QED  BY <1>4, <2>4
<1>6. QED  BY <1>4, <1>5

(* The transfers of one buffer begin together and end one by one.          *)
LEMMA UnderStarts ==
  ASSUME upload \in [Buffers -> UploadType], NEW b \in Buffers,
         upload[b].transfers = 0, NEW n \in 1 .. 2,
         \A a \in Buffers : upload'[a].transfers =
                              IF a = b THEN n ELSE upload[a].transfers
  PROVE  Cardinality(Under') = Cardinality(Under) + n
<1>1. IsFiniteSet(Under) /\ Cardinality(Under) \in Nat  BY UnderRoom
<1>2. <<b, 1>> \notin Under /\ <<b, 2>> \notin Under  BY DEF Under
<1>3. /\ IsFiniteSet(Under \cup {<<b, 1>>})
      /\ Cardinality(Under \cup {<<b, 1>>}) = Cardinality(Under) + 1
  BY <1>1, <1>2, FS_AddElement
<1>4. CASE n = 1
  <2>1. Under' = Under \cup {<<b, 1>>}
    <3>1. ASSUME NEW t \in Under' PROVE t \in Under \cup {<<b, 1>>}
      BY <1>4 DEF Under, UploadType
    <3>2. ASSUME NEW t \in Under \cup {<<b, 1>>} PROVE t \in Under'
      BY <1>4 DEF Under, UploadType
    <3>3. QED  BY <3>1, <3>2
  <2>2. QED  BY <1>3, <1>4, <2>1
<1>5. CASE n = 2
  <2>1. Under' = (Under \cup {<<b, 1>>}) \cup {<<b, 2>>}
    <3>1. ASSUME NEW t \in Under' PROVE t \in (Under \cup {<<b, 1>>}) \cup {<<b, 2>>}
      BY <1>5 DEF Under, UploadType
    <3>2. ASSUME NEW t \in (Under \cup {<<b, 1>>}) \cup {<<b, 2>>} PROVE t \in Under'
      BY <1>5 DEF Under, UploadType
    <3>3. QED  BY <3>1, <3>2
  <2>2. <<b, 2>> \notin Under \cup {<<b, 1>>}  BY <1>2
  <2>3. Cardinality((Under \cup {<<b, 1>>}) \cup {<<b, 2>>}) =
          Cardinality(Under \cup {<<b, 1>>}) + 1
    BY <1>3, <2>2, FS_AddElement
  <2>4. QED  BY <1>1, <1>3, <1>5, <2>1, <2>3
<1>6. QED  BY <1>4, <1>5

LEMMA UnderEnds ==
  ASSUME upload \in [Buffers -> UploadType], NEW b \in Buffers,
         upload[b].transfers > 0,
         \A a \in Buffers : upload'[a].transfers =
                              IF a = b THEN upload[a].transfers - 1
                                       ELSE upload[a].transfers
  PROVE  Cardinality(Under') = Cardinality(Under) - 1 /\ Cardinality(Under') \in Nat
<1> DEFINE k == upload[b].transfers
<1>1. k \in {1, 2}  BY DEF UploadType
<1>2. <<b, k>> \in Under  BY <1>1 DEF Under
<1>3. Under' = Under \ {<<b, k>>}
  <2>1. ASSUME NEW t \in Under' PROVE t \in Under \ {<<b, k>>}
    BY DEF Under, UploadType
  <2>2. ASSUME NEW t \in Under \ {<<b, k>>} PROVE t \in Under'
    <3>1. PICK a \in Buffers, m \in {1, 2} : t = <<a, m>> /\ m <= upload[a].transfers
      BY DEF Under
    <3>2. m <= upload'[a].transfers  BY <3>1, <1>1 DEF UploadType
    <3>3. QED  BY <3>1, <3>2 DEF Under
  <2>3. QED  BY <2>1, <2>2
<1>4. IsFiniteSet(Under)  BY UnderRoom
<1> HIDE DEF k
<1>5. /\ IsFiniteSet(Under \ {<<b, k>>})
      /\ Cardinality(Under \ {<<b, k>>}) = Cardinality(Under) - 1
  BY <1>2, <1>4, FS_RemoveElement
<1>6. QED  BY <1>3, <1>5, FS_CardinalityType

----------------------------------------------------------------------------
(* Each part of the invariant depends on some of the variables only.       *)

LEMMA Stable ==
  ASSUME IndInv
  PROVE  /\ UNCHANGED <<game, cur, par>> => InService'
         /\ UNCHANGED <<par, parFree, parQueue, cur>> => RequestsKept'
         /\ UNCHANGED <<par, fileRead, readFree, cur>> => RecordsKept'
         /\ UNCHANGED <<cmds, cmd, fileRead>> => CommandsKept'
         /\ UNCHANGED <<cmds, cmd>> => InTurn'
         /\ UNCHANGED <<cmd, upload, fileRead, tickQueue, processed>> => ReadingApart'
         /\ UNCHANGED <<bufferFree, fileRead, cur, upload, tickQueue, processed>> =>
              BuffersKept'
         /\ UNCHANGED <<tickQueue, batch, processed, upload>> => EntriesKept'
         /\ UNCHANGED <<upload, arqFree>> => UploadsKept'
         /\ UNCHANGED <<par, upload, tickQueue, processed, loading, pending>> => BanksKept'
         /\ UNCHANGED <<par, pending>> => HandlesKept'
         /\ UNCHANGED <<par, fileRead, total, got>> => ChunksKept'
         /\ UNCHANGED <<par, fileRead, cmds>> => InOrder'
<1>1. UNCHANGED <<game, cur, par>> => InService'
  BY DEF IndInv, InService
<1>2. UNCHANGED <<par, parFree, parQueue, cur>> => RequestsKept'
  BY ZenonT(60) DEF IndInv, RequestsKept, RequestKept, Started
<1>3. UNCHANGED <<par, fileRead, readFree, cur>> => RecordsKept'
  BY DEF IndInv, RecordsKept, RecordKept, Linked
<1>4. UNCHANGED <<cmds, cmd, fileRead>> => CommandsKept'
  BY DEF IndInv, CommandsKept, CommandKept, Current
<1>5. UNCHANGED <<cmds, cmd>> => InTurn'
  BY DEF IndInv, InTurn
<1>6. UNCHANGED <<cmd, upload, fileRead, tickQueue, processed>> => ReadingApart'
  BY DEF IndInv, ReadingApart, Returning
<1>7. UNCHANGED <<bufferFree, fileRead, cur, upload, tickQueue, processed>> => BuffersKept'
  BY DEF IndInv, BuffersKept, BufferKept, InRead, Returning
<1>8. UNCHANGED <<tickQueue, batch, processed, upload>> => EntriesKept'
  BY DEF IndInv, EntriesKept
<1>9. UNCHANGED <<upload, arqFree>> => UploadsKept'
  BY DEF IndInv, UploadsKept, UploadKept, Under
<1>10. UNCHANGED <<par, upload, tickQueue, processed, loading, pending>> => BanksKept'
  BY DEF IndInv, BanksKept, Requested, LastUpload, Ending
<1>11. UNCHANGED <<par, pending>> => HandlesKept'
  BY DEF IndInv, HandlesKept
<1>12. UNCHANGED <<par, fileRead, total, got>> => ChunksKept'
  BY DEF IndInv, ChunksKept, Requested
<1>13. UNCHANGED <<par, fileRead, cmds>> => InOrder'
  BY DEF IndInv, InOrder
<1>14. QED
  BY <1>1, <1>2, <1>3, <1>4, <1>5, <1>6, <1>7, <1>8, <1>9, <1>10, <1>11, <1>12, <1>13

----------------------------------------------------------------------------
(* The disc.                                                               *)

(* At most one command is being read, and none while one is in turn.       *)
LEMMA OneAtATime ==
  ASSUME IndInv, NEW c \in Commands, NEW e \in Commands,
         cmd[c].state = "reading" \/ (AtFront(c) /\ cmd[c].state = "waiting"),
         cmd[e].state = "reading"
  PROVE  c = e
<1>1. c \in ToSet(cmds) /\ e \in ToSet(cmds)
  BY DEF IndInv, CommandsKept, CommandKept
<1>2. cmds \in Seq(Commands)  BY DEF IndInv, Typed, TypeOK
<1>3. PICK k \in 1 .. Len(cmds) : e = cmds[k]  BY <1>1, <1>2, SetView
<1>4. CASE cmd[c].state = "reading"
  <2>1. PICK i \in 1 .. Len(cmds) : c = cmds[i]  BY <1>1, <1>2, SetView
  <2>2. ~(i < k) /\ ~(k < i)  BY <1>3, <1>4, <2>1 DEF IndInv, InTurn
  <2>3. QED  BY <1>2, <1>3, <2>1, <2>2
<1>5. CASE AtFront(c) /\ cmd[c].state = "waiting"
  <2>1. PICK i \in 1 .. Len(cmds) :
          cmds[i] = c /\ \A m \in 1 .. i - 1 : cmd[cmds[m]].state = "finished"
    BY <1>5 DEF AtFront
  <2>2. ~(i < k)  BY <1>3, <1>5, <2>1 DEF IndInv, InTurn
  <2>3. ~(k < i)
    <3>1. k < i => k \in 1 .. i - 1  BY <1>2
    <3>2. QED  BY <1>3, <2>1, <3>1
  <2>4. QED  BY <1>2, <1>3, <1>5, <2>1, <2>2, <2>3
<1>6. QED  BY <1>4, <1>5

(* ServeCommand keeps the invariant.                                       *)
LEMMA ServeCommandKeeps ==
  ASSUME IndInv, NEW c \in Commands, ServeCommand(c)
  PROVE  IndInv'
<1> DEFINE next == IF cmd[c].dropped THEN "finished" ELSE "reading"
<1>1. /\ AtFront(c) /\ cmd[c].state = "waiting"
      /\ cmd' = [cmd EXCEPT ![c].state = next]
      /\ UNCHANGED <<poolVars, readVars, gameVars, cmds, clientVars, arqVars, tickVars,
                     panic, historyVars>>
  BY DEF ServeCommand
<1>2. cmd \in [Commands -> [state : {"free", "waiting", "reading", "finished"},
                            read : FileReads \cup {None},
                            buffer : Buffers \cup {None}, dropped : BOOLEAN]]
  BY DEF IndInv, Typed, TypeOK
<1>3. /\ \A e \in Commands : e # c => cmd'[e] = cmd[e]
      /\ cmd'[c].state = next /\ cmd'[c].read = cmd[c].read
      /\ cmd'[c].buffer = cmd[c].buffer /\ cmd'[c].dropped = cmd[c].dropped
  BY <1>1, <1>2
<1>4. Typed'
  <2>1. cmd' \in [Commands -> [state : {"free", "waiting", "reading", "finished"},
                               read : FileReads \cup {None},
                               buffer : Buffers \cup {None}, dropped : BOOLEAN]]
    BY <1>1, <1>2
  <2>2. QED  BY <1>1, <2>1 DEF IndInv, Typed, TypeOK
<1>5. CommandsKept'
  BY <1>1, <1>2, <1>3 DEF IndInv, CommandsKept, CommandKept, Current, NoCommand
<1>6. InTurn'
  <2>1. cmds \in Seq(Commands) /\ IsInjective(cmds)
    BY DEF IndInv, Typed, TypeOK, CommandsKept
  <2>2. PICK i \in 1 .. Len(cmds) :
          cmds[i] = c /\ \A m \in 1 .. i - 1 : cmd[cmds[m]].state = "finished"
    BY <1>1 DEF AtFront
  <2> SUFFICES ASSUME NEW m \in 1 .. Len(cmds), NEW n \in 1 .. Len(cmds), m < n,
                      cmd'[cmds[n]].state \in {"reading", "finished"}
               PROVE  cmd'[cmds[m]].state = "finished"
    BY <1>1 DEF InTurn
  <2>3. CASE n = i
    <3>1. m \in 1 .. i - 1 /\ cmds[m] # c  BY <2>1, <2>2, <2>3, SetView
    <3>2. QED  BY <1>3, <2>1, <2>2, <3>1, SMTT(40)
  <2>4. CASE n # i
    <3>1. cmds[n] # c  BY <2>1, <2>2, <2>4, SetView
    <3>2. cmd[cmds[m]].state = "finished"
      BY <1>3, <2>1, <3>1 DEF IndInv, InTurn
    <3>3. QED  BY <1>1, <1>3, <2>1, <3>2, SMTT(40)
  <2>5. QED  BY <2>3, <2>4
<1>7. ReadingApart'
  <2>1. ASSUME NEW e \in Commands, cmd'[e].state = "reading", e # c PROVE FALSE
    <3>1. cmd[e].state = "reading"  BY <1>3, <2>1
    <3>2. QED  BY <1>1, <2>1, <3>1, OneAtATime
  <2>2. ASSUME cmd'[c].state = "reading"
        PROVE  /\ upload[cmd[c].buffer].transfers = 0 /\ ~Returning(cmd[c].buffer)
               /\ \A d \in FileReads : fileRead[d].buffer = cmd[c].buffer =>
                    cmd'[fileRead[d].command].state # "finished"
    <3> DEFINE d == cmd[c].read
    <3>1. ~cmd[c].dropped  BY <1>3, <2>2
    <3>2. /\ d \in FileReads /\ cmd[c].buffer \in Buffers /\ fileRead[d].command = c
      BY <1>1, <3>1 DEF IndInv, CommandsKept, CommandKept, Current
    <3>3. fileRead[d] # NoRead  BY <3>2 DEF NoRead
    <3>4. fileRead[d].buffer = cmd[c].buffer
      BY <3>2, <3>3 DEF IndInv, CommandsKept
    <3>5. InRead(cmd[c].buffer)  BY <3>2, <3>4 DEF InRead
    <3>6. \A e \in FileReads : fileRead[e].buffer = cmd[c].buffer => e = d
      BY <3>2, <3>4 DEF IndInv, BuffersKept, Buffers
    <3>7. upload[cmd[c].buffer].transfers = 0 /\ ~Returning(cmd[c].buffer)
      BY <3>2, <3>5 DEF IndInv, BuffersKept, BufferKept
    <3>8. QED  BY <2>2, <3>2, <3>6, <3>7
  <2>3. QED  BY <1>1, <1>3, <2>1, <2>2 DEF ReadingApart, Returning
<1>8. QED  BY <1>1, <1>4, <1>5, <1>6, <1>7, Stable DEF IndInv

(* ReadEnds keeps the invariant.                                           *)
LEMMA ReadEndsKeeps ==
  ASSUME IndInv, NEW c \in Commands, ReadEnds(c)
  PROVE  IndInv'
<1>1. /\ cmd[c].state = "reading"
      /\ cmd' = [cmd EXCEPT ![c].state = "finished"]
      /\ UNCHANGED <<poolVars, readVars, gameVars, cmds, clientVars, arqVars, tickVars,
                     panic, historyVars>>
  BY DEF ReadEnds
<1>2. cmd \in [Commands -> [state : {"free", "waiting", "reading", "finished"},
                            read : FileReads \cup {None},
                            buffer : Buffers \cup {None}, dropped : BOOLEAN]]
  BY DEF IndInv, Typed, TypeOK
<1>3. /\ \A e \in Commands : e # c => cmd'[e] = cmd[e]
      /\ cmd'[c].state = "finished" /\ cmd'[c].read = cmd[c].read
      /\ cmd'[c].buffer = cmd[c].buffer /\ cmd'[c].dropped = cmd[c].dropped
  BY <1>1, <1>2
<1>4. Typed'
  BY <1>1, <1>2, ZenonT(60) DEF IndInv, Typed, TypeOK
<1>5. CommandsKept'
  BY <1>1, <1>2, <1>3 DEF IndInv, CommandsKept, CommandKept, Current, NoCommand
<1>6. InTurn'
  <2>1. cmds \in Seq(Commands)  BY DEF IndInv, Typed, TypeOK
  <2>2. QED  BY <1>1, <1>3, <2>1, SMTT(40) DEF IndInv, InTurn
<1>7. ReadingApart'
  <2>1. ASSUME NEW e \in Commands, cmd'[e].state = "reading" PROVE FALSE
    <3>1. e # c /\ cmd[e].state = "reading"  BY <1>3, <2>1
    <3>2. QED  BY <1>1, <3>1, OneAtATime
  <2>2. QED  BY <2>1 DEF ReadingApart
<1>8. QED  BY <1>1, <1>4, <1>5, <1>6, <1>7, Stable DEF IndInv

----------------------------------------------------------------------------
(* mslTick.                                                                *)

(* TickBegin keeps the invariant.                                          *)
LEMMA TickBeginKeeps ==
  ASSUME IndInv, TickBegin
  PROVE  IndInv'
<1>1. /\ batch = 0 /\ tickQueue # <<>> /\ batch' = Len(tickQueue)
      /\ UNCHANGED <<poolVars, readVars, gameVars, cmdVars, clientVars, arqVars,
                     tickQueue, processed, panic, historyVars>>
  BY DEF TickBegin
<1>2. Len(tickQueue) \in 0 .. TickSlots /\ Len(tickQueue) # 0 /\ processed = 0
  <2>1. tickQueue \in Seq(EntryType) /\ IsInjective(tickQueue) /\ processed = 0
    BY <1>1 DEF IndInv, Typed, EntriesKept
  <2>2. QED  BY <1>1, <2>1, TickRoom
<1>3. Typed'  BY <1>1, <1>2, SMTT(40) DEF IndInv, Typed, TypeOK
<1>4. EntriesKept'
  BY <1>1, <1>2 DEF IndInv, EntriesKept
<1>5. QED  BY <1>1, <1>3, <1>4, Stable DEF IndInv

(* TickCallback keeps the invariant.                                       *)
LEMMA TickCallbackKeeps ==
  ASSUME IndInv, TickCallback
  PROVE  IndInv'
<1> DEFINE e == tickQueue[processed + 1]
<1>1. /\ game = "idle" /\ processed < batch /\ processed' = processed + 1
      /\ IF e.bank = None
         THEN ReturnBuffer(e.buffer)
         ELSE loading' = [loading EXCEPT ![e.bank] = FALSE]
              /\ UNCHANGED <<bufferFree, game>>
      /\ UNCHANGED <<poolVars, fileRead, readFree, cur, cmdVars, pending, arqVars,
                     tickQueue, batch, panic, historyVars>>
  BY DEF TickCallback
<1>2. /\ tickQueue \in Seq(EntryType) /\ IsInjective(tickQueue)
      /\ processed \in Nat /\ batch \in Nat /\ batch <= Len(tickQueue)
      /\ batch \in 0 .. TickSlots
      /\ bufferFree \in [Buffers -> BOOLEAN] /\ loading \in [Banks -> BOOLEAN]
  BY DEF IndInv, Typed, TypeOK, EntriesKept
<1>3. processed + 1 \in 1 .. Len(tickQueue) /\ e \in EntryType
  BY <1>1, <1>2
<1>4. \A i \in 1 .. Len(tickQueue) : tickQueue[i] = e => i = processed + 1
  BY <1>2, <1>3, SetView
<1> HIDE DEF e
<1>5. cur = NoService /\ cur' = NoService  BY <1>1 DEF IndInv, InService
<1>6. /\ game' \in {"idle", "service"} /\ processed' \in 0 .. batch
      /\ InService'
  BY <1>1, <1>2, <1>5 DEF ReturnBuffer, InService
<1>7. \A i \in 1 .. Len(tickQueue) : tickQueue[i] \in EntryType
  BY <1>2
<1>8. EntriesKept'
  BY <1>1, <1>2 DEF IndInv, EntriesKept
<1>9. CASE e.bank = None
  <2> DEFINE b == e.buffer
  <2>1. b \in Buffers /\ e = [buffer |-> b, bank |-> None]
    BY <1>3, <1>9 DEF EntryType, Clients
  <2>2. /\ bufferFree' = [bufferFree EXCEPT ![b] = TRUE] /\ loading' = loading
    BY <1>1, <1>9 DEF ReturnBuffer
  <2>3. Returning(b)
    <3>1. processed + 1 \in processed + 1 .. Len(tickQueue)
          /\ tickQueue[processed + 1].buffer = b
      BY <1>2, <1>3 DEF e
    <3>2. QED  BY <3>1 DEF Returning
  <2>4. \A i \in 1 .. Len(tickQueue) : tickQueue[i].buffer = b => tickQueue[i] = e
    BY <1>7, <2>1 DEF EntryType
  <2>5. \A a \in Buffers : Returning(a)' <=> Returning(a) /\ a # b
    <3>1. ASSUME NEW a \in Buffers, Returning(a)' PROVE Returning(a) /\ a # b
      <4>1. PICK i \in processed + 2 .. Len(tickQueue) : tickQueue[i].buffer = a
        BY <1>1, <1>2, <3>1 DEF Returning
      <4>2. i \in processed + 1 .. Len(tickQueue) /\ i \in 1 .. Len(tickQueue)
            /\ i # processed + 1
        BY <1>2, <4>1
      <4>3. QED  BY <1>4, <2>4, <4>1, <4>2 DEF Returning
    <3>2. ASSUME NEW a \in Buffers, Returning(a), a # b PROVE Returning(a)'
      <4>1. PICK i \in processed + 1 .. Len(tickQueue) : tickQueue[i].buffer = a
        BY <3>2 DEF Returning
      <4>2. i # processed + 1  BY <3>2, <4>1 DEF e
      <4>3. i \in processed' + 1 .. Len(tickQueue')  BY <1>1, <1>2, <4>1, <4>2
      <4>4. QED  BY <1>1, <4>1, <4>3 DEF Returning
    <3>3. QED  BY <3>1, <3>2
  <2> HIDE DEF b
  <2>6. Typed'
    BY <1>1, <1>2, <1>6, <2>1, <2>2 DEF IndInv, Typed, TypeOK
  <2>7. BuffersKept'
    <3>1. ASSUME NEW a \in Buffers PROVE BufferKept(a)'
      <4>1. BufferKept(a) /\ BufferKept(b)  BY <2>1 DEF IndInv, BuffersKept
      <4>2. bufferFree'[a] <=> bufferFree[a] \/ a = b
        BY <1>2, <2>1, <2>2
      <4>3. (Returning(a)' <=> Returning(a) /\ a # b) /\ InRead(a)' = InRead(a)
        BY <1>1, <2>5 DEF InRead
      <4>4. upload[a].transfers \in 0 .. 2 /\ upload' = upload /\ cur' = cur
        BY <1>1 DEF IndInv, Typed, UploadType
      <4>5. QED  BY <2>3, <4>1, <4>2, <4>3, <4>4 DEF BufferKept
    <3>2. QED  BY <1>1, <3>1 DEF IndInv, BuffersKept
  <2>8. ReadingApart'
    <3>1. \A c \in Commands : cmd[c].state = "reading" => cmd[c].buffer \in Buffers
      BY DEF IndInv, CommandsKept, CommandKept
    <3>2. QED  BY <1>1, <2>5, <3>1 DEF IndInv, ReadingApart
  <2>9. BanksKept'
    <3>1. ASSUME NEW c \in Banks PROVE Ending(c)' => Ending(c)
      BY <1>1, <1>2 DEF Ending
    <3>2. \A c : Requested(c)' = Requested(c) /\ LastUpload(c)' = LastUpload(c)
      BY <1>1 DEF Requested, LastUpload
    <3>3. QED  BY <1>1, <2>2, <3>1, <3>2 DEF IndInv, BanksKept
  <2>10. QED
    BY <1>1, <1>6, <1>8, <2>6, <2>7, <2>8, <2>9, Stable DEF IndInv
<1>10. CASE e.bank # None
  <2>1. PICK k \in Banks : e = [buffer |-> None, bank |-> k]
    BY <1>3, <1>10 DEF EntryType
  <2>2. /\ loading' = [loading EXCEPT ![k] = FALSE]
        /\ bufferFree' = bufferFree /\ game' = game
    BY <1>1, <1>10, <2>1
  <2>3. \A a \in Buffers : Returning(a)' <=> Returning(a)
    <3>1. ASSUME NEW a \in Buffers, Returning(a)' PROVE Returning(a)
      BY <1>1, <1>2, <3>1 DEF Returning
    <3>2. ASSUME NEW a \in Buffers, Returning(a) PROVE Returning(a)'
      <4>1. PICK i \in processed + 1 .. Len(tickQueue) : tickQueue[i].buffer = a
        BY <3>2 DEF Returning
      <4>2. i # processed + 1
        BY <2>1, <4>1 DEF e, Buffers
      <4>3. i \in processed' + 1 .. Len(tickQueue')  BY <1>1, <1>2, <4>1, <4>2
      <4>4. QED  BY <1>1, <4>1, <4>3 DEF Returning
    <3>3. QED  BY <3>1, <3>2
  <2>4. /\ Ending(k) /\ ~Ending(k)'
        /\ \A c \in Banks : Ending(c)' => Ending(c)
    <3>1. \A i \in 1 .. Len(tickQueue) : tickQueue[i].bank = k => tickQueue[i] = e
      BY <1>7, <2>1 DEF EntryType, Clients
    <3>2. Ending(k)
      <4>1. processed + 1 \in processed + 1 .. Len(tickQueue)
            /\ tickQueue[processed + 1].bank = k
        BY <1>2, <1>3, <2>1 DEF e
      <4>2. QED  BY <4>1 DEF Ending
    <3>3. \A c \in Banks : Ending(c)' => Ending(c)
      BY <1>1, <1>2 DEF Ending
    <3>4. ASSUME Ending(k)' PROVE FALSE
      <4>1. PICK i \in processed + 1 + 1 .. Len(tickQueue) : tickQueue[i].bank = k
        BY <1>1, <3>4 DEF Ending
      <4>2. i \in 1 .. Len(tickQueue) /\ i # processed + 1  BY <1>2, <4>1
      <4>3. QED  BY <1>4, <3>1, <4>1, <4>2
    <3>5. QED  BY <3>2, <3>3, <3>4
  <2>5. ~Requested(k) /\ ~LastUpload(k)
    <3>1. tickQueue[processed + 1].bank = k  BY <2>1 DEF e
    <3>2. QED
      BY <1>3, <1>10, <2>1, <2>4, <3>1 DEF IndInv, BanksKept, EntriesKept, LastUpload
  <2>6. Typed'
    BY <1>1, <1>2, <1>6, <2>1, <2>2 DEF IndInv, Typed, TypeOK
  <2>7. BuffersKept'
    <3>1. \A a \in Buffers : InRead(a)' = InRead(a)  BY <1>1 DEF InRead
    <3>2. QED  BY <1>1, <2>2, <2>3, <3>1 DEF IndInv, BuffersKept, BufferKept
  <2>8. ReadingApart'
    <3>1. \A c \in Commands : cmd[c].state = "reading" => cmd[c].buffer \in Buffers
      BY DEF IndInv, CommandsKept, CommandKept
    <3>2. QED  BY <1>1, <2>3, <3>1 DEF IndInv, ReadingApart
  <2>9. BanksKept'
    <3>1. \A c : Requested(c)' = Requested(c) /\ LastUpload(c)' = LastUpload(c)
      BY <1>1 DEF Requested, LastUpload
    <3>2. \A c \in Banks : c # k => loading'[c] = loading[c]
      BY <1>2, <2>1, <2>2
    <3>3. ASSUME NEW c \in Banks
          PROVE  /\ Requested(c)' \/ LastUpload(c)' \/ Ending(c)' => loading'[c]
                 /\ LastUpload(c)' \/ Ending(c)' => ~Requested(c)'
      BY <2>4, <2>5, <3>1, <3>2 DEF IndInv, BanksKept
    <3>4. QED  BY <1>1, <3>3 DEF IndInv, BanksKept
  <2>10. QED
    BY <1>1, <1>6, <1>8, <2>6, <2>7, <2>8, <2>9, Stable DEF IndInv
<1>11. QED  BY <1>9, <1>10

(* TickEnd keeps the invariant.                                            *)
LEMMA TickEndKeeps ==
  ASSUME IndInv, TickEnd
  PROVE  IndInv'
<1> DEFINE s == tickQueue
           t == SubSeq(tickQueue, batch + 1, Len(tickQueue))
<1>1. /\ batch > 0 /\ processed = batch
      /\ tickQueue' = t /\ batch' = 0 /\ processed' = 0
      /\ UNCHANGED <<poolVars, readVars, gameVars, cmdVars, clientVars, arqVars,
                     panic, historyVars>>
  BY DEF TickEnd
<1>2. /\ s \in Seq(EntryType) /\ IsInjective(s)
      /\ batch \in Nat /\ batch <= Len(s) /\ Len(s) \in Nat
  BY DEF IndInv, Typed, TypeOK, EntriesKept
<1>3. /\ t \in Seq(EntryType) /\ Len(t) = Len(s) - batch
      /\ \A i \in 1 .. Len(s) - batch : t[i] = s[i + batch]
  BY <1>2
<1> HIDE DEF t
<1>4. Typed'  BY <1>1, <1>3, SMTT(40) DEF IndInv, Typed, TypeOK
<1>5. \A b : Returning(b)' <=> Returning(b)
  <2>1. ASSUME NEW b, Returning(b)' PROVE Returning(b)
    <3>1. PICK i \in 1 .. Len(t) : t[i].buffer = b  BY <1>1, <2>1 DEF Returning
    <3>2. i + batch \in processed + 1 .. Len(s) /\ s[i + batch].buffer = b
      BY <1>1, <1>2, <1>3, <3>1
    <3>3. QED  BY <3>2 DEF Returning
  <2>2. ASSUME NEW b, Returning(b) PROVE Returning(b)'
    <3>1. PICK i \in processed + 1 .. Len(s) : s[i].buffer = b  BY <2>2 DEF Returning
    <3>2. i - batch \in 1 .. Len(t) /\ t[i - batch].buffer = b
      <4>1. i - batch \in 1 .. Len(t) /\ (i - batch) + batch = i
        BY <1>1, <1>2, <1>3, <3>1
      <4>2. QED  BY <1>3, <3>1, <4>1
    <3>3. QED  BY <1>1, <3>2 DEF Returning
  <2>3. QED  BY <2>1, <2>2
<1>6. \A c : Ending(c)' <=> Ending(c)
  <2>1. ASSUME NEW c, Ending(c)' PROVE Ending(c)
    <3>1. PICK i \in 1 .. Len(t) : t[i].bank = c  BY <1>1, <2>1 DEF Ending
    <3>2. i + batch \in processed + 1 .. Len(s) /\ s[i + batch].bank = c
      BY <1>1, <1>2, <1>3, <3>1
    <3>3. QED  BY <3>2 DEF Ending
  <2>2. ASSUME NEW c, Ending(c) PROVE Ending(c)'
    <3>1. PICK i \in processed + 1 .. Len(s) : s[i].bank = c  BY <2>2 DEF Ending
    <3>2. i - batch \in 1 .. Len(t) /\ t[i - batch].bank = c
      <4>1. i - batch \in 1 .. Len(t) /\ (i - batch) + batch = i
        BY <1>1, <1>2, <1>3, <3>1
      <4>2. QED  BY <1>3, <3>1, <4>1
    <3>3. QED  BY <1>1, <3>2 DEF Ending
  <2>3. QED  BY <2>1, <2>2
<1>7. ReadingApart'  BY <1>1, <1>5 DEF IndInv, ReadingApart
<1>8. BuffersKept'
  <2>1. \A a \in Buffers : InRead(a)' = InRead(a)  BY <1>1 DEF InRead
  <2>2. QED  BY <1>1, <1>5, <2>1 DEF IndInv, BuffersKept, BufferKept
<1>9. EntriesKept'
  <2>1. ASSUME NEW i \in 1 .. Len(t), NEW k \in 1 .. Len(t), t[i] = t[k] PROVE i = k
    <3>1. /\ i + batch \in 1 .. Len(s) /\ k + batch \in 1 .. Len(s)
          /\ s[i + batch] = s[k + batch]
      BY <1>2, <1>3, <2>1
    <3>2. i + batch = k + batch  BY <1>2, <3>1, SetView
    <3>3. QED  BY <1>2, <1>3, <3>2
  <2>2. IsInjective(t)  BY <1>3, <2>1, SetView
  <2>3. \A i \in 1 .. Len(t) : i + batch \in 1 .. Len(s) /\ t[i] = s[i + batch]
    BY <1>2, <1>3
  <2>4. ASSUME NEW i \in 1 .. Len(t)
        PROVE  /\ t[i].buffer # None => upload[t[i].buffer].transfers = 0
               /\ t[i].bank # None =>
                    \A b \in Buffers : upload[b].last => upload[b].client # t[i].bank
    BY <2>3 DEF IndInv, EntriesKept
  <2>5. Len(t) \in Nat  BY <1>3
  <2>6. QED  BY <1>1, <2>2, <2>4, <2>5 DEF EntriesKept
<1>10. BanksKept'
  <2>1. \A c : Requested(c)' = Requested(c) /\ LastUpload(c)' = LastUpload(c)
    BY <1>1 DEF Requested, LastUpload
  <2>2. QED  BY <1>1, <1>6, <2>1 DEF IndInv, BanksKept
<1>11. QED
  BY <1>1, <1>4, <1>7, <1>8, <1>9, <1>10, Stable DEF IndInv

----------------------------------------------------------------------------
(* The ends of reads and of transfers.                                     *)

(* DroppedRead keeps the invariant.                                        *)
LEMMA DroppedReadKeeps ==
  ASSUME IndInv, DroppedRead
  PROVE  IndInv'
<1>1. PICK c : c = Head(cmds)  OBVIOUS
<1>2. /\ cmds # <<>> /\ cmd[c].state = "finished" /\ ~Current(c)
      /\ cmd' = [cmd EXCEPT ![c] = NoCommand] /\ cmds' = Tail(cmds)
      /\ UNCHANGED <<poolVars, readVars, gameVars, clientVars, arqVars, tickVars, panic,
                     historyVars>>
  BY <1>1 DEF DroppedRead
<1>3. /\ cmds \in Seq(Commands) /\ IsInjective(cmds) /\ Len(cmds) \in Nat
      /\ cmd \in [Commands -> [state : {"free", "waiting", "reading", "finished"},
                               read : FileReads \cup {None},
                               buffer : Buffers \cup {None}, dropped : BOOLEAN]]
  BY DEF IndInv, Typed, TypeOK, CommandsKept
<1>4. /\ c \in Commands /\ cmds' \in Seq(Commands) /\ IsInjective(cmds')
      /\ ToSet(cmds) = {c} \cup ToSet(cmds') /\ c \notin ToSet(cmds')
  BY <1>1, <1>2, <1>3, ElemsTail
<1>5. /\ Len(cmds') = Len(cmds) - 1
      /\ \A i \in 1 .. Len(cmds') : i + 1 \in 1 .. Len(cmds) /\ cmds'[i] = cmds[i + 1]
  BY <1>2, <1>3
<1>6. /\ cmd'[c] = NoCommand /\ \A e \in Commands : e # c => cmd'[e] = cmd[e]
  BY <1>2, <1>3, <1>4
<1>7. cmd[c].dropped /\ \A d \in FileReads : fileRead[d].command # c
  <2>1. ASSUME NEW d \in FileReads, fileRead[d].command = c PROVE FALSE
    <3>1. fileRead[d] # NoRead  BY <1>4, <2>1 DEF NoRead
    <3>2. cmd[c].read = d  BY <2>1, <3>1 DEF IndInv, CommandsKept
    <3>3. QED  BY <1>2, <2>1, <3>2 DEF Current
  <2>2. QED  BY <1>2, <1>4, <2>1 DEF IndInv, CommandsKept, CommandKept
<1>8. Typed'
  BY <1>2, <1>3, <1>4 DEF IndInv, Typed, TypeOK, NoCommand
<1>9. CommandsKept'
  <2>1. ASSUME NEW e \in Commands PROVE CommandKept(e)'
    <3>1. CASE e = c
      BY <1>4, <1>6, <3>1 DEF CommandKept, NoCommand
    <3>2. CASE e # c
      BY <1>2, <1>4, <1>6, <3>2 DEF IndInv, CommandsKept, CommandKept, Current
    <3>3. QED  BY <3>1, <3>2
  <2>2. ASSUME NEW d \in FileReads, fileRead[d] # NoRead
        PROVE  /\ cmd'[fileRead[d].command].state # "free"
               /\ cmd'[fileRead[d].command].read = d
               /\ cmd'[fileRead[d].command].buffer = fileRead[d].buffer
    <3>1. fileRead[d].command \in Commands
      BY <2>2 DEF IndInv, Typed, TypeOK, RecordsKept, RecordKept
    <3>2. QED  BY <1>6, <1>7, <2>2, <3>1 DEF IndInv, CommandsKept
  <2>3. QED  BY <1>2, <1>4, <2>1, <2>2 DEF CommandsKept
<1>10. InTurn'
  <2>1. \A i \in 1 .. Len(cmds') : cmds'[i] \in Commands /\ cmds'[i] # c
    BY <1>4, SetView, ElemsIn
  <2> SUFFICES ASSUME NEW m \in 1 .. Len(cmds'), NEW n \in 1 .. Len(cmds'), m < n,
                      cmd'[cmds'[n]].state \in {"reading", "finished"}
               PROVE  cmd'[cmds'[m]].state = "finished"
    BY DEF InTurn
  <2>2. m + 1 < n + 1 /\ cmd[cmds[n + 1]].state \in {"reading", "finished"}
    BY <1>3, <1>5, <1>6, <2>1
  <2>3. cmd[cmds[m + 1]].state = "finished"
    BY <1>5, <2>2 DEF IndInv, InTurn
  <2>4. QED  BY <1>5, <1>6, <2>1, <2>3
<1>11. ReadingApart'
  <2>1. \A e \in Commands : cmd'[e].state = "reading" => e # c
    BY <1>6 DEF NoCommand
  <2>2. ASSUME NEW e \in Commands, cmd[e].state = "reading", e # c,
               NEW d \in FileReads, fileRead[d].buffer = cmd[e].buffer
        PROVE  cmd'[fileRead[d].command].state # "finished"
    <3>1. cmd[e].buffer \in Buffers  BY <2>2 DEF IndInv, CommandsKept, CommandKept
    <3>2. fileRead[d] # NoRead  BY <2>2, <3>1 DEF NoRead
    <3>3. fileRead[d].command \in Commands
      BY <3>2 DEF IndInv, Typed, TypeOK, RecordsKept, RecordKept
    <3>4. QED  BY <1>6, <1>7, <2>2, <3>3 DEF IndInv, ReadingApart
  <2>3. QED  BY <1>2, <1>6, <2>1, <2>2 DEF IndInv, ReadingApart, Returning
<1>12. InOrder'
  <2> SUFFICES ASSUME NEW r \in Requests,
                      NEW i \in 1 .. Len(par[r].reads), NEW k \in 1 .. Len(par[r].reads),
                      NEW m \in 1 .. Len(cmds'), NEW n \in 1 .. Len(cmds'), i < k,
                      cmds'[m] = fileRead[par[r].reads[i]].command,
                      cmds'[n] = fileRead[par[r].reads[k]].command
               PROVE  m < n
    BY <1>2, SMTT(40) DEF InOrder
  <2>1. /\ m + 1 \in 1 .. Len(cmds) /\ n + 1 \in 1 .. Len(cmds)
        /\ cmds[m + 1] = fileRead[par[r].reads[i]].command
        /\ cmds[n + 1] = fileRead[par[r].reads[k]].command
    BY <1>5
  <2>2. m + 1 < n + 1  BY <2>1 DEF IndInv, InOrder
  <2>3. QED  BY <2>2
<1>13. QED
  BY <1>2, <1>8, <1>9, <1>10, <1>11, <1>12, Stable DEF IndInv

(* The end of one of two transfers from a buffer.                          *)
LEMMA ArqCompleteKeepsBoth ==
  ASSUME IndInv, NEW b \in Buffers, ArqComplete(b), upload[b].transfers > 1
  PROVE  IndInv'
<1>1. /\ arqFree' = arqFree + 1
      /\ upload' = [upload EXCEPT ![b].transfers = @ - 1]
      /\ UNCHANGED <<poolVars, readVars, gameVars, cmdVars, clientVars, tickVars, panic,
                     historyVars>>
  BY DEF ArqComplete, ReturnArq
<1>2. upload \in [Buffers -> UploadType]  BY DEF IndInv, Typed
<1>3. /\ upload' \in [Buffers -> UploadType]
      /\ \A a \in Buffers : /\ a # b => upload'[a] = upload[a]
                            /\ upload'[a].client = upload[a].client
                            /\ upload'[a].last = upload[a].last
      /\ upload'[b].transfers = upload[b].transfers - 1 /\ upload'[b].transfers > 0
  BY <1>1, <1>2 DEF UploadType
<1>4. Cardinality(Under') = Cardinality(Under) - 1 /\ Cardinality(Under') \in Nat
  <2>1. \A a \in Buffers : upload'[a].transfers = IF a = b THEN upload[a].transfers - 1
                                                           ELSE upload[a].transfers
    BY <1>3
  <2>2. upload[b].transfers > 0  BY <1>2 DEF UploadType
  <2>3. QED  BY <1>2, <2>1, <2>2, UnderEnds
<1>5. Cardinality(Under) \in 0 .. 2 * NumBuffers  BY <1>2, UnderRoom
<1>6. Cardinality(Under') \in 0 .. 2 * NumBuffers  BY <1>4, <1>5
<1>7. arqFree' = ArqSlots - Cardinality(Under') /\ arqFree' \in 0 .. ArqSlots
  BY <1>1, <1>4, <1>5, <1>6 DEF IndInv, UploadsKept
<1>8. Typed'  BY <1>1, <1>3, <1>7 DEF IndInv, Typed, TypeOK
<1>9. UploadsKept'
  <2>1. ASSUME NEW a \in Buffers PROVE UploadKept(a)'
    <3>1. UploadKept(a)  BY DEF IndInv, UploadsKept
    <3>2. CASE a = b  BY <1>2, <1>3, <3>1, <3>2 DEF UploadKept, UploadType
    <3>3. CASE a # b  BY <1>3, <3>1, <3>3 DEF UploadKept
    <3>4. QED  BY <3>2, <3>3
  <2>2. QED  BY <1>7, <2>1 DEF UploadsKept
<1>10. \A a \in Buffers : upload'[a].transfers = 0 <=> upload[a].transfers = 0
  BY <1>2, <1>3 DEF UploadType
<1>11. ReadingApart'
  <2>1. \A c \in Commands : cmd[c].state = "reading" => cmd[c].buffer \in Buffers
    BY DEF IndInv, CommandsKept, CommandKept
  <2>2. QED  BY <1>1, <1>10, <2>1 DEF IndInv, ReadingApart, Returning
<1>12. BuffersKept'
  <2>1. \A a \in Buffers : upload'[a].transfers > 0 <=> upload[a].transfers > 0
    BY <1>2, <1>3 DEF UploadType
  <2>2. \A a \in Buffers : InRead(a)' = InRead(a) /\ Returning(a)' = Returning(a)
    BY <1>1 DEF InRead, Returning
  <2>3. QED  BY <1>1, <1>10, <2>1, <2>2 DEF IndInv, BuffersKept, BufferKept
<1>13. EntriesKept'
  <2>1. tickQueue \in Seq(EntryType)  BY DEF IndInv, Typed
  <2>2. \A i \in 1 .. Len(tickQueue) :
          tickQueue[i].buffer # None => tickQueue[i].buffer \in Buffers
    BY <2>1 DEF EntryType
  <2>3. QED  BY <1>1, <1>3, <1>10, <2>2 DEF IndInv, EntriesKept
<1>14. BanksKept'
  <2>1. \A c : /\ Requested(c)' = Requested(c) /\ Ending(c)' = Ending(c)
               /\ LastUpload(c)' <=> LastUpload(c)
    BY <1>1, <1>3 DEF Requested, Ending, LastUpload
  <2>2. QED  BY <1>1, <1>3, <2>1 DEF IndInv, BanksKept
<1>15. QED
  BY <1>1, <1>8, <1>9, <1>11, <1>12, <1>13, <1>14, Stable DEF IndInv

(* What an upload's end leaves for mslTick is not waiting there yet.       *)
LEMMA NewEntries ==
  ASSUME IndInv, NEW b \in Buffers, upload[b].transfers > 0
  PROVE  LET bank == upload[b].last /\ upload[b].client \in Banks
             entry == [buffer |-> b, bank |-> None]
             after == [buffer |-> None, bank |-> upload[b].client]
             q == tickQueue \o Entries(b)
         IN  /\ q \in Seq(EntryType) /\ IsInjective(q)
             /\ Len(q) = Len(tickQueue) + (IF bank THEN 2 ELSE 1)
             /\ \A i \in 1 .. Len(tickQueue) : q[i] = tickQueue[i]
             /\ q[Len(tickQueue) + 1] = entry
             /\ bank => q[Len(tickQueue) + 2] = after
<1> DEFINE bank == upload[b].last /\ upload[b].client \in Banks
           entry == [buffer |-> b, bank |-> None]
           after == [buffer |-> None, bank |-> upload[b].client]
           s == tickQueue
<1>1. s \in Seq(EntryType) /\ IsInjective(s) /\ Len(s) \in Nat
  BY DEF IndInv, Typed, EntriesKept
<1>2. entry \in EntryType /\ (bank => after \in EntryType)
  BY DEF EntryType
<1>3. ToSet(s) = {s[i] : i \in 1 .. Len(s)}  BY <1>1, SetView
<1>4. entry \notin ToSet(s)
  <2>1. ASSUME NEW i \in 1 .. Len(s), s[i] = entry PROVE FALSE
    <3>1. s[i].buffer = b  BY <2>1
    <3>2. upload[b].transfers = 0  BY <3>1 DEF IndInv, EntriesKept, Buffers
    <3>3. QED  BY <3>2
  <2>2. QED  BY <1>3, <2>1
<1>5. bank => after \notin ToSet(s) \cup {entry}
  <2> SUFFICES ASSUME bank PROVE after \notin ToSet(s) \cup {entry}
    OBVIOUS
  <2>1. ASSUME NEW i \in 1 .. Len(s), s[i] = after PROVE FALSE
    <3>1. s[i].bank = upload[b].client /\ s[i].bank # None  BY <2>1 DEF Clients
    <3>2. QED  BY <3>1 DEF IndInv, EntriesKept
  <2>2. after # entry  BY DEF Buffers
  <2>3. QED  BY <1>3, <2>1, <2>2
<1> DEFINE t == Append(s, entry)
           u == Append(t, after)
<1>6. /\ t \in Seq(EntryType) /\ ToSet(t) = ToSet(s) \cup {entry} /\ IsInjective(t)
  BY <1>1, <1>2, <1>4, ElemsAppend
<1>7. bank => u \in Seq(EntryType) /\ IsInjective(u)
  <2> HIDE DEF t, entry, after, bank
  <2>1. QED  BY <1>2, <1>5, <1>6, ElemsAppend
<1>8. ~bank => s \o Entries(b) = t
  <2>1. ~bank => Entries(b) = <<entry>> \o <<>>  BY DEF Entries
  <2> HIDE DEF entry, bank
  <2>2. <<entry>> \o <<>> = <<entry>>  BY <1>2
  <2>3. s \o <<entry>> = Append(s, entry)  BY <1>1, <1>2
  <2>4. QED  BY <2>1, <2>2, <2>3
<1>9. bank => s \o Entries(b) = u
  <2> SUFFICES ASSUME bank PROVE s \o Entries(b) = u
    OBVIOUS
  <2>1. Entries(b) = <<entry>> \o <<after>>  BY DEF Entries
  <2> HIDE DEF entry, after
  <2>2. <<entry>> \in Seq(EntryType) /\ <<after>> \in Seq(EntryType)  BY <1>2
  <2>3. (s \o <<entry>>) \o <<after>> = s \o (<<entry>> \o <<after>>)
    BY <1>1, <2>2, ConcatAssociative
  <2>4. s \o <<entry>> = t /\ t \o <<after>> = u
    BY <1>1, <1>2, <1>6, AppendIsConcat
  <2>5. QED  BY <2>1, <2>3, <2>4
<1>10. /\ Len(t) = Len(s) + 1 /\ t[Len(s) + 1] = entry
       /\ \A i \in 1 .. Len(s) : t[i] = s[i]
  <2> HIDE DEF entry
  <2>1. QED  BY <1>1, <1>2
<1>11. bank => /\ Len(u) = Len(s) + 2 /\ u[Len(s) + 2] = after
               /\ u[Len(s) + 1] = entry /\ \A i \in 1 .. Len(s) : u[i] = s[i]
  <2> HIDE DEF entry, after, bank, t
  <2>1. QED  BY <1>1, <1>2, <1>6, <1>10
<1>12. QED
  BY <1>6, <1>7, <1>8, <1>9, <1>10, <1>11

(* The end of a buffer's last transfer.                                    *)
LEMMA ArqCompleteKeepsLast ==
  ASSUME IndInv, NEW b \in Buffers, ArqComplete(b), upload[b].transfers = 1
  PROVE  IndInv'
<1> DEFINE bank == upload[b].last /\ upload[b].client \in Banks
           q == tickQueue \o Entries(b)
           s == tickQueue
<1>1. /\ q \in Seq(EntryType) /\ IsInjective(q)
      /\ Len(q) = Len(s) + (IF bank THEN 2 ELSE 1)
      /\ \A i \in 1 .. Len(s) : q[i] = s[i]
      /\ q[Len(s) + 1] = [buffer |-> b, bank |-> None]
      /\ bank => q[Len(s) + 2] = [buffer |-> None, bank |-> upload[b].client]
  BY NewEntries, SMTT(40)
<1>2. Len(q) <= TickSlots  BY <1>1, TickRoom
<1>3. /\ arqFree' = arqFree + 1
      /\ upload' = [upload EXCEPT ![b] = NoUpload]
      /\ tickQueue' = q
      /\ UNCHANGED <<poolVars, readVars, gameVars, cmdVars, clientVars, batch, processed,
                     panic, historyVars>>
  BY <1>2 DEF ArqComplete, ReturnArq, TickCallBackQueue
<1> HIDE DEF q
<1>4. /\ upload \in [Buffers -> UploadType] /\ s \in Seq(EntryType) /\ Len(s) \in Nat
      /\ batch \in Nat /\ processed \in Nat /\ processed <= batch /\ batch <= Len(s)
  BY DEF IndInv, Typed, TypeOK, EntriesKept
<1>5. /\ upload' \in [Buffers -> UploadType]
      /\ \A a \in Buffers : a # b => upload'[a] = upload[a]
      /\ upload'[b] = NoUpload
  BY <1>3, <1>4 DEF UploadType, NoUpload
<1>6. Cardinality(Under') = Cardinality(Under) - 1 /\ Cardinality(Under') \in Nat
  <2>1. \A a \in Buffers : upload'[a].transfers = IF a = b THEN upload[a].transfers - 1
                                                           ELSE upload[a].transfers
    BY <1>5 DEF NoUpload
  <2>2. QED  BY <1>4, <2>1, UnderEnds
<1>7. arqFree' = ArqSlots - Cardinality(Under') /\ arqFree' \in 0 .. ArqSlots
  <2>1. Cardinality(Under) \in 0 .. 2 * NumBuffers  BY <1>4, UnderRoom
  <2>2. QED  BY <1>3, <1>6, <2>1 DEF IndInv, UploadsKept
<1>8. Typed'  BY <1>1, <1>3, <1>5, <1>7 DEF IndInv, Typed, TypeOK
<1>9. UploadsKept'
  <2>1. ASSUME NEW a \in Buffers PROVE UploadKept(a)'
    BY <1>5 DEF IndInv, UploadsKept, UploadKept, NoUpload
  <2>2. QED  BY <1>7, <2>1 DEF UploadsKept
<1>10. ASSUME NEW a \in Buffers PROVE Returning(a)' <=> Returning(a) \/ a = b
  <2>1. ASSUME Returning(a)' PROVE Returning(a) \/ a = b
    <3>1. PICK i \in processed + 1 .. Len(q) : q[i].buffer = a
      BY <1>3, <2>1 DEF Returning
    <3>2. CASE i <= Len(s)
      <4>1. i \in processed + 1 .. Len(s) /\ s[i].buffer = a  BY <1>1, <1>4, <3>1, <3>2
      <4>2. QED  BY <4>1 DEF Returning
    <3>3. CASE i = Len(s) + 1  BY <1>1, <3>1, <3>3
    <3>4. CASE i > Len(s) + 1
      <4>1. bank /\ i = Len(s) + 2  BY <1>1, <1>4, <3>1, <3>4
      <4>2. q[i].buffer = None  BY <1>1, <4>1
      <4>3. QED  BY <3>1, <4>2 DEF Buffers
    <3>5. QED  BY <1>4, <3>1, <3>2, <3>3, <3>4, SMTT(40)
  <2>2. ASSUME Returning(a) PROVE Returning(a)'
    <3>1. PICK i \in processed + 1 .. Len(s) : s[i].buffer = a
      BY <2>2 DEF Returning
    <3>2. i \in processed + 1 .. Len(q) /\ q[i].buffer = a  BY <1>1, <1>4, <3>1
    <3>3. QED  BY <1>3, <3>2 DEF Returning
  <2>3. ASSUME a = b PROVE Returning(a)'
    <3>1. Len(s) + 1 \in processed + 1 .. Len(q) /\ q[Len(s) + 1].buffer = a
      BY <1>1, <1>4, <2>3
    <3>2. QED  BY <1>3, <3>1 DEF Returning
  <2>4. QED  BY <2>1, <2>2, <2>3
<1>11. ASSUME NEW c \in Banks
       PROVE  Ending(c)' <=> Ending(c) \/ (bank /\ c = upload[b].client)
  <2>1. ASSUME Ending(c)' PROVE Ending(c) \/ (bank /\ c = upload[b].client)
    <3>1. PICK i \in processed + 1 .. Len(q) : q[i].bank = c
      BY <1>3, <2>1 DEF Ending
    <3>2. CASE i <= Len(s)
      <4>1. i \in processed + 1 .. Len(s) /\ s[i].bank = c  BY <1>1, <1>4, <3>1, <3>2
      <4>2. QED  BY <4>1 DEF Ending
    <3>3. CASE i = Len(s) + 1
      <4>1. q[i].bank = None  BY <1>1, <3>3
      <4>2. QED  BY <3>1, <4>1 DEF Clients
    <3>4. CASE i > Len(s) + 1
      <4>1. bank /\ i = Len(s) + 2  BY <1>1, <1>4, <3>1, <3>4
      <4>2. q[i].bank = upload[b].client  BY <1>1, <4>1
      <4>3. QED  BY <3>1, <4>1, <4>2
    <3>5. QED  BY <1>4, <3>1, <3>2, <3>3, <3>4
  <2>2. ASSUME Ending(c) PROVE Ending(c)'
    <3>1. PICK i \in processed + 1 .. Len(s) : s[i].bank = c
      BY <2>2 DEF Ending
    <3>2. i \in processed + 1 .. Len(q) /\ q[i].bank = c  BY <1>1, <1>4, <3>1
    <3>3. QED  BY <1>3, <3>2 DEF Ending
  <2>3. ASSUME bank, c = upload[b].client PROVE Ending(c)'
    <3>1. Len(s) + 2 \in processed + 1 .. Len(q) /\ q[Len(s) + 2].bank = c
      BY <1>1, <1>4, <2>3
    <3>2. QED  BY <1>3, <3>1 DEF Ending
  <2>4. QED  BY <2>1, <2>2, <2>3
<1>12. ASSUME NEW c \in Banks
       PROVE  LastUpload(c)' <=> LastUpload(c) /\ ~(bank /\ c = upload[b].client)
  <2>1. ASSUME LastUpload(c)' PROVE LastUpload(c) /\ ~(bank /\ c = upload[b].client)
    <3>1. PICK a \in Buffers : upload'[a].client = c /\ upload'[a].last
      BY <2>1 DEF LastUpload
    <3>2. a # b  BY <1>5, <3>1 DEF NoUpload
    <3>3. upload[a].client = c /\ upload[a].last  BY <1>5, <3>1, <3>2
    <3>4. QED  BY <3>2, <3>3 DEF IndInv, BanksKept, LastUpload
  <2>2. ASSUME LastUpload(c), ~(bank /\ c = upload[b].client) PROVE LastUpload(c)'
    <3>1. PICK a \in Buffers : upload[a].client = c /\ upload[a].last
      BY <2>2 DEF LastUpload
    <3>2. a # b  BY <2>2, <3>1
    <3>3. QED  BY <1>5, <3>1, <3>2 DEF LastUpload
  <2>3. QED  BY <2>1, <2>2
<1>13. ReadingApart'
  <2>1. ASSUME NEW c \in Commands, cmd[c].state = "reading"
        PROVE  /\ upload'[cmd[c].buffer].transfers = 0 /\ ~Returning(cmd[c].buffer)'
    <3> DEFINE a == cmd[c].buffer
    <3>1. a \in Buffers /\ upload[a].transfers = 0 /\ ~Returning(a)
      BY <2>1 DEF IndInv, CommandsKept, CommandKept, ReadingApart
    <3>2. a # b  BY <3>1
    <3>3. cmd' = cmd  BY <1>3
    <3>4. QED  BY <1>5, <1>10, <3>1, <3>2, <3>3
  <2>2. QED  BY <1>3, <2>1 DEF IndInv, ReadingApart
<1>14. BuffersKept'
  <2>1. ASSUME NEW a \in Buffers PROVE BufferKept(a)'
    <3>1. BufferKept(a)  BY DEF IndInv, BuffersKept
    <3>2. InRead(a)' = InRead(a) /\ bufferFree' = bufferFree /\ cur' = cur
      BY <1>3 DEF InRead
    <3>3. CASE a = b  BY <1>5, <1>10, <3>1, <3>2, <3>3 DEF BufferKept, NoUpload
    <3>4. CASE a # b  BY <1>5, <1>10, <3>1, <3>2, <3>4 DEF BufferKept
    <3>5. QED  BY <3>3, <3>4
  <2>2. QED  BY <1>3, <2>1 DEF IndInv, BuffersKept
<1>15. EntriesKept'
  <2> SUFFICES ASSUME NEW i \in 1 .. Len(q)
               PROVE  /\ q[i].buffer # None => upload'[q[i].buffer].transfers = 0
                      /\ q[i].bank # None =>
                           \A a \in Buffers : upload'[a].last =>
                                                upload'[a].client # q[i].bank
    BY <1>1, <1>3, <1>4, SMTT(40) DEF IndInv, EntriesKept
  <2>1. CASE i <= Len(s)
    <3>1. i \in 1 .. Len(s) /\ q[i] = s[i] /\ s[i] \in EntryType  BY <1>1, <1>4, <2>1
    <3>2. s[i].buffer # None => s[i].buffer \in Buffers  BY <3>1 DEF EntryType
    <3>3. \A a \in Buffers : upload[a].transfers = 0 => upload'[a].transfers = 0
      BY <1>5 DEF NoUpload
    <3>4. \A a \in Buffers : upload'[a].last => upload[a].last
                                                /\ upload'[a].client = upload[a].client
      BY <1>5 DEF NoUpload
    <3>5. QED  BY <3>1, <3>2, <3>3, <3>4, SMTT(40) DEF IndInv, EntriesKept
  <2>2. CASE i = Len(s) + 1
    BY <1>1, <1>5, <2>2 DEF NoUpload
  <2>3. CASE i > Len(s) + 1
    <3>1. bank /\ i = Len(s) + 2  BY <1>1, <1>4, <2>3
    <3>2. q[i].buffer = None /\ q[i].bank = upload[b].client  BY <1>1, <3>1
    <3>3. ASSUME NEW a \in Buffers, upload'[a].last, upload'[a].client = q[i].bank
          PROVE  FALSE
      <4>1. a # b /\ upload[a].last /\ upload[a].client = upload[b].client
        BY <1>5, <3>2, <3>3 DEF NoUpload
      <4>2. QED  BY <3>1, <4>1 DEF IndInv, BanksKept
    <3>4. QED  BY <3>2, <3>3
  <2>4. QED  BY <1>4, <2>1, <2>2, <2>3, SMTT(40)
<1>16. BanksKept'
  <2>1. \A c : Requested(c)' = Requested(c)  BY <1>3 DEF Requested
  <2>2. bank => LastUpload(upload[b].client)  BY DEF LastUpload
  <2>3. \A a \in Buffers : upload'[a].last => upload'[a] = upload[a]
    BY <1>5 DEF NoUpload
  <2>4. QED  BY <1>3, <1>11, <1>12, <2>1, <2>2, <2>3 DEF IndInv, BanksKept
<1>17. QED
  BY <1>3, <1>8, <1>9, <1>13, <1>14, <1>15, <1>16, Stable DEF IndInv

(* ArqComplete keeps the invariant.                                        *)
LEMMA ArqCompleteKeeps ==
  ASSUME IndInv, NEW b \in Buffers, ArqComplete(b)
  PROVE  IndInv'
<1>1. upload[b].transfers \in 0 .. 2  BY DEF IndInv, Typed, UploadType
<1>2. upload[b].transfers > 0  BY DEF ArqComplete
<1>3. QED  BY <1>1, <1>2, ArqCompleteKeepsBoth, ArqCompleteKeepsLast

----------------------------------------------------------------------------
(* Requests.                                                               *)

(* A client that may ask has no request.                                   *)
LEMMA AskerIdle ==
  ASSUME IndInv, NEW c \in Clients, MayAsk(c)
  PROVE  /\ ~Requested(c) /\ cur = NoService /\ batch = 0
         /\ c \in Banks => ~LastUpload(c) /\ ~Ending(c)
<1>1. CASE c \in Banks
  BY <1>1 DEF IndInv, BanksKept, MayAsk, InService
<1>2. CASE c \notin Banks
  <2>1. c \in Streams /\ pending[c] = None  BY <1>2 DEF MayAsk, Clients
  <2>2. ASSUME NEW r \in Requests, par[r].client = c PROVE FALSE
    <3>1. pending[c] = [index |-> r, generation |-> par[r].generation]
      BY <2>1, <2>2 DEF IndInv, HandlesKept
    <3>2. par[r].generation \in 0 .. Generations - 1
      BY DEF IndInv, Typed, TypeOK
    <3>3. None \in [index : Requests, generation : 0 .. Generations - 1]
      BY <2>1, <3>1, <3>2
    <3>4. QED  BY <3>3
  <2>3. QED  BY <1>2, <2>2 DEF IndInv, MayAsk, InService, Requested
<1>3. QED  BY <1>1, <1>2

LEMMA NewRequestTyped ==
  ASSUME NEW x \in RequestType, NEW c \in Clients, NEW n \in 0 .. MaxChunks,
         NEW k \in 0 .. MaxChunks + 1
  PROVE  [x EXCEPT !.in_use = TRUE, !.queued = TRUE, !.client = c, !.remaining = n,
                   !.next_chunk = k] \in RequestType
BY DEF RequestType

LEMMA ClearedTyped ==
  ASSUME NEW g \in 0 .. Generations - 1
  PROVE  Cleared(g) \in RequestType
BY DEF Cleared, RequestType

(* QueueRequest keeps the invariant.                                       *)
LEMMA QueueRequestKeeps ==
  ASSUME IndInv, NEW c \in Clients, NEW n \in 1 .. MaxChunks, QueueRequest(c, n)
  PROVE  IndInv'
<1> DEFINE new(g) == [Cleared(g) EXCEPT !.in_use = TRUE, !.queued = TRUE,
                                        !.client = c, !.remaining = n, !.next_chunk = 1]
<1>1. PICK r, g : r = Head(parFree) /\ g = (par[r].generation + 1) % Generations
  OBVIOUS
<1>2. /\ parFree # <<>>
      /\ par' = [par EXCEPT ![r] = new(g)]
      /\ parFree' = Tail(parFree) /\ parQueue' = Append(parQueue, r)
      /\ pending' = IF c \in Streams
                    THEN [pending EXCEPT ![c] = [index |-> r, generation |-> g]]
                    ELSE pending
      /\ loading' = [b \in Banks |-> loading[b] \/ b = c]
      /\ game = "idle" /\ game' = "service"
      /\ total' = [total EXCEPT ![c] = n] /\ got' = [got EXCEPT ![c] = 0]
      /\ UNCHANGED <<readVars, cur, cmdVars, arqVars, tickVars, panic>>
  BY <1>1 DEF QueueRequest, MayAsk
<1>3. /\ ~Requested(c) /\ cur = NoService
      /\ c \in Banks => ~LastUpload(c) /\ ~Ending(c)
  BY AskerIdle DEF QueueRequest
<1>4. /\ par \in [Requests -> RequestType] /\ parFree \in Seq(Requests)
      /\ parQueue \in Seq(Requests) /\ IsInjective(parFree) /\ IsInjective(parQueue)
      /\ total \in [Clients -> 0 .. MaxChunks] /\ got \in [Clients -> 0 .. MaxChunks]
      /\ pending \in [Clients -> Handles \cup {None}] /\ loading \in [Banks -> BOOLEAN]
  BY DEF IndInv, Typed, TypeOK, RequestsKept
<1>5. /\ r \in Requests /\ parFree' \in Seq(Requests)
      /\ ToSet(parFree) = {r} \cup ToSet(parFree')
      /\ IsInjective(parFree') /\ r \notin ToSet(parFree')
  BY <1>1, <1>2, <1>4, ElemsTail
<1>6. ~par[r].in_use /\ ~par[r].queued /\ r \notin ToSet(parQueue)
  BY <1>4, <1>5 DEF IndInv, RequestsKept, RequestKept, RequestType
<1>7. par[r].client = None /\ par[r].reads = <<>>
  <2>1. par[r] = Cleared(par[r].generation)
    BY <1>5, <1>6 DEF IndInv, RequestsKept, RequestKept
  <2>2. QED  BY <2>1 DEF Cleared
<1>8. /\ parQueue' \in Seq(Requests) /\ IsInjective(parQueue')
      /\ ToSet(parQueue') = ToSet(parQueue) \cup {r}
  BY <1>2, <1>4, <1>5, <1>6, ElemsAppend
<1>9. g \in 0 .. Generations - 1
  <2>1. par[r].generation \in Nat  BY <1>4, <1>5 DEF RequestType
  <2>2. QED  BY <1>1, <2>1
<1>10. /\ new(g).in_use /\ new(g).queued /\ ~new(g).final_issued
       /\ new(g).remaining = n /\ new(g).next_chunk = 1 /\ new(g).active_reads = 0
       /\ new(g).generation = g /\ new(g).client = c /\ new(g).reads = <<>>
  BY DEF Cleared
<1>11. new(g) \in RequestType
  <2>1. n \in 0 .. MaxChunks /\ 1 \in 0 .. MaxChunks + 1  OBVIOUS
  <2>2. QED  BY <1>9, <2>1, ClearedTyped, NewRequestTyped
<1>12. /\ par' \in [Requests -> RequestType] /\ par'[r] = new(g)
       /\ \A q \in Requests : q # r => par'[q] = par[q]
  BY <1>2, <1>4, <1>5, <1>11
<1> HIDE DEF new
<1>13. [index |-> r, generation |-> g] \in Handles  BY <1>5, <1>9 DEF Handles
<1>14. Typed'
  <2>1. pending' \in [Clients -> Handles \cup {None}]  BY <1>2, <1>4, <1>13
  <2>2. /\ loading' \in [Banks -> BOOLEAN]
        /\ total' \in [Clients -> 0 .. MaxChunks] /\ got' \in [Clients -> 0 .. MaxChunks]
    BY <1>2, <1>4
  <2>3. \A q \in Requests :
          /\ par'[q].active_reads \in 0 .. 3 /\ par'[q].remaining \in 0 .. MaxChunks
          /\ par'[q].generation \in 0 .. Generations - 1
          /\ par'[q].client \in Clients \cup {None} /\ par'[q].reads \in Seq(FileReads)
    BY <1>12 DEF RequestType
  <2>4. QED
    BY <1>2, <1>5, <1>8, <1>12, <2>1, <2>2, <2>3 DEF IndInv, Typed, TypeOK
<1>15. InService'
  BY <1>2, <1>3 DEF InService
<1>16. RequestsKept'
  <2>1. ASSUME NEW q \in Requests PROVE RequestKept(q)'
    <3>1. CASE q = r
      <4>1. cur'.request # r  BY <1>2, <1>3, <1>5 DEF NoService
      <4>2. QED
        BY <1>5, <1>8, <1>10, <1>12, <3>1, <4>1 DEF RequestKept, Started
    <3>2. CASE q # r
      <4>1. RequestKept(q)  BY DEF IndInv, RequestsKept
      <4>2. /\ q \in ToSet(parFree') <=> q \in ToSet(parFree)
            /\ q \in ToSet(parQueue') <=> q \in ToSet(parQueue)
        BY <1>5, <1>8, <3>2
      <4>3. par'[q] = par[q] /\ cur' = cur  BY <1>2, <1>12, <3>2
      <4>4. QED  BY <4>1, <4>2, <4>3 DEF RequestKept, Started
    <3>3. QED  BY <3>1, <3>2
  <2>2. QED  BY <1>5, <1>8, <2>1 DEF RequestsKept
<1>17. \A q \in Requests : par'[q].reads = par[q].reads
  BY <1>7, <1>10, <1>12
<1>18. RecordsKept'
  <2>1. ASSUME NEW d \in FileReads PROVE RecordKept(d)'
    <3>1. RecordKept(d)  BY DEF IndInv, RecordsKept
    <3>2. fileRead[d] # NoRead => fileRead[d].owner \in Requests
      BY <3>1 DEF RecordKept, IndInv, Typed, TypeOK
    <3>3. QED  BY <1>2, <1>17, <3>1, <3>2 DEF RecordKept, Linked
  <2>2. QED  BY <1>2, <1>17, <2>1 DEF IndInv, RecordsKept, Linked
<1>19. /\ \A k \in Clients : Requested(k)' <=> Requested(k) \/ k = c
       /\ ~Requested(c)
  BY <1>3, <1>5, <1>7, <1>10, <1>12 DEF Requested
<1>20. BanksKept'
  <2>1. ASSUME NEW b \in Banks
        PROVE  /\ LastUpload(b)' = LastUpload(b) /\ Ending(b)' = Ending(b)
               /\ b \in Clients /\ b \notin Streams
               /\ loading'[b] <=> loading[b] \/ b = c
    BY <1>2 DEF LastUpload, Ending, Clients
  <2>2. ASSUME NEW b \in Banks PROVE pending'[b] = None
    <3>1. pending[b] = None  BY DEF IndInv, BanksKept
    <3>2. QED  BY <1>2, <1>4, <2>1, <3>1
  <2>3. ASSUME NEW b \in Banks
        PROVE  /\ Requested(b)' \/ LastUpload(b)' \/ Ending(b)' => loading'[b]
               /\ LastUpload(b)' \/ Ending(b)' => ~Requested(b)'
    BY <1>3, <1>19, <2>1 DEF IndInv, BanksKept
  <2>4. QED  BY <1>2, <2>2, <2>3 DEF IndInv, BanksKept
<1>21. HandlesKept'
  <2>1. \A q \in Requests : par[q].client # c  BY <1>19 DEF Requested
  <2>2. ASSUME NEW p \in Requests, NEW q \in Requests, par'[p].client = par'[q].client
        PROVE  p = q \/ par'[p].client = None
    BY <1>7, <1>10, <1>12, <2>1, <2>2 DEF IndInv, HandlesKept
  <2>3. ASSUME NEW q \in Requests, par'[q].client \in Streams
        PROVE  pending'[par'[q].client] =
                 [index |-> q, generation |-> par'[q].generation]
    <3>1. CASE q = r  BY <1>2, <1>4, <1>10, <1>12, <2>3, <3>1
    <3>2. CASE q # r
      <4>1. par'[q] = par[q] /\ par[q].client # c  BY <1>12, <2>1, <3>2
      <4>2. pending'[par[q].client] = pending[par[q].client]
        BY <1>2, <1>4, <2>3, <4>1 DEF Clients
      <4>3. QED  BY <2>3, <4>1, <4>2 DEF IndInv, HandlesKept
    <3>3. QED  BY <3>1, <3>2
  <2>4. ASSUME NEW t \in Streams, pending'[t] # None
        PROVE  par'[pending'[t].index].client = t
    <3>1. CASE t = c  BY <1>2, <1>4, <1>10, <1>12, <2>4, <3>1 DEF Clients
    <3>2. CASE t # c
      <4>1. pending'[t] = pending[t]  BY <1>2, <1>4, <3>2 DEF Clients
      <4>2. pending[t].index \in Requests  BY <1>4, <2>4, <4>1 DEF Handles, Clients
      <4>3. par[pending[t].index].client = t
        BY <2>4, <4>1 DEF IndInv, HandlesKept
      <4>4. pending[t].index # r  BY <1>7, <4>3 DEF Clients
      <4>5. QED  BY <1>12, <4>1, <4>2, <4>3, <4>4
    <3>3. QED  BY <3>1, <3>2
  <2>5. QED  BY <2>2, <2>3, <2>4 DEF HandlesKept
<1>22. ChunksKept'
  <2>1. /\ total'[c] = n /\ got'[c] = 0
        /\ \A k \in Clients : k # c => total'[k] = total[k] /\ got'[k] = got[k]
    BY <1>2, <1>4
  <2>2. \A k \in Clients : ~Requested(k)' => total'[k] = 0
    BY <1>19, <2>1 DEF IndInv, ChunksKept
  <2>3. ASSUME NEW q \in Requests, par'[q].in_use
        PROVE  /\ total'[par'[q].client] = par'[q].next_chunk - 1 + par'[q].remaining
               /\ got'[par'[q].client] = par'[q].next_chunk - 1 - Len(par'[q].reads)
               /\ \A i \in 1 .. Len(par'[q].reads) :
                    fileRead[par'[q].reads[i]].chunk = got'[par'[q].client] + i
    <3>1. CASE q = r  BY <1>10, <1>12, <2>1, <3>1
    <3>2. CASE q # r
      <4>1. par'[q] = par[q]  BY <1>12, <3>2
      <4>2. par[q].client \in Clients
        BY <1>4, <2>3, <4>1 DEF IndInv, RequestsKept, RequestKept, RequestType
      <4>3. par[q].client # c  BY <1>19 DEF Requested
      <4>4. QED  BY <2>1, <2>3, <4>1, <4>2, <4>3 DEF IndInv, ChunksKept
    <3>3. QED  BY <3>1, <3>2
  <2>4. QED  BY <1>2, <2>2, <2>3 DEF ChunksKept
<1>23. InOrder'
  <2> SUFFICES ASSUME NEW q \in Requests,
                      NEW i \in 1 .. Len(par'[q].reads), NEW k \in 1 .. Len(par'[q].reads),
                      NEW m \in 1 .. Len(cmds'), NEW o \in 1 .. Len(cmds'), i < k,
                      cmds'[m] = fileRead'[par'[q].reads[i]].command,
                      cmds'[o] = fileRead'[par'[q].reads[k]].command
               PROVE  m < o
    BY DEF InOrder
  <2>1. par'[q].reads = par[q].reads /\ cmds' = cmds /\ fileRead' = fileRead
    BY <1>2, <1>17
  <2>2. QED  BY <2>1 DEF IndInv, InOrder
<1>24. QED
  BY <1>2, <1>14, <1>15, <1>16, <1>18, <1>20, <1>21, <1>22, <1>23, Stable DEF IndInv

(* A handle that a stream holds names a request of its own, in use.        *)
LEMMA HandleValid ==
  ASSUME IndInv, NEW s \in Streams, pending[s] # None
  PROVE  LET r == pending[s].index
         IN  /\ r \in Requests /\ par[r].client = s /\ par[r].in_use
             /\ par[r].generation = pending[s].generation
<1> DEFINE r == pending[s].index
<1>1. s \in Clients /\ s # None  BY DEF Clients
<1>2. pending[s] \in Handles  BY <1>1 DEF IndInv, Typed, TypeOK
<1>3. r \in Requests /\ par[r].client = s
  BY <1>2 DEF Handles, IndInv, HandlesKept
<1>4. pending[s] = [index |-> r, generation |-> par[r].generation]
  BY <1>3 DEF IndInv, HandlesKept
<1>5. par[r].generation = pending[s].generation  BY <1>4
<1>6. par[r].in_use
  <2>1. ~par[r].in_use => par[r] = Cleared(par[r].generation)
    BY <1>3 DEF IndInv, RequestsKept, RequestKept
  <2>2. QED  BY <1>1, <1>3, <2>1 DEF Cleared
<1>7. QED  BY <1>3, <1>5, <1>6

(* CancelRequest keeps the invariant.                                      *)
LEMMA CancelRequestKeeps ==
  ASSUME IndInv, NEW s \in Streams, CancelRequest(s)
  PROVE  IndInv'
<1>1. PICK r, reads, aborted :
        /\ r = pending[s].index /\ reads = ToSet(par[r].reads)
        /\ aborted = {fileRead[d].command : d \in reads} \ {None}
  OBVIOUS
<1>2. /\ r \in Requests /\ par[r].client = s /\ par[r].in_use
      /\ par[r].generation = pending[s].generation /\ pending[s] # None
  BY <1>1, HandleValid DEF CancelRequest
<1>3. /\ game = "idle"
      /\ cmd' = [c \in Commands |-> IF c \in aborted
                                    THEN [cmd[c] EXCEPT !.dropped = TRUE]
                                    ELSE cmd[c]]
      /\ bufferFree' = [b \in Buffers |-> bufferFree[b] \/ b \in Returned(r)]
      /\ fileRead' = [d \in FileReads |-> IF d \in reads THEN NoRead ELSE fileRead[d]]
      /\ readFree' = par[r].reads \o readFree
      /\ parQueue' = IF par[r].queued THEN RemoveFirst(parQueue, r) ELSE parQueue
      /\ par' = [par EXCEPT ![r] = Cleared(@.generation)]
      /\ parFree' = <<r>> \o parFree
      /\ pending' = [pending EXCEPT ![s] = None]
      /\ total' = [total EXCEPT ![s] = 0]
      /\ UNCHANGED <<gameVars, cmds, loading, arqVars, tickVars, panic, got>>
  BY <1>1, <1>2 DEF CancelRequest
<1>4. /\ par \in [Requests -> RequestType] /\ parFree \in Seq(Requests)
      /\ parQueue \in Seq(Requests) /\ IsInjective(parFree) /\ IsInjective(parQueue)
      /\ total \in [Clients -> 0 .. MaxChunks]
      /\ pending \in [Clients -> Handles \cup {None}]
      /\ readFree \in Seq(FileReads) /\ IsInjective(readFree)
      /\ bufferFree \in [Buffers -> BOOLEAN]
      /\ fileRead \in [FileReads -> [owner : Requests \cup {None},
                                     buffer : Buffers \cup {None},
                                     command : Commands \cup {None}, chunk : 0 .. MaxChunks]]
      /\ cmd \in [Commands -> [state : {"free", "waiting", "reading", "finished"},
                               read : FileReads \cup {None},
                               buffer : Buffers \cup {None}, dropped : BOOLEAN]]
  BY DEF IndInv, Typed, TypeOK, RequestsKept, RecordsKept
<1>5. s \in Clients /\ s # None /\ s \notin Banks  BY DEF Clients
<1>6. cur = NoService  BY <1>3 DEF IndInv, InService
<1>7. /\ reads \subseteq FileReads /\ par[r].reads \in Seq(FileReads)
      /\ IsInjective(par[r].reads)
      /\ \A d \in FileReads : d \in reads <=> fileRead[d].owner = r
  <2>1. par[r].reads \in Seq(FileReads) /\ IsInjective(par[r].reads)
    BY <1>2, <1>4 DEF RequestType, IndInv, RecordsKept
  <2>2. reads \subseteq FileReads  BY <1>1, <2>1, ElemsIn
  <2>3. \A d \in reads : fileRead[d].owner = r
    BY <1>1, <1>2 DEF IndInv, RecordsKept, Linked
  <2>4. ASSUME NEW d \in FileReads, fileRead[d].owner = r PROVE d \in reads
    <3>1. fileRead[d] # NoRead  BY <1>2, <2>4 DEF NoRead
    <3>2. d \in Linked(r)  BY <2>4, <3>1 DEF IndInv, RecordsKept, RecordKept
    <3>3. QED  BY <1>1, <3>2 DEF Linked
  <2>5. QED  BY <2>1, <2>2, <2>3, <2>4
<1>8. \A d \in reads : /\ fileRead[d] # NoRead /\ fileRead[d].buffer \in Buffers
                       /\ fileRead[d].command \in Commands
                       /\ d \notin ToSet(readFree)
  <2>1. ASSUME NEW d \in reads PROVE fileRead[d] # NoRead
    BY <1>2, <1>7 DEF NoRead
  <2>2. QED  BY <1>4, <1>7, <2>1 DEF IndInv, RecordsKept, RecordKept
<1>9. /\ \A q \in Requests : q # r => par'[q] = par[q]
      /\ par'[r] = Cleared(par[r].generation)
      /\ par' \in [Requests -> RequestType]
  <2>1. par[r].generation \in 0 .. Generations - 1  BY <1>2, <1>4 DEF RequestType
  <2>2. QED  BY <1>2, <1>3, <1>4, <2>1, ClearedTyped
<1>10. r \notin ToSet(parFree) /\ (par[r].queued <=> r \in ToSet(parQueue))
  BY <1>2 DEF IndInv, RequestsKept, RequestKept
<1>11. /\ parFree' \in Seq(Requests) /\ IsInjective(parFree')
       /\ ToSet(parFree') = {r} \cup ToSet(parFree)
  BY <1>2, <1>3, <1>4, <1>10, ElemsPush
<1>12. /\ parQueue' \in Seq(Requests) /\ IsInjective(parQueue')
       /\ ToSet(parQueue') = ToSet(parQueue) \ {r}
  BY <1>3, <1>4, <1>10, ElemsRemoveFirst, SMTT(40)
<1>13. /\ readFree' \in Seq(FileReads) /\ IsInjective(readFree')
       /\ ToSet(readFree') = reads \cup ToSet(readFree)
  <2>1. ToSet(par[r].reads) \cap ToSet(readFree) = {}  BY <1>1, <1>8
  <2>2. par[r].reads \in Seq(FileReads) /\ readFree \in Seq(FileReads)
    BY <1>4, <1>7
  <2>3. IsInjective(par[r].reads) /\ IsInjective(readFree)  BY <1>4, <1>7
  <2>4. /\ par[r].reads \o readFree \in Seq(FileReads)
        /\ IsInjective(par[r].reads \o readFree)
        /\ ToSet(par[r].reads \o readFree) = ToSet(par[r].reads) \cup ToSet(readFree)
    BY <2>1, <2>2, <2>3, ElemsConcat
  <2>5. QED  BY <1>1, <1>3, <2>4
<1>14. \A d \in FileReads : fileRead'[d] = IF d \in reads THEN NoRead ELSE fileRead[d]
  BY <1>3
<1>15. fileRead' \in [FileReads -> [owner : Requests \cup {None},
                                    buffer : Buffers \cup {None},
                                    command : Commands \cup {None}, chunk : 0 .. MaxChunks]]
  <2>1. NoRead \in [owner : Requests \cup {None}, buffer : Buffers \cup {None},
                    command : Commands \cup {None}, chunk : 0 .. MaxChunks]
    BY DEF NoRead
  <2>2. QED  BY <1>3, <1>4, <2>1
<1>16. /\ cmd' \in [Commands -> [state : {"free", "waiting", "reading", "finished"},
                                 read : FileReads \cup {None},
                                 buffer : Buffers \cup {None}, dropped : BOOLEAN]]
       /\ \A c \in Commands : /\ cmd'[c].state = cmd[c].state
                              /\ cmd'[c].read = cmd[c].read
                              /\ cmd'[c].buffer = cmd[c].buffer
                              /\ cmd'[c].dropped <=> cmd[c].dropped \/ c \in aborted
                              /\ c \notin aborted => cmd'[c] = cmd[c]
  <2>1. ASSUME NEW c \in Commands
        PROVE  cmd'[c] = IF c \in aborted THEN [cmd[c] EXCEPT !.dropped = TRUE] ELSE cmd[c]
    BY <1>3
  <2>2. ASSUME NEW c \in Commands
        PROVE  /\ cmd'[c].state = cmd[c].state /\ cmd'[c].read = cmd[c].read
               /\ cmd'[c].buffer = cmd[c].buffer
               /\ cmd'[c].dropped <=> cmd[c].dropped \/ c \in aborted
    BY <1>4, <2>1, ZenonT(60)
  <2>3. ASSUME NEW c \in Commands
        PROVE  cmd'[c] \in [state : {"free", "waiting", "reading", "finished"},
                            read : FileReads \cup {None},
                            buffer : Buffers \cup {None}, dropped : BOOLEAN]
    BY <1>4, <2>1
  <2>4. QED  BY <1>3, <2>1, <2>2, <2>3
<1>17. Typed'
  <2>1. \A q \in Requests :
          /\ par'[q].active_reads \in 0 .. 3 /\ par'[q].remaining \in 0 .. MaxChunks
          /\ par'[q].generation \in 0 .. Generations - 1
          /\ par'[q].client \in Clients \cup {None} /\ par'[q].reads \in Seq(FileReads)
    BY <1>9 DEF RequestType
  <2>2. /\ pending' \in [Clients -> Handles \cup {None}]
        /\ total' \in [Clients -> 0 .. MaxChunks]
    BY <1>3, <1>4, <1>5, SMTT(40)
  <2>3. bufferFree' \in [Buffers -> BOOLEAN]
    <3>1. \A b \in Buffers : (bufferFree[b] \/ b \in Returned(r)) \in BOOLEAN
      OBVIOUS
    <3>2. QED  BY <1>3, <3>1
  <2>4. QED
    BY <1>3, <1>9, <2>3, <1>11, <1>12, <1>13, <1>15, <1>16, <2>1, <2>2 DEF IndInv, Typed, TypeOK
<1>18. InService'  BY <1>3, <1>6 DEF InService
<1>19. RequestsKept'
  <2>1. ASSUME NEW q \in Requests PROVE RequestKept(q)'
    <3>1. CASE q = r
      <4>1. cur'.request # r  BY <1>2, <1>3, <1>6 DEF NoService
      <4>2. par'[q].generation = par[r].generation  BY <1>9, <3>1 DEF Cleared
      <4>3. QED
        BY <1>9, <1>11, <1>12, <3>1, <4>1, <4>2 DEF RequestKept, Started, Cleared
    <3>2. CASE q # r
      <4>1. RequestKept(q)  BY DEF IndInv, RequestsKept
      <4>2. /\ q \in ToSet(parFree') <=> q \in ToSet(parFree)
            /\ q \in ToSet(parQueue') <=> q \in ToSet(parQueue)
        BY <1>11, <1>12, <3>2
      <4>3. par'[q] = par[q] /\ cur' = cur  BY <1>3, <1>9, <3>2
      <4>4. QED  BY <4>1, <4>2, <4>3 DEF RequestKept, Started
    <3>3. QED  BY <3>1, <3>2
  <2>2. QED  BY <1>11, <1>12, <2>1 DEF RequestsKept
<1>20. RecordsKept'
  <2>1. ASSUME NEW d \in FileReads PROVE RecordKept(d)'
    <3>1. RecordKept(d)  BY DEF IndInv, RecordsKept
    <3>2. cur'.read # d /\ cur.read # d
      BY <1>3, <1>6 DEF NoService, FileReads, Buffers
    <3>3. CASE d \in reads
      BY <1>13, <1>14, <3>2, <3>3 DEF RecordKept
    <3>4. CASE d \notin reads
      <4>1. fileRead'[d] = fileRead[d] /\ fileRead[d].owner # r
        BY <1>7, <1>14, <3>4
      <4>2. fileRead[d] # NoRead => fileRead[d].owner \in Requests
        BY <1>4, <3>1 DEF RecordKept
      <4>3. fileRead[d] # NoRead => d \in Linked(fileRead[d].owner)'
        BY <1>9, <3>1, <4>1, <4>2 DEF RecordKept, Linked
      <4>4. d \in ToSet(readFree') <=> d \in ToSet(readFree)  BY <1>13, <3>4
      <4>5. QED  BY <3>1, <3>2, <4>1, <4>3, <4>4 DEF RecordKept
    <3>5. QED  BY <3>3, <3>4
  <2>2. ASSUME NEW q \in Requests
        PROVE  IsInjective(par'[q].reads) /\ \A d \in Linked(q)' : fileRead'[d].owner = q
    <3>1. CASE q = r
      <4>1. par'[q].reads = <<>>  BY <1>9, <3>1 DEF Cleared
      <4>2. QED  BY <4>1, ElemsEmpty DEF Linked
    <3>2. CASE q # r
      <4>1. par'[q] = par[q] /\ par[q].reads \in Seq(FileReads)
        BY <1>4, <1>9, <3>2 DEF RequestType
      <4>2. \A d \in Linked(q) : d \in FileReads /\ fileRead[d].owner = q
        BY <4>1, ElemsIn DEF IndInv, RecordsKept, Linked
      <4>3. \A d \in Linked(q) : fileRead'[d] = fileRead[d]
        BY <1>7, <1>14, <3>2, <4>2
      <4>4. QED  BY <4>1, <4>2, <4>3 DEF IndInv, RecordsKept, Linked
    <3>3. QED  BY <3>1, <3>2
  <2>3. QED  BY <1>13, <2>1, <2>2 DEF RecordsKept
<1>21. \A c \in Commands : c \in aborted <=> \E d \in reads : fileRead[d].command = c
  BY <1>1
<1>22. CommandsKept'
  <2>1. ASSUME NEW c \in Commands PROVE CommandKept(c)'
    <3>1. CommandKept(c)  BY DEF IndInv, CommandsKept
    <3>2. CASE cmd[c].state = "free"
      <4>1. c \notin aborted
        BY <1>7, <1>8, <1>21, <3>2 DEF IndInv, CommandsKept
      <4>2. cmd'[c] = cmd[c] /\ cmds' = cmds  BY <1>3, <1>16, <4>1
      <4>3. QED  BY <3>1, <3>2, <4>2 DEF CommandKept
    <3>3. CASE cmd[c].state # "free"
      <4>1. cmd[c].read \in FileReads /\ (cmd[c].dropped <=> fileRead[cmd[c].read].command # c)
        BY <3>1, <3>3 DEF CommandKept, Current
      <4>2. c \in aborted <=> cmd[c].read \in reads /\ fileRead[cmd[c].read].command = c
        <5>1. ASSUME NEW d \in reads, fileRead[d].command = c PROVE cmd[c].read = d
          BY <1>7, <1>8, <5>1 DEF IndInv, CommandsKept
        <5>2. QED  BY <1>21, <5>1
      <4>3. cmd'[c].dropped <=> fileRead'[cmd'[c].read].command # c
        <5>1. CASE cmd[c].read \in reads
          BY <1>14, <1>16, <4>1, <4>2, <5>1 DEF NoRead
        <5>2. CASE cmd[c].read \notin reads
          BY <1>14, <1>16, <4>1, <4>2, <5>2
        <5>3. QED  BY <5>1, <5>2
      <4>4. cmds' = cmds  BY <1>3
      <4>5. QED  BY <1>16, <3>1, <3>3, <4>3, <4>4 DEF CommandKept, Current
    <3>4. QED  BY <3>2, <3>3
  <2>2. ASSUME NEW d \in FileReads, fileRead'[d] # NoRead
        PROVE  /\ cmd'[fileRead'[d].command].state # "free"
               /\ cmd'[fileRead'[d].command].read = d
               /\ cmd'[fileRead'[d].command].buffer = fileRead'[d].buffer
    <3>1. fileRead'[d] = fileRead[d] /\ fileRead[d].command \in Commands
      BY <1>4, <1>14, <2>2 DEF IndInv, RecordsKept, RecordKept
    <3>2. QED  BY <1>16, <2>2, <3>1 DEF IndInv, CommandsKept
  <2>3. QED  BY <1>3, <2>1, <2>2 DEF IndInv, CommandsKept
<1>23. InTurn'
  <2> SUFFICES ASSUME NEW m \in 1 .. Len(cmds'), NEW n \in 1 .. Len(cmds'), m < n,
                      cmd'[cmds'[n]].state \in {"reading", "finished"}
               PROVE  cmd'[cmds'[m]].state = "finished"
    BY DEF InTurn
  <2>1. cmds' = cmds /\ cmds \in Seq(Commands)
    BY <1>3 DEF IndInv, Typed, TypeOK
  <2>2. \A i \in 1 .. Len(cmds) : cmds[i] \in Commands  BY <2>1
  <2>3. QED  BY <1>16, <2>1, <2>2 DEF IndInv, InTurn
<1>24. \A b \in Buffers :
         /\ b \in Returned(r) <=> \E d \in reads : fileRead[d].buffer = b
         /\ InRead(b)' <=> InRead(b) /\ b \notin Returned(r)
         /\ b \in Returned(r) => InRead(b)
  <2>1. ASSUME NEW b \in Buffers
        PROVE  b \in Returned(r) <=> \E d \in reads : fileRead[d].buffer = b
    BY <1>1, <2>1 DEF Returned, Buffers
  <2>2. ASSUME NEW b \in Buffers, InRead(b)' PROVE InRead(b) /\ b \notin Returned(r)
    <3>1. PICK d \in FileReads : fileRead'[d].buffer = b  BY <2>2 DEF InRead
    <3>2. d \notin reads /\ fileRead[d].buffer = b
      BY <1>14, <3>1 DEF NoRead, Buffers
    <3>3. \A e \in reads : fileRead[e].buffer # b
      BY <1>7, <3>2 DEF IndInv, BuffersKept, Buffers
    <3>4. QED  BY <2>1, <3>2, <3>3 DEF InRead
  <2>3. ASSUME NEW b \in Buffers, InRead(b), b \notin Returned(r) PROVE InRead(b)'
    <3>1. PICK d \in FileReads : fileRead[d].buffer = b  BY <2>3 DEF InRead
    <3>2. d \notin reads  BY <2>1, <2>3, <3>1
    <3>3. QED  BY <1>14, <3>1, <3>2 DEF InRead
  <2>4. ASSUME NEW b \in Buffers, b \in Returned(r) PROVE InRead(b)
    BY <1>7, <2>1, <2>4 DEF InRead
  <2>5. QED  BY <2>1, <2>2, <2>3, <2>4
<1>25. BuffersKept'
  <2>1. ASSUME NEW b \in Buffers PROVE BufferKept(b)'
    <3>1. BufferKept(b)  BY DEF IndInv, BuffersKept
    <3>2. bufferFree'[b] <=> bufferFree[b] \/ b \in Returned(r)  BY <1>3
    <3>3. cur' = cur /\ upload' = upload /\ Returning(b)' = Returning(b)
      BY <1>3 DEF Returning
    <3>4. QED  BY <1>24, <3>1, <3>2, <3>3 DEF BufferKept
  <2>2. \A d, e \in FileReads : fileRead'[d].buffer = fileRead'[e].buffer =>
                                  d = e \/ fileRead'[d].buffer = None
    BY <1>14 DEF NoRead, IndInv, BuffersKept
  <2>3. QED  BY <2>1, <2>2 DEF BuffersKept
<1>26. ReadingApart'
  <2>1. ASSUME NEW c \in Commands, cmd'[c].state = "reading",
               NEW d \in FileReads, fileRead'[d].buffer = cmd'[c].buffer
        PROVE  cmd'[fileRead'[d].command].state # "finished"
    <3>1. cmd[c].state = "reading" /\ cmd[c].buffer \in Buffers
          /\ cmd'[c].buffer = cmd[c].buffer
      BY <1>16, <2>1 DEF IndInv, CommandsKept, CommandKept
    <3>2. fileRead'[d] = fileRead[d] /\ fileRead[d] # NoRead
      BY <1>14, <2>1, <3>1 DEF NoRead, Buffers
    <3>3. fileRead[d].command \in Commands
      BY <1>4, <3>2 DEF IndInv, RecordsKept, RecordKept
    <3>4. QED  BY <1>16, <2>1, <3>1, <3>2, <3>3 DEF IndInv, ReadingApart
  <2>2. ASSUME NEW c \in Commands, cmd'[c].state = "reading"
        PROVE  upload'[cmd'[c].buffer].transfers = 0 /\ ~Returning(cmd[c].buffer)'
    <3>1. cmd[c].state = "reading" /\ cmd'[c].buffer = cmd[c].buffer  BY <1>16, <2>2
    <3>2. upload[cmd[c].buffer].transfers = 0 /\ ~Returning(cmd[c].buffer)
      BY <3>1 DEF IndInv, ReadingApart
    <3>3. QED  BY <1>3, <3>1, <3>2 DEF Returning
  <2>3. QED  BY <2>1, <2>2 DEF ReadingApart
<1>27. \A k \in Clients : Requested(k)' <=> Requested(k) /\ k # s
  <2>1. \A q \in Requests : q # r => par[q].client # s
    BY <1>2, <1>5 DEF IndInv, HandlesKept
  <2>2. par'[r].client = None  BY <1>9 DEF Cleared
  <2>3. QED  BY <1>2, <1>9, <2>1, <2>2 DEF Requested
<1>28. BanksKept'
  <2>1. ASSUME NEW b \in Banks
        PROVE  /\ LastUpload(b)' = LastUpload(b) /\ Ending(b)' = Ending(b)
               /\ b \in Clients /\ b # s /\ loading'[b] = loading[b]
               /\ pending'[b] = pending[b]
    BY <1>3, <1>4, <1>5 DEF LastUpload, Ending, Clients
  <2>2. QED  BY <1>3, <1>27, <2>1 DEF IndInv, BanksKept
<1>29. HandlesKept'
  <2>1. par'[r].client = None  BY <1>9 DEF Cleared
  <2>2. ASSUME NEW p \in Requests, NEW q \in Requests, par'[p].client = par'[q].client
        PROVE  p = q \/ par'[p].client = None
    BY <1>9, <2>1, <2>2 DEF IndInv, HandlesKept
  <2>3. ASSUME NEW q \in Requests, par'[q].client \in Streams
        PROVE  pending'[par'[q].client] =
                 [index |-> q, generation |-> par'[q].generation]
    <3>1. q # r  BY <2>1, <2>3 DEF Clients
    <3>2. par'[q] = par[q] /\ par[q].client # s
      BY <1>2, <1>5, <1>9, <3>1 DEF IndInv, HandlesKept
    <3>3. pending'[par[q].client] = pending[par[q].client]
      BY <1>3, <1>4, <2>3, <3>2 DEF Clients
    <3>4. QED  BY <2>3, <3>2, <3>3 DEF IndInv, HandlesKept
  <2>4. ASSUME NEW t \in Streams, pending'[t] # None
        PROVE  par'[pending'[t].index].client = t
    <3>1. t # s /\ t \in Clients /\ pending'[t] = pending[t]
      BY <1>3, <1>4, <2>4 DEF Clients
    <3>2. pending[t].index \in Requests /\ par[pending[t].index].client = t
      BY <2>4, <3>1, HandleValid
    <3>3. pending[t].index # r  BY <1>2, <3>1, <3>2
    <3>4. QED  BY <1>9, <3>1, <3>2, <3>3
  <2>5. QED  BY <2>2, <2>3, <2>4 DEF HandlesKept
<1>30. ChunksKept'
  <2>1. /\ total'[s] = 0 /\ got' = got
        /\ \A k \in Clients : k # s => total'[k] = total[k]
    BY <1>3, <1>4, <1>5
  <2>2. \A k \in Clients : ~Requested(k)' => total'[k] = 0
    BY <1>27, <2>1 DEF IndInv, ChunksKept
  <2>3. ASSUME NEW q \in Requests, par'[q].in_use
        PROVE  /\ total'[par'[q].client] = par'[q].next_chunk - 1 + par'[q].remaining
               /\ got'[par'[q].client] = par'[q].next_chunk - 1 - Len(par'[q].reads)
               /\ \A i \in 1 .. Len(par'[q].reads) :
                    fileRead'[par'[q].reads[i]].chunk = got'[par'[q].client] + i
    <3>1. q # r  BY <1>9, <2>3 DEF Cleared
    <3>2. par'[q] = par[q] /\ par[q].reads \in Seq(FileReads)
      BY <1>4, <1>9, <3>1 DEF RequestType
    <3>3. par[q].client \in Clients /\ par[q].client # s
      BY <1>2, <1>4, <1>5, <2>3, <3>1, <3>2
      DEF IndInv, HandlesKept, RequestsKept, RequestKept, RequestType
    <3>4. \A i \in 1 .. Len(par[q].reads) : par[q].reads[i] \in Linked(q)
      BY <3>2, SetView DEF Linked
    <3>5. \A i \in 1 .. Len(par[q].reads) :
            fileRead'[par[q].reads[i]] = fileRead[par[q].reads[i]]
      BY <1>7, <1>14, <3>1, <3>2, <3>4 DEF IndInv, RecordsKept
    <3>6. QED  BY <2>1, <2>3, <3>2, <3>3, <3>5, SMTT(40) DEF IndInv, ChunksKept
  <2>4. QED  BY <2>2, <2>3 DEF ChunksKept
<1>31. InOrder'
  <2> SUFFICES ASSUME NEW q \in Requests,
                      NEW i \in 1 .. Len(par'[q].reads), NEW k \in 1 .. Len(par'[q].reads),
                      NEW m \in 1 .. Len(cmds'), NEW o \in 1 .. Len(cmds'), i < k,
                      cmds'[m] = fileRead'[par'[q].reads[i]].command,
                      cmds'[o] = fileRead'[par'[q].reads[k]].command
               PROVE  m < o
    BY DEF InOrder
  <2>1. q # r  BY <1>9 DEF Cleared
  <2>2. par'[q] = par[q] /\ par[q].reads \in Seq(FileReads) /\ cmds' = cmds
    BY <1>3, <1>4, <1>9, <2>1 DEF RequestType
  <2>3. /\ par[q].reads[i] \in Linked(q) /\ par[q].reads[k] \in Linked(q)
        /\ par[q].reads[i] \in FileReads /\ par[q].reads[k] \in FileReads
    <3>1. i \in 1 .. Len(par[q].reads) /\ k \in 1 .. Len(par[q].reads)  BY <2>2
    <3>2. QED  BY <2>2, <3>1, ElemAt DEF Linked
  <2>4. /\ fileRead'[par[q].reads[i]] = fileRead[par[q].reads[i]]
        /\ fileRead'[par[q].reads[k]] = fileRead[par[q].reads[k]]
    <3>1. \A d \in Linked(q) : fileRead[d].owner = q  BY DEF IndInv, RecordsKept
    <3>2. \A d \in FileReads : d \in Linked(q) => fileRead'[d] = fileRead[d]
      BY <1>7, <1>14, <2>1, <3>1
    <3>3. QED  BY <2>3, <3>2
  <2>5. QED  BY <2>2, <2>4 DEF IndInv, InOrder
<1>32. QED
  BY <1>3, <1>17, <1>18, <1>19, <1>20, <1>22, <1>23, <1>25, <1>26, <1>28, <1>29, <1>30,
     <1>31, Stable DEF IndInv

----------------------------------------------------------------------------
(* The loop that starts reads.                                             *)

LEMMA TakenTyped ==
  ASSUME NEW x \in RequestType, NEW a \in 0 .. 3, NEW q \in BOOLEAN
  PROVE  [[x EXCEPT !.queued = q] EXCEPT !.active_reads = a] \in RequestType
BY DEF RequestType

LEMMA RequestFields ==
  ASSUME NEW x \in RequestType
  PROVE  /\ x.active_reads \in 0 .. 3 /\ x.active_reads \in Nat
         /\ x.remaining \in 0 .. MaxChunks /\ x.remaining \in Nat
         /\ x.next_chunk \in 0 .. MaxChunks + 1 /\ x.next_chunk \in Nat
         /\ x.reads \in Seq(FileReads) /\ Len(x.reads) \in Nat
<1>1. /\ x.active_reads \in 0 .. 3 /\ x.remaining \in 0 .. MaxChunks
      /\ x.next_chunk \in 0 .. MaxChunks + 1 /\ x.reads \in Seq(FileReads)
  BY DEF RequestType
<1>2. Len(x.reads) \in Nat  BY <1>1
<1>3. QED  BY <1>1, <1>2

(* What Take does when there is a buffer: it finds a record too.           *)
LEMMA TakeView ==
  ASSUME IndInv, NEW p, NEW r, FreeBuffers # {}, Take(p, r)
  PROVE  \E b \in Buffers, d \in FileReads :
           /\ bufferFree[b] /\ bufferFree' = [bufferFree EXCEPT ![b] = FALSE]
           /\ d = Head(readFree) /\ readFree # <<>> /\ readFree' = Tail(readFree)
           /\ d \in ToSet(readFree) /\ d \notin ToSet(readFree')
           /\ ToSet(readFree) = {d} \cup ToSet(readFree')
           /\ readFree' \in Seq(FileReads) /\ IsInjective(readFree')
           /\ par' = [p EXCEPT ![r].active_reads = @ + 1]
           /\ game' = "issue" /\ cur' = [request |-> r, read |-> d, buffer |-> b]
<1>1. readFree # <<>> /\ AllocBuffer \in Buffers /\ bufferFree[AllocBuffer]
  BY RecordForBuffer, AllocIn
<1>2. readFree \in Seq(FileReads) /\ IsInjective(readFree)
  BY DEF IndInv, Typed, TypeOK, RecordsKept
<1> DEFINE d == Head(readFree)
<1>3. /\ d \in FileReads /\ Tail(readFree) \in Seq(FileReads)
      /\ ToSet(readFree) = {d} \cup ToSet(Tail(readFree))
      /\ IsInjective(Tail(readFree)) /\ d \notin ToSet(Tail(readFree))
  BY <1>1, <1>2, ElemsTail
<1>4. AllocFileRead = d /\ d # None
  BY <1>1, <1>3 DEF AllocFileRead, FileReads, Buffers
<1>5. /\ bufferFree' = [bufferFree EXCEPT ![AllocBuffer] = FALSE]
      /\ par' = [p EXCEPT ![r].active_reads = @ + 1]
      /\ game' = "issue" /\ cur' = [request |-> r, read |-> d, buffer |-> AllocBuffer]
      /\ readFree' = Tail(readFree)
  BY <1>4 DEF Take
<1> HIDE DEF d
<1>6. QED  BY <1>1, <1>3, <1>5 DEF d

(* ServiceNextRead keeps the invariant when it starts nothing ...          *)
LEMMA ServiceNextReadKeepsIdle ==
  ASSUME IndInv, ServiceNextRead, parQueue = <<>> \/ FreeBuffers = {}
  PROVE  IndInv'
<1>1. /\ game = "service" /\ game' = "idle" /\ cur' = NoService
      /\ UNCHANGED <<par, parQueue, bufferFree, readFree, parFree, fileRead, cmdVars,
                     clientVars, arqVars, tickVars, panic, historyVars>>
  BY DEF ServiceNextRead, Leave
<1>2. cur' = cur  BY <1>1 DEF IndInv, InService
<1>3. Typed'  BY <1>1 DEF IndInv, Typed, TypeOK
<1>4. InService'  BY <1>1 DEF InService
<1>5. QED  BY <1>1, <1>2, <1>3, <1>4, Stable DEF IndInv

(* ... and when it takes a buffer for the request at the head of the queue.*)
LEMMA ServiceNextReadKeepsTaken ==
  ASSUME IndInv, ServiceNextRead, parQueue # <<>>, FreeBuffers # {}
  PROVE  IndInv'
<1>1. PICK r : r = Head(parQueue)  OBVIOUS
<1>2. /\ game = "service" /\ Take([par EXCEPT ![r].queued = FALSE], r)
      /\ parQueue' = Tail(parQueue)
      /\ UNCHANGED <<parFree, fileRead, cmdVars, clientVars, arqVars, tickVars, panic,
                     historyVars>>
  BY <1>1 DEF ServiceNextRead
<1>3. PICK b \in Buffers, d \in FileReads :
        /\ bufferFree[b] /\ bufferFree' = [bufferFree EXCEPT ![b] = FALSE]
        /\ d \in ToSet(readFree) /\ d \notin ToSet(readFree')
        /\ ToSet(readFree) = {d} \cup ToSet(readFree')
        /\ readFree' \in Seq(FileReads) /\ IsInjective(readFree')
        /\ par' = [[par EXCEPT ![r].queued = FALSE] EXCEPT ![r].active_reads = @ + 1]
        /\ game' = "issue" /\ cur' = [request |-> r, read |-> d, buffer |-> b]
  BY <1>2, TakeView
<1>4. /\ par \in [Requests -> RequestType]
      /\ parQueue \in Seq(Requests) /\ IsInjective(parQueue)
      /\ bufferFree \in [Buffers -> BOOLEAN] /\ cur = NoService
  BY <1>2 DEF IndInv, Typed, TypeOK, RequestsKept, InService
<1>5. /\ r \in Requests /\ parQueue' \in Seq(Requests) /\ IsInjective(parQueue')
      /\ ToSet(parQueue) = {r} \cup ToSet(parQueue') /\ r \notin ToSet(parQueue')
  BY <1>1, <1>2, <1>4, ElemsTail
<1>6. /\ par[r].queued /\ par[r].in_use /\ par[r].remaining > 0
      /\ par[r].active_reads <= 1 /\ par[r].active_reads = Len(par[r].reads)
      /\ ~par[r].final_issued /\ par[r].client # None
      /\ r \notin ToSet(parFree) /\ par[r].remaining # 0
  <2>1. RequestKept(r) /\ r \in ToSet(parQueue)  BY <1>5 DEF IndInv, RequestsKept
  <2>2. cur.request # r  BY <1>4, <1>5 DEF NoService
  <2>3. par[r].active_reads \in Nat /\ par[r].remaining \in Nat /\ Len(par[r].reads) \in Nat
    BY <1>4, <1>5, RequestFields
  <2>4. QED  BY <2>1, <2>2, <2>3 DEF RequestKept, Started
<1>7. /\ par' \in [Requests -> RequestType]
      /\ \A q \in Requests : q # r => par'[q] = par[q]
      /\ \A q \in Requests : /\ par'[q].in_use = par[q].in_use
                             /\ par'[q].final_issued = par[q].final_issued
                             /\ par'[q].remaining = par[q].remaining
                             /\ par'[q].next_chunk = par[q].next_chunk
                             /\ par'[q].generation = par[q].generation
                             /\ par'[q].client = par[q].client
                             /\ par'[q].reads = par[q].reads
      /\ ~par'[r].queued /\ par'[r].active_reads = par[r].active_reads + 1
  <2>1. par[r].active_reads + 1 \in 0 .. 3
    <3>1. par[r].active_reads \in Nat  BY <1>4, <1>5, RequestFields
    <3>2. QED  BY <1>6, <3>1
  <2>2. [[par[r] EXCEPT !.queued = FALSE] EXCEPT !.active_reads = par[r].active_reads + 1]
          \in RequestType
    BY <1>4, <1>5, <2>1, TakenTyped
  <2>3. par' = [par EXCEPT ![r] = [[par[r] EXCEPT !.queued = FALSE]
                                      EXCEPT !.active_reads = par[r].active_reads + 1]]
    <3> DEFINE p == [par EXCEPT ![r].queued = FALSE]
    <3>1. /\ p \in [Requests -> RequestType] /\ p[r] = [par[r] EXCEPT !.queued = FALSE]
          /\ \A q \in Requests : q # r => p[q] = par[q]
      BY <1>4, <1>5, ZenonT(60) DEF RequestType
    <3>2. p[r].active_reads = par[r].active_reads
      BY <1>4, <1>5, <3>1 DEF RequestType
    <3>3. par' = [p EXCEPT ![r] = [p[r] EXCEPT !.active_reads = p[r].active_reads + 1]]
      BY <1>3
    <3> HIDE DEF p
    <3>4. QED  BY <1>4, <1>5, <3>1, <3>2, <3>3
  <2>4. par' \in [Requests -> RequestType]  BY <1>4, <1>5, <2>2, <2>3
  <2>5. QED  BY <1>4, <1>5, <2>3, <2>4, ZenonT(60) DEF RequestType
<1>8. Typed'
  <2>1. \A q \in Requests :
          /\ par'[q].active_reads \in 0 .. 3 /\ par'[q].remaining \in 0 .. MaxChunks
          /\ par'[q].generation \in 0 .. Generations - 1
          /\ par'[q].client \in Clients \cup {None} /\ par'[q].reads \in Seq(FileReads)
    BY <1>7 DEF RequestType
  <2>2. QED  BY <1>2, <1>3, <1>4, <1>5, <1>7, <2>1 DEF IndInv, Typed, TypeOK
<1>9. InService'
  <2>1. cur' \in ServiceType  BY <1>3, <1>5 DEF ServiceType
  <2>2. QED  BY <1>3, <1>5, <1>6, <1>7, <2>1 DEF InService
<1>10. RequestsKept'
  <2>1. ASSUME NEW q \in Requests PROVE RequestKept(q)'
    <3>1. RequestKept(q)  BY DEF IndInv, RequestsKept
    <3>2. CASE q = r
      <4>1. cur'.request = r  BY <1>3
      <4>2. /\ par[r].active_reads \in Nat /\ Len(par[r].reads) \in Nat /\ parFree' = parFree
        BY <1>2, <1>4, <1>5, RequestFields
      <4>3. QED  BY <1>5, <1>6, <1>7, <3>2, <4>1, <4>2, SMTT(40)
              DEF RequestKept, Started
    <3>3. CASE q # r
      <4>1. cur'.request # q /\ cur.request # q
        BY <1>3, <1>4, <3>3 DEF NoService, Requests
      <4>2. q \in ToSet(parQueue') <=> q \in ToSet(parQueue)  BY <1>5, <3>3
      <4>3. par'[q] = par[q] /\ parFree' = parFree  BY <1>2, <1>7, <3>3
      <4>4. QED  BY <3>1, <4>1, <4>2, <4>3 DEF RequestKept, Started
    <3>4. QED  BY <3>2, <3>3
  <2>2. QED  BY <1>2, <1>5, <2>1 DEF IndInv, RequestsKept
<1>11. RecordsKept'
  <2>1. ASSUME NEW e \in FileReads PROVE RecordKept(e)'
    <3>1. RecordKept(e)  BY DEF IndInv, RecordsKept
    <3>2. cur.read # e  BY <1>4 DEF NoService, FileReads, Buffers
    <3>3. cur'.read = d /\ fileRead' = fileRead  BY <1>2, <1>3
    <3>4. fileRead[e] # NoRead => fileRead[e].owner \in Requests
      BY <3>1 DEF RecordKept, IndInv, Typed, TypeOK
    <3>5. fileRead[e] # NoRead => e \in Linked(fileRead[e].owner)'
      BY <1>7, <3>1, <3>3, <3>4 DEF RecordKept, Linked
    <3>6. QED  BY <1>3, <3>1, <3>2, <3>3, <3>5 DEF RecordKept
  <2>2. QED  BY <1>2, <1>3, <1>7, <2>1 DEF IndInv, RecordsKept, Linked
<1>12. BuffersKept'
  <2>1. ASSUME NEW a \in Buffers PROVE BufferKept(a)'
    <3>1. BufferKept(a)  BY DEF IndInv, BuffersKept
    <3>2. /\ upload' = upload /\ Returning(a)' = Returning(a) /\ InRead(a)' = InRead(a)
      BY <1>2 DEF Returning, InRead
    <3>3. cur.buffer # a  BY <1>4 DEF NoService, Buffers
    <3>4. cur'.buffer = b /\ (bufferFree'[a] <=> bufferFree[a] /\ a # b)
      BY <1>3, <1>4
    <3>5. QED  BY <1>3, <3>1, <3>2, <3>3, <3>4 DEF BufferKept
  <2>2. QED  BY <1>2, <2>1 DEF IndInv, BuffersKept
<1>13. BanksKept' /\ HandlesKept'
  <2>1. \A k : /\ Requested(k)' <=> Requested(k)
               /\ LastUpload(k)' = LastUpload(k) /\ Ending(k)' = Ending(k)
    BY <1>2, <1>7 DEF Requested, LastUpload, Ending
  <2>2. BanksKept'  BY <1>2, <2>1 DEF IndInv, BanksKept
  <2>3. \A t \in Streams : pending[t] # None => pending[t].index \in Requests
    BY HandleValid
  <2>4. HandlesKept'
    <3>1. pending' = pending  BY <1>2
    <3>2. \A q \in Requests : /\ par'[q].client = par[q].client
                             /\ par'[q].generation = par[q].generation
      BY <1>7
    <3>3. QED  BY <2>3, <3>1, <3>2 DEF IndInv, HandlesKept
  <2>5. QED  BY <2>2, <2>4
<1>14. ChunksKept'
  <2>1. \A k : Requested(k)' <=> Requested(k)  BY <1>7 DEF Requested
  <2>2. \A q \in Requests :
          /\ par'[q].in_use = par[q].in_use /\ par'[q].client = par[q].client
          /\ par'[q].next_chunk = par[q].next_chunk
          /\ par'[q].remaining = par[q].remaining /\ par'[q].reads = par[q].reads
    BY <1>7
  <2>3. fileRead' = fileRead /\ total' = total /\ got' = got  BY <1>2
  <2>4. ASSUME NEW q \in Requests, par'[q].in_use
        PROVE  /\ total'[par'[q].client] = par'[q].next_chunk - 1 + par'[q].remaining
               /\ got'[par'[q].client] = par'[q].next_chunk - 1 - Len(par'[q].reads)
               /\ \A i \in 1 .. Len(par'[q].reads) :
                    fileRead'[par'[q].reads[i]].chunk = got'[par'[q].client] + i
    <3>1. par[q].in_use  BY <2>2, <2>4
    <3>2. /\ total[par[q].client] = par[q].next_chunk - 1 + par[q].remaining
          /\ got[par[q].client] = par[q].next_chunk - 1 - Len(par[q].reads)
          /\ \A i \in 1 .. Len(par[q].reads) :
               fileRead[par[q].reads[i]].chunk = got[par[q].client] + i
      BY <3>1 DEF IndInv, ChunksKept
    <3>3. QED  BY <2>2, <2>3, <3>2
  <2>5. \A k \in Clients : ~Requested(k)' => total'[k] = 0
    BY <2>1, <2>3 DEF IndInv, ChunksKept
  <2>6. QED  BY <2>4, <2>5 DEF ChunksKept
<1>15. InOrder'
  <2> SUFFICES ASSUME NEW q \in Requests,
                      NEW i \in 1 .. Len(par'[q].reads), NEW k \in 1 .. Len(par'[q].reads),
                      NEW m \in 1 .. Len(cmds'), NEW o \in 1 .. Len(cmds'), i < k,
                      cmds'[m] = fileRead'[par'[q].reads[i]].command,
                      cmds'[o] = fileRead'[par'[q].reads[k]].command
               PROVE  m < o
    BY DEF InOrder
  <2>1. par'[q].reads = par[q].reads /\ cmds' = cmds /\ fileRead' = fileRead
    BY <1>2, <1>7
  <2>2. QED  BY <2>1 DEF IndInv, InOrder
<1>16. QED
  BY <1>2, <1>8, <1>9, <1>10, <1>11, <1>12, <1>13, <1>14, <1>15, Stable DEF IndInv

(* ServiceNextRead keeps the invariant.                                    *)
LEMMA ServiceNextReadKeeps ==
  ASSUME IndInv, ServiceNextRead
  PROVE  IndInv'
BY ServiceNextReadKeepsIdle, ServiceNextReadKeepsTaken

LEMMA IssuedTyped ==
  ASSUME NEW x \in RequestType, NEW s \in Seq(FileReads), NEW n \in 0 .. MaxChunks,
         NEW k \in 0 .. MaxChunks + 1, NEW f \in BOOLEAN, NEW a \in 0 .. 3
  PROVE  [x EXCEPT !.reads = s, !.remaining = n, !.next_chunk = k, !.final_issued = f,
                   !.active_reads = a] \in RequestType
BY DEF RequestType

(* After a turn of the loop for request r, whose record is y by then: the  *)
(* loop ends, or it has taken buffer a and record e for the next read.     *)
LoopEnds(y, r) ==
  /\ y.active_reads = par[r].active_reads
  /\ game' = "idle" /\ cur' = NoService /\ UNCHANGED <<bufferFree, readFree>>

LoopGoesOn(y, r, a, e) ==
  /\ y.active_reads = par[r].active_reads + 1 /\ y.remaining > 0
  /\ game' = "issue"
  /\ bufferFree[a] /\ bufferFree' = [bufferFree EXCEPT ![a] = FALSE]
  /\ e \in ToSet(readFree) /\ e \notin ToSet(readFree')
  /\ ToSet(readFree) = {e} \cup ToSet(readFree')
  /\ readFree' \in Seq(FileReads) /\ IsInjective(readFree')
  /\ cur' = [request |-> r, read |-> e, buffer |-> a]

(* What a turn of the loop does: the read it had a record and a buffer for *)
(* is started, and the loop ends or has taken the next ones.               *)
LEMMA IssueView ==
  ASSUME IndInv, IssueRead
  PROVE  \E r \in Requests, d \in FileReads, b \in Buffers, c \in Commands,
            y \in RequestType :
           /\ cur.request = r /\ cur.read = d /\ cur.buffer = b
           /\ cmd[c].state = "free" /\ cmds' = Append(cmds, c)
           /\ fileRead' = [fileRead EXCEPT ![d] =
                [owner |-> r, buffer |-> b, command |-> c, chunk |-> par[r].next_chunk]]
           /\ cmd' = [cmd EXCEPT ![c] = [state |-> "waiting", read |-> d, buffer |-> b,
                                         dropped |-> FALSE]]
           /\ par[r].in_use /\ ~par[r].queued /\ par[r].client \in Clients
           /\ par[r].remaining > 0 /\ par[r].next_chunk \in 0 .. MaxChunks
           /\ par' = [par EXCEPT ![r] = y]
           /\ y.in_use /\ ~y.queued /\ y.reads = Append(par[r].reads, d)
           /\ y.remaining = par[r].remaining - 1 /\ y.next_chunk = par[r].next_chunk + 1
           /\ y.final_issued <=> y.remaining = 0
           /\ y.generation = par[r].generation /\ y.client = par[r].client
           /\ \/ LoopEnds(y, r)
              \/ \E a \in Buffers, e \in FileReads : LoopGoesOn(y, r, a, e)
           /\ UNCHANGED <<parFree, parQueue, clientVars, arqVars, tickVars, panic,
                          historyVars>>
<1>1. PICK r, d, b, left :
        r = cur.request /\ d = cur.read /\ b = cur.buffer /\ left = par[r].remaining - 1
  OBVIOUS
<1> DEFINE issued == [par EXCEPT ![r].reads = Append(@, d),
                                 ![r].remaining = left,
                                 ![r].next_chunk = @ + 1,
                                 ![r].final_issued = @ \/ left = 0]
           y(a) == [par[r] EXCEPT !.reads = Append(par[r].reads, d),
                                  !.remaining = left,
                                  !.next_chunk = par[r].next_chunk + 1,
                                  !.final_issued = par[r].final_issued \/ left = 0,
                                  !.active_reads = a]
<1>2. game = "issue" /\ UNCHANGED <<parFree, parQueue, clientVars, arqVars, tickVars, panic,
                                    historyVars>>
  BY DEF IssueRead
<1>3. PICK c \in Commands :
        /\ cmd[c].state = "free" /\ cmds' = Append(cmds, c)
        /\ fileRead' = [fileRead EXCEPT ![d] =
             [owner |-> r, buffer |-> b, command |-> c, chunk |-> par[r].next_chunk]]
        /\ cmd' = [cmd EXCEPT ![c] = [state |-> "waiting", read |-> d, buffer |-> b,
                                      dropped |-> FALSE]]
  BY <1>1 DEF IssueRead
<1>4. IF More(r, left) THEN Take(issued, r)
      ELSE par' = issued /\ Leave /\ UNCHANGED <<bufferFree, readFree>>
  BY <1>1 DEF IssueRead
<1>5. cur \in ServiceType /\ par[r].in_use /\ ~par[r].queued /\ par[r].remaining > 0
  BY <1>1, <1>2 DEF IndInv, InService
<1>6. r \in Requests /\ d \in FileReads /\ b \in Buffers  BY <1>1, <1>5 DEF ServiceType
<1>7. par \in [Requests -> RequestType] /\ par[r] \in RequestType
  BY <1>6 DEF IndInv, Typed
<1>8. /\ par[r].active_reads \in 0 .. 3 /\ par[r].active_reads \in Nat
      /\ par[r].remaining \in 0 .. MaxChunks /\ par[r].next_chunk \in 0 .. MaxChunks + 1
      /\ par[r].reads \in Seq(FileReads)
  BY <1>7, RequestFields
<1>9. par[r].client \in Clients /\ ~par[r].final_issued
  <2>1. RequestKept(r)  BY <1>6 DEF IndInv, RequestsKept
  <2>2. par[r].client # None /\ (par[r].final_issued <=> par[r].remaining = 0)
    BY <1>5, <2>1 DEF RequestKept
  <2>3. par[r].client \in Clients \cup {None}  BY <1>7 DEF RequestType
  <2>4. QED  BY <1>5, <1>8, <2>2, <2>3, SMTT(40)
<1>10. par[r].next_chunk \in 0 .. MaxChunks
  <2>1. total[par[r].client] \in 0 .. MaxChunks  BY <1>9 DEF IndInv, Typed
  <2>2. total[par[r].client] = par[r].next_chunk - 1 + par[r].remaining
    BY <1>5, <1>6 DEF IndInv, ChunksKept
  <2>3. QED  BY <1>5, <1>8, <2>1, <2>2, SMTT(40)
<1>11. left \in 0 .. MaxChunks /\ par[r].next_chunk + 1 \in 0 .. MaxChunks + 1
  <2>1. par[r].next_chunk + 1 \in 0 .. MaxChunks + 1  BY <1>10
  <2>2. par[r].remaining - 1 \in 0 .. MaxChunks  BY <1>5, <1>8, SMTT(40)
  <2>3. QED  BY <1>1, <2>1, <2>2
<1>12. Append(par[r].reads, d) \in Seq(FileReads)  BY <1>6, <1>8
<1>13. ASSUME NEW a \in 0 .. 3
       PROVE  /\ y(a) \in RequestType /\ y(a).active_reads = a
              /\ y(a).in_use /\ ~y(a).queued /\ y(a).reads = Append(par[r].reads, d)
              /\ y(a).remaining = left /\ y(a).next_chunk = par[r].next_chunk + 1
              /\ (y(a).final_issued <=> left = 0)
              /\ y(a).generation = par[r].generation /\ y(a).client = par[r].client
  <2>1. (par[r].final_issued \/ left = 0) \in BOOLEAN  OBVIOUS
  <2>2. y(a) \in RequestType
    BY <1>7, <1>11, <1>12, <1>13, <2>1, IssuedTyped
  <2>3. QED  BY <1>5, <1>7, <1>9, <2>2 DEF RequestType
<1>14. issued = [par EXCEPT ![r] = y(par[r].active_reads)]
  BY <1>6, <1>7, ZenonT(60) DEF RequestType
<1>15. CASE ~More(r, left)
  <2>1. /\ par' = [par EXCEPT ![r] = y(par[r].active_reads)]
        /\ game' = "idle" /\ cur' = NoService /\ UNCHANGED <<bufferFree, readFree>>
    BY <1>4, <1>14, <1>15 DEF Leave
  <2>2. PICK z \in RequestType : z = y(par[r].active_reads)
    BY <1>8, <1>13
  <2>3. /\ z.active_reads = par[r].active_reads
        /\ z.in_use /\ ~z.queued /\ z.reads = Append(par[r].reads, d)
        /\ z.remaining = par[r].remaining - 1 /\ z.next_chunk = par[r].next_chunk + 1
        /\ (z.final_issued <=> z.remaining = 0)
        /\ z.generation = par[r].generation /\ z.client = par[r].client
    BY <1>1, <1>8, <1>13, <2>2
  <2> HIDE DEF y, issued
  <2>4. par' = [par EXCEPT ![r] = z]  BY <2>1, <2>2
  <2>5. QED
    BY <1>1, <1>2, <1>3, <1>5, <1>6, <1>9, <1>10, <2>1, <2>3, <2>4 DEF LoopEnds
<1>16. CASE More(r, left)
  <2> DEFINE n == par[r].active_reads + 1
  <2>1. FreeBuffers # {} /\ n \in 0 .. 3 /\ left > 0
    BY <1>8, <1>11, <1>16, SMTT(40) DEF More
  <2>2. Take(issued, r)  BY <1>4, <1>16
  <2> HIDE DEF issued
  <2>3. PICK a \in Buffers, e \in FileReads :
          /\ bufferFree[a] /\ bufferFree' = [bufferFree EXCEPT ![a] = FALSE]
          /\ e \in ToSet(readFree) /\ e \notin ToSet(readFree')
          /\ ToSet(readFree) = {e} \cup ToSet(readFree')
          /\ readFree' \in Seq(FileReads) /\ IsInjective(readFree')
          /\ par' = [issued EXCEPT ![r].active_reads = @ + 1]
          /\ game' = "issue" /\ cur' = [request |-> r, read |-> e, buffer |-> a]
    BY <2>1, <2>2, TakeView
  <2>4. par' = [par EXCEPT ![r] = y(n)]
    <3>1. issued[r] = y(par[r].active_reads)  BY <1>6, <1>7, <1>14
    <3>2. issued[r].active_reads = par[r].active_reads  BY <1>8, <1>13, <3>1
    <3>3. [y(par[r].active_reads) EXCEPT !.active_reads = n] = y(n)
      BY <1>7 DEF RequestType
    <3>4. par' = [issued EXCEPT ![r] = [issued[r] EXCEPT !.active_reads = n]]
      BY <2>3, <3>2
    <3> HIDE DEF y, n
    <3>5. QED  BY <1>6, <1>7, <1>14, <3>1, <3>3, <3>4
  <2>5. PICK z \in RequestType : z = y(n)
    BY <1>13, <2>1
  <2>6. /\ z.active_reads = par[r].active_reads + 1 /\ z.remaining > 0
        /\ z.in_use /\ ~z.queued /\ z.reads = Append(par[r].reads, d)
        /\ z.remaining = par[r].remaining - 1 /\ z.next_chunk = par[r].next_chunk + 1
        /\ (z.final_issued <=> z.remaining = 0)
        /\ z.generation = par[r].generation /\ z.client = par[r].client
    BY <1>1, <1>13, <2>1, <2>5
  <2> HIDE DEF y, n
  <2>7. par' = [par EXCEPT ![r] = z]  BY <2>4, <2>5
  <2>8. QED
    BY <1>1, <1>2, <1>3, <1>5, <1>6, <1>9, <1>10, <2>3, <2>6, <2>7 DEF LoopGoesOn
<1>17. QED  BY <1>15, <1>16

LEMMA OneMore ==
  ASSUME NEW n \in Nat, NEW k \in Nat, NEW l \in Nat
  PROVE  /\ (k + 1) - 1 + (n - 1) = k - 1 + n
         /\ (k + 1) - 1 - (l + 1) = k - 1 - l
         /\ (k - 1 - l) + (l + 1) = k
OBVIOUS

(* IssueRead keeps the invariant.                                          *)
LEMMA IssueReadKeeps ==
  ASSUME IndInv, IssueRead
  PROVE  IndInv'
<1>1. PICK r \in Requests, d \in FileReads, b \in Buffers, c \in Commands,
           y \in RequestType :
        /\ cur.request = r /\ cur.read = d /\ cur.buffer = b
        /\ cmd[c].state = "free" /\ cmds' = Append(cmds, c)
        /\ fileRead' = [fileRead EXCEPT ![d] =
             [owner |-> r, buffer |-> b, command |-> c, chunk |-> par[r].next_chunk]]
        /\ cmd' = [cmd EXCEPT ![c] = [state |-> "waiting", read |-> d, buffer |-> b,
                                      dropped |-> FALSE]]
        /\ par[r].in_use /\ ~par[r].queued /\ par[r].client \in Clients
        /\ par[r].remaining > 0 /\ par[r].next_chunk \in 0 .. MaxChunks
        /\ par' = [par EXCEPT ![r] = y]
        /\ y.in_use /\ ~y.queued /\ y.reads = Append(par[r].reads, d)
        /\ y.remaining = par[r].remaining - 1 /\ y.next_chunk = par[r].next_chunk + 1
        /\ y.final_issued <=> y.remaining = 0
        /\ y.generation = par[r].generation /\ y.client = par[r].client
        /\ \/ LoopEnds(y, r)
           \/ \E a \in Buffers, e \in FileReads : LoopGoesOn(y, r, a, e)
        /\ UNCHANGED <<parFree, parQueue, clientVars, arqVars, tickVars, panic,
                       historyVars>>
  BY IssueView
<1> USE DEF LoopEnds, LoopGoesOn
<1>2. /\ par \in [Requests -> RequestType] /\ parFree \in Seq(Requests)
      /\ parQueue \in Seq(Requests) /\ cmds \in Seq(Commands) /\ IsInjective(cmds)
      /\ fileRead \in [FileReads -> [owner : Requests \cup {None},
                                     buffer : Buffers \cup {None},
                                     command : Commands \cup {None},
                                     chunk : 0 .. MaxChunks]]
      /\ cmd \in [Commands -> [state : {"free", "waiting", "reading", "finished"},
                               read : FileReads \cup {None},
                               buffer : Buffers \cup {None}, dropped : BOOLEAN]]
      /\ bufferFree \in [Buffers -> BOOLEAN] /\ readFree \in Seq(FileReads)
  BY DEF IndInv, Typed, TypeOK, CommandsKept
<1>3. \A q \in Requests : /\ par[q].reads \in Seq(FileReads) /\ Len(par[q].reads) \in Nat
                         /\ par[q].active_reads \in Nat /\ IsInjective(par[q].reads)
  BY <1>2, RequestFields DEF IndInv, RecordsKept
<1>4. /\ fileRead[d] = NoRead /\ d \notin ToSet(readFree) /\ IsInjective(readFree)
      /\ \A q \in Requests : d \notin Linked(q)
  <2>1. fileRead[d] = NoRead /\ d \notin ToSet(readFree) /\ IsInjective(readFree)
    BY <1>1 DEF IndInv, RecordsKept, RecordKept
  <2>2. \A q \in Requests : q # None  OBVIOUS
  <2>3. QED  BY <2>1, <2>2 DEF IndInv, RecordsKept, NoRead
<1>5. /\ ~bufferFree[b] /\ ~InRead(b) /\ upload[b].transfers = 0 /\ ~Returning(b)
  BY <1>1 DEF IndInv, BuffersKept, BufferKept
<1>6. /\ fileRead'[d] = [owner |-> r, buffer |-> b, command |-> c,
                         chunk |-> par[r].next_chunk]
      /\ fileRead'[d] # NoRead
      /\ \A e \in FileReads : e # d => fileRead'[e] = fileRead[e]
  <2>1. /\ fileRead'[d] = [owner |-> r, buffer |-> b, command |-> c,
                           chunk |-> par[r].next_chunk]
        /\ \A e \in FileReads : e # d => fileRead'[e] = fileRead[e]
    BY <1>1, <1>2
  <2>2. r # None  OBVIOUS
  <2>3. QED  BY <2>1, <2>2 DEF NoRead
<1>7. /\ c \notin ToSet(cmds) /\ \A e \in FileReads : fileRead[e].command # c
  <2>1. c \notin ToSet(cmds)  BY <1>1 DEF IndInv, CommandsKept, CommandKept
  <2>2. ASSUME NEW e \in FileReads, fileRead[e].command = c PROVE FALSE
    <3>1. fileRead[e] # NoRead  BY <2>2 DEF NoRead
    <3>2. QED  BY <1>1, <2>2, <3>1 DEF IndInv, CommandsKept
  <2>3. QED  BY <2>1, <2>2
<1>8. /\ cmds' \in Seq(Commands) /\ IsInjective(cmds') /\ ToSet(cmds') = ToSet(cmds) \cup {c}
      /\ Len(cmds) \in Nat /\ Len(cmds') = Len(cmds) + 1 /\ cmds'[Len(cmds) + 1] = c
      /\ \A i \in 1 .. Len(cmds) : /\ cmds'[i] = cmds[i] /\ cmds[i] \in Commands
                                   /\ cmds[i] # c
  <2>1. /\ cmds' \in Seq(Commands) /\ IsInjective(cmds')
        /\ ToSet(cmds') = ToSet(cmds) \cup {c}
    BY <1>1, <1>2, <1>7, ElemsAppend, SMTT(40)
  <2>2. /\ Len(cmds) \in Nat /\ Len(cmds') = Len(cmds) + 1 /\ cmds'[Len(cmds) + 1] = c
        /\ \A i \in 1 .. Len(cmds) : cmds'[i] = cmds[i]
    BY <1>1, <1>2, SMTT(40)
  <2>3. \A i \in 1 .. Len(cmds) : cmds[i] \in Commands /\ cmds[i] # c
    BY <1>2, <1>7, ElemAt, SMTT(40)
  <2>4. QED  BY <2>1, <2>2, <2>3
<1>9. /\ cmd'[c] = [state |-> "waiting", read |-> d, buffer |-> b, dropped |-> FALSE]
      /\ \A e \in Commands : e # c => cmd'[e] = cmd[e]
  BY <1>1, <1>2
<1>10. /\ par' \in [Requests -> RequestType] /\ par'[r] = y
       /\ \A q \in Requests : q # r => par'[q] = par[q]
       /\ \A q \in Requests : /\ par'[q].client = par[q].client
                              /\ par'[q].generation = par[q].generation
                              /\ par'[q].in_use = par[q].in_use
                              /\ par'[q].queued = par[q].queued
  <2>1. /\ par' \in [Requests -> RequestType] /\ par'[r] = y
        /\ \A q \in Requests : q # r => par'[q] = par[q]
    BY <1>1, <1>2
  <2>2. y.in_use = par[r].in_use /\ y.queued = par[r].queued
    BY <1>1, <1>2 DEF RequestType
  <2>3. QED  BY <1>1, <2>1, <2>2
<1>11. /\ y.reads \in Seq(FileReads) /\ ToSet(y.reads) = Linked(r) \cup {d}
       /\ IsInjective(y.reads) /\ Len(y.reads) = Len(par[r].reads) + 1
       /\ y.reads[Len(par[r].reads) + 1] = d
       /\ \A i \in 1 .. Len(par[r].reads) : y.reads[i] = par[r].reads[i]
  <2>1. /\ y.reads \in Seq(FileReads) /\ ToSet(y.reads) = Linked(r) \cup {d}
        /\ IsInjective(y.reads)
    BY <1>1, <1>3, <1>4, ElemsAppend DEF Linked
  <2>2. QED  BY <1>1, <1>3, <2>1
<1>12. \A q \in Requests : \A i \in 1 .. Len(par[q].reads) :
          /\ par[q].reads[i] \in FileReads
          /\ fileRead'[par[q].reads[i]] = fileRead[par[q].reads[i]]
  <2>1. ASSUME NEW q \in Requests, NEW i \in 1 .. Len(par[q].reads)
        PROVE  par[q].reads[i] \in FileReads /\ par[q].reads[i] \in Linked(q)
    BY <1>3, ElemAt DEF Linked
  <2>2. QED  BY <1>4, <1>6, <2>1
<1>13. Typed'
  <2>1. \A q \in Requests :
          /\ par'[q].active_reads \in 0 .. 3 /\ par'[q].remaining \in 0 .. MaxChunks
          /\ par'[q].generation \in 0 .. Generations - 1
          /\ par'[q].client \in Clients \cup {None} /\ par'[q].reads \in Seq(FileReads)
    BY <1>10 DEF RequestType
  <2>2. fileRead' \in [FileReads -> [owner : Requests \cup {None},
                                     buffer : Buffers \cup {None},
                                     command : Commands \cup {None},
                                     chunk : 0 .. MaxChunks]]
    BY <1>1, <1>2
  <2>3. cmd' \in [Commands -> [state : {"free", "waiting", "reading", "finished"},
                               read : FileReads \cup {None},
                               buffer : Buffers \cup {None}, dropped : BOOLEAN]]
    BY <1>1, <1>2
  <2>4. /\ bufferFree' \in [Buffers -> BOOLEAN] /\ readFree' \in Seq(FileReads)
        /\ game' \in {"idle", "service", "issue"}
    BY <1>1, <1>2
  <2>5. QED
    BY <1>1, <1>8, <1>10, <2>1, <2>2, <2>3, <2>4 DEF IndInv, Typed, TypeOK
<1>14. InService'
  <2>1. CASE LoopEnds(y, r)  BY <2>1 DEF InService
  <2>2. ASSUME NEW a \in Buffers, NEW e \in FileReads, LoopGoesOn(y, r, a, e)
        PROVE  InService'
    <3>1. cur' \in ServiceType  BY <2>2 DEF ServiceType
    <3>2. game' = "issue" /\ cur'.request = r /\ y.remaining > 0  BY <2>2
    <3>3. QED  BY <1>1, <1>10, <3>1, <3>2 DEF InService
  <2>3. QED  BY <1>1, <2>1, <2>2
<1>15. RequestsKept'
  <2>1. ASSUME NEW q \in Requests PROVE RequestKept(q)'
    <3>1. RequestKept(q)  BY DEF IndInv, RequestsKept
    <3>2. CASE q = r
      <4>1. par[r].active_reads = Len(par[r].reads) + 1
        BY <1>1, <3>1, <3>2 DEF RequestKept, Started
      <4>2. y.active_reads = Len(y.reads) + (IF cur'.request = r THEN 1 ELSE 0)
        <5>1. CASE LoopEnds(y, r)
          <6>1. cur'.request # r  BY <5>1 DEF NoService
          <6>2. QED  BY <1>3, <1>11, <4>1, <5>1, <6>1
        <5>2. ASSUME NEW a \in Buffers, NEW e \in FileReads, LoopGoesOn(y, r, a, e)
              PROVE  y.active_reads = Len(y.reads) + (IF cur'.request = r THEN 1 ELSE 0)
          <6>1. cur'.request = r  BY <5>2
          <6>2. QED  BY <1>3, <1>11, <4>1, <5>2, <6>1
        <5>3. QED  BY <1>1, <5>1, <5>2
      <4>3. y.active_reads > 0
        <5>1. /\ Len(par[r].reads) \in Nat
              /\ \/ y.active_reads = par[r].active_reads
                 \/ y.active_reads = par[r].active_reads + 1
          BY <1>1, <1>3
        <5>2. QED  BY <4>1, <5>1
      <4>4. parFree' = parFree /\ parQueue' = parQueue /\ y.client # None
        BY <1>1
      <4>5. QED
        BY <1>1, <1>10, <3>1, <3>2, <4>2, <4>3, <4>4 DEF RequestKept, Started
    <3>3. CASE q # r
      <4>1. cur.request # q /\ cur'.request # q
        BY <1>1, <3>3 DEF NoService
      <4>2. par'[q] = par[q] /\ parFree' = parFree /\ parQueue' = parQueue
        BY <1>1, <1>10, <3>3
      <4>3. QED  BY <3>1, <4>1, <4>2 DEF RequestKept, Started
    <3>4. QED  BY <3>2, <3>3
  <2>2. QED  BY <1>1, <2>1 DEF IndInv, RequestsKept
<1>16. RecordsKept'
  <2>1. \A q \in Requests : Linked(q)' = IF q = r THEN Linked(r) \cup {d} ELSE Linked(q)
    BY <1>10, <1>11 DEF Linked
  <2>2. ASSUME NEW e \in FileReads, e # d, fileRead[e] # NoRead
        PROVE  /\ fileRead'[e].owner # None /\ fileRead'[e].buffer # None
               /\ fileRead'[e].command # None
               /\ e \in Linked(fileRead[e].owner)'
    <3>1. RecordKept(e) /\ fileRead'[e] = fileRead[e]
      BY <1>6, <2>2 DEF IndInv, RecordsKept
    <3>2. /\ fileRead[e].owner # None /\ fileRead[e].buffer # None
          /\ fileRead[e].command # None /\ e \in Linked(fileRead[e].owner)
      BY <2>2, <3>1 DEF RecordKept
    <3>3. fileRead[e].owner \in Requests  BY <1>2, <3>2
    <3>4. QED  BY <2>1, <3>1, <3>2, <3>3
  <2>3. /\ fileRead'[d].owner # None /\ fileRead'[d].buffer # None
        /\ fileRead'[d].command # None /\ d \in Linked(fileRead[d].owner)'
    <3>1. r # None /\ b # None /\ c # None  OBVIOUS
    <3>2. QED  BY <1>6, <2>1, <3>1
  <2>4. ASSUME NEW e \in FileReads
        PROVE  /\ e \in ToSet(readFree') <=> fileRead'[e] = NoRead /\ cur'.read # e
               /\ cur'.read = e => fileRead'[e] = NoRead
    <3>1. e \in ToSet(readFree) <=> fileRead[e] = NoRead /\ e # d
      BY <1>1 DEF IndInv, RecordsKept, RecordKept
    <3>2. fileRead'[e] = NoRead <=> fileRead[e] = NoRead /\ e # d
      BY <1>4, <1>6
    <3>3. CASE LoopEnds(y, r)
      <4>1. cur'.read # e  BY <3>3 DEF NoService, FileReads, Buffers
      <4>2. QED  BY <3>1, <3>2, <3>3, <4>1
    <3>4. ASSUME NEW a \in Buffers, NEW f \in FileReads, LoopGoesOn(y, r, a, f)
          PROVE  /\ e \in ToSet(readFree') <=> fileRead'[e] = NoRead /\ cur'.read # e
                 /\ cur'.read = e => fileRead'[e] = NoRead
      <4>1. cur'.read = f  BY <3>4
      <4>2. QED  BY <3>1, <3>2, <3>4, <4>1
    <3>5. QED  BY <1>1, <3>3, <3>4
  <2>5. \A e \in FileReads : RecordKept(e)'
    BY <1>4, <1>6, <2>2, <2>3, <2>4 DEF RecordKept
  <2>6. IsInjective(readFree')  BY <1>1, <1>4
  <2>7. ASSUME NEW q \in Requests
        PROVE  IsInjective(par'[q].reads) /\ \A e \in Linked(q)' : fileRead'[e].owner = q
    <3>1. \A e \in Linked(q) : e \in FileReads /\ e # d /\ fileRead[e].owner = q
      BY <1>3, <1>4, ElemsIn DEF IndInv, RecordsKept, Linked
    <3>2. \A e \in Linked(q)' : fileRead'[e].owner = q
      BY <1>6, <2>1, <3>1
    <3>3. IsInjective(par'[q].reads)  BY <1>3, <1>10, <1>11
    <3>4. QED  BY <3>2, <3>3
  <2>8. QED  BY <2>5, <2>6, <2>7 DEF RecordsKept
<1>17. CommandsKept'
  <2>1. ASSUME NEW e \in Commands PROVE CommandKept(e)'
    <3>1. CASE e = c
      BY <1>6, <1>8, <1>9, <3>1 DEF CommandKept, Current
    <3>2. CASE e # c
      <4>1. CommandKept(e)  BY DEF IndInv, CommandsKept
      <4>2. cmd'[e] = cmd[e] /\ (e \in ToSet(cmds') <=> e \in ToSet(cmds))
        BY <1>8, <1>9, <3>2
      <4>3. cmd[e].state # "free" => (Current(e)' <=> Current(e))
        <5>1. cmd[e].state # "free" => cmd[e].read \in FileReads
          BY <4>1 DEF CommandKept
        <5>2. fileRead[d].command # e  BY <1>4 DEF NoRead
        <5>3. fileRead'[d].command # e  BY <1>6, <3>2
        <5>4. QED  BY <1>6, <4>2, <5>1, <5>2, <5>3 DEF Current
      <4>4. QED  BY <4>1, <4>2, <4>3 DEF CommandKept
    <3>3. QED  BY <3>1, <3>2
  <2>2. ASSUME NEW e \in FileReads, fileRead'[e] # NoRead
        PROVE  /\ cmd'[fileRead'[e].command].state # "free"
               /\ cmd'[fileRead'[e].command].read = e
               /\ cmd'[fileRead'[e].command].buffer = fileRead'[e].buffer
    <3>1. CASE e = d  BY <1>6, <1>9, <3>1
    <3>2. CASE e # d
      <4>1. fileRead'[e] = fileRead[e] /\ fileRead[e].command # c
        BY <1>6, <1>7, <3>2
      <4>2. fileRead[e].command \in Commands
        BY <1>2, <2>2, <4>1 DEF IndInv, RecordsKept, RecordKept
      <4>3. cmd'[fileRead[e].command] = cmd[fileRead[e].command]
        BY <1>9, <4>1, <4>2
      <4>4. QED  BY <2>2, <4>1, <4>3 DEF IndInv, CommandsKept
    <3>3. QED  BY <3>1, <3>2
  <2>3. QED  BY <1>8, <2>1, <2>2 DEF CommandsKept
<1>18. InTurn'
  <2> SUFFICES ASSUME NEW m \in 1 .. Len(cmds'), NEW n \in 1 .. Len(cmds'), m < n,
                      cmd'[cmds'[n]].state \in {"reading", "finished"}
               PROVE  cmd'[cmds'[m]].state = "finished"
    BY DEF InTurn
  <2>1. cmds'[n] # c  BY <1>9
  <2>2. n \in 1 .. Len(cmds) /\ m \in 1 .. Len(cmds)  BY <1>8, <2>1
  <2>3. QED  BY <1>8, <1>9, <2>2 DEF IndInv, InTurn
<1>19. ReadingApart'
  <2>1. ASSUME NEW e \in Commands, cmd'[e].state = "reading"
        PROVE  /\ upload'[cmd'[e].buffer].transfers = 0 /\ ~Returning(cmd[e].buffer)'
               /\ \A f \in FileReads : fileRead'[f].buffer = cmd'[e].buffer =>
                    cmd'[fileRead'[f].command].state # "finished"
    <3>1. e # c /\ cmd'[e] = cmd[e] /\ cmd[e].state = "reading"  BY <1>9, <2>1
    <3>2. /\ upload[cmd[e].buffer].transfers = 0 /\ ~Returning(cmd[e].buffer)
          /\ cmd[e].buffer \in Buffers
      BY <3>1 DEF IndInv, ReadingApart, CommandsKept, CommandKept
    <3>3. upload'[cmd'[e].buffer].transfers = 0 /\ ~Returning(cmd[e].buffer)'
      BY <1>1, <3>1, <3>2 DEF Returning
    <3>4. ASSUME NEW f \in FileReads, fileRead'[f].buffer = cmd[e].buffer
          PROVE  cmd'[fileRead'[f].command].state # "finished"
      <4>1. CASE f = d  BY <1>6, <1>9, <4>1
      <4>2. CASE f # d
        <5>1. fileRead'[f] = fileRead[f] /\ fileRead[f].command # c
          BY <1>6, <1>7, <4>2
        <5>2. fileRead[f] # NoRead  BY <3>2, <3>4, <5>1 DEF NoRead
        <5>3. fileRead[f].command \in Commands
          BY <1>2, <5>2 DEF IndInv, RecordsKept, RecordKept
        <5>4. cmd[fileRead[f].command].state # "finished"
          BY <3>1, <3>4, <5>1 DEF IndInv, ReadingApart
        <5>5. QED  BY <1>9, <5>1, <5>3, <5>4
      <4>3. QED  BY <4>1, <4>2
    <3>5. QED  BY <3>1, <3>3, <3>4
  <2>2. QED  BY <2>1 DEF ReadingApart
<1>20. BuffersKept'
  <2>1. ASSUME NEW a \in Buffers
        PROVE  /\ InRead(a)' <=> InRead(a) \/ a = b
               /\ upload' = upload /\ Returning(a)' = Returning(a)
    <3>1. fileRead[d].buffer # a  BY <1>4 DEF NoRead
    <3>2. InRead(a)' <=> InRead(a) \/ a = b  BY <1>6, <3>1 DEF InRead
    <3>3. QED  BY <1>1, <3>2 DEF Returning
  <2>2. ASSUME NEW a \in Buffers PROVE BufferKept(a)'
    <3>1. BufferKept(a)  BY DEF IndInv, BuffersKept
    <3>2. CASE LoopEnds(y, r)
      <4>1. cur'.buffer # a /\ bufferFree' = bufferFree  BY <3>2 DEF NoService
      <4>2. QED  BY <1>1, <1>5, <2>1, <3>1, <4>1 DEF BufferKept
    <3>3. ASSUME NEW f \in Buffers, NEW e \in FileReads, LoopGoesOn(y, r, f, e)
          PROVE  BufferKept(a)'
      <4>1. cur'.buffer = f /\ (bufferFree'[a] <=> bufferFree[a] /\ a # f) /\ bufferFree[f]
        BY <1>2, <3>3
      <4>2. QED  BY <1>1, <1>5, <2>1, <3>1, <4>1 DEF BufferKept
    <3>4. QED  BY <1>1, <3>2, <3>3
  <2>3. ASSUME NEW e \in FileReads, NEW f \in FileReads,
               fileRead'[e].buffer = fileRead'[f].buffer, e # f
        PROVE  fileRead'[e].buffer = None
    <3>1. \A x \in FileReads : fileRead[x].buffer # b  BY <1>5 DEF InRead
    <3>2. e # d /\ f # d  BY <1>6, <2>3, <3>1
    <3>3. QED  BY <1>6, <2>3, <3>2 DEF IndInv, BuffersKept
  <2>4. QED  BY <2>2, <2>3 DEF BuffersKept
<1>21. BanksKept' /\ HandlesKept'
  <2>1. \A k : /\ Requested(k)' <=> Requested(k)
               /\ LastUpload(k)' = LastUpload(k) /\ Ending(k)' = Ending(k)
    BY <1>1, <1>10 DEF Requested, LastUpload, Ending
  <2>2. BanksKept'  BY <1>1, <2>1 DEF IndInv, BanksKept
  <2>3. \A t \in Streams : pending[t] # None => pending[t].index \in Requests
    BY HandleValid
  <2>4. pending' = pending  BY <1>1
  <2>5. HandlesKept'  BY <1>10, <2>3, <2>4 DEF IndInv, HandlesKept
  <2>6. QED  BY <2>2, <2>5
<1>22. ChunksKept'
  <2>1. \A k \in Clients : ~Requested(k)' => total'[k] = 0
    BY <1>1, <1>10 DEF IndInv, ChunksKept, Requested
  <2>2. ASSUME NEW q \in Requests, par'[q].in_use
        PROVE  /\ total'[par'[q].client] = par'[q].next_chunk - 1 + par'[q].remaining
               /\ got'[par'[q].client] = par'[q].next_chunk - 1 - Len(par'[q].reads)
               /\ \A i \in 1 .. Len(par'[q].reads) :
                    fileRead'[par'[q].reads[i]].chunk = got'[par'[q].client] + i
    <3>1. /\ total[par[q].client] = par[q].next_chunk - 1 + par[q].remaining
          /\ got[par[q].client] = par[q].next_chunk - 1 - Len(par[q].reads)
          /\ \A i \in 1 .. Len(par[q].reads) :
               fileRead'[par[q].reads[i]].chunk = got[par[q].client] + i
      <4>1. par[q].in_use  BY <1>10, <2>2
      <4>2. /\ total[par[q].client] = par[q].next_chunk - 1 + par[q].remaining
            /\ got[par[q].client] = par[q].next_chunk - 1 - Len(par[q].reads)
            /\ \A i \in 1 .. Len(par[q].reads) :
                 fileRead[par[q].reads[i]].chunk = got[par[q].client] + i
        BY <4>1 DEF IndInv, ChunksKept
      <4>3. QED  BY <1>12, <4>2
    <3>2. total' = total /\ got' = got  BY <1>1
    <3>3. CASE q # r  BY <1>10, <3>1, <3>2, <3>3
    <3>4. CASE q = r
      <4>1. /\ par[r].remaining \in Nat /\ par[r].next_chunk \in Nat
            /\ Len(par[r].reads) \in Nat
        BY <1>2, RequestFields
      <4>2. ASSUME NEW i \in 1 .. Len(y.reads)
            PROVE  fileRead'[y.reads[i]].chunk = got[par[r].client] + i
        <5>1. CASE i \in 1 .. Len(par[r].reads)  BY <1>11, <3>1, <3>4, <5>1
        <5>2. CASE i = Len(par[r].reads) + 1
          <6>1. y.reads[i] = d /\ fileRead'[d].chunk = par[r].next_chunk
            BY <1>6, <1>11, <5>2
          <6>2. got[par[r].client] = par[r].next_chunk - 1 - Len(par[r].reads)
            BY <3>1, <3>4
          <6>3. PICK n, l : n = par[r].next_chunk /\ l = Len(par[r].reads)  OBVIOUS
          <6>4. n \in Nat /\ l \in Nat /\ i = l + 1 /\ got[par[r].client] = n - 1 - l
            BY <4>1, <5>2, <6>2, <6>3
          <6>5. (n - 1 - l) + (l + 1) = n  BY <6>4, OneMore
          <6>6. QED  BY <6>1, <6>3, <6>4, <6>5
        <5>3. QED  BY <1>11, <4>1, <5>1, <5>2, SMTT(40)
      <4>3. /\ y.next_chunk - 1 + y.remaining = par[r].next_chunk - 1 + par[r].remaining
            /\ y.next_chunk - 1 - Len(y.reads) = par[r].next_chunk - 1 - Len(par[r].reads)
        <5>1. /\ y.remaining = par[r].remaining - 1 /\ y.next_chunk = par[r].next_chunk + 1
              /\ Len(y.reads) = Len(par[r].reads) + 1
          BY <1>1, <1>11
        <5>2. PICK n, k, l : n = par[r].remaining /\ k = par[r].next_chunk
                              /\ l = Len(par[r].reads)
          OBVIOUS
        <5>3. n \in Nat /\ k \in Nat /\ l \in Nat  BY <4>1, <5>2
        <5>4. y.remaining = n - 1 /\ y.next_chunk = k + 1 /\ Len(y.reads) = l + 1
          BY <5>1, <5>2
        <5>5. /\ (k + 1) - 1 + (n - 1) = k - 1 + n
              /\ (k + 1) - 1 - (l + 1) = k - 1 - l
          BY <5>3, OneMore
        <5>6. /\ y.next_chunk - 1 + y.remaining = (k + 1) - 1 + (n - 1)
              /\ y.next_chunk - 1 - Len(y.reads) = (k + 1) - 1 - (l + 1)
          BY <5>4
        <5>7. QED  BY <5>2, <5>5, <5>6
      <4>4. QED  BY <1>10, <3>1, <3>2, <3>4, <4>2, <4>3
    <3>5. QED  BY <3>3, <3>4
  <2>3. QED  BY <2>1, <2>2 DEF ChunksKept
<1>23. InOrder'
  <2> SUFFICES ASSUME NEW q \in Requests,
                      NEW i \in 1 .. Len(par'[q].reads), NEW k \in 1 .. Len(par'[q].reads),
                      NEW m \in 1 .. Len(cmds'), NEW o \in 1 .. Len(cmds'), i < k,
                      cmds'[m] = fileRead'[par'[q].reads[i]].command,
                      cmds'[o] = fileRead'[par'[q].reads[k]].command
               PROVE  m < o
    BY DEF InOrder
  <2>1. ASSUME NEW j \in 1 .. Len(par[q].reads), NEW l \in 1 .. Len(cmds'),
               cmds'[l] = fileRead'[par[q].reads[j]].command
        PROVE  /\ l \in 1 .. Len(cmds) /\ cmds[l] = fileRead[par[q].reads[j]].command
    <3>1. cmds'[l] # c /\ cmds'[l] = fileRead[par[q].reads[j]].command
      BY <1>7, <1>12, <2>1
    <3>2. l # Len(cmds) + 1  BY <1>8, <3>1
    <3>3. l \in 1 .. Len(cmds)  BY <1>8, <3>2
    <3>4. QED  BY <1>8, <3>1, <3>3
  <2>2. CASE i \in 1 .. Len(par[q].reads) /\ k \in 1 .. Len(par[q].reads)
    <3>1. par'[q].reads[i] = par[q].reads[i] /\ par'[q].reads[k] = par[q].reads[k]
      BY <1>10, <1>11, <2>2
    <3>2. m \in 1 .. Len(cmds) /\ cmds[m] = fileRead[par[q].reads[i]].command
      BY <2>1, <2>2, <3>1
    <3>3. o \in 1 .. Len(cmds) /\ cmds[o] = fileRead[par[q].reads[k]].command
      BY <2>1, <2>2, <3>1
    <3>4. QED  BY <2>2, <3>2, <3>3 DEF IndInv, InOrder
  <2>3. CASE q = r /\ k = Len(par[r].reads) + 1
    <3>1. i \in 1 .. Len(par[q].reads)  BY <1>3, <1>10, <1>11, <2>3, SMTT(40)
    <3>2. par'[q].reads[i] = par[q].reads[i] /\ par'[q].reads[k] = d
      BY <1>10, <1>11, <2>3, <3>1
    <3>3. m \in 1 .. Len(cmds)  BY <2>1, <3>1, <3>2
    <3>4. cmds'[o] = c  BY <1>6, <3>2
    <3>5. o \notin 1 .. Len(cmds)  BY <1>8, <3>4
    <3>6. Len(cmds) \in Nat /\ Len(cmds') = Len(cmds) + 1  BY <1>8
    <3>7. QED  BY <3>3, <3>5, <3>6
  <2>4. QED
    <3>1. \/ Len(par'[q].reads) = Len(par[q].reads)
          \/ q = r /\ Len(par'[q].reads) = Len(par[r].reads) + 1
      BY <1>10, <1>11
    <3>2. Len(par[q].reads) \in Nat  BY <1>3
    <3>3. i \in Nat /\ k \in Nat /\ i >= 1 /\ i < k /\ k <= Len(par'[q].reads)
      BY <1>10, <1>11, <3>1, <3>2
    <3>4. ASSUME NEW u \in Nat, NEW v \in Nat, v = u \/ v = u + 1, k <= v
          PROVE  \/ i \in 1 .. u /\ k \in 1 .. u
                 \/ v = u + 1 /\ k = u + 1
      BY <3>3, <3>4
    <3>5. \/ i \in 1 .. Len(par[q].reads) /\ k \in 1 .. Len(par[q].reads)
          \/ /\ Len(par'[q].reads) = Len(par[q].reads) + 1
             /\ k = Len(par[q].reads) + 1
      <4>1. PICK u, v : u = Len(par[q].reads) /\ v = Len(par'[q].reads)  OBVIOUS
      <4>2. u \in Nat /\ v \in Nat /\ (v = u \/ v = u + 1) /\ k <= v
        BY <3>1, <3>2, <3>3, <4>1, SMTT(40)
      <4>3. (i \in 1 .. u /\ k \in 1 .. u) \/ (v = u + 1 /\ k = u + 1)
        BY <3>4, <4>2
      <4>4. QED  BY <4>1, <4>3
    <3>6. Len(par'[q].reads) = Len(par[q].reads) + 1 => q = r
      BY <3>1, <3>2, SMTT(40)
    <3>7. QED  BY <2>2, <2>3, <3>5, <3>6
<1>24. QED
  BY <1>1, <1>13, <1>14, <1>15, <1>16, <1>17, <1>18, <1>19, <1>20, <1>21, <1>22, <1>23,
     Stable DEF IndInv

----------------------------------------------------------------------------
(* The end of a read that is still wanted.                                 *)

(* The request's last chunk, and any other.                                *)
RequestOver(r, y) ==
  /\ y = Cleared(par[r].generation)
  /\ parFree' = <<r>> \o parFree /\ parQueue' = parQueue /\ game' = "idle"

RequestGoesOn(r, y) ==
  /\ y.in_use /\ y.final_issued = par[r].final_issued
  /\ y.remaining = par[r].remaining /\ y.next_chunk = par[r].next_chunk
  /\ y.generation = par[r].generation /\ y.client = par[r].client
  /\ y.active_reads = par[r].active_reads - 1 /\ y.reads = Tail(par[r].reads)
  /\ parFree' = parFree
  /\ \/ /\ ~par[r].queued /\ y.queued /\ ~par[r].final_issued /\ y.active_reads <= 1
        /\ parQueue' = Append(parQueue, r) /\ game' = "service"
     \/ /\ y.queued = par[r].queued /\ (y.active_reads > 0 \/ y.queued)
        /\ parQueue' = parQueue /\ game' = "idle"

ClientGets(k, b, n, final) ==
  /\ upload' = [upload EXCEPT ![b] = [transfers |-> n, client |-> k, last |-> final]]
  /\ arqFree' = arqFree - n
  /\ pending' = IF final /\ k \in Streams THEN [pending EXCEPT ![k] = None] ELSE pending
  /\ total' = IF final THEN [total EXCEPT ![k] = 0] ELSE total
  /\ got' = [got EXCEPT ![k] = got[k] + 1]

(* The command that ends first is that of the request's first read.        *)
LEMMA FirstRead ==
  ASSUME IndInv, cmds # <<>>, cmd[Head(cmds)].state = "finished", Current(Head(cmds))
  PROVE  LET c == Head(cmds)
             d == cmd[c].read
             r == fileRead[d].owner
         IN  /\ c \in Commands /\ d \in FileReads /\ r \in Requests
             /\ fileRead[d].buffer \in Buffers /\ fileRead[d].buffer = cmd[c].buffer
             /\ fileRead[d] # NoRead
             /\ par[r].reads # <<>> /\ d = Head(par[r].reads)
<1> DEFINE c == Head(cmds)
           d == cmd[c].read
           r == fileRead[d].owner
<1>1. cmds \in Seq(Commands) /\ c \in Commands /\ cmds[1] = c /\ 1 \in 1 .. Len(cmds)
  <2>1. cmds \in Seq(Commands)  BY DEF IndInv, Typed, TypeOK
  <2>2. QED  BY <2>1
<1>2. d \in FileReads /\ fileRead[d].command = c
  BY <1>1 DEF IndInv, CommandsKept, CommandKept, Current
<1> HIDE DEF c, d
<1>3. fileRead[d] # NoRead  BY <1>1, <1>2 DEF NoRead
<1>4. /\ r \in Requests /\ fileRead[d].buffer \in Buffers /\ d \in Linked(r)
      /\ fileRead[d].buffer = cmd[c].buffer
  BY <1>2, <1>3 DEF IndInv, Typed, TypeOK, RecordsKept, RecordKept, CommandsKept
<1> HIDE DEF r
<1>5. par[r].reads \in Seq(FileReads) /\ Len(par[r].reads) \in Nat
  <2>1. par[r] \in RequestType  BY <1>4 DEF IndInv, Typed
  <2>2. QED  BY <2>1, RequestFields
<1>6. PICK i \in 1 .. Len(par[r].reads) : par[r].reads[i] = d
  BY <1>4, <1>5, SetView DEF Linked
<1>7. i = 1
  <2> SUFFICES ASSUME 1 < i PROVE FALSE
    BY <1>5, <1>6
  <2>1. 1 \in 1 .. Len(par[r].reads)  BY <1>5, <1>6
  <2>2. PICK e \in FileReads : e = par[r].reads[1] /\ e \in Linked(r)
    BY <1>5, <2>1, ElemAt DEF Linked
  <2>3. fileRead[e].owner = r /\ fileRead[e] # NoRead
    <3>1. fileRead[e].owner = r  BY <1>4, <2>2 DEF IndInv, RecordsKept
    <3>2. r # None  BY <1>4
    <3>3. QED  BY <3>1, <3>2 DEF NoRead
  <2>4. fileRead[e].command \in ToSet(cmds)
    BY <2>3 DEF IndInv, Typed, TypeOK, RecordsKept, RecordKept, CommandsKept, CommandKept
  <2>5. PICK m \in 1 .. Len(cmds) : cmds[m] = fileRead[e].command
    BY <1>1, <2>4, SetView
  <2>6. m < 1
    BY <1>1, <1>2, <1>4, <1>6, <2>1, <2>2, <2>5, SMTT(40) DEF IndInv, InOrder
  <2>7. QED  BY <1>1, <2>5, <2>6
<1>8. par[r].reads # <<>> /\ d = Head(par[r].reads)
  BY <1>5, <1>6, <1>7
<1>9. QED  BY <1>1, <1>2, <1>3, <1>4, <1>8 DEF c, d, r

LEMMA GoesOnTyped ==
  ASSUME NEW x \in RequestType, NEW a \in 0 .. 3, NEW s \in Seq(FileReads),
         NEW f \in BOOLEAN
  PROVE  [x EXCEPT !.active_reads = a, !.reads = s, !.queued = f] \in RequestType
BY DEF RequestType

(* What the end of a wanted read does: command c, of the read with record  *)
(* d into buffer b for request r of client k, which starts n transfers.    *)
Completes(c, d, r, b, k, n, y, final) ==
  /\ game = "idle" /\ batch = 0 /\ cur = NoService
  /\ cmds # <<>> /\ c = Head(cmds) /\ cmds' = Tail(cmds)
  /\ cmd[c].state = "finished" /\ cmd[c].read = d
  /\ cmd' = [cmd EXCEPT ![c] = NoCommand]
  /\ fileRead[d].owner = r /\ fileRead[d].buffer = b /\ fileRead[d].command = c
  /\ fileRead[d] # NoRead /\ fileRead[d].chunk = got[k] + 1
  /\ fileRead' = [fileRead EXCEPT ![d] = NoRead] /\ readFree' = <<d>> \o readFree
  /\ par[r].client = k /\ par[r].in_use
  /\ par[r].reads # <<>> /\ d = Head(par[r].reads)
  /\ par[r].active_reads = Len(par[r].reads)
  /\ ClientGets(k, b, n, final)
  /\ par' = [par EXCEPT ![r] = y]
  /\ final <=> par[r].final_issued /\ par[r].active_reads = 1
  /\ \/ final /\ RequestOver(r, y)
     \/ ~final /\ RequestGoesOn(r, y)
  /\ UNCHANGED <<bufferFree, cur, loading, tickVars, panic>>

(* There is always room for the transfers, since the buffer has none.      *)
LEMMA CompletionView ==
  ASSUME IndInv, FileReadCompletion
  PROVE  \E c \in Commands, d \in FileReads, r \in Requests, b \in Buffers,
            k \in Clients, n \in 1 .. 2, y \in RequestType, final \in BOOLEAN :
           Completes(c, d, r, b, k, n, y, final)
<1>1. PICK c, d, r, b : /\ c = Head(cmds) /\ d = cmd[c].read
                        /\ r = fileRead[d].owner /\ b = fileRead[d].buffer
  OBVIOUS
<1>2. PICK active : active = par[r].active_reads - 1  OBVIOUS
<1>3. PICK k, final, over, append : /\ k = par[r].client /\ final = Final(r, active)
                                    /\ append = Enqueue(r, active)
                                    /\ over = (~Requeue(r, active) /\ active = 0)
  OBVIOUS
<1>4. /\ game = "idle" /\ batch = 0 /\ cmds # <<>> /\ cmd[c].state = "finished"
      /\ Current(c) /\ ClientCallback(k, b, fileRead[d].chunk, final)
      /\ par' = [par EXCEPT ![r] =
                   IF over THEN Cleared(@.generation)
                   ELSE [par[r] EXCEPT !.active_reads = active,
                                       !.reads = RemoveFirst(par[r].reads, d),
                                       !.queued = par[r].queued \/ append]]
      /\ parFree' = IF over THEN <<r>> \o parFree ELSE parFree
      /\ parQueue' = IF append THEN Append(parQueue, r) ELSE parQueue
      /\ fileRead' = [fileRead EXCEPT ![d] = NoRead]
      /\ readFree' = <<d>> \o readFree
      /\ cmd' = [cmd EXCEPT ![c] = NoCommand]
      /\ game' = IF append THEN "service" ELSE "idle"
      /\ cmds' = Tail(cmds)
      /\ UNCHANGED <<bufferFree, cur, loading, tickVars>>
  BY <1>1, <1>2, <1>3 DEF FileReadCompletion
<1>5. /\ c \in Commands /\ d \in FileReads /\ r \in Requests /\ b \in Buffers
      /\ fileRead[d] # NoRead /\ fileRead[d].command = c
      /\ par[r].reads # <<>> /\ d = Head(par[r].reads)
  <2>1. fileRead[d].command = c  BY <1>1, <1>4 DEF Current
  <2>2. QED  BY <1>1, <1>4, <2>1, FirstRead
<1>6. cur = NoService  BY <1>4 DEF IndInv, InService
<1>7. par \in [Requests -> RequestType] /\ par[r] \in RequestType
  BY <1>5 DEF IndInv, Typed
<1>8. /\ par[r].active_reads \in 0 .. 3 /\ par[r].active_reads \in Nat
      /\ par[r].remaining \in Nat
      /\ par[r].reads \in Seq(FileReads) /\ Len(par[r].reads) \in Nat
      /\ IsInjective(par[r].reads)
  BY <1>5, <1>7, RequestFields DEF IndInv, RecordsKept
<1>9. RequestKept(r) /\ cur.request # r
  BY <1>5, <1>6 DEF IndInv, RequestsKept, NoService
<1>10. par[r].active_reads = Len(par[r].reads) /\ Len(par[r].reads) > 0
  BY <1>5, <1>8, <1>9 DEF RequestKept, Started
<1>11. par[r].in_use /\ k \in Clients
  <2>1. par[r].in_use
    <3>1. ~par[r].in_use => par[r] = Cleared(par[r].generation)  BY <1>9 DEF RequestKept
    <3>2. QED  BY <1>5, <3>1 DEF Cleared
  <2>2. par[r].client # None  BY <1>9, <2>1 DEF RequestKept
  <2>3. QED  BY <1>3, <1>7, <2>1, <2>2 DEF RequestType
<1>12. fileRead[d].chunk = got[k] + 1
  <2>1. 1 \in 1 .. Len(par[r].reads) /\ par[r].reads[1] = d  BY <1>5, <1>8
  <2>2. QED  BY <1>3, <1>5, <1>11, <2>1 DEF IndInv, ChunksKept
<1>13. active \in 0 .. 2 /\ active \in 0 .. 3 /\ active = Len(par[r].reads) - 1
  BY <1>2, <1>8, <1>10
<1>14. /\ final \in BOOLEAN /\ append \in BOOLEAN /\ over \in BOOLEAN
       /\ final <=> par[r].final_issued /\ active = 0
       /\ append <=> ~par[r].final_issued /\ active <= 1 /\ ~par[r].queued
       /\ over <=> final
  <2>1. par[r].final_issued \in BOOLEAN /\ par[r].queued \in BOOLEAN
    BY <1>7 DEF RequestType
  <2>2. final = (par[r].final_issued /\ active = 0)  BY <1>3 DEF Final
  <2>3. append = ((~par[r].final_issued /\ active <= 1) /\ ~par[r].queued)
    BY <1>3 DEF Enqueue, Requeue
  <2>4. over = (~(~par[r].final_issued /\ active <= 1) /\ active = 0)
    BY <1>3 DEF Requeue
  <2>5. active = 0 => active <= 1
    <3>1. 0 <= 1  OBVIOUS
    <3>2. QED  BY <3>1, Zenon
  <2>6. over <=> final  BY <2>2, <2>4, <2>5, Zenon
  <2>7. final \in BOOLEAN /\ append \in BOOLEAN /\ over \in BOOLEAN
    BY <2>2, <2>3, <2>4, Zenon
  <2>8. QED  BY <2>2, <2>3, <2>6, <2>7, Zenon
<1>15. \E n \in 1 .. 2 : ClientGets(k, b, n, final) /\ UNCHANGED panic
  <2>1. upload \in [Buffers -> UploadType]  BY DEF IndInv, Typed
  <2>2. upload[b].transfers = 0
    <3>1. InRead(b)  BY <1>1, <1>5 DEF InRead
    <3>2. QED  BY <1>5, <3>1 DEF IndInv, BuffersKept, BufferKept
  <2>3. Cardinality(Under) \in Nat /\ Cardinality(Under) + 2 <= 2 * NumBuffers
    BY <1>5, <2>1, <2>2, UnderRoom
  <2>4. 2 <= arqFree /\ arqFree \in Int
    <3>1. arqFree = ArqSlots - Cardinality(Under)  BY DEF IndInv, UploadsKept
    <3>2. QED  BY <2>3, <3>1
  <2>5. PICK n \in Transfers(k) :
          IF n <= arqFree
          THEN /\ upload' = [upload EXCEPT ![b] = [transfers |-> n, client |-> k,
                                                   last |-> final]]
               /\ arqFree' = arqFree - n
               /\ UNCHANGED panic
          ELSE panic' = TRUE /\ UNCHANGED arqVars
    BY <1>4 DEF ClientCallback
  <2>6. n \in 1 .. 2  BY DEF Transfers
  <2>7. n <= arqFree  BY <2>4, <2>6
  <2>8. QED
    BY <1>4, <1>12, <2>5, <2>6, <2>7 DEF ClientCallback, ClientGets, Forget
<1>16. /\ RemoveFirst(par[r].reads, d) = Tail(par[r].reads)
       /\ Tail(par[r].reads) \in Seq(FileReads)
  <2>1. d \in ToSet(par[r].reads) /\ d = par[r].reads[1]
    BY <1>5, <1>8, ElemsTail
  <2>2. QED  BY <1>5, <1>8, <2>1, ElemsRemoveFirst, ElemsTail
<1>17. \E y \in RequestType : /\ par' = [par EXCEPT ![r] = y]
                              /\ \/ final /\ RequestOver(r, y)
                                 \/ ~final /\ RequestGoesOn(r, y)
  <2>1. CASE final
    <3>1. par' = [par EXCEPT ![r] = Cleared(par[r].generation)]
      BY <1>4, <1>5, <1>7, <1>14, <2>1
    <3>2. Cleared(par[r].generation) \in RequestType
      BY <1>7, ClearedTyped DEF RequestType
    <3>3. parFree' = <<r>> \o parFree /\ parQueue' = parQueue /\ game' = "idle"
      BY <1>4, <1>14, <2>1
    <3>4. QED  BY <2>1, <3>1, <3>2, <3>3 DEF RequestOver
  <2>2. CASE ~final
    <3> DEFINE q == par[r].queued \/ append
               y == [par[r] EXCEPT !.active_reads = active,
                                   !.reads = Tail(par[r].reads), !.queued = q]
    <3>1. q \in BOOLEAN /\ (par[r].queued => q = par[r].queued)
      BY <1>7 DEF RequestType
    <3>2. y \in RequestType  BY <1>7, <1>13, <1>16, <3>1, GoesOnTyped
    <3>3. par' = [par EXCEPT ![r] = y]
      <4>1. ~over  BY <1>14, <2>2
      <4>2. par' = [par EXCEPT ![r] = [par[r] EXCEPT
                                  !.active_reads = active,
                                  !.reads = RemoveFirst(par[r].reads, d),
                                  !.queued = par[r].queued \/ append]]
        BY <1>4, <4>1
      <4>3. QED  BY <1>16, <4>2
    <3>4. /\ y.in_use /\ y.final_issued = par[r].final_issued
          /\ y.remaining = par[r].remaining /\ y.next_chunk = par[r].next_chunk
          /\ y.generation = par[r].generation /\ y.client = par[r].client
          /\ y.active_reads = active /\ y.reads = Tail(par[r].reads) /\ y.queued = q
      BY <1>7, <1>11 DEF RequestType
    <3>5. parFree' = parFree  BY <1>4, <1>14, <2>2
    <3>6. append => /\ ~par[r].queued /\ q /\ ~par[r].final_issued /\ active <= 1
                    /\ parQueue' = Append(parQueue, r) /\ game' = "service"
      BY <1>4, <1>14
    <3>7. ~append => /\ q = par[r].queued /\ (active > 0 \/ q)
                     /\ parQueue' = parQueue /\ game' = "idle"
      <4>1. par[r].final_issued \in BOOLEAN /\ par[r].queued \in BOOLEAN
        BY <1>7 DEF RequestType
      <4>2. active \in {0, 1, 2}  BY <1>13
      <4>3. ~append => q = par[r].queued  BY <4>1
      <4>4. ~append => active > 0 \/ q  BY <1>14, <2>2, <4>2
      <4>5. ~append => parQueue' = parQueue /\ game' = "idle"  BY <1>4
      <4>6. QED  BY <4>3, <4>4, <4>5
    <3> HIDE DEF y, q
    <3>8. RequestGoesOn(r, y)
      BY <1>2, <3>4, <3>5, <3>6, <3>7 DEF RequestGoesOn
    <3>9. QED  BY <2>2, <3>2, <3>3, <3>8
  <2>3. QED  BY <2>1, <2>2
<1>18. par[r].active_reads = 1 <=> active = 0
  BY <1>2, <1>8
<1>19. PICK n \in 1 .. 2 : ClientGets(k, b, n, final) /\ UNCHANGED panic  BY <1>15
<1>20. PICK y \in RequestType : /\ par' = [par EXCEPT ![r] = y]
                                /\ \/ final /\ RequestOver(r, y)
                                   \/ ~final /\ RequestGoesOn(r, y)
  BY <1>17
<1>21. final <=> par[r].final_issued /\ par[r].active_reads = 1
  BY <1>14, <1>18
<1>22. Completes(c, d, r, b, k, n, y, final)
  BY <1>1, <1>3, <1>4, <1>5, <1>6, <1>10, <1>11, <1>12, <1>19, <1>20, <1>21 DEF Completes
<1>23. QED  BY <1>5, <1>11, <1>14, <1>22

(* What changes with it, and what does not.                                *)
LEMMA CompletionFacts ==
  ASSUME IndInv, NEW c \in Commands, NEW d \in FileReads, NEW r \in Requests,
         NEW b \in Buffers, NEW k \in Clients, NEW n \in 1 .. 2, NEW y \in RequestType,
         NEW final \in BOOLEAN, Completes(c, d, r, b, k, n, y, final)
  PROVE  /\ cmds' \in Seq(Commands) /\ IsInjective(cmds')
         /\ ToSet(cmds) = {c} \cup ToSet(cmds') /\ c \notin ToSet(cmds')
         /\ \A i \in 1 .. Len(cmds') :
              /\ i + 1 \in 1 .. Len(cmds) /\ cmds'[i] = cmds[i + 1]
              /\ cmds'[i] \in Commands /\ cmds'[i] # c
         /\ cmd'[c] = NoCommand /\ \A e \in Commands : e # c => cmd'[e] = cmd[e]
         /\ fileRead'[d] = NoRead
         /\ \A e \in FileReads : e # d => /\ fileRead'[e] = fileRead[e]
                                          /\ fileRead[e].command # c
                                          /\ fileRead[e].buffer # b
         /\ par' \in [Requests -> RequestType] /\ par'[r] = y
         /\ \A q \in Requests : q # r => /\ par'[q] = par[q]
                                         /\ d \notin Linked(q) /\ par[q].client # k
         /\ y.reads \in Seq(FileReads) /\ IsInjective(y.reads)
         /\ ToSet(y.reads) = Linked(r) \ {d} /\ Len(y.reads) = Len(par[r].reads) - 1
         /\ \A i \in 1 .. Len(y.reads) : /\ i + 1 \in 1 .. Len(par[r].reads)
                                         /\ y.reads[i] = par[r].reads[i + 1]
         /\ upload[b] = NoUpload /\ ~bufferFree[b] /\ ~Returning(b)
<1>1. /\ cmds \in Seq(Commands) /\ IsInjective(cmds) /\ Len(cmds) \in Nat
      /\ cmds # <<>> /\ c = Head(cmds) /\ cmds' = Tail(cmds)
  BY DEF IndInv, Typed, TypeOK, CommandsKept, Completes
<1>2. /\ cmds' \in Seq(Commands) /\ IsInjective(cmds')
      /\ ToSet(cmds) = {c} \cup ToSet(cmds') /\ c \notin ToSet(cmds')
  BY <1>1, ElemsTail
<1>3. ASSUME NEW i \in 1 .. Len(cmds')
      PROVE  /\ i + 1 \in 1 .. Len(cmds) /\ cmds'[i] = cmds[i + 1]
             /\ cmds'[i] \in Commands /\ cmds'[i] # c
  <2>1. i + 1 \in 1 .. Len(cmds) /\ cmds'[i] = cmds[i + 1]  BY <1>1, SMTT(40)
  <2>2. cmds'[i] \in Commands /\ cmds'[i] # c  BY <1>2, ElemAt
  <2>3. QED  BY <2>1, <2>2
<1>4. cmd'[c] = NoCommand /\ \A e \in Commands : e # c => cmd'[e] = cmd[e]
  BY DEF IndInv, Typed, TypeOK, Completes
<1>5. fileRead'[d] = NoRead /\ \A e \in FileReads : e # d => fileRead'[e] = fileRead[e]
  BY DEF IndInv, Typed, TypeOK, Completes
<1>6. ASSUME NEW e \in FileReads, e # d
      PROVE  fileRead[e].command # c /\ fileRead[e].buffer # b
  <2>1. cmd[c].read = d /\ fileRead[d].buffer = b  BY DEF Completes
  <2>2. fileRead[e].command # c
    <3> SUFFICES ASSUME fileRead[e].command = c PROVE FALSE
      OBVIOUS
    <3>1. fileRead[e] # NoRead  BY DEF NoRead
    <3>2. QED  BY <1>6, <2>1, <3>1 DEF IndInv, CommandsKept
  <2>3. fileRead[e].buffer # b
    BY <1>6, <2>1 DEF IndInv, BuffersKept
  <2>4. QED  BY <2>2, <2>3
<1>7. /\ par \in [Requests -> RequestType] /\ par' = [par EXCEPT ![r] = y]
      /\ par[r].reads \in Seq(FileReads) /\ Len(par[r].reads) \in Nat
      /\ IsInjective(par[r].reads)
      /\ par[r].reads # <<>> /\ d = Head(par[r].reads)
      /\ par[r].active_reads = Len(par[r].reads)
      /\ par[r].client = k /\ fileRead[d].owner = r
  <2>1. par \in [Requests -> RequestType] /\ IsInjective(par[r].reads)
    BY DEF IndInv, Typed, RecordsKept
  <2>2. par[r].reads \in Seq(FileReads) /\ Len(par[r].reads) \in Nat
    BY <2>1, RequestFields
  <2>3. QED  BY <2>1, <2>2 DEF Completes
<1>8. /\ par' \in [Requests -> RequestType] /\ par'[r] = y
      /\ \A q \in Requests : q # r => par'[q] = par[q]
  BY <1>7
<1>9. ASSUME NEW q \in Requests, q # r PROVE d \notin Linked(q) /\ par[q].client # k
  BY <1>7, <1>9 DEF IndInv, RecordsKept, HandlesKept
<1>10. y.reads = Tail(par[r].reads)
  <2>1. CASE final /\ RequestOver(r, y)
    <3>1. Len(par[r].reads) = 1  BY <1>7, <2>1 DEF Completes
    <3>2. Tail(par[r].reads) \in Seq(FileReads) /\ Len(Tail(par[r].reads)) = 0
      BY <1>7, <3>1
    <3>3. Tail(par[r].reads) = <<>>  BY <3>2, EmptySeq
    <3>4. QED  BY <2>1, <3>3 DEF RequestOver, Cleared
  <2>2. CASE ~final /\ RequestGoesOn(r, y)  BY <2>2 DEF RequestGoesOn
  <2>3. QED  BY <2>1, <2>2 DEF Completes
<1>11. /\ y.reads \in Seq(FileReads) /\ IsInjective(y.reads)
       /\ ToSet(y.reads) = Linked(r) \ {d}
  BY <1>7, <1>10, ElemsTail DEF Linked
<1>12. /\ Len(y.reads) = Len(par[r].reads) - 1
       /\ \A i \in 1 .. Len(y.reads) : /\ i + 1 \in 1 .. Len(par[r].reads)
                                       /\ y.reads[i] = par[r].reads[i + 1]
  BY <1>7, <1>10
<1>13. upload[b] = NoUpload /\ ~bufferFree[b] /\ ~Returning(b)
  <2>1. InRead(b)  BY DEF InRead, Completes
  <2>2. BufferKept(b) /\ UploadKept(b)  BY DEF IndInv, BuffersKept, UploadsKept
  <2>3. QED  BY <2>1, <2>2 DEF BufferKept, UploadKept
<1>14. QED
  BY <1>2, <1>3, <1>4, <1>5, <1>6, <1>8, <1>9, <1>11, <1>12, <1>13

(* The records, the commands and the buffers.                              *)
LEMMA CompletionKeepsReads ==
  ASSUME IndInv, NEW c \in Commands, NEW d \in FileReads, NEW r \in Requests,
         NEW b \in Buffers, NEW k \in Clients, NEW n \in 1 .. 2, NEW y \in RequestType,
         NEW final \in BOOLEAN, Completes(c, d, r, b, k, n, y, final)
  PROVE  RecordsKept' /\ CommandsKept' /\ BuffersKept'
<1>1. /\ cmds' \in Seq(Commands) /\ IsInjective(cmds')
      /\ ToSet(cmds) = {c} \cup ToSet(cmds') /\ c \notin ToSet(cmds')
      /\ cmd'[c] = NoCommand /\ \A e \in Commands : e # c => cmd'[e] = cmd[e]
      /\ fileRead'[d] = NoRead
      /\ \A e \in FileReads : e # d => /\ fileRead'[e] = fileRead[e]
                                       /\ fileRead[e].command # c
                                       /\ fileRead[e].buffer # b
      /\ par'[r] = y
      /\ \A q \in Requests : q # r => par'[q] = par[q] /\ d \notin Linked(q)
      /\ IsInjective(y.reads) /\ ToSet(y.reads) = Linked(r) \ {d}
      /\ upload[b] = NoUpload /\ ~bufferFree[b] /\ ~Returning(b)
  BY CompletionFacts
<1>2. /\ cur = NoService /\ cur' = NoService /\ readFree' = <<d>> \o readFree
      /\ bufferFree' = bufferFree /\ tickQueue' = tickQueue /\ processed' = processed
      /\ upload' = [upload EXCEPT ![b] = [transfers |-> n, client |-> k, last |-> final]]
      /\ fileRead[d] # NoRead /\ fileRead[d].command = c /\ fileRead[d].buffer = b
  BY DEF Completes, ClientGets
<1>3. RecordsKept'
  <2>1. d \notin ToSet(readFree) /\ readFree \in Seq(FileReads) /\ IsInjective(readFree)
    BY <1>2 DEF IndInv, Typed, TypeOK, RecordsKept, RecordKept
  <2>2. ToSet(readFree') = {d} \cup ToSet(readFree) /\ IsInjective(readFree')
    BY <1>2, <2>1, ElemsPush
  <2>3. \A q \in Requests : Linked(q)' = Linked(q) \ {d}
    BY <1>1 DEF Linked
  <2>4. ASSUME NEW e \in FileReads PROVE RecordKept(e)'
    <3>1. RecordKept(e)  BY DEF IndInv, RecordsKept
    <3>2. cur'.read # e /\ cur.read # e  BY <1>2 DEF NoService, FileReads, Buffers
    <3>3. CASE e = d  BY <1>1, <2>2, <3>2, <3>3 DEF RecordKept
    <3>4. CASE e # d
      <4>1. fileRead'[e] = fileRead[e] /\ (e \in ToSet(readFree') <=> e \in ToSet(readFree))
        BY <1>1, <2>2, <3>4
      <4>2. fileRead[e] # NoRead => fileRead[e].owner \in Requests
        BY <3>1 DEF RecordKept, IndInv, Typed, TypeOK
      <4>3. fileRead[e] # NoRead => e \in Linked(fileRead[e].owner)'
        BY <2>3, <3>1, <3>4, <4>1, <4>2 DEF RecordKept
      <4>4. QED  BY <3>1, <3>2, <4>1, <4>3 DEF RecordKept
    <3>5. QED  BY <3>3, <3>4
  <2>5. ASSUME NEW q \in Requests
        PROVE  IsInjective(par'[q].reads) /\ \A e \in Linked(q)' : fileRead'[e].owner = q
    <3>1. IsInjective(par'[q].reads)  BY <1>1 DEF IndInv, RecordsKept
    <3>2. \A e \in Linked(q) : e \in FileReads /\ fileRead[e].owner = q
      <4>1. par[q] \in RequestType  BY DEF IndInv, Typed
      <4>2. par[q].reads \in Seq(FileReads)  BY <4>1, RequestFields
      <4>3. QED  BY <4>2, ElemsIn DEF IndInv, RecordsKept, Linked
    <3>3. QED  BY <1>1, <2>3, <3>1, <3>2
  <2>6. QED  BY <2>2, <2>4, <2>5 DEF RecordsKept
<1>4. CommandsKept'
  <2>1. ASSUME NEW e \in Commands PROVE CommandKept(e)'
    <3>1. CommandKept(e)  BY DEF IndInv, CommandsKept
    <3>2. CASE e = c  BY <1>1, <3>2 DEF CommandKept, NoCommand
    <3>3. CASE e # c
      <4>1. cmd'[e] = cmd[e] /\ (e \in ToSet(cmds') <=> e \in ToSet(cmds))
        BY <1>1, <3>3
      <4>2. cmd[e].state # "free" => (Current(e)' <=> Current(e))
        <5>1. cmd[e].state # "free" => cmd[e].read \in FileReads
          BY <3>1 DEF CommandKept
        <5>2. fileRead[d].command # e /\ fileRead'[d].command # e
          BY <1>1, <1>2, <3>3 DEF NoRead
        <5>3. QED  BY <1>1, <4>1, <5>1, <5>2 DEF Current
      <4>3. QED  BY <3>1, <4>1, <4>2 DEF CommandKept
    <3>4. QED  BY <3>2, <3>3
  <2>2. ASSUME NEW e \in FileReads, fileRead'[e] # NoRead
        PROVE  /\ cmd'[fileRead'[e].command].state # "free"
               /\ cmd'[fileRead'[e].command].read = e
               /\ cmd'[fileRead'[e].command].buffer = fileRead'[e].buffer
    <3>1. e # d /\ fileRead'[e] = fileRead[e] /\ fileRead[e].command # c
      BY <1>1, <2>2
    <3>2. fileRead[e].command \in Commands
      BY <2>2, <3>1 DEF IndInv, Typed, TypeOK, RecordsKept, RecordKept
    <3>3. cmd'[fileRead[e].command] = cmd[fileRead[e].command]  BY <1>1, <3>1, <3>2
    <3>4. QED  BY <2>2, <3>1, <3>3 DEF IndInv, CommandsKept
  <2>3. QED  BY <1>1, <2>1, <2>2 DEF CommandsKept
<1>5. BuffersKept'
  <2>1. upload \in [Buffers -> UploadType]  BY DEF IndInv, Typed
  <2>2. ASSUME NEW a \in Buffers PROVE BufferKept(a)'
    <3>1. BufferKept(a)  BY DEF IndInv, BuffersKept
    <3>2. /\ Returning(a)' = Returning(a) /\ cur'.buffer # a /\ cur.buffer # a
          /\ bufferFree'[a] = bufferFree[a]
      BY <1>2 DEF Returning, NoService
    <3>3. CASE a = b
      <4>1. ~InRead(a)'
        <5>1. fileRead'[d].buffer # b  BY <1>1 DEF NoRead
        <5>2. QED  BY <1>1, <3>3, <5>1 DEF InRead
      <4>2. upload'[a].transfers > 0  BY <1>2, <2>1, <3>3
      <4>3. QED  BY <1>1, <3>2, <3>3, <4>1, <4>2 DEF BufferKept
    <3>4. CASE a # b
      <4>1. InRead(a)' <=> InRead(a)
        <5>1. fileRead'[d].buffer # a /\ fileRead[d].buffer # a
          BY <1>1, <1>2, <3>4 DEF NoRead
        <5>2. QED  BY <1>1, <5>1 DEF InRead
      <4>2. upload'[a] = upload[a]  BY <1>2, <2>1, <3>4
      <4>3. QED  BY <3>1, <3>2, <4>1, <4>2 DEF BufferKept
    <3>5. QED  BY <3>3, <3>4
  <2>3. ASSUME NEW e \in FileReads, NEW f \in FileReads,
               fileRead'[e].buffer = fileRead'[f].buffer, e # f
        PROVE  fileRead'[e].buffer = None
    <3>1. CASE e = d \/ f = d
      <4>1. fileRead'[d].buffer = None  BY <1>1 DEF NoRead
      <4>2. QED  BY <2>3, <3>1, <4>1
    <3>2. CASE e # d /\ f # d  BY <1>1, <2>3, <3>2 DEF IndInv, BuffersKept
    <3>3. QED  BY <3>1, <3>2
  <2>4. QED  BY <2>2, <2>3 DEF BuffersKept
<1>6. QED  BY <1>3, <1>4, <1>5

(* The order of the commands, and what the disc may touch.                 *)
LEMMA CompletionKeepsOrder ==
  ASSUME IndInv, NEW c \in Commands, NEW d \in FileReads, NEW r \in Requests,
         NEW b \in Buffers, NEW k \in Clients, NEW n \in 1 .. 2, NEW y \in RequestType,
         NEW final \in BOOLEAN, Completes(c, d, r, b, k, n, y, final)
  PROVE  InTurn' /\ ReadingApart' /\ InOrder'
<1>1. /\ \A i \in 1 .. Len(cmds') :
           /\ i + 1 \in 1 .. Len(cmds) /\ cmds'[i] = cmds[i + 1]
           /\ cmds'[i] \in Commands /\ cmds'[i] # c
      /\ cmds' \in Seq(Commands)
      /\ cmd'[c] = NoCommand /\ \A e \in Commands : e # c => cmd'[e] = cmd[e]
      /\ fileRead'[d] = NoRead
      /\ \A e \in FileReads : e # d => /\ fileRead'[e] = fileRead[e]
                                       /\ fileRead[e].command # c
                                       /\ fileRead[e].buffer # b
      /\ par'[r] = y
      /\ \A q \in Requests : q # r => par'[q] = par[q] /\ d \notin Linked(q)
      /\ ToSet(y.reads) = Linked(r) \ {d} /\ y.reads \in Seq(FileReads)
      /\ \A i \in 1 .. Len(y.reads) : /\ i + 1 \in 1 .. Len(par[r].reads)
                                      /\ y.reads[i] = par[r].reads[i + 1]
  BY CompletionFacts
<1>2. /\ tickQueue' = tickQueue /\ processed' = processed
      /\ upload' = [upload EXCEPT ![b] = [transfers |-> n, client |-> k, last |-> final]]
      /\ cmd[c].state = "finished" /\ fileRead[d].buffer = b /\ fileRead[d].command = c
  BY DEF Completes, ClientGets
<1>3. InTurn'
  <2> SUFFICES ASSUME NEW m \in 1 .. Len(cmds'), NEW o \in 1 .. Len(cmds'), m < o,
                      cmd'[cmds'[o]].state \in {"reading", "finished"}
               PROVE  cmd'[cmds'[m]].state = "finished"
    BY DEF InTurn
  <2>1. m + 1 < o + 1  BY <1>1
  <2>2. cmd[cmds[o + 1]].state \in {"reading", "finished"}  BY <1>1
  <2>3. cmd[cmds[m + 1]].state = "finished"  BY <1>1, <2>1, <2>2 DEF IndInv, InTurn
  <2>4. QED  BY <1>1, <2>3
<1>4. ReadingApart'
  <2>1. ASSUME NEW e \in Commands, cmd'[e].state = "reading"
        PROVE  /\ upload'[cmd'[e].buffer].transfers = 0 /\ ~Returning(cmd[e].buffer)'
               /\ cmd'[e].buffer = cmd[e].buffer
               /\ \A f \in FileReads : fileRead'[f].buffer = cmd'[e].buffer =>
                    cmd'[fileRead'[f].command].state # "finished"
    <3>1. e # c /\ cmd'[e] = cmd[e] /\ cmd[e].state = "reading"
      BY <1>1, <2>1 DEF NoCommand
    <3>2. /\ upload[cmd[e].buffer].transfers = 0 /\ ~Returning(cmd[e].buffer)
          /\ cmd[e].buffer \in Buffers
          /\ \A f \in FileReads : fileRead[f].buffer = cmd[e].buffer =>
               cmd[fileRead[f].command].state # "finished"
      BY <3>1 DEF IndInv, ReadingApart, CommandsKept, CommandKept
    <3>3. cmd[e].buffer # b  BY <1>2, <3>2
    <3>4. upload'[cmd[e].buffer] = upload[cmd[e].buffer]
      BY <1>2, <3>2, <3>3 DEF IndInv, Typed
    <3>5. ~Returning(cmd[e].buffer)'
      <4>1. cmd'[e].buffer = cmd[e].buffer  BY <3>1
      <4>2. QED  BY <1>2, <3>2, <4>1 DEF Returning
    <3>6. ASSUME NEW f \in FileReads, fileRead'[f].buffer = cmd[e].buffer
          PROVE  cmd'[fileRead'[f].command].state # "finished"
      <4>1. f # d  BY <1>1, <3>2, <3>6 DEF NoRead
      <4>2. fileRead'[f] = fileRead[f] /\ fileRead[f].command # c  BY <1>1, <4>1
      <4>3. fileRead[f] # NoRead  BY <3>2, <3>6, <4>2 DEF NoRead
      <4>4. fileRead[f].command \in Commands
        BY <4>3 DEF IndInv, Typed, TypeOK, RecordsKept, RecordKept
      <4>5. QED  BY <1>1, <3>2, <3>6, <4>2, <4>4
    <3>7. QED  BY <3>1, <3>2, <3>4, <3>5, <3>6
  <2>2. QED  BY <2>1 DEF ReadingApart
<1>5. ASSUME NEW q \in Requests, NEW i \in 1 .. Len(par'[q].reads)
      PROVE  LET j == IF q = r THEN i + 1 ELSE i
             IN  /\ j \in 1 .. Len(par[q].reads) /\ par'[q].reads[i] = par[q].reads[j]
                 /\ fileRead'[par'[q].reads[i]] = fileRead[par[q].reads[j]]
  <2>1. CASE q = r
    <3>1. i \in 1 .. Len(y.reads) /\ par'[q].reads = y.reads  BY <1>1, <2>1
    <3>2. y.reads[i] \in FileReads /\ y.reads[i] # d  BY <1>1, <3>1, ElemAt
    <3>3. QED  BY <1>1, <2>1, <3>1, <3>2, SMTT(40)
  <2>2. CASE q # r
    <3>1. par'[q] = par[q] /\ par[q].reads \in Seq(FileReads) /\ d \notin Linked(q)
      <4>1. par[q] \in RequestType  BY DEF IndInv, Typed
      <4>2. QED  BY <1>1, <2>2, <4>1, RequestFields
    <3>2. par[q].reads[i] \in FileReads /\ par[q].reads[i] # d
      BY <3>1, ElemAt DEF Linked
    <3>3. QED  BY <1>1, <2>2, <3>1, <3>2
  <2>3. QED  BY <2>1, <2>2
<1>6. InOrder'
  <2> SUFFICES ASSUME NEW q \in Requests,
                      NEW i \in 1 .. Len(par'[q].reads), NEW l \in 1 .. Len(par'[q].reads),
                      NEW m \in 1 .. Len(cmds'), NEW o \in 1 .. Len(cmds'), i < l,
                      cmds'[m] = fileRead'[par'[q].reads[i]].command,
                      cmds'[o] = fileRead'[par'[q].reads[l]].command
               PROVE  m < o
    BY DEF InOrder
  <2>1. PICK s \in {0, 1} : s = IF q = r THEN 1 ELSE 0  OBVIOUS
  <2>2. /\ i + s \in 1 .. Len(par[q].reads) /\ l + s \in 1 .. Len(par[q].reads)
        /\ fileRead'[par'[q].reads[i]] = fileRead[par[q].reads[i + s]]
        /\ fileRead'[par'[q].reads[l]] = fileRead[par[q].reads[l + s]]
    BY <1>5, <2>1
  <2>3. i + s < l + s  BY <2>1
  <2>4. /\ m + 1 \in 1 .. Len(cmds) /\ cmds[m + 1] = fileRead[par[q].reads[i + s]].command
        /\ o + 1 \in 1 .. Len(cmds) /\ cmds[o + 1] = fileRead[par[q].reads[l + s]].command
    BY <1>1, <2>2
  <2>5. PICK u, v, f, g : u = i + s /\ v = l + s /\ f = m + 1 /\ g = o + 1
    OBVIOUS
  <2>6. /\ u \in 1 .. Len(par[q].reads) /\ v \in 1 .. Len(par[q].reads) /\ u < v
        /\ f \in 1 .. Len(cmds) /\ cmds[f] = fileRead[par[q].reads[u]].command
        /\ g \in 1 .. Len(cmds) /\ cmds[g] = fileRead[par[q].reads[v]].command
    BY <2>2, <2>3, <2>4, <2>5
  <2>7. f < g  BY <2>6 DEF IndInv, InOrder
  <2>8. QED  BY <2>5, <2>7
<1>7. QED  BY <1>3, <1>4, <1>6

(* The transfers, and what the banks, the streams and the chunks rely on.  *)
LEMMA CompletionKeepsClients ==
  ASSUME IndInv, NEW c \in Commands, NEW d \in FileReads, NEW r \in Requests,
         NEW b \in Buffers, NEW k \in Clients, NEW n \in 1 .. 2, NEW y \in RequestType,
         NEW final \in BOOLEAN, Completes(c, d, r, b, k, n, y, final)
  PROVE  EntriesKept' /\ UploadsKept' /\ BanksKept' /\ HandlesKept'
<1>1. /\ par' \in [Requests -> RequestType] /\ par'[r] = y
      /\ \A q \in Requests : q # r => par'[q] = par[q] /\ par[q].client # k
      /\ upload[b] = NoUpload /\ ~Returning(b)
  BY CompletionFacts
<1>2. /\ batch = 0 /\ UNCHANGED <<loading, tickQueue, batch, processed>>
      /\ upload' = [upload EXCEPT ![b] = [transfers |-> n, client |-> k, last |-> final]]
      /\ arqFree' = arqFree - n
      /\ pending' = IF final /\ k \in Streams THEN [pending EXCEPT ![k] = None] ELSE pending
      /\ par[r].client = k
  BY DEF Completes, ClientGets
<1>3. /\ processed = 0 /\ upload \in [Buffers -> UploadType]
      /\ pending \in [Clients -> Handles \cup {None}]
      /\ tickQueue \in Seq(EntryType)
  BY <1>2 DEF IndInv, Typed, TypeOK, EntriesKept
<1>4. /\ upload'[b] = [transfers |-> n, client |-> k, last |-> final]
      /\ \A a \in Buffers : a # b => upload'[a] = upload[a]
  BY <1>2, <1>3
<1>5. /\ final => y.client = None
      /\ ~final => y.client = k /\ y.generation = par[r].generation
  BY <1>2 DEF Completes, RequestOver, RequestGoesOn, Cleared
<1>6. k # None /\ Requested(k)  BY <1>2 DEF Clients, Requested
<1>7. k \in Banks => loading[k] /\ ~LastUpload(k) /\ ~Ending(k)
  BY <1>6 DEF IndInv, BanksKept
<1>8. EntriesKept'
  <2>1. ASSUME NEW i \in 1 .. Len(tickQueue)
        PROVE  /\ tickQueue[i].buffer # None => upload'[tickQueue[i].buffer].transfers = 0
               /\ tickQueue[i].bank # None =>
                    \A a \in Buffers : upload'[a].last => upload'[a].client # tickQueue[i].bank
    <3>1. i \in processed + 1 .. Len(tickQueue)  BY <1>3
    <3>2. tickQueue[i].buffer # b /\ (k \in Banks => tickQueue[i].bank # k)
      BY <1>1, <1>7, <3>1 DEF Returning, Ending
    <3>3. tickQueue[i] \in EntryType  BY <1>3, ElemAt
    <3>4. tickQueue[i].buffer \in Buffers \cup {None} /\ tickQueue[i].bank \in Banks \cup {None}
      BY <3>3 DEF EntryType
    <3>5. /\ tickQueue[i].buffer # None => upload[tickQueue[i].buffer].transfers = 0
          /\ tickQueue[i].bank # None =>
               \A a \in Buffers : upload[a].last => upload[a].client # tickQueue[i].bank
      BY DEF IndInv, EntriesKept
    <3>6. tickQueue[i].bank # None => tickQueue[i].bank # k  BY <3>2, <3>4
    <3>7. QED  BY <1>4, <3>2, <3>4, <3>5, <3>6
  <2>2. QED  BY <1>2, <2>1 DEF IndInv, EntriesKept
<1>9. UploadsKept'
  <2>1. ASSUME NEW a \in Buffers PROVE UploadKept(a)'
    <3>1. UploadKept(a)  BY DEF IndInv, UploadsKept
    <3>2. CASE a = b  BY <1>4, <1>6, <3>2 DEF UploadKept
    <3>3. CASE a # b  BY <1>4, <3>1, <3>3 DEF UploadKept
    <3>4. QED  BY <3>2, <3>3
  <2>2. /\ upload[b].transfers = 0
        /\ \A a \in Buffers : upload'[a].transfers = IF a = b THEN n ELSE upload[a].transfers
    BY <1>1, <1>4 DEF NoUpload
  <2>3. Cardinality(Under') = Cardinality(Under) + n  BY <1>3, <2>2, UnderStarts
  <2>4. Cardinality(Under) \in Nat  BY <1>3, UnderRoom
  <2>5. arqFree' = ArqSlots - Cardinality(Under')
    BY <1>2, <2>3, <2>4 DEF IndInv, UploadsKept
  <2>6. QED  BY <2>1, <2>5 DEF UploadsKept
<1>10. \A x : x # None => (Requested(x)' <=> Requested(x) /\ ~(final /\ x = k))
  BY <1>1, <1>2, <1>5 DEF Requested
<1>11. \A x : x # None => (LastUpload(x)' <=> LastUpload(x) \/ (final /\ x = k))
  BY <1>1, <1>4 DEF LastUpload, NoUpload
<1>12. BanksKept'
  <2>1. ASSUME NEW x \in Banks
        PROVE  /\ Requested(x)' \/ LastUpload(x)' \/ Ending(x)' => loading'[x]
               /\ LastUpload(x)' \/ Ending(x)' => ~Requested(x)'
               /\ pending'[x] = None
    <3>1. /\ Requested(x) \/ LastUpload(x) \/ Ending(x) => loading[x]
          /\ LastUpload(x) \/ Ending(x) => ~Requested(x)
          /\ pending[x] = None
      BY DEF IndInv, BanksKept
    <3>2. x \in Clients /\ x \notin Streams /\ x # None  BY DEF Clients
    <3>3. Ending(x)' = Ending(x) /\ loading' = loading  BY <1>2 DEF Ending
    <3>4. pending'[x] = None  BY <1>2, <1>3, <3>1, <3>2
    <3>5. QED  BY <1>7, <1>10, <1>11, <3>1, <3>2, <3>3, <3>4
  <2>2. ASSUME NEW a \in Buffers, NEW e \in Buffers, upload'[a].last, upload'[e].last,
               upload'[a].client \in Banks, upload'[a].client = upload'[e].client
        PROVE  a = e
    <3>1. CASE a # b /\ e # b
      BY <1>4, <2>2, <3>1 DEF IndInv, BanksKept
    <3>2. CASE a = b /\ e # b
      <4>1. k \in Banks /\ upload[e].client = k /\ upload[e].last  BY <1>4, <2>2, <3>2
      <4>2. QED  BY <1>7, <4>1 DEF LastUpload
    <3>3. CASE a # b /\ e = b
      <4>1. k \in Banks /\ upload[a].client = k /\ upload[a].last  BY <1>4, <2>2, <3>3
      <4>2. QED  BY <1>7, <4>1 DEF LastUpload
    <3>4. QED  BY <3>1, <3>2, <3>3
  <2>3. QED  BY <2>1, <2>2 DEF BanksKept
<1>13. HandlesKept'
  <2>1. ASSUME NEW p \in Requests, NEW q \in Requests, par'[p].client = par'[q].client,
               p # q
        PROVE  par'[p].client = None
    BY <1>1, <1>2, <1>5, <2>1 DEF IndInv, HandlesKept
  <2>2. ASSUME NEW q \in Requests, par'[q].client \in Streams
        PROVE  pending'[par'[q].client] =
                 [index |-> q, generation |-> par'[q].generation]
    <3>1. par'[q].client = par[q].client /\ par'[q].generation = par[q].generation
      BY <1>1, <1>2, <1>5, <2>2 DEF Clients
    <3>2. pending[par[q].client] = [index |-> q, generation |-> par[q].generation]
      BY <2>2, <3>1 DEF IndInv, HandlesKept
    <3>3. final => par[q].client # k
      BY <1>1, <1>2, <1>5, <2>2 DEF Clients
    <3>4. pending'[par[q].client] = pending[par[q].client]
      BY <1>2, <1>3, <2>2, <3>1, <3>3 DEF Clients
    <3>5. QED  BY <3>1, <3>2, <3>4
  <2>3. ASSUME NEW t \in Streams, pending'[t] # None
        PROVE  par'[pending'[t].index].client = t
    <3>1. pending'[t] = pending[t] /\ ~(final /\ t = k)
      BY <1>2, <1>3, <2>3 DEF Clients
    <3>2. pending[t].index \in Requests /\ par[pending[t].index].client = t
      BY <2>3, <3>1, HandleValid
    <3>3. QED  BY <1>1, <1>2, <1>5, <3>1, <3>2
  <2>4. QED  BY <2>1, <2>2, <2>3 DEF HandlesKept
<1>14. QED  BY <1>8, <1>9, <1>12, <1>13

(* What a request has delivered and has under way.                         *)
LEMMA CompletionKeepsChunks ==
  ASSUME IndInv, NEW c \in Commands, NEW d \in FileReads, NEW r \in Requests,
         NEW b \in Buffers, NEW k \in Clients, NEW n \in 1 .. 2, NEW y \in RequestType,
         NEW final \in BOOLEAN, Completes(c, d, r, b, k, n, y, final)
  PROVE  ChunksKept'
<1>1. /\ fileRead'[d] = NoRead
      /\ \A e \in FileReads : e # d => fileRead'[e] = fileRead[e]
      /\ par' \in [Requests -> RequestType] /\ par'[r] = y
      /\ \A q \in Requests : q # r => /\ par'[q] = par[q] /\ d \notin Linked(q)
                                      /\ par[q].client # k
      /\ y.reads \in Seq(FileReads) /\ Len(y.reads) = Len(par[r].reads) - 1
      /\ ToSet(y.reads) = Linked(r) \ {d}
      /\ \A i \in 1 .. Len(y.reads) : /\ i + 1 \in 1 .. Len(par[r].reads)
                                      /\ y.reads[i] = par[r].reads[i + 1]
  BY CompletionFacts, SMTT(40)
<1>2. /\ total \in [Clients -> 0 .. MaxChunks] /\ got \in [Clients -> 0 .. MaxChunks]
      /\ par \in [Requests -> RequestType]
  BY DEF IndInv, Typed
<1>3. /\ total' = IF final THEN [total EXCEPT ![k] = 0] ELSE total
      /\ got' = [got EXCEPT ![k] = got[k] + 1]
      /\ par[r].client = k /\ par[r].in_use
  BY DEF Completes, ClientGets
<1>4. /\ \A x \in Clients : x # k => total'[x] = total[x] /\ got'[x] = got[x]
      /\ final => total'[k] = 0
      /\ ~final => total'[k] = total[k]
      /\ got'[k] = got[k] + 1
  BY <1>2, <1>3
<1>5. /\ final => ~y.in_use
      /\ ~final => /\ y.client = k /\ y.remaining = par[r].remaining
                   /\ y.next_chunk = par[r].next_chunk
  BY <1>3 DEF Completes, RequestOver, RequestGoesOn, Cleared
<1>6. ASSUME NEW x \in Clients, ~Requested(x)' PROVE total'[x] = 0
  <2>1. CASE x = k
    <3>1. final  BY <1>1, <1>5, <1>6, <2>1 DEF Requested
    <3>2. QED  BY <1>2, <1>3, <2>1, <3>1
  <2>2. CASE x # k
    <3>1. ASSUME NEW q \in Requests, par[q].client = x PROVE FALSE
      <4>1. q # r  BY <1>3, <2>2, <3>1
      <4>2. par'[q].client = x  BY <1>1, <3>1, <4>1
      <4>3. QED  BY <1>6, <4>2 DEF Requested
    <3>2. ~Requested(x)  BY <3>1 DEF Requested
    <3>3. QED  BY <1>4, <2>2, <3>2 DEF IndInv, ChunksKept
  <2>3. QED  BY <2>1, <2>2
<1>7. ASSUME NEW q \in Requests, par'[q].in_use
      PROVE  /\ total'[par'[q].client] = par'[q].next_chunk - 1 + par'[q].remaining
             /\ got'[par'[q].client] = par'[q].next_chunk - 1 - Len(par'[q].reads)
             /\ \A i \in 1 .. Len(par'[q].reads) :
                  fileRead'[par'[q].reads[i]].chunk = got'[par'[q].client] + i
  <2>1. CASE q # r
    <3>1. par'[q] = par[q] /\ par[q].in_use /\ par[q].client # k  BY <1>1, <1>7, <2>1
    <3>2. par[q].client \in Clients
      BY <1>2, <3>1 DEF IndInv, RequestsKept, RequestKept, RequestType
    <3>3. /\ total'[par[q].client] = total[par[q].client]
          /\ got'[par[q].client] = got[par[q].client]
      BY <1>4, <3>1, <3>2
    <3>4. \A i \in 1 .. Len(par[q].reads) :
            fileRead'[par[q].reads[i]] = fileRead[par[q].reads[i]]
      <4>1. par[q].reads \in Seq(FileReads) /\ d \notin Linked(q)
        BY <1>1, <1>2, <2>1, RequestFields
      <4>2. \A i \in 1 .. Len(par[q].reads) :
              par[q].reads[i] \in FileReads /\ par[q].reads[i] # d
        BY <4>1, ElemAt DEF Linked
      <4>3. QED  BY <1>1, <4>2
    <3>5. /\ total[par[q].client] = par[q].next_chunk - 1 + par[q].remaining
          /\ got[par[q].client] = par[q].next_chunk - 1 - Len(par[q].reads)
          /\ \A i \in 1 .. Len(par[q].reads) :
               fileRead[par[q].reads[i]].chunk = got[par[q].client] + i
      BY <3>1 DEF IndInv, ChunksKept
    <3>6. QED  BY <3>1, <3>3, <3>4, <3>5
  <2>2. CASE q = r
    <3>1. ~final /\ y.client = k /\ par'[q] = y  BY <1>1, <1>5, <1>7, <2>2
    <3>2. /\ total[k] = par[r].next_chunk - 1 + par[r].remaining
          /\ got[k] = par[r].next_chunk - 1 - Len(par[r].reads)
          /\ \A i \in 1 .. Len(par[r].reads) :
               fileRead[par[r].reads[i]].chunk = got[k] + i
      BY <1>3 DEF IndInv, ChunksKept
    <3>3. total'[k] = y.next_chunk - 1 + y.remaining
      BY <1>3, <1>5, <3>1, <3>2
    <3>4. got'[k] = y.next_chunk - 1 - Len(y.reads)
      <4>1. PICK u, v : u = par[r].next_chunk /\ v = Len(par[r].reads)  OBVIOUS
      <4>2. u \in Nat /\ v \in Nat  BY <1>2, <4>1, RequestFields
      <4>3. (u - 1 - v) + 1 = u - 1 - (v - 1)  BY <4>2
      <4>4. y.next_chunk = u /\ Len(y.reads) = v - 1 /\ got'[k] = (u - 1 - v) + 1
        BY <1>1, <1>4, <1>5, <3>1, <3>2, <4>1
      <4>5. QED  BY <4>3, <4>4
    <3>5. ASSUME NEW i \in 1 .. Len(y.reads)
          PROVE  fileRead'[y.reads[i]].chunk = got'[k] + i
      <4>1. /\ i + 1 \in 1 .. Len(par[r].reads) /\ y.reads[i] = par[r].reads[i + 1]
            /\ y.reads[i] \in FileReads /\ y.reads[i] # d
        BY <1>1, ElemAt, ZenonT(60)
      <4>2. fileRead'[y.reads[i]].chunk = got[k] + (i + 1)
        <5>1. fileRead'[y.reads[i]] = fileRead[y.reads[i]]  BY <1>1, <4>1
        <5>2. fileRead[par[r].reads[i + 1]].chunk = got[k] + (i + 1)  BY <3>2, <4>1
        <5>3. QED  BY <4>1, <5>1, <5>2
      <4>3. got[k] \in Nat /\ i \in Nat
        <5>1. Len(y.reads) \in Nat  BY <1>1
        <5>2. QED  BY <1>2, <5>1
      <4>4. PICK u : u = got[k]  OBVIOUS
      <4>5. u + (i + 1) = (u + 1) + i  BY <4>3, <4>4
      <4>6. QED  BY <1>4, <4>2, <4>4, <4>5
    <3>6. QED  BY <2>2, <3>1, <3>3, <3>4, <3>5
  <2>3. QED  BY <2>1, <2>2
<1>8. QED  BY <1>6, <1>7 DEF ChunksKept

(* FileReadCompletion keeps the invariant.                                 *)
LEMMA FileReadCompletionKeeps ==
  ASSUME IndInv, FileReadCompletion
  PROVE  IndInv'
<1>1. PICK c \in Commands, d \in FileReads, r \in Requests, b \in Buffers,
           k \in Clients, n \in 1 .. 2, y \in RequestType, final \in BOOLEAN :
        Completes(c, d, r, b, k, n, y, final)
  BY CompletionView
<1>2. /\ cmds' \in Seq(Commands) /\ IsInjective(cmds')
      /\ par' \in [Requests -> RequestType] /\ par'[r] = y
      /\ \A q \in Requests : q # r => par'[q] = par[q]
      /\ y.reads \in Seq(FileReads) /\ Len(y.reads) = Len(par[r].reads) - 1
      /\ upload[b] = NoUpload
  BY <1>1, CompletionFacts
<1>3. /\ cmd' = [cmd EXCEPT ![c] = NoCommand]
      /\ fileRead' = [fileRead EXCEPT ![d] = NoRead] /\ readFree' = <<d>> \o readFree
      /\ UNCHANGED <<bufferFree, cur, loading, tickVars, panic>>
      /\ ClientGets(k, b, n, final)
      /\ cur = NoService /\ par[r].active_reads = Len(par[r].reads)
      /\ par[r].client = k /\ par[r].in_use /\ fileRead[d].chunk = got[k] + 1
      /\ \/ final /\ RequestOver(r, y)
         \/ ~final /\ RequestGoesOn(r, y)
      /\ game' \in {"idle", "service"}
  BY <1>1 DEF Completes, RequestOver, RequestGoesOn
<1>4. /\ parFree \in Seq(Requests) /\ parQueue \in Seq(Requests)
      /\ IsInjective(parFree) /\ IsInjective(parQueue)
      /\ par \in [Requests -> RequestType]
      /\ readFree \in Seq(FileReads)
  BY DEF IndInv, Typed, TypeOK, RequestsKept
<1>5. RequestKept(r) /\ cur.request # r /\ cur'.request # r /\ r \notin ToSet(parFree)
  <2>1. RequestKept(r) /\ cur.request # r /\ cur'.request # r
    BY <1>3 DEF IndInv, RequestsKept, NoService
  <2>2. QED  BY <1>3, <2>1 DEF RequestKept
<1>6. ASSUME final
      PROVE  /\ parFree' \in Seq(Requests) /\ IsInjective(parFree')
             /\ ToSet(parFree') = {r} \cup ToSet(parFree) /\ parQueue' = parQueue
             /\ y = Cleared(par[r].generation)
  <2>1. parFree' = <<r>> \o parFree  BY <1>3, <1>6 DEF RequestOver
  <2>2. /\ parFree' \in Seq(Requests) /\ IsInjective(parFree')
        /\ ToSet(parFree') = {r} \cup ToSet(parFree)
    BY <1>4, <1>5, <2>1, ElemsPush
  <2>3. QED  BY <1>3, <1>6, <2>2 DEF RequestOver
<1>7. ASSUME ~final
      PROVE  /\ parFree' = parFree
             /\ parQueue' \in Seq(Requests) /\ IsInjective(parQueue')
             /\ ToSet(parQueue') = ToSet(parQueue) \cup (IF y.queued THEN {r} ELSE {})
  <2>1. parFree' = parFree  BY <1>3, <1>7 DEF RequestGoesOn
  <2>2. CASE ~par[r].queued /\ y.queued /\ parQueue' = Append(parQueue, r)
    <3>1. r \notin ToSet(parQueue)  BY <1>5, <2>2 DEF RequestKept
    <3>2. QED  BY <1>4, <2>1, <2>2, <3>1, ElemsAppend
  <2>3. CASE y.queued = par[r].queued /\ parQueue' = parQueue
    <3>1. y.queued => r \in ToSet(parQueue)  BY <1>5, <2>3 DEF RequestKept
    <3>2. QED  BY <1>4, <2>1, <2>3, <3>1
  <2>4. QED  BY <1>3, <1>7, <2>2, <2>3 DEF RequestGoesOn
<1>8. Typed'
  <2>1. \A q \in Requests :
          /\ par'[q].active_reads \in 0 .. 3 /\ par'[q].remaining \in 0 .. MaxChunks
          /\ par'[q].generation \in 0 .. Generations - 1
          /\ par'[q].client \in Clients \cup {None} /\ par'[q].reads \in Seq(FileReads)
    BY <1>2 DEF RequestType
  <2>2. parFree' \in Seq(Requests) /\ parQueue' \in Seq(Requests)
    BY <1>4, <1>6, <1>7
  <2>3. /\ fileRead' \in [FileReads -> [owner : Requests \cup {None},
                                        buffer : Buffers \cup {None},
                                        command : Commands \cup {None},
                                        chunk : 0 .. MaxChunks]]
        /\ cmd' \in [Commands -> [state : {"free", "waiting", "reading", "finished"},
                                  read : FileReads \cup {None},
                                  buffer : Buffers \cup {None}, dropped : BOOLEAN]]
    BY <1>3, SMTT(40) DEF IndInv, Typed, TypeOK, NoRead, NoCommand
  <2>4. readFree' \in Seq(FileReads)  BY <1>3, <1>4, ElemsPush
  <2>5. upload' \in [Buffers -> UploadType]
    <3>1. n \in 0 .. 2  OBVIOUS
    <3>2. [transfers |-> n, client |-> k, last |-> final] \in UploadType
      BY <3>1 DEF UploadType
    <3>3. QED  BY <1>3, <3>2 DEF IndInv, Typed, ClientGets
  <2>6. /\ pending' \in [Clients -> Handles \cup {None}]
        /\ total' \in [Clients -> 0 .. MaxChunks]
    <3>1. /\ pending \in [Clients -> Handles \cup {None}]
          /\ total \in [Clients -> 0 .. MaxChunks]
      BY DEF IndInv, Typed, TypeOK
    <3>2. /\ pending' = IF final /\ k \in Streams THEN [pending EXCEPT ![k] = None]
                                                 ELSE pending
          /\ total' = IF final THEN [total EXCEPT ![k] = 0] ELSE total
      BY <1>3 DEF ClientGets
    <3>3. 0 \in 0 .. MaxChunks  OBVIOUS
    <3>4. QED  BY <3>1, <3>2, <3>3
  <2>7. got' \in [Clients -> 0 .. MaxChunks]
    <3>1. fileRead[d].chunk \in 0 .. MaxChunks  BY DEF IndInv, Typed, TypeOK
    <3>2. QED  BY <1>3, <3>1 DEF IndInv, Typed, ClientGets
  <2>8. arqFree' \in 0 .. ArqSlots
    <3>1. /\ upload \in [Buffers -> UploadType] /\ upload[b].transfers = 0
          /\ arqFree = ArqSlots - Cardinality(Under) /\ arqFree \in 0 .. ArqSlots
      BY <1>2 DEF IndInv, Typed, TypeOK, UploadsKept, NoUpload
    <3>2. Cardinality(Under) \in Nat /\ Cardinality(Under) + 2 <= 2 * NumBuffers
      BY <3>1, UnderRoom
    <3>3. arqFree' = arqFree - n  BY <1>3 DEF ClientGets
    <3>4. arqFree >= 2  BY <3>1, <3>2
    <3>5. QED  BY <3>1, <3>3, <3>4
  <2>9. QED
    BY <1>2, <1>3, <2>1, <2>2, <2>3, <2>4, <2>5, <2>6, <2>7, <2>8
    DEF IndInv, Typed, TypeOK
<1>9. InService'  BY <1>3 DEF InService
<1>10. RequestsKept'
  <2>1. ASSUME NEW q \in Requests, q # r PROVE RequestKept(q)'
    <3>1. RequestKept(q)  BY DEF IndInv, RequestsKept
    <3>2. par'[q] = par[q] /\ cur' = cur  BY <1>2, <1>3, <2>1
    <3>3. /\ q \in ToSet(parFree') <=> q \in ToSet(parFree)
          /\ q \in ToSet(parQueue') <=> q \in ToSet(parQueue)
      BY <1>6, <1>7, <2>1
    <3>4. QED  BY <3>1, <3>2, <3>3 DEF RequestKept, Started
  <2>2. /\ par[r].active_reads \in 0 .. 3 /\ par[r].remaining \in Nat
        /\ Len(par[r].reads) \in Nat /\ par[r].queued \in BOOLEAN
    BY <1>4, RequestFields DEF RequestType
  <2>3. CASE final
    <3>1. par'[r] = Cleared(par[r].generation)  BY <1>2, <1>6, <2>3
    <3>2. r \notin ToSet(parQueue')
      <4>1. par[r].final_issued  BY <1>1, <2>3 DEF Completes
      <4>2. QED  BY <1>3, <1>5, <1>6, <2>2, <2>3, <4>1 DEF RequestKept
    <3>3. r \in ToSet(parFree')  BY <1>6, <2>3
    <3>4. RequestKept(r)'
      BY <1>5, <3>1, <3>2, <3>3 DEF RequestKept, Started, Cleared
    <3>5. QED  BY <1>4, <1>6, <2>1, <2>3, <3>4 DEF RequestsKept
  <2>4. CASE ~final
    <3>1. RequestGoesOn(r, y)  BY <1>3, <2>4
    <3>2. /\ r \in ToSet(parFree') <=> ~y.in_use
          /\ r \in ToSet(parQueue') <=> y.queued
      <4>1. par[r].queued => y.queued  BY <2>2, <3>1 DEF RequestGoesOn
      <4>2. r \in ToSet(parQueue) => y.queued  BY <1>5, <4>1 DEF RequestKept
      <4>3. y.in_use  BY <3>1 DEF RequestGoesOn
      <4>4. QED  BY <1>5, <1>7, <2>4, <4>2, <4>3
    <3>3. /\ y.in_use /\ (y.queued \/ y.active_reads > 0)
          /\ y.final_issued <=> y.remaining = 0
          /\ y.client # None
      <4>1. k # None  BY DEF Clients
      <4>2. QED  BY <1>3, <1>5, <3>1, <4>1 DEF RequestKept, RequestGoesOn
    <3>4. y.queued => y.remaining > 0 /\ y.active_reads <= 1
      <4>1. CASE y.queued /\ ~par[r].queued
        <5>1. ~par[r].final_issued /\ y.active_reads <= 1
          BY <3>1, <4>1 DEF RequestGoesOn
        <5>2. par[r].remaining # 0  BY <1>3, <1>5, <5>1 DEF RequestKept
        <5>3. QED  BY <2>2, <3>1, <5>1, <5>2 DEF RequestGoesOn
      <4>2. CASE par[r].queued
        <5>1. par[r].remaining > 0 /\ par[r].active_reads <= 1
          BY <1>5, <4>2 DEF RequestKept
        <5>2. QED  BY <2>2, <3>1, <5>1 DEF RequestGoesOn
      <4>3. QED  BY <4>1, <4>2
    <3>5. y.active_reads = Len(y.reads)  BY <1>2, <1>3, <3>1 DEF RequestGoesOn
    <3>6. RequestKept(r)'
      <4>1. Len(y.reads) \in Nat  BY <1>2
      <4>2. par'[r] = y  BY <1>2
      <4>3. Started(r)' = Len(y.reads)  BY <1>5, <4>1, <4>2 DEF Started
      <4>4. QED  BY <3>2, <3>3, <3>4, <3>5, <4>2, <4>3 DEF RequestKept
    <3>7. QED  BY <1>4, <1>7, <2>1, <2>4, <3>6 DEF RequestsKept
  <2>5. QED  BY <2>3, <2>4
<1>11. RecordsKept' /\ CommandsKept' /\ BuffersKept'  BY <1>1, CompletionKeepsReads
<1>12. InTurn' /\ ReadingApart' /\ InOrder'  BY <1>1, CompletionKeepsOrder
<1>13. EntriesKept' /\ UploadsKept' /\ BanksKept' /\ HandlesKept'
  BY <1>1, CompletionKeepsClients
<1>14. ChunksKept'  BY <1>1, CompletionKeepsChunks
<1>15. QED
  BY <1>3, <1>8, <1>9, <1>10, <1>11, <1>12, <1>13, <1>14 DEF IndInv

----------------------------------------------------------------------------
(* The invariant, for every number of requests, buffers, commands, clients *)
(* and chunks.                                                             *)

LEMMA InitHolds == Init => IndInv
<1> SUFFICES ASSUME Init PROVE IndInv
  OBVIOUS
<1>1. /\ parFree \in Seq(Requests) /\ IsInjective(parFree) /\ ToSet(parFree) = Requests
  BY PoolAssumption, PlacesInOrder DEF Init, Requests
<1>2. /\ readFree \in Seq(FileReads) /\ IsInjective(readFree) /\ ToSet(readFree) = FileReads
  BY PoolAssumption, PlacesInOrder DEF Init, FileReads
<1> USE DEF Init
<1>3. \A r \in Requests : /\ par[r] = Cleared(0) /\ ~par[r].in_use /\ ~par[r].queued
                          /\ par[r].active_reads = 0 /\ par[r].remaining = 0
                          /\ par[r].generation = 0 /\ par[r].client = None
                          /\ par[r].reads = <<>>
  BY DEF Cleared
<1>4. \A d \in FileReads : fileRead[d] = NoRead /\ fileRead[d].buffer = None
  BY DEF NoRead
<1>5. \A c \in Commands : cmd[c] = NoCommand /\ cmd[c].state = "free"
  BY DEF NoCommand
<1>6. \A b \in Buffers : /\ upload[b] = NoUpload /\ upload[b].transfers = 0
                         /\ upload[b].client = None /\ ~upload[b].last
  BY DEF NoUpload
<1>7. /\ Len(tickQueue) = 0 /\ Len(cmds) = 0 /\ ToSet(cmds) = {} /\ ToSet(parQueue) = {}
      /\ IsInjective(cmds) /\ IsInjective(parQueue) /\ IsInjective(tickQueue)
  BY ElemsEmpty
<1>8. par \in [Requests -> RequestType]
  <2>1. Cleared(0) \in RequestType
    <3>1. 0 \in 0 .. Generations - 1  OBVIOUS
    <3>2. QED  BY <3>1, ClearedTyped
  <2>2. QED  BY <2>1
<1>9. Typed
  <2>1. \A r \in Requests :
          /\ par[r].active_reads \in 0 .. 3 /\ par[r].remaining \in 0 .. MaxChunks
          /\ par[r].generation \in 0 .. Generations - 1
          /\ par[r].client \in Clients \cup {None} /\ par[r].reads \in Seq(FileReads)
    BY <1>8 DEF RequestType
  <2>2. /\ upload \in [Buffers -> UploadType]
        /\ total \in [Clients -> 0 .. MaxChunks] /\ got \in [Clients -> 0 .. MaxChunks]
    <3>1. 0 \in 0 .. MaxChunks /\ 0 \in 0 .. 2  OBVIOUS
    <3>2. NoUpload \in UploadType  BY <3>1 DEF NoUpload, UploadType
    <3>3. QED  BY <3>1, <3>2
  <2>3. /\ fileRead \in [FileReads -> [owner : Requests \cup {None},
                                       buffer : Buffers \cup {None},
                                       command : Commands \cup {None},
                                       chunk : 0 .. MaxChunks]]
        /\ cmd \in [Commands -> [state : {"free", "waiting", "reading", "finished"},
                                 read : FileReads \cup {None},
                                 buffer : Buffers \cup {None}, dropped : BOOLEAN]]
    BY DEF NoRead, NoCommand
  <2>4. /\ parQueue \in Seq(Requests) /\ cmds \in Seq(Commands)
        /\ tickQueue \in Seq(EntryType)
        /\ bufferFree \in [Buffers -> BOOLEAN] /\ loading \in [Banks -> BOOLEAN]
        /\ pending \in [Clients -> Handles \cup {None}]
        /\ game \in {"idle", "service", "issue"}
    OBVIOUS
  <2>5. arqFree \in 0 .. ArqSlots /\ batch \in 0 .. TickSlots /\ processed \in 0 .. batch
    OBVIOUS
  <2>6. QED
    BY <1>1, <1>2, <1>8, <2>1, <2>2, <2>3, <2>4, <2>5 DEF Typed, TypeOK
<1>10. InService  BY DEF InService
<1>11. RequestsKept
  <2>1. ASSUME NEW r \in Requests PROVE RequestKept(r)
    <3>1. cur.request # r  BY DEF NoService
    <3>2. Started(r) = 0
      BY <1>3, <3>1 DEF Started
    <3>3. QED  BY <1>1, <1>3, <1>7, <3>2 DEF RequestKept
  <2>2. QED  BY <1>1, <1>7, <2>1 DEF RequestsKept
<1>12. RecordsKept
  <2>1. \A r \in Requests : IsInjective(par[r].reads) /\ Linked(r) = {}
    BY <1>3, ElemsEmpty DEF Linked
  <2>2. \A d \in FileReads : cur.read # d  BY DEF NoService, FileReads, Buffers
  <2>3. QED  BY <1>2, <1>4, <2>1, <2>2 DEF RecordsKept, RecordKept
<1>13. CommandsKept
  BY <1>4, <1>5, <1>7 DEF CommandsKept, CommandKept
<1>14. InTurn  BY <1>7 DEF InTurn
<1>15. ReadingApart  BY <1>5 DEF ReadingApart
<1>16. BuffersKept
  <2>1. \A b \in Buffers : bufferFree[b] /\ ~InRead(b) /\ cur.buffer # b
    BY <1>4 DEF InRead, NoService
  <2>2. \A b : ~Returning(b)  BY <1>7 DEF Returning
  <2>3. QED  BY <1>4, <1>6, <2>1, <2>2 DEF BuffersKept, BufferKept
<1>17. EntriesKept  BY <1>7 DEF EntriesKept
<1>18. UploadsKept
  <2>1. Under = {}  BY <1>6 DEF Under
  <2>2. Cardinality(Under) = 0  BY <2>1, FS_EmptySet
  <2>3. QED  BY <1>6, <2>2 DEF UploadsKept, UploadKept
<1>19. /\ \A c : c # None => ~Requested(c)
       /\ \A c : ~LastUpload(c) /\ ~Ending(c)
  BY <1>3, <1>6, <1>7 DEF Requested, LastUpload, Ending
<1>20. BanksKept
  BY <1>6, <1>19 DEF BanksKept, Clients
<1>21. HandlesKept
  <2>1. \A s \in Streams : pending[s] = None /\ s # None  BY DEF Clients
  <2>2. QED  BY <1>3, <2>1 DEF HandlesKept
<1>22. ChunksKept  BY <1>3 DEF ChunksKept
<1>23. InOrder  BY <1>7 DEF InOrder
<1>24. QED
  BY <1>9, <1>10, <1>11, <1>12, <1>13, <1>14, <1>15, <1>16, <1>17, <1>18, <1>20, <1>21,
     <1>22, <1>23 DEF IndInv

LEMMA NextKeeps ==
  ASSUME IndInv, [Next]_vars
  PROVE  IndInv'
<1>1. ASSUME NEW c \in Clients, NEW n \in 1 .. MaxChunks, QueueRequest(c, n) PROVE IndInv'
  BY <1>1, QueueRequestKeeps
<1>2. ASSUME NEW s \in Streams, CancelRequest(s) PROVE IndInv'
  BY <1>2, CancelRequestKeeps
<1>3. CASE Service
  BY <1>3, ServiceNextReadKeeps, IssueReadKeeps DEF Service
<1>4. CASE Completion
  BY <1>4, DroppedReadKeeps, FileReadCompletionKeeps DEF Completion
<1>5. CASE Tick
  BY <1>5, TickBeginKeeps, TickCallbackKeeps, TickEndKeeps DEF Tick
<1>6. CASE Disc
  BY <1>6, ServeCommandKeeps, ReadEndsKeeps DEF Disc
<1>7. ASSUME NEW b \in Buffers, ArqComplete(b) PROVE IndInv'
  BY <1>7, ArqCompleteKeeps
<1>8. CASE UNCHANGED vars
  <2>1. UNCHANGED <<poolVars, readVars, gameVars, cmdVars, clientVars, arqVars, tickVars,
                    panic, historyVars>>
    BY <1>8 DEF vars
  <2>2. Typed'  BY <2>1 DEF IndInv, Typed, TypeOK
  <2>3. QED  BY <2>1, <2>2, Stable DEF IndInv
<1>9. QED  BY <1>1, <1>2, <1>3, <1>4, <1>5, <1>6, <1>7, <1>8 DEF Next

(* What the library relies on between any two of its steps always holds.   *)
THEOREM StreamInvariant == Spec => []IndInv
<1>1. Init => IndInv  BY InitHolds
<1>2. IndInv /\ [Next]_vars => IndInv'  BY NextKeeps
<1>3. QED  BY <1>1, <1>2, PTL DEF Spec

(* The fields of a request that the counts are made of.                    *)
LEMMA Counts ==
  ASSUME IndInv, NEW r \in Requests, par[r].in_use
  PROVE  \E left, over, under \in Nat :
           /\ left = par[r].remaining /\ over = par[r].next_chunk /\ under = Len(par[r].reads)
           /\ par[r].client \in Clients
           /\ total[par[r].client] = over - 1 + left
           /\ got[par[r].client] = over - 1 - under
           /\ par[r].final_issued <=> left = 0
           /\ left = 0 => par[r].active_reads > 0
           /\ par[r].active_reads = Started(r)
<1>1. par \in [Requests -> RequestType]  BY DEF IndInv, Typed
<1>2. /\ par[r].remaining \in Nat /\ par[r].next_chunk \in Nat /\ Len(par[r].reads) \in Nat
  BY <1>1, RequestFields
<1>3. /\ par[r].client \in Clients /\ (par[r].final_issued <=> par[r].remaining = 0)
      /\ par[r].active_reads = Started(r)
      /\ par[r].queued \/ par[r].active_reads > 0
      /\ par[r].queued => par[r].remaining > 0
  BY <1>1 DEF IndInv, RequestsKept, RequestKept, RequestType
<1>4. /\ total[par[r].client] = par[r].next_chunk - 1 + par[r].remaining
      /\ got[par[r].client] = par[r].next_chunk - 1 - Len(par[r].reads)
  BY DEF IndInv, ChunksKept
<1>5. par[r].remaining = 0 => par[r].active_reads > 0
  BY <1>2, <1>3
<1>6. QED  BY <1>2, <1>3, <1>4, <1>5

----------------------------------------------------------------------------
(* What the runs check, for every value of the constants.                  *)

LEMMA HeldByOne ==
  ASSUME IndInv, NEW b \in Buffers
  PROVE  Cardinality(Holders(b)) = 1
<1>1. BufferKept(b)  BY DEF IndInv, BuffersKept
<1>2. upload[b].transfers \in 0 .. 2  BY DEF IndInv, Typed, UploadType
<1>3. \A h : h \in Holders(b) <=> \/ h = "free" /\ bufferFree[b]
                                  \/ h = "read" /\ InRead(b)
                                  \/ h = "issue" /\ cur.buffer = b
                                  \/ h = "upload" /\ upload[b].transfers > 0
                                  \/ h = "return" /\ Returning(b)
  BY DEF Holders, InRead
<1>4. PICK h : Holders(b) = {h}
  <2>1. CASE bufferFree[b]
    <3>1. Holders(b) = {"free"}  BY <1>1, <1>2, <1>3, <2>1 DEF BufferKept
    <3>2. QED  BY <3>1
  <2>2. CASE InRead(b)
    <3>1. Holders(b) = {"read"}  BY <1>1, <1>2, <1>3, <2>2 DEF BufferKept
    <3>2. QED  BY <3>1
  <2>3. CASE cur.buffer = b
    <3>1. Holders(b) = {"issue"}  BY <1>1, <1>2, <1>3, <2>3 DEF BufferKept
    <3>2. QED  BY <3>1
  <2>4. CASE upload[b].transfers > 0
    <3>1. Holders(b) = {"upload"}  BY <1>1, <1>2, <1>3, <2>4 DEF BufferKept
    <3>2. QED  BY <3>1
  <2>5. CASE Returning(b)
    <3>1. Holders(b) = {"return"}  BY <1>1, <1>2, <1>3, <2>5 DEF BufferKept
    <3>2. QED  BY <3>1
  <2>6. QED  BY <1>1, <2>1, <2>2, <2>3, <2>4, <2>5 DEF BufferKept
<1>5. QED  BY <1>4, FS_Singleton

(* A buffer of g_DSB_Buffers is in exactly one place at any time: on the   *)
(* free list, in one read, with the loop of mslDSB_ServiceNextRead, in an  *)
(* upload or on its way back through mslTick; mslDSB_CancelRead and        *)
(* ReturnBuffer_CB never lose one nor give it out twice.                   *)
THEOREM BuffersHeld == Spec => []BufferHeldOnce
<1>1. IndInv => BufferHeldOnce
  BY HeldByOne DEF IndInv, BuffersKept, BufferHeldOnce
<1>2. QED  BY <1>1, StreamInvariant, PTL

(* A request of DSB_PAR_Pool is on the free list exactly when it is not in *)
(* use, in the queue exactly when it says so, and its count of reads is    *)
(* that of the records linked to it; its fields keep to their ranges.      *)
THEOREM RequestsHeld == Spec => []RequestAccounted
<1>1. IndInv => RequestAccounted
  <2> SUFFICES ASSUME IndInv PROVE RequestAccounted
    OBVIOUS
  <2>1. TypeOK /\ IsInjective(parFree) /\ IsInjective(parQueue)
    BY DEF IndInv, Typed, RequestsKept
  <2>2. \A r \in Requests : RequestKept(r) /\ \A d \in Linked(r) : fileRead[d].owner = r
    BY DEF IndInv, RequestsKept, RecordsKept
  <2>3. QED  BY <2>1, <2>2 DEF RequestAccounted, RequestKept, Started
<1>2. QED  BY <1>1, StreamInvariant, PTL

(* The disc never reads into a buffer whose chunk is being uploaded or is  *)
(* on its way back, although mslDSB_CancelRead frees the buffer of a read  *)
(* that goes on.                                                           *)
THEOREM ChunksUndisturbed == Spec => []ChunkUndisturbed
<1>1. IndInv => ChunkUndisturbed
  BY DEF IndInv, ReadingApart, ChunkUndisturbed
<1>2. QED  BY <1>1, StreamInvariant, PTL

(* mslTickCallBack_Queue never meets a full queue and a bank's upload      *)
(* never lacks an ARQ request.                                             *)
THEOREM NoExhaustion == Spec => []NeverExhausted
<1>1. IndInv => NeverExhausted  BY DEF IndInv, NeverExhausted
<1>2. QED  BY <1>1, StreamInvariant, PTL

(* The handle in a stream's pending_file_request names its own request     *)
(* with its generation, however requests were cancelled and handed out     *)
(* again in between.                                                       *)
THEOREM HandlesCurrent == Spec => []HandleCurrent
<1>1. IndInv => HandleCurrent  BY HandleValid DEF HandleCurrent
<1>2. QED  BY <1>1, StreamInvariant, PTL

----------------------------------------------------------------------------
(* The stream buffers implement StreamReads.                               *)

ReadStep == Reads!Next \/ UNCHANGED <<total, got>>

LEMMA QueueRequestStarts ==
  ASSUME IndInv, NEW c \in Clients, NEW n \in 1 .. MaxChunks, QueueRequest(c, n)
  PROVE  Reads!Start(c, n)
<1>1. ~Requested(c)  BY AskerIdle DEF QueueRequest
<1>2. total[c] = 0  BY <1>1 DEF IndInv, ChunksKept
<1>3. QED  BY <1>2 DEF QueueRequest, Reads!Start

LEMMA CancelRequestCancels ==
  ASSUME IndInv, NEW s \in Streams, CancelRequest(s)
  PROVE  Reads!Cancel(s)
<1>1. pending[s] # None /\ game = "idle"  BY DEF CancelRequest
<1>2. PICK r \in Requests : par[r].client = s /\ par[r].in_use
  BY <1>1, HandleValid
<1>3. cur = NoService /\ None # r  BY <1>1 DEF IndInv, InService
<1>4. PICK left, over, under \in Nat :
        /\ under = Len(par[r].reads)
        /\ total[s] = over - 1 + left /\ got[s] = over - 1 - under
        /\ left = 0 => par[r].active_reads > 0
        /\ par[r].active_reads = Started(r)
  BY <1>2, Counts
<1>5. par[r].active_reads = under  BY <1>3, <1>4 DEF Started, NoService
<1>6. got[s] \in Nat  BY DEF IndInv, Typed, Clients
<1>7. total[s] > 0  BY <1>4, <1>5, <1>6
<1>8. QED  BY <1>7 DEF CancelRequest, Reads!Cancel

LEMMA CompletionDelivers ==
  ASSUME IndInv, FileReadCompletion
  PROVE  \E k \in Clients : Reads!Deliver(k)
<1>1. PICK c \in Commands, d \in FileReads, r \in Requests, b \in Buffers,
           k \in Clients, n \in 1 .. 2, y \in RequestType, final \in BOOLEAN :
             Completes(c, d, r, b, k, n, y, final)
  BY CompletionView
<1>2. /\ par[r].client = k /\ par[r].in_use /\ par[r].reads # <<>>
      /\ par[r].active_reads = Len(par[r].reads)
      /\ final <=> par[r].final_issued /\ par[r].active_reads = 1
      /\ total' = IF final THEN [total EXCEPT ![k] = 0] ELSE total
      /\ got' = [got EXCEPT ![k] = got[k] + 1]
  BY <1>1 DEF Completes, ClientGets
<1>3. PICK left, over, under \in Nat :
        /\ under = Len(par[r].reads)
        /\ total[par[r].client] = over - 1 + left
        /\ got[par[r].client] = over - 1 - under
        /\ par[r].final_issued <=> left = 0
  BY <1>2, Counts, ZenonT(60)
<1>4. under > 0
  <2>1. par[r].reads \in Seq(FileReads)  BY DEF IndInv, Typed, TypeOK
  <2>2. QED  BY <1>2, <1>3, <2>1
<1>5. got[k] < total[k] /\ (final <=> got[k] + 1 = total[k])
  <2>1. total[k] = over - 1 + left /\ got[k] = over - 1 - under  BY <1>2, <1>3
  <2>2. final <=> left = 0 /\ under = 1  BY <1>2, <1>3
  <2>3. final <=> over - 1 - under + 1 = over - 1 + left  BY <1>4, <2>2
  <2>4. over - 1 - under < over - 1 + left  BY <1>4
  <2>5. QED  BY <2>1, <2>3, <2>4
<1>6. total \in [Clients -> 0 .. MaxChunks]  BY DEF IndInv, Typed
<1>7. total' = [total EXCEPT ![k] = IF got[k] + 1 = @ THEN 0 ELSE @]
  BY <1>2, <1>5, <1>6
<1>8. QED  BY <1>2, <1>5, <1>7 DEF Reads!Deliver

LEMMA StepReads ==
  ASSUME IndInv, [Next]_vars
  PROVE  ReadStep
<1> USE DEF ReadStep
<1>1. ASSUME NEW c \in Clients, NEW n \in 1 .. MaxChunks, QueueRequest(c, n)
      PROVE ReadStep
  BY <1>1, QueueRequestStarts DEF Reads!Next
<1>2. ASSUME NEW s \in Streams, CancelRequest(s) PROVE ReadStep
  <2>1. s \in Clients  BY DEF Clients
  <2>2. QED  BY <1>2, <2>1, CancelRequestCancels DEF Reads!Next
<1>3. CASE Service
  BY <1>3 DEF Service, ServiceNextRead, IssueRead
<1>4. CASE DroppedRead  BY <1>4 DEF DroppedRead
<1>5. CASE FileReadCompletion
  BY <1>5, CompletionDelivers DEF Reads!Next
<1>6. CASE Tick
  BY <1>6 DEF Tick, TickBegin, TickCallback, TickEnd
<1>7. CASE Disc
  BY <1>7 DEF Disc, ServeCommand, ReadEnds
<1>8. ASSUME NEW b \in Buffers, ArqComplete(b) PROVE ReadStep
  BY <1>8 DEF ArqComplete
<1>9. CASE UNCHANGED vars  BY <1>9 DEF vars
<1>10. QED
  BY <1>1, <1>2, <1>3, <1>4, <1>5, <1>6, <1>7, <1>8, <1>9 DEF Next, Completion

(* mslStreamFile_QueueRequest, _CancelRequest and the completions of reads *)
(* implement StreamReads: a request delivers its chunks once and in the    *)
(* order asked for, "final" with the last, and nothing once cancelled.     *)
THEOREM DeliversInOrder == Spec => ChunksInOrder
<1>1. Init => Reads!Init  BY DEF Init, Reads!Init
<1>2. IndInv /\ [Next]_vars => [Reads!Next]_<<total, got>>
  BY StepReads DEF ReadStep
<1>3. QED  BY <1>1, <1>2, StreamInvariant, PTL DEF Spec, ChunksInOrder, Reads!Spec
=============================================================================
