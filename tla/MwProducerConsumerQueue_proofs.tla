------------------- MODULE MwProducerConsumerQueue_proofs -------------------
(***************************************************************************)
(* Proofs about mwProducerConsumerQueue, for every capacity, every set of  *)
(* producers and every set of values.                                      *)
(***************************************************************************)
EXTENDS MwProducerConsumerQueue, TLAPS

(* The index arithmetic of circular_buffer: a sum of two offsets inside    *)
(* the buffer either stays below the size or wraps exactly once.           *)
LEMMA ModBelow ==
  ASSUME NEW n \in Nat \ {0}, NEW a \in 0 .. n - 1
  PROVE  a % n = a
BY SMT

LEMMA ModWrap ==
  ASSUME NEW n \in Nat \ {0}, NEW a \in n .. 2 * n - 1
  PROVE  a % n = a - n
BY SMT

(* The index that push and pop move stays inside the buffer.               *)
LEMMA NextIndex ==
  ASSUME NEW a \in Index
  PROVE  /\ (a + 1) % Size \in Index
         /\ (a + 1) % Size = IF a + 1 = Size THEN 0 ELSE a + 1
<1>1. CASE a + 1 = Size
  <2>1. (a + 1) % Size = a + 1 - Size
    BY <1>1, QueueSizeAssumption, ModWrap, SMT DEF Index
  <2>2. QED  BY <1>1, <2>1, QueueSizeAssumption, SMT DEF Index
<1>2. CASE a + 1 # Size
  <2>1. a + 1 \in 0 .. Size - 1
    BY <1>2, QueueSizeAssumption, SMT DEF Index
  <2>2. (a + 1) % Size = a + 1
    BY <2>1, QueueSizeAssumption, ModBelow
  <2>3. QED  BY <1>2, <2>1, <2>2, QueueSizeAssumption, SMT DEF Index
<1>3. QED  BY <1>1, <1>2

(* The cell that lies i places after an index.                             *)
LEMMA Offset ==
  ASSUME NEW a \in Index, NEW i \in 0 .. Size
  PROVE  /\ (a + i) % Size \in Index
         /\ (a + i) % Size = IF a + i < Size THEN a + i ELSE a + i - Size
<1>1. CASE a + i < Size
  <2>1. a + i \in 0 .. Size - 1
    BY <1>1, QueueSizeAssumption, SMT DEF Index
  <2>2. (a + i) % Size = a + i
    BY <2>1, QueueSizeAssumption, ModBelow
  <2>3. QED  BY <1>1, <2>1, <2>2, QueueSizeAssumption, SMT DEF Index
<1>2. CASE ~(a + i < Size)
  <2>1. a + i \in Size .. 2 * Size - 1
    BY <1>2, QueueSizeAssumption, SMT DEF Index
  <2>2. (a + i) % Size = a + i - Size
    BY <2>1, QueueSizeAssumption, ModWrap, SMT DEF Index
  <2>3. QED  BY <1>2, <2>1, <2>2, QueueSizeAssumption, SMT DEF Index
<1>3. QED  BY <1>1, <1>2

----------------------------------------------------------------------------
LEMMA InitInv == Init => Inv
<1> SUFFICES ASSUME Init PROVE Inv
  OBVIOUS
<1>1. TypeOK  BY QueueSizeAssumption DEF Init, TypeOK, Index
<1>2. IndicesAgree
  <2>1. 0 % Size = 0  BY QueueSizeAssumption, ModBelow
  <2>2. QED  BY <2>1 DEF Init, IndicesAgree
<1>3. CellsWritten  BY DEF Init, CellsWritten
<1>4. NoLostWakeup /\ WaitersAreProducing
  BY DEF Init, NoLostWakeup, WaitersAreProducing
<1>5. QED  BY <1>1, <1>2, <1>3, <1>4 DEF Inv

(* produce() with room: the new element lands in the one free cell after   *)
(* the newest.                                                             *)
LEMMA ProduceInv ==
  ASSUME Inv, NEW t \in Producers, Produce(t)
  PROVE  Inv'
<1> USE DEF Inv
<1>1. count \in 0 .. Size - 1 /\ producing[t] \in Values
  BY QueueSizeAssumption DEF Produce, full, TypeOK
<1>2. tail = IF head + count < Size THEN head + count ELSE head + count - Size
  BY <1>1, Offset DEF TypeOK, IndicesAgree
<1>3. tail' = IF tail + 1 = Size THEN 0 ELSE tail + 1
  BY NextIndex DEF Produce, push, TypeOK
<1>4. TypeOK'
  <2>1. tail' \in Index  BY NextIndex DEF Produce, push, TypeOK
  <2>2. count' \in 0 .. Size  BY <1>1, QueueSizeAssumption DEF Produce, push
  <2>3. QED  BY <1>1, <2>1, <2>2, NoneAssumption
             DEF Produce, push, signal, TypeOK
<1>5. IndicesAgree'
  <2>1. (head + (count + 1)) % Size
          = IF head + (count + 1) < Size THEN head + (count + 1)
                                         ELSE head + (count + 1) - Size
    BY <1>1, QueueSizeAssumption, Offset DEF TypeOK
  <2>2. head' = head /\ count' = count + 1  BY DEF Produce, push
  <2>3. tail' = (head + (count + 1)) % Size
    BY <1>1, <1>2, <1>3, <2>1, QueueSizeAssumption, SMT DEF TypeOK, Index
  <2>4. QED  BY <2>2, <2>3 DEF IndicesAgree
<1>6. CellsWritten'
  <2> SUFFICES ASSUME NEW i \in 0 .. count
               PROVE  buffer'[(head + i) % Size] \in Values
    BY <1>1 DEF CellsWritten, Produce, push, TypeOK
  <2>1. (head + i) % Size \in Index
    BY <1>1, QueueSizeAssumption, Offset DEF TypeOK
  <2>2. CASE i = count
    BY <1>1, <2>1, <2>2 DEF Produce, push, TypeOK, IndicesAgree
  <2>3. CASE i # count
    <3>1. i \in 0 .. count - 1  BY <1>1, <2>3, QueueSizeAssumption, SMT
    <3>2. (head + i) % Size = IF head + i < Size THEN head + i ELSE head + i - Size
      BY <1>1, QueueSizeAssumption, Offset DEF TypeOK
    <3>3. (head + i) % Size # tail
      BY <1>1, <1>2, <3>1, <3>2, QueueSizeAssumption, SMT DEF TypeOK, Index
    <3>4. QED  BY <2>1, <3>1, <3>3 DEF Produce, push, TypeOK, CellsWritten
  <2>4. QED  BY <2>2, <2>3
<1>7. NoLostWakeup' /\ WaitersAreProducing'
  BY DEF Produce, signal, NoLostWakeup, WaitersAreProducing
<1>8. QED  BY <1>4, <1>5, <1>6, <1>7

(* consumeNonBlocking(): the window of written cells shrinks by its oldest *)
(* one, and every sleeping producer is woken.                              *)
LEMMA ConsumeInv ==
  ASSUME Inv, Consume
  PROVE  Inv'
<1> USE DEF Inv
<1>1. count \in 1 .. Size
  BY QueueSizeAssumption DEF Consume, empty, TypeOK
<1>2. head' = IF head + 1 = Size THEN 0 ELSE head + 1
  BY NextIndex DEF Consume, pop, TypeOK
<1>3. TypeOK'
  <2>1. head' \in Index  BY NextIndex DEF Consume, pop, TypeOK
  <2>2. count' \in 0 .. Size  BY <1>1, QueueSizeAssumption DEF Consume, pop
  <2>3. QED  BY <2>1, <2>2 DEF Consume, pop, signal, TypeOK
<1>4. \A i \in 0 .. count - 1 : (head' + i) % Size = (head + (i + 1)) % Size
  <2> SUFFICES ASSUME NEW i \in 0 .. count - 1
               PROVE  (head' + i) % Size = (head + (i + 1)) % Size
    OBVIOUS
  <2>1. (head' + i) % Size = IF head' + i < Size THEN head' + i ELSE head' + i - Size
    BY <1>1, <1>3, QueueSizeAssumption, Offset DEF TypeOK
  <2>2. (head + (i + 1)) % Size
          = IF head + (i + 1) < Size THEN head + (i + 1) ELSE head + (i + 1) - Size
    BY <1>1, QueueSizeAssumption, Offset DEF TypeOK
  <2>3. QED  BY <1>1, <1>2, <2>1, <2>2, QueueSizeAssumption, SMT DEF TypeOK, Index
<1>5. IndicesAgree'
  <2>1. (head' + (count - 1)) % Size = (head + ((count - 1) + 1)) % Size
    BY <1>1, <1>4, QueueSizeAssumption
  <2>2. (count - 1) + 1 = count  BY <1>1, QueueSizeAssumption
  <2>3. QED  BY <2>1, <2>2 DEF IndicesAgree, Consume, pop
<1>6. CellsWritten'
  <2> SUFFICES ASSUME NEW i \in 0 .. count - 2
               PROVE  buffer[(head' + i) % Size] \in Values
    BY <1>1, QueueSizeAssumption DEF CellsWritten, Consume, pop
  <2>1. i \in 0 .. count - 1 /\ i + 1 \in 0 .. count - 1
    BY <1>1, QueueSizeAssumption
  <2>2. QED  BY <1>4, <2>1 DEF CellsWritten
<1>7. NoLostWakeup' /\ WaitersAreProducing'
  BY DEF Consume, signal, NoLostWakeup, WaitersAreProducing
<1>8. QED  BY <1>3, <1>5, <1>6, <1>7

(* The calls that only move a thread in or out of produce().               *)
LEMMA CallInv ==
  ASSUME Inv, NEW t \in Producers,
         (\E v \in Values : CallProduce(t, v)) \/ ProduceWait(t)
  PROVE  Inv'
<1> USE DEF Inv
<1>1. CASE \E v \in Values : CallProduce(t, v)
  <2> PICK v \in Values : CallProduce(t, v)  BY <1>1
  <2>1. WaitersAreProducing'
    BY NoneAssumption DEF CallProduce, TypeOK, WaitersAreProducing
  <2>2. QED
    BY <2>1 DEF CallProduce, TypeOK, IndicesAgree, CellsWritten, NoLostWakeup, full
<1>2. CASE ProduceWait(t)
  BY <1>2 DEF ProduceWait, TypeOK, IndicesAgree, CellsWritten, NoLostWakeup, full,
              WaitersAreProducing
<1>3. QED  BY <1>1, <1>2

LEMMA NextInv == Inv /\ [Next]_vars => Inv'
<1> SUFFICES ASSUME Inv, [Next]_vars PROVE Inv'
  OBVIOUS
<1>1. ASSUME NEW t \in Producers, NEW v \in Values, CallProduce(t, v)
      PROVE  Inv'
  BY <1>1, CallInv
<1>2. ASSUME NEW t \in Producers, ProduceStep(t)
      PROVE  Inv'
  BY <1>2, CallInv, ProduceInv DEF ProduceStep
<1>3. CASE Consume  BY <1>3, ConsumeInv
<1>4. CASE UNCHANGED vars
  BY <1>4 DEF vars, Inv, TypeOK, IndicesAgree, CellsWritten, NoLostWakeup, full,
              WaitersAreProducing
<1>5. QED  BY <1>1, <1>2, <1>3, <1>4 DEF Next

(* For every capacity: the indices agree across wrap-arounds, only written *)
(* cells are read, and no producer sleeps through a free cell.             *)
THEOREM QueueInvariant == Spec => []Inv
<1>1. QED  BY InitInv, NextInv, PTL DEF Spec

(* A thread sleeps in produce() only while the queue is full: the signal   *)
(* that consumeNonBlocking sends after every pop is never missed.          *)
THEOREM WakeupsKept == Spec => []NoLostWakeup
<1>1. Inv => NoLostWakeup  BY DEF Inv
<1>2. QED  BY <1>1, QueueInvariant, PTL

----------------------------------------------------------------------------
(* The cells from head on, read in order, are a sequence of values.        *)
LEMMA ContentsSeq ==
  ASSUME Inv
  PROVE  contents \in Seq(Values) /\ Len(contents) = count
<1>1. count \in Nat  BY QueueSizeAssumption DEF Inv, TypeOK
<1>2. \A i \in 1 .. count : buffer[(head + i - 1) % Size] \in Values
  <2> SUFFICES ASSUME NEW i \in 1 .. count
               PROVE  buffer[(head + i - 1) % Size] \in Values
    OBVIOUS
  <2>1. i - 1 \in 0 .. count - 1  BY <1>1
  <2>2. head + i - 1 = head + (i - 1)
    BY <1>1, QueueSizeAssumption, SMT DEF Inv, TypeOK, Index
  <2>3. QED  BY <2>1, <2>2 DEF Inv, CellsWritten
<1>3. QED  BY <1>1, <1>2 DEF contents

LEMMA FifoInit == Init => Fifo!Init
BY DEF Init, Fifo!Init, contents

(* produce() appends at the end: no cell in use is overwritten.            *)
LEMMA FifoPut ==
  ASSUME Inv, NEW t \in Producers, Produce(t)
  PROVE  Fifo!Put(producing[t])
<1> DEFINE v == producing[t]
<1>1. count \in 0 .. Size - 1 /\ v \in Values /\ count \in Nat
  BY QueueSizeAssumption DEF Produce, full, Inv, TypeOK
<1>2. contents \in Seq(Values) /\ Len(contents) = count  BY ContentsSeq
<1>3. Inv'  BY ProduceInv
<1>4. count' = count + 1 /\ head' = head
  BY DEF Produce, push
<1>5. ASSUME NEW i \in 1 .. count + 1
      PROVE  contents'[i] = Append(contents, v)[i]
  <2>1. contents'[i] = buffer'[(head + i - 1) % Size]
    BY <1>1, <1>4 DEF contents
  <2>2. i - 1 \in 0 .. Size /\ head + i - 1 = head + (i - 1)
    BY <1>1, QueueSizeAssumption, SMT DEF Inv, TypeOK, Index
  <2>3. (head + (i - 1)) % Size \in Index
    BY <2>2, Offset DEF Inv, TypeOK
  <2>4. CASE i = count + 1
    <3>1. buffer'[(head + (i - 1)) % Size] = v
      <4>1. i - 1 = count  BY <1>1, <2>4
      <4>2. QED  BY <4>1 DEF Produce, push, Inv, TypeOK, IndicesAgree
    <3>2. Append(contents, v)[i] = v  BY <1>1, <1>2, <2>4
    <3>3. QED  BY <2>1, <2>2, <3>1, <3>2
  <2>5. CASE i # count + 1
    <3>1. i \in 1 .. count  BY <1>1, <2>5
    <3>2. Append(contents, v)[i] = contents[i]  BY <1>1, <1>2, <3>1
    <3>3. (head + (i - 1)) % Size # tail
      <4>1. tail = IF head + count < Size THEN head + count ELSE head + count - Size
        BY <1>1, QueueSizeAssumption, Offset DEF Inv, TypeOK, IndicesAgree
      <4>2. (head + (i - 1)) % Size
              = IF head + (i - 1) < Size THEN head + (i - 1) ELSE head + (i - 1) - Size
        BY <2>2, Offset DEF Inv, TypeOK
      <4>3. QED  BY <1>1, <3>1, <4>1, <4>2, QueueSizeAssumption, SMT DEF Inv, TypeOK, Index
    <3>4. buffer'[(head + (i - 1)) % Size] = buffer[(head + (i - 1)) % Size]
      BY <2>3, <3>3 DEF Produce, push, Inv, TypeOK
    <3>5. contents[i] = buffer[(head + i - 1) % Size]  BY <3>1 DEF contents
    <3>6. QED  BY <2>1, <2>2, <3>2, <3>4, <3>5
  <2>6. QED  BY <2>4, <2>5
<1>6. contents' = Append(contents, v)
  <2>1. contents' \in Seq(Values) /\ Len(contents') = count + 1
    <3>1. (contents \in Seq(Values) /\ Len(contents) = count)'
      BY <1>3, ContentsSeq, PTL
    <3>2. QED  BY <3>1, <1>4
  <2>2. Append(contents, v) \in Seq(Values) /\ Len(Append(contents, v)) = count + 1
    BY <1>1, <1>2
  <2>3. QED  BY <1>5, <2>1, <2>2
<1>7. Len(contents) < Size  BY <1>1, <1>2, QueueSizeAssumption
<1>8. QED  BY <1>6, <1>7 DEF Fifo!Put

(* consumeNonBlocking() takes the oldest element and moves no other.       *)
LEMMA FifoTake ==
  ASSUME Inv, Consume
  PROVE  Fifo!Take
<1>1. count \in 1 .. Size /\ count \in Nat
  BY QueueSizeAssumption DEF Consume, empty, Inv, TypeOK
<1>2. contents \in Seq(Values) /\ Len(contents) = count  BY ContentsSeq
<1>3. Inv'  BY ConsumeInv
<1>4. count' = count - 1 /\ buffer' = buffer  BY DEF Consume, pop
<1>5. contents # <<>>  BY <1>1, <1>2
<1>6. ASSUME NEW i \in 1 .. count - 1
      PROVE  contents'[i] = Tail(contents)[i]
  <2>1. contents'[i] = buffer[(head' + i - 1) % Size]  BY <1>1, <1>4 DEF contents
  <2>2. Tail(contents)[i] = contents[i + 1]  BY <1>1, <1>2
  <2>3. contents[i + 1] = buffer[(head + (i + 1) - 1) % Size]
    BY <1>1 DEF contents
  <2>4. head' = IF head + 1 = Size THEN 0 ELSE head + 1
    BY NextIndex DEF Consume, pop, Inv, TypeOK
  <2>5. /\ head \in Index /\ head' \in Index
        /\ head' + i - 1 = head' + (i - 1)
        /\ head + (i + 1) - 1 = head + i
        /\ i - 1 \in 0 .. Size /\ i \in 0 .. Size
    BY <1>1, <1>3, QueueSizeAssumption, SMT DEF Inv, TypeOK, Index
  <2>6. (head' + (i - 1)) % Size
          = IF head' + (i - 1) < Size THEN head' + (i - 1) ELSE head' + (i - 1) - Size
    BY <2>5, Offset
  <2>7. (head + i) % Size = IF head + i < Size THEN head + i ELSE head + i - Size
    BY <2>5, Offset
  <2>8. (head' + (i - 1)) % Size = (head + i) % Size
    BY <1>1, <2>4, <2>5, <2>6, <2>7, QueueSizeAssumption, SMT DEF Index
  <2>9. QED  BY <2>1, <2>2, <2>3, <2>5, <2>8
<1>7. contents' = Tail(contents)
  <2>1. contents' \in Seq(Values) /\ Len(contents') = count - 1
    <3>1. (contents \in Seq(Values) /\ Len(contents) = count)'
      BY <1>3, ContentsSeq, PTL
    <3>2. QED  BY <3>1, <1>4
  <2>2. Tail(contents) \in Seq(Values) /\ Len(Tail(contents)) = count - 1
    BY <1>1, <1>2, <1>5
  <2>3. QED  BY <1>6, <2>1, <2>2
<1>8. QED  BY <1>5, <1>7 DEF Fifo!Take

LEMMA FifoStep == Inv /\ [Next]_vars => [Fifo!Next]_contents
<1> SUFFICES ASSUME Inv, [Next]_vars PROVE [Fifo!Next]_contents
  OBVIOUS
<1>1. ASSUME NEW t \in Producers, NEW v \in Values, CallProduce(t, v)
      PROVE  UNCHANGED contents
  BY <1>1 DEF CallProduce, contents
<1>2. ASSUME NEW t \in Producers, ProduceWait(t)
      PROVE  UNCHANGED contents
  BY <1>2 DEF ProduceWait, contents
<1>3. ASSUME NEW t \in Producers, Produce(t)
      PROVE  Fifo!Next
  <2>1. producing[t] \in Values  BY <1>3 DEF Produce, Inv, TypeOK
  <2>2. Fifo!Put(producing[t])  BY <1>3, FifoPut
  <2>3. QED  BY <2>1, <2>2 DEF Fifo!Next
<1>4. CASE Consume  BY <1>4, FifoTake DEF Fifo!Next
<1>5. CASE UNCHANGED vars  BY <1>5 DEF vars, contents
<1>6. QED  BY <1>1, <1>2, <1>3, <1>4, <1>5 DEF Next, ProduceStep

(* The circular buffer implements the bounded queue, for every capacity:   *)
(* finished commands reach the game thread in the order they finished,     *)
(* each exactly once.                                                      *)
THEOREM QueueImplementsFifo == Spec => FifoSpec
<1>1. Spec => []Inv  BY QueueInvariant
<1>2. QED  BY <1>1, FifoInit, FifoStep, PTL DEF Spec, FifoSpec, Fifo!Spec
=============================================================================
