---------------------- MODULE MwProducerConsumerQueue ----------------------
(***************************************************************************)
(* mwProducerConsumerQueue<T> and the circular_buffer<T> under it          *)
(* (include/mw/mwFileQueue.h): the queue that carries finished commands    *)
(* from the service thread to the game thread (the manager's "callbacks")  *)
(* and the one that carries new commands to the generic server.            *)
(*                                                                         *)
(* Each operation runs under the queue's mutex, so a critical section is   *)
(* one step.  produce() is the operation that can be interrupted: it gives *)
(* the mutex up in condition.wait and takes the test again once signalled. *)
(* OSSignalCond wakes every waiter.                                        *)
(***************************************************************************)
EXTENDS Naturals, Sequences

CONSTANTS Producers,    \* threads that call produce()
          Values,       \* what they queue
          Size,         \* buffer.size()
          None          \* no call of produce() under way

ASSUME QueueSizeAssumption == Size \in Nat \ {0}
ASSUME NoneAssumption == None \notin Values

VARIABLES buffer,       \* circular_buffer::buffer, indexed from 0
          head, tail,   \* indices of the oldest element and of the next free one
          count,        \* the number of elements held
          producing,    \* the argument of the produce() call each thread is in
          waiting       \* threads asleep in condition.wait

vars == <<buffer, head, tail, count, producing, waiting>>

Index == 0 .. Size - 1

(* mutant: the test for a full buffer comes one element late *)
full_late == count > Size

full == count = Size
empty == count = 0

(* mwFileInit resizes a zero-filled object; the cells of the vector hold   *)
(* values nobody reads.                                                    *)
Init == /\ buffer \in [Index -> {None}]
        /\ head = 0
        /\ tail = 0
        /\ count = 0
        /\ producing = [t \in Producers |-> None]
        /\ waiting = {}

push(v) == /\ buffer' = [buffer EXCEPT ![tail] = v]
           /\ tail' = (tail + 1) % Size
           /\ count' = count + 1
           /\ UNCHANGED head

pop == /\ head' = (head + 1) % Size
       /\ count' = count - 1
       /\ UNCHANGED <<buffer, tail>>

(* mutant: the signal is lost *)
signal_lost == UNCHANGED waiting

signal == waiting' = {}

CallProduce(t, v) == /\ producing[t] = None
                     /\ producing' = [producing EXCEPT ![t] = v]
                     /\ UNCHANGED <<buffer, head, tail, count, waiting>>

(* produce(): the loop's test finds the buffer full *)
ProduceWait(t) == /\ producing[t] # None /\ t \notin waiting
                  /\ full
                  /\ waiting' = waiting \cup {t}
                  /\ UNCHANGED <<buffer, head, tail, count, producing>>

(* produce(): room, so push, signal and return *)
Produce(t) == /\ producing[t] # None /\ t \notin waiting
              /\ ~full
              /\ push(producing[t])
              /\ signal
              /\ producing' = [producing EXCEPT ![t] = None]

(* mutant: the consumer does not signal *)
Consume_silent == ~empty /\ pop /\ UNCHANGED <<producing, waiting>>

(* consumeNonBlocking(), by the one consumer; on an empty buffer it changes *)
(* nothing and returns false                                                *)
Consume == /\ ~empty
           /\ pop
           /\ signal
           /\ UNCHANGED producing

ProduceStep(t) == ProduceWait(t) \/ Produce(t)

Next == \/ \E t \in Producers : \/ \E v \in Values : CallProduce(t, v)
                                \/ ProduceStep(t)
        \/ Consume

(* A thread inside produce() keeps running, and the game thread drains the *)
(* queue on every tick.                                                    *)
Fairness == /\ \A t \in Producers : WF_vars(ProduceStep(t))
            /\ WF_vars(Consume)

Spec == Init /\ [][Next]_vars

FairSpec == Spec /\ Fairness

----------------------------------------------------------------------------
(* The queue is always in a state the code can name: both indices inside   *)
(* the buffer, the count within its size.                                  *)
TypeOK == /\ buffer \in [Index -> Values \cup {None}]
          /\ head \in Index
          /\ tail \in Index
          /\ count \in 0 .. Size
          /\ producing \in [Producers -> Values \cup {None}]
          /\ waiting \subseteq Producers

(* The two indices and the count, which push and pop move separately, stay *)
(* consistent across every wrap-around.                                    *)
IndicesAgree == tail = (head + count) % Size

(* Every cell between head and tail holds a value produce() was called     *)
(* with: the consumer never reads a cell nobody wrote.                     *)
CellsWritten == \A i \in 0 .. count - 1 : buffer[(head + i) % Size] \in Values

(* No lost wakeup: a producer sleeps only while the buffer is full, so the *)
(* consumer's signal after a pop is never missed.                          *)
NoLostWakeup == waiting # {} => full

(* A producer is only ever asleep inside a call of produce().              *)
WaitersAreProducing == \A t \in waiting : producing[t] # None

Inv == TypeOK /\ IndicesAgree /\ CellsWritten /\ NoLostWakeup /\ WaitersAreProducing

contents == [i \in 1 .. count |-> buffer[(head + i - 1) % Size]]

Fifo == INSTANCE BoundedFifo WITH queue <- contents

(* The circular buffer implements the bounded first-in first-out queue:    *)
(* nothing is lost, duplicated or reordered, whatever the interleaving.    *)
FifoSpec == Fifo!Spec

(* A thread that sleeps in produce() is woken again.                       *)
SleepersWake == \A t \in Producers : t \in waiting ~> t \notin waiting

=============================================================================
