---------------------------- MODULE BoundedFifo ----------------------------
(***************************************************************************)
(* What mwProducerConsumerQueue promises to the file system: a first-in    *)
(* first-out buffer of at most Size elements.  MwProducerConsumerQueue is  *)
(* shown to implement it.                                                  *)
(***************************************************************************)
EXTENDS Naturals, Sequences

CONSTANTS Values,       \* what is queued: pointers to file commands
          Size          \* the capacity given to resize()

VARIABLE queue          \* the elements, oldest first

Init == queue = <<>>

Put(v) == Len(queue) < Size /\ queue' = Append(queue, v)

Take == queue # <<>> /\ queue' = Tail(queue)

Next == (\E v \in Values : Put(v)) \/ Take

Spec == Init /\ [][Next]_queue
=============================================================================
