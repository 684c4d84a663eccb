--------------------------- MODULE AsyncCommands ---------------------------
(***************************************************************************)
(* What the file system promises to its callers about asynchronous         *)
(* commands, whatever the threads behind it do.  A command is started      *)
(* ("waiting"), its callback runs once ("running"), the caller has been    *)
(* told ("told"), and it is deleted ("freed") when its caller has asked    *)
(* for that and its callback is over.                                      *)
(***************************************************************************)
EXTENDS Naturals

CONSTANTS Commands,     \* numbered in the order they are started
          Priorities,
          None          \* the class of a command that was not started

VARIABLES phase,        \* where each command is
          class,        \* its priority
          asked         \* whether its caller has freed it

Init == /\ phase = [c \in Commands |-> "unborn"]
        /\ class = [c \in Commands |-> None]
        /\ asked = [c \in Commands |-> FALSE]

Start(c, p) == /\ phase[c] = "unborn"
               /\ \A d \in Commands : d < c => phase[d] # "unborn"
               /\ phase' = [phase EXCEPT ![c] = "waiting"]
               /\ class' = [class EXCEPT ![c] = p]
               /\ UNCHANGED asked

(* Commands of one priority are called back in the order they were started *)
CallBack(c) == /\ phase[c] = "waiting"
               /\ \A d \in Commands :
                    d < c /\ class[d] = class[c] => phase[d] # "waiting"
               /\ phase' = [phase EXCEPT ![c] = "running"]
               /\ UNCHANGED <<class, asked>>

Return(c) == /\ phase[c] = "running"
             /\ phase' = [phase EXCEPT ![c] = IF asked[c] THEN "freed" ELSE "told"]
             /\ UNCHANGED <<class, asked>>

Free(c) == /\ phase[c] \in {"waiting", "running", "told"}
           /\ ~asked[c]
           /\ asked' = [asked EXCEPT ![c] = TRUE]
           /\ phase' = [phase EXCEPT ![c] = IF @ = "told" THEN "freed" ELSE @]
           /\ UNCHANGED class

Next == \E c \in Commands : \/ \E p \in Priorities : Start(c, p)
                            \/ CallBack(c)
                            \/ Return(c)
                            \/ Free(c)

Spec == Init /\ [][Next]_<<phase, class, asked>>
=============================================================================
