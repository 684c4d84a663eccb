----------------------------- MODULE MemBlocks ------------------------------
(***************************************************************************)
(* What the memory manager promises its clients: the blocks handed out and *)
(* not given back lie apart from each other, are aligned as asked, and     *)
(* nobody's block goes away or moves unless he says so, or a heap is       *)
(* emptied as a whole.                                                     *)
(***************************************************************************)
EXTENDS Integers

CONSTANTS Places,    \* the heaps
          Under(_)   \* a heap and the heaps made of its memory

VARIABLES live,      \* blocks [at, units, align, home, borrowed]
          extent     \* the units [low, high] that a heap manages

vars == <<live, extent>>

Apart(b, c) == b.at + b.units <= c.at \/ c.at + c.units <= b.at
Proper(b) == /\ b.units > 0 /\ b.at % b.align = 0
             /\ b.at >= extent[b.home].low /\ b.at + b.units <= extent[b.home].high

Init == live = {}

Fits(b, others) == Proper(b) /\ \A c \in others : Apart(b, c)

(* _mwMemMalloc, _mwMemCalloc: new are the blocks that appear with a step, *)
(* and gone those that go                                                  *)
Take(new, gone) == gone = {} /\ \E b \in new : new = {b} /\ Fits(b, live)

(* _mwMemFree, and _mwMemRealloc, whose old block is there until it has    *)
(* been copied                                                             *)
Give(new, gone) == new = {} /\ \E b \in gone : gone = {b}
Move(new, gone) == \E b \in gone, c \in new : gone = {b} /\ new = {c} /\ Fits(c, live)

(* a heap is emptied; the heaps made of its memory may keep blocks         *)
Empty(h, new, gone) == /\ new = {} /\ \A b \in gone : b.home \in Under(h)
                       /\ \A b \in live : b.home = h => b \in gone

(* the blocks a virtual heap has borrowed go back                          *)
Return(new, gone) == new = {} /\ gone = {b \in live : b.borrowed}

(* Everything is emptied, down to the last heap made of its memory, these  *)
(* heaps are made anew, and one block is taken for what comes first.       *)
Reset(h, new, gone) ==
  LET kept == {b \in live : b.home \notin Under(h)}
  IN \E b \in live' : live' = kept \cup {b} /\ b.home = h /\ Fits(b, kept)

Next ==
  LET new == live' \ live
      gone == live \ live'
  IN \/ /\ UNCHANGED extent
        /\ \/ Take(new, gone) \/ Give(new, gone) \/ Move(new, gone) \/ Return(new, gone)
           \/ \E h \in Places : Empty(h, new, gone)
     \/ \E h \in Places : /\ \A g \in (Places \ Under(h)) \cup {h} : extent'[g] = extent[g]
                          /\ Reset(h, new, gone)
     \/ live = {} /\ live' = {}   \* heaps are made before there are blocks

Spec == Init /\ [][Next]_vars
=============================================================================
