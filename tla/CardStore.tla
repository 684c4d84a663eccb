----------------------------- MODULE CardStore ------------------------------
(***************************************************************************)
(* What the game's memory card functions promise their callers: what a     *)
(* place of a card's file holds changes only while something is being      *)
(* saved there, and is then what is being saved or nothing that could be   *)
(* read; what is called saved can be read from a card; what is called      *)
(* loaded was there.                                                       *)
(*                                                                         *)
(* None of a file can be read before a save to it was completed.  What an  *)
(* earlier one left there then appears as well.                            *)
(***************************************************************************)
CONSTANTS Cards, Places, Data, Nil

VARIABLES stored,    \* what each place of each card holds, Nil if that is not in order
          readable,  \* the cards whose file can be read
          saving,    \* the set of places and data that are being saved
          answer     \* what the last call answered

vars == <<stored, readable, saving, answer>>

Saved(d) == [call |-> "saved", data |-> d]
Loaded(p, d) == [call |-> "loaded", place |-> p, data |-> d]
Failed == [call |-> "failed"]
None == [call |-> "none"]

Empty == [p \in Places |-> Nil]

(* what a place would be loaded as                                         *)
Content(c, p) == IF c \in readable THEN stored[c][p] ELSE Nil

Init == /\ stored \in [Cards -> [Places -> Data \cup {Nil}]]
        /\ readable \subseteq Cards
        /\ saving = {}
        /\ answer = None

(* a call begins, or goes on with something else                           *)
Begin == /\ saving' \subseteq [place : Places, data : Data]
         /\ answer' \in {None, answer}
         /\ UNCHANGED <<stored, readable>>

(* a place is written to, and any call may be tried again at any time      *)
Touch == \E c \in Cards, w \in saving :
           /\ \E d \in {Nil, w.data} : stored' = [stored EXCEPT ![c][w.place] = d]
           /\ UNCHANGED <<readable, saving, answer>>

(* a save has written what it had to                                       *)
Show == \E c \in Cards, w \in saving :
          /\ stored[c][w.place] \in {Nil, w.data}
          /\ readable' = readable \cup {c}
          /\ UNCHANGED <<stored, saving, answer>>

(* a card is formatted, or its file deleted                                *)
Wipe == \E c \in Cards : /\ stored' = [stored EXCEPT ![c] = Empty]
                         /\ readable' = readable \ {c}
                         /\ UNCHANGED <<saving, answer>>

(* the call ends                                                           *)
Save == /\ \A w \in saving : \E c \in Cards : Content(c, w.place) = w.data
        /\ answer' = Saved(saving)
Load == \E c \in Cards, p \in Places : /\ Content(c, p) # Nil
                                       /\ answer' = Loaded(p, Content(c, p))
Fail == answer' = Failed

End == /\ Save \/ Load \/ Fail
       /\ saving' = {}
       /\ UNCHANGED <<stored, readable>>

Next == Begin \/ Touch \/ Show \/ Wipe \/ End

Spec == Init /\ [][Next]_vars
=============================================================================
