----------------------------- MODULE MemoryCard ------------------------------
(***************************************************************************)
(* The game's file on the memory card in one of the slots                  *)
(* (platform/gcmcard.c, platform/gcmcicon.c, game/memcard.c): creating it, *)
(* saving and loading profiles with the settings, and regions of the       *)
(* adventure mode, deleting it, formatting the card, and noticing that the *)
(* card was exchanged.                                                     *)
(*                                                                         *)
(* A call of the card library is a step.  Between any two the card may be  *)
(* taken out, the power fail, and any call may fail for reasons of its     *)
(* own.  One process at a time works on cards; the others are paused.      *)
(***************************************************************************)
EXTENDS Integers, SequencesExt, FiniteSetsExt

CONSTANTS Cards, Nil,
          Regions,     \* regions in the file
          Versions,    \* what players may save; a new file is of version 1
          MaxFaults    \* bound: removals, power failures and failing calls

VARIABLES card,      \* the contents of the cards
          slot,      \* the card in the slot
          attached,  \* the library has it mounted
          doubtful,  \* history: cards whose contents are in doubt (Suspect)
          last_card_serial_no, last_card_state, removals, insertions,
          status, settings,   \* of storage_status
          origin,    \* history: where the settings in memory come from
          run,       \* what the process is doing
          answer,    \* what the last call answered
          faults

hardware == <<card, slot, attached, doubtful>>
known == <<last_card_serial_no, last_card_state, removals, insertions>>
shown == <<status, settings, origin>>
vars == <<hardware, known, shown, run, answer, faults>>

(* The settings with the profiles take two sectors, a region takes one.    *)
(* A place is named by its first sector.                                   *)
Settings == 1
Places == {Settings} \cup 3 .. Regions + 2
SectorsOf(p) == IF p = Settings THEN <<1, 2>> ELSE <<p>>
Sectors == 1 .. Regions + 2

(* Data are of the card they were made for, or that was known to be in the *)
(* slot when they were loaded; two saves differ in their version.          *)
Data == [of : Cards, version : Versions \cup {1}]

ASSUME CardsAssumption == /\ Regions \in Nat \ {0} /\ MaxFaults \in Nat
                          /\ Nil \notin Cards \cup Data

Blank == [data |-> Nil, sum |-> FALSE]   \* never written
Torn == [data |-> Nil, sum |-> TRUE]     \* neither the old nor the new
Unformatted == [made |-> FALSE, file |-> FALSE, icon |-> FALSE, sector |-> [s \in Sectors |-> Blank]]
NoFile == [Unformatted EXCEPT !.made = TRUE]
FullOf(d) == [made |-> TRUE, file |-> TRUE, icon |-> TRUE,
              sector |-> [s \in Sectors |-> [data |-> d, sum |-> TRUE]]]

(* The sectors of a place are of one save.                                 *)
Agree(f, p) == LET last == f.sector[Last(SectorsOf(p))]
               IN last.data # Nil /\ f.sector[p].data = last.data

\* a bug: only what was torn is refused
Accepted_unsummed(f, p) == f.icon /\ Agree(f, p)

(* calc_data_checksum, compare_checksums: the sum is part of a place's     *)
(* last sector, and does not fit sectors of different saves.  A file that  *)
(* has no icon yet is refused as well.                                     *)
Accepted(f, p) == f.icon /\ Agree(f, p) /\ f.sector[Last(SectorsOf(p))].sum

-----------------------------------------------------------------------------
(* The calls of the card library that a function makes                     *)

Save(p, d, sum, make) == [kind |-> "save", place |-> p, data |-> d, sum |-> sum, make |-> make]
Op(kind, p) == [kind |-> kind, place |-> p, data |-> Nil, sum |-> FALSE, make |-> FALSE]

Call(c) == [call |-> c, sector |-> 0]
Write(s) == <<[call |-> "erase", sector |-> s], [call |-> "program", sector |-> s]>>

(* save_to_memcard2, load_from_memcard2, gc_delete_file and what follows   *)
(* the player's consent in gc_format_procedure.  "notice" looks for        *)
(* another card, in this slot and then in the other one, before the card   *)
(* is mounted.  Calls that can only fail are left out, as the call that    *)
(* follows them can fail as well.                                          *)
CallsOf(op) ==
  CASE op.kind = "save" ->
         <<Call("notice"), Call("mount"), Call(IF op.make THEN "create" ELSE "open")>>
         \o (IF op.place = Settings THEN Write(1) \o Write(2) ELSE Write(op.place))
         \o <<Call("status"), Call("unmount")>>
    [] op.kind = "load" -> <<Call("mount"), Call("open"), Call("read"), Call("check"),
                             Call("unmount")>>
    [] op.kind = "delete" -> <<Call("mount"), Call("delete"), Call("unmount")>>
    [] op.kind = "format" -> <<Call("notice"), Call("mount"), Call("format"), Call("unmount")>>

\* a bug: a new file is good to load before its regions are written
Creation_summed(d) == <<Save(Settings, d, TRUE, TRUE)>>
  \o [r \in 1 .. Regions |-> Save(r + 2, d, TRUE, FALSE)]
  \o <<Save(Settings, d, TRUE, FALSE)>>

(* save_to_memcard_w_error for a new file: first with a checksum that is   *)
(* not one, then all regions, then once more with the checksum             *)
Creation(d) == <<Save(Settings, d, FALSE, TRUE)>>
  \o [r \in 1 .. Regions |-> Save(r + 2, d, TRUE, FALSE)]
  \o <<Save(Settings, d, TRUE, FALSE)>>

-----------------------------------------------------------------------------
Idle == [at |-> "idle", card |-> Nil, then |-> <<>>, ops |-> <<>>, all |-> <<>>,
         tries |-> 0, calls |-> <<>>, result |-> "ok", got |-> Nil, from |-> Nil,
         outer |-> <<>>, may |-> {}, unsure |-> FALSE]

(* a function is called for the first of its operations; formatting first  *)
(* asks the player                                                         *)
Begun(r, ops) == [r EXCEPT !.at = IF Head(ops).kind = "format" THEN "confirm" ELSE "calls",
                           !.ops = ops, !.all = ops, !.tries = 1,
                           !.calls = CallsOf(Head(ops)), !.result = "ok", !.got = Nil]

(* what is left of a call while cards are looked at                        *)
Back(where) == [Idle EXCEPT !.at = where, !.then = run.then, !.card = run.card, !.unsure = run.unsure]

Init ==
  /\ card \in [Cards -> {Unformatted, NoFile} \cup {FullOf([of |-> c, version |-> 1]) : c \in Cards}]
  /\ \A c \in Cards : card[c].file => card[c].sector[Settings].data.of = c
  /\ slot = Nil /\ attached = FALSE /\ doubtful = {}
  /\ last_card_serial_no = Nil /\ last_card_state = FALSE
  /\ removals = FALSE /\ insertions = FALSE
  /\ status = "absent" /\ settings = Nil /\ origin = "own"
  /\ run = Idle
  /\ answer = [call |-> "none"]
  /\ faults = 0

At(where) == run.at = where
op == Head(run.ops)
job == Head(run.all)
call == Head(run.calls).call
sector == Head(run.calls).sector
Calling(c) == At("calls") /\ run.calls # <<>> /\ call = c
Works(c) == Calling(c) /\ attached
Wanted == IF run.then = <<>> THEN "nothing" ELSE Head(run.then)

-----------------------------------------------------------------------------
(* The world                                                               *)

Faults(n) == faults + n <= MaxFaults /\ faults' = faults + n
Bad(fine) == IF fine THEN 0 ELSE 1

(* run.unsure is history: a card was taken out since cards were looked at, *)
(* or its serial number could not be read then.                            *)
TakeOut == /\ Faults(1) /\ slot # Nil
           /\ slot' = Nil /\ attached' = FALSE
           /\ run' = [run EXCEPT !.unsure = ~At("idle")]
           /\ UNCHANGED <<card, doubtful, known, shown, answer>>

PutIn(c) == /\ slot = Nil /\ slot' = c
            /\ UNCHANGED <<card, attached, doubtful, known, shown, run, answer, faults>>

PowerFails == /\ Faults(1) /\ ~At("idle")
              /\ attached' = FALSE
              /\ last_card_serial_no' = Nil /\ last_card_state' = FALSE
              /\ removals' = FALSE /\ insertions' = FALSE
              /\ status' = "absent" /\ settings' = Nil /\ origin' = "own"
              /\ run' = Idle /\ answer' = [call |-> "failed"]
              /\ UNCHANGED <<card, slot, doubtful>>

-----------------------------------------------------------------------------
(* gc_mem_card_status_changes_for_one_device, gc_get_memcard_serial_number *)

Readable == slot # Nil /\ card[slot].made

NewCard(c) == ~last_card_state \/ c # last_card_serial_no

(* The serial number of the card is read, or that fails.                   *)
StatusChanges(read) ==
  \/ /\ slot = Nil /\ read
     /\ last_card_serial_no' = Nil /\ last_card_state' = FALSE
     /\ removals' = (removals \/ last_card_state) /\ insertions' = FALSE
  \/ /\ Readable /\ read
     /\ last_card_serial_no' = slot /\ last_card_state' = TRUE
     /\ removals' = (removals \/ (last_card_state /\ NewCard(slot)))
     /\ insertions' = (insertions \/ NewCard(slot))
  \/ /\ slot # Nil /\ read = ~Readable
     /\ last_card_serial_no' = Nil /\ last_card_state' = TRUE
     /\ insertions' = (insertions \/ ~last_card_state)
     /\ UNCHANGED removals

(* update_storage_status: the card is looked at, and then its removal and  *)
(* its insertion are handled.                                              *)
Poll(then) == \E read \in BOOLEAN :
                /\ run' = [Idle EXCEPT !.at = "flags", !.then = then, !.card = slot,
                                    !.unsure = slot # Nil /\ ~(Readable /\ read)]
                /\ StatusChanges(read) /\ Faults(Bad(read)) /\ attached' = FALSE
                /\ UNCHANGED <<card, slot, doubtful, shown, answer>>

\* a bug: a card that is known is not looked at before a save
Look_trusting(then) ==
  /\ At("idle")
  /\ IF then = <<"save">> /\ settings # Nil
     THEN /\ run' = [Idle EXCEPT !.at = "polled", !.then = then, !.card = slot]
          /\ UNCHANGED <<hardware, known, shown, answer, faults>>
     ELSE Poll(then)

Look(then) == At("idle") /\ Poll(then)

(* remove_mu *)
Removed == IF removals THEN status' = "absent" /\ settings' = Nil /\ origin' = "own"
           ELSE UNCHANGED shown

(* insert_mu *)
Inserted == /\ At("flags") /\ insertions
            /\ Removed /\ removals' = FALSE /\ insertions' = FALSE
            /\ run' = Begun(run, <<Op("load", Settings)>>)
            /\ answer' = [call |-> "none"]
            /\ UNCHANGED <<hardware, last_card_serial_no, last_card_state, faults>>

OnlyRemoved == /\ At("flags") /\ ~insertions /\ removals
               /\ Removed /\ removals' = FALSE
               /\ run' = Back(IF Wanted = "save" THEN "look" ELSE "polled")
               /\ UNCHANGED <<hardware, insertions, last_card_serial_no, last_card_state,
                              answer, faults>>

(* validate_save_location looks again until nothing has changed; after a   *)
(* remedy cards are looked at as well.                                     *)
LookAgain == At("look") /\ Poll(run.then)

Polled == At("polled") \/ (At("flags") /\ ~insertions /\ ~removals)

-----------------------------------------------------------------------------
(* What is asked for                                                       *)

Does(ops) == /\ Polled /\ Wanted = "save" /\ settings # Nil
             /\ run' = Begun([run EXCEPT !.then = <<>>], ops)
             /\ answer' = [call |-> "none"]
             /\ UNCHANGED <<hardware, known, faults>>

(* the player's profile is not on the card, or nothing was wanted          *)
Nothing == /\ Polled /\ Wanted \in {"nothing", "save"}
           /\ run' = Idle
           /\ UNCHANGED <<hardware, known, shown, answer, faults>>

(* save_profile *)
SaveProfile(v) == LET d == [settings EXCEPT !.version = v]
                  IN /\ Does(<<Save(Settings, d, TRUE, FALSE)>>)
                     /\ settings' = d /\ UNCHANGED <<status, origin>>

(* save_konquest_region_to_memcard_w_error                                 *)
SaveRegion(p, v) == /\ Does(<<Save(p, [settings EXCEPT !.version = v], TRUE, FALSE)>>)
                    /\ UNCHANGED shown

(* load_krd_buffer_from_memcard *)
LoadRegion(p) == Does(<<Op("load", p)>>) /\ UNCHANGED shown

(* The card that is thought to be in the slot                              *)
Known == IF last_card_serial_no = Nil THEN run.card ELSE last_card_serial_no

(* create_new_mk5_profile_file: the card gets what is in memory for it     *)
NewFile == IF settings # Nil THEN settings ELSE [of |-> Known, version |-> 1]

(* gc_format_procedure begins; an exchange that was noticed is forgotten.  *)
Formatting == /\ removals' = FALSE /\ insertions' = FALSE /\ last_card_state' = TRUE
              /\ origin' = IF removals THEN "other" ELSE origin
              /\ UNCHANGED <<last_card_serial_no, status, settings>>

(* format_or_recreate_a_device: its three cases, one after the other       *)
Remedies == <<"unformatted", "damaged", "no_file">>
Recreate ==
  /\ Polled /\ Wanted \in ToSet(Remedies)
  /\ answer' = [call |-> "none"]
  /\ \/ status \notin ToSet(run.then) /\ run' = Idle /\ UNCHANGED <<known, shown>>
     \/ \E left \in {i \in DOMAIN run.then : run.then[i] = status} :
          LET r == [run EXCEPT !.then = SubSeq(@, left + 1, Len(@))]
          IN \/ /\ status = "unformatted"
                /\ run' = Begun(r, <<Op("format", Settings)>>) /\ Formatting
             \/ /\ status = "damaged"
                /\ run' = Begun(r, <<Op("delete", Settings)>>) /\ UNCHANGED <<known, shown>>
             \/ /\ status = "no_file"
                /\ run' = Begun(r, Creation(NewFile)) /\ UNCHANGED <<known, shown>>
  /\ UNCHANGED <<hardware, faults>>

-----------------------------------------------------------------------------
(* The calls of the card library                                           *)

Passed == [run EXCEPT !.calls = Tail(@)]
Fails(result, cleanup) == [run EXCEPT !.result = result, !.calls = cleanup]
Release == <<Call("release")>>

(* mem_card_mount; a card that is not formatted can only be formatted.     *)
Mount(fine) ==
  \/ /\ slot = Nil /\ fine
     /\ run' = Fails("absent", <<>>) /\ attached' = FALSE
  \/ /\ slot # Nil /\ fine /\ (Readable \/ op.kind = "format")
     /\ run' = [Passed EXCEPT !.card = slot]
     /\ attached' = TRUE
  \/ /\ slot # Nil /\ fine /\ ~Readable /\ op.kind # "format"
     /\ run' = Fails("unformatted", Release) /\ attached' = TRUE
  \/ /\ slot # Nil /\ ~fine
     /\ run' = Fails("failed", <<>>) /\ attached' = FALSE

MountCard == /\ Calling("mount")
             /\ \E fine \in BOOLEAN : Mount(fine) /\ Faults(Bad(fine))
             /\ UNCHANGED <<card, slot, doubtful, known, shown, answer>>

\* a bug: the player is not told that the card was exchanged
Exchanged_ignored == FALSE

(* the test of gc_format_procedure before it formats                       *)
Exchanged == op.kind = "format" /\ (removals' \/ insertions')

(* A function that writes looks for another card before it mounts the one  *)
(* there is.  Only formatting heeds what is noticed.                       *)
Notice == /\ Calling("notice")
          /\ \E read \in BOOLEAN : StatusChanges(read) /\ Faults(Bad(read))
          /\ run' = IF Exchanged THEN [run EXCEPT !.at = "changed"] ELSE Passed
          /\ attached' = FALSE
          /\ UNCHANGED <<card, slot, doubtful, shown, answer>>

Open == /\ Works("open")
        /\ run' = IF card[slot].file THEN Passed ELSE Fails("no_file", Release)
        /\ UNCHANGED <<hardware, known, shown, answer, faults>>

(* mem_card_read *)
Read == /\ Works("read")
        /\ run' = [Passed EXCEPT !.got = IF Accepted(card[slot], op.place)
                                         THEN card[slot].sector[op.place].data ELSE Nil,
                                 !.from = slot]
        /\ UNCHANGED <<hardware, known, shown, answer, faults>>

Check == /\ Calling("check")
         /\ run' = IF run.got # Nil THEN Passed ELSE Fails("damaged", Release)
         /\ UNCHANGED <<hardware, known, shown, answer, faults>>

(* What is written now may belong on another card, or in a file that is    *)
(* not in order: cards were exchanged after the game looked, the serial    *)
(* number of the card could not be read, the settings are of another card  *)
(* than the known one, or a save does not see that since they were read    *)
(* the file was deleted and not created in full.  Then the contents of the *)
(* card in the slot are in doubt, and those of the known one, which may    *)
(* have been meant.                                                        *)
Suspect == \/ run.unsure \/ last_card_serial_no = Nil \/ origin = "other"
           \/ (~job.make /\ origin = "gone")

Changes(f) == /\ card' = [card EXCEPT ![slot] = f]
              /\ doubtful' = CASE f = NoFile -> doubtful \ {slot}
                               [] f # NoFile /\ Suspect -> doubtful \cup ({slot, last_card_serial_no} \ {Nil})
                               [] OTHER -> doubtful
              /\ origin' = IF f = NoFile /\ settings # Nil /\ origin = "own" THEN "gone" ELSE origin
              /\ UNCHANGED <<slot, attached, known, status, settings, answer, faults>>

Create == /\ Works("create")
          /\ IF card[slot].file
             THEN Changes(card[slot]) /\ run' = Fails("damaged", Release)
             ELSE Changes([NoFile EXCEPT !.file = TRUE]) /\ run' = Passed
Erase == Works("erase") /\ Changes([card[slot] EXCEPT !.sector[sector] = Torn]) /\ run' = Passed
Program == /\ Works("program") /\ run' = Passed
           /\ Changes([card[slot] EXCEPT !.sector[sector] = [data |-> op.data, sum |-> op.sum]])
Status == Works("status") /\ Changes([card[slot] EXCEPT !.icon = TRUE]) /\ run' = Passed
Delete == /\ Works("delete") /\ Changes(NoFile)
          /\ run' = IF card[slot].file THEN Passed ELSE Fails("failed", Release)
Format == Works("format") /\ Changes(NoFile) /\ run' = Passed

Unmount == /\ Works("unmount") \/ Calling("release")
           /\ attached' = FALSE /\ run' = Passed
           /\ UNCHANGED <<card, slot, doubtful, known, shown, answer, faults>>

(* A call fails, because the card is not there any more or for a reason of *)
(* its own.  A file that cannot be created for want of a card counts as    *)
(* created, and one that cannot be created makes the card a new one.       *)
CallFails ==
  /\ At("calls") /\ run.calls # <<>> /\ call \notin {"notice", "mount", "check", "release"}
  /\ Faults(IF attached THEN 1 ELSE 0)
  /\ LET result == IF attached \/ call = "status" THEN "failed"
                   ELSE IF call = "create" THEN "ok" ELSE "absent"
     IN run' = CASE call = "format" -> [run EXCEPT !.at = "format_failed"]
                 [] call = "unmount" /\ op.kind # "load" -> Fails(result, <<>>)
                 [] OTHER -> Fails(result, Release)
  /\ last_card_serial_no' = IF call = "create" /\ attached THEN Nil ELSE last_card_serial_no
  /\ UNCHANGED <<hardware, last_card_state, removals, insertions, shown, answer>>

(* The next operation, the second try, or the player is told               *)
CallsEnd ==
  /\ At("calls") /\ run.calls = <<>>
  /\ run' = CASE run.result = "ok" /\ Len(run.ops) > 1 ->
                   [run EXCEPT !.ops = Tail(@), !.tries = 1, !.calls = CallsOf(run.ops[2])]
              [] run.result # "ok" /\ run.tries = 1 /\ op.kind \in {"save", "load"} ->
                   [run EXCEPT !.tries = 2, !.calls = CallsOf(op), !.result = "ok"]
              [] OTHER -> [run EXCEPT !.at = "ended"]
  /\ UNCHANGED <<hardware, known, shown, answer, faults>>

-----------------------------------------------------------------------------
(* What the player is asked (check_load_profile_result,                    *)
(* check_save_profile_result, check_save_region_data_result,               *)
(* gc_format_procedure)                                                    *)

Goes(r) == run' = r /\ UNCHANGED <<hardware, shown, answer>>

(* "All data will be lost."                                                *)
ConfirmFormat == /\ At("confirm")
                 /\ \/ Goes([run EXCEPT !.at = "calls", !.may = {last_card_serial_no}])
                    \/ Goes([run EXCEPT !.at = "ended", !.result = "failed"])
                 /\ UNCHANGED <<known, faults>>

(* Another card is there: stop, or format whatever is there.               *)
CardChanged ==
  /\ At("changed")
  /\ \/ /\ Goes([run EXCEPT !.at = "ended", !.result = "failed"])
        /\ UNCHANGED <<known, faults>>
     \/ \E read \in BOOLEAN :
          /\ Goes([Passed EXCEPT !.at = "calls", !.may = Cards])
          /\ StatusChanges(read) /\ Faults(Bad(read))

FormatFailed == /\ At("format_failed")
                /\ \/ Goes([run EXCEPT !.at = "ended", !.result = "failed"])
                   \/ Goes([run EXCEPT !.at = "calls", !.calls = CallsOf(op)])
                /\ UNCHANGED <<known, faults>>

Insertion == job.kind = "load" /\ job.place = Settings
Region == job.place # Settings

Again(result) ==
  CASE Insertion \/ (job.kind = "save" /\ ~Region) ->
         result \in {"absent", "failed", "unformatted"} \/ (Insertion /\ result = "damaged")
    [] job.kind = "save" /\ Region -> result # "ok"
    [] OTHER -> FALSE

TryAgain == /\ At("ended") /\ Again(run.result)
            /\ Goes(Begun(run, run.all)) /\ UNCHANGED <<known, faults>>

(* Something is done about it first.                                       *)
Remedied(ops) == run' = Begun([run EXCEPT !.outer = <<run.all>> \o @], ops)

DoSomething ==
  /\ At("ended") /\ ~Region
  /\ \/ /\ job.kind \in {"save", "load"} /\ run.result = "unformatted"
        /\ Remedied(<<Op("format", Settings)>>) /\ Formatting
     \/ /\ Insertion /\ run.result = "damaged"
        /\ Remedied(<<Op("delete", Settings)>>) /\ UNCHANGED <<known, shown>>
     \/ /\ job.kind = "save" /\ run.result = "no_file"
        /\ Remedied(Creation(NewFile)) /\ UNCHANGED <<known, shown>>
  /\ UNCHANGED <<hardware, answer, faults>>

(* and then the function is tried again, but for a file that could not be  *)
(* deleted.                                                                *)
Remedy == At("ended") /\ run.outer # <<>>
DidSomething ==
  /\ Remedy /\ ~(job.kind = "delete" /\ run.result # "ok")
  /\ Goes(Begun([run EXCEPT !.outer = Tail(@)], Head(run.outer)))
  /\ UNCHANGED <<known, faults>>

Answer(d) == IF run.result # "ok" THEN [call |-> "failed"] ELSE d

(* insert_mu ends: what was read stays unless the result speaks against it, *)
(* and belongs to the card it was read from.                               *)
InsertionEnds(result) ==
  /\ status' = result
  /\ \/ /\ result \in {"ok", "failed"} /\ run.got # Nil
        /\ settings' = [run.got EXCEPT !.of = run.from]
        /\ origin' = IF run.from = last_card_serial_no THEN "own" ELSE "other"
     \/ /\ ~(result \in {"ok", "failed"} /\ run.got # Nil)
        /\ settings' = Nil /\ origin' = "own"
  /\ answer' = Answer([call |-> "loaded", place |-> Settings, data |-> run.got])
  /\ run' = Back(IF Wanted = "save" THEN "look" ELSE "polled")

NotDeleted == /\ Remedy /\ job.kind = "delete" /\ run.result # "ok"
              /\ InsertionEnds("damaged") /\ UNCHANGED <<hardware, known, faults>>

Saving(jobs) == {[place |-> jobs[i].place, data |-> jobs[i].data] :
                   i \in {i \in DOMAIN jobs : jobs[i].kind = "save"}}

(* A new file's contents are in memory as well.                            *)
SaveEnds == /\ status' = IF Region THEN status ELSE run.result
            /\ settings' = IF job.make /\ run.result = "ok" THEN job.data ELSE settings
            /\ origin' = IF job.make /\ run.result = "ok" /\ origin = "gone" THEN "own"
                         ELSE origin
            /\ answer' = Answer([call |-> "saved", data |-> Saving(run.all)])
            /\ run' = IF job.make THEN Back("look") ELSE Idle

LoadEnds == /\ status' = run.result /\ UNCHANGED <<settings, origin>>
            /\ answer' = Answer([call |-> "loaded", place |-> job.place, data |-> run.got])
            /\ run' = Idle

DeletionEnds == /\ status' = IF run.result = "ok" THEN "no_file" ELSE status
                /\ run' = Back("look") /\ UNCHANGED <<settings, origin, answer>>

(* format_card_and_create_mkda_file                                        *)
FormatEnds == \/ /\ run.result = "ok" /\ status' = "no_file" /\ settings' = Nil
                 /\ origin' = "own"
                 /\ run' = Begun(run, Creation([of |-> Known, version |-> 1]))
                 /\ UNCHANGED answer
              \/ run.result # "ok" /\ run' = Back("look") /\ UNCHANGED <<shown, answer>>

(* The function returns, if all went well or the player has given up.      *)
Ends == /\ At("ended") /\ run.outer = <<>>
        /\ CASE Insertion -> InsertionEnds(run.result)
             [] job.kind = "load" /\ Region -> LoadEnds
             [] job.kind = "save" -> SaveEnds
             [] job.kind = "delete" -> DeletionEnds
             [] job.kind = "format" -> FormatEnds
        /\ UNCHANGED <<hardware, known, faults>>

-----------------------------------------------------------------------------
World == TakeOut \/ (\E c \in Cards : PutIn(c)) \/ PowerFails

Game == \/ \E then \in {<<>>, <<"save">>, Remedies} : Look(then)
        \/ Inserted \/ OnlyRemoved \/ LookAgain \/ Nothing \/ Recreate
        \/ \E v \in Versions : SaveProfile(v) \/ \E p \in Places \ {Settings} : SaveRegion(p, v)
        \/ \E p \in Places \ {Settings} : LoadRegion(p)

Library == \/ MountCard \/ Notice \/ Open \/ Read \/ Check \/ Create \/ Erase
           \/ Program \/ Status \/ Delete \/ Format \/ Unmount \/ CallFails \/ CallsEnd

Player == \/ ConfirmFormat \/ CardChanged \/ FormatFailed \/ TryAgain
          \/ DoSomething \/ DidSomething \/ NotDeleted \/ Ends

Next == World \/ Game \/ Library \/ Player

Spec == Init /\ [][Next]_vars

-----------------------------------------------------------------------------
(* Properties                                                              *)

TypeOK == /\ DOMAIN card = Cards /\ slot \in Cards \cup {Nil} /\ attached \in BOOLEAN
          /\ status \in {"ok", "absent", "no_file", "damaged", "unformatted", "failed"}
          /\ settings \in Data \cup {Nil}
          /\ run.tries \in 0 .. 2 /\ faults \in 0 .. MaxFaults

(* What a place of a card holds: the data of one save, with its checksum.  *)
Stored(f, p) == LET d == f.sector[p].data
                IN IF /\ f.sector[Last(SectorsOf(p))].sum
                      /\ \A s \in ToSet(SectorsOf(p)) : f.sector[s].data = d
                   THEN d ELSE Nil

(* It can be read from a file that has its icon.                           *)
Content(f, p) == IF f.icon THEN Stored(f, p) ELSE Nil

(* A file whose settings can be loaded has all its regions: creating it    *)
(* may be interrupted anywhere, and what was created in part is refused.   *)
(* (save_profile itself does not look whether the file was refused: a card *)
(* that was written to nevertheless, or in whose place another was written *)
(* to, is doubtful.)                                                       *)
NewFileComplete == \A c \in Cards \ doubtful :
                     Content(card[c], Settings) # Nil
                       => \A p \in Places : card[c].sector[p] # Blank

(* What was loaded from one card is not saved to another, however cards    *)
(* are exchanged while the game does something else.  (Once a save is      *)
(* asked for nobody heeds an exchange, and gc_format_procedure forgets one *)
(* that was noticed: a card that is written to afterwards, or in whose     *)
(* place another is written to, is doubtful.)                              *)
OwnData == TypeOK /\ \A c \in Cards \ doubtful, p \in Places :
                        Content(card[c], p) # Nil => Content(card[c], p).of = c

(* Of the cards that are recognised when cards are looked at before a card *)
(* is formatted, none loses its file but the one that was the known card   *)
(* when the player agreed, unless he was told of the exchange.  A card     *)
(* whose serial number cannot be read in that look, or that is put in      *)
(* between the look and the formatting, is formatted without a word: the   *)
(* one raises no flag, and nobody looks again (gcmcard.c:1157, :594).      *)
FormatTold ==
  [][\A c \in Cards : card[c].file /\ ~card'[c].file /\ Calling("format")
                        /\ c = last_card_serial_no => c \in run.may]_vars

(* The functions keep what they promise (CardStore).                       *)
Promised == INSTANCE CardStore WITH
  stored <- [c \in Cards |-> [p \in Places |-> Stored(card[c], p)]],
  readable <- {c \in Cards : card[c].icon},
  saving <- Saving(run.all)
CardStoreSpec == Promised!Spec
=============================================================================
