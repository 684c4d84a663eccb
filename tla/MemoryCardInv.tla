--------------------------- MODULE MemoryCardInv ----------------------------
(***************************************************************************)
(* The inductive invariant of the memory cards: what the functions rely on *)
(* between any two calls of the card library.                              *)
(***************************************************************************)
EXTENDS MemoryCard

Statuses == {"ok", "absent", "no_file", "damaged", "unformatted", "failed"}

(* What the game may be doing: the operations of a function                *)
Reload == <<Op("load", Settings)>>
Profile(p, d) == <<Save(p, d, TRUE, FALSE)>>
Profiles == {Profile(p, d) : p \in Places, d \in Data}
NewFiles == {Creation(d) : d \in Data}
Loads == {<<Op("load", p)>> : p \in Places}
Deletion == <<Op("delete", Settings)>>
Formatted == <<Op("format", Settings)>>
Jobs == Profiles \cup NewFiles \cup Loads \cup {Deletion, Formatted}

OpType == [kind : {"save", "load", "delete", "format"}, place : Places,
           data : Data \cup {Nil}, sum : BOOLEAN, make : BOOLEAN]
CallNames == {"notice", "mount", "open", "create", "read", "check", "erase", "program", "status",
              "delete", "format", "unmount", "release"}
CallType == [call : CallNames, sector : Sectors \cup {0}]
SectorType == [data : Data \cup {Nil}, sum : BOOLEAN]
FileType == [made : BOOLEAN, file : BOOLEAN, icon : BOOLEAN, sector : [Sectors -> SectorType]]
RunType == [at : {"idle", "flags", "look", "polled", "calls", "confirm", "changed",
                  "format_failed", "ended"},
            card : Cards \cup {Nil}, then : Seq(Statuses \cup {"save"}), ops : Seq(OpType),
            all : Jobs \cup {<<>>}, tries : {0, 1, 2}, calls : Seq(CallType), result : Statuses,
            got : Data \cup {Nil}, from : Cards \cup {Nil}, outer : Seq(Jobs),
            may : SUBSET (Cards \cup {Nil}), unsure : BOOLEAN]

Typed == /\ TypeOK
         /\ card \in [Cards -> FileType] /\ doubtful \subseteq Cards
         /\ last_card_serial_no \in Cards \cup {Nil} /\ last_card_state \in BOOLEAN
         /\ removals \in BOOLEAN /\ insertions \in BOOLEAN
         /\ origin \in {"own", "other", "gone"}
         /\ run \in RunType

Working == run.at \in {"calls", "confirm", "changed", "format_failed", "ended"}

(* u is what is left of s.                                                 *)
EndOf(u, s) == /\ Len(u) <= Len(s)
               /\ \A i \in 1 .. Len(u) : u[i] = s[Len(s) - Len(u) + i]

(* A function runs its operations one after the other, within functions    *)
(* that will be tried again; the first of these may be the reading of a    *)
(* card that was inserted.                                                 *)
JobKept ==
  /\ ~Working => run.all = <<>> /\ run.outer = <<>> /\ run.got = Nil
  /\ Working => run.all \in Jobs /\ run.ops # <<>> /\ EndOf(run.ops, run.all)
  /\ \A i \in 1 .. Len(run.outer) :
       /\ run.outer[i] \in Profiles \cup NewFiles \cup {Reload}
       /\ run.outer[i] \in Profiles => run.outer[i][1].place = Settings
       /\ run.outer[i] = Reload => i = Len(run.outer)
  /\ run.all \in Loads => run.outer = <<>>

(* The calls of an operation, until one fails                              *)
Well == At("calls") /\ run.result = "ok"
CallsKept ==
  /\ At("calls") =>
       \/ run.calls \in {<<>>, Release} /\ run.result # "ok"
       \/ run.calls \in {<<>>, Release} /\ op.make
       \/ run.result = "ok" /\ EndOf(run.calls, CallsOf(op))
  /\ run.at \in {"confirm", "changed", "format_failed"} =>
       /\ run.result = "ok" /\ op.kind = "format"
       /\ ~At("format_failed") => run.calls = CallsOf(op)
  /\ At("ended") /\ run.result = "ok" => Len(run.ops) = 1

(* What the game knows of the slot: as long as nobody touched the card it  *)
(* is the one that was looked at, and its serial number the known one.     *)
SlotKept ==
  /\ attached => slot # Nil
  /\ ~At("idle") /\ ~run.unsure /\ run.card # Nil =>
       slot = run.card /\ last_card_serial_no \in {slot, Nil}
  /\ ~At("idle") /\ run.card = Nil =>
       /\ ~Working /\ ~insertions
       /\ \/ settings = Nil /\ status = "absent"
          \/ At("flags") /\ removals

(* Nothing is known of a card without a mark that one is there, or that it *)
(* was removed.                                                            *)
Something == settings # Nil \/ status # "absent" \/ Working
FlagsKept == /\ Something => last_card_state \/ removals
             /\ insertions => last_card_state
             /\ insertions /\ Something => removals

(* A card that is certainly the one the game takes it to be                *)
Sure == {c \in Cards :
           \/ c = last_card_serial_no /\ (~removals \/ At("polled"))
           \/ c = run.card /\ ~At("idle") /\ ~run.unsure /\ (At("flags") => ~removals)}

DataOf(j) == {j[i].data : i \in {k \in 1 .. Len(j) : j[k].kind = "save"}}
Held == ({settings} \cup DataOf(run.all)
           \cup UNION {DataOf(run.outer[i]) : i \in 1 .. Len(run.outer)}) \ {Nil}

HeldKept == origin # "other" => \A c \in Sure, d \in Held : d.of = c

(* Who reads a card that was inserted has nothing in memory; who saves has. *)
MemoryKept ==
  /\ run.all = Reload \/ (\E i \in 1 .. Len(run.outer) : run.outer[i] = Reload) =>
       settings = Nil
  /\ run.all \in Profiles \/ (\E i \in 1 .. Len(run.outer) : run.outer[i] \in Profiles) =>
       settings # Nil

Saves == At("calls") /\ op.kind = "save"
Opened == Saves /\ run.result = "ok" /\ Len(run.calls) + 3 <= Len(CallsOf(op))
Erased == Saves /\ run.result = "ok" /\ Len(run.calls) + 4 <= Len(CallsOf(op))

(* Whatever card the game knows, the player agreed to it or was told.      *)
FormatKept == op.kind = "format" /\ run.at \in {"calls", "format_failed"} =>
                last_card_serial_no \in run.may \cup {Nil}

Whole(f) == f.file /\ \A p \in Places : f.sector[p] # Blank

LoadKept ==
  run.got # Nil => /\ run.all \in Loads /\ run.from # Nil
                   /\ ~run.unsure => run.from = run.card
                   /\ run.all = Reload /\ run.from \notin doubtful => Whole(card[run.from])

(* What is known to have been written                                      *)
Nth == Len(run.all) - Len(run.ops) + 1
WritesKept ==
  /\ Opened /\ attached => card[slot].file
  /\ \A c \in Sure \ doubtful :
    /\ Erased /\ ~op.make => card[c].file /\ card[c].sector[op.place] # Blank
    /\ At("ended") /\ op.kind = "save" /\ run.result = "ok" =>
         card[c].file /\ card[c].sector[op.place] # Blank
    /\ run.all \in NewFiles => \A p \in 3 .. Nth : card[c].sector[p] # Blank

FilesKept ==
  /\ \A c \in Cards \ doubtful :
       /\ card[c].sector[2].sum /\ card[c].sector[2].data # Nil => Whole(card[c])
       /\ \A s \in Sectors : card[c].sector[s].data # Nil => card[c].sector[s].data.of = c
  /\ settings # Nil /\ origin = "own" => \A c \in Sure \ doubtful : Whole(card[c])

(* What was saved is on a card, in order, as soon as the calls that write  *)
(* it are through.  That of the functions that load is what a card holds.  *)
Done(o) == \E c \in Cards : Content(card[c], o.place) = o.data
Written(o) == [data |-> o.data, sum |-> o.sum]

WrittenKept ==
  Saves /\ run.result = "ok" /\ attached =>
    /\ op.place = Settings /\ Len(run.calls) <= 4 => card[slot].sector[1] = Written(op)
    /\ Len(run.calls) <= 2 =>
         \A s \in ToSet(SectorsOf(op.place)) : card[slot].sector[s] = Written(op)
    /\ Len(run.calls) <= 1 => card[slot].icon
DoneKept ==
  /\ op.kind = "save" /\ op.sum /\ run.result = "ok"
  /\ At("ended") \/ (At("calls") /\ run.calls = <<>>)
  => Done(op)
EarlierKept == \A i \in 1 .. Nth - 1 : run.all[i].sum => Done(run.all[i])
GotKept == run.got # Nil => Content(card[run.from], op.place) = run.got
ReadKept ==
  /\ op.kind = "load" /\ run.result = "ok"
  /\ At("ended") \/ (At("calls") /\ Len(run.calls) <= 1)
  => run.got # Nil

PromiseKept == Working => WrittenKept /\ DoneKept /\ EarlierKept /\ GotKept /\ ReadKept

IndInv == /\ Typed /\ JobKept /\ (Working => CallsKept) /\ SlotKept /\ FlagsKept /\ HeldKept
          /\ MemoryKept /\ (Working => FormatKept /\ WritesKept)
          /\ LoadKept /\ FilesKept
=============================================================================
