# A verification of the runtime under the game

This directory models, checks and proves parts of the program in this
repository: a decompilation to C and C++ of the GameCube game *Mortal Kombat:
Deception*. The repository's README and docs are about the decompilation; the
sources under `src/` and `include/` are the only description of what the program
does, and every definition here is translated from them.

The game is a single program on one processor. Most of its 400 000 lines are game
rules, animation data and rendering that run in one thread, one frame after the
other. What is hard to get right and hard to test is what happens *around and
under* that thread: disc reads that end in interrupts, a service thread and a
wakeup thread that run the file commands, callbacks inside callbacks, requests
cancelled while the disc still writes, processes destroyed while a list of them
is walked, heaps within heaps that are wiped with every reset, and a memory card
that may be taken out between any two calls. The project is about these.

Contents

1. Inventory of the system
2. The modules and the code they stand for
3. What the runs check
4. Fairness and the end of behaviours
5. What is proved
6. What is left out of the models
7. Not modelled
8. Hazards that no property covers
9. The plan


## 1. Inventory of the system

Paths are relative to `src/`, which holds the repository: `src/mw/x.cpp` here is
`src/src/mw/x.cpp` in `PROJECT.json`.

### The file system (`src/mw`, `include/mw`)

**Producer/consumer queue** (`include/mw/mwFileQueue.h`). State: a circular buffer
with head, tail and count, a mutex and a condition. Operations: `produce`, which
blocks on a full queue; `consumeNonBlocking`. Used by the command server's
callback queue and by the generic server. Hard: the blocked producer and the
signal; three indices that wrap apart. Correct when it is a bounded FIFO and
nobody sleeps with room in it.

**File command server** (`src/mw/mwFileServer.cpp`). State: `pending`, the `ready`
priority queue, one slot per priority (`active[3]`), `active_count`, the manager's
list of servers, its `callbacks` queue, mutex and condition. Operations:
`addCommand` on the game thread; `isActive`, `service` and `queueCommandCallback`
on the service thread; `service`, which runs callbacks, on the game thread.
Hard: three locks, counters kept by hand, work that appears between a test and a
wait. Correct when each command is served, in the order of its priority, nobody
sleeps on work and the slots do not leak.

**File commands and disc I/O** (`mwFileCommand.cpp`, `mwFilePlugin.cpp`,
`mwFileGCPlatform.cpp`, `mwFileAsync.cpp`). State: per command a state machine,
reference count, abort and delete marks, the disc transfer's `busy` and error;
per file a read buffer with a lock; a queue of wakeup messages. Operations: start,
abort, free, callback, deletion; the handlers of open, close, buffered and
unbuffered read; the disc interrupt and the wakeup thread. Hard: four actors hold
pointers to one object that its caller may free at any time. Correct when no
pointer outlives its command, the callback runs once, success means that all was
read.

**Generic command server** (`mwFileServerNotQueued`, `mwFile.cpp`). Commands that
fail at once pass through two producer/consumer queues. Hard: it holds its mutex
across a blocking `produce`. Correct when it cannot stop for ever.

**Device error reports** (`mwFileMount.cpp`, `mwFileGCPlatform.cpp`,
`src/platform/disc_error.c`). `error_reported`, read and written by two threads
without a common lock; the error screen and the retry. Correct when every report
is revoked once and the game resumes.

**Mount table, handles, seek** (`mwFileMount.cpp`, `mwFileHandle.cpp`,
`mwFileXPHandle.cpp`). Sequential tables and the arithmetic of offsets.

### Clients of the file system

**Stream file requests** (`src/libmsl/mslStreamFile.cpp`). State: 32 requests with
generation handles, a queue of them, five buffers of 16 KB, five read records.
Operations: queue, cancel, serve the next read, a read's completion, a buffer's
return. Hard: a cancelled read goes on writing into a buffer given to somebody
else; records and requests recycled under callbacks still to come; the double
role of a request that is in the queue *and* has reads under way. Correct when
each buffer is in one place, each request delivers its chunks once and in order,
and nothing overwrites a chunk on its way to audio memory.

**Uploads and tick callbacks** (`mslGCN_ARamBlock.cpp`, `mslgcn.cpp`,
`mslSoundBuffer.cpp`). 24 transfer requests, a queue of 20 callbacks that
interrupts leave for `mslTick`. Correct when neither runs out.

**File handles of the game** (`src/runtime/mk_hwfile.c`). Ten handles over the
commands; an open may be late, with one callback to be told; blocking waits that
tick the file system and run other callbacks inside. Correct when a handle is
free or belongs to one archive.

**Section slot file requests** (`section_slot_file.c`, `mk_fileinfo.c`). State:
forty requests, one queue of opens and a current one, the archive that is open and
the one put aside. Completion reads, closes, starts the next open inside the
previous one's callback, and recycles. Correct when a request is completed or
cancelled once, the queue never stalls and each read is of the member asked for.

**Section memory** (`section.c`, `section_config.c`). State: the chain of files in
a memory slot, each with its place, its request and what was loaded. Operations:
add, load, unload a file or a slot, wait for them. Hard: a place is given to a
file whose predecessor is still being read and rounded up past its own end.
Correct when reads stay in their slot and end before anybody uses what they
overlap.

### The runtime of the game

**Lists of headers** (`mk_struct.c`). State: one pool of links, the lists, an
instance number for each life of a header. A header dies without telling its
links; whoever next walks a list gives stale links back. Correct when lists stay
doubly linked, no link is lost and nothing alive falls off.

**Process scheduler** (`mk_proc.c`, `mk_pdata.c`, `mk_vtbl.c`, and the objects of
`mk_obj.c`). Cooperative processes on one list by priority; a process may kill,
create or look for others while the dispatcher stands on its link, or start the
whole game over. Correct when each live process is served once per pass, in
order, and no recycled link is followed.

**Memory manager** (`mwMem*.c`). State: heaps that lie in blocks of one another,
with boundary bits, sorted free lists, stacks of equal blocks, statistics and two
marks that decide what a wipe visits. Operations: allocate with an alignment from
either end, pass on to other heaps, free, reallocate, wipe, and the game's reset.
Correct when blocks never overlap, free neighbours are merged, a pointer finds its
heap, and a reset leaves nothing behind.

**Memory cards** (`src/platform/gcmcard.c`, `gcmcicon.c`, `src/game/memcard.c`,
`mcardmsg.c`). State: the contents of a card, sector by sector; the card and the
device status last seen; the settings in memory. Operations: poll, mount, create,
save, load, delete, format, and the dialogues that repeat them. Hard: the card may
be exchanged, the power fail, or a call fail between any two calls. Correct when
what was called saved can be loaded, an incomplete file is refused and data of one
card does not end on another.

### The rest

**Audio and platform**, **display and rendering**, **scripts and assets**,
**fight, modes and menus**, **chess, puzzle and krypt**, **konquest**,
**profiles**, **sound library**, **movies**, **screen engine**, **particle virtual
machine**, and the C library with third-party code: section 7.

### How the parts interact

    game thread (priority 16)                service thread (10)      wakeup (9)    disc
    ------------------------------------     ---------------------    ----------    ----
    mwFile*Async: addCommand --signal--->    isActive, drain,
                                             activate, pick, serve --- DVDReadAsync -->
                                                  ^---reference--- wakeup <-message- interrupt
    mwFileTick: callbacks <--- queue -------- retire, post
      |
      +-- stream requests: completion -> client's callback -> ARQ transfer (interrupt)
      +-- mslTick: callbacks left by interrupts <--------------------------+
            return a buffer, serve the next request -> mwFileReadAsync

    a process of the game -- load_section --> request -> open of the archive -> read
      (dispatched once a frame)                 ^                 |
      +-- waits asleep, or ticks <---- answer, start next, recycle (callbacks)
      +-- objects, data, processes: links on lists --> fixed heaps in the wave heap
      +-- saves and loads: calls of the card library, all other processes paused


## 2. The modules and the code they stand for

| module | stands for | kind |
|---|---|---|
| `BoundedFifo` | what the queue promises | abstract specification |
| `MwProducerConsumerQueue` | `mwFileQueue.h` | detailed |
| `AsyncCommands` | what callers of the file system are promised | abstract specification |
| `MwFileServer` | `mwFileServer.cpp`, `mwFileCommand.cpp`, `mwFilePlugin.cpp`, `mwFileGCPlatform.cpp` | detailed, four actors |
| `MwFileServerInv` | its inductive invariant, and the order of commands | invariant |
| `StreamReads` | what a stream request promises its client | abstract specification |
| `MslStreamFile` | `mslStreamFile.cpp` with its clients, transfers and `mslTick` | detailed |
| `MslStreamFileInv` | its inductive invariant | invariant |
| `SectionFiles` | `section.c`, `section_slot_file.c`, `mk_fileinfo.c`, `mk_hwfile.c` | detailed, processes and callbacks |
| `LinkLists` | what lists of headers promise | abstract specification |
| `MkLinks` | the pointer surgery of `mk_struct.c` | operators |
| `MkStruct` | `mk_struct.c` as a program that calls everything | detailed |
| `ProcSchedule` | what the process list promises the game | abstract specification |
| `MkProc` | `mk_proc.c` on `MkLinks` | detailed |
| `MemBlocks` | what the memory manager promises | abstract specification |
| `MwMemHeaps` | `mwMemNormal.c`, `mwMemFixed.c`, `mwMemPriv.c` | operators |
| `MwMem` | `mwMem.c`, `mwMemHeap.c` and the reset, on `MwMemHeaps` | detailed |
| `CardStore` | what saving and loading promise | abstract specification |
| `MemoryCard` | `gcmcard.c`, `gcmcicon.c`, `memcard.c` | detailed, faults |
| `MemoryCardInv` | its inductive invariant, and what keeps its promises | invariant |
| `SeqFacts` | sequences: elements, order, removal | lemmas |
| `LinkFacts` | what the operators of `MkLinks` do to lists | lemmas |
| `MwProducerConsumerQueue_proofs`, `MwFileServer_proofs`, `MslStreamFile_proofs`, `MemoryCard_proofs`, `MkStruct_proofs`, `MkProc_proofs` | | theorems |
| `MC...` | small instances for TLC | model checking |

`PROJECT.json` maps each definition to its lines. Which module composes which:
`MkStruct` and `MkProc` share the operators of `MkLinks`, so that the scheduler is
checked with the same surgery as the lists; `MwMem` is made of `MwMemHeaps`;
`MslStreamFile` and `SectionFiles` stand on the order that `AsyncSpec` of
`MwFileServer` promises for one priority.

**`MwProducerConsumerQueue`.** `push`, `pop`, `full` and `empty` are the circular
buffer's methods; `ProduceWait` and `Produce` are the two ways through the loop of
`produce`, and `Consume` is `consumeNonBlocking`. What runs under the queue's
mutex is one step. `OSSignalCond` wakes all waiters, so `signal` empties the set.

**`MwFileServer`.** The variables are the fields of the classes: `refs` is the
reference count, `signalState` the committed state, `state` the copy `service`
works on, `busy` is set while a transfer is under way. The server's `pending`,
`ready`, `active` and `activeCount` have the code's names. The service thread is a
program counter `svc`:

    check -> drain -> activate -> pick -> serve -> release -> (check)
      |                                     |
      v                                     +--> commit -> retire -> post -> check
    asleep

- Game thread: `addCommand`, then `notifyCommandAdded` and
  `notifyServerActivityChange`, the two locks it takes afterwards, one by one;
  `abort`, `deleteSelf`, `serviceCallback` (a callback begins; its frame goes on
  `frames`, so callbacks nest) and `pendingDeleteSelf` (it returns).
- Service thread: `isActive` tests for work and sleeps under the manager's
  mutex; `drain` empties `pending` into `ready`; `activate` fills a free slot
  with the first of its priority; `pick` takes the first occupied slot; the
  handlers of the four commands; `release` gives the reference up while a
  transfer is under way; `commit`, `retire`, `queueCommandCallback`.
- `gcCallbackThunk` is the disc interrupt, with or without an error; `wakeup` is
  the thread that gives the reference back.

The wakeup thread has the highest priority of the three, so nothing but
interrupts happens between a message and its handling: `NoWakeupDue`. This is not
a convenience: `NoDanglingCommand` is false without it (its mutant). The service
thread outranks the game thread as well, but the safety properties do not depend
on that, and `GameYields = FALSE` lets the two interleave at every step.

The priority queue is a sequence in the order of insertion of which the first of
the highest priority is taken (`IsTop`): this is what its comparison of priority
and number amounts to.

**`MslStreamFile`.** `par`, `fileRead` and `bufferFree` are the three pools, with
their free lists in the code's order; a request's linked list of reads is the
sequence `reads`. `game` is where the game thread is: between operations
("idle"), at the start of `mslDSB_ServiceNextRead` ("service") or at the top of its
loop ("issue"); the operations that end by calling it go there.

- `QueueRequest`, `CancelRequest`: the two calls of the clients, with what the
  client does around them (it asks when it has no request and no transfer under
  way; its callback of a cancellation only forgets the handle).
- `ServiceNextRead`, `IssueRead`: the function and one turn of its loop.
- `FileReadCompletion`, `DroppedRead`: the callback of a read, the second when the
  record no longer belongs to the command. `Final`, `Requeue`, `Enqueue` are its
  conditions, `ClientCallback` the call it makes in the middle.
- `ArqComplete`: a transfer's interrupt; `TickBegin`, `TickCallback`, `TickEnd`: the
  loop of `mslTick`, whose entries are given up only at its end.
- `ServeCommand`, `ReadEnds`: the file system. All these reads carry a priority
  that the server masks to 0 (streams ask for 0x10, banks for 0), so they share a
  slot and complete in the order they were started. That is `AsyncSpec` of
  `MwFileServer`, used here as an assumption on the environment. A command that is
  aborted before its turn ends without a read; one whose read is under way runs
  to its end: `abort` only sets a mark.

**`SectionFiles`.** The layers from a section to the disc, composed, because
their hazards lie in the calls between them. A call that may have to wait, and a
callback on top of it, is a *frame* on the stack of its context: one of the
processes, or `Main`, the loop that ticks the file system. A frame names the point
of the code at which the call goes on; each action is what happens from one such
point to the next.

- Clients: `add_section`, `load_section`, `unload_section_slot`,
  `unload_section_slot_file`, `wait_for_slot_load`; `load_ssf`, `save_current_ssf`
  and `restore_previous_ssf` of the one process that changes archives.
- Opening: `seek` (`require_file_opened` with its wait), `switch`, `restore`, `member`
  (the three ways a member open is answered), `detach`, `OpenCallback`.
- Requests: `load`, `start`, `start_next`, `answer`, `answered`, `answer_cancelled`,
  `close`, `closed`, `recycle`: the completion that starts its successor.
- Slots: `add`, `wait_file`, `wait_answer`, `wait_read`, `process`, `wait_next`,
  `release_loaded`, `release_unloaded`, `cancel`, `free_files`.
- Time: `Ticks` says which context may run callbacks (the main loop, whoever
  waits without sleeping, whoever finds a read completed); `Sleep` and `Dispatch`
  are the scheduler.

Sizes are units of 0x80 bytes, reads are rounded up to `Cluster` of them. `pos` is the
position the archive was sought to, the datum on which `RightMember` turns.

**`MkLinks`, `MkStruct`.** A record `m` is the memory of all links (`next`, `prev`, list,
header, instance, ownership); `Unlink`, `AtHead`, `Before`, `After`, `Take`,
`Recycle` and `Discard` are the macros, in the order in which they assign, and a
function is their composition. `Chain` follows `next`, cut off one link too late, so
that a cycle would be seen. `MkStruct` calls every operation in any order. A search is
a walk to the first live link that is wanted: `FirstWanted` is what it returns,
`AfterSearch` the memory when the stale links met before are given back. `FindIn`,
`FirstIn`, `NextOf` are the three searches; `next_mkptr` examines only every second link
of a run of stale ones (`Examined`), as the code's loop does.

**`MkProc`.** `link` is `dispatch_proc_list`'s local. `StartPass`, `StaleLink`, `Pass`,
`Lapse`, `Run` and `EndPass` are the branches of its loop; while a process runs
(`state = "run"`) it performs `Operation`s, and `Sleep`, `Die` or `gamelogic_jump` ends
its turn. Operations also happen between passes. `insert_proc_by_priority` takes its
link before it walks to its place, as the code does.

**`MwMemHeaps`, `MwMem`.** Memory is counted in units of 16 bytes, the size of a
header, so that every block is a header unit and its `size` more. `Coalesce` has the
code's four cases, two that believe addresses and two that believe bits. `Malloc`
goes from heap to heap as the strategy callbacks of `mwMemHeap.c` do; `HeapFrom` finds
the innermost heap of a pointer; `Wipe`, `WipeVirtual` and `Rebuild` are the wipes
and the making of the fixed heaps. A call holds the manager's mutex throughout and
is one action. Clients hold blocks, free and reallocate them, and the game resets.

**`MemoryCard`.** `card` has a file per card, sector by sector: `Blank`, `Torn` or
the data of one save. An operation is a list of calls of the card library
(`CallsOf`), each of them a step (`Notice`, `MountCard`, `Open`, `Create`, `Erase`,
`Program`, `Read`, `Check`, ...), between which `TakeOut`, `PutIn` and `PowerFails` happen
and instead of which `CallFails` may. `Notice` is the look for another card that formatting
and saving begin with; the card is mounted in a step of its own, because the look at the
other slot lies between, time enough to exchange it. `Poll` and what follows it is the look at cards;
`TryAgain`, `DoSomething`, `ConfirmFormat`, `CardChanged` are the dialogues, in which the
player may choose anything. `status` and `settings` are the fields of
`storage_status`. A new file is the code's list of saves (`Creation`): a wrong
checksum, all regions, the checksum.

**Abstract specifications.** `FifoSpec`, `AsyncSpec`, `ChunksInOrder`, `LinkListsSpec`,
`ProcScheduleSpec`, `AllocatorSpec` and `CardStoreSpec`, each checked as a PROPERTY of
the detailed module through INSTANCE. The mappings: `AsyncCommands` reads a
command's phase off `life`, `frames` and `delivered`; a list is the `Chain` of its
links, from which any set of them may leave in a step while the others keep their order
(`Rest`, `Leave`); the schedule's `todo` are the processes of the live links ahead of
the dispatcher's cursor, the `birth` of a process is its instance, of which a later
one is greater; a block of `MemBlocks` is computed from the header of a used
block; a place of `CardStore` holds what is in order there (`stored`), and a load of it
answers with that if the card's file can be read at all (`readable`). The two are apart
because of a sequence of four faults, more than TLC looks at: a new file that
was interrupted before its icon was written can be saved to, and the first save that
gets as far as the icon makes everything appear that was written there before. With
one variable for both, a completed save would have had to change two places at once.


## 3. What the runs check

Each property has a mutant of the code (in the module, beside the definition it
replaces, marked `mutant:` or `a bug:`) under which the run reports it violated.
The type invariants are conjuncts of a property or of the proofs, not runs of
their own.

### `queue` (1 400 states)
Two producers, one consumer, two values, three cells. `NoLostWakeup`: a producer
sleeps only on a full queue; `FifoSpec`; `SleepersWake`. Three cells are enough for
the indices to wrap while the queue is full, empty and neither; two producers for
one to fill the cell the other was woken for.

### `server_two` (630 000 states)
Two commands out of five jobs (reads of one and two chunks, a buffered read, open,
close) at two priorities, on one file; one of them may be aborted at any moment,
either freed at any moment; any transfer may fail; the callback queue has one
entry, so that the service thread blocks in it; game and service thread interleave
freely. `NoDanglingCommand`, `NeverStranded`, `NoLostSignal`, `CompletedOnce`,
`SuccessIsComplete`, `BufferHeldByActive`, `ActiveCountAgrees` and `AsyncSpec`
(callbacks in order per priority, once, deletion when asked for and not before the
callback is over). Two commands suffice for each pair of stages the properties
relate, for one queued behind the other in a slot, and for a callback inside
another's callback; the invariants are proved for any number of commands.

### `server_live` (125 000 states)
Two reads under fairness: `EventuallyDelivered` and `EventuallyFreed`. No aborts, to
keep the graph small; errors and frees are there.

### `stream_shared` (1 136 000 states)
A stream that may cancel and a bank share two buffers and two requests; up to two
cancelled reads may be in the file system at a time; requests of one to three
chunks, so that one is requeued while it has a read under way, and starves or is
starved by the other. `BufferHeldOnce`, `RequestAccounted`, `ChunkUndisturbed`,
`NeverExhausted`, `HandleCurrent`, `ChunksInOrder`. The transfers and the tick queue
have exactly the room that `ArqAssumption` names (two transfers per buffer, one
entry per buffer and per bank); the code has 24 and 20 for five buffers. The limit
of three reads per request is beyond two buffers and is not reached.

`ChunkUndisturbed` is the subtle one: `mslDSB_CancelRead` gives a buffer away while
the disc still writes into it. The bytes are repaired by the next read into that
buffer, which cannot end before the aborted one: the commands of a slot are
served one at a time. A client that reads with another priority, or a record
mistaken for the command's (the mutant), breaks it.

`HandleCurrent` is checked with generations counted modulo two, where the code's 16
bits wrap after 65536 requests: it holds because a stream forgets its handle with
the final chunk, and not because generations are rare.

### `stream_live` (45 000 states)
A stream and a bank on two buffers: `EveryRequestEnds`, with `MaxDropped = 0`, that
is, without cancellation of a request that has reads under way. With
`MaxDropped = 2` the property is false: `mslDSB_CancelRead` returns buffers but does
not serve the queue. If the cancelled request held all of them in reads, and
nothing is being uploaded, the request that waits is served only when somebody
queues another. The sound library does queue others as long as a stream plays,
and no comment or test says what is intended, so this is recorded as a hazard.

### `links` (25 000 states)
Three links, two headers, two lists, two lives in all, and every operation of
`mk_struct.c` in any order. `ListsSound`: the lists stay doubly linked, a link is on
the list it names, free, or was pulled by a caller, and a search returns a link of
a live header. `LinkListsSpec`: the surgery implements sequences. `SearchComplete`:
a header on the list is found, stale links before it or not. Three links are a
first, a middle and a last one; two lives on two headers give links of the dead
beside links of the living, and a block that is used again.

### `processes` (65 000 states)
Four links, three blocks, two priorities, three instances. Processes are one of
two kinds: bound to data with which they die, or immune to pausing and marked
no_destroy. `CursorOnList`: the link from which the dispatcher goes on is on the
list, whatever the process did to the list. `LinksAccounted`: each live process is on
the list once, a stale link never comes back to life with its block, and none is
lost. `ProcScheduleSpec`: the walk serves each live process once, by priority and by
age among equals; who is created ahead of the cursor is served in this pass. Three
blocks are one that runs, one behind and one ahead; the fourth link is the one that
a dead process leaves behind.

### `sections` (1 055 000 states)
Two processes, each with a slot; one changes between two archives. Three members,
of one and two units, two file entries, three requests, two handles, slots of three
units and reads rounded up to two, so that a read passes the end of its file, a
file does not fit, and another is loaded behind one still being read. Reads and opens
end in any tick. `RequestsAccounted`: no request is lost, recycled twice or owned by
a file that has been given back, and there is always one to take. `HandlesAccounted`,
`BuffersKept`, `RightMember`. One request more than files is enough, because a
cancelled one may be in the queue while its file asks again; the handles are those
of the two archives.

### `sections_failing` (147 000 states)
One process, with an archive that cannot be opened once: `RequestsAccounted`. What
holds after that is little. The handle leaks; a request made later links a callback
that nobody calls, so that a wait for it never ends; and with two processes
`RightMember` no longer holds. No comment or test says what a caller may
expect.

### `sections_live` (63 000 states)
Two processes, one file entry, two requests: `EveryCallEnds`. The waits are where it could fail: a
process that waits for a request which waits for an archive which the other process
has to restore. `SavesAnytime = FALSE` is the rule of the one caller of
`save_current_ssf` (`konquest.c:5144`: the archive is open by then). With TRUE,
`load_ssf` waits for requests queued behind the one that is being started, for
ever; this is the hazard at `section_slot_file.c:373`.

### `memory` (24 000 states)
Six heaps of three kinds: a system heap of 33 units that holds the wave and the
overflow heap, a movie heap that owns no memory and borrows, and two fixed heaps in
the wave heap, the smaller of which passes on to the larger one. `BlocksSound`: blocks tile their heap, bits and lists agree, free neighbours
are merged. `OwnerFound`: pointer to header to heap. `StatsAgree`: the counts, and the
marks by which a wipe decides what to visit. `AllocatorSpec`: blocks lie apart,
aligned, and nobody's block goes but by his call or with its heap; a reset leaves
the wave heap empty but for the new list of links. Three blocks of clients on 16
units leave room for holes on either side of a block, for splits from both ends,
and for padding; `MaxBorrowed` is one, because freeing a borrowed block does not
lower the count, which would grow for ever.

### `cards` (2 580 000 states)
Two cards and a slot, one region, two faults, where taking a card out, a power failure
and a failing call is one each. `NewFileComplete`: a file that can be loaded has all its
regions. `OwnData`: what was loaded from one card is not saved to another.
`FormatTold`: when formatting looks at the card and can read whose it is, another than the
one that was known when the player agreed is not formatted before he was told. It does not
speak of a card that this look cannot read, nor of one put in after the look: the code
formats both untold (section 8). All three cover any exchange; which cards `OwnData` and
`NewFileComplete` leave out as doubtful is in section 6.
`CardStoreSpec`: what was answered as saved is on a card, what is loaded was saved, and
a save in progress shows the old, nothing or the new. Two faults reach an
interrupted save that is repeated on another card; two cards are one and the other;
one region makes creating a file three saves.

### Bounds
`NumCommands` (server), `MaxChunks`, `MaxDropped` (streams), `MaxInstance`, `MaxSleep`
(links, processes), `MaxFailures` (sections), `MaxLive`, `MaxBorrowed` (memory) and
`MaxFaults` (cards) bound what a real run may do any number of times; pool sizes are the
code's constants made small. Safety of the server does not rest on
`NumCommands`: it is proved for any number.


## 4. Fairness and the end of behaviours

- Threads run when they can: WF of the service thread's steps, of the wakeup
  thread, and of the game thread's steps in the middle of an operation. The OS
  schedules by priority and every thread of higher priority blocks. The one way
  the service thread does not (two buffered reads of one file at two priorities,
  the higher of which spins on the lock of the lower) needs a pair of reads that
  `server_live` has not.
- A read the disc was given ends, well or with an error: WF of the interrupt.
- The game calls `mwFileTick` and `mslTick` every frame and returns from its
  callbacks. In `MwFileServer` callbacks are WF: nothing the game does in between
  disables them for good. In `MslStreamFile` they are SF: a stream may queue and
  cancel between any two ticks, and each time the thread is elsewhere for a step;
  but every frame the game does tick.
- In `SectionFiles` whoever has the processor goes on: WF of its steps. The end of a
  read or an open is SF, because only a context that ticks can see it, and contexts
  come and go; the main loop ticks every frame, and the disc ends what it has begun.
  `Dispatch` is SF for each process, because the dispatcher comes round once a frame
  and looks at each process that waits, and may find it not ready any number of times.
- Nothing is assumed of clients: they need not ask, cancel, abort or free.
- `MkProc` has no liveness property. That a process is served is what
  `ProcSchedule` says of a pass: it does not end before `todo` is empty. A pass could
  go on for ever only if processes went on creating successors at places ahead.

Deadlock is checked in all runs but three, which set `CHECK_DEADLOCK FALSE`. In the two
server runs, with all of a bounded number of commands started, called back and deleted,
nothing is left to do; in `sections_failing` a process may wait for a callback that
never comes.


## 5. What is proved

TLAPS checks these for every value of the constants that the named assumptions
allow.

`MwProducerConsumerQueue_proofs`, from `QueueSizeAssumption` (at least one cell) and
`NoneAssumption`:

- `QueueInvariant`: `Spec => []Inv`. `TypeOK` alone is not inductive for what
  matters: `Inv` adds that tail is head plus count modulo the size, that the cells
  between were written, that a sleeper is inside `produce` and that the queue is
  full while somebody sleeps.
- `WakeupsKept`: `Spec => []NoLostWakeup`, a conjunct of `Inv`: it is not inductive
  without the others, because a signal must reach whoever sleeps.
- `QueueImplementsFifo`: `Spec => FifoSpec`. Under `Inv` a `Produce` appends to
  `contents` and a `Consume` takes its head; the arithmetic of the wrap-around is
  in `ModWrap`, `NextIndex` and `Offset`.

`MwFileServer_proofs`, from `CommandsAssumption`, `NoneAssumption`, `JobsAssumption`,
`SlotsAssumption` (at least three wakeup messages) and `SchedulingAssumption`:

- `ServerInvariant`: `Spec => []IndInv`.
- `TypeCorrect`, `NothingStranded`, `NoSignalLost`, `CountAgrees`, `NoBufferLeaked`,
  `NothingDangles`, `CallbackOnce`, `SuccessMeansComplete`: the invariants of
  `server_two`, for any number of commands and files, any jobs, any capacity of the
  callback queue, both schedulings.

The argument. None of the properties is inductive. That no pointer outlives a
command needs to know *where* commands are: each of `pending`, `ready`, the slots,
the callback queue and the running callbacks holds live commands in a certain
committed state, and no command twice (`Distinct`, `PendingWaits`, `ReadyWaits`,
`SlotsServed`, `CallbacksDue`, `FramesRun`, `Lives`). That a late interrupt finds its
command needs `InFlight`: a transfer, or the message about its end, belongs to a
command in a slot whose state is still reading, never both. Since there are three
slots, three messages are enough (`WakeupSlotFree`), which is why
`OSSendMessage` without waiting never drops one; the code has 32. `Serviced` ties the
service thread's program counter to the command it has in hand: the committed
state is stale between serve and commit, and `Stage` names the one that counts.
`Progress` counts chunks, and `BufferLocked` adds to `BufferHeldByActive` that a
command on its way out has let go of the buffer.

The proof has one lemma per action (`addCommandKeeps` ... `wakeupKeeps`) with a step
per conjunct; handlers that do the same thing (end, issue a read, wait, lock,
retry, fill) share lemmas.

- `OrderInvariant`: `Spec => []OrderKept`.
- `ServerImplementsAsync`: `Spec => AsyncSpec`, the promise `MslStreamFile` and
  `SectionFiles` stand on.

The refinement needs more than `IndInv`, which says where a command is but not who
is before it. The places a command goes through, last one first, are the callback
queue, the service thread's hand between `retire` and `queueCommandCallback`, the
slots, `ready` and `pending`. `OrderKept` says that each is *led*: with a command it
has, together with the places after it, every command of that priority that was
started before and not called back (`Leads`); inside a place commands are in order of
their numbers (in the callback queue only those of one priority: two slots finish in
any order). A command moves from the head of one place to the next, so `Leads` of the
places behind the one it enters does not change (`OrderStable`), and that of the
place itself holds since the command was the first of its priority there (`PlacesWait`
and one lemma per action that moves a command). `serviceCallback` then takes the head of
a place that leads all others: the guard of `CallBack`. Each remaining step changes a
phase as one action of `AsyncCommands`, or none (`StepAsync`).

`MslStreamFile_proofs`, from `PoolAssumption`, `CommandsAssumption`, `ClientsAssumption`,
`NoneAssumption` and `ArqAssumption` (at least one buffer, a request for each client,
a command for each record and each dropped read, two transfer requests for each
buffer, a tick entry for each buffer and each bank; streams are not banks):

- `StreamInvariant`: `Spec => []IndInv`, of `MslStreamFileInv`.
- `BuffersHeld`, `RequestsHeld`, `ChunksUndisturbed`, `NoExhaustion`, `HandlesCurrent`: the
  invariants of `stream_shared`, for pools of any size, any number of streams and banks,
  of chunks, and any range of generations.
- `DeliversInOrder`: `Spec => ChunksInOrder`, the refinement of `StreamReads`.

The argument. A buffer is handed from the free list to the loop of
`mslDSB_ServiceNextRead`, to a record, to a transfer, to an entry of the tick's queue,
and back, by five functions of two threads, of which none looks at the others' data.
`BuffersKept` says that at any time it is with exactly one of them, and `RecordsKept`
the same of records: free, in the loop's hand, or linked by the one request that owns
it. `RequestsKept` counts: a request has as many reads active as it has records and a
turn of the loop (`Started`), and one that waits in the queue has at most one, so that
a completion finds either its successor or the request in the queue. The commands
are what makes cancellation hard: a record is reused while the disc still works for
its old command. `CommandsKept` says that such a command is marked dropped just
when its record is another command's (`Current`), and `ReadingApart` that nobody else
has got a chunk in the buffer it still reads into: this holds because commands are
served in turn (`InTurn`), so the later command for that buffer cannot have been
read. `UploadsKept` counts the transfers under way as the cardinality of a set (`Under`),
with which the two transfers of a buffer and the free slots of the queue add up for
any number of buffers. `EntriesKept` has each buffer and each bank in the tick's queue
once at most, so that the queue's size is enough (`TickRoom`). `HandlesKept` says that a
client has one request at most: that is why a handle is right although generations
wrap. `ChunksKept` adds up the chunks delivered, under way and still to start, and
`InOrder` keeps the reads of a request in the order of their commands, with which the
first to end is the first that was asked for: the guard of the refined `Deliver`.

`MemoryCard_proofs`, from `CardsAssumption` (at least one region, `Nil` neither a card nor data):

- `CardsInvariant`: `Spec => []IndInv`, of `MemoryCardInv`.
- `NewFilesComplete`, `DataStayOnTheirCard`, `FormattingTold`: the properties of `cards`, for
  any number of cards, regions and faults.
- `PromisesInvariant`: `Spec => []PromiseKept`.
- `CardsImplementStore`: `Spec => CardStoreSpec`.

The argument. Every property is about a card that may be gone: between any two
calls of the card library the slot may hold another card or none, and what the
game knows of the slot is the serial number it last read and two flags that a
look at the card sets. `Sure` is the set of cards for which that knowledge is certain: the one
the flags have not been raised for, and the one the operation under way looked at
while nobody touched it. `SlotKept` and `FlagsKept` say when the slot holds such a card; `HeldKept` says that all data the game has in memory or in the arguments of
functions under way belong to it, which gives `OwnData`. For `NewFileComplete` a
program counter is needed of the functions that make a file: `JobKept` says that what
is left to do is the end of a known list of operations, `CallsKept` that what is left of an
operation is the end of its list of calls, and `WritesKept` which sectors have been written by
then. A file gets its checksum last, so that settings in order imply that every region
was written (`FilesKept`). `FormatKept` is what `FormatTold` rests on: from the player's consent until the card is
formatted the known serial number is none, or one he agreed to, because every look that
finds another raises a flag and the flags were cleared before. It says nothing of the
card in the slot, which may be another by then. The rest is inductive only for cards that
are not `doubtful`. A card becomes so when something is written while `Suspect` holds: to
it, or to another while it is the known one, whose contents are then not what the
functions that wrote believe. That happens after an exchange since the look, which a save
does not heed, and in a save to a file whose creation was refused.

The refinement needs what was written, not only where: `PromiseKept` says that after
the calls that write a place the card in the slot has the data there with their
checksum (`WrittenKept`), that an operation that ended well, and those before it, have
left their data on a card, whatever happened to the slot since (`DoneKept`,
`EarlierKept`), and that what was loaded is what the card holds (`GotKept`, `ReadKept`).

`LinkFacts` is what the two proofs about lists share. A list is a sequence: `Strung(m, l, s)`
says that the links of list l are those of s, in this order, with all pointers to
match, and `AllStrung` that every list has such a sequence. There is a lemma for each
operator of `MkLinks` that says which sequence it makes of which. Walks are recursive
functions; that such a function exists and has the value its definition says is
proved without induction over data by the least number for which it would fail
(`LeastNumber`, `Iterated`), and so is what a walk computes: `Chain` is the sequence
(`ChainFacts`), and a walk that gives links back leaves every other link as it was
(`Walked`).

`MkStruct_proofs`, from `LinksAssumption` (finitely many links, `Nil` and the free list are
neither links nor lists):

- `ListsStaySound`: `Spec => []ListsSound`, for any number of links, lists and headers and
  without a bound on instances. The inductive invariant is `AllStrung` with: no link has a
  stamp above the counter, a link is on no list just when `mk_pull` handed it out, a
  free link stands for nothing, and one on a list for a header in some life, never 0.
  That the result of a search is live holds because the links in front of it are the only
  ones that the search changes.
- `ListsImplementLinkLists`: `Spec => LinkListsSpec`.
- `SearchesComplete`: `Spec => SearchComplete`.

The refinement adds order to the invariant. `Tidied(m, u, D)` says of a call that took
links away that only links of D went, that they went to the pool, that nothing else
changed, and that two links that follow each other afterwards did so before
(`InOrder`); it is proved of one `Discard`, it is transitive, and so holds of every walk
(`Walked`, `StagesTidy`). A search is then a `Search` of `LinkLists` because the links that
went were stale (`SearchingStep`); a destruction is a `Drop` because a header that died
was owned, in that life, by a link that went (`DestroyedEnds`, `DestroyedFrees`); a function
applied to all links is a `Cull`: a link that goes in the middle of it is still stale at the
end, as instances only fall to 0 during the walk and no link on a list is stamped 0
(`VisitedEnds`, `Falls`). An insertion puts one link at one place of one sequence (`BindStep`).

`MkProc_proofs`, from `LinksAssumption`, `ListAssumption` (one list) and `FieldsAssumption`
(what a kind of process may set; priorities are integers, `MaxSleep` a natural number):

- `ProcInvariant`: `Spec => []IndInv`.
- `CursorStaysOnList`, `LinksStayAccounted`: the invariants of `processes`.
- `ListStaysSorted`: `Spec => []SchedInv`, the invariant with the order of the list.
- `ProcessesFollowSchedule`: `Spec => ProcScheduleSpec`, for any number of links, blocks and
  priorities, and without a bound on instances.

Each living process has exactly one link on the list, and this is inductive only with
the stamps: an instance that is given out is above all stamps, so that no stale link of the
same block comes back to life; and a free link has stamp 0. The dispatcher's cursor
is on the list because walks give back only stale links, and the link of the
process that runs is not stale: nobody can destroy it (`aproc_nodestroy`), which is
the third part of the invariant.

The refinement needs the order. `Sorted` says that of two links that are alive the first
one's process comes first, by priority and among equals by instance; links of the dead may
stand anywhere. Walks and deaths keep it, because the links that stay keep their order
(`FewerSorted`). A creation keeps it because `insert_proc_by_priority` stops before the
first link of a process with a greater number (`InsertRanks`) and the newcomer's instance is
the greatest of all, so that it belongs behind its equals (`RankSorts`); a change of
priority takes the link out and inserts it once more (`MoveRanks`). From `Sorted` follows that
the link the dispatcher comes to next is that of the earliest process still to be served,
that those it has behind it come before those ahead, and so that a newcomer is
served in this pass just when nobody who comes after it has been.

`SeqFacts` has what the proofs need about sequences: elements of an append, a tail, a
concatenation, a front and a removal, what is left at which place, which of two
elements comes first. No induction is needed for them. Where a proof needs the first
place with some property, `LeastNumber` gives it: the minimum of a set of numbers is
a fact about a constant relation, which the library has.

Only model-checked. Liveness under fairness is beyond the prover: `SleepersWake`,
`EventuallyDelivered`, `EventuallyFreed`, `EveryRequestEnds`, `EveryCallEnds`. Not proved:
all of `SectionFiles` and `MwMem`. These two modules declare no RECURSIVE operator, so that theorems
about them can be added beside them.


## 6. What is left out of the models

### File system and streams
- Mutex sections are atomic. Interrupts are not disabled by a mutex, and the models
  let them happen between any two steps.
- Of a buffered read only the number of fills of the file's buffer is kept, not
  which bytes are in it; of any read, not the data.
- Host (PC) file commands, path conversion, allocation failure of commands, and
  device error reports (a failed transfer ends the command with an error).
- A repeated `mwFileFreeCommand` changes nothing in the code but the mark; it is a
  stutter.
- Reads out of a file's range are handed to the generic server and complete
  outside the order of the slots. Streams, banks and sections read within their files.
- In `MslStreamFile`: the result of a read (the code does not look at it), so the
  error branch of the completion, which only a previous error can reach, is absent;
  `mwFileReadAsync` returning 0; sizes and offsets, which are numbers of chunks; a
  read of size zero. An address of a command may be reused as soon as it was freed,
  earlier than in the code. An exhausted pool of transfers (a failing stream or
  bank) and an overflow of the tick queue (`OSPanic`) set `panic` and stop the model;
  `NeverExhausted` says that it does not happen. A stream is torn down only after its
  transfers are over (`PrepForPlay` waits for `pending_arq_count`).
- Undefined behaviour: none in these parts, given that priorities are below three. An
  aborted open reports success with a handle that was never opened
  (`mwFileGCPlatform.cpp:2112`), an index past the slots (`mwFileServer.cpp:323`) and a second
  `resize` that does not reset the count (`mwFileQueue.h:35`) are things no caller meets.

### Sections
- The clients' rules are the game's: a process uses slots of its own, members asked
  for belong to the current archive, only one process changes archives and puts one
  aside only when it is open, and of a slot's files only the last is unloaded by
  itself.
- Art and animation data, relocation of what was loaded, sections found by name, memory
  schemes; the blocking reads and writes of `mk_hwfile.c`.
- A file that does not fit leaves the files after it without a place, as in the code.
- A failed open is in `sections_failing` only, for the reasons given there.

### Lists and processes
- Instance numbers are counted up and do not wrap; the code compares them for
  equality only. There is a free link whenever one is taken in `MkProc` (the game sizes
  the pool; without one the code writes through a null pointer); `MkStruct` has the
  functions that look.
- The one caller of `mk_pull` (`image.c:645`) drops the link it is handed: a link is lost
  to the pool until the next reset. `ListsSound` counts such links in `detached`.
- Stacks, context switches (assembly) and `jump` tables. Ticks are rounded to passes:
  `game_speed` is data. A process's data is one header that lives or does not; its link is
  not counted.
- `aproc_nodestroy` stays set after the pass until another process is looked at, so that
  the process that ran last cannot be destroyed between passes; the model has this.

### Memory manager
- Headerless and best-fit heaps, clearing by `calloc`, peaks, destroying heaps that hold
  heaps, the delayed frees of `mk_mem.c`, the heaps of the adventure mode and direct use of the
  overflow heap. `realloc` of nothing or to nothing is `malloc` or `free`.
- The fixed heaps are made first (`main.c:96`) and clients come after. The wipe of the
  movie heap, which the game never calls, is modelled from `mwMem.c`.
- `_mwMemHeapCreate` does not look at whether its allocation failed (`mwMem.c:589`); the
  instance is large enough that it does not.
- Blocks that went to the overflow heap survive the game's reset: in the code nobody
  wipes that heap.

### Memory cards
- A look at a card, with its probe, mount, reading of the serial number and unmount, is
  one step, and looks at the one slot that is modelled; the mount that follows it in
  formatting and saving is another. Within a look there is no exchange. A call that can
  only fail is left out where the next can fail too.
- `validate_save_location` looks again until nothing changes, at most 30 times in the code
  and without that limit here: what it does after the last time is what it does when
  nothing changed, and it takes thirty looks in a row that each find a change.
- The serial number is the identity of a card; a card that is formatted keeps it.
- Results are merged into those the code tells apart: ok, absent, no file, damaged,
  unformatted, failed. A sector whose write was interrupted is torn. Checksums do not
  collide. Settings that were read and not accepted match no profile.
- One slot, one profile at a time, outside the adventure mode for the insertion; no
  question of free space; after a power failure the game starts over.
- `doubtful`, `origin`, `run.unsure` and `run.may` are history: no guard reads them.
  `origin` says whether the settings in memory are of the card whose serial number is
  known ("own"), of another ("other", also when formatting began by forgetting that the
  card was exchanged), or of one whose file was found missing since ("gone"). Cards are
  doubtful when one was written to while `Suspect`, both that card and the known one: after
  an exchange since cards were looked at, that is after the look of `update_storage_status`
  that the function began with, with no card known, with another card's settings, or with
  a file that was made and refused (section 8). For these cards the code
  promises nothing. Loads do not ask whose card is in the slot.


## 7. Not modelled

These are the parts of the program no module is about, and why.

- **Generic command server** (`mwFileServerNotQueued`), **device error reports**: small
  and concurrent, and the first of the plan. They concern commands that fail
  before they reach a device, and the error screen.
- **Mount table, handles, seek**: sequential tables and arithmetic on offsets.
- **Scripts and assets**: an interpreter whose 15 000 lines of functions are bindings to
  the rest.
- **Fight, modes and menus**, **konquest**, **chess, puzzle and krypt**, **profiles**: some
  250 000 lines of rules driven by data tables, scripts and floating-point animation state, much of it
  decompiled by field offset, so that what a field means is not in the source. What
  could be checked of them would be tables against themselves.
- **Display and rendering**, **particle virtual machine**, **screen engine**: graphics state,
  floating-point geometry and scenes loaded from data, outside what a finite model can say.
- **Sound library**: voices and emitters; its banks and streams are clients in
  `MslStreamFile`. **Movies**: a thin layer over a third-party player.
- **Audio memory and platform**: initialisation and access to registers.
- The C library, the mathematics, the Dolphin SDK and the CRI libraries are not this
  program's logic.


## 8. Hazards that no property covers

They are in `PROJECT.json` with the reason.

- `mwFileGCPlatform.cpp:2558`, `mwFileServer.cpp:494`: device error reports and the generic
  server, which are not modelled.
- `mslStreamFile.cpp:364`: cancelling does not serve the queue. The model has it (see
  `stream_live`).
- `mslStreamFile.cpp:522`: results of stream reads are ignored. The chunks of the model have
  no data that could be wrong.
- `memcard.c:948`: the second try of a save notices that the card was exchanged and
  writes to it all the same. `utils.c:1093`: `save_profile` does not look at the device's
  status, and gives an incomplete file its checksum. The model has both;
  `OwnData` and `NewFileComplete` are stated for the cards to which it has not happened,
  because no comment or test says what was meant (`Suspect` names the cases).
  An exchange forgotten when formatting begins (`gcmcard.c:546`) and a card put in between
  the look and the mount of a save (`gcmcard.c:967`) are of the same kind, and listed there.
- `gcmcard.c:570` is covered in part: a serial number that cannot be read raises no flag
  (`:1157`), so that an exchanged card is formatted without a word when one read fails, and
  a card put in between the look and the mount (`:594`) is formatted without having been
  looked at. The model has both; `FormatTold` speaks of the cards the look recognised.

Smaller things met on the way, without a property: the look at cards after the second message before
formatting is ignored; a deletion after a dialogue does not look at cards; creating a
file reports success when the card is gone, and "damaged" when it is tried again on a
file it had made; a failed `CARDFreeBlocks` closes a file that was never opened;
`mem_card_write` clears its caller's buffer beyond the size given; a region that cannot
be read sets the status of the whole device.


## 9. The plan

In this order.

1. **`MwMem`**: statistics and tiling as invariants of the operators of `MwMemHeaps` (each
   keeps `Tiled` and `BitsRight`).
2. **`SectionFiles`**: who holds a buffer, a request and a handle, as the stream buffers
   were done.
3. **`MwGenericServer`** (`mwFileServerNotQueued`): the two blocking queues under one
   mutex; deadlock and progress at a full queue; on `BoundedFifo`.
4. **`DeviceErrors`**: report, revoke and query from two threads.
5. **`ReadBuffer`**: seek, `readInRange` and the arithmetic of buffer fills as operators
   against a reference definition over small files.
6. As far as the effort allows: the bank load queue, the page replacement of the
   particle programs, the puzzle board.
