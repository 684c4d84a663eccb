-------------------------------- MODULE MwMem --------------------------------
(***************************************************************************)
(* The memory manager of the game (mw/mwMem.c, mw/mwMemHeap.c): heaps that *)
(* lie in blocks of one another, found again from nothing but a pointer.   *)
(* The system heap holds the wave heap, the movie heap and the overflow    *)
(* heap; the wave heap holds heaps of equal blocks that are made anew      *)
(* whenever the game resets itself.  A request that does not fit is passed *)
(* on from heap to heap, and the movie heap owns no memory at all.         *)
(*                                                                         *)
(* Memory is counted in units of 16 bytes, the size of a header.  Calls    *)
(* hold one mutex from beginning to end and are therefore atomic.          *)
(***************************************************************************)
EXTENDS MwMemHeaps

CONSTANTS System, Wave, Movie, Overflow,  \* heaps of mwMemHeap.c
          Fixed,        \* the heaps of equal blocks, in the order they are made
          HeapUnits,    \* the size of a heap's own record
          WaveUnits, OverflowUnits,       \* the sizes of the two normal heaps
          BlockUnits,   \* the size of a block of each fixed heap
          Fallbacks,    \* what a heap's strategy callback tries, or nothing
          Configs,      \* how many blocks the fixed heaps may be made with
          ResetUnits,   \* the size of mkptr_list, allocated with every reset
          Asks, Resizes,\* what clients ask for, [heap, units, align, high], and new sizes
          MaxLive,      \* bound: blocks that clients hold at a time
          MaxBorrowed   \* bound: a heap's count of borrowed blocks

ASSUME MemAssumption ==
  /\ Heaps = {System, Wave, Movie, Overflow} \cup ToSet(Fixed)
  /\ Cardinality(Heaps) = 4 + Len(Fixed)
  /\ HeapUnits \in Nat \ {0} /\ Nil \notin Heaps
  /\ \A c \in Configs : \A h \in ToSet(Fixed) : c[h] \in Nat \ {0}

VARIABLE mem

vars == <<mem>>

Live(m, h) == m.at[h].kind # "none"
Struct(m, h) == m.at[h].start - HeapUnits
Indices == 1 .. Cardinality(Heaps)
NewIndex(m) == Min(Indices \ {m.at[h].index : h \in {g \in Heaps : Live(m, g)}})

-----------------------------------------------------------------------------
(* Statistics (mwMemPriv.c)                                                *)

\* a bug: a heap that has been reset is never known to be in use again
Added_clean(m, h, n) == [m EXCEPT !.usedSize[h] = @ + n, !.count[h] = @ + 1]

Added(m, h, n) == [m EXCEPT !.usedSize[h] = @ + n, !.count[h] = @ + 1,
                            !.dirty[h] = FALSE]
Removed(m, h, n) == [m EXCEPT !.usedSize[h] = @ - n, !.count[h] = @ - 1]

Total(f, S) == MapThenSumSet(LAMBDA x : f[x].size + 1, S)

(* the statistics a heap begins with, or what is kept through a wipe adds  *)
(* up to; "dirty" is what the code calls a heap in which nothing has been  *)
(* allocated since                                                         *)
Recount(m, h) == [m EXCEPT !.usedSize[h] = Total(m.hdr, ToSet(m.used[h])),
                           !.count[h] = Len(m.used[h]),
                           !.dirty[h] = TRUE, !.borrowed[h] = 0]

-----------------------------------------------------------------------------
(* From a pointer to its block and its heap                                *)

(* privGetBlockFromUsedHdr *)
BlockOf(m, x) == RoundUp(x + 1, m.hdr[x].align)

(* privGetUsedHdrFromBlock: the byte before a block is its padding         *)
HeaderOf(m, p) == CHOOSE x \in Units : /\ m.hdr[x].valid /\ ~m.hdr[x].free
                                       /\ x + 1 + m.hdr[x].pad = p

Within(m, h, p) == m.at[h].start <= p /\ p < m.at[h].end

\* a bug: the search ends with the newest heap on each level
HeapFrom_newest(m, p) ==
  LET deep[h \in Heaps] ==
        IF m.kids[h] # <<>> /\ Within(m, m.kids[h][1], p) THEN deep[m.kids[h][1]] ELSE h
  IN deep[System]

(* privGeneralGetHeapFromPtr, privGetHeapFromUsed: the innermost heap      *)
HeapFrom(m, p) ==
  LET deep[h \in Heaps] ==
        LET in == {i \in DOMAIN m.kids[h] : Within(m, m.kids[h][i], p)}
        IN IF in = {} THEN h ELSE deep[m.kids[h][Min(in)]]
  IN deep[System]

(* privGetUserSizeFromBlock *)
UnitsOf(m, h, x) == IF m.at[h].kind = "fixed" THEN m.at[h].block
                    ELSE m.hdr[x].size - m.hdr[x].slack - m.hdr[x].pad

-----------------------------------------------------------------------------
(* Allocating and freeing                                                  *)

AllocIn(m, h, n, a, high, owner) ==
  IF m.at[h].kind = "fixed" THEN FixedAlloc(m, h, n, a, owner)
  ELSE NormalAlloc(m, h, n, a, high, owner)

(* The heaps an allocation goes through: the strategy callback's, or the   *)
(* heap itself, and then the overflow heap.                                *)
Tries(h) == (IF Fallbacks[h] = <<>> THEN <<h>> ELSE Fallbacks[h]) \o <<Overflow>>

(* _mwMemMallocVirtual *)
Malloc(m, h, n, a, high) ==
  LET got(g) == AllocIn(m, g, n, a, high, m.at[h].index)
      fits == {i \in DOMAIN Tries(h) : got(Tries(h)[i]).x # Nil}
      g == Tries(h)[Min(fits)]
      r == got(g)
      borrowed == IF h = Movie THEN [r.m EXCEPT !.borrowed[g] = @ + 1] ELSE r.m
  IN IF fits = {} THEN None(m)
     ELSE [m |-> Added(borrowed, g, r.m.hdr[r.x].size + 1), x |-> r.x]

(* _mwMemFreeVirtual *)
FreeBlock(m, p) ==
  LET h == HeapFrom(m, p)
      x == HeaderOf(m, p)
      counted == Removed(m, h, m.hdr[x].size + 1)
  IN IF m.at[h].kind = "fixed" THEN FixedFree(counted, h, x)
     ELSE NormalFree(counted, HeapFrom(m, x), x)

-----------------------------------------------------------------------------
(* Heaps                                                                   *)

(* _mwMemHeapCreate: the new heap in a block of its parent.  The game      *)
(* makes its heaps where they fit; nothing here looks at a failure.        *)
Create(m, h, parent, units, kind, block) ==
  LET r == NormalAlloc(m, parent, units, 1, FALSE, m.at[parent].index)
      p == BlockOf(r.m, r.x)
      made == [Added(r.m, parent, r.m.hdr[r.x].size + 1) EXCEPT
                 !.at[h] = [start |-> p + HeapUnits, end |-> p + units, kind |-> kind,
                            parent |-> parent, index |-> NewIndex(m), block |-> block],
                 !.kids[parent] = <<h>> \o @]
  IN Recount(IF kind = "fixed" THEN FixedInit(made, h) ELSE NormalInit(made, h), h)

(* mwMemHeapDestroy of a heap without heaps of its own                     *)
Destroy(m, h) ==
  LET p == Struct(m, h)
      out == [m EXCEPT !.kids[m.at[h].parent] = Without(@, h), !.at[h] = NoHeap,
                       !.used[h] = <<>>, !.free[h] = <<>>, !.usedSize[h] = 0,
                       !.count[h] = 0, !.dirty[h] = TRUE, !.borrowed[h] = 0,
                       !.hdr = [x \in {y \in Units : Within(m, h, y)} |-> NoHdr] @@ @]
  IN FreeBlock(out, p)

FreeAll(m, ps) == LET freed[n \in 0 .. Len(ps)] ==
                        IF n = 0 THEN m ELSE FreeBlock(freed[n - 1], ps[n])
                  IN freed[Len(ps)]

(* privWipeHeap keeps the blocks in which other heaps lie                  *)
Kept(m, h) == {Struct(m, k) : k \in ToSet(m.kids[h])}

(* privWipeHeap *)
WipeHeap(m, h) ==
  LET ps == [i \in DOMAIN m.used[h] |-> BlockOf(m, m.used[h][i])]
  IN Recount(FreeAll(m, SelectSeq(ps, LAMBDA p : p \notin Kept(m, h))), h)

(* privWipeHeapHierarchy: in each round the last of the heaps within that  *)
(* have been used, from the newest on, and at the end the heap itself; a   *)
(* clean one hides the used ones that are older.                           *)
Wipe(m, h) ==
  LET runOf(w) == {i \in DOMAIN w.kids[h] : \A j \in 1 .. i : ~w.dirty[w.kids[h][j]]}
      last(w) == w.kids[h][Max(runOf(w))]
      rounds[n \in 0 .. Len(m.kids[h])] ==
        IF n = 0 THEN m
        ELSE LET w == rounds[n - 1]
             IN IF runOf(w) = {} THEN w ELSE WipeHeap(w, last(w))
      w == rounds[Len(m.kids[h])]
  IN IF m.kids[h] = <<>> \/ ~w.dirty[h] THEN WipeHeap(w, h) ELSE w

(* the blocks of heap h that the movie heap has borrowed                   *)
BorrowedIn(m, h) == SelectSeq(m.used[h], LAMBDA x : m.hdr[x].owner = m.at[Movie].index)

(* privWipeVirtual *)
WipeVirtual(m) ==
  LET hs == SetToSeq({h \in Heaps : m.borrowed[h] # 0})
      returned[n \in 0 .. Len(hs)] ==
        IF n = 0 THEN m
        ELSE LET r == returned[n - 1]
                 xs == BorrowedIn(r, hs[n])
             IN [FreeAll(r, [i \in DOMAIN xs |-> BlockOf(r, xs[i])])
                   EXCEPT !.borrowed[hs[n]] = @ - Len(xs)]
  IN returned[Len(hs)]

(* setup_fixed_block_heaps *)
Rebuild(m, config) ==
  LET destroyed[n \in 0 .. Len(Fixed)] ==
        IF n = 0 THEN m
        ELSE IF Live(m, Fixed[n]) THEN Destroy(destroyed[n - 1], Fixed[n])
        ELSE destroyed[n - 1]
      made[n \in 0 .. Len(Fixed)] ==
        IF n = 0 THEN destroyed[Len(Fixed)]
        ELSE LET h == Fixed[n]
             IN Create(made[n - 1], h, Wave,
                       HeapUnits + config[h] * (BlockUnits[h] + 1), "fixed", BlockUnits[h])
  IN made[Len(Fixed)]

-----------------------------------------------------------------------------
(* mwMemUserConfigInitMemSystem: the system heap and what is made in it    *)
Start ==
  LET none(v) == [h \in Heaps |-> v]
      empty == [hdr |-> [x \in Units |-> NoHdr], at |-> none(NoHeap), kids |-> none(<<>>),
                used |-> none(<<>>), free |-> none(<<>>), usedSize |-> none(0),
                count |-> none(0), dirty |-> none(TRUE), borrowed |-> none(0)]
      system == [empty EXCEPT !.at[System] = [start |-> HeapUnits + 1, end |-> MemUnits + 1,
                                kind |-> "normal", parent |-> Nil, index |-> 1, block |-> 0]]
      wave == Create(Recount(NormalInit(system, System), System), Wave, System,
                     HeapUnits + WaveUnits, "normal", 0)
      movie == Create(wave, Movie, System, HeapUnits + 1, "virtual", 0)
  IN Create(movie, Overflow, System, HeapUnits + OverflowUnits, "normal", 0)

Init == mem = Start

Booted == Live(mem, Fixed[1])

setup_fixed_block_heaps(config) == mem' = Rebuild(mem, config)

(* the blocks of the clients                                               *)
Structs(m) == {Struct(m, h) : h \in {g \in Heaps : Live(m, g)}}
Pointers(m, h) == {BlockOf(m, x) : x \in ToSet(m.used[h])} \ Structs(m)
AllPointers(m) == UNION {Pointers(m, h) : h \in Heaps}

malloc(ask) == LET r == Malloc(mem, ask.heap, ask.units, ask.align, ask.high)
               IN /\ Cardinality(AllPointers(mem)) < MaxLive
                  /\ ask.heap = Movie => \A g \in Heaps : mem.borrowed[g] < MaxBorrowed
                  /\ r.x # Nil /\ mem' = r.m

free(p) == mem' = FreeBlock(mem, p)

realloc(p, h, n) == LET r == Malloc(mem, h, n, 1, FALSE)
                    IN n # 0 /\ r.x # Nil /\ mem' = FreeBlock(r.m, p)

wipe_wave == mem' = Wipe(mem, Wave)
wipe_movie == mem' = WipeVirtual(mem)

\* a bug: the game's lists of links stay where they were
system_reset_unwiped(config) ==
  mem' = Malloc(Rebuild(mem, config), Wave, ResetUnits, 1, FALSE).m

(* mk_system_reset: the wave heap is wiped, its heaps are made anew, and   *)
(* reset_wave_mem wipes it again before it allocates the links             *)
system_reset(config) ==
  mem' = Malloc(Wipe(Rebuild(Wipe(mem, Wave), config), Wave), Wave, ResetUnits, 1, FALSE).m

Clients == Heaps \ {System}

Next == \/ ~Booted /\ \E c \in Configs : setup_fixed_block_heaps(c)
        \/ Booted /\ \/ \E ask \in Asks : malloc(ask)
                     \/ \E p \in AllPointers(mem) : free(p)
                     \/ \E p \in AllPointers(mem), n \in Resizes : realloc(p, Wave, n)
                     \/ wipe_wave \/ wipe_movie
                     \/ \E c \in Configs : system_reset(c)

Spec == Init /\ [][Next]_vars

-----------------------------------------------------------------------------
(* Properties                                                              *)

Blocks(m, h) == ToSet(m.used[h]) \cup ToSet(m.free[h])
Once(s) == \A i, j \in DOMAIN s : i # j => s[i] # s[j]

(* The blocks of the heap follow one another from its start to its end.    *)
Tiled(m, h) == /\ Once(m.used[h]) /\ Once(m.free[h])
               /\ ToSet(m.used[h]) \cap ToSet(m.free[h]) = {}
               /\ Total(m.hdr, Blocks(m, h)) = m.at[h].end - m.at[h].start
               /\ m.at[h].start \in Blocks(m, h)
               /\ \A x \in Blocks(m, h) : After(m, x) \in Blocks(m, h) \cup {m.at[h].end}

(* The bits that merging believes say what the lists say.                  *)
BitsRight(m, h) ==
  /\ \A x \in Blocks(m, h) : m.hdr[x].free = (x \in ToSet(m.free[h]))
  /\ \A x \in Blocks(m, h) : After(m, x) # m.at[h].end
                             => m.hdr[After(m, x)].prevFree = (x \in ToSet(m.free[h]))

(* No memory is lost between two free blocks, and the list is in order.    *)
Merged(m, h) ==
  /\ \A x, y \in ToSet(m.free[h]) : After(m, x) # y
  /\ \A i, j \in DOMAIN m.free[h] : i < j => m.free[h][i] < m.free[h][j]

(* Whatever was allocated and freed in whatever order, each heap's blocks  *)
(* cover its memory once, the bits in the headers agree with the two lists *)
(* and no two free neighbours were left unmerged (mwMemNormal.c:29), so    *)
(* that memory never gets lost until the next reset.                       *)
BlocksSound == \A h \in Heaps :
  CASE mem.at[h].kind = "normal" -> Tiled(mem, h) /\ BitsRight(mem, h) /\ Merged(mem, h)
    [] mem.at[h].kind = "fixed" -> /\ Once(mem.used[h] \o mem.free[h])
                                   /\ Blocks(mem, h) = ToSet(Cells(mem, h))
    [] OTHER -> mem.used[h] = <<>>

(* From the pointer a client holds the manager finds the header that was   *)
(* written when the block was handed out and the heap whose list it is on, *)
(* through heaps within heaps and for every padding (mwMem.c:677).         *)
OwnerFound == \A h \in Heaps : \A x \in ToSet(mem.used[h]) :
  LET p == BlockOf(mem, x)
  IN /\ HeaderOf(mem, p) = x
     /\ HeapFrom(mem, p) = h /\ HeapFrom(mem, x) = h
     /\ p = x + 1 + mem.hdr[x].pad /\ UnitsOf(mem, h, x) > 0
     /\ p + UnitsOf(mem, h, x) <= After(mem, x)

(* A heap's statistics are those of its blocks, and the two marks that     *)
(* decide what a wipe visits err on the safe side: a heap called clean     *)
(* holds nothing but other heaps, and one that holds a borrowed block is   *)
(* known to (mwMem.c:1006, :1033).                                         *)
StatsAgree == \A h \in Heaps :
  /\ mem.usedSize[h] = Total(mem.hdr, ToSet(mem.used[h]))
  /\ mem.count[h] = Len(mem.used[h])
  /\ mem.dirty[h] => Pointers(mem, h) = {}
  /\ Len(BorrowedIn(mem, h)) <= mem.borrowed[h]

InStructs(m, x) == \E h \in Heaps : Live(m, h) /\ Struct(m, h) = x + 1
Inner(h) == IF h = Wave THEN {Wave} \cup ToSet(Fixed) ELSE {h}

Allocator == INSTANCE MemBlocks
  WITH Places <- Clients,
       Under <- Inner,
       extent <- [h \in Clients |-> [low |-> mem.at[h].start, high |-> mem.at[h].end]],
       live <- UNION {{[at |-> BlockOf(mem, x), home |-> h, units |-> UnitsOf(mem, h, x),
                        align |-> mem.hdr[x].align,
                        borrowed |-> mem.hdr[x].owner = mem.at[Movie].index] :
                          x \in {y \in ToSet(mem.used[h]) : ~InStructs(mem, y)}} : h \in Clients}

(* The calls keep the promise of MemBlocks: blocks lie apart in their      *)
(* heaps, nobody else's block goes away, and after the game has reset      *)
(* itself the wave heap and all heaps in it hold the new lists of links    *)
(* and nothing from before (mk_struct.c:542).                              *)
AllocatorSpec == Allocator!Spec
=============================================================================
