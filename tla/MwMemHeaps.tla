----------------------------- MODULE MwMemHeaps -----------------------------
(***************************************************************************)
(* The blocks of the memory manager's heaps (mw/mwMemNormal.c,             *)
(* mw/mwMemFixed.c, mw/mwMemPriv.c).  Every block begins with a header of  *)
(* 16 bytes, which is the unit here: a block at x has its header in unit x *)
(* and hdr[x].size more units after it.  A normal heap keeps its free      *)
(* blocks in the order of their addresses and merges neighbours with the   *)
(* help of two bits in the headers; a fixed heap keeps equal blocks on a   *)
(* stack.                                                                  *)
(*                                                                         *)
(* A record m holds the memory of all heaps, so that a function that does  *)
(* several things to it is the composition of operators.                   *)
(***************************************************************************)
EXTENDS Integers, SequencesExt, FiniteSetsExt

CONSTANTS Heaps,      \* the heap variables of the program
          MemUnits,   \* units of memory
          Nil

Units == 1 .. MemUnits

NoHdr == [size |-> 0, slack |-> 0, pad |-> 0, align |-> 1, owner |-> 0,
          prevFree |-> FALSE, free |-> FALSE, valid |-> FALSE]
NoHeap == [start |-> 1, end |-> 1, kind |-> "none", parent |-> Nil, index |-> 0,
           block |-> 0]

RoundUp(n, a) == ((n + a - 1) \div a) * a
Without(s, x) == SelectSeq(s, LAMBDA y : y # x)
After(m, x) == x + 1 + m.hdr[x].size

-----------------------------------------------------------------------------
(* Normal heaps                                                            *)

(* privAddFreeHdrSorted *)
Sorted(s, x) == SelectSeq(s, LAMBDA y : y < x) \o <<x>> \o SelectSeq(s, LAMBDA y : y > x)

(* the bit in the header at x that says that the block before is free      *)
MarkNext(m, h, x, b) == IF x = m.at[h].end THEN m ELSE [m EXCEPT !.hdr[x].prevFree = b]

(* block y, which lies behind x, becomes a part of x                       *)
Merge(m, h, x, y) == [m EXCEPT !.hdr[x].size = @ + 1 + m.hdr[y].size,
                               !.hdr[y] = NoHdr,
                               !.free[h] = Without(@, y)]

(* privCoalesceFreeBlocksBoundaryTags: with one neighbour in the free list *)
(* the addresses decide, with two the bits in the headers do.              *)
Coalesce(m, h, x) ==
  LET y == After(m, x)
      k == CHOOSE i \in DOMAIN m.free[h] : m.free[h][i] = x
      before == IF k = 1 THEN Nil ELSE m.free[h][k - 1]
      after == IF k = Len(m.free[h]) THEN Nil ELSE m.free[h][k + 1]
      nextFree == y # m.at[h].end /\ m.hdr[y].free
      merged == IF nextFree THEN Merge(m, h, x, y) ELSE m
  IN IF before = Nil /\ after = Nil THEN m
     ELSE IF before = Nil THEN IF y = after THEN Merge(m, h, x, after) ELSE m
     ELSE IF after = Nil
     THEN IF After(m, before) = x THEN Merge(m, h, before, x) ELSE m
     ELSE IF m.hdr[x].prevFree THEN Merge(merged, h, before, x) ELSE merged

Holder(m, h, x) == CHOOSE y \in ToSet(m.free[h]) : y <= x /\ x <= y + m.hdr[y].size

(* privFreeMemFromUsed; what a free block's header no longer tells is      *)
(* cleared                                                                 *)
NormalFree(m, h, x) ==
  LET listed == [m EXCEPT !.used[h] = Without(@, x),
                          !.free[h] = Sorted(@, x),
                          !.hdr[x] = [NoHdr EXCEPT !.size = m.hdr[x].size, !.free = TRUE,
                                        !.prevFree = m.hdr[x].prevFree, !.valid = TRUE]]
      merged == Coalesce(listed, h, x)
  IN MarkNext(merged, h, After(merged, Holder(merged, h, x)), TRUE)

(* the size looked for: alignments above 16 bytes are paid for in advance  *)
UserUnits(n) == IF n = 0 THEN 1 ELSE n
Requested(n, a) == IF a = 1 THEN UserUnits(n) ELSE UserUnits(n) + a

(* from the end of the free list, or for load_high from its beginning      *)
Fit(m, h, n, high) ==
  LET fits == {x \in ToSet(m.free[h]) : m.hdr[x].size >= n}
  IN IF fits = {} THEN Nil ELSE IF high THEN Min(fits) ELSE Max(fits)

\* a block that leaves no more than this over is handed out whole
Splits(m, x, n) == m.hdr[x].size > n + 2

\* a bug: the block behind still believes its neighbour to be free
Whole_unmarked(m, h, x) == [m EXCEPT !.free[h] = Without(@, x)]

(* the whole block                                                         *)
Whole(m, h, x) ==
  MarkNext([m EXCEPT !.free[h] = Without(@, x)], h, After(m, x), FALSE)

(* the first n units of the block, with the remainder in its place         *)
LowPart(m, h, x, n) ==
  LET rest == x + 1 + n
  IN [m EXCEPT !.hdr[x].size = n,
               !.hdr[rest] = [m.hdr[x] EXCEPT !.size = m.hdr[x].size - n - 1, !.slack = 0,
                                              !.prevFree = FALSE, !.free = TRUE],
               !.free[h] = Sorted(Without(@, x), rest)]

(* the last n units of the block                                           *)
HighPart(m, h, x, n) ==
  LET y == After(m, x) - n - 1
      cut == [m EXCEPT !.hdr[x].size = @ - n - 1, !.hdr[x].prevFree = FALSE,
                       !.hdr[y] = [NoHdr EXCEPT !.size = n, !.valid = TRUE]]
  IN MarkNext(cut, h, After(m, x), FALSE)

None(m) == [m |-> m, x |-> Nil]

(* the header of a block that is handed out to the heap with index owner   *)
HandOut(m, h, x, n, a, owner, prevFree) ==
  [m |-> [m EXCEPT !.hdr[x] = [@ EXCEPT !.slack = m.hdr[x].size - n, !.align = a,
                                        !.pad = RoundUp(x + 1, a) - (x + 1),
                                        !.owner = owner, !.prevFree = prevFree,
                                        !.free = FALSE],
                   !.used[h] = <<x>> \o @],
   x |-> x]

(* normHeapMallocMem *)
NormalAlloc(m, h, n, a, high, owner) ==
  LET r == Requested(n, a)
      x == Fit(m, h, r, high)
  IN IF x = Nil THEN None(m)
     ELSE IF ~Splits(m, x, r) THEN HandOut(Whole(m, h, x), h, x, r, a, owner, FALSE)
     ELSE IF high THEN HandOut(LowPart(m, h, x, r), h, x, r, a, owner, FALSE)
     ELSE HandOut(HighPart(m, h, x, r), h, After(m, x) - r - 1, r, a, owner, TRUE)

(* normHeapInitHeap: one free block                                        *)
NormalInit(m, h) ==
  LET s == m.at[h].start
  IN [m EXCEPT !.used[h] = <<>>, !.free[h] = <<s>>,
               !.hdr[s] = [NoHdr EXCEPT !.size = m.at[h].end - s - 1,
                                        !.free = TRUE, !.valid = TRUE]]

-----------------------------------------------------------------------------
(* Fixed heaps, whose blocks are aligned to 16 bytes in this program       *)

Cells(m, h) == LET s == m.at[h]
               IN [i \in 1 .. (s.end - s.start) \div (s.block + 1) |->
                     s.start + (i - 1) * (s.block + 1)]

(* privFBHeapPartition *)
FixedInit(m, h) ==
  [m EXCEPT !.used[h] = <<>>, !.free[h] = Reverse(Cells(m, h)),
            !.hdr = [x \in ToSet(Cells(m, h)) |->
                       [NoHdr EXCEPT !.size = m.at[h].block, !.free = TRUE, !.valid = TRUE]]
                    @@ @]

(* fixedBlockHeapAlloc *)
FixedAlloc(m, h, n, a, owner) ==
  IF a > 1 \/ UserUnits(n) > m.at[h].block \/ m.free[h] = <<>> THEN None(m)
  ELSE LET x == Head(m.free[h])
       IN [m |-> [m EXCEPT !.free[h] = Tail(@), !.used[h] = <<x>> \o @,
                           !.hdr[x] = [@ EXCEPT !.owner = owner, !.free = FALSE]],
           x |-> x]

(* fixedBlockHeapFreeBlock *)
FixedFree(m, h, x) ==
  [m EXCEPT !.used[h] = Without(@, x), !.free[h] = <<x>> \o @,
            !.hdr[x] = [@ EXCEPT !.owner = 0, !.free = TRUE]]
=============================================================================
