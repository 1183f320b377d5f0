----------------------------- MODULE BuddyProps -----------------------------
(***************************************************************************)
(* What the memory allocator must guarantee.                               *)
(***************************************************************************)
EXTENDS Buddy, FiniteSets

\* Every variable keeps its type: no list, loop or pointer leaves frame_array.
TypeOK ==
  /\ frames \in [Frames -> Frame]
  /\ freeArea \in [Orders -> Seq(Frames)]
  /\ chunks \in [Pools -> Seq([page : Frames, off : 0 .. PageSize - 1])]
  /\ early \in Seq([from : Int, size : Nat \ {0}])
  /\ call \in Call
  /\ held \in SUBSET Pointer

PagesOf(i, o) == i .. i + Size[o] - 1

\* in_free_list, state and order tell exactly which blocks are on which list, so
\* that the test free_pages makes of a buddy it has never seen can be trusted.
ListsExact ==
  \A o \in Orders :
    /\ \A m, n \in 1 .. Len(freeArea[o]) : freeArea[o][m] = freeArea[o][n] => m = n
    /\ {freeArea[o][n] : n \in 1 .. Len(freeArea[o])}
         = {f \in Frames : frames[f].listed /\ ~frames[f].used /\ frames[f].order = o}

FreeBlocks == {b \in Frames \X Orders : frames[b[1]].listed /\ frames[b[1]].order = b[2]}

\* Blocks of callers, of chunk pools, and the one a loop is working on.
HeldBlocks ==
  {<<h.page, frames[h.page].order>> : h \in {g \in held : frames[g.page].pool = NoPool}}
ChunkBlocks == {<<f, 0>> : f \in {g \in Frames : frames[g].pool # NoPool}}
LoopBlocks == IF call.at \in {"split", "merge"} THEN {<<call.idx, call.order>>} ELSE {}

Reserved(f) == \E i \in 1 .. Len(early) : Overlaps(f, f + 1, early[i])

Owners(f) ==
  LET Count(B) == Cardinality({b \in B : f \in PagesOf(b[1], b[2])})
  IN  Count(FreeBlocks) + Count(HeldBlocks) + Count(ChunkBlocks) + Count(LoopBlocks)
        + (IF Reserved(f) THEN 1 ELSE 0)

\* Once mm_init is over every page frame is in exactly one block, a free one, one in
\* use or one in the hands of a loop, or else is reserved: none is lost or shared.
PagesOwned ==
  call.at \in {"idle", "split", "merge"} => \A f \in Frames : Owners(f) = 1

\* free_pages merges as far as possible: alloc_pages fails only if no aligned run of
\* free pages of the size asked for exists.
Unfragmented ==
  call = Idle =>
    \A o \in Orders, i \in Frames :
      /\ i % Size[o] = 0 /\ i + Size[o] <= FrameCount
      /\ \A f \in PagesOf(i, o) : \E b \in FreeBlocks : f \in PagesOf(b[1], b[2])
      => Available(o) # {}

\* The chunks of a page of a pool: each is on the list of that pool or in the hands
\* of one caller, once.
ChunksOnce ==
  \A f \in Frames : frames[f].pool # NoPool =>
    \A k \in 1 .. PageSize \div PoolSizes[frames[f].pool] :
      LET c == [page |-> f, off |-> (k - 1) * PoolSizes[frames[f].pool]]
          list == chunks[frames[f].pool]
      IN  Cardinality({n \in 1 .. Len(list) : list[n] = c})
            + Cardinality({h \in held : h.page = f /\ h.off = c.off}) = 1

\* startup_alloc puts frame_array on pages that no region in use at boot touches.
FrameArrayApart ==
  call.at \notin {"startup", "halted"} =>
    \A i \in 1 .. Len(early) - 1 :
      ~Overlaps(FirstPage(early[Len(early)]), EndPage(early[Len(early)]), early[i])

\* The bytes that a pointer a caller holds stands for.
Extent(h) ==
  LET from == h.page * PageSize + h.off
      fr == frames[h.page]
      length == IF fr.pool # NoPool THEN PoolSizes[fr.pool] ELSE Size[fr.order] * PageSize
  IN  [start |-> from, end |-> from + length, size |-> h.size]

\* mm.c implements Heap: nothing is given out twice, too small, outside memory, or
\* over the device tree, the kernel, the initrd, the program region or frame_array.
Promised ==
  INSTANCE Heap WITH
    Limit <- FrameCount * PageSize,
    reserved <- {[start |-> early[i].from, end |-> early[i].from + early[i].size] :
                   i \in 1 .. Len(early)},
    given <- {Extent(h) : h \in held}
IsHeap == Promised!Spec

\* Every loop of mm.c ends: mm_init returns or finds no room, and so does each call.
CallsReturn == call # Idle ~> call = Idle \/ call.at = "halted"
=============================================================================
