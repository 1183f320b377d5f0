-------------------------------- MODULE Buddy --------------------------------
(***************************************************************************)
(* The memory allocator of lab 6, mm.c: mm_init with its early             *)
(* reservations and the startup allocator, the buddy system over page      *)
(* frames, and the chunk pools for small requests.                         *)
(*                                                                         *)
(* Addresses count bytes from managed_base.  One turn of a loop of the     *)
(* code is one action; `call` says which loop is running, and nothing else *)
(* happens meanwhile: no interrupt handler allocates.                      *)
(***************************************************************************)
EXTENDS Integers, Sequences

CONSTANTS
  FrameCount,  \* frame_count
  MaxOrder,    \* MAX_ORDER
  Size,        \* the pages of a block of each order, 1UL << order
  PageSize,    \* PAGE_SIZE
  PoolSizes,   \* pool_sizes, ascending
  ArrayPages,  \* the pages of frame_array
  Regions,     \* the possible lists of regions in use at boot
  Requests     \* the sizes that callers ask for

Frames == 0 .. FrameCount - 1
Orders == 0 .. MaxOrder
Pools == 1 .. Len(PoolSizes)
NoPool == 0

ASSUME BuddyAssumption ==
  /\ FrameCount \in Nat \ {0} /\ MaxOrder \in Nat
  /\ PageSize \in Nat \ {0} /\ ArrayPages \in Nat \ {0}
  /\ Size \in [Orders -> Nat] /\ Size[0] = 1
  /\ \A o \in 0 .. MaxOrder - 1 : Size[o + 1] = 2 * Size[o]
  /\ PoolSizes \in Seq(1 .. PageSize) /\ PoolSizes # <<>>
  /\ \A p, q \in Pools : p < q => PoolSizes[p] < PoolSizes[q]
  /\ Regions \subseteq Seq([from : Int, size : Nat \ {0}])
  /\ Requests \subseteq 1 .. PageSize * Size[MaxOrder]

VARIABLES
  frames,    \* frame_array
  freeArea,  \* free_area[], the list of each order from its head
  chunks,    \* chunk_free_list[], each from its head
  early,     \* early_reserved[]
  call,      \* the loop that is running
  held       \* what callers have been given and not freed

vars == <<frames, freeArea, chunks, early, call, held>>

\* A frame is used for chunks when chunk_size # 0; chunk_pool is set with it.
Frame == [order : Orders \cup {-1}, used : BOOLEAN, listed : BOOLEAN, pool : Pools \cup {NoPool}]
FreeFrame(o) == [order |-> o, used |-> FALSE, listed |-> TRUE, pool |-> NoPool]
UsedFrame(o) == [order |-> o, used |-> TRUE, listed |-> FALSE, pool |-> NoPool]

\* What a caller holds: a pointer, as page and offset, and the size it asked for.
Pointer == [page : Frames, off : 0 .. PageSize - 1, size : Nat]

Call ==
  [at : {"startup", "fill", "reserve", "split", "merge", "idle", "halted"},
   idx : Nat, order : Orders, want : Orders, pool : Pools \cup {NoPool}, size : Nat]
At(a, i, o) ==
  [at |-> a, idx |-> i, order |-> o, want |-> 0, pool |-> NoPool, size |-> 0]
Idle == At("idle", 0, 0)

Init ==
  /\ frames = [f \in Frames |-> UsedFrame(-1)]
  /\ freeArea = [o \in Orders |-> <<>>]
  /\ chunks = [p \in Pools |-> <<>>]
  /\ early \in Regions
  /\ call = At("startup", 0, 0)
  /\ held = {}

\* early_reserve_add rounds a region to whole pages, first included, last not.
FirstPage(r) == r.from \div PageSize
EndPage(r) == (r.from + r.size + PageSize - 1) \div PageSize

Least(S) == CHOOSE x \in S : \A y \in S : x <= y

(***************************************************************************)
(* The lists.                                                              *)
(***************************************************************************)
\* list_add at the head.
ListAdd(area, i, o) == [area EXCEPT ![o] = <<i>> \o @]

\* Mutant: the head of the list is unlinked, whichever block is meant.
MutListDel(area, i, o) == [area EXCEPT ![o] = Tail(@)]

\* list_del.
ListDel(area, i, o) ==
  LET q == area[o]
      k == CHOOSE n \in 1 .. Len(q) : q[n] = i
  IN  [area EXCEPT ![o] =
         [n \in 1 .. Len(q) - 1 |-> IF n < k THEN q[n] ELSE q[n + 1]]]

(***************************************************************************)
(* mm_init.                                                                *)
(***************************************************************************)
Overlaps(first, end, r) == first < EndPage(r) /\ FirstPage(r) < end

\* Mutant: only the first page of frame_array is tested.
MutConflicts(addr) == {i \in 1 .. Len(early) : Overlaps(addr, addr + 1, early[i])}

\* The regions the candidate [addr, addr + ArrayPages) of startup_alloc runs into.
Conflicts(addr) ==
  {i \in 1 .. Len(early) : Overlaps(addr, addr + ArrayPages, early[i])}

\* Mutant: the search goes on from the start of the region in the way.
MutPast(addr) == FirstPage(early[Least(Conflicts(addr))])

Past(addr) == EndPage(early[Least(Conflicts(addr))])

\* One turn of startup_alloc, for frame_array: past the first region in the way, or
\* done, and frame_array is a reserved region itself.
Startup ==
  /\ call.at = "startup" /\ call.idx + ArrayPages <= FrameCount
  /\ IF Conflicts(call.idx) # {}
     THEN /\ call' = At("startup", Past(call.idx), 0)
          /\ UNCHANGED early
     ELSE /\ early' = Append(early, [from |-> call.idx * PageSize, size |-> ArrayPages * PageSize])
          /\ call' = At("fill", 0, 0)
  /\ UNCHANGED <<frames, freeArea, chunks, held>>

\* No room for frame_array: while (1) { }.
Halt ==
  /\ call.at = "startup" /\ call.idx + ArrayPages > FrameCount
  /\ call' = At("halted", 0, 0)
  /\ UNCHANGED <<frames, freeArea, chunks, early, held>>

Halted == call.at = "halted" /\ UNCHANGED vars

\* The orders of the blocks that may start at page i.
Fitting(i) == {o \in Orders : i % Size[o] = 0 /\ i + Size[o] <= FrameCount}

\* One turn of step 7: the largest block that fits goes on its list.
Fill ==
  /\ call.at = "fill"
  /\ IF call.idx < FrameCount
     THEN LET o == CHOOSE x \in Fitting(call.idx) : \A y \in Fitting(call.idx) : y <= x
          IN  /\ frames' = [frames EXCEPT ![call.idx] = FreeFrame(o)]
              /\ freeArea' = ListAdd(freeArea, call.idx, o)
              /\ call' = At("fill", call.idx + Size[o], 0)
     ELSE call' = At("reserve", 1, MaxOrder) /\ UNCHANGED <<frames, freeArea>>
  /\ UNCHANGED <<chunks, early, held>>
\* The places in free_area[o] of the blocks that overlap r.
Touched(o, r) ==
  {n \in 1 .. Len(freeArea[o]) : Overlaps(freeArea[o][n], freeArea[o][n] + Size[o], r)}

Covered(i, o, r) == FirstPage(r) <= i /\ i + Size[o] <= EndPage(r)

\* memory_reserve takes the next block of the list that overlaps the region: it
\* stays off the lists, or its halves go on the list below, which comes next.
ReserveBlock(r, o) ==
  LET i == freeArea[o][Least(Touched(o, r))]
  IN  IF Covered(i, o, r) \/ o = 0
      THEN /\ frames' = [frames EXCEPT ![i] = UsedFrame(o)]
           /\ freeArea' = ListDel(freeArea, i, o)
      ELSE LET half == i + Size[o - 1]
           IN  /\ frames' = [frames EXCEPT ![i] = FreeFrame(o - 1), ![half] = FreeFrame(o - 1)]
               /\ freeArea' = ListAdd(ListAdd(ListDel(freeArea, i, o), i, o - 1), half, o - 1)

\* One turn of step 8.  Clamping a region to the managed range changes no test
\* above, as every block lies inside that range.
Reserve ==
  /\ call.at = "reserve"
  /\ IF call.idx > Len(early)
     THEN call' = Idle /\ UNCHANGED <<frames, freeArea>>
     ELSE IF Touched(call.order, early[call.idx]) # {}
     THEN ReserveBlock(early[call.idx], call.order) /\ UNCHANGED call
     ELSE /\ call' = IF call.order > 0
                     THEN At("reserve", call.idx, call.order - 1)
                     ELSE At("reserve", call.idx + 1, MaxOrder)
          /\ UNCHANGED <<frames, freeArea>>
  /\ UNCHANGED <<chunks, early, held>>

(***************************************************************************)
(* alloc_pages.                                                            *)
(***************************************************************************)
\* The orders, from o up, of which there is a free block.
Available(o) == {k \in Orders : o <= k /\ freeArea[k] # <<>>}

\* The block at the head of the first list that has one leaves it; if there is
\* none the caller gets NULL.
AllocPages(o, pool, n) ==
  IF Available(o) = {} THEN UNCHANGED vars
  ELSE LET k == Least(Available(o))
           i == Head(freeArea[k])
       IN  /\ freeArea' = ListDel(freeArea, i, k)
           /\ frames' = [frames EXCEPT ![i].listed = FALSE]
           /\ call' = [at |-> "split", idx |-> i, order |-> k,
                       want |-> o, pool |-> pool, size |-> n]
           /\ UNCHANGED <<chunks, early, held>>

\* The right half goes back, the left half is split on.
Split ==
  /\ call.at = "split" /\ call.order > call.want
  /\ LET o == call.order - 1
         right == call.idx + Size[o]
     IN  /\ frames' = [frames EXCEPT ![right] = FreeFrame(o), ![call.idx].order = o]
         /\ freeArea' = ListAdd(freeArea, right, o)
         /\ call' = [call EXCEPT !.order = o]
  /\ UNCHANGED <<chunks, early, held>>

\* Mutant: the offsets start one chunk into the page.
MutPageChunks(i, p) ==
  LET n == PageSize \div PoolSizes[p]
  IN  [k \in 1 .. n |-> [page |-> i, off |-> (n - k + 1) * PoolSizes[p]]]

\* refill_chunk_pool pushes the chunks of a page from the first to the last.
PageChunks(i, p) ==
  LET n == PageSize \div PoolSizes[p]
  IN  [k \in 1 .. n |-> [page |-> i, off |-> (n - k) * PoolSizes[p]]]

Give(i, off, n) == held' = held \cup {[page |-> i, off |-> off, size |-> n]}

\* Mutant: the chunk given out is not unlinked.
MutRefilled(i, p) == PageChunks(i, p) \o chunks[p]

\* The list once alloc_chunk has popped the first of the new chunks.
Refilled(i, p) == Tail(PageChunks(i, p) \o chunks[p])

\* alloc_pages returns: to its caller, or to refill_chunk_pool, and alloc_chunk then
\* pops the first chunk.
AllocDone ==
  /\ call.at = "split" /\ call.order = call.want
  /\ LET i == call.idx
         p == call.pool
     IN  IF p = NoPool
         THEN /\ frames' = [frames EXCEPT ![i] = UsedFrame(call.want)]
              /\ Give(i, 0, call.size)
              /\ UNCHANGED chunks
         ELSE /\ frames' = [frames EXCEPT ![i] = [UsedFrame(0) EXCEPT !.pool = p]]
              /\ chunks' = [chunks EXCEPT ![p] = Refilled(i, p)]
              /\ Give(i, Head(PageChunks(i, p)).off, call.size)
  /\ call' = Idle
  /\ UNCHANGED <<freeArea, early>>

(***************************************************************************)
(* allocate and free.                                                      *)
(***************************************************************************)
Small(n) == n <= PoolSizes[Len(PoolSizes)]

\* find_pool: the first pool whose chunks are large enough.
FindPool(n) == Least({p \in Pools : n <= PoolSizes[p]})

\* Mutant: the number of pages is rounded down.
MutSizeToOrder(n) == Least({o \in Orders : n \div PageSize <= Size[o]})

SizeToOrder(n) == Least({o \in Orders : n <= Size[o] * PageSize})

\* A request for 0 bytes or for more than MAX_ALLOC_SIZE gets NULL.
Allocate ==
  /\ call = Idle
  /\ \E n \in Requests :
       IF ~Small(n) THEN AllocPages(SizeToOrder(n), NoPool, n)
       ELSE LET p == FindPool(n)
            IN  IF chunks[p] = <<>> THEN AllocPages(0, p, n)
                ELSE /\ Give(Head(chunks[p]).page, Head(chunks[p]).off, n)
                     /\ chunks' = [chunks EXCEPT ![p] = Tail(@)]
                     /\ UNCHANGED <<frames, freeArea, early, call>>

\* free: the metadata of the page tells a chunk from a block and gives its size.
Free ==
  /\ call = Idle
  /\ \E h \in held :
       /\ held' = held \ {h}
       /\ IF frames[h.page].pool # NoPool
          THEN /\ chunks' = [chunks EXCEPT ![frames[h.page].pool] =
                               <<[page |-> h.page, off |-> h.off]>> \o @]
               /\ UNCHANGED <<frames, call>>
          ELSE /\ frames' = [frames EXCEPT ![h.page].used = FALSE]
               /\ call' = At("merge", h.page, frames[h.page].order)
               /\ UNCHANGED chunks
  /\ UNCHANGED <<freeArea, early>>

\* idx ^ (1UL << order).
BuddyOf(i, o) == IF (i \div Size[o]) % 2 = 0 THEN i + Size[o] ELSE i - Size[o]

\* Mutant: the order of the buddy is not compared.
MutMergeable(b, o) == b < FrameCount /\ frames[b].listed /\ ~frames[b].used

Mergeable(b, o) ==
  b < FrameCount /\ frames[b].listed /\ ~frames[b].used /\ frames[b].order = o

\* Mutant: blocks of the highest order are never formed.
MutCanMerge == call.order < MaxOrder - 1 /\ Mergeable(BuddyOf(call.idx, call.order), call.order)

CanMerge == call.order < MaxOrder /\ Mergeable(BuddyOf(call.idx, call.order), call.order)

\* One turn of the loop of free_pages: the buddy leaves its list, and the union is a
\* block of the next order that starts where the first of the two does.
Merge ==
  /\ call.at = "merge" /\ CanMerge
  /\ LET b == BuddyOf(call.idx, call.order)
         i == IF b < call.idx THEN b ELSE call.idx
         o == call.order + 1
     IN  /\ freeArea' = ListDel(freeArea, b, frames[b].order)
         /\ frames' = [frames EXCEPT ![b].listed = FALSE, ![i].order = o, ![i].used = FALSE]
         /\ call' = At("merge", i, o)
  /\ UNCHANGED <<chunks, early, held>>

MergeDone ==
  /\ call.at = "merge" /\ ~CanMerge
  /\ frames' = [frames EXCEPT ![call.idx] = FreeFrame(call.order)]
  /\ freeArea' = ListAdd(freeArea, call.idx, call.order)
  /\ call' = Idle
  /\ UNCHANGED <<chunks, early, held>>

Boot == Startup \/ Halt \/ Halted \/ Fill \/ Reserve
Next == Boot \/ Split \/ AllocDone \/ Allocate \/ Free \/ Merge \/ MergeDone

Spec == Init /\ [][Next]_vars

\* A loop that was entered runs on.
FairSpec == Spec /\ WF_vars(Boot \/ Split \/ AllocDone \/ Merge \/ MergeDone)
=============================================================================
