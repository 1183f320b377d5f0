------------------------------ MODULE MCBuddy ------------------------------
(***************************************************************************)
(* Small memories for the model-checking runs of Buddy.                    *)
(***************************************************************************)
EXTENDS BuddyProps

PowersOfTwo == [o \in Orders |-> 2 ^ o]

Region(from, size) == [from |-> from, size |-> size]

\* A page of 4 bytes gives two chunks of 2 or one of 3.
TwoPools == <<2, 3>>

\* Regions that leave a block of order 2; that share a page, overlap, cross the start
\* of memory or lie outside it, with gaps too small for frame_array; that leave an
\* odd end; and that leave no room for frame_array.
BootRegions ==
  {<<Region(9, 7), Region(33, 9)>>,
   <<Region(-6, 9), Region(1, 5), Region(15, 2), Region(40, 8)>>,
   <<Region(0, 1), Region(2, 6), Region(21, 3)>>,
   <<Region(6, 1), Region(13, 1), Region(21, 1), Region(29, 1)>>}

SmallRequests == {1, 3, 4, 6, 16}
=============================================================================
