---------------------------- MODULE BuddyCallers ----------------------------
(***************************************************************************)
(* The buddy allocator with callers that allocate and free as they like.   *)
(*                                                                         *)
(* __free_pages (buddy.c:105) merges with any block of the same bplevel,   *)
(* and a block in a caller's hands has one too.  The history variable met  *)
(* is set by the first merge with a block that is on no free list; the     *)
(* properties say that this merge, and no other step of the allocator or   *)
(* of its callers, is what breaks it.                                      *)
(***************************************************************************)
EXTENDS Buddy

VARIABLE met  \* some merge has met a held block

history == <<vars, met>>

Starts == Init /\ met = FALSE

\* In a state of MeetsHeld no step but Merge is enabled.
Goes == Next /\ met' = (met \/ MeetsHeld)

AnyCallers == Starts /\ [][Goes]_history

\* TLC stops behind the first such merge: the lists mean nothing from there,
\* and the counters grow without a bound.
Unmet == ~met

----------------------------------------------------------------------------
\* No order of allocations and frees puts a page in two blocks, on the lists,
\* with the callers or in hand, unless a merge has met a held block.
SharedOnlyByHeldMerge == met \/ NoOverlap

\* Such a merge always does: what it hands to the lists is still somebody's.
HeldMergeShares == [][~met /\ met' => ~NoOverlap']_history

\* Until then every block handed out is aligned and apart from all that are
\* held, and only blocks that are held come back.
PromiseUntilHeldMerge == [][met' \/ Promise!Next]_live

\* Until then no page init_buddy put in is lost, over any splits and merges.
LostOnlyByHeldMerge == met \/ NoLeak

\* Until then every block is aligned, inside the range and of the level that
\* its first page records, whatever it was split from and merged into.
WellFormedUntilHeldMerge == met \/ WellFormed

\* Until then two free buddies never stay apart, in whatever order they come
\* back: the loop of __free_pages runs up to the highest level.
CoalescedUntilHeldMerge == met \/ Coalesced
=============================================================================
