----------------------------- MODULE PageAlloc -----------------------------
(***************************************************************************)
(* What kernel/mm/buddy.c promises its callers, slab.c among them: a block *)
(* of 2^k pages, naturally aligned, that has no page in common with any    *)
(* block still held.  How the free pages are kept is not part of it.       *)
(***************************************************************************)
EXTENDS Integers

CONSTANTS
  MaxOrder,  \* MAX_BUDDY_ORDER
  NPages,    \* the pages managed
  Size       \* Size[k] is 1 << k

VARIABLE live  \* the blocks <<first page, order>> handed out

Orders == 0 .. MaxOrder
Pages  == 0 .. NPages - 1

\* The blocks of order j at p and of order k at q have no page in common.
Apart(p, j, q, k) == p + Size[j] <= q \/ q + Size[k] <= p

\* p is the first page of a block of order k.
IsBlock(p, k) ==
  /\ p + Size[k] <= NPages
  /\ \E m \in 0 .. p : p = m * Size[k]

\* The block of order k at p can be handed out.
Available(p, k) ==
  /\ IsBlock(p, k)
  /\ \A l \in live : Apart(p, k, l[1], l[2])

Init == live = {}

Alloc(p, k) ==
  /\ Available(p, k)
  /\ live' = live \cup {<<p, k>>}

Free(p, k) ==
  /\ <<p, k>> \in live
  /\ live' = live \ {<<p, k>>}

Next == \E p \in Pages, k \in Orders : Alloc(p, k) \/ Free(p, k)

Spec == Init /\ [][Next]_live
=============================================================================
