------------------------------- MODULE Buddy -------------------------------
(***************************************************************************)
(* The buddy page allocator, kernel/mm/buddy.c.                            *)
(*                                                                         *)
(* The struct page array is the function bplevel; freelist[k] is the set   *)
(* of the first pages of the blocks on its list and the counter nr_free[k].*)
(* The order of a list is left out: __alloc_pages takes any element where  *)
(* the code takes the head, which includes what the code does.             *)
(*                                                                         *)
(* __free_pages and __alloc_pages are loops.  One iteration is one step,   *)
(* and `call' holds the local variables of the call in progress.  The      *)
(* callers are the environment: live is the set of blocks they hold.       *)
(***************************************************************************)
EXTENDS Integers, FiniteSets

CONSTANTS
  MaxOrder,  \* MAX_BUDDY_ORDER
  NPages,    \* buddy_end_pfn - buddy_start_pfn
  Size       \* Size[k] is 1 << k, the pages of a block of order k

Orders == 0 .. MaxOrder
Pages  == 0 .. NPages - 1

ASSUME MaxOrderAssumption == MaxOrder \in Nat
ASSUME SizeAssumption ==
  /\ DOMAIN Size = Orders
  /\ \A k \in Orders : Size[k] \in Nat /\ Size[k] > 0
  /\ Size[0] = 1
  /\ \A k \in 1 .. MaxOrder : Size[k] = 2 * Size[k - 1]
  /\ \A j, k \in Orders : j <= k => \E m \in 1 .. Size[k] : Size[k] = m * Size[j]
\* both ends of the range are rounded to 1 << MAX_BUDDY_ORDER pages
ASSUME NPagesAssumption ==
  NPages \in Nat /\ \E m \in 1 .. NPages : NPages = m * Size[MaxOrder]

VARIABLES
  bplevel,   \* struct page.bplevel, by page index
  freelist,  \* freelist[k].free_head
  nr_free,   \* freelist[k].nr_free
  fed,       \* the pages init_buddy has handed to __free_pages so far
  live,      \* the blocks <<page, order>> the callers hold
  call       \* the call in progress, with its local variables

vars == <<bplevel, freelist, nr_free, fed, live, call>>

Idle == [op |-> "none", page |-> 0, order |-> 0, want |-> 0]

\* The pages of the block of order k that starts at page p.
Block(p, k) == p .. p + Size[k] - 1

\* The blocks of order j at p and of order k at q have no page in common.
Apart(p, j, q, k) == p + Size[j] <= q \/ q + Size[k] <= p

\* p is the first page of a block of order k inside the managed range.
IsBlock(p, k) ==
  /\ p + Size[k] <= NPages
  /\ \E m \in 0 .. p : p = m * Size[k]

\* page_idx ^ (1 << bplevel), for a page index that is a multiple of 1 << bplevel.
BuddyOf(p, k) ==
  IF \E m \in 0 .. p : p = 2 * m * Size[k] THEN p + Size[k] ELSE p - Size[k]

----------------------------------------------------------------------------
\* init_pages, and init_buddy up to its last loop.
Init ==
  /\ bplevel  = [p \in Pages |-> -1]
  /\ freelist = [k \in Orders |-> {}]
  /\ nr_free  = [k \in Orders |-> 0]
  /\ fed = 0
  /\ live = {}
  /\ call = Idle

\* __free_pages is entered: page_idx and bplevel are its locals.
EnterFree(p, k) ==
  call' = [op |-> "free", page |-> p, order |-> k, want |-> 0]

\* One turn of init_buddy's loop: the next page is freed at order 0.
FeedPage ==
  /\ call = Idle
  /\ fed < NPages
  /\ EnterFree(fed, 0)
  /\ fed' = fed + 1
  /\ UNCHANGED <<bplevel, freelist, nr_free, live>>

\* A caller gives back a block it holds, with the order it asked for.
Free(p, k) ==
  /\ call = Idle
  /\ fed = NPages
  /\ <<p, k>> \in live
  /\ live' = live \ {<<p, k>>}
  /\ EnterFree(p, k)
  /\ UNCHANGED <<bplevel, freelist, nr_free, fed>>

\* Variant: the loop of __free_pages ends a level early.
CanMergeEarly ==
  /\ call.order < MaxOrder - 1
  /\ bplevel[BuddyOf(call.page, call.order)] = call.order

\* The block the loop of __free_pages would merge with has the same level.
CanMerge ==
  /\ call.order < MaxOrder
  /\ bplevel[BuddyOf(call.page, call.order)] = call.order

\* Variant: page_idx stays when the buddy is the lower one.
MergeKeepsPage ==
  /\ call.op = "free"
  /\ CanMerge
  /\ LET k == call.order
         b == BuddyOf(call.page, k)
     IN  /\ freelist' = [freelist EXCEPT ![k] = @ \ {b}]
         /\ nr_free'  = [nr_free EXCEPT ![k] = @ - 1]
         /\ bplevel'  = [bplevel EXCEPT ![b] = -1]
         /\ call'     = [call EXCEPT !.order = k + 1]
  /\ UNCHANGED <<fed, live>>

\* One turn of the loop of __free_pages.  list_del_init of a page that is on
\* no list changes no list; the counter is decremented all the same.
Merge ==
  /\ call.op = "free"
  /\ CanMerge
  /\ LET k == call.order
         b == BuddyOf(call.page, k)
     IN  /\ freelist' = [freelist EXCEPT ![k] = @ \ {b}]
         /\ nr_free'  = [nr_free EXCEPT ![k] = @ - 1]
         /\ bplevel'  = [bplevel EXCEPT ![b] = -1]
         /\ call'     = [call EXCEPT !.page  = IF b < @ THEN b ELSE @,
                                     !.order = k + 1]
  /\ UNCHANGED <<fed, live>>

\* The end of __free_pages: the block goes on the list of its level.
Link ==
  /\ call.op = "free"
  /\ ~CanMerge
  /\ bplevel'  = [bplevel EXCEPT ![call.page] = call.order]
  /\ freelist' = [freelist EXCEPT ![call.order] = @ \cup {call.page}]
  /\ nr_free'  = [nr_free EXCEPT ![call.order] = @ + 1]
  /\ call'     = Idle
  /\ UNCHANGED <<fed, live>>

\* Variants: the block stays on its list; its bplevel is that of the list.
AllocKeepsListed(k) ==
  /\ call = Idle
  /\ fed = NPages
  /\ \E c \in k .. MaxOrder :
       /\ \A j \in k .. c - 1 : freelist[j] = {}
       /\ \E p \in freelist[c] :
            /\ nr_free'  = [nr_free EXCEPT ![c] = @ - 1]
            /\ bplevel'  = [bplevel EXCEPT ![p] = k]
            /\ call'     = [op |-> "alloc", page |-> p, order |-> c, want |-> k]
  /\ UNCHANGED <<freelist, fed, live>>

AllocKeepsLevel(k) ==
  /\ call = Idle
  /\ fed = NPages
  /\ \E c \in k .. MaxOrder :
       /\ \A j \in k .. c - 1 : freelist[j] = {}
       /\ \E p \in freelist[c] :
            /\ freelist' = [freelist EXCEPT ![c] = @ \ {p}]
            /\ nr_free'  = [nr_free EXCEPT ![c] = @ - 1]
            /\ call'     = [op |-> "alloc", page |-> p, order |-> c, want |-> k]
  /\ UNCHANGED <<bplevel, fed, live>>

\* __alloc_pages(k) finds the first non-empty list from k up and takes a
\* block off it.  When all are empty it returns 0 and nothing changes.
Alloc(k) ==
  /\ call = Idle
  /\ fed = NPages
  /\ \E c \in k .. MaxOrder :
       /\ \A j \in k .. c - 1 : freelist[j] = {}
       /\ \E p \in freelist[c] :
            /\ freelist' = [freelist EXCEPT ![c] = @ \ {p}]
            /\ nr_free'  = [nr_free EXCEPT ![c] = @ - 1]
            /\ bplevel'  = [bplevel EXCEPT ![p] = k]
            /\ call'     = [op |-> "alloc", page |-> p, order |-> c, want |-> k]
  /\ UNCHANGED <<fed, live>>

\* Variants: the lower half goes on the list; list_add is forgotten.
SplitLowerHalf ==
  /\ call.op = "alloc"
  /\ call.order > call.want
  /\ LET k == call.order - 1
     IN  /\ freelist' = [freelist EXCEPT ![k] = @ \cup {call.page}]
         /\ nr_free'  = [nr_free EXCEPT ![k] = @ + 1]
         /\ bplevel'  = [bplevel EXCEPT ![call.page] = k]
         /\ call'     = [call EXCEPT !.order = k]
  /\ UNCHANGED <<fed, live>>

SplitUnlisted ==
  /\ call.op = "alloc"
  /\ call.order > call.want
  /\ LET k == call.order - 1
         b == call.page + Size[k]
     IN  /\ nr_free' = [nr_free EXCEPT ![k] = @ + 1]
         /\ bplevel' = [bplevel EXCEPT ![b] = k]
         /\ call'    = [call EXCEPT !.order = k]
  /\ UNCHANGED <<freelist, fed, live>>

\* One turn of the splitting loop: the upper half goes back on a list.
Split ==
  /\ call.op = "alloc"
  /\ call.order > call.want
  /\ LET k == call.order - 1
         b == call.page + Size[k]
     IN  /\ freelist' = [freelist EXCEPT ![k] = @ \cup {b}]
         /\ nr_free'  = [nr_free EXCEPT ![k] = @ + 1]
         /\ bplevel'  = [bplevel EXCEPT ![b] = k]
         /\ call'     = [call EXCEPT !.order = k]
  /\ UNCHANGED <<fed, live>>

\* __alloc_pages returns the block to its caller.
Return ==
  /\ call.op = "alloc"
  /\ call.order = call.want
  /\ live' = live \cup {<<call.page, call.want>>}
  /\ call' = Idle
  /\ UNCHANGED <<bplevel, freelist, nr_free, fed>>

Next ==
  \/ FeedPage
  \/ \E p \in Pages, k \in Orders : Free(p, k)
  \/ Merge
  \/ Link
  \/ \E k \in Orders : Alloc(k)
  \/ Split
  \/ Return

Spec == Init /\ [][Next]_vars

----------------------------------------------------------------------------
(***************************************************************************)
(* __free_pages takes "same bplevel" for "free" (line 105), but            *)
(* __alloc_pages gives the pages it hands out a bplevel too (line 145).    *)
(* MeetsHeld is the state in which the next turn of the loop merges with a *)
(* block that is on no free list; BuddyCallers says what that does.        *)
(*                                                                         *)
(* Careful(p, k) is a condition on the callers under which the loop meets  *)
(* free blocks only: when p lies in the buddy of a held block at least as  *)
(* large as (p, k), that buddy still holds another held block, at which    *)
(* the merging stops.                                                      *)
(***************************************************************************)
MeetsHeld ==
  /\ call.op = "free"
  /\ CanMerge
  /\ BuddyOf(call.page, call.order) \notin freelist[call.order]

Blocked(q, j, held) ==
  \E h \in held : ~Apart(h[1], h[2], BuddyOf(q, j), j)

Careful(p, k) ==
  \A q \in Pages, j \in k .. MaxOrder - 1 :
    /\ <<q, j>> \in live \ {<<p, k>>}
    /\ p \in Block(BuddyOf(q, j), j)
    => Blocked(q, j, live \ {<<p, k>>})

CarefulFree(p, k) == Free(p, k) /\ Careful(p, k)

CarefulNext ==
  \/ FeedPage
  \/ \E p \in Pages, k \in Orders : CarefulFree(p, k)
  \/ Merge
  \/ Link
  \/ \E k \in Orders : Alloc(k)
  \/ Split
  \/ Return

CarefulSpec == Init /\ [][CarefulNext]_vars

----------------------------------------------------------------------------
TypeOK ==
  /\ bplevel \in [Pages -> -1 .. MaxOrder]
  /\ freelist \in [Orders -> SUBSET Pages]
  /\ nr_free \in [Orders -> Int]
  /\ fed \in 0 .. NPages
  /\ live \subseteq Pages \X Orders
  /\ call \in [op : {"none", "free", "alloc"}, page : Pages, order : Orders, want : Orders]

\* Who has the block of order k that starts at page p: a free list, a caller
\* or the call in progress.
Has(who, p, k) ==
  \/ who = "free" /\ p \in freelist[k]
  \/ who = "live" /\ <<p, k>> \in live
  \/ who = "held" /\ call.op # "none" /\ call.page = p /\ call.order = k

Owned == {o \in {"free", "live", "held"} \X Pages \X Orders : Has(o[1], o[2], o[3])}

\* No page of a block on a free list belongs to a block a caller holds: what
\* buddy.h:32-34 says of the pages of an order ("2^1 pages(consequent) are
\* free").
FreeBlocksAreFree ==
  \A k \in Orders : \A p \in freelist[k] : \A l \in live :
    Apart(p, k, l[1], l[2])

\* No page is in two blocks, whoever has them: memory handed out twice, or
\* handed out and still on a list, would break this.
NoOverlap ==
  LET owned == Owned
  IN  \A x, y \in owned : x # y => Apart(x[2], x[3], y[2], y[3])

\* No page init_buddy put in is lost: each is free, held by a caller, or in
\* the hands of the call in progress.
NoLeak ==
  LET owned == Owned
  IN  \A p \in 0 .. fed - 1 : \E x \in owned : p \in Block(x[2], x[3])

\* Every block is naturally aligned and inside the managed range, so that the
\* struct page at page_idx ^ (1 << bplevel), which the loop of __free_pages
\* reads, is one of the array.
Aligned ==
  \A x \in Owned : IsBlock(x[2], x[3])

\* The bplevel of the first page of a block is the order of the block.  The
\* merge test relies on it for free blocks, kfree (slab.c:214) for held ones.
LevelsAgree ==
  /\ \A k \in Orders : \A p \in freelist[k] : bplevel[p] = k
  /\ \A l \in live : bplevel[l[1]] = l[2]

\* Both: what the arithmetic of the merge loop and the callers read off a block.
WellFormed == Aligned /\ LevelsAgree

\* nr_free[k] counts the list of order k: it never goes below zero, where the
\* unsigned counter of the code would wrap.
CountsAgree ==
  \A k \in Orders : nr_free[k] = Cardinality(freelist[k])

\* Coalescing is complete: two free buddies of one order never stay apart, so
\* when every block is given back all the memory is in blocks of MaxOrder.
Coalesced ==
  \A k \in 0 .. MaxOrder - 1 : \A p \in freelist[k] : BuddyOf(p, k) \notin freelist[k]

Promise == INSTANCE PageAlloc

\* The allocator does what its callers count on: each block returned is aligned
\* and has no page in common with a block still held.
PageAllocSpec == Promise!Spec
=============================================================================
