------------------------------- MODULE Slab --------------------------------
(***************************************************************************)
(* The slab allocator, kernel/mm/slab.c, over the promise of the page      *)
(* allocator (PageAlloc).  Addresses inside a page are offsets; an object  *)
(* is <<page, offset, cache, n>>, the n-th its page handed out.            *)
(*                                                                         *)
(* slab_free is not modelled because it is never entered: kfree asks       *)
(* whether the flag word is exactly _PAGE_SLAB (slab.c:213), but set_flag  *)
(* only adds bits and every page handed out has _PAGE_ALLOCED as well      *)
(* (buddy.c:146).  So node.partial stays empty, and slabp, which is only   *)
(* read back for a page taken off that list, is left out.                  *)
(***************************************************************************)
EXTENDS Integers, FiniteSets

CONSTANTS
  MaxOrder, NPages, Size,  \* the page allocator's
  PageSize,                \* 1 << PAGE_SHIFT, in bytes
  Word,                    \* SIZE_INT and sizeof(void *)
  Header,                  \* sizeof(struct slab_head)
  SizeKmem,                \* size_kmem_cache
  Requests                 \* the sizes callers ask for

VARIABLES
  live,     \* the blocks of pages __alloc_pages has handed out
  word,     \* word[p][o]: the link stored at offset o of page p
  nr_objs,  \* slab_head.nr_objs of page p
  cpu,      \* kmem_cache.cpu of each cache: the page and freeobj
  full,     \* kmem_cache.node.full of each cache, as a set
  call,     \* the call of slab_alloc in progress: its cache
  objs,     \* the objects callers hold
  blocks,   \* the blocks of pages callers hold: <<page, order, bytes asked for>>
  halted    \* why the kernel loops for ever, or "no"

vars == <<live, word, nr_objs, cpu, full, call, objs, blocks, halted>>

Buddy == INSTANCE PageAlloc

Pages   == Buddy!Pages
Caches  == DOMAIN SizeKmem
Offsets == 0 .. PageSize
Junk    == -1   \* what a caller may have written
Null    == -1   \* a null page or freeobj
NoCache == 0

\* Variant: no room for the word after the object.
StrideNoMark(c) == ((SizeKmem[c] + Word - 1) \div Word) * Word

\* init_each_slab: objsize, rounded up to words, and size (which is also offset).
ObjSize(c) == ((SizeKmem[c] + Word - 1) \div Word) * Word
Stride(c)  == ObjSize(c) + Word

\* How often the loop of format_slabpage is run: as often as a slot fits, at
\* least once.
Slots(c) == IF Stride(c) > PageSize THEN 1 ELSE PageSize \div Stride(c)

\* The offset of end_ptr.
EndPtr(c) == Slots(c) * Stride(c)

Last == CHOOSE c \in Caches : \A d \in Caches : d <= c

\* The machine: pages are made of words, an even number of them, and a slab_head
\* is two words.  In the code: 4096, 4 and 8 bytes.
ASSUME PageAssumption ==
  /\ NPages \in Nat /\ Header \in Nat
  /\ Word \in Nat \ {0} /\ PageSize \in Nat
  /\ \E m \in 1 .. PageSize : PageSize = 2 * (m * Word)
  /\ Header <= 2 * Word

ASSUME SizeAssumption ==
  /\ MaxOrder \in Nat
  /\ \A k \in Buddy!Orders : Size[k] \in Nat
  /\ Size[0] = 1
  /\ \A k \in 1 .. MaxOrder : Size[k] = 2 * Size[k - 1]

\* Of the sizes in size_kmem_cache, none makes slots that fill a page exactly: end_ptr
\* would be past the page.
ASSUME CacheAssumption ==
  /\ Caches \subseteq Nat \ {0}
  /\ \A c \in Caches : SizeKmem[c] \in Nat \ {0} /\ PageSize % (ObjSize(c) + Word) # 0

ASSUME RequestsAssumption == Requests \subseteq Nat

Init ==
  /\ live = {}
  /\ word = [p \in Pages |-> [o \in Offsets |-> Junk]]
  /\ nr_objs = [p \in Pages |-> 0]
  /\ cpu = [c \in Caches |-> [page |-> Null, freeobj |-> Null]]
  /\ full = [c \in Caches |-> {}]
  /\ call = NoCache
  /\ objs = {}
  /\ blocks = {}
  /\ halted = "no"

\* Variant: the cache of half a page counts as fitting.
GetSlabHalfToo(size) ==
  LET fits == {c \in Caches : ObjSize(c) >= size /\ ObjSize(c) <= PageSize \div 2}
  IN  IF fits = {} THEN NoCache
      ELSE CHOOSE c \in fits : \A d \in fits : ObjSize(c) <= ObjSize(d)

\* get_slab: the smallest cache that fits, among those below half a page.
GetSlab(size) ==
  LET fits == {c \in Caches : ObjSize(c) >= size /\ ObjSize(c) < PageSize \div 2}
  IN  IF fits = {} THEN NoCache
      ELSE CHOOSE c \in fits : \A d \in fits : ObjSize(c) <= ObjSize(d)

Ready == call = NoCache /\ halted = "no"

\* kmalloc of an object: get_slab, then slab_alloc is entered.
KmallocObject(size) ==
  /\ Ready
  /\ size <= ObjSize(Last)
  /\ IF GetSlab(size) = NoCache
     THEN halted' = "no available slab" /\ UNCHANGED call
     ELSE call' = GetSlab(size) /\ UNCHANGED halted
  /\ UNCHANGED <<live, word, nr_objs, cpu, full, objs, blocks>>

\* The object that *(cache->cpu.freeobj) points to; is_bound holds of 0.
Object(c) ==
  IF cpu[c].freeobj = Null THEN 0 ELSE word[cpu[c].page][cpu[c].freeobj]

\* The page slab_alloc leaves goes to node.full.
FullWithCpu(c) ==
  IF cpu[c].page = Null THEN full ELSE [full EXCEPT ![c] = @ \cup {cpu[c].page}]

\* slab_alloc finds no object: a page from the page allocator is formatted.
\* Each slot's first word points to itself, the word at end_ptr to the page.
NewPage(p) ==
  /\ call # NoCache
  /\ halted = "no"
  /\ Object(call) = 0
  /\ Buddy!Alloc(p, 0)
  /\ word' = [word EXCEPT ![p] = [o \in Offsets |->
       IF o = EndPtr(call) THEN 0
       ELSE IF o \in 1 .. EndPtr(call) /\ o % Stride(call) = 0 THEN o ELSE @[o]]]
  /\ nr_objs' = [nr_objs EXCEPT ![p] = 0]
  /\ full' = FullWithCpu(call)
  /\ cpu' = [cpu EXCEPT ![call] = [page |-> p, freeobj |-> Stride(call)]]
  /\ UNCHANGED <<call, objs, blocks, halted>>

\* "memory in system is used up"
NoMorePages ==
  /\ call # NoCache
  /\ halted = "no"
  /\ Object(call) = 0
  /\ ~ \E p \in Pages : Buddy!Available(p, 0)
  /\ full' = FullWithCpu(call)
  /\ halted' = "memory used up"
  /\ UNCHANGED <<live, word, nr_objs, cpu, call, objs, blocks>>

\* Variant: freeobj stays where it is.
TakeStays ==
  /\ call # NoCache
  /\ halted = "no"
  /\ Object(call) # 0
  /\ LET p == cpu[call].page
     IN  /\ nr_objs' = [nr_objs EXCEPT ![p] = @ + 1]
         /\ objs' = objs \cup {<<p, Object(call), call, nr_objs'[p]>>}
  /\ call' = NoCache
  /\ UNCHANGED <<live, word, cpu, full, blocks, halted>>

\* slalloc_normal to the end: the object is handed out, whose caller may write
\* anything into it; a page without further objects goes to node.full.
TakeObject ==
  /\ call # NoCache
  /\ halted = "no"
  /\ Object(call) # 0
  /\ LET p == cpu[call].page
         o == Object(call)
         next == o + Stride(call)
         wrote == o .. o + ObjSize(call) - 1
     IN  /\ nr_objs' = [nr_objs EXCEPT ![p] = @ + 1]
         /\ objs' = objs \cup {<<p, o, call, nr_objs'[p]>>}
         /\ word' = [word EXCEPT ![p] = [x \in Offsets |-> IF x \in wrote THEN Junk ELSE @[x]]]
         /\ IF word[p][next] = 0
            THEN /\ full' = [full EXCEPT ![call] = @ \cup {p}]
                 /\ cpu' = [cpu EXCEPT ![call] = [page |-> Null, freeobj |-> Null]]
            ELSE /\ cpu' = [cpu EXCEPT ![call] = [page |-> p, freeobj |-> next]]
                 /\ UNCHANGED full
  /\ call' = NoCache
  /\ UNCHANGED <<live, blocks, halted>>

\* The argument of alloc_pages: the number of pages, taken there as an order.
Order(size) == (size + PageSize - 1) \div PageSize

\* kmalloc of pages.  When there is no such block, or no such order, the
\* caller gets KERNEL_ENTRY | 0 and nothing changes.
KmallocPages(size) ==
  /\ Ready
  /\ size > ObjSize(Last)
  /\ Order(size) \in Buddy!Orders
  /\ \E p \in Pages :
       /\ Buddy!Alloc(p, Order(size))
       /\ blocks' = blocks \cup {<<p, Order(size), size>>}
  /\ UNCHANGED <<word, nr_objs, cpu, full, call, objs, halted>>

\* kfree of a block of pages: free_pages with the bplevel of its first page,
\* which is the order of the block (Buddy, LevelsAgree).
KfreePages(b) ==
  /\ Ready
  /\ b \in blocks
  /\ blocks' = blocks \ {b}
  /\ Buddy!Free(b[1], b[2])
  /\ UNCHANGED <<word, nr_objs, cpu, full, call, objs, halted>>

\* kfree of an object: not slab_free, but free_pages with bplevel 0 of the
\* object's whole page.
KfreeObject(o) ==
  /\ Ready
  /\ o \in objs
  /\ objs' = objs \ {o}
  /\ Buddy!Free(o[1], 0)
  /\ UNCHANGED <<word, nr_objs, cpu, full, call, blocks, halted>>

Next ==
  \/ \E size \in Requests : KmallocObject(size)
  \/ \E p \in Pages : NewPage(p)
  \/ NoMorePages
  \/ TakeObject
  \/ \E size \in Requests : KmallocPages(size)
  \/ \E b \in blocks : KfreePages(b)

\* Objects are never given back.
Spec == Init /\ [][Next]_vars

\* Objects are given back too.
KfreeSpec == Init /\ [][Next \/ \E o \in objs : KfreeObject(o)]_vars

----------------------------------------------------------------------------
\* The bytes [first, past the last) of an object and of a block of pages.
ObjectBytes(o) == <<o[1] * PageSize + o[2], o[1] * PageSize + o[2] + ObjSize(o[3])>>
BlockBytes(b)  == <<b[1] * PageSize, (b[1] + Size[b[2]]) * PageSize>>

Separate(x, y) == x[2] <= y[1] \/ y[2] <= x[1]

\* What kmalloc returned is never shared: objects and blocks of pages have no
\* byte in common with each other, nor objects with the slab_head of a page
\* that a cache uses, no object leaves its page, and a block of pages is as large as what
\* was asked for, although kmalloc takes a number of pages for an order.
MemoryApart ==
  /\ \A x, y \in objs : x # y => Separate(ObjectBytes(x), ObjectBytes(y))
  /\ \A x, y \in blocks : x # y => Separate(BlockBytes(x), BlockBytes(y))
  /\ \A x \in objs, y \in blocks : Separate(ObjectBytes(x), BlockBytes(y))
  /\ \A x \in objs : x[2] >= Header /\ x[2] + ObjSize(x[3]) <= PageSize
  /\ \A b \in blocks : Size[b[2]] * PageSize >= b[3]

\* The links slab_alloc has yet to follow are intact: they are inside the
\* page, a caller's writes cannot reach them, and they end at end_ptr.
LinksIntact ==
  \A c \in Caches : cpu[c].page # Null =>
    LET p == cpu[c].page
    IN  /\ EndPtr(c) + Word <= PageSize
        /\ word[p][EndPtr(c)] = 0
        /\ \A o \in cpu[c].freeobj .. EndPtr(c) - 1 :
             o % Stride(c) = 0 => word[p][o] = o

\* No page gets lost: every page handed out is a caller's block, the cpu page
\* of one cache or on one list of full pages; and the pages on these lists
\* have handed out one object at least and have no room for another.
PagesAccounted ==
  LET used == [c \in Caches |-> full[c] \cup ({cpu[c].page} \ {Null})]
  IN  /\ live = {<<b[1], b[2]>> : b \in blocks} \cup
                {<<p, 0>> : p \in UNION {used[c] : c \in Caches}}
      /\ \A c \in Caches : cpu[c].page \notin full[c]
      /\ \A c, d \in Caches : c # d => used[c] \cap used[d] = {}
      /\ \A c \in Caches : \A p \in full[c] : nr_objs[p] = Slots(c) - 1 /\ nr_objs[p] > 0

\* slab_head keeps "the numbers of memory segments that has been allocated"
\* (slab.h:15), for the pages the caches have.
NrObjsIsAllocated ==
  \A c \in Caches : \A p \in full[c] \cup ({cpu[c].page} \ {Null}) :
    nr_objs[p] = Cardinality({o \in objs : o[1] = p})
=============================================================================
