----------------------------- MODULE SlabProofs -----------------------------
(***************************************************************************)
(* What kmalloc hands out is never shared and the links of the free        *)
(* objects are intact: proofs for any number of pages and caches, any page *)
(* size and any sizes that do not fill a page exactly.                     *)
(***************************************************************************)
EXTENDS Slab, NaturalsInduction, WellFoundedInduction, TLAPS

\* get_slab only returns such a cache.
Usable(c) == ObjSize(c) < PageSize \div 2

\* The pages of a cache, and of all.
Used(c) == full[c] \cup ({cpu[c].page} \ {Null})
AllUsed == UNION {Used(c) : c \in Caches}

Typed ==
  /\ word \in [Pages -> [Offsets -> Int]]
  /\ nr_objs \in [Pages -> Nat]
  /\ cpu \in [Caches -> [page : Pages \cup {Null}, freeobj : Int]]
  /\ full \in [Caches -> SUBSET Pages]
  /\ call \in Caches \cup {NoCache}
  /\ call # NoCache => Usable(call)
  /\ blocks \subseteq Pages \X Buddy!Orders \X Nat
  /\ objs \subseteq Pages \X Nat \X Caches \X Nat

\* The page that a cache takes objects from has one left, which freeobj points to.
CpuOK ==
  \A c \in Caches :
    IF cpu[c].page = Null THEN cpu[c].freeobj = Null
    ELSE /\ Usable(c)
         /\ nr_objs[cpu[c].page] + 2 <= Slots(c)
         /\ cpu[c].freeobj = (nr_objs[cpu[c].page] + 1) * Stride(c)

FullOK ==
  \A c \in Caches : \A p \in full[c] :
    /\ p # cpu[c].page
    /\ Usable(c)
    /\ nr_objs[p] + 1 = Slots(c)

\* No page has two users.
PagesApart ==
  /\ \A c, d \in Caches : \A p \in Used(c) : p \in Used(d) => c = d
  /\ \A c \in Caches : \A p \in Used(c) : \A b \in blocks : Buddy!Apart(p, 0, b[1], b[2])
  /\ \A a, b \in blocks : a # b => Buddy!Apart(a[1], a[2], b[1], b[2])

Accounted ==
  live = {<<b[1], b[2]>> : b \in blocks} \cup {<<p, 0>> : p \in AllUsed}

LargeEnough == \A b \in blocks : b[3] <= Size[b[2]] * PageSize

\* The n-th object of a page is in its n-th slot.
ObjsOK ==
  \A o \in objs :
    /\ o[1] \in Used(o[3])
    /\ 1 <= o[4] /\ o[4] <= nr_objs[o[1]]
    /\ o[2] = o[4] * Stride(o[3])

IInv ==
  /\ Typed
  /\ CpuOK
  /\ LinksIntact
  /\ FullOK
  /\ PagesApart
  /\ Accounted
  /\ LargeEnough
  /\ ObjsOK

----------------------------------------------------------------------------
(* Arithmetic *)

LEMMA ScaleLeq ==
  ASSUME NEW a \in Int, NEW b \in Int, NEW s \in Nat, a <= b
  PROVE  a * s <= b * s
<1>1. (b - a) * s >= 0
  OBVIOUS
<1>2. (b - a) * s = b * s - a * s
  OBVIOUS
<1> QED BY <1>1, <1>2

LEMMA CancelLess ==
  ASSUME NEW a \in Int, NEW b \in Int, NEW s \in Nat, a * s < b * s
  PROVE  a + 1 <= b
<1>1. SUFFICES ASSUME b <= a PROVE FALSE
  OBVIOUS
<1> QED BY <1>1, ScaleLeq

LEMMA MultipleIsMultiple ==
  ASSUME NEW k \in Nat, NEW s \in Nat \ {0}
  PROVE  (k * s) % s = 0
<1> DEFINE d == (k * s) \div s
           r == (k * s) % s
<1>1. d \in Int /\ r \in 0 .. s - 1 /\ k * s = s * d + r
  BY k * s \in Int
<1> HIDE DEF d, r
<1>2. (k - d) * s = r
  BY <1>1
<1>3. CASE k - d >= 1
  <2>1. 1 * s <= (k - d) * s
    BY <1>1, <1>3, ScaleLeq
  <2> QED BY <1>1, <1>2, <2>1
<1>4. CASE k - d <= -1
  <2>1. (k - d) * s <= (-1) * s
    BY <1>1, <1>4, ScaleLeq
  <2> QED BY <1>1, <1>2, <2>1
<1>5. CASE k - d = 0
  BY <1>1, <1>2, <1>5 DEF r
<1> QED BY <1>1, <1>3, <1>4, <1>5

\* The quotient and the rest.
LEMMA DivFacts ==
  ASSUME NEW x \in Nat, NEW s \in Nat \ {0}
  PROVE  /\ x \div s \in Nat /\ x % s \in 0 .. s - 1
         /\ x = (x \div s) * s + (x % s)
<1> DEFINE q == x \div s
           r == x % s
<1>1. q \in Int /\ r \in 0 .. s - 1 /\ x = s * q + r
  OBVIOUS
<1> HIDE DEF q, r
<1>2. s * q = q * s
  BY <1>1
<1>3. ASSUME q <= -1 PROVE FALSE
  <2>1. q * s <= (-1) * s
    BY <1>1, <1>3, ScaleLeq
  <2>2. PICK z \in Int : z = q * s
    BY <1>1
  <2>3. z <= -s
    BY <2>1, <2>2
  <2>4. z + r >= 0
    BY <1>1, <1>2, <2>2
  <2> QED BY <1>1, <2>3, <2>4
<1>4. q \in Nat /\ r \in 0 .. s - 1 /\ x = q * s + r
  BY <1>1, <1>2, <1>3
<1> QED BY <1>4 DEF q, r

Less == {xy \in Nat \X Nat : xy[1] < xy[2]}

LEMMA Smallest ==
  ASSUME NEW S, S \subseteq Nat, S # {}
  PROVE  \E m \in S : \A x \in S : m <= x
<1>1. IsWellFoundedOn(Less, Nat)
  BY NatLessThanWellFounded DEF OpToRel, Less
<1>2. PICK m \in S : \A x \in S : ~(<<x, m>> \in Less)
  BY <1>1, WFMin
<1>3. \A x, y \in Nat : x < y => <<x, y>> \in Less
  BY DEF Less
<1>4. ASSUME NEW x \in S PROVE m <= x
  <2>1. ~(x < m)
    BY <1>2, <1>3
  <2> QED BY <2>1
<1> QED BY <1>4

\* A block of order k has at least k pages.
LEMMA SizeFacts ==
  ASSUME NEW k \in Buddy!Orders
  PROVE  Size[k] \in Nat /\ Size[k] >= 1 /\ k <= Size[k] /\ Size[0] = 1 /\ 0 \in Buddy!Orders
<1> DEFINE Bad == {j \in Buddy!Orders : ~(Size[j] >= j + 1)}
<1>1. ASSUME Bad # {} PROVE FALSE
  <2>1. PICK j \in Bad : \A x \in Bad : j <= x
    <3>1. Bad \subseteq Nat
      BY SizeAssumption DEF Buddy!Orders
    <3> QED BY <1>1, <3>1, Smallest
  <2>2. j \in Nat /\ j # 0 /\ j \in 1 .. MaxOrder
    BY SizeAssumption DEF Buddy!Orders
  <2>3. j - 1 \in Buddy!Orders /\ j - 1 \notin Bad
    BY <2>1, <2>2, SizeAssumption DEF Buddy!Orders
  <2>4. Size[j - 1] >= j /\ Size[j - 1] \in Nat
    BY <2>2, <2>3, SizeAssumption
  <2>5. Size[j] = 2 * Size[j - 1]
    BY <2>2, SizeAssumption
  <2> QED BY <2>2, <2>4, <2>5
<1>2. Size[k] \in Nat /\ k \in Nat /\ Size[0] = 1 /\ 0 \in Buddy!Orders
  BY SizeAssumption DEF Buddy!Orders
<1>3. Size[k] >= k + 1
  BY <1>1
<1> QED BY <1>2, <1>3

----------------------------------------------------------------------------
(* Slots *)

\* A page has room for two slots of a usable cache at least, and a word more
\* behind the last; an object begins behind the slab_head and ends before the
\* link of the next.
LEMMA SlotFacts ==
  ASSUME NEW c \in Caches, Usable(c)
  PROVE  /\ ObjSize(c) \in Nat /\ Stride(c) \in Nat /\ Slots(c) \in Nat
         /\ ObjSize(c) >= 1 /\ Stride(c) = ObjSize(c) + Word
         /\ Stride(c) >= Header
         /\ Slots(c) >= 2
         /\ EndPtr(c) \in Nat /\ EndPtr(c) = Slots(c) * Stride(c)
         /\ EndPtr(c) + Word <= PageSize
<1> DEFINE w == Word
           a == (SizeKmem[c] + w - 1) \div w
           s == Stride(c)
           n == PageSize \div s
<1>1. w \in Nat /\ w >= 1 /\ SizeKmem[c] \in Nat /\ SizeKmem[c] >= 1 /\ PageSize \in Nat
  BY PageAssumption, CacheAssumption
<1>2. PICK m \in Nat : PageSize = 2 * (m * w)
  BY PageAssumption
<1>3. m * w \in Nat /\ PageSize \div 2 = m * w
  BY <1>1, <1>2
<1>4. /\ a \in Nat
      /\ SizeKmem[c] + w - 1 = a * w + ((SizeKmem[c] + w - 1) % w)
      /\ (SizeKmem[c] + w - 1) % w \in 0 .. w - 1
  <2>1. PICK x \in Nat : x = SizeKmem[c] + w - 1
    BY <1>1
  <2>2. w \in Nat \ {0}
    BY <1>1
  <2>3. x \div w \in Nat /\ x = (x \div w) * w + (x % w) /\ x % w \in 0 .. w - 1
    BY <2>2, DivFacts
  <2> QED BY <2>1, <2>3
<1>5. a >= 1
  <2> HIDE DEF a
  <2>1. CASE a = 0
    <3>1. a * w = 0
      BY <1>1, <2>1
    <3>2. PICK r \in 0 .. w - 1 : SizeKmem[c] + w - 1 = r
      BY <1>1, <1>4, <3>1
    <3> QED BY <1>1, <3>2
  <2> QED BY <1>4, <2>1
<1>6. ObjSize(c) = a * w /\ s = a * w + w
  BY DEF ObjSize, Stride
<1> HIDE DEF a
<1>7. a * w \in Nat /\ a * w >= w
  <2>1. 1 * w <= a * w
    BY <1>1, <1>4, <1>5, ScaleLeq
  <2> QED BY <1>1, <1>4, <2>1
<1>8. a * w < m * w
  BY <1>3, <1>6 DEF Usable
<1>9. s <= m * w
  <2>1. a + 1 <= m
    BY <1>1, <1>4, <1>8, CancelLess
  <2>2. (a + 1) * w <= m * w
    BY <1>1, <1>4, <2>1, ScaleLeq
  <2>3. (a + 1) * w = a * w + w
    BY <1>1, <1>4
  <2> QED BY <1>6, <2>2, <2>3
<1>10. s \in Nat /\ s >= 1 /\ PageSize >= 2 * s /\ s <= PageSize
  BY <1>1, <1>2, <1>3, <1>6, <1>7, <1>9
<1>11. Slots(c) = n /\ EndPtr(c) = n * s
  BY <1>1, <1>10 DEF Slots, EndPtr
<1>12. /\ n \in Nat /\ PageSize = n * s + (PageSize % s) /\ PageSize % s \in 0 .. s - 1
  <2>1. s \in Nat \ {0} /\ PageSize \in Nat
    BY <1>1, <1>10
  <2> HIDE DEF s
  <2> QED BY <2>1, DivFacts
<1>13. PageSize % s # 0
  BY CacheAssumption DEF Stride
<1> HIDE DEF n, s
<1>14. n >= 2
  <2> SUFFICES ASSUME n <= 1 PROVE FALSE
    BY <1>12
  <2>1. n * s <= 1 * s
    BY <1>10, <1>12, ScaleLeq
  <2> QED BY <1>1, <1>10, <1>12, <2>1
<1>15. n * s \in Nat /\ n * s < PageSize
  <2>1. PICK z \in Nat : z = n * s
    BY <1>10, <1>12
  <2>2. PICK r \in Nat : r = PageSize % s /\ r # 0
    BY <1>10, <1>12, <1>13
  <2>3. PageSize = z + r
    BY <1>12, <2>1, <2>2
  <2>4. z < PageSize
    BY <2>2, <2>3
  <2> QED BY <2>1, <2>4
<1>16. n * s + w <= PageSize
  <2>1. n * s = (n * (a + 1)) * w
    BY <1>1, <1>4, <1>6, <1>12
  <2>2. PageSize = (2 * m) * w
    BY <1>1, <1>2
  <2>3. n * (a + 1) \in Int /\ 2 * m \in Int
    BY <1>4, <1>12
  <2>4. n * (a + 1) + 1 <= 2 * m
    BY <1>1, <1>15, <2>1, <2>2, <2>3, CancelLess
  <2>5. (n * (a + 1) + 1) * w <= (2 * m) * w
    BY <1>1, <2>3, <2>4, ScaleLeq
  <2>6. (n * (a + 1) + 1) * w = (n * (a + 1)) * w + w
    BY <1>1, <2>3
  <2>7. PICK z \in Int : z = (n * (a + 1)) * w
    BY <1>1, <2>3
  <2>8. z + w <= PageSize
    BY <2>2, <2>5, <2>6, <2>7
  <2> QED BY <2>1, <2>7, <2>8
<1>17. s >= Header
  BY <1>1, <1>6, <1>7, PageAssumption
<1> QED BY <1>1, <1>6, <1>7, <1>10, <1>11, <1>12, <1>14, <1>15, <1>16, <1>17 DEF s

\* The slots follow each other.
LEMMA SlotOrder ==
  ASSUME NEW c \in Caches, Usable(c), NEW k \in Nat, k + 1 <= Slots(c)
  PROVE  /\ k * Stride(c) \in Nat
         /\ (k * Stride(c)) % Stride(c) = 0
         /\ (k + 1) * Stride(c) = k * Stride(c) + Stride(c)
         /\ (k + 1) * Stride(c) <= EndPtr(c)
         /\ (k + 1) * Stride(c) = EndPtr(c) <=> k + 1 = Slots(c)
<1> DEFINE s == Stride(c)
           n == Slots(c)
<1>1. s \in Nat /\ s >= 1 /\ n \in Nat /\ EndPtr(c) = n * s
  BY SlotFacts, PageAssumption
<1> HIDE DEF s, n
<1>2. (k * s) % s = 0
  BY <1>1, MultipleIsMultiple
<1>3. k * s \in Nat /\ (k + 1) * s = k * s + s
  BY <1>1
<1>4. (k + 1) * s <= n * s
  BY <1>1, ScaleLeq DEF n
<1>5. ASSUME (k + 1) * s = n * s PROVE k + 1 = n
  <2> SUFFICES ASSUME (k + 1) + 1 <= n PROVE FALSE
    BY <1>1 DEF n
  <2>1. ((k + 1) + 1) * s <= n * s
    BY <1>1, ScaleLeq
  <2>2. ((k + 1) + 1) * s = (k + 1) * s + s
    BY <1>1
  <2> QED BY <1>1, <1>3, <1>5, <2>1, <2>2
<1> QED BY <1>1, <1>2, <1>3, <1>4, <1>5 DEF s, n

\* get_slab finds the smallest of the caches that fit.
LEMMA GetSlabFacts ==
  ASSUME NEW size \in Nat, GetSlab(size) # NoCache
  PROVE  GetSlab(size) \in Caches /\ Usable(GetSlab(size))
<1> DEFINE fits == {c \in Caches : ObjSize(c) >= size /\ ObjSize(c) < PageSize \div 2}
           sizes == {ObjSize(c) : c \in fits}
<1>1. fits # {} /\ GetSlab(size) = CHOOSE c \in fits : \A d \in fits : ObjSize(c) <= ObjSize(d)
  BY DEF GetSlab
<1>2. \A c \in fits : ObjSize(c) \in Nat
  BY SlotFacts DEF Usable
<1>3. PICK x \in sizes : \A y \in sizes : x <= y
  <2>1. sizes \subseteq Nat /\ sizes # {}
    BY <1>1, <1>2
  <2> HIDE DEF sizes
  <2> QED BY <2>1, Smallest
<1>4. \E c \in fits : \A d \in fits : ObjSize(c) <= ObjSize(d)
  BY <1>3
<1>5. GetSlab(size) \in fits
  BY <1>1, <1>4
<1> QED BY <1>5 DEF Usable

\* A number of pages is an order of at least that many pages.
LEMMA OrderIsEnough ==
  ASSUME NEW size \in Nat, Order(size) \in Buddy!Orders
  PROVE  size <= Size[Order(size)] * PageSize
<1>1. PageSize \in Nat \ {0}
  BY PageAssumption
<1>2. PICK x \in Nat : x = size + PageSize - 1
  BY <1>1
<1>3. PICK q \in Nat : q = Order(size)
  BY SizeAssumption DEF Buddy!Orders
<1>4. q = x \div PageSize
  BY <1>2, <1>3 DEF Order
<1>5. x = q * PageSize + (x % PageSize) /\ x % PageSize \in 0 .. PageSize - 1
  BY <1>1, <1>4, DivFacts
<1>6. q * PageSize <= Size[q] * PageSize
  BY <1>1, <1>3, SizeFacts, ScaleLeq
<1>7. PICK z \in Nat : z = q * PageSize
  BY <1>1
<1>8. size <= z
  BY <1>1, <1>2, <1>5, <1>7
<1>9. PICK y \in Nat : y = Size[q] * PageSize
  BY <1>1, <1>3, SizeFacts
<1>10. size <= y
  BY <1>6, <1>7, <1>8, <1>9
<1> QED BY <1>3, <1>9, <1>10

----------------------------------------------------------------------------
(* The invariant is kept *)

\* Where a cache stands: without a page there is no object to take; with one
\* the object is the slot behind those handed out, and not the last slot.
LEMMA ObjectFacts ==
  ASSUME Typed, CpuOK, LinksIntact, NEW c \in Caches
  PROVE  /\ cpu[c].page = Null => Object(c) = 0
         /\ cpu[c].page # Null =>
              /\ cpu[c].page \in Pages /\ cpu[c].page \in Used(c) /\ Usable(c)
              /\ nr_objs[cpu[c].page] \in Nat
              /\ nr_objs[cpu[c].page] + 2 <= Slots(c)
              /\ Object(c) = (nr_objs[cpu[c].page] + 1) * Stride(c)
              /\ Object(c) = cpu[c].freeobj
              /\ Object(c) # 0
<1>1. CASE cpu[c].page = Null
  BY <1>1 DEF CpuOK, Object
<1>2. CASE cpu[c].page # Null
  <2> DEFINE p == cpu[c].page
             k == nr_objs[p] + 1
  <2>1. /\ p \in Pages /\ p \in Used(c) /\ Usable(c)
        /\ nr_objs[p] \in Nat /\ nr_objs[p] + 2 <= Slots(c)
        /\ cpu[c].freeobj = k * Stride(c)
    BY <1>2 DEF Typed, CpuOK, Used
  <2>2. Slots(c) \in Nat /\ Stride(c) \in Nat /\ Stride(c) >= 1 /\ EndPtr(c) \in Nat
    BY <2>1, SlotFacts, PageAssumption
  <2>3. PICK n \in Nat : n = k
    BY <2>1
  <2>4. n + 1 <= Slots(c) /\ n >= 1
    BY <2>1, <2>2, <2>3
  <2>5. PICK f \in Nat : f = n * Stride(c)
    BY <2>2
  <2>6. f % Stride(c) = 0 /\ f + Stride(c) <= EndPtr(c)
    BY <2>1, <2>4, <2>5, SlotOrder
  <2>7. f >= 1
    <3>1. 1 * Stride(c) <= n * Stride(c)
      BY <2>2, <2>4, ScaleLeq
    <3> QED BY <2>2, <2>5, <3>1
  <2>8. cpu[c].freeobj = f
    BY <2>1, <2>3, <2>5
  <2>9. f \in cpu[c].freeobj .. EndPtr(c) - 1
    BY <2>2, <2>6, <2>8
  <2>10. word[p][f] = f
    BY <1>2, <2>6, <2>9 DEF LinksIntact
  <2>11. Object(c) = f
    BY <2>7, <2>8, <2>10 DEF Object, Null
  <2> QED BY <1>2, <2>1, <2>3, <2>5, <2>7, <2>8, <2>11
<1> QED BY <1>1, <1>2

LEMMA InitIInv == Init => IInv
<1> SUFFICES ASSUME Init PROVE IInv
  OBVIOUS
<1>1. \A c \in Caches : cpu[c] = [page |-> Null, freeobj |-> Null] /\ full[c] = {}
  BY DEF Init
<1>2. \A c \in Caches : Used(c) = {}
  BY <1>1 DEF Used
<1>3. Typed
  BY DEF Init, Typed, Junk, Null
<1>4. CpuOK /\ LinksIntact
  BY <1>1 DEF CpuOK, LinksIntact
<1>5. FullOK /\ PagesApart
  BY <1>1, <1>2 DEF FullOK, PagesApart, Init
<1>6. Accounted
  BY <1>2 DEF Accounted, AllUsed, Init
<1>7. LargeEnough /\ ObjsOK
  BY DEF LargeEnough, ObjsOK, Init
<1> QED BY <1>3, <1>4, <1>5, <1>6, <1>7 DEF IInv

\* Steps that leave the memory alone.
LEMMA CallIInv ==
  ASSUME IInv, UNCHANGED <<live, word, nr_objs, cpu, full, objs, blocks>>,
         call' \in Caches \cup {NoCache}, call' # NoCache => Usable(call')
  PROVE  IInv'
<1>1. Typed'
  BY DEF IInv, Typed
<1>2. CpuOK' /\ LinksIntact' /\ FullOK'
  BY DEF IInv, CpuOK, LinksIntact, FullOK
<1>3. PagesApart' /\ Accounted'
  BY DEF IInv, PagesApart, Accounted, AllUsed, Used
<1>4. LargeEnough' /\ ObjsOK'
  BY DEF IInv, LargeEnough, ObjsOK, Used
<1> QED BY <1>1, <1>2, <1>3, <1>4 DEF IInv

LEMMA KmallocObjectIInv ==
  ASSUME IInv, NEW size \in Requests, KmallocObject(size)
  PROVE  IInv'
<1>1. size \in Nat
  BY RequestsAssumption
<1>2. CASE GetSlab(size) = NoCache
  <2>1. UNCHANGED <<live, word, nr_objs, cpu, full, objs, blocks, call>>
    BY <1>2 DEF KmallocObject
  <2>2. call' \in Caches \cup {NoCache} /\ (call' # NoCache => Usable(call'))
    BY <2>1 DEF IInv, Typed
  <2> QED BY <2>1, <2>2, CallIInv
<1>3. CASE GetSlab(size) # NoCache
  <2>1. UNCHANGED <<live, word, nr_objs, cpu, full, objs, blocks>> /\ call' = GetSlab(size)
    BY <1>3 DEF KmallocObject
  <2>2. call' \in Caches /\ Usable(call')
    BY <1>1, <1>3, <2>1, GetSlabFacts
  <2> QED BY <2>1, <2>2, CallIInv
<1> QED BY <1>2, <1>3

\* slab_alloc only asks for a page when its cache has none: the page it leaves
\* was put on node.full by the call that took its last object.
LEMMA NothingToLeave ==
  ASSUME IInv, call # NoCache, Object(call) = 0
  PROVE  call \in Caches /\ Usable(call) /\ cpu[call].page = Null /\ FullWithCpu(call) = full
<1>1. call \in Caches /\ Usable(call)
  BY DEF IInv, Typed
<1>2. cpu[call].page = Null
  BY <1>1, ObjectFacts DEF IInv
<1> QED BY <1>1, <1>2 DEF FullWithCpu

LEMMA NoMorePagesIInv ==
  ASSUME IInv, NoMorePages
  PROVE  IInv'
<1>1. UNCHANGED <<live, word, nr_objs, cpu, full, objs, blocks, call>>
  BY NothingToLeave DEF NoMorePages
<1>2. call' \in Caches \cup {NoCache} /\ (call' # NoCache => Usable(call'))
  BY <1>1 DEF IInv, Typed
<1> QED BY <1>1, <1>2, CallIInv

LEMMA NewPageIInv ==
  ASSUME IInv, NEW p \in Pages, NewPage(p)
  PROVE  IInv'
<1> DEFINE s == Stride(call)
           e == EndPtr(call)
<1>1. call \in Caches /\ call # NoCache /\ Usable(call) /\ cpu[call].page = Null /\ full' = full
  BY NothingToLeave DEF NewPage
<1>2. /\ p \in Int /\ p # Null
      /\ Size[0] = 1 /\ 0 \in Buddy!Orders
  BY SizeFacts, SizeAssumption, PageAssumption DEF Buddy!Orders, Pages, Buddy!Pages, Null
<1>3. /\ \A l \in live : Buddy!Apart(p, 0, l[1], l[2])
      /\ live' = live \cup {<<p, 0>>}
  BY DEF NewPage, Buddy!Alloc, Buddy!Available
<1>4. /\ s \in Nat /\ s >= 1 /\ e \in Nat /\ e + Word <= PageSize /\ s <= e
      /\ Slots(call) >= 2 /\ Slots(call) \in Nat /\ Word \in Nat /\ PageSize \in Nat
  <2>1. s \in Nat /\ s >= 1 /\ Slots(call) >= 2 /\ Slots(call) \in Nat
    BY <1>1, SlotFacts, PageAssumption
  <2>2. (0 + 1) * s <= e
    BY <1>1, <2>1, SlotOrder
  <2> QED BY <1>1, <2>1, <2>2, SlotFacts, PageAssumption
<1>5. /\ word' = [word EXCEPT ![p] = [o \in Offsets |->
             IF o = e THEN 0 ELSE IF o \in 1 .. e /\ o % s = 0 THEN o ELSE @[o]]]
      /\ nr_objs' = [nr_objs EXCEPT ![p] = 0]
      /\ cpu' = [cpu EXCEPT ![call] = [page |-> p, freeobj |-> s]]
      /\ UNCHANGED <<call, objs, blocks>>
  BY DEF NewPage
<1>6. Typed
  BY DEF IInv
<1> HIDE DEF s, e
<1>7. PICK new : new = [page |-> p, freeobj |-> s]
  OBVIOUS
<1>8. /\ cpu' = [cpu EXCEPT ![call] = new]
      /\ new.page = p /\ new.freeobj = s /\ new \in [page : Pages \cup {Null}, freeobj : Int]
  BY <1>4, <1>5, <1>7
<1>9. /\ cpu'[call] = new
      /\ \A d \in Caches : d # call => cpu'[d] = cpu[d]
  BY <1>1, <1>6, <1>8 DEF Typed
<1>10. \A d \in Caches : Used(d)' = Used(d) \cup (IF d = call THEN {p} ELSE {})
  BY <1>1, <1>2, <1>8, <1>9 DEF Used
<1>11. \A d \in Caches : \A q \in Used(d) : q \in Pages /\ q # p /\ Buddy!Apart(p, 0, q, 0)
  <2> SUFFICES ASSUME NEW d \in Caches, NEW q \in Used(d)
               PROVE  q \in Pages /\ q # p /\ Buddy!Apart(p, 0, q, 0)
    OBVIOUS
  <2>1. q \in Pages
    BY <1>6 DEF Typed, Used
  <2>2. <<q, 0>> \in live
    BY DEF IInv, Accounted, AllUsed
  <2>3. Buddy!Apart(p, 0, q, 0)
    BY <1>3, <2>2
  <2> QED BY <1>2, <2>1, <2>3 DEF Buddy!Apart, Pages, Buddy!Pages
<1>12. \A b \in blocks : Buddy!Apart(p, 0, b[1], b[2])
  <2> SUFFICES ASSUME NEW b \in blocks PROVE Buddy!Apart(p, 0, b[1], b[2])
    OBVIOUS
  <2>1. <<b[1], b[2]>> \in live
    BY DEF IInv, Accounted, AllUsed
  <2> QED BY <1>3, <2>1
<1>13. \A q \in Pages : q # p => word'[q] = word[q] /\ nr_objs'[q] = nr_objs[q]
  BY <1>5, <1>6 DEF Typed
<1>14. /\ nr_objs'[p] = 0
       /\ word'[p] = [o \in Offsets |->
             IF o = e THEN 0 ELSE IF o \in 1 .. e /\ o % s = 0 THEN o ELSE word[p][o]]
  BY <1>5, <1>6 DEF Typed
<1>15. \A d \in Caches : d # call /\ cpu[d].page # Null =>
         cpu[d].page \in Pages /\ cpu[d].page # p
  BY <1>11 DEF Used
<1>16. Typed'
  <2>1. word'[p] \in [Offsets -> Int]
    <3>1. \A o \in Offsets : o \in Int /\ word[p][o] \in Int
      BY <1>4, <1>6 DEF Typed, Offsets
    <3>2. \A o \in Offsets : word'[p][o] \in Int
      <4> SUFFICES ASSUME NEW o \in Offsets PROVE word'[p][o] \in Int
        OBVIOUS
      <4>1. CASE o = e
        BY <1>14, <4>1
      <4>2. CASE o # e /\ o \in 1 .. e /\ o % s = 0
        BY <1>14, <3>1, <4>2
      <4>3. CASE o # e /\ ~(o \in 1 .. e /\ o % s = 0)
        BY <1>14, <3>1, <4>3
      <4> QED BY <4>1, <4>2, <4>3
    <3>3. PICK f : f = word'[p]
      OBVIOUS
    <3>4. f = [o \in Offsets |-> f[o]]
      BY <1>14, <3>3
    <3> QED BY <3>2, <3>3, <3>4
  <2>2. word' \in [Pages -> [Offsets -> Int]]
    BY <1>5, <1>6, <2>1, <1>13 DEF Typed
  <2>3. nr_objs' \in [Pages -> Nat]
    BY <1>5, <1>6 DEF Typed
  <2>4. cpu' \in [Caches -> [page : Pages \cup {Null}, freeobj : Int]]
    BY <1>6, <1>8 DEF Typed
  <2> QED BY <1>1, <1>5, <1>6, <2>2, <2>3, <2>4 DEF Typed
<1>17. CpuOK'
  <2> SUFFICES ASSUME NEW d \in Caches
               PROVE  IF cpu'[d].page = Null THEN cpu'[d].freeobj = Null
                      ELSE /\ Usable(d)
                           /\ nr_objs'[cpu'[d].page] + 2 <= Slots(d)
                           /\ cpu'[d].freeobj = (nr_objs'[cpu'[d].page] + 1) * Stride(d)
    BY DEF CpuOK
  <2>1. CASE d = call
    <3>1. s = (0 + 1) * s
      BY <1>4
    <3> QED BY <1>1, <1>2, <1>4, <1>8, <1>9, <1>14, <2>1, <3>1 DEF s
  <2>2. CASE d # call
    BY <1>9, <1>13, <1>15, <2>2 DEF IInv, CpuOK
  <2> QED BY <2>1, <2>2
<1>18. LinksIntact'
  <2> SUFFICES ASSUME NEW d \in Caches, cpu'[d].page # Null
               PROVE  /\ EndPtr(d) + Word <= PageSize
                      /\ word'[cpu'[d].page][EndPtr(d)] = 0
                      /\ \A o \in cpu'[d].freeobj .. EndPtr(d) - 1 :
                           o % Stride(d) = 0 => word'[cpu'[d].page][o] = o
    BY DEF LinksIntact
  <2>1. CASE d = call
    <3>1. e \in Offsets
      BY <1>4 DEF Offsets
    <3>2. \A o \in s .. e - 1 : o \in Offsets /\ o # e /\ o \in 1 .. e
      BY <1>4 DEF Offsets
    <3> QED BY <1>4, <1>8, <1>9, <1>14, <2>1, <3>1, <3>2 DEF e, s
  <2>2. CASE d # call
    BY <1>9, <1>13, <1>15, <2>2 DEF IInv, LinksIntact
  <2> QED BY <2>1, <2>2
<1>19. FullOK'
  <2> SUFFICES ASSUME NEW d \in Caches, NEW q \in full[d]
               PROVE  q # cpu'[d].page /\ Usable(d) /\ nr_objs'[q] + 1 = Slots(d)
    BY <1>1 DEF FullOK
  <2>1. q \in Pages /\ q # p
    BY <1>11 DEF Used
  <2> QED BY <1>8, <1>9, <1>13, <2>1 DEF IInv, FullOK
<1>20. PagesApart'
  <2>1. ASSUME NEW c \in Caches, NEW d \in Caches, NEW q \in Used(c)', q \in Used(d)'
        PROVE  c = d
    BY <1>10, <1>11, <2>1 DEF IInv, PagesApart
  <2>2. ASSUME NEW c \in Caches, NEW q \in Used(c)', NEW b \in blocks
        PROVE  Buddy!Apart(q, 0, b[1], b[2])
    BY <1>10, <1>12, <2>2 DEF IInv, PagesApart
  <2> QED BY <1>5, <2>1, <2>2 DEF IInv, PagesApart
<1>21. Accounted'
  <2>1. AllUsed' = AllUsed \cup {p}
    BY <1>1, <1>10 DEF AllUsed
  <2> QED BY <1>3, <1>5, <2>1 DEF IInv, Accounted
<1>22. LargeEnough'
  BY <1>5 DEF IInv, LargeEnough
<1>23. ObjsOK'
  <2> SUFFICES ASSUME NEW o \in objs
               PROVE  /\ o[1] \in Used(o[3])'
                      /\ 1 <= o[4] /\ o[4] <= nr_objs'[o[1]]
                      /\ o[2] = o[4] * Stride(o[3])
    BY <1>5 DEF ObjsOK
  <2>1. o[3] \in Caches
    BY <1>6 DEF Typed
  <2>2. o[1] \in Used(o[3]) /\ 1 <= o[4] /\ o[4] <= nr_objs[o[1]] /\ o[2] = o[4] * Stride(o[3])
    BY DEF IInv, ObjsOK
  <2> QED BY <1>10, <1>11, <1>13, <2>1, <2>2
<1> QED BY <1>16, <1>17, <1>18, <1>19, <1>20, <1>21, <1>22, <1>23 DEF IInv

LEMMA TakeObjectIInv ==
  ASSUME IInv, TakeObject
  PROVE  IInv'
<1> DEFINE s == Stride(call)
           e == EndPtr(call)
<1>1. call \in Caches /\ call # NoCache /\ Usable(call) /\ Typed
  BY DEF TakeObject, IInv, Typed
<1>2. PICK p : p = cpu[call].page
  OBVIOUS
<1>3. /\ p \in Pages /\ p # Null /\ p \in Used(call)
      /\ nr_objs[p] \in Nat /\ nr_objs[p] + 2 <= Slots(call)
      /\ Object(call) = (nr_objs[p] + 1) * s
      /\ cpu[call].freeobj = Object(call)
  BY <1>1, <1>2, ObjectFacts DEF TakeObject, IInv
<1>4. PICK k \in Nat : k = nr_objs[p] + 1
  BY <1>3
<1>5. PICK o \in Nat : o = Object(call)
  <2>1. s \in Nat
    BY <1>1, SlotFacts
  <2> QED BY <1>3, <1>4, <2>1
<1>6. /\ s \in Nat /\ s >= 1 /\ e \in Nat /\ e + Word <= PageSize
      /\ Slots(call) \in Nat /\ Word \in Nat /\ PageSize \in Nat
      /\ ObjSize(call) \in Nat /\ ObjSize(call) + 1 <= s
  BY <1>1, SlotFacts, PageAssumption
<1>7. PICK next \in Nat : next = o + s
  BY <1>6
<1>8. /\ o = k * s /\ k >= 1 /\ k + 1 <= Slots(call)
      /\ next = (k + 1) * s /\ next <= e
      /\ next = e <=> k + 1 = Slots(call)
  <2>1. o = k * s /\ k >= 1 /\ k + 1 <= Slots(call)
    BY <1>3, <1>4, <1>5, <1>6
  <2>2. (k + 1) * s = k * s + s /\ (k + 1) * s <= e /\ ((k + 1) * s = e <=> k + 1 = Slots(call))
    BY <1>1, <2>1, SlotOrder
  <2>3. next = (k + 1) * s
    BY <1>7, <2>1, <2>2
  <2> QED BY <2>1, <2>2, <2>3
<1> DEFINE wrote == o .. o + ObjSize(call) - 1
<1>9. /\ nr_objs' = [nr_objs EXCEPT ![p] = @ + 1]
      /\ objs' = objs \cup {<<p, o, call, nr_objs'[p]>>}
      /\ word' = [word EXCEPT ![p] = [x \in Offsets |-> IF x \in wrote THEN Junk ELSE @[x]]]
      /\ call' = NoCache /\ UNCHANGED <<live, blocks>>
  BY <1>2, <1>5 DEF TakeObject
<1>10. /\ word[p][e] = 0
       /\ \A x \in o .. e - 1 : x % s = 0 => word[p][x] = x
  BY <1>1, <1>2, <1>3, <1>5 DEF IInv, LinksIntact
<1>11. word[p][next] = 0 <=> k + 1 = Slots(call)
  <2>1. CASE k + 1 = Slots(call)
    BY <1>8, <1>10, <2>1
  <2>2. CASE k + 1 # Slots(call)
    <3>1. next % s = 0
      <4>1. PICK j \in Nat : j = k + 1
        OBVIOUS
      <4>2. (j * s) % s = 0
        BY <1>6, MultipleIsMultiple
      <4> QED BY <1>8, <4>1, <4>2
    <3>2. next \in o .. e - 1 /\ next # 0
      <4>1. next # e /\ next <= e
        BY <1>8, <2>2
      <4>2. s \in Nat /\ s >= 1 /\ e \in Nat
        BY <1>6
      <4> HIDE DEF s, e
      <4> QED BY <1>7, <4>1, <4>2
    <3> QED BY <1>10, <2>2, <3>1, <3>2
  <2> QED BY <2>1, <2>2
<1>12. nr_objs'[p] = k /\ word'[p] = [x \in Offsets |-> IF x \in wrote THEN Junk ELSE word[p][x]]
  BY <1>1, <1>3, <1>4, <1>9 DEF Typed
<1>13. \A q \in Pages : q # p => word'[q] = word[q] /\ nr_objs'[q] = nr_objs[q]
  BY <1>1, <1>9 DEF Typed
<1>14. IF k + 1 = Slots(call)
       THEN /\ full' = [full EXCEPT ![call] = @ \cup {p}]
            /\ cpu' = [cpu EXCEPT ![call] = [page |-> Null, freeobj |-> Null]]
       ELSE /\ cpu' = [cpu EXCEPT ![call] = [page |-> p, freeobj |-> next]]
            /\ full' = full
  BY <1>2, <1>5, <1>7, <1>11 DEF TakeObject
<1> HIDE DEF s, e, wrote
<1>15. PICK new : new = IF k + 1 = Slots(call) THEN [page |-> Null, freeobj |-> Null]
                                               ELSE [page |-> p, freeobj |-> next]
  OBVIOUS
<1>16. /\ new \in [page : Pages \cup {Null}, freeobj : Int]
       /\ k + 1 = Slots(call) => new.page = Null /\ new.freeobj = Null
       /\ k + 1 # Slots(call) => new.page = p /\ new.freeobj = next
       /\ cpu' = [cpu EXCEPT ![call] = new]
  BY <1>3, <1>14, <1>15 DEF Null
<1>17. /\ cpu'[call] = new
       /\ \A d \in Caches : d # call => cpu'[d] = cpu[d] /\ full'[d] = full[d]
       /\ full'[call] = full[call] \cup (IF k + 1 = Slots(call) THEN {p} ELSE {})
  BY <1>1, <1>14, <1>16 DEF Typed
<1>18. \A d \in Caches : Used(d)' = Used(d)
  <2> SUFFICES ASSUME NEW d \in Caches PROVE Used(d)' = Used(d)
    OBVIOUS
  <2>1. CASE d = call
    BY <1>2, <1>3, <1>16, <1>17, <2>1 DEF Used
  <2>2. CASE d # call
    BY <1>17, <2>2 DEF Used
  <2> QED BY <2>1, <2>2
<1>19. \A d \in Caches : d # call => \A q \in Used(d) : q \in Pages /\ q # p
  BY <1>1, <1>3 DEF IInv, PagesApart, Used, Typed
<1>20. \A d \in Caches : d # call /\ cpu[d].page # Null =>
         cpu[d].page \in Pages /\ cpu[d].page # p
  BY <1>19 DEF Used
<1>21. Typed'
  <2>1. word' \in [Pages -> [Offsets -> Int]]
    <3>1. \A x \in Offsets : word[p][x] \in Int /\ Junk \in Int
      BY <1>1, <1>3 DEF Typed, Junk
    <3>2. [x \in Offsets |-> IF x \in wrote THEN Junk ELSE word[p][x]] \in [Offsets -> Int]
      BY <3>1
    <3>3. word'[p] \in [Offsets -> Int]
      BY <1>12, <3>2
    <3> QED BY <1>1, <1>9, <1>13, <3>3 DEF Typed
  <2>2. nr_objs' \in [Pages -> Nat]
    BY <1>1, <1>3, <1>9 DEF Typed
  <2>3. cpu' \in [Caches -> [page : Pages \cup {Null}, freeobj : Int]]
    BY <1>1, <1>16 DEF Typed
  <2>4. full' \in [Caches -> SUBSET Pages]
    BY <1>1, <1>3, <1>14 DEF Typed
  <2>5. objs' \subseteq Pages \X Nat \X Caches \X Nat
    BY <1>1, <1>3, <1>9, <1>12 DEF Typed
  <2> QED BY <1>1, <1>9, <2>1, <2>2, <2>3, <2>4, <2>5 DEF Typed
<1>22. CpuOK'
  <2> SUFFICES ASSUME NEW d \in Caches
               PROVE  IF cpu'[d].page = Null THEN cpu'[d].freeobj = Null
                      ELSE /\ Usable(d)
                           /\ nr_objs'[cpu'[d].page] + 2 <= Slots(d)
                           /\ cpu'[d].freeobj = (nr_objs'[cpu'[d].page] + 1) * Stride(d)
    BY DEF CpuOK
  <2>1. CASE d = call /\ k + 1 = Slots(call)
    BY <1>16, <1>17, <2>1
  <2>2. CASE d = call /\ k + 1 # Slots(call)
    <3>1. k + 2 <= Slots(call)
      BY <1>6, <1>8, <2>2
    <3> QED BY <1>1, <1>3, <1>8, <1>12, <1>16, <1>17, <2>2, <3>1 DEF s
  <2>3. CASE d # call
    BY <1>13, <1>17, <1>20, <2>3 DEF IInv, CpuOK
  <2> QED BY <2>1, <2>2, <2>3
<1>23. LinksIntact'
  <2> SUFFICES ASSUME NEW d \in Caches, cpu'[d].page # Null
               PROVE  /\ EndPtr(d) + Word <= PageSize
                      /\ word'[cpu'[d].page][EndPtr(d)] = 0
                      /\ \A x \in cpu'[d].freeobj .. EndPtr(d) - 1 :
                           x % Stride(d) = 0 => word'[cpu'[d].page][x] = x
    BY DEF LinksIntact
  <2>1. CASE d = call
    <3>1. new.page = p /\ new.freeobj = next
      BY <1>16, <1>17, <2>1
    <3>2. \A x \in next .. e : x \in Offsets /\ x \notin wrote
      BY <1>6, <1>7, <1>8 DEF Offsets, wrote
    <3>3. \A x \in next .. e : word'[p][x] = word[p][x]
      BY <1>12, <3>2
    <3>4. word'[p][e] = 0
      BY <1>6, <1>8, <1>10, <3>3
    <3>5. \A x \in next .. e - 1 : x \in next .. e /\ x \in o .. e - 1
      BY <1>6, <1>7
    <3>6. \A x \in next .. e - 1 : x % s = 0 => word'[p][x] = x
      BY <1>10, <3>3, <3>5
    <3> QED BY <1>6, <1>17, <2>1, <3>1, <3>4, <3>6 DEF e, s
  <2>2. CASE d # call
    BY <1>13, <1>17, <1>20, <2>2 DEF IInv, LinksIntact
  <2> QED BY <2>1, <2>2
<1>24. FullOK'
  <2> SUFFICES ASSUME NEW d \in Caches, NEW q \in full'[d]
               PROVE  q # cpu'[d].page /\ Usable(d) /\ nr_objs'[q] + 1 = Slots(d)
    BY DEF FullOK
  <2>1. CASE d # call
    <3>1. q \in full[d] /\ q \in Pages /\ q # p
      BY <1>17, <1>19, <2>1 DEF Used
    <3> QED BY <1>13, <1>17, <2>1, <3>1 DEF IInv, FullOK
  <2>2. CASE d = call /\ q \in full[call]
    <3>1. q # p /\ q \in Pages /\ q # Null
      <4>1. q # p /\ q \in Pages
        BY <1>1, <1>2, <2>2 DEF IInv, FullOK, Typed
      <4> QED BY <4>1, PageAssumption DEF Pages, Buddy!Pages, Null
    <3>2. nr_objs[q] + 1 = Slots(call)
      BY <1>1, <2>2 DEF IInv, FullOK
    <3> QED BY <1>1, <1>13, <1>16, <1>17, <2>2, <3>1, <3>2
  <2>3. CASE d = call /\ q \notin full[call]
    BY <1>1, <1>3, <1>12, <1>16, <1>17, <2>3
  <2> QED BY <2>1, <2>2, <2>3
<1>25. PagesApart'
  BY <1>9, <1>18 DEF IInv, PagesApart
<1>26. Accounted'
  <2>1. AllUsed' = AllUsed
    BY <1>18 DEF AllUsed
  <2> QED BY <1>9, <2>1 DEF IInv, Accounted
<1>27. LargeEnough'
  BY <1>9 DEF IInv, LargeEnough
<1>28. ObjsOK'
  <2> SUFFICES ASSUME NEW x \in objs'
               PROVE  /\ x[1] \in Used(x[3])'
                      /\ 1 <= x[4] /\ x[4] <= nr_objs'[x[1]]
                      /\ x[2] = x[4] * Stride(x[3])
    BY DEF ObjsOK
  <2>1. CASE x \in objs
    <3>1. x[3] \in Caches /\ x[1] \in Pages /\ x[4] \in Nat /\ nr_objs[x[1]] \in Nat
      BY <1>1, <2>1 DEF Typed
    <3>2. /\ x[1] \in Used(x[3])
          /\ 1 <= x[4] /\ x[4] <= nr_objs[x[1]] /\ x[2] = x[4] * Stride(x[3])
      BY <2>1 DEF IInv, ObjsOK
    <3>3. nr_objs[x[1]] <= nr_objs'[x[1]] /\ nr_objs'[x[1]] \in Nat
      BY <1>4, <1>12, <1>13, <3>1
    <3>4. x[4] <= nr_objs'[x[1]]
      BY <3>1, <3>2, <3>3
    <3> QED BY <1>18, <3>1, <3>2, <3>4
  <2>2. CASE x = <<p, o, call, k>>
    BY <1>1, <1>3, <1>8, <1>12, <1>18, <2>2 DEF s
  <2> QED BY <1>9, <1>12, <2>1, <2>2
<1> QED BY <1>21, <1>22, <1>23, <1>24, <1>25, <1>26, <1>27, <1>28 DEF IInv

LEMMA KmallocPagesIInv ==
  ASSUME IInv, NEW size \in Requests, KmallocPages(size)
  PROVE  IInv'
<1>1. PICK k : k = Order(size)
  OBVIOUS
<1>2. PICK p \in Pages : Buddy!Alloc(p, k) /\ blocks' = blocks \cup {<<p, k, size>>}
  BY <1>1 DEF KmallocPages, Pages
<1>3. size \in Nat /\ k \in Buddy!Orders /\ size <= Size[k] * PageSize
  BY <1>1, RequestsAssumption, OrderIsEnough DEF KmallocPages
<1>4. UNCHANGED <<word, nr_objs, cpu, full, call, objs>>
  BY DEF KmallocPages
<1>5. /\ \A l \in live : Buddy!Apart(p, k, l[1], l[2])
      /\ live' = live \cup {<<p, k>>}
  BY <1>2 DEF Buddy!Alloc, Buddy!Available
<1>6. \A c \in Caches : \A q \in Used(c) : Buddy!Apart(q, 0, p, k)
  <2> SUFFICES ASSUME NEW c \in Caches, NEW q \in Used(c) PROVE Buddy!Apart(q, 0, p, k)
    OBVIOUS
  <2>1. <<q, 0>> \in live
    BY DEF IInv, Accounted, AllUsed
  <2>2. Buddy!Apart(p, k, q, 0)
    BY <1>5, <2>1
  <2> QED BY <2>2 DEF Buddy!Apart
<1>7. \A b \in blocks : Buddy!Apart(p, k, b[1], b[2]) /\ Buddy!Apart(b[1], b[2], p, k)
  <2> SUFFICES ASSUME NEW b \in blocks
               PROVE  Buddy!Apart(p, k, b[1], b[2]) /\ Buddy!Apart(b[1], b[2], p, k)
    OBVIOUS
  <2>1. <<b[1], b[2]>> \in live
    BY DEF IInv, Accounted
  <2>2. Buddy!Apart(p, k, b[1], b[2])
    BY <1>5, <2>1
  <2> QED BY <2>2 DEF Buddy!Apart
<1>8. \A c : Used(c)' = Used(c)
  BY <1>4 DEF Used
<1>9. PICK b : b = <<p, k, size>>
  OBVIOUS
<1>10. b[1] = p /\ b[2] = k /\ b[3] = size /\ blocks' = blocks \cup {b}
  BY <1>2, <1>9
<1>11. Typed'
  <2>1. b \in Pages \X Buddy!Orders \X Nat
    BY <1>3, <1>9
  <2> QED BY <1>4, <1>10, <2>1 DEF IInv, Typed
<1>12. CpuOK' /\ LinksIntact' /\ FullOK'
  BY <1>4 DEF IInv, CpuOK, LinksIntact, FullOK
<1>13. PagesApart'
  <2>1. \A c \in Caches : \A q \in Used(c)' : \A x \in blocks' : Buddy!Apart(q, 0, x[1], x[2])
    BY <1>6, <1>8, <1>10 DEF IInv, PagesApart
  <2>2. \A x, y \in blocks' : x # y => Buddy!Apart(x[1], x[2], y[1], y[2])
    BY <1>7, <1>10 DEF IInv, PagesApart
  <2> QED BY <1>8, <2>1, <2>2 DEF IInv, PagesApart
<1>14. Accounted'
  <2>1. AllUsed' = AllUsed
    BY <1>4 DEF AllUsed, Used
  <2> QED BY <1>5, <1>10, <2>1 DEF IInv, Accounted
<1>15. LargeEnough'
  BY <1>3, <1>10 DEF IInv, LargeEnough
<1>16. ObjsOK'
  BY <1>4, <1>8 DEF IInv, ObjsOK
<1> QED BY <1>11, <1>12, <1>13, <1>14, <1>15, <1>16 DEF IInv

LEMMA KfreePagesIInv ==
  ASSUME IInv, NEW b \in blocks, KfreePages(b)
  PROVE  IInv'
<1>1. /\ blocks' = blocks \ {b}
      /\ live' = live \ {<<b[1], b[2]>>}
      /\ UNCHANGED <<word, nr_objs, cpu, full, call, objs>>
  BY DEF KfreePages, Buddy!Free
<1>2. \A x \in blocks : x[1] \in Int /\ x[2] \in Buddy!Orders /\ Size[x[2]] \in Nat /\ Size[x[2]] >= 1
  <2> SUFFICES ASSUME NEW x \in blocks
               PROVE  x[1] \in Int /\ x[2] \in Buddy!Orders /\ Size[x[2]] \in Nat /\ Size[x[2]] >= 1
    OBVIOUS
  <2>1. x[1] \in Pages /\ x[2] \in Buddy!Orders
    BY DEF IInv, Typed
  <2> QED BY <2>1, SizeFacts, PageAssumption DEF Pages, Buddy!Pages
\* No other block, and no page of a cache, is the block given back.
<1>3. \A x \in blocks : x # b => <<x[1], x[2]>> # <<b[1], b[2]>>
  <2> SUFFICES ASSUME NEW x \in blocks, x # b, x[1] = b[1], x[2] = b[2] PROVE FALSE
    OBVIOUS
  <2>1. Buddy!Apart(x[1], x[2], b[1], b[2])
    BY DEF IInv, PagesApart
  <2> QED BY <1>2, <2>1 DEF Buddy!Apart
<1>4. \A q \in AllUsed : <<q, 0>> # <<b[1], b[2]>>
  <2> SUFFICES ASSUME NEW q \in AllUsed, q = b[1], 0 = b[2] PROVE FALSE
    OBVIOUS
  <2>1. Buddy!Apart(q, 0, b[1], b[2])
    BY DEF IInv, PagesApart, AllUsed
  <2> QED BY <1>2, <2>1 DEF Buddy!Apart
<1>5. \A c : Used(c)' = Used(c)
  BY <1>1 DEF Used
<1>6. Typed'
  BY <1>1 DEF IInv, Typed
<1>7. CpuOK' /\ LinksIntact' /\ FullOK'
  BY <1>1 DEF IInv, CpuOK, LinksIntact, FullOK
<1>8. PagesApart'
  BY <1>1, <1>5 DEF IInv, PagesApart
<1>9. Accounted'
  <2>1. AllUsed' = AllUsed
    BY <1>1 DEF AllUsed, Used
  <2>2. live = {<<x[1], x[2]>> : x \in blocks} \cup {<<q, 0>> : q \in AllUsed}
    BY DEF IInv, Accounted
  <2>3. live' = {<<x[1], x[2]>> : x \in blocks'} \cup {<<q, 0>> : q \in AllUsed}
    BY <1>1, <1>3, <1>4, <2>2
  <2> QED BY <2>1, <2>3 DEF Accounted
<1>10. LargeEnough'
  BY <1>1 DEF IInv, LargeEnough
<1>11. ObjsOK'
  BY <1>1, <1>5 DEF IInv, ObjsOK
<1> QED BY <1>6, <1>7, <1>8, <1>9, <1>10, <1>11 DEF IInv

LEMMA NextIInv == IInv /\ [Next]_vars => IInv'
<1> SUFFICES ASSUME IInv, [Next]_vars PROVE IInv'
  OBVIOUS
<1>1. CASE \E size \in Requests : KmallocObject(size)
  BY <1>1, KmallocObjectIInv
<1>2. CASE \E p \in Pages : NewPage(p)
  BY <1>2, NewPageIInv
<1>3. CASE NoMorePages
  BY <1>3, NoMorePagesIInv
<1>4. CASE TakeObject
  BY <1>4, TakeObjectIInv
<1>5. CASE \E size \in Requests : KmallocPages(size)
  BY <1>5, KmallocPagesIInv
<1>6. CASE \E b \in blocks : KfreePages(b)
  BY <1>6, KfreePagesIInv
<1>7. CASE UNCHANGED vars
  <2>1. UNCHANGED <<live, word, nr_objs, cpu, full, objs, blocks, call>>
    BY <1>7 DEF vars
  <2>2. call' \in Caches \cup {NoCache} /\ (call' # NoCache => Usable(call'))
    BY <2>1 DEF IInv, Typed
  <2> QED BY <2>1, <2>2, CallIInv
<1> QED BY <1>1, <1>2, <1>3, <1>4, <1>5, <1>6, <1>7 DEF Next

LEMMA Invariance == Spec => []IInv
<1> QED BY InitIInv, NextIInv, PTL DEF Spec

----------------------------------------------------------------------------
(* What the invariant says of the memory *)

\* An object lies behind the slab_head and ends inside its page, in a slot of its
\* own.
LEMMA ObjectFits ==
  ASSUME IInv, NEW x \in objs
  PROVE  /\ x[1] \in Nat /\ x[2] \in Nat /\ x[3] \in Caches /\ x[4] \in Nat
         /\ x = <<x[1], x[2], x[3], x[4]>>
         /\ x[1] \in Used(x[3])
         /\ Stride(x[3]) \in Nat /\ ObjSize(x[3]) \in Nat /\ ObjSize(x[3]) <= Stride(x[3])
         /\ x[2] = x[4] * Stride(x[3])
         /\ x[2] >= Header /\ x[2] + ObjSize(x[3]) <= PageSize
<1>1. PICK p, c, n : p = x[1] /\ c = x[3] /\ n = x[4]
  OBVIOUS
<1>2. /\ p \in Pages /\ c \in Caches /\ n \in Nat /\ x[2] \in Nat /\ nr_objs[p] \in Nat
      /\ x = <<x[1], x[2], x[3], x[4]>>
  BY <1>1 DEF IInv, Typed
<1>3. p \in Used(c) /\ n >= 1 /\ n <= nr_objs[p] /\ x[2] = n * Stride(c)
  BY <1>1 DEF IInv, ObjsOK
<1>4. Usable(c) /\ nr_objs[p] + 1 <= Slots(c)
  <2>1. CASE p \in full[c]
    BY <1>2, <2>1, SlotFacts DEF IInv, FullOK
  <2>2. CASE p = cpu[c].page /\ p # Null
    <3>1. Usable(c) /\ nr_objs[p] + 2 <= Slots(c)
      BY <1>2, <2>2 DEF IInv, CpuOK
    <3> QED BY <1>2, <3>1, SlotFacts
  <2> QED BY <1>3, <2>1, <2>2 DEF Used
<1>5. /\ ObjSize(c) \in Nat /\ Stride(c) \in Nat /\ Slots(c) \in Nat /\ Stride(c) >= Header
      /\ Stride(c) = ObjSize(c) + Word /\ Word \in Nat /\ EndPtr(c) \in Nat
      /\ EndPtr(c) + Word <= PageSize /\ PageSize \in Nat /\ Header \in Nat
  BY <1>2, <1>4, SlotFacts, PageAssumption
<1>6. PICK o \in Nat : o = x[2]
  BY <1>2
<1>7. o + Stride(c) <= EndPtr(c)
  <2>1. n + 1 <= Slots(c)
    BY <1>2, <1>3, <1>4, <1>5
  <2>2. (n + 1) * Stride(c) = n * Stride(c) + Stride(c) /\ (n + 1) * Stride(c) <= EndPtr(c)
    BY <1>2, <1>4, <2>1, SlotOrder
  <2> QED BY <1>3, <1>6, <2>2
<1>8. o >= Header
  <2>1. 1 * Stride(c) <= n * Stride(c)
    BY <1>2, <1>3, <1>5, ScaleLeq
  <2>2. Stride(c) <= o
    BY <1>3, <1>5, <1>6, <2>1
  <2> QED BY <1>5, <2>2
<1>9. o + ObjSize(c) <= PageSize
  BY <1>5, <1>7
<1>10. p \in Nat
  BY <1>2, PageAssumption DEF Pages, Buddy!Pages
<1>11. ObjSize(c) <= Stride(c)
  BY <1>5
<1> QED BY <1>1, <1>2, <1>3, <1>5, <1>6, <1>8, <1>9, <1>10, <1>11

\* The bytes of pages that follow each other.
LEMMA PagesFollow ==
  ASSUME NEW p \in Nat, NEW n \in Nat, NEW q \in Nat, p + n <= q,
         NEW i \in Nat, i <= n * PageSize, NEW j \in Nat
  PROVE  p * PageSize + i <= q * PageSize + j
<1>1. PageSize \in Nat
  BY PageAssumption
<1>2. (p + n) * PageSize <= q * PageSize
  BY <1>1, ScaleLeq
<1>3. PICK a \in Nat : a = p * PageSize
  BY <1>1
<1>4. PICK b \in Nat : b = n * PageSize
  BY <1>1
<1>5. PICK d \in Nat : d = q * PageSize
  BY <1>1
<1>6. (p + n) * PageSize = a + b
  BY <1>1, <1>3, <1>4
<1>7. a + b <= d
  BY <1>2, <1>5, <1>6
<1>8. i <= b
  BY <1>4
<1>9. a + i <= d + j
  BY <1>7, <1>8
<1> QED BY <1>3, <1>5, <1>9

LEMMA ObjectsApart ==
  ASSUME IInv, NEW x \in objs, NEW y \in objs, x # y
  PROVE  Separate(ObjectBytes(x), ObjectBytes(y))
<1> SUFFICES \/ x[1] * PageSize + (x[2] + ObjSize(x[3])) <= y[1] * PageSize + y[2]
             \/ y[1] * PageSize + (y[2] + ObjSize(y[3])) <= x[1] * PageSize + x[2]
  <2>1. PageSize \in Nat
    BY PageAssumption
  <2>2. PICK a \in Nat, b \in Nat : a = x[1] * PageSize /\ b = y[1] * PageSize
    BY <2>1, ObjectFits
  <2> QED BY <2>2, ObjectFits DEF Separate, ObjectBytes
<1>1. PageSize \in Nat /\ 1 * PageSize = PageSize
  BY PageAssumption
<1>2. CASE x[1] = y[1]
  <2>1. x[3] = y[3]
    BY <1>2, ObjectFits DEF IInv, PagesApart
  <2>2. x[4] # y[4]
    BY <1>2, <2>1, ObjectFits
  <2>3. PICK s \in Nat : s = Stride(x[3]) /\ s = Stride(y[3])
    BY <2>1, ObjectFits
  <2>4. ASSUME NEW u \in objs, NEW v \in objs, u[4] < v[4], Stride(u[3]) = s, Stride(v[3]) = s
        PROVE  u[2] + ObjSize(u[3]) <= v[2]
    <3>1. /\ u[4] \in Nat /\ v[4] \in Nat /\ u[2] \in Nat /\ v[2] \in Nat
          /\ u[2] = u[4] * s /\ v[2] = v[4] * s /\ ObjSize(u[3]) \in Nat /\ ObjSize(u[3]) <= s
      BY <2>4, ObjectFits
    <3>2. (u[4] + 1) * s <= v[4] * s
      BY <2>4, <3>1, ScaleLeq
    <3>3. (u[4] + 1) * s = u[2] + s
      BY <3>1
    <3>4. u[2] + s <= v[2]
      BY <3>1, <3>2, <3>3
    <3> QED BY <3>1, <3>4
  <2>5. x[2] + ObjSize(x[3]) <= y[2] \/ y[2] + ObjSize(y[3]) <= x[2]
    <3>1. x[4] < y[4] \/ y[4] < x[4]
      BY <2>2, ObjectFits
    <3> QED BY <2>3, <2>4, <3>1
  <2>6. PICK a \in Nat : a = x[1] * PageSize
    BY <1>1, ObjectFits
  <2> QED BY <1>2, <2>5, <2>6, ObjectFits
<1>3. CASE x[1] # y[1]
  <2>1. ASSUME NEW u \in objs, NEW v \in objs, u[1] < v[1]
        PROVE  u[1] * PageSize + (u[2] + ObjSize(u[3])) <= v[1] * PageSize + v[2]
    <3>1. /\ u[1] \in Nat /\ v[1] \in Nat /\ v[2] \in Nat
          /\ u[2] + ObjSize(u[3]) \in Nat /\ u[2] + ObjSize(u[3]) <= PageSize
      BY ObjectFits
    <3>2. u[1] + 1 <= v[1]
      BY <2>1, <3>1
    <3>3. PICK i \in Nat : i = u[2] + ObjSize(u[3])
      BY <3>1
    <3>4. i <= 1 * PageSize
      BY <1>1, <3>1, <3>3
    <3>5. u[1] * PageSize + i <= v[1] * PageSize + v[2]
      BY <3>1, <3>2, <3>4, PagesFollow
    <3> QED BY <3>3, <3>5
  <2>2. x[1] < y[1] \/ y[1] < x[1]
    <3>1. x[1] \in Nat /\ y[1] \in Nat
      BY ObjectFits
    <3> QED BY <1>3, <3>1
  <2> QED BY <2>1, <2>2
<1> QED BY <1>2, <1>3

LEMMA BlockFits ==
  ASSUME IInv, NEW b \in blocks
  PROVE  /\ b[1] \in Nat /\ b[2] \in Buddy!Orders /\ Size[b[2]] \in Nat
         /\ PageSize \in Nat
         /\ BlockBytes(b)[1] = b[1] * PageSize + 0
         /\ BlockBytes(b)[2] = b[1] * PageSize + Size[b[2]] * PageSize
<1>1. b[1] \in Pages /\ b[2] \in Buddy!Orders
  BY DEF IInv, Typed
<1>2. b[1] \in Nat /\ Size[b[2]] \in Nat /\ PageSize \in Nat
  BY <1>1, SizeFacts, PageAssumption DEF Pages, Buddy!Pages
<1>3. PICK n \in Nat : n = Size[b[2]]
  BY <1>2
<1>4. (b[1] + n) * PageSize = b[1] * PageSize + n * PageSize /\ b[1] * PageSize = b[1] * PageSize + 0
  BY <1>2
<1> QED BY <1>1, <1>2, <1>3, <1>4 DEF BlockBytes

LEMMA BlocksApart ==
  ASSUME IInv, NEW x \in blocks, NEW y \in blocks, x # y
  PROVE  Separate(BlockBytes(x), BlockBytes(y))
<1>1. Buddy!Apart(x[1], x[2], y[1], y[2])
  BY DEF IInv, PagesApart
<1>2. ASSUME NEW u \in blocks, NEW v \in blocks, u[1] + Size[u[2]] <= v[1]
      PROVE  BlockBytes(u)[2] <= BlockBytes(v)[1]
  <2>1. PICK i \in Nat : i = Size[u[2]] * PageSize
    BY BlockFits
  <2>2. i <= i
    OBVIOUS
  <2>3. u[1] * PageSize + i <= v[1] * PageSize + 0
    BY <1>2, <2>1, <2>2, BlockFits, PagesFollow
  <2> QED BY <2>1, <2>3, BlockFits
<1> QED BY <1>1, <1>2 DEF Buddy!Apart, Separate

LEMMA ObjectsOutsideBlocks ==
  ASSUME IInv, NEW x \in objs, NEW y \in blocks
  PROVE  Separate(ObjectBytes(x), BlockBytes(y))
<1>1. Buddy!Apart(x[1], 0, y[1], y[2]) /\ Size[0] = 1
  BY ObjectFits, SizeAssumption DEF IInv, PagesApart
<1>2. /\ x[1] \in Nat /\ y[1] \in Nat /\ x[2] \in Nat /\ PageSize \in Nat /\ 1 * PageSize = PageSize
      /\ x[2] + ObjSize(x[3]) \in Nat /\ x[2] + ObjSize(x[3]) <= PageSize
  BY ObjectFits, PageAssumption, BlockFits
<1>3. /\ ObjectBytes(x)[1] = x[1] * PageSize + x[2]
      /\ ObjectBytes(x)[2] = x[1] * PageSize + (x[2] + ObjSize(x[3]))
  <2>1. PICK a \in Nat : a = x[1] * PageSize
    BY <1>2
  <2> QED BY <2>1, ObjectFits DEF ObjectBytes
<1>4. CASE x[1] + 1 <= y[1]
  <2>1. x[1] * PageSize + (x[2] + ObjSize(x[3])) <= y[1] * PageSize + 0
    BY <1>2, <1>4, PagesFollow
  <2> QED BY <1>3, <2>1, BlockFits DEF Separate
<1>5. CASE y[1] + Size[y[2]] <= x[1]
  <2>1. PICK i \in Nat : i = Size[y[2]] * PageSize
    BY BlockFits
  <2>2. i <= i
    OBVIOUS
  <2>3. y[1] * PageSize + i <= x[1] * PageSize + x[2]
    BY <1>2, <1>5, <2>1, <2>2, BlockFits, PagesFollow
  <2> QED BY <1>3, <2>1, <2>3, BlockFits DEF Separate
<1> QED BY <1>1, <1>4, <1>5 DEF Buddy!Apart

LEMMA IInvMemoryApart == IInv => MemoryApart
<1> SUFFICES ASSUME IInv PROVE MemoryApart
  OBVIOUS
<1>1. \A b \in blocks : Size[b[2]] * PageSize >= b[3]
  <2> SUFFICES ASSUME NEW b \in blocks PROVE Size[b[2]] * PageSize >= b[3]
    OBVIOUS
  <2>1. b[3] \in Nat /\ b[3] <= Size[b[2]] * PageSize
    BY DEF IInv, Typed, LargeEnough
  <2>2. PICK i \in Nat : i = Size[b[2]] * PageSize
    BY BlockFits
  <2> QED BY <2>1, <2>2
<1> QED BY <1>1, ObjectsApart, BlocksApart, ObjectsOutsideBlocks, ObjectFits DEF MemoryApart

LEMMA IInvPagesAccounted == IInv => PagesAccounted
<1> SUFFICES ASSUME IInv PROVE PagesAccounted
  OBVIOUS
<1> DEFINE used == [c \in Caches |-> full[c] \cup ({cpu[c].page} \ {Null})]
<1>1. \A c \in Caches : used[c] = Used(c)
  BY DEF Used
<1> HIDE DEF used
<1>2. live = {<<b[1], b[2]>> : b \in blocks} \cup {<<p, 0>> : p \in UNION {used[c] : c \in Caches}}
  <2>1. AllUsed = UNION {used[c] : c \in Caches}
    BY <1>1 DEF AllUsed
  <2> QED BY <2>1 DEF IInv, Accounted
<1>3. \A c \in Caches : cpu[c].page \notin full[c]
  BY DEF IInv, FullOK
<1>4. \A c, d \in Caches : c # d => used[c] \cap used[d] = {}
  BY <1>1 DEF IInv, PagesApart
<1>5. \A c \in Caches : \A p \in full[c] : nr_objs[p] = Slots(c) - 1 /\ nr_objs[p] > 0
  <2> SUFFICES ASSUME NEW c \in Caches, NEW p \in full[c]
               PROVE  nr_objs[p] = Slots(c) - 1 /\ nr_objs[p] > 0
    OBVIOUS
  <2>1. Usable(c) /\ nr_objs[p] + 1 = Slots(c) /\ nr_objs[p] \in Nat
    BY DEF IInv, FullOK, Typed
  <2>2. Slots(c) \in Nat /\ Slots(c) >= 2
    BY <2>1, SlotFacts
  <2> QED BY <2>1, <2>2
<1> QED BY <1>2, <1>3, <1>4, <1>5 DEF PagesAccounted, used

----------------------------------------------------------------------------
\* Nothing kmalloc returned is shared, for any page size, number of pages and sizes
\* of the caches that leave a rest in the page: no object has a byte in common
\* with another object, a slab_head or a block of pages, and no block is smaller
\* than what was asked for.
THEOREM NothingIsShared == Spec => []MemoryApart
<1> QED BY Invariance, IInvMemoryApart, PTL

\* The chain of free objects slab_alloc follows through the page is never cut by what
\* callers write into their objects.
THEOREM ChainIsIntact == Spec => []LinksIntact
<1>1. IInv => LinksIntact
  BY DEF IInv
<1> QED BY <1>1, Invariance, PTL

\* Every page the allocator took has exactly one user, and the pages put away on a list
\* of full pages are full.
THEOREM NoPageIsForgotten == Spec => []PagesAccounted
<1> QED BY Invariance, IInvPagesAccounted, PTL
=============================================================================
