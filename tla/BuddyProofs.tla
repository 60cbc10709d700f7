----------------------------- MODULE BuddyProofs ----------------------------
(***************************************************************************)
(* Proofs about the buddy allocator, for every MaxOrder and NPages.        *)
(***************************************************************************)
EXTENDS BuddyCallers, FiniteSetTheorems, TLAPS

\* What the assumptions say of one order, in the form the proofs use.
LEMMA SizeFacts ==
  ASSUME NEW k \in Orders
  PROVE  /\ Size[k] \in Nat
         /\ Size[k] >= 1
         /\ k < MaxOrder => k + 1 \in Orders /\ Size[k + 1] = 2 * Size[k]
<1>1. Size[k] \in Nat /\ Size[k] >= 1
  <2>1. \A i \in Orders : Size[i] \in Nat /\ Size[i] > 0
    BY SizeAssumption
  <2> QED BY <2>1
<1>2. ASSUME k < MaxOrder
      PROVE  k + 1 \in Orders /\ Size[k + 1] = 2 * Size[k]
  <2>1. k \in Int /\ k + 1 \in 1 .. MaxOrder /\ k + 1 \in Orders
    BY <1>2, MaxOrderAssumption DEF Orders
  <2>2. \A i \in 1 .. MaxOrder : Size[i] = 2 * Size[i - 1]
    BY SizeAssumption
  <2>3. Size[k + 1] = 2 * Size[(k + 1) - 1]
    BY <2>1, <2>2
  <2>4. (k + 1) - 1 = k
    BY <2>1
  <2> QED BY <2>1, <2>3, <2>4
<1> QED BY <1>1, <1>2

\* A large size is a multiple of a small one, and so is the managed range.
LEMMA SizeDivides ==
  ASSUME NEW j \in Orders, NEW k \in Orders, j <= k
  PROVE  \E m \in Nat : Size[k] = m * Size[j]
  BY SizeAssumption, SizeFacts

LEMMA RangeDivides ==
  ASSUME NEW k \in Orders
  PROVE  \E m \in Nat : NPages = m * Size[k]
<1>1. PICK a \in Nat : NPages = a * Size[MaxOrder]
  BY NPagesAssumption
<1>2. MaxOrder \in Orders /\ k <= MaxOrder
  BY MaxOrderAssumption DEF Orders
<1>3. PICK b \in Nat : Size[MaxOrder] = b * Size[k]
  BY <1>2, SizeDivides
<1>4. Size[k] \in Nat
  BY SizeFacts
<1>5. NPages = (a * b) * Size[k]
  BY <1>1, <1>3, <1>4
<1>6. a * b \in Nat
  OBVIOUS
<1> QED BY <1>5, <1>6

\* Cancelling a common positive factor in a comparison.
LEMMA CancelLess ==
  ASSUME NEW a \in Int, NEW b \in Int, NEW s \in Nat, s >= 1, a * s < b * s
  PROVE  a + 1 <= b
<1>1. SUFFICES ASSUME b <= a PROVE FALSE
  OBVIOUS
<1>2. (a - b) * s >= 0
  BY <1>1
<1>3. (a - b) * s = a * s - b * s
  OBVIOUS
<1> QED BY <1>2, <1>3

LEMMA ScaleLeq ==
  ASSUME NEW a \in Int, NEW b \in Int, NEW s \in Nat, a <= b
  PROVE  a * s <= b * s
<1>1. (b - a) * s >= 0
  OBVIOUS
<1>2. (b - a) * s = b * s - a * s
  OBVIOUS
<1> QED BY <1>1, <1>2

\* Two multiples of s that differ are at least s apart.
LEMMA MultiplesApart ==
  ASSUME NEW a \in Int, NEW b \in Int, NEW s \in Nat, s >= 1, a * s < b * s
  PROVE  a * s + s <= b * s
<1>1. a + 1 <= b
  BY CancelLess
<1>2. (a + 1) * s <= b * s
  BY <1>1, ScaleLeq
<1> QED BY <1>2

\* A block is inside, or apart from, any block at least as large.
LEMMA Nested ==
  ASSUME NEW r \in Nat, NEW j \in Orders, IsBlock(r, j),
         NEW p \in Nat, NEW k \in Orders, IsBlock(p, k),
         j <= k, ~Apart(r, j, p, k)
  PROVE  p <= r /\ r + Size[j] <= p + Size[k]
<1> DEFINE s == Size[j]
<1>1. s \in Nat /\ s >= 1 /\ Size[k] \in Nat
  BY SizeFacts
<1>2. PICK a \in Int : r = a * s
  BY DEF IsBlock
<1>3. PICK b \in Int : p = b * Size[k]
  BY DEF IsBlock
<1>4. PICK m \in Nat : Size[k] = m * s
  BY SizeDivides
<1>5. /\ p = (b * m) * s
      /\ p + Size[k] = (b * m + m) * s
      /\ b * m \in Int
      /\ b * m + m \in Int
  BY <1>1, <1>3, <1>4
<1>6. r < p + Size[k] /\ p < r + s
  BY <1>1 DEF Apart
<1>7. r + s <= p + Size[k]
  <2> HIDE DEF s
  <2> QED BY <1>1, <1>2, <1>5, <1>6, MultiplesApart
<1>8. p <= r
  <2> HIDE DEF s
  <2> SUFFICES ASSUME r < p PROVE FALSE
    BY <1>1, <1>6
  <2>1. r + s <= p
    BY <1>1, <1>2, <1>5, MultiplesApart
  <2> QED BY <2>1, <1>6, <1>1
<1> QED BY <1>7, <1>8

\* Where the buddy of a block is, by the parity of the block's index.
LEMMA BuddyCases ==
  ASSUME NEW p \in Nat, NEW k \in Orders, k < MaxOrder, IsBlock(p, k)
  PROVE  \/ BuddyOf(p, k) = p + Size[k] /\ \E n \in Nat : p = n * Size[k + 1]
         \/ /\ BuddyOf(p, k) = p - Size[k] /\ \E n \in Nat : p - Size[k] = n * Size[k + 1]
            /\ ~\E m \in 0 .. p : p = 2 * m * Size[k]
<1> DEFINE s == Size[k]
<1>1. s \in Nat /\ s >= 1 /\ Size[k + 1] = 2 * s
  BY SizeFacts
<1>2. CASE \E m \in 0 .. p : p = 2 * m * s
  <2>1. PICK m \in 0 .. p : p = 2 * m * s
    BY <1>2
  <2>2. p = m * Size[k + 1] /\ m \in Nat
    BY <2>1, <1>1
  <2> QED BY <1>2, <2>2 DEF BuddyOf
<1>3. CASE ~\E m \in 0 .. p : p = 2 * m * s
  <2>1. PICK a \in 0 .. p : p = a * s
    BY DEF IsBlock
  <2>2. PICK n \in Nat : a = 2 * n \/ a = 2 * n + 1
    <3>1. a = 2 * (a \div 2) \/ a = 2 * (a \div 2) + 1
      OBVIOUS
    <3>2. a \div 2 \in Nat
      OBVIOUS
    <3> QED BY <3>1, <3>2
  <2>3. a # 2 * n
    <3> SUFFICES ASSUME a = 2 * n PROVE FALSE
      OBVIOUS
    <3>1. p = 2 * n * s /\ n \in 0 .. p
      BY <2>1
    <3> QED BY <3>1, <1>3
  <2>4. p - s = n * (2 * s)
    <3>1. p = (2 * n + 1) * s
      BY <2>1, <2>2, <2>3
    <3> QED BY <3>1, <1>1
  <2> QED BY <1>1, <1>3, <2>4 DEF BuddyOf
<1> QED BY <1>2, <1>3

\* A buddy is the other half of a block of the next order, and buddies are
\* each other's buddy.
LEMMA BuddyFacts ==
  ASSUME NEW p \in Nat, NEW k \in Orders, k < MaxOrder, IsBlock(p, k)
  PROVE  /\ BuddyOf(p, k) \in Nat
         /\ IsBlock(BuddyOf(p, k), k)
         /\ BuddyOf(BuddyOf(p, k), k) = p
         /\ \/ BuddyOf(p, k) = p + Size[k] /\ IsBlock(p, k + 1)
            \/ BuddyOf(p, k) = p - Size[k] /\ IsBlock(BuddyOf(p, k), k + 1)
<1> DEFINE s == Size[k]
           b == BuddyOf(p, k)
<1>1. s \in Nat /\ s >= 1 /\ k + 1 \in Orders /\ Size[k + 1] = 2 * s
  BY SizeFacts
<1>2. PICK w \in Nat : NPages = w * Size[k + 1]
  BY <1>1, RangeDivides
<1>3. PICK a \in 0 .. p : p = a * s
  BY DEF IsBlock
<1>4. p + s <= NPages /\ NPages \in Nat
  BY NPagesAssumption DEF IsBlock
<1>5. \A x \in Nat : \A n \in Nat : x = n * (2 * s) => n \in 0 .. x
  <2> TAKE x \in Nat
  <2> TAKE n \in Nat
  <2> HAVE x = n * (2 * s)
  <2>1. 1 <= 2 * s /\ n * 1 <= n * (2 * s)
    <3> HIDE DEF s
    <3>1. 1 <= 2 * s
      BY <1>1
    <3>2. n * (2 * s - 1) >= 0
      BY <1>1
    <3>3. n * (2 * s - 1) = n * (2 * s) - n
      BY <1>1
    <3> QED BY <1>1, <3>1, <3>2, <3>3
  <2> QED BY <2>1
<1>6. CASE b = p + s /\ \E n \in Nat : p = n * Size[k + 1]
  <2>1. PICK n \in Nat : p = n * (2 * s)
    BY <1>6, <1>1
  <2>2. p + 2 * s <= NPages
    <3> HIDE DEF s
    <3>1. p < w * (2 * s)
      BY <1>1, <1>2, <1>4
    <3> QED BY <1>1, <1>2, <2>1, <3>1, MultiplesApart
  <2>3. IsBlock(p, k + 1)
    BY <1>1, <1>5, <2>1, <2>2 DEF IsBlock
  <2>4. IsBlock(b, k)
    <3>1. b = (a + 1) * s /\ a + 1 \in 0 .. b
      BY <1>1, <1>3, <1>6
    <3> QED BY <1>1, <1>6, <2>2, <3>1 DEF IsBlock
  <2>5. b \in Nat
    BY <1>1, <1>6
  <2>6. BuddyOf(b, k) = p
    <3> HIDE DEF s, b
    <3>1. SUFFICES ASSUME NEW n2 \in Nat, b = n2 * (2 * s) PROVE FALSE
      BY <1>1, <1>6, <2>4, <2>5, BuddyCases DEF s
    <3>2. p < b
      BY <1>1, <1>6
    <3>3. p + 2 * s <= b
      BY <1>1, <2>1, <3>1, <3>2, MultiplesApart
    <3> QED BY <1>1, <1>6, <3>3
  <2> QED BY <1>6, <2>3, <2>4, <2>5, <2>6
<1>7. CASE b = p - s /\ \E n \in Nat : p - s = n * Size[k + 1]
  <2>1. PICK n \in Nat : b = n * (2 * s)
    BY <1>7, <1>1
  <2>2. b \in Nat
    BY <1>1, <2>1
  <2>3. IsBlock(b, k + 1)
    BY <1>1, <1>4, <1>5, <1>7, <2>1, <2>2 DEF IsBlock
  <2>4. IsBlock(b, k)
    <3>1. a >= 1
      BY <1>1, <1>3, <1>7, <2>2
    <3>2. b = (a - 1) * s /\ a - 1 \in Nat
      BY <1>1, <1>3, <1>7, <3>1
    <3>3. a - 1 \in 0 .. b
      <4> HIDE DEF s, b
      <4>1. (a - 1) * (s - 1) >= 0
        BY <1>1, <3>2
      <4>2. (a - 1) * (s - 1) = (a - 1) * s - (a - 1)
        BY <1>1
      <4> QED BY <4>1, <4>2, <1>1, <2>2, <3>2
    <3> QED BY <1>1, <1>4, <1>7, <3>2, <3>3 DEF IsBlock
  <2>5. BuddyOf(b, k) = p
    <3>1. \E m \in 0 .. b : b = 2 * m * s
      <4>1. n \in 0 .. b
        BY <1>5, <2>1, <2>2
      <4>2. b = 2 * n * s
        BY <1>1, <2>1
      <4> QED BY <4>1, <4>2
    <3>2. BuddyOf(b, k) = b + s
      BY <3>1 DEF BuddyOf
    <3> QED BY <1>1, <1>7, <3>2
  <2> QED BY <1>7, <2>2, <2>3, <2>4, <2>5
<1> QED BY <1>6, <1>7, BuddyCases

\* Both halves of a block are blocks.
LEMMA HalvesAreBlocks ==
  ASSUME NEW p \in Nat, NEW k \in Orders, k < MaxOrder, IsBlock(p, k + 1)
  PROVE  IsBlock(p, k) /\ IsBlock(p + Size[k], k)
<1> DEFINE s == Size[k]
<1>1. s \in Nat /\ s >= 1 /\ s - 1 \in Nat /\ Size[k + 1] = 2 * s /\ NPages \in Nat
  BY SizeFacts, NPagesAssumption
<1>2. PICK m \in 0 .. p : p = m * (2 * s)
  BY <1>1 DEF IsBlock
<1>3. p + 2 * s <= NPages
  BY <1>1 DEF IsBlock
<1>4. p = (2 * m) * s /\ p + s = (2 * m + 1) * s /\ m \in Nat
  <2> HIDE DEF s
  <2> QED BY <1>1, <1>2
<1>5. \A x \in Nat, n \in Nat : x = n * s => n \in 0 .. x
  <2> HIDE DEF s
  <2> SUFFICES ASSUME NEW x \in Nat, NEW n \in Nat, x = n * s PROVE n <= x
    OBVIOUS
  <2>1. n * (s - 1) >= 0 /\ n * (s - 1) = n * s - n
    BY <1>1
  <2> QED BY <2>1
<1>6. 2 * m \in 0 .. p /\ 2 * m + 1 \in 0 .. p + s
  BY <1>1, <1>4, <1>5
<1> QED BY <1>1, <1>3, <1>4, <1>6 DEF IsBlock

----------------------------------------------------------------------------
(***************************************************************************)
(* The inductive invariant.  Disjoint, Covered and AlignedBlocks say what  *)
(* NoOverlap, NoLeak and Aligned say, without the set of triples.  Feeding *)
(* is what init_buddy's loop needs: the pages not handed over yet belong   *)
(* to no block and have a bplevel no merge test accepts.  WantOK says that *)
(* __alloc_pages wrote the order it returns before it split the block.     *)
(*                                                                         *)
(* Every step keeps it, whatever the callers do, but a merge with a held   *)
(* block.  CarefulCall is what the care of careful callers leaves behind   *)
(* while __free_pages runs, and why it meets no held block: some page of   *)
(* the block in hand that only blocked buddies of held blocks contain.     *)
(***************************************************************************)
Who == {"free", "live", "held"}

Disjoint ==
  \A w, v \in Who, p, q \in Pages, j, k \in Orders :
    Has(w, p, j) /\ Has(v, q, k) /\ (w # v \/ p # q \/ j # k) => Apart(p, j, q, k)

Covered ==
  \A p \in Pages : p < fed =>
    \E w \in Who, q \in Pages, k \in Orders : Has(w, q, k) /\ q <= p /\ p < q + Size[k]

AlignedBlocks ==
  \A w \in Who, p \in Pages, k \in Orders : Has(w, p, k) => IsBlock(p, k)

Feeding ==
  /\ fed < NPages => live = {} /\ call.op # "alloc"
  /\ \A p \in Pages : p >= fed => bplevel[p] = -1
  /\ \A w \in Who, p \in Pages, k \in Orders : Has(w, p, k) => p + Size[k] <= fed

CarefulCall ==
  call.op = "free" =>
    \E x \in Block(call.page, call.order) :
      \A q \in Pages, j \in call.order .. MaxOrder - 1 :
        <<q, j>> \in live /\ x \in Block(BuddyOf(q, j), j) => Blocked(q, j, live)

WantOK ==
  call.op = "alloc" => call.want <= call.order /\ bplevel[call.page] = call.want

IInv ==
  /\ TypeOK
  /\ Disjoint
  /\ Covered
  /\ AlignedBlocks
  /\ LevelsAgree
  /\ Feeding
  /\ WantOK

\* The invariant holds when init_buddy starts its loop.
LEMMA InitIInv == Init => IInv
<1> SUFFICES ASSUME Init PROVE IInv
  OBVIOUS
<1>1. /\ NPages \in Nat /\ NPages >= 1 /\ 0 \in Pages
      /\ 0 \in Orders
  BY NPagesAssumption, MaxOrderAssumption DEF Pages, Orders
<1>2. TypeOK
  BY <1>1, MaxOrderAssumption DEF Init, TypeOK, Idle, Orders, Pages
<1>3. \A w \in Who, p \in Pages, k \in Orders : ~Has(w, p, k)
  BY DEF Init, Has, Who, Idle
<1>4. Disjoint /\ Covered /\ AlignedBlocks
  BY <1>1, <1>3 DEF Disjoint, Covered, AlignedBlocks, Init, Pages
<1>5. LevelsAgree
  BY DEF Init, LevelsAgree
<1>6. Feeding
  BY <1>1, <1>3 DEF Feeding, Init, Idle
<1>7. WantOK
  BY DEF Init, WantOK, Idle
<1> QED BY <1>2, <1>4, <1>5, <1>6, <1>7 DEF IInv

\* What the type invariant says of the call in progress.
LEMMA CallFacts ==
  ASSUME TypeOK
  PROVE  /\ call.page \in Nat /\ call.page \in Pages
         /\ call.order \in Nat /\ call.order \in Orders
         /\ call.want \in Nat /\ call.want \in Orders
         /\ MaxOrder \in Nat /\ NPages \in Nat
         /\ \A p \in Pages : p \in Nat
         /\ \A k \in Orders : Size[k] \in Nat /\ Size[k] >= 1
  BY NPagesAssumption, MaxOrderAssumption, SizeFacts DEF TypeOK, Orders, Pages

\* The step that carries the argument: when the merge test succeeds the buddy
\* is a block of that order, on its free list or in a caller's hands.
LEMMA MergeFindsBlock ==
  ASSUME IInv, call.op = "free", CanMerge
  PROVE  LET b == BuddyOf(call.page, call.order)
         IN  /\ b \in Pages
             /\ IsBlock(b, call.order)
             /\ BuddyOf(b, call.order) = call.page
             /\ b \in freelist[call.order] \/ <<b, call.order>> \in live
<1> DEFINE p == call.page
           k == call.order
           b == BuddyOf(p, k)
<1>1. /\ p \in Nat /\ p \in Pages /\ k \in Orders /\ k \in Nat /\ k < MaxOrder
      /\ bplevel[b] = k
      /\ Has("held", p, k)
  BY CallFacts DEF IInv, CanMerge, Has
<1>2. IsBlock(p, k)
  BY <1>1 DEF IInv, AlignedBlocks, Who
<1>3. /\ b \in Nat
      /\ IsBlock(b, k)
      /\ BuddyOf(b, k) = p
      /\ \/ b = p + Size[k] /\ IsBlock(p, k + 1)
         \/ b = p - Size[k] /\ IsBlock(b, k + 1)
  BY <1>1, <1>2, BuddyFacts
<1>4. Size[k] \in Nat /\ Size[k] >= 1 /\ k + 1 \in Orders /\ Size[k + 1] = 2 * Size[k]
  BY <1>1, SizeFacts
<1>5. b \in Pages
  BY <1>3, <1>4, NPagesAssumption DEF IsBlock, Pages
<1>6. b < fed
  <2>1. ~(b >= fed)
    BY <1>1, <1>5 DEF IInv, Feeding
  <2> QED BY <2>1, <1>3 DEF IInv, TypeOK
<1>7. PICK w \in Who, r \in Pages, j \in Orders : Has(w, r, j) /\ r <= b /\ b < r + Size[j]
  BY <1>5, <1>6 DEF IInv, Covered
<1>8. r \in Nat /\ IsBlock(r, j) /\ j \in Nat /\ Size[j] \in Nat /\ Size[j] >= 1
  BY <1>7, SizeFacts DEF IInv, AlignedBlocks, Pages, Orders
<1>9. w # "held"
  <2> SUFFICES ASSUME w = "held" PROVE FALSE
    OBVIOUS
  <2>1. r = p /\ j = k
    BY <1>7 DEF Has
  <2> QED BY <2>1, <1>3, <1>4, <1>7, <1>1
<1>10. Apart(p, k, r, j)
  BY <1>1, <1>7, <1>9 DEF IInv, Disjoint, Who
<1>11. j <= k
  <2> SUFFICES ASSUME k + 1 <= j PROVE FALSE
    BY <1>1, <1>8
  <2>1. CASE b = p + Size[k] /\ IsBlock(p, k + 1)
    <3>1. ~Apart(p, k + 1, r, j)
      BY <2>1, <1>1, <1>4, <1>7, <1>8 DEF Apart
    <3>2. r <= p /\ p + Size[k + 1] <= r + Size[j]
      BY <2>1, <3>1, <1>1, <1>4, <1>8, Nested
    <3> QED BY <3>2, <1>10, <1>1, <1>4, <1>8 DEF Apart
  <2>2. CASE b = p - Size[k] /\ IsBlock(b, k + 1)
    <3>1. ~Apart(b, k + 1, r, j)
      BY <2>2, <1>3, <1>4, <1>7, <1>8 DEF Apart
    <3>2. r <= b /\ b + Size[k + 1] <= r + Size[j]
      BY <2>2, <3>1, <1>3, <1>4, <1>8, Nested
    <3> QED BY <2>2, <3>2, <1>10, <1>1, <1>4, <1>8 DEF Apart
  <2> QED BY <1>3, <2>1, <2>2
<1>12. r = b
  <2>1. ~Apart(r, j, b, k)
    BY <1>3, <1>4, <1>7, <1>8 DEF Apart
  <2>2. b <= r
    BY <2>1, <1>1, <1>3, <1>8, <1>11, Nested
  <2> QED BY <2>2, <1>3, <1>7, <1>8
<1>13. j = k
  BY <1>1, <1>7, <1>9, <1>12 DEF IInv, LevelsAgree, Has, Who
<1> QED BY <1>3, <1>5, <1>7, <1>9, <1>12, <1>13 DEF Has, Who

----------------------------------------------------------------------------
(* Each step preserves the invariant. *)

LEMMA FeedPageIInv == IInv /\ FeedPage => IInv'
<1> SUFFICES ASSUME IInv, FeedPage PROVE IInv'
  OBVIOUS
<1>1. /\ TypeOK /\ call.op = "none" /\ live = {} /\ fed \in Pages /\ fed \in Nat
      /\ 0 \in Orders /\ Size[0] = 1 /\ NPages \in Nat
  <2>1. 0 \in Orders /\ NPages \in Nat /\ Size[0] = 1
    BY MaxOrderAssumption, NPagesAssumption, SizeAssumption DEF Orders
  <2>2. TypeOK /\ fed < NPages /\ call = Idle /\ live = {}
    BY DEF IInv, FeedPage, Feeding
  <2> QED BY <2>1, <2>2 DEF TypeOK, Pages, Idle
<1>2. /\ call' = [op |-> "free", page |-> fed, order |-> 0, want |-> 0]
      /\ fed' = fed + 1
      /\ bplevel' = bplevel /\ freelist' = freelist /\ nr_free' = nr_free /\ live' = live
  BY DEF FeedPage, EnterFree
<1>3. TypeOK'
  BY <1>1, <1>2, MaxOrderAssumption DEF TypeOK, Orders, Pages
<1>4. \A w \in Who, p \in Pages, k \in Orders :
        Has(w, p, k)' <=> (Has(w, p, k) \/ (w = "held" /\ p = fed /\ k = 0))
  BY <1>1, <1>2 DEF Has, Who
<1>5. \A w \in Who, p \in Pages, k \in Orders :
        Has(w, p, k) => w # "held" /\ p + Size[k] <= fed
  BY <1>1 DEF IInv, Feeding, Has
<1>6. \A k \in Orders : Size[k] \in Nat /\ Size[k] >= 1
  BY SizeFacts
<1>7. Disjoint'
  BY <1>1, <1>4, <1>5, <1>6 DEF IInv, Disjoint, Apart, Pages
<1>8. Covered'
  <2> SUFFICES ASSUME NEW p \in Pages, p < fed + 1
               PROVE  \E w \in Who, q \in Pages, k \in Orders :
                        Has(w, q, k)' /\ q <= p /\ p < q + Size[k]
    BY <1>2 DEF Covered
  <2>1. CASE p < fed
    <3>1. PICK w \in Who, q \in Pages, k \in Orders : Has(w, q, k) /\ q <= p /\ p < q + Size[k]
      BY <2>1 DEF IInv, Covered
    <3> QED BY <3>1, <1>4
  <2>2. CASE p = fed
    <3>1. "held" \in Who
      BY DEF Who
    <3>2. Has("held", p, 0)'
      BY <2>2, <3>1, <1>1, <1>4
    <3>3. p <= p /\ p < p + Size[0]
      BY <1>1 DEF Pages
    <3> QED BY <3>1, <3>2, <3>3, <1>1
  <2> QED BY <2>1, <2>2, <1>1 DEF Pages
<1>9. AlignedBlocks'
  <2>1. IsBlock(fed, 0)
    BY <1>1 DEF IsBlock, Pages
  <2> QED BY <2>1, <1>4 DEF IInv, AlignedBlocks
<1>10. LevelsAgree'
  BY <1>2 DEF IInv, LevelsAgree
<1>11. Feeding'
  <2>1. \A p \in Pages : p >= fed + 1 => bplevel[p] = -1
    BY <1>1 DEF IInv, Feeding, Pages
  <2>2. \A w \in Who, p \in Pages, k \in Orders : Has(w, p, k)' => p + Size[k] <= fed + 1
    BY <1>1, <1>4, <1>5, <1>6 DEF Pages
  <2> QED BY <1>1, <1>2, <2>1, <2>2 DEF Feeding
<1>12. WantOK'
  BY <1>2 DEF WantOK
<1> QED BY <1>3, <1>7, <1>8, <1>9, <1>10, <1>11, <1>12 DEF IInv

LEMMA FreeIInv ==
  ASSUME NEW p \in Pages, NEW k \in Orders, IInv, Free(p, k)
  PROVE  IInv'
<1>1. /\ TypeOK /\ call.op = "none" /\ <<p, k>> \in live /\ fed = NPages
      /\ call' = [op |-> "free", page |-> p, order |-> k, want |-> 0]
      /\ live' = live \ {<<p, k>>}
      /\ bplevel' = bplevel /\ freelist' = freelist /\ nr_free' = nr_free /\ fed' = fed
  BY DEF Free, EnterFree, IInv, Idle
<1>2. TypeOK'
  <2>1. 0 \in Orders
    BY MaxOrderAssumption DEF Orders
  <2>2. call' \in [op : {"none", "free", "alloc"}, page : Pages, order : Orders, want : Orders]
    BY <1>1, <2>1
  <2> QED BY <1>1, <2>2 DEF TypeOK
<1>3. \A w \in Who, q \in Pages, j \in Orders :
        Has(w, q, j)' <=> IF w = "held" THEN q = p /\ j = k
                          ELSE Has(w, q, j) /\ ~(w = "live" /\ q = p /\ j = k)
  BY <1>1 DEF Has, Who
<1>4. Has("live", p, k) /\ "live" \in Who /\ "held" \in Who
  BY <1>1 DEF Has, Who
<1>5. \A w \in Who, q \in Pages, j \in Orders : Has(w, q, j) => w # "held"
  BY <1>1 DEF Has
<1>6. \A w \in Who, q \in Pages, j \in Orders :
        Has(w, q, j)' => \E v \in Who : Has(v, q, j) /\ (v = w \/ (w = "held" /\ v = "live"))
  BY <1>3, <1>4
<1>7. Disjoint'
  <2> SUFFICES ASSUME NEW w \in Who, NEW v \in Who, NEW q \in Pages, NEW r \in Pages,
                      NEW i \in Orders, NEW j \in Orders,
                      Has(w, q, i)', Has(v, r, j)', w # v \/ q # r \/ i # j
               PROVE  Apart(q, i, r, j)
    BY DEF Disjoint
  <2>1. CASE w = "held"
    BY <2>1, <1>3, <1>4 DEF IInv, Disjoint
  <2>2. CASE v = "held"
    BY <2>2, <1>3, <1>4 DEF IInv, Disjoint
  <2>3. CASE w # "held" /\ v # "held"
    BY <2>3, <1>3 DEF IInv, Disjoint
  <2> QED BY <2>1, <2>2, <2>3
<1>8. Covered'
  <2> SUFFICES ASSUME NEW x \in Pages, x < fed
               PROVE  \E w \in Who, q \in Pages, j \in Orders :
                        Has(w, q, j)' /\ q <= x /\ x < q + Size[j]
    BY <1>1 DEF Covered
  <2>1. PICK w \in Who, q \in Pages, j \in Orders : Has(w, q, j) /\ q <= x /\ x < q + Size[j]
    BY DEF IInv, Covered
  <2>2. Has(w, q, j)' \/ Has("held", q, j)'
    BY <2>1, <1>3, <1>4, <1>5
  <2> QED BY <2>1, <2>2, <1>4
<1>9. AlignedBlocks'
  BY <1>6 DEF IInv, AlignedBlocks
<1>10. LevelsAgree'
  BY <1>1 DEF IInv, LevelsAgree
<1>11. Feeding'
  <2>1. \A w \in Who, q \in Pages, j \in Orders : Has(w, q, j)' => q + Size[j] <= fed
    BY <1>6 DEF IInv, Feeding
  <2> QED BY <1>1, <2>1, NPagesAssumption DEF IInv, Feeding
<1>13. WantOK'
  BY <1>1 DEF WantOK
<1> QED BY <1>2, <1>7, <1>8, <1>9, <1>10, <1>11, <1>13 DEF IInv

LEMMA MergeIInv ==
  ASSUME NEW p \in Pages, NEW k \in Orders, NEW b, NEW c,
         p = call.page, k = call.order, b = BuddyOf(p, k), c = IF b < p THEN b ELSE p,
         IInv, Merge, ~MeetsHeld
  PROVE  IInv'
<1>1. /\ TypeOK /\ call.op = "free" /\ CanMerge
      /\ k \in Nat /\ k < MaxOrder /\ p \in Nat
  BY CallFacts DEF Merge, CanMerge, IInv
<1>2. /\ freelist' = [freelist EXCEPT ![k] = @ \ {b}]
      /\ nr_free' = [nr_free EXCEPT ![k] = @ - 1]
      /\ bplevel' = [bplevel EXCEPT ![b] = -1]
      /\ call' = [call EXCEPT !.page = c, !.order = k + 1]
      /\ fed' = fed /\ live' = live
  BY DEF Merge
<1>3. b \in Pages /\ b \in freelist[k]
  BY <1>1, MergeFindsBlock DEF MeetsHeld
<1>4. Has("held", p, k) /\ Has("free", b, k) /\ "held" \in Who /\ "free" \in Who
  BY <1>1, <1>3 DEF Has, Who
<1>5. IsBlock(p, k) /\ IsBlock(b, k)
  BY <1>3, <1>4 DEF IInv, AlignedBlocks
<1>6. /\ Size[k] \in Nat /\ Size[k] >= 1 /\ k + 1 \in Orders /\ Size[k + 1] = 2 * Size[k]
      /\ \A i \in Orders : Size[i] \in Nat /\ Size[i] >= 1
  BY <1>1, SizeFacts
<1>7. /\ \/ b = p + Size[k] /\ c = p
         \/ p = b + Size[k] /\ c = b
      /\ IsBlock(c, k + 1)
      /\ c \in Pages /\ c \in Nat /\ b \in Nat
  <2>1. \/ b = p + Size[k] /\ IsBlock(p, k + 1)
        \/ b = p - Size[k] /\ IsBlock(b, k + 1)
    BY <1>1, <1>5, BuddyFacts
  <2> QED BY <2>1, <1>1, <1>3, <1>6 DEF Pages
<1>8. TypeOK'
  <2>1. call' \in [op : {"none", "free", "alloc"}, page : Pages, order : Orders, want : Orders]
    BY <1>1, <1>2, <1>6, <1>7 DEF TypeOK
  <2>2. freelist' \in [Orders -> SUBSET Pages] /\ nr_free' \in [Orders -> Int]
    BY <1>1, <1>2 DEF TypeOK
  <2>3. bplevel' \in [Pages -> -1 .. MaxOrder]
    <3>1. -1 \in -1 .. MaxOrder
      BY MaxOrderAssumption
    <3> QED BY <3>1, <1>1, <1>2 DEF TypeOK
  <2> QED BY <1>1, <1>2, <2>1, <2>2, <2>3 DEF TypeOK
<1>9. \A w \in Who, q \in Pages, j \in Orders :
        Has(w, q, j)' <=> IF w = "held" THEN q = c /\ j = k + 1
                          ELSE Has(w, q, j) /\ ~(w = "free" /\ q = b /\ j = k)
  BY <1>1, <1>2, <1>6, <1>7 DEF Has, Who, TypeOK
<1>10. \A w \in Who, q \in Pages, j \in Orders :
         Has(w, q, j) /\ w # "held" /\ ~(w = "free" /\ q = b /\ j = k)
         => Apart(q, j, c, k + 1) /\ Apart(c, k + 1, q, j)
  <2> SUFFICES ASSUME NEW w \in Who, NEW q \in Pages, NEW j \in Orders,
                      Has(w, q, j), w # "held", ~(w = "free" /\ q = b /\ j = k)
               PROVE  Apart(q, j, c, k + 1)
    BY DEF Apart
  <2>1. Apart(q, j, p, k)
    BY <1>4 DEF IInv, Disjoint
  <2>2. Apart(q, j, b, k)
    BY <1>3, <1>4 DEF IInv, Disjoint
  <2>3. q \in Nat /\ Size[j] \in Nat /\ Size[j] >= 1
    BY <1>6 DEF Pages
  <2> QED BY <2>1, <2>2, <2>3, <1>1, <1>6, <1>7 DEF Apart
<1>11. Disjoint'
  <2> SUFFICES ASSUME NEW w \in Who, NEW v \in Who, NEW q \in Pages, NEW r \in Pages,
                      NEW i \in Orders, NEW j \in Orders,
                      Has(w, q, i)', Has(v, r, j)', w # v \/ q # r \/ i # j
               PROVE  Apart(q, i, r, j)
    BY DEF Disjoint
  <2>1. CASE w = "held"
    BY <2>1, <1>9, <1>10
  <2>2. CASE v = "held"
    BY <2>2, <1>9, <1>10
  <2>3. CASE w # "held" /\ v # "held"
    BY <2>3, <1>9 DEF IInv, Disjoint
  <2> QED BY <2>1, <2>2, <2>3
<1>12. Covered'
  <2> SUFFICES ASSUME NEW x \in Pages, x < fed
               PROVE  \E w \in Who, q \in Pages, j \in Orders :
                        Has(w, q, j)' /\ q <= x /\ x < q + Size[j]
    BY <1>2 DEF Covered
  <2>1. PICK w \in Who, q \in Pages, j \in Orders : Has(w, q, j) /\ q <= x /\ x < q + Size[j]
    BY DEF IInv, Covered
  <2>2. CASE Has(w, q, j)'
    BY <2>1, <2>2
  <2>3. CASE ~Has(w, q, j)'
    <3>1. (q = p \/ q = b) /\ j = k
      BY <2>1, <2>3, <1>9 DEF Has
    <3>2. c <= x /\ x < c + Size[k + 1]
      BY <2>1, <3>1, <1>1, <1>6, <1>7 DEF Pages
    <3> QED BY <3>2, <1>4, <1>6, <1>7, <1>9
  <2> QED BY <2>2, <2>3
<1>13. AlignedBlocks'
  BY <1>7, <1>9 DEF IInv, AlignedBlocks
<1>14. \A w \in Who, q \in Pages, j \in Orders :
         w # "held" /\ Has(w, q, j) /\ ~(w = "free" /\ q = b /\ j = k) => q # b
  <2> SUFFICES ASSUME NEW w \in Who, NEW j \in Orders,
                      w # "held", Has(w, b, j), ~(w = "free" /\ j = k)
               PROVE  FALSE
    BY <1>3
  <2>1. Apart(b, j, b, k)
    BY <1>3, <1>4 DEF IInv, Disjoint
  <2> QED BY <2>1, <1>6, <1>7 DEF Apart
<1>15. LevelsAgree'
  <2>1. ASSUME NEW j \in Orders, NEW q \in freelist'[j]
        PROVE  bplevel'[q] = j
    <3>1. q \in Pages /\ Has("free", q, j)'
      BY <2>1, <1>8 DEF Has, TypeOK
    <3>2. Has("free", q, j) /\ q # b
      BY <3>1, <1>4, <1>9, <1>14
    <3> QED BY <3>1, <3>2, <1>1, <1>2 DEF IInv, LevelsAgree, Has, TypeOK
  <2>2. ASSUME NEW l \in live'
        PROVE  bplevel'[l[1]] = l[2]
    <3>1. l[1] \in Pages /\ l[2] \in Orders /\ l = <<l[1], l[2]>> /\ l \in live
      BY <2>2, <1>1, <1>2 DEF TypeOK
    <3>2. Has("live", l[1], l[2]) /\ "live" \in Who
      BY <3>1 DEF Has, Who
    <3>3. l[1] # b
      BY <3>1, <3>2, <1>14
    <3> QED BY <3>1, <3>3, <1>1, <1>2 DEF IInv, LevelsAgree, TypeOK
  <2> QED BY <2>1, <2>2 DEF LevelsAgree
<1>16. Feeding'
  <2>1. \A q \in Pages : q >= fed => bplevel'[q] = -1
    BY <1>1, <1>2 DEF IInv, Feeding, TypeOK
  <2>2. p + Size[k] <= fed /\ b + Size[k] <= fed /\ fed \in Nat
    BY <1>1, <1>3, <1>4 DEF IInv, Feeding, TypeOK
  <2>3. \A w \in Who, q \in Pages, j \in Orders : Has(w, q, j)' => q + Size[j] <= fed
    BY <2>2, <1>1, <1>6, <1>7, <1>9 DEF IInv, Feeding
  <2>4. call'.op = call.op
    BY <1>1, <1>2 DEF TypeOK
  <2> QED BY <1>2, <2>1, <2>3, <2>4 DEF IInv, Feeding
<1>18. WantOK'
  BY <1>1, <1>2 DEF WantOK, TypeOK
<1> QED BY <1>8, <1>11, <1>12, <1>13, <1>15, <1>16, <1>18 DEF IInv

\* The block in hand becomes a block of who: the end of both calls.  What the
\* invariant says of blocks is not affected by who has them.
LEMMA HandOver ==
  ASSUME NEW p \in Pages, NEW k \in Orders, NEW who \in {"free", "live"},
         p = call.page, k = call.order, call.op # "none", IInv,
         fed' = fed,
         \A w \in Who, q \in Pages, j \in Orders :
           Has(w, q, j)' <=> (w # "held" /\ Has(w, q, j)) \/ (w = who /\ q = p /\ j = k)
  PROVE  /\ Disjoint' /\ Covered' /\ AlignedBlocks'
         /\ \A w \in Who, q \in Pages, j \in Orders : Has(w, q, j)' => q + Size[j] <= fed
<1>1. Has("held", p, k) /\ "held" \in Who /\ who \in Who
  BY DEF Has, Who
<1>2. \A w \in Who, q \in Pages, j \in Orders :
        w # "held" /\ Has(w, q, j) => Apart(q, j, p, k) /\ Apart(p, k, q, j)
  BY <1>1 DEF IInv, Disjoint, Apart
<1>3. Disjoint'
  <2> SUFFICES ASSUME NEW w \in Who, NEW v \in Who, NEW q \in Pages, NEW r \in Pages,
                      NEW i \in Orders, NEW j \in Orders,
                      Has(w, q, i)', Has(v, r, j)', w # v \/ q # r \/ i # j
               PROVE  Apart(q, i, r, j)
    BY DEF Disjoint
  <2>1. CASE (w # "held" /\ Has(w, q, i)) /\ (v # "held" /\ Has(v, r, j))
    BY <2>1 DEF IInv, Disjoint
  <2>2. CASE ~(w # "held" /\ Has(w, q, i))
    BY <2>2, <1>2
  <2>3. CASE ~(v # "held" /\ Has(v, r, j))
    BY <2>3, <1>2
  <2> QED BY <2>1, <2>2, <2>3
<1>4. Covered'
  <2> SUFFICES ASSUME NEW x \in Pages, x < fed
               PROVE  \E w \in Who, q \in Pages, j \in Orders :
                        Has(w, q, j)' /\ q <= x /\ x < q + Size[j]
    BY DEF Covered
  <2>1. PICK w \in Who, q \in Pages, j \in Orders : Has(w, q, j) /\ q <= x /\ x < q + Size[j]
    BY DEF IInv, Covered
  <2>2. CASE w # "held"
    BY <2>1, <2>2
  <2>3. CASE w = "held"
    <3>1. q = p /\ j = k
      BY <2>1, <2>3 DEF Has
    <3>2. Has(who, q, j)'
      BY <3>1, <1>1
    <3> QED BY <2>1, <3>2, <1>1
  <2> QED BY <2>2, <2>3
<1>5. AlignedBlocks'
  BY <1>1 DEF IInv, AlignedBlocks
<1>6. \A w \in Who, q \in Pages, j \in Orders : Has(w, q, j)' => q + Size[j] <= fed
  BY <1>1 DEF IInv, Feeding
<1> QED BY <1>3, <1>4, <1>5, <1>6

LEMMA LinkIInv ==
  ASSUME NEW p \in Pages, NEW k \in Orders, p = call.page, k = call.order, IInv, Link
  PROVE  IInv'
<1>1. /\ TypeOK /\ call.op = "free" /\ p \in Nat
      /\ bplevel' = [bplevel EXCEPT ![p] = k]
      /\ freelist' = [freelist EXCEPT ![k] = @ \cup {p}]
      /\ nr_free' = [nr_free EXCEPT ![k] = @ + 1]
      /\ call' = Idle /\ fed' = fed /\ live' = live
  BY CallFacts DEF Link, IInv
<1>2. TypeOK'
  <2>1. 0 \in Pages /\ 0 \in Orders
    BY <1>1, NPagesAssumption, MaxOrderAssumption DEF Pages, Orders
  <2>2. call' \in [op : {"none", "free", "alloc"}, page : Pages, order : Orders, want : Orders]
    BY <1>1, <2>1 DEF Idle
  <2>3. freelist' \in [Orders -> SUBSET Pages] /\ nr_free' \in [Orders -> Int]
    BY <1>1 DEF TypeOK
  <2>4. k \in -1 .. MaxOrder
    BY MaxOrderAssumption DEF Orders
  <2>5. bplevel' \in [Pages -> -1 .. MaxOrder]
    BY <1>1, <2>4 DEF TypeOK
  <2> QED BY <1>1, <2>2, <2>3, <2>5 DEF TypeOK
<1>3. \A w \in Who, q \in Pages, j \in Orders :
        Has(w, q, j)' <=> (w # "held" /\ Has(w, q, j)) \/ (w = "free" /\ q = p /\ j = k)
  BY <1>1 DEF Has, Who, TypeOK, Idle
<1>4. /\ Disjoint' /\ Covered' /\ AlignedBlocks'
      /\ \A w \in Who, q \in Pages, j \in Orders : Has(w, q, j)' => q + Size[j] <= fed
  BY <1>1, <1>3, HandOver
<1>5. Has("held", p, k) /\ "held" \in Who
  BY <1>1 DEF Has, Who
<1>6. \A w \in Who, j \in Orders : w # "held" => ~Has(w, p, j)
  <2> SUFFICES ASSUME NEW w \in Who, NEW j \in Orders, w # "held", Has(w, p, j) PROVE FALSE
    OBVIOUS
  <2>1. Apart(p, j, p, k)
    BY <1>5 DEF IInv, Disjoint
  <2> QED BY <2>1, <1>1, SizeFacts DEF Apart
<1>7. LevelsAgree'
  <2>1. ASSUME NEW j \in Orders, NEW q \in freelist'[j]
        PROVE  bplevel'[q] = j
    <3>1. CASE q \in freelist[j]
      <4>1. q \in Pages /\ Has("free", q, j) /\ "free" \in Who
        BY <3>1, <1>1 DEF Has, TypeOK, Who
      <4>2. q # p
        BY <4>1, <1>6
      <4> QED BY <3>1, <4>1, <4>2, <1>1 DEF IInv, LevelsAgree, TypeOK
    <3>2. CASE q \notin freelist[j]
      BY <2>1, <3>2, <1>1 DEF TypeOK
    <3> QED BY <3>1, <3>2
  <2>2. ASSUME NEW l \in live'
        PROVE  bplevel'[l[1]] = l[2]
    <3>1. l[1] \in Pages /\ l[2] \in Orders /\ l = <<l[1], l[2]>> /\ l \in live
      BY <2>2, <1>1 DEF TypeOK
    <3>2. Has("live", l[1], l[2]) /\ "live" \in Who
      BY <3>1 DEF Has, Who
    <3>3. l[1] # p
      BY <3>1, <3>2, <1>6
    <3> QED BY <3>1, <3>3, <1>1 DEF IInv, LevelsAgree, TypeOK
  <2> QED BY <2>1, <2>2 DEF LevelsAgree
<1>8. Feeding'
  <2>1. p < fed
    <3>1. p + Size[k] <= fed
      BY <1>5 DEF IInv, Feeding
    <3> QED BY <3>1, <1>1, SizeFacts DEF TypeOK
  <2>2. \A q \in Pages : q >= fed => bplevel'[q] = -1
    BY <2>1, <1>1 DEF IInv, Feeding, TypeOK
  <2> QED BY <1>1, <1>4, <2>2 DEF IInv, Feeding, Idle
<1>9. WantOK'
  BY <1>1 DEF WantOK, Idle
<1> QED BY <1>2, <1>4, <1>7, <1>8, <1>9 DEF IInv

LEMMA ReturnIInv == IInv /\ Return => IInv'
<1> SUFFICES ASSUME IInv, Return,
                    NEW p \in Pages, NEW k \in Orders, p = call.page, k = call.order
             PROVE  IInv'
  BY CallFacts DEF IInv
<1>1. /\ TypeOK /\ call.op = "alloc" /\ call.want = k
      /\ live' = live \cup {<<p, k>>} /\ call' = Idle
      /\ bplevel' = bplevel /\ freelist' = freelist /\ nr_free' = nr_free /\ fed' = fed
  BY DEF Return, IInv
<1>2. TypeOK'
  <2>1. 0 \in Pages /\ 0 \in Orders
    BY <1>1, NPagesAssumption, MaxOrderAssumption DEF Pages, Orders
  <2>2. call' \in [op : {"none", "free", "alloc"}, page : Pages, order : Orders, want : Orders]
    BY <1>1, <2>1 DEF Idle
  <2> QED BY <1>1, <2>2 DEF TypeOK
<1>3. \A w \in Who, q \in Pages, j \in Orders :
        Has(w, q, j)' <=> (w # "held" /\ Has(w, q, j)) \/ (w = "live" /\ q = p /\ j = k)
  BY <1>1 DEF Has, Who, Idle
<1>4. /\ Disjoint' /\ Covered' /\ AlignedBlocks'
      /\ \A w \in Who, q \in Pages, j \in Orders : Has(w, q, j)' => q + Size[j] <= fed
  BY <1>1, <1>3, HandOver
<1>5. WantOK'
  BY <1>1 DEF WantOK, Idle
<1>6. LevelsAgree'
  <2>1. bplevel[p] = k
    BY <1>1 DEF IInv, WantOK
  <2>2. ASSUME NEW l \in live' PROVE bplevel'[l[1]] = l[2]
    BY <2>1, <2>2, <1>1 DEF IInv, LevelsAgree
  <2> QED BY <2>2, <1>1 DEF IInv, LevelsAgree
<1>7. Feeding'
  BY <1>1, <1>4 DEF IInv, Feeding, Idle
<1> QED BY <1>2, <1>4, <1>5, <1>6, <1>7 DEF IInv

LEMMA AllocIInv ==
  ASSUME NEW k \in Orders, IInv, Alloc(k)
  PROVE  IInv'
<1>1. PICK c \in k .. MaxOrder : \E p \in freelist[c] :
        /\ freelist' = [freelist EXCEPT ![c] = @ \ {p}]
        /\ nr_free'  = [nr_free EXCEPT ![c] = @ - 1]
        /\ bplevel'  = [bplevel EXCEPT ![p] = k]
        /\ call'     = [op |-> "alloc", page |-> p, order |-> c, want |-> k]
  BY DEF Alloc
<1>0. PICK p \in freelist[c] :
        /\ freelist' = [freelist EXCEPT ![c] = @ \ {p}]
        /\ nr_free'  = [nr_free EXCEPT ![c] = @ - 1]
        /\ bplevel'  = [bplevel EXCEPT ![p] = k]
        /\ call'     = [op |-> "alloc", page |-> p, order |-> c, want |-> k]
  BY <1>1
<1>2. /\ TypeOK /\ call.op = "none" /\ fed = NPages /\ fed' = fed /\ live' = live
      /\ c \in Orders /\ k <= c /\ p \in Pages /\ p \in Nat /\ p < fed /\ NPages \in Nat
  <2>1. TypeOK /\ call = Idle /\ fed = NPages /\ fed' = fed /\ live' = live
    BY DEF Alloc, IInv
  <2>2. c \in Orders /\ k <= c
    BY MaxOrderAssumption DEF Orders
  <2>3. p \in Pages
    BY <2>1, <2>2 DEF TypeOK
  <2>4. NPages \in Nat
    BY NPagesAssumption
  <2> QED BY <2>1, <2>2, <2>3, <2>4 DEF Pages, Idle
<1>3. TypeOK'
  <2>1. freelist' \in [Orders -> SUBSET Pages] /\ nr_free' \in [Orders -> Int]
    BY <1>0, <1>2 DEF TypeOK
  <2>2. k \in -1 .. MaxOrder
    BY MaxOrderAssumption DEF Orders
  <2>3. bplevel' \in [Pages -> -1 .. MaxOrder]
    BY <1>0, <1>2, <2>2 DEF TypeOK
  <2>4. call' \in [op : {"none", "free", "alloc"}, page : Pages, order : Orders, want : Orders]
    BY <1>0, <1>2
  <2> QED BY <1>2, <2>1, <2>3, <2>4 DEF TypeOK
<1>4. Has("free", p, c) /\ "free" \in Who /\ "held" \in Who /\ ~(\E q, j : Has("held", q, j))
  BY <1>0, <1>2 DEF Has, Who
<1>5. \A w \in Who, q \in Pages, j \in Orders :
        Has(w, q, j)' <=> IF w = "held" THEN q = p /\ j = c
                          ELSE Has(w, q, j) /\ ~(w = "free" /\ q = p /\ j = c)
  BY <1>0, <1>2 DEF Has, Who, TypeOK
<1>6. \A w \in Who, q \in Pages, j \in Orders :
        Has(w, q, j) /\ ~(w = "free" /\ q = p /\ j = c)
        => Apart(q, j, p, c) /\ Apart(p, c, q, j)
  BY <1>2, <1>4 DEF IInv, Disjoint
<1>7. Disjoint'
  <2> SUFFICES ASSUME NEW w \in Who, NEW v \in Who, NEW q \in Pages, NEW r \in Pages,
                      NEW i \in Orders, NEW j \in Orders,
                      Has(w, q, i)', Has(v, r, j)', w # v \/ q # r \/ i # j
               PROVE  Apart(q, i, r, j)
    BY DEF Disjoint
  <2>1. CASE w = "held"
    BY <2>1, <1>5, <1>6
  <2>2. CASE v = "held"
    BY <2>2, <1>5, <1>6
  <2>3. CASE w # "held" /\ v # "held"
    BY <2>3, <1>5 DEF IInv, Disjoint
  <2> QED BY <2>1, <2>2, <2>3
<1>8. Covered'
  <2> SUFFICES ASSUME NEW x \in Pages, x < fed
               PROVE  \E w \in Who, q \in Pages, j \in Orders :
                        Has(w, q, j)' /\ q <= x /\ x < q + Size[j]
    BY <1>2 DEF Covered
  <2>1. PICK w \in Who, q \in Pages, j \in Orders : Has(w, q, j) /\ q <= x /\ x < q + Size[j]
    BY DEF IInv, Covered
  <2>2. Has(w, q, j)' \/ Has("held", q, j)'
    BY <2>1, <1>4, <1>5
  <2> QED BY <2>1, <2>2, <1>4
<1>9. \A w \in Who, q \in Pages, j \in Orders :
        Has(w, q, j)' => \E v \in Who : Has(v, q, j)
  BY <1>4, <1>5
<1>10. AlignedBlocks'
  BY <1>9 DEF IInv, AlignedBlocks
<1>11. \A w \in Who, j \in Orders : ~(w = "free" /\ j = c) => ~Has(w, p, j)
  <2> SUFFICES ASSUME NEW w \in Who, NEW j \in Orders, ~(w = "free" /\ j = c), Has(w, p, j)
               PROVE  FALSE
    OBVIOUS
  <2>1. Apart(p, j, p, c)
    BY <1>2, <1>6
  <2> QED BY <2>1, <1>2, SizeFacts DEF Apart
<1>12. LevelsAgree'
  <2>1. ASSUME NEW j \in Orders, NEW q \in freelist'[j]
        PROVE  bplevel'[q] = j
    <3>1. q \in Pages /\ Has("free", q, j)'
      BY <2>1, <1>3 DEF Has, TypeOK
    <3>2. Has("free", q, j) /\ q # p
      BY <3>1, <1>4, <1>5, <1>11
    <3> QED BY <3>1, <3>2, <1>0, <1>2 DEF IInv, LevelsAgree, Has, TypeOK
  <2>2. ASSUME NEW l \in live'
        PROVE  bplevel'[l[1]] = l[2]
    <3>1. l[1] \in Pages /\ l[2] \in Orders /\ l = <<l[1], l[2]>> /\ l \in live
      BY <2>2, <1>2 DEF TypeOK
    <3>2. Has("live", l[1], l[2]) /\ "live" \in Who
      BY <3>1 DEF Has, Who
    <3>3. l[1] # p
      BY <3>1, <3>2, <1>11
    <3> QED BY <3>1, <3>3, <1>0, <1>2 DEF IInv, LevelsAgree, TypeOK
  <2> QED BY <2>1, <2>2 DEF LevelsAgree
<1>13. Feeding'
  <2>1. \A q \in Pages : q >= fed => bplevel'[q] = -1
    BY <1>0, <1>2 DEF IInv, Feeding, TypeOK
  <2>2. \A w \in Who, q \in Pages, j \in Orders : Has(w, q, j)' => q + Size[j] <= fed
    BY <1>9 DEF IInv, Feeding
  <2>3. ~(fed < NPages)
    BY <1>2
  <2> QED BY <1>2, <2>1, <2>2, <2>3 DEF Feeding
<1>14. WantOK'
  BY <1>0, <1>2 DEF WantOK, TypeOK
<1> QED BY <1>3, <1>7, <1>8, <1>10, <1>12, <1>13, <1>14 DEF IInv

LEMMA SplitIInv ==
  ASSUME NEW p \in Pages, NEW c \in Orders, NEW k, NEW b,
         p = call.page, c = call.order, k = c - 1, b = p + Size[k],
         IInv, Split
  PROVE  IInv'
<1>1. /\ TypeOK /\ call.op = "alloc" /\ call.want < c
      /\ freelist' = [freelist EXCEPT ![k] = @ \cup {b}]
      /\ nr_free' = [nr_free EXCEPT ![k] = @ + 1]
      /\ bplevel' = [bplevel EXCEPT ![b] = k]
      /\ call' = [call EXCEPT !.order = k]
      /\ fed' = fed /\ live' = live
  BY DEF Split, IInv
<1>2. /\ p \in Nat /\ c \in Nat /\ call.want \in Nat /\ call.want <= k
      /\ k \in Orders /\ k < MaxOrder /\ k \in Nat /\ k + 1 = c /\ k # c /\ fed = NPages
      /\ NPages \in Nat
  BY <1>1, CallFacts DEF IInv, Feeding, Orders, TypeOK
<1>3. /\ Size[k] \in Nat /\ Size[k] >= 1 /\ Size[c] = 2 * Size[k]
      /\ \A i \in Orders : Size[i] \in Nat /\ Size[i] >= 1
  BY <1>2, SizeFacts
<1>4. Has("held", p, c) /\ "held" \in Who /\ "free" \in Who
  BY <1>1 DEF Has, Who
<1>5. IsBlock(p, c) /\ p + Size[c] <= fed
  BY <1>4 DEF IInv, AlignedBlocks, Feeding
<1>6. b \in Nat /\ b \in Pages /\ b # p
  BY <1>2, <1>3, <1>5, NPagesAssumption DEF Pages
<1>7. IsBlock(p, k) /\ IsBlock(b, k)
  BY <1>2, <1>5, HalvesAreBlocks
<1>8. TypeOK'
  <2>1. freelist' \in [Orders -> SUBSET Pages] /\ nr_free' \in [Orders -> Int]
    BY <1>1, <1>2, <1>6 DEF TypeOK
  <2>2. k \in -1 .. MaxOrder
    BY <1>2, MaxOrderAssumption
  <2>3. bplevel' \in [Pages -> -1 .. MaxOrder]
    BY <1>1, <2>2 DEF TypeOK
  <2>4. call' \in [op : {"none", "free", "alloc"}, page : Pages, order : Orders, want : Orders]
    BY <1>1, <1>2 DEF TypeOK
  <2> QED BY <1>1, <2>1, <2>3, <2>4 DEF TypeOK
<1>9. \A w \in Who, q \in Pages, j \in Orders :
        Has(w, q, j)' <=> IF w = "held" THEN q = p /\ j = k
                          ELSE Has(w, q, j) \/ (w = "free" /\ q = b /\ j = k)
  BY <1>1, <1>2 DEF Has, Who, TypeOK
<1>10. \A w \in Who, q \in Pages, j \in Orders :
         w # "held" /\ Has(w, q, j)
         => /\ Apart(q, j, p, k) /\ Apart(p, k, q, j)
            /\ Apart(q, j, b, k) /\ Apart(b, k, q, j)
  <2> SUFFICES ASSUME NEW w \in Who, NEW q \in Pages, NEW j \in Orders,
                      w # "held", Has(w, q, j)
               PROVE  Apart(q, j, p, k) /\ Apart(q, j, b, k)
    BY DEF Apart
  <2>1. Apart(q, j, p, c)
    BY <1>4 DEF IInv, Disjoint
  <2> QED BY <2>1, <1>2, <1>3, <1>6 DEF Apart, Pages
<1>11. Apart(p, k, b, k) /\ Apart(b, k, p, k)
  BY <1>2, <1>3 DEF Apart
<1>12. Disjoint'
  <2> SUFFICES ASSUME NEW w \in Who, NEW v \in Who, NEW q \in Pages, NEW r \in Pages,
                      NEW i \in Orders, NEW j \in Orders,
                      Has(w, q, i)', Has(v, r, j)', w # v \/ q # r \/ i # j
               PROVE  Apart(q, i, r, j)
    BY DEF Disjoint
  <2>1. CASE (w # "held" /\ Has(w, q, i)) /\ (v # "held" /\ Has(v, r, j))
    BY <2>1 DEF IInv, Disjoint
  <2>2. CASE ~(w # "held" /\ Has(w, q, i))
    BY <2>2, <1>9, <1>10, <1>11
  <2>3. CASE ~(v # "held" /\ Has(v, r, j))
    BY <2>3, <1>9, <1>10, <1>11
  <2> QED BY <2>1, <2>2, <2>3
<1>13. Covered'
  <2> SUFFICES ASSUME NEW x \in Pages, x < fed
               PROVE  \E w \in Who, q \in Pages, j \in Orders :
                        Has(w, q, j)' /\ q <= x /\ x < q + Size[j]
    BY <1>1 DEF Covered
  <2>1. PICK w \in Who, q \in Pages, j \in Orders : Has(w, q, j) /\ q <= x /\ x < q + Size[j]
    BY DEF IInv, Covered
  <2>2. CASE w # "held"
    BY <2>1, <2>2, <1>9
  <2>3. CASE w = "held"
    <3>1. q = p /\ j = c
      BY <2>1, <2>3 DEF Has
    <3>2. (p <= x /\ x < p + Size[k]) \/ (b <= x /\ x < b + Size[k])
      BY <2>1, <3>1, <1>2, <1>3, <1>6 DEF Pages
    <3> QED BY <3>2, <1>2, <1>4, <1>6, <1>9
  <2> QED BY <2>2, <2>3
<1>14. AlignedBlocks'
  BY <1>7, <1>9 DEF IInv, AlignedBlocks
<1>15. \A w \in Who, j \in Orders : w # "held" => ~Has(w, b, j)
  <2> SUFFICES ASSUME NEW w \in Who, NEW j \in Orders, w # "held", Has(w, b, j) PROVE FALSE
    OBVIOUS
  <2>1. Apart(b, j, b, k)
    BY <1>6, <1>10
  <2> QED BY <2>1, <1>3, <1>6 DEF Apart
<1>16. LevelsAgree'
  <2>1. ASSUME NEW j \in Orders, NEW q \in freelist'[j]
        PROVE  bplevel'[q] = j
    <3>1. CASE q \in freelist[j]
      <4>1. q \in Pages /\ Has("free", q, j)
        BY <3>1, <1>1 DEF Has, TypeOK
      <4>2. q # b
        BY <4>1, <1>4, <1>15
      <4> QED BY <3>1, <4>1, <4>2, <1>1 DEF IInv, LevelsAgree, TypeOK
    <3>2. CASE q \notin freelist[j]
      BY <2>1, <3>2, <1>1, <1>6 DEF TypeOK
    <3> QED BY <3>1, <3>2
  <2>2. ASSUME NEW l \in live'
        PROVE  bplevel'[l[1]] = l[2]
    <3>1. l[1] \in Pages /\ l[2] \in Orders /\ l = <<l[1], l[2]>> /\ l \in live
      BY <2>2, <1>1 DEF TypeOK
    <3>2. Has("live", l[1], l[2]) /\ "live" \in Who
      BY <3>1 DEF Has, Who
    <3>3. l[1] # b
      BY <3>1, <3>2, <1>15
    <3> QED BY <3>1, <3>3, <1>1 DEF IInv, LevelsAgree, TypeOK
  <2> QED BY <2>1, <2>2 DEF LevelsAgree
<1>17. Feeding'
  <2>1. b + Size[k] <= fed /\ p + Size[k] <= fed
    BY <1>2, <1>3, <1>5
  <2>2. \A w \in Who, q \in Pages, j \in Orders : Has(w, q, j)' => q + Size[j] <= fed
    BY <2>1, <1>9 DEF IInv, Feeding
  <2>3. \A q \in Pages : ~(q >= fed)
    BY <1>2, NPagesAssumption DEF Pages
  <2> QED BY <1>1, <1>2, <2>2, <2>3, NPagesAssumption DEF Feeding
<1>18. WantOK'
  BY <1>1, <1>2, <1>6 DEF IInv, WantOK, TypeOK
<1> QED BY <1>8, <1>12, <1>13, <1>14, <1>16, <1>17, <1>18 DEF IInv

LEMMA StutterIInv == IInv /\ UNCHANGED vars => IInv'
<1> SUFFICES ASSUME IInv, UNCHANGED vars PROVE IInv'
  OBVIOUS
<1>1. /\ bplevel' = bplevel /\ freelist' = freelist /\ nr_free' = nr_free
      /\ fed' = fed /\ live' = live /\ call' = call
  BY DEF vars
<1>2. \A w, p, k : Has(w, p, k)' <=> Has(w, p, k)
  BY <1>1 DEF Has
<1> QED
  BY <1>1, <1>2 DEF IInv, TypeOK, Disjoint, Covered, AlignedBlocks, LevelsAgree,
                    Feeding, WantOK

\* Whatever the callers do, no step but a merge with a held block breaks it.
LEMMA NextIInv == IInv /\ ~MeetsHeld /\ [Next]_vars => IInv'
<1> SUFFICES ASSUME IInv, ~MeetsHeld, [Next]_vars PROVE IInv'
  OBVIOUS
<1>1. CASE FeedPage
  BY <1>1, FeedPageIInv
<1>2. CASE \E p \in Pages, k \in Orders : Free(p, k)
  BY <1>2, FreeIInv
<1>3. CASE Merge
  BY <1>3, MergeIInv, CallFacts DEF IInv
<1>4. CASE Link
  BY <1>4, LinkIInv, CallFacts DEF IInv
<1>5. CASE \E k \in Orders : Alloc(k)
  BY <1>5, AllocIInv
<1>6. CASE Split
  BY <1>6, SplitIInv, CallFacts DEF IInv
<1>7. CASE Return
  BY <1>7, ReturnIInv
<1>8. CASE UNCHANGED vars
  BY <1>8, StutterIInv
<1> QED BY <1>1, <1>2, <1>3, <1>4, <1>5, <1>6, <1>7, <1>8 DEF Next

----------------------------------------------------------------------------
(* Careful callers: __free_pages meets free blocks only. *)

LEMMA CarefulMeetsFree == IInv /\ CarefulCall => ~MeetsHeld
<1> SUFFICES ASSUME IInv, CarefulCall, MeetsHeld PROVE FALSE
  OBVIOUS
<1> DEFINE p == call.page
           k == call.order
           b == BuddyOf(p, k)
<1>1. /\ p \in Pages /\ k \in Orders /\ k \in Nat /\ k < MaxOrder
      /\ Has("held", p, k) /\ call.op = "free"
  BY CallFacts DEF IInv, MeetsHeld, CanMerge, Has
<1>2. b \in Pages /\ BuddyOf(b, k) = p /\ <<b, k>> \in live
  BY MergeFindsBlock DEF MeetsHeld
<1>3. PICK x \in Block(p, k) :
        \A q \in Pages, i \in k .. MaxOrder - 1 :
          <<q, i>> \in live /\ x \in Block(BuddyOf(q, i), i) => Blocked(q, i, live)
  BY <1>1 DEF CarefulCall
<1>4. Blocked(b, k, live)
  <2>1. k \in k .. MaxOrder - 1
    BY <1>1, MaxOrderAssumption
  <2> QED BY <2>1, <1>2, <1>3
<1>5. PICK h \in live : ~Apart(h[1], h[2], p, k)
  BY <1>2, <1>4 DEF Blocked
<1>6. h[1] \in Pages /\ h[2] \in Orders /\ Has("live", h[1], h[2])
  BY DEF IInv, TypeOK, Has
<1>7. Apart(h[1], h[2], p, k)
  BY <1>1, <1>6 DEF IInv, Disjoint, Who
<1> QED BY <1>5, <1>7

LEMMA CarefulCallKept == IInv /\ CarefulCall /\ [CarefulNext]_vars => CarefulCall'
<1> SUFFICES ASSUME IInv, CarefulCall, [CarefulNext]_vars PROVE CarefulCall'
  OBVIOUS
<1>0. /\ TypeOK /\ call.page \in Pages /\ call.page \in Nat
      /\ call.order \in Orders /\ call.order \in Nat /\ MaxOrder \in Nat
      /\ \A q \in Pages : q \in Nat
      /\ \A k \in Orders : Size[k] \in Nat /\ Size[k] >= 1
  BY CallFacts DEF IInv
<1>1. CASE FeedPage
  <2>1. /\ call' = [op |-> "free", page |-> fed, order |-> 0, want |-> 0]
        /\ live' = {} /\ fed \in Nat
    BY <1>0, <1>1 DEF FeedPage, EnterFree, IInv, Feeding, TypeOK
  <2>2. fed \in Block(fed, 0)
    BY <2>1, SizeAssumption DEF Block
  <2> QED BY <2>1, <2>2 DEF CarefulCall
<1>2. ASSUME NEW p \in Pages, NEW k \in Orders, CarefulFree(p, k) PROVE CarefulCall'
  <2>1. p \in Block(p, k)
    BY <1>0 DEF Block
  <2>2. /\ call' = [op |-> "free", page |-> p, order |-> k, want |-> 0]
        /\ live' = live \ {<<p, k>>}
    BY <1>2 DEF CarefulFree, Free, EnterFree
  <2>3. \A q \in Pages, j \in k .. MaxOrder - 1 :
          <<q, j>> \in live' /\ p \in Block(BuddyOf(q, j), j) => Blocked(q, j, live')
    BY <1>2, <2>2 DEF CarefulFree, Careful
  <2> QED BY <2>1, <2>2, <2>3 DEF CarefulCall
<1>3. CASE Merge
  <2> SUFFICES ASSUME NEW p, NEW k, NEW b, NEW c, p = call.page, k = call.order,
                      b = BuddyOf(p, k), c = IF b < p THEN b ELSE p
               PROVE  CarefulCall'
    OBVIOUS
  <2>1. /\ call.op = "free" /\ k < MaxOrder /\ k + 1 \in Orders
        /\ Size[k] \in Nat /\ Size[k + 1] = 2 * Size[k] /\ Size[k] >= 1
        /\ call' = [call EXCEPT !.page = c, !.order = k + 1] /\ live' = live
    BY <1>0, <1>3, SizeFacts DEF Merge, CanMerge
  <2>2. IsBlock(p, k)
    BY <1>0, <2>1 DEF IInv, AlignedBlocks, Who, Has
  <2>3. /\ b \in Nat
        /\ \/ b = p + Size[k] /\ c = p
           \/ p = b + Size[k] /\ c = b
    <3>1. b \in Nat /\ (b = p + Size[k] \/ b = p - Size[k])
      BY <1>0, <2>1, <2>2, BuddyFacts
    <3> QED BY <3>1, <1>0, <2>1
  <2>4. PICK x \in Block(p, k) :
          \A q \in Pages, j \in k .. MaxOrder - 1 :
            <<q, j>> \in live /\ x \in Block(BuddyOf(q, j), j) => Blocked(q, j, live)
    BY <2>1 DEF CarefulCall
  <2>5. x \in Block(c, k + 1)
    <3>1. x \in Int /\ p <= x /\ x < p + Size[k]
      BY <2>4, <1>0, <2>1 DEF Block
    <3>2. c \in Nat /\ c <= x /\ x < c + 2 * Size[k]
      BY <2>3, <3>1, <1>0, <2>1
    <3> QED BY <3>1, <3>2, <2>1 DEF Block
  <2>6. call'.page = c /\ call'.order = k + 1
    BY <1>0, <2>1 DEF TypeOK
  <2>7. \A j \in k + 1 .. MaxOrder - 1 : j \in k .. MaxOrder - 1
    BY <1>0
  <2> QED BY <2>1, <2>4, <2>5, <2>6, <2>7 DEF CarefulCall
<1>4. CASE Link \/ Return
  BY <1>4 DEF Link, Return, Idle, CarefulCall
<1>5. CASE \E k \in Orders : Alloc(k)
  BY <1>5 DEF Alloc, CarefulCall
<1>6. CASE Split
  <2>1. call'.op = "alloc"
    BY <1>0, <1>6 DEF Split, TypeOK
  <2> QED BY <2>1 DEF CarefulCall
<1>7. CASE UNCHANGED vars
  BY <1>7 DEF vars, CarefulCall
<1> QED BY <1>1, <1>2, <1>3, <1>4, <1>5, <1>6, <1>7 DEF CarefulNext

LEMMA CarefulStep == [CarefulNext]_vars => [Next]_vars
  BY DEF CarefulNext, CarefulFree, Next

LEMMA CarefulIInv == CarefulSpec => [](IInv /\ ~MeetsHeld)
<1>1. Init => IInv /\ CarefulCall
  BY InitIInv DEF Init, CarefulCall, Idle
<1>2. IInv /\ CarefulCall /\ [CarefulNext]_vars => (IInv /\ CarefulCall)'
  BY CarefulMeetsFree, CarefulCallKept, CarefulStep, NextIInv
<1>3. IInv /\ CarefulCall => IInv /\ ~MeetsHeld
  BY CarefulMeetsFree
<1> QED BY <1>1, <1>2, <1>3, PTL DEF CarefulSpec

\* Every element of Owned is a block somebody has.
LEMMA OwnedBlocks ==
  /\ \A x \in Owned : /\ x[1] \in Who /\ x[2] \in Pages /\ x[3] \in Orders
                      /\ Has(x[1], x[2], x[3]) /\ x = <<x[1], x[2], x[3]>>
  /\ \A w \in Who, p \in Pages, k \in Orders : Has(w, p, k) => <<w, p, k>> \in Owned
BY DEF Owned, Who

LEMMA IInvApart == IInv => NoOverlap
<1> SUFFICES ASSUME IInv, NEW x \in Owned, NEW y \in Owned, x # y
             PROVE  Apart(x[2], x[3], y[2], y[3])
  BY DEF NoOverlap
<1>1. /\ x[1] \in Who /\ x[2] \in Pages /\ x[3] \in Orders /\ Has(x[1], x[2], x[3])
      /\ y[1] \in Who /\ y[2] \in Pages /\ y[3] \in Orders /\ Has(y[1], y[2], y[3])
      /\ x = <<x[1], x[2], x[3]>> /\ y = <<y[1], y[2], y[3]>>
  BY OwnedBlocks
<1>2. x[1] # y[1] \/ x[2] # y[2] \/ x[3] # y[3]
  BY <1>1
<1> QED BY <1>1, <1>2 DEF IInv, Disjoint

\* Only Return and Free are seen by the callers, and what Return hands out is
\* apart from all they hold.
LEMMA StepKeepsPromise == IInv /\ [Next]_vars => [Promise!Next]_live
<1> SUFFICES ASSUME IInv, [Next]_vars PROVE [Promise!Next]_live
  OBVIOUS
<1>1. CASE Return
  <2>1. call.page \in Pages /\ call.want \in Orders /\ Has("held", call.page, call.want)
    BY <1>1, CallFacts DEF IInv, Return, Has
  <2>2. IsBlock(call.page, call.want)
    BY <2>1 DEF IInv, AlignedBlocks, Who
  <2>3. \A l \in live : Apart(call.page, call.want, l[1], l[2])
    <3> SUFFICES ASSUME NEW l \in live PROVE Apart(call.page, call.want, l[1], l[2])
      OBVIOUS
    <3>1. l[1] \in Pages /\ l[2] \in Orders /\ Has("live", l[1], l[2])
      BY DEF IInv, TypeOK, Has
    <3> QED BY <2>1, <3>1 DEF IInv, Disjoint, Who
  <2>4. Promise!Available(call.page, call.want)
    BY <2>2, <2>3 DEF Promise!Available, Promise!IsBlock, IsBlock, Promise!Apart, Apart
  <2>5. Promise!Alloc(call.page, call.want)
    BY <1>1, <2>4 DEF Promise!Alloc, Return
  <2> QED BY <2>1, <2>5 DEF Promise!Next, Promise!Pages, Promise!Orders, Pages, Orders
<1>2. ASSUME NEW p \in Pages, NEW k \in Orders, Free(p, k)
      PROVE  [Promise!Next]_live
  <2>1. Promise!Free(p, k)
    BY <1>2 DEF Free, Promise!Free
  <2> QED BY <2>1 DEF Promise!Next, Promise!Pages, Promise!Orders, Pages, Orders
<1>3. CASE FeedPage \/ Merge \/ Link \/ (\E k \in Orders : Alloc(k)) \/ Split \/ UNCHANGED vars
  BY <1>3 DEF FeedPage, Merge, Link, Alloc, Split, vars
<1> QED BY <1>1, <1>2, <1>3 DEF Next

\* A merge with a held block: the block in hand now has the pages of one the
\* caller still holds.
LEMMA HeldMergeOverlaps ==
  ASSUME IInv, MeetsHeld, Merge
  PROVE  ~NoOverlap'
<1> SUFFICES ASSUME NEW p, NEW k, NEW b, NEW c, p = call.page, k = call.order,
                    b = BuddyOf(p, k), c = IF b < p THEN b ELSE p
             PROVE  ~NoOverlap'
  OBVIOUS
<1>1. /\ TypeOK /\ p \in Pages /\ p \in Nat /\ k \in Orders /\ k < MaxOrder
      /\ call.op = "free" /\ Has("held", p, k)
      /\ Size[k] \in Nat /\ Size[k] >= 1 /\ k + 1 \in Orders /\ Size[k + 1] = 2 * Size[k]
  BY CallFacts, SizeFacts DEF IInv, MeetsHeld, CanMerge, Has
<1>2. b \in Pages /\ b \in Nat /\ IsBlock(b, k) /\ <<b, k>> \in live
  BY MergeFindsBlock DEF MeetsHeld, Pages
<1>3. IsBlock(p, k)
  BY <1>1 DEF IInv, AlignedBlocks, Who
<1>4. \/ b = p + Size[k] /\ c = p
      \/ p = b + Size[k] /\ c = b
  BY <1>1, <1>2, <1>3, BuddyFacts
<1>5. /\ call' = [call EXCEPT !.page = c, !.order = k + 1]
      /\ live' = live
  BY DEF Merge
<1>6. Has("live", b, k)' /\ Has("held", c, k + 1)'
  BY <1>1, <1>2, <1>5 DEF Has, TypeOK
<1>7. <<"live", b, k>> \in Owned' /\ <<"held", c, k + 1>> \in Owned'
  BY <1>1, <1>2, <1>4, <1>6 DEF Owned
<1>8. ~Apart(b, k, c, k + 1)
  BY <1>1, <1>2, <1>4 DEF Apart
<1> QED BY <1>7, <1>8 DEF NoOverlap

----------------------------------------------------------------------------
(* What holds of every state, whatever the callers do and has been merged. *)

Shape == TypeOK /\ AlignedBlocks

LEMMA ShapeKept == Shape /\ [Next]_vars => Shape'
<1> SUFFICES ASSUME Shape, [Next]_vars PROVE Shape'
  OBVIOUS
<1> DEFINE Calls == [op : {"none", "free", "alloc"}, page : Pages, order : Orders, want : Orders]
<1>0. /\ TypeOK /\ call.page \in Pages /\ call.page \in Nat
      /\ call.order \in Orders /\ call.order \in Nat
      /\ call.want \in Nat /\ call.want \in Orders
      /\ MaxOrder \in Nat /\ NPages \in Nat
      /\ \A q \in Pages : q \in Nat
      /\ \A k \in Orders : Size[k] \in Nat /\ Size[k] >= 1
  BY CallFacts DEF Shape
<1>1. /\ \A k \in Orders : \A p \in freelist[k] : p \in Pages /\ IsBlock(p, k)
      /\ \A p, k : <<p, k>> \in live => p \in Pages /\ k \in Orders /\ IsBlock(p, k)
      /\ call.op # "none" => IsBlock(call.page, call.order)
  BY <1>0 DEF Shape, TypeOK, AlignedBlocks, Who, Has
<1>2. 0 \in Orders /\ Size[0] = 1 /\ 0 \in Pages /\ Idle \in Calls
  BY <1>0, SizeAssumption, NPagesAssumption DEF Orders, Pages, Idle
\* what is to be shown, list by list
<1>3. ASSUME bplevel' \in [Pages -> -1 .. MaxOrder],
             freelist' \in [Orders -> SUBSET Pages],
             nr_free' \in [Orders -> Int],
             fed' \in 0 .. NPages,
             live' \subseteq Pages \X Orders,
             call' \in Calls,
             \A k \in Orders : \A p \in freelist'[k] : IsBlock(p, k),
             \A p \in Pages, k \in Orders : <<p, k>> \in live' => IsBlock(p, k),
             call'.op # "none" => IsBlock(call'.page, call'.order)
      PROVE  Shape'
  <2>1. TypeOK'
    BY <1>3 DEF TypeOK
  <2>2. ASSUME NEW w \in Who, NEW p \in Pages, NEW k \in Orders, Has(w, p, k)'
        PROVE  IsBlock(p, k)
    BY <1>3, <2>2 DEF Has
  <2> QED BY <2>1, <2>2 DEF Shape, AlignedBlocks
<1>4. CASE FeedPage
  <2>1. /\ call' = [op |-> "free", page |-> fed, order |-> 0, want |-> 0]
        /\ fed \in Pages /\ fed + 1 \in 0 .. NPages /\ fed' = fed + 1
        /\ UNCHANGED <<bplevel, freelist, nr_free, live>>
    BY <1>0, <1>4 DEF FeedPage, EnterFree, TypeOK, Pages
  <2>2. IsBlock(fed, 0)
    BY <1>0, <1>2, <2>1 DEF IsBlock, Pages
  <2>3. call' \in Calls /\ call'.page = fed /\ call'.order = 0
    BY <1>2, <2>1
  <2> QED BY <1>0, <1>1, <1>3, <2>1, <2>2, <2>3 DEF TypeOK
<1>5. ASSUME NEW p \in Pages, NEW k \in Orders, Free(p, k) PROVE Shape'
  <2>1. /\ call' = [op |-> "free", page |-> p, order |-> k, want |-> 0]
        /\ <<p, k>> \in live /\ live' \subseteq live
        /\ UNCHANGED <<bplevel, freelist, nr_free, fed>>
    BY <1>5 DEF Free, EnterFree
  <2>2. call' \in Calls /\ call'.page = p /\ call'.order = k
    BY <1>2, <2>1
  <2> QED BY <1>0, <1>1, <1>3, <2>1, <2>2 DEF TypeOK
<1>6. CASE Merge
  <2> SUFFICES ASSUME NEW p, NEW k, NEW b, NEW c, p = call.page, k = call.order,
                      b = BuddyOf(p, k), c = IF b < p THEN b ELSE p
               PROVE  Shape'
    OBVIOUS
  <2>1. /\ call.op = "free" /\ k < MaxOrder
        /\ freelist' = [freelist EXCEPT ![k] = @ \ {b}]
        /\ nr_free' = [nr_free EXCEPT ![k] = @ - 1]
        /\ bplevel' = [bplevel EXCEPT ![b] = -1]
        /\ call' = [call EXCEPT !.page = c, !.order = k + 1]
        /\ fed' = fed /\ live' = live
    BY <1>6 DEF Merge, CanMerge
  <2>2. k + 1 \in Orders /\ Size[k + 1] = 2 * Size[k]
    BY <1>0, <2>1, SizeFacts
  <2>3. c \in Pages /\ IsBlock(c, k + 1)
    <3>1. /\ b \in Nat /\ IsBlock(b, k)
          /\ \/ b = p + Size[k] /\ IsBlock(p, k + 1)
             \/ b = p - Size[k] /\ IsBlock(b, k + 1)
      BY <1>0, <1>1, <2>1, BuddyFacts
    <3>2. b \in Pages
      BY <1>0, <3>1 DEF IsBlock, Pages
    <3> QED BY <1>0, <3>1, <3>2
  <2>4. call' \in Calls /\ call'.page = c /\ call'.order = k + 1
    BY <1>0, <2>1, <2>2, <2>3 DEF TypeOK
  <2>5. /\ freelist' \in [Orders -> SUBSET Pages]
        /\ \A j \in Orders : freelist'[j] \subseteq freelist[j]
        /\ nr_free' \in [Orders -> Int]
    BY <1>0, <2>1 DEF TypeOK
  <2>6. bplevel' \in [Pages -> -1 .. MaxOrder]
    <3>1. -1 \in -1 .. MaxOrder
      BY <1>0
    <3> QED BY <1>0, <2>1, <3>1 DEF TypeOK
  <2> QED BY <1>0, <1>1, <1>3, <2>1, <2>3, <2>4, <2>5, <2>6 DEF TypeOK
<1>7. CASE Link
  <2>1. /\ call.op = "free"
        /\ bplevel' = [bplevel EXCEPT ![call.page] = call.order]
        /\ freelist' = [freelist EXCEPT ![call.order] = @ \cup {call.page}]
        /\ nr_free' = [nr_free EXCEPT ![call.order] = @ + 1]
        /\ call' = Idle /\ call'.op = "none" /\ fed' = fed /\ live' = live
    BY <1>7 DEF Link, Idle
  <2>2. /\ freelist' \in [Orders -> SUBSET Pages] /\ nr_free' \in [Orders -> Int]
        /\ \A j \in Orders : \A q \in freelist'[j] :
             q \in freelist[j] \/ (q = call.page /\ j = call.order)
    BY <1>0, <2>1 DEF TypeOK
  <2>3. bplevel' \in [Pages -> -1 .. MaxOrder]
    <3>1. call.order \in -1 .. MaxOrder
      BY <1>0 DEF Orders
    <3> QED BY <1>0, <2>1, <3>1 DEF TypeOK
  <2> QED BY <1>0, <1>1, <1>2, <1>3, <2>1, <2>2, <2>3 DEF TypeOK
<1>8. ASSUME NEW k \in Orders, Alloc(k) PROVE Shape'
  <2>1. PICK c \in k .. MaxOrder : \E p \in freelist[c] :
          /\ freelist' = [freelist EXCEPT ![c] = @ \ {p}]
          /\ nr_free'  = [nr_free EXCEPT ![c] = @ - 1]
          /\ bplevel'  = [bplevel EXCEPT ![p] = k]
          /\ call'     = [op |-> "alloc", page |-> p, order |-> c, want |-> k]
    BY <1>8 DEF Alloc
  <2>2. PICK p \in freelist[c] :
          /\ freelist' = [freelist EXCEPT ![c] = @ \ {p}]
          /\ nr_free'  = [nr_free EXCEPT ![c] = @ - 1]
          /\ bplevel'  = [bplevel EXCEPT ![p] = k]
          /\ call'     = [op |-> "alloc", page |-> p, order |-> c, want |-> k]
    BY <2>1
  <2>3. c \in Orders /\ p \in Pages /\ IsBlock(p, c) /\ fed' = fed /\ live' = live
    <3>1. c \in Orders
      BY <1>0 DEF Orders
    <3> QED BY <1>1, <1>8, <3>1 DEF Alloc
  <2>4. call' \in Calls /\ call'.page = p /\ call'.order = c
    BY <2>2, <2>3
  <2>5. /\ freelist' \in [Orders -> SUBSET Pages] /\ nr_free' \in [Orders -> Int]
        /\ \A j \in Orders : freelist'[j] \subseteq freelist[j]
    BY <1>0, <2>2, <2>3 DEF TypeOK
  <2>6. bplevel' \in [Pages -> -1 .. MaxOrder]
    <3>1. k \in -1 .. MaxOrder
      BY <1>0 DEF Orders
    <3> QED BY <1>0, <2>2, <3>1 DEF TypeOK
  <2> QED BY <1>0, <1>1, <1>3, <2>3, <2>4, <2>5, <2>6 DEF TypeOK
<1>9. CASE Split
  <2> SUFFICES ASSUME NEW p, NEW k, NEW b, p = call.page, k = call.order - 1,
                      b = p + Size[k]
               PROVE  Shape'
    OBVIOUS
  <2>1. /\ call.op = "alloc" /\ call.order > call.want
        /\ freelist' = [freelist EXCEPT ![k] = @ \cup {b}]
        /\ nr_free' = [nr_free EXCEPT ![k] = @ + 1]
        /\ bplevel' = [bplevel EXCEPT ![b] = k]
        /\ call' = [call EXCEPT !.order = k]
        /\ fed' = fed /\ live' = live
    BY <1>9 DEF Split
  <2>2. k \in Orders /\ k < MaxOrder /\ k + 1 = call.order /\ p \in Nat /\ p \in Pages
    BY <1>0, <2>1 DEF Orders
  <2>3. Size[k] \in Nat /\ Size[k] >= 1 /\ IsBlock(p, k + 1)
    BY <1>0, <1>1, <2>1, <2>2
  <2>4. IsBlock(p, k) /\ IsBlock(b, k)
    BY <2>2, <2>3, HalvesAreBlocks
  <2>5. b \in Pages
    BY <2>2, <2>3, <2>4, <1>0 DEF IsBlock, Pages
  <2>6. call' \in Calls /\ call'.page = p /\ call'.order = k
    BY <1>0, <2>1, <2>2 DEF TypeOK
  <2>7. /\ freelist' \in [Orders -> SUBSET Pages] /\ nr_free' \in [Orders -> Int]
        /\ \A j \in Orders : \A q \in freelist'[j] : q \in freelist[j] \/ (q = b /\ j = k)
    BY <1>0, <2>1, <2>2, <2>5 DEF TypeOK
  <2>8. bplevel' \in [Pages -> -1 .. MaxOrder]
    <3>1. k \in -1 .. MaxOrder
      BY <1>0, <2>2 DEF Orders
    <3> QED BY <1>0, <2>1, <3>1 DEF TypeOK
  <2> QED BY <1>0, <1>1, <1>3, <2>1, <2>4, <2>6, <2>7, <2>8 DEF TypeOK
<1>10. CASE Return
  <2>1. /\ live' = live \cup {<<call.page, call.want>>} /\ call' = Idle /\ call'.op = "none"
        /\ call.op = "alloc" /\ call.order = call.want
        /\ UNCHANGED <<bplevel, freelist, nr_free, fed>>
    BY <1>10 DEF Return, Idle
  <2> QED BY <1>0, <1>1, <1>2, <1>3, <2>1 DEF TypeOK
<1>11. CASE UNCHANGED vars
  BY <1>0, <1>1, <1>3, <1>11 DEF vars, TypeOK
<1> QED BY <1>4, <1>5, <1>6, <1>7, <1>8, <1>9, <1>10, <1>11 DEF Next

\* The variables keep their types, whatever the callers do.
THEOREM TypeCorrect == Spec => []TypeOK
<1>1. Init => Shape
  BY InitIInv DEF IInv, Shape
<1>2. Shape => TypeOK
  BY DEF Shape
<1> QED BY <1>1, <1>2, ShapeKept, PTL DEF Spec

\* Whatever the callers do, every block on a list, with a caller or in hand is
\* naturally aligned and inside the managed range: page_idx ^ (1 << bplevel)
\* is an element of the array of struct page even after a merge with a held
\* block (buddy.c:102).
THEOREM BlocksAreAligned == Spec => []Aligned
<1>1. Init => Shape
  BY InitIInv DEF IInv, Shape
<1>2. Shape => Aligned
  BY OwnedBlocks DEF Shape, AlignedBlocks, Aligned
<1> QED BY <1>1, <1>2, ShapeKept, PTL DEF Spec

----------------------------------------------------------------------------
(* Callers that allocate and free as they like, with the history variable. *)

LEMMA HistoryStep ==
  ASSUME met \/ IInv, [Goes]_history
  PROVE  /\ (met \/ IInv)'
         /\ [met' \/ Promise!Next]_live
         /\ ~met /\ met' => ~NoOverlap'
<1>1. CASE UNCHANGED history
  <2>1. met' = met /\ UNCHANGED vars /\ UNCHANGED live
    BY <1>1 DEF history, vars
  <2> QED BY <2>1, StutterIInv
<1>2. CASE Goes /\ met
  BY <1>2 DEF Goes
<1>3. CASE Goes /\ ~met /\ MeetsHeld
  <2>1. IInv /\ Merge
    <3>1. IInv /\ Next /\ call.op = "free" /\ CanMerge
      BY <1>3 DEF Goes, MeetsHeld
    <3>2. call # Idle
      BY <3>1 DEF Idle
    <3> QED BY <3>1, <3>2 DEF Next, FeedPage, Free, Link, Alloc, Split, Return
  <2>2. ~NoOverlap'
    BY <1>3, <2>1, HeldMergeOverlaps
  <2> QED BY <1>3, <2>2 DEF Goes
<1>4. CASE Goes /\ ~met /\ ~MeetsHeld
  <2>1. IInv /\ Next /\ met' = FALSE
    BY <1>4 DEF Goes
  <2> QED BY <1>4, <2>1, NextIInv, StepKeepsPromise
<1> QED BY <1>1, <1>2, <1>3, <1>4

LEMMA HistoryInv == AnyCallers => [](met \/ IInv)
<1>1. Starts => met \/ IInv
  BY InitIInv DEF Starts
<1>2. (met \/ IInv) /\ [Goes]_history => (met \/ IInv)'
  BY HistoryStep
<1> QED BY <1>1, <1>2, PTL DEF AnyCallers

\* Memory is shared by a merge with a held block and by nothing else: until
\* the first, no page is in two blocks, in whatever order the callers allocate
\* and free and however many pages there are.
THEOREM OnlyHeldMergeShares == AnyCallers => []SharedOnlyByHeldMerge
<1>1. (met \/ IInv) => SharedOnlyByHeldMerge
  BY IInvApart DEF SharedOnlyByHeldMerge
<1> QED BY <1>1, HistoryInv, PTL

\* And the first such merge always shares: the block it frees has the pages of
\* a block that a caller still holds.
THEOREM HeldMergeAlwaysShares == AnyCallers => HeldMergeShares
<1>1. (met \/ IInv) /\ [Goes]_history => [~met /\ met' => ~NoOverlap']_history
  BY HistoryStep
<1> QED BY <1>1, HistoryInv, PTL DEF AnyCallers, HeldMergeShares

\* Until then the allocator implements PageAlloc for callers of any behaviour:
\* returning a block is PageAlloc's Alloc, entering __free_pages its Free, and
\* no other step can be seen by a caller.
THEOREM KeepsItsPromise == AnyCallers => PromiseUntilHeldMerge
<1>1. (met \/ IInv) /\ [Goes]_history => [met' \/ Promise!Next]_live
  BY HistoryStep
<1> QED BY <1>1, HistoryInv, PTL DEF AnyCallers, PromiseUntilHeldMerge

\* No page is lost before that: each is on a free list, with a caller or in hand.
THEOREM NoPageIsLost == AnyCallers => []LostOnlyByHeldMerge
<1>1. IInv => NoLeak
  <2> SUFFICES ASSUME IInv, NEW p \in 0 .. fed - 1
               PROVE  \E x \in Owned : p \in Block(x[2], x[3])
    BY DEF NoLeak
  <2>1. p \in Pages /\ p < fed /\ p \in Nat
    BY NPagesAssumption DEF IInv, TypeOK, Pages
  <2>2. PICK w \in Who, q \in Pages, k \in Orders : Has(w, q, k) /\ q <= p /\ p < q + Size[k]
    BY <2>1 DEF IInv, Covered
  <2>3. <<w, q, k>> \in Owned /\ p \in Block(q, k)
    BY <2>1, <2>2, OwnedBlocks, SizeFacts DEF Block, Pages
  <2> QED BY <2>3
<1>2. (met \/ IInv) => LostOnlyByHeldMerge
  BY <1>1 DEF LostOnlyByHeldMerge
<1> QED BY <1>2, HistoryInv, PTL

\* Blocks are naturally aligned and inside the range, and the bplevel of a
\* block's first page is its order, on the lists and in the callers' hands,
\* until a merge meets a held block.
THEOREM BlocksAreWellFormed == AnyCallers => []WellFormedUntilHeldMerge
<1>1. IInv => WellFormed
  BY OwnedBlocks DEF IInv, AlignedBlocks, Aligned, WellFormed
<1>2. (met \/ IInv) => WellFormedUntilHeldMerge
  BY <1>1 DEF WellFormedUntilHeldMerge
<1> QED BY <1>2, HistoryInv, PTL

----------------------------------------------------------------------------
(* Callers whose frees are Careful: no merge meets a held block. *)

\* Careful callers never bring two holders of a page about.
THEOREM CarefulSharesNothing == CarefulSpec => []NoOverlap
<1> QED BY IInvApart, CarefulIInv, PTL

\* With careful callers the allocator implements PageAlloc.
THEOREM CarefulKeepsPromise == CarefulSpec => PageAllocSpec
<1>1. Init => Promise!Init
  BY DEF Init, Promise!Init
<1>2. IInv /\ [CarefulNext]_vars => [Promise!Next]_live
  BY CarefulStep, StepKeepsPromise
<1> QED BY <1>1, <1>2, CarefulIInv, PTL DEF CarefulSpec, PageAllocSpec, Promise!Spec

----------------------------------------------------------------------------
(* The counters and the completeness of coalescing rest on IInv. *)

LEMMA ListsAreFinite ==
  ASSUME TypeOK, NEW k \in Orders
  PROVE  IsFiniteSet(freelist[k])
<1>1. IsFiniteSet(Pages)
  BY NPagesAssumption, FS_Interval DEF Pages
<1>2. freelist[k] \in SUBSET Pages
  BY DEF TypeOK
<1> QED BY <1>1, <1>2, FS_Subset

\* A step that leaves met unset is one of the allocator's or its callers' that
\* meets no held block, or a stutter.
LEMMA UnmetStep ==
  ASSUME [Goes]_history, ~met'
  PROVE  ~met /\ (UNCHANGED vars \/ (Next /\ ~MeetsHeld))
<1>1. CASE UNCHANGED history
  <2>1. met' = met /\ UNCHANGED vars
    BY <1>1 DEF history, vars
  <2> QED BY <2>1
<1>2. CASE Goes
  BY <1>2 DEF Goes
<1> QED BY <1>1, <1>2

\* A page taken off a list or put on it changes that list's count by one.
LEMMA CountStep ==
  ASSUME TypeOK, CountsAgree, NEW k \in Orders, NEW p,
         \/ /\ p \in freelist[k]
            /\ freelist' = [freelist EXCEPT ![k] = @ \ {p}]
            /\ nr_free' = [nr_free EXCEPT ![k] = @ - 1]
         \/ /\ p \notin freelist[k]
            /\ freelist' = [freelist EXCEPT ![k] = @ \cup {p}]
            /\ nr_free' = [nr_free EXCEPT ![k] = @ + 1]
  PROVE  CountsAgree'
<1>1. IsFiniteSet(freelist[k]) /\ nr_free[k] = Cardinality(freelist[k])
  BY ListsAreFinite DEF CountsAgree
<1>2. CASE /\ p \in freelist[k]
           /\ freelist' = [freelist EXCEPT ![k] = @ \ {p}]
           /\ nr_free' = [nr_free EXCEPT ![k] = @ - 1]
  <2>1. Cardinality(freelist[k] \ {p}) = Cardinality(freelist[k]) - 1
    BY <1>1, <1>2, FS_RemoveElement
  <2> QED BY <1>1, <1>2, <2>1 DEF CountsAgree, TypeOK
<1>3. CASE /\ p \notin freelist[k]
           /\ freelist' = [freelist EXCEPT ![k] = @ \cup {p}]
           /\ nr_free' = [nr_free EXCEPT ![k] = @ + 1]
  <2>1. Cardinality(freelist[k] \cup {p}) = Cardinality(freelist[k]) + 1
    BY <1>1, <1>3, FS_AddElement
  <2> QED BY <1>1, <1>3, <2>1 DEF CountsAgree, TypeOK
<1> QED BY <1>2, <1>3

\* The block in hand and, while __alloc_pages splits, its upper half are on
\* no free list: list_add never links a page twice.
LEMMA HeldIsUnlisted ==
  ASSUME IInv, call.op # "none"
  PROVE  /\ \A k \in Orders : call.page \notin freelist[k]
         /\ call.op = "alloc" /\ call.order > call.want =>
              /\ call.order - 1 \in Orders
              /\ call.page + Size[call.order - 1] \in Pages
              /\ \A k \in Orders : call.page + Size[call.order - 1] \notin freelist[k]
<1> DEFINE p == call.page
           c == call.order
<1>1. /\ TypeOK /\ p \in Pages /\ c \in Orders /\ p \in Nat /\ c \in Nat
      /\ call.want \in Nat /\ Has("held", p, c) /\ NPages \in Nat
  BY CallFacts DEF IInv, Has
<1>2. \A q \in Pages, k \in Orders : q \in freelist[k] => Apart(p, c, q, k)
  BY <1>1 DEF IInv, Disjoint, Who, Has
<1>3. \A k \in Orders : Size[k] \in Nat /\ Size[k] >= 1
  BY SizeFacts
<1>4. \A k \in Orders : p \notin freelist[k]
  BY <1>1, <1>2, <1>3 DEF Apart
<1>5. ASSUME call.op = "alloc", c > call.want
      PROVE  /\ c - 1 \in Orders
             /\ p + Size[c - 1] \in Pages
             /\ \A k \in Orders : p + Size[c - 1] \notin freelist[k]
  <2>1. c - 1 \in Orders /\ Size[c] = 2 * Size[c - 1]
    <3>1. c - 1 \in Orders /\ c - 1 < MaxOrder /\ (c - 1) + 1 = c
      BY <1>1, <1>5, MaxOrderAssumption DEF Orders
    <3> QED BY <3>1, SizeFacts
  <2>2. IsBlock(p, c)
    BY <1>1 DEF IInv, AlignedBlocks, Who
  <2>3. p + Size[c - 1] \in Pages
    BY <1>1, <1>3, <2>1, <2>2 DEF IsBlock, Pages
  <2>4. ASSUME NEW k \in Orders, p + Size[c - 1] \in freelist[k] PROVE FALSE
    <3>1. Apart(p, c, p + Size[c - 1], k)
      BY <1>2, <2>3, <2>4
    <3> QED BY <3>1, <1>1, <1>3, <2>1 DEF Apart
  <2> QED BY <2>1, <2>3, <2>4
<1> QED BY <1>4, <1>5

\* nr_free[k] is the length of the list of order k, so the unsigned counter
\* does not wrap before a merge meets a held block.
THEOREM CountersAreExact == AnyCallers => [](met \/ CountsAgree)
<1>1. Init => CountsAgree
  BY FS_EmptySet DEF Init, CountsAgree
<1>2. IInv /\ CountsAgree /\ (UNCHANGED vars \/ (Next /\ ~MeetsHeld)) => CountsAgree'
  <2> SUFFICES ASSUME IInv, CountsAgree, UNCHANGED vars \/ (Next /\ ~MeetsHeld)
               PROVE  CountsAgree'
    OBVIOUS
  <2>0. TypeOK
    BY DEF IInv
  <2>1. ASSUME freelist' = freelist, nr_free' = nr_free PROVE CountsAgree'
    BY <2>1 DEF CountsAgree
  <2>2. CASE FeedPage \/ (\E p \in Pages, k \in Orders : Free(p, k)) \/ Return
             \/ UNCHANGED vars
    BY <2>1, <2>2 DEF FeedPage, Free, Return, vars
  <2>3. CASE Merge /\ ~MeetsHeld
    <3>1. BuddyOf(call.page, call.order) \in freelist[call.order]
      BY <2>3 DEF Merge, MeetsHeld
    <3> QED BY <2>0, <2>3, <3>1, CallFacts, CountStep DEF Merge
  <2>4. CASE Link
    BY <2>0, <2>4, HeldIsUnlisted, CallFacts, CountStep DEF Link
  <2>5. CASE \E k \in Orders : Alloc(k)
    <3>1. PICK k \in Orders : Alloc(k)
      BY <2>5
    <3>2. PICK c \in k .. MaxOrder : \E p \in freelist[c] :
            /\ freelist' = [freelist EXCEPT ![c] = @ \ {p}]
            /\ nr_free'  = [nr_free EXCEPT ![c] = @ - 1]
      BY <3>1 DEF Alloc
    <3>3. c \in Orders
      BY MaxOrderAssumption DEF Orders
    <3> QED BY <2>0, <3>2, <3>3, CountStep
  <2>6. CASE Split
    BY <2>0, <2>6, HeldIsUnlisted, CountStep DEF Split
  <2> QED BY <2>2, <2>3, <2>4, <2>5, <2>6 DEF Next
<1>3. Starts => met \/ CountsAgree
  BY <1>1 DEF Starts
<1>4. (met \/ IInv) /\ (met \/ CountsAgree) /\ [Goes]_history => (met \/ CountsAgree)'
  BY <1>2, UnmetStep
<1> QED BY <1>3, <1>4, HistoryInv, PTL DEF AnyCallers

\* Two free buddies never stay apart before a merge meets a held block.
THEOREM CoalescingIsComplete == AnyCallers => []CoalescedUntilHeldMerge
<1>1. Init => Coalesced
  BY MaxOrderAssumption DEF Init, Coalesced, Orders
<1>2. IInv /\ Coalesced /\ [Next]_vars => Coalesced'
  <2> SUFFICES ASSUME IInv, Coalesced, [Next]_vars PROVE Coalesced'
    OBVIOUS
  <2>0. TypeOK /\ MaxOrder \in Nat /\ \A k \in 0 .. MaxOrder - 1 : k \in Orders /\ k < MaxOrder
    BY MaxOrderAssumption DEF IInv, Orders
  <2>1. ASSUME \A k \in Orders : freelist'[k] \subseteq freelist[k] PROVE Coalesced'
    BY <2>0, <2>1 DEF Coalesced
  <2>2. CASE FeedPage \/ (\E p \in Pages, k \in Orders : Free(p, k)) \/ Return
             \/ UNCHANGED vars
    BY <2>1, <2>2 DEF FeedPage, Free, Return, vars
  <2>3. CASE Merge \/ \E k \in Orders : Alloc(k)
    BY <2>0, <2>1, <2>3 DEF Merge, Alloc, TypeOK
  \* a block p of order i joins the list; its buddy is not on it
  <2>4. ASSUME NEW i \in Orders, NEW p \in Pages,
               freelist' = [freelist EXCEPT ![i] = @ \cup {p}],
               IsBlock(p, i),
               i < MaxOrder => BuddyOf(p, i) \notin freelist[i]
        PROVE  Coalesced'
    <3> SUFFICES ASSUME NEW k \in 0 .. MaxOrder - 1, NEW q \in freelist'[k]
                 PROVE  BuddyOf(q, k) \notin freelist'[k]
      BY DEF Coalesced
    <3>1. k \in Orders /\ k < MaxOrder /\ q \in freelist[k] \cup {p}
          /\ (k # i => freelist'[k] = freelist[k])
          /\ (k = i => freelist'[k] = freelist[k] \cup {p})
      BY <2>0, <2>4 DEF TypeOK
    <3>2. CASE k # i
      BY <3>1, <3>2 DEF Coalesced
    <3>3. CASE k = i
      <4>1. q \in Pages /\ q \in Nat /\ p \in Nat /\ IsBlock(q, k)
        BY <2>0, <2>4, <3>1, <3>3 DEF IInv, AlignedBlocks, Who, Has, TypeOK, Pages
      <4>2. BuddyOf(q, k) # q /\ BuddyOf(BuddyOf(q, k), k) = q
        <5>1. Size[k] \in Nat /\ Size[k] >= 1
          BY <3>1, SizeFacts
        <5> QED BY <4>1, <3>1, <5>1, BuddyFacts
      <4>3. CASE q = p
        BY <2>4, <3>1, <3>3, <4>2, <4>3
      <4>4. CASE q # p
        <5>1. q \in freelist[k] /\ BuddyOf(q, k) \notin freelist[k]
          BY <3>1, <4>4 DEF Coalesced
        <5>2. BuddyOf(q, k) # p
          BY <2>4, <3>1, <3>3, <4>2, <5>1
        <5> QED BY <3>1, <3>3, <5>1, <5>2
      <4> QED BY <4>3, <4>4
    <3> QED BY <3>2, <3>3
  <2>5. CASE Link
    <3>1. /\ call.page \in Pages /\ call.order \in Orders
          /\ IsBlock(call.page, call.order)
      BY <2>0, <2>5, CallFacts DEF Link, IInv, AlignedBlocks, Who, Has
    <3>2. call.order < MaxOrder => BuddyOf(call.page, call.order) \notin freelist[call.order]
      BY <2>5, <3>1 DEF Link, CanMerge, IInv, LevelsAgree
    <3>3. freelist' = [freelist EXCEPT ![call.order] = @ \cup {call.page}]
      BY <2>5 DEF Link
    <3> QED BY <2>4, <3>1, <3>2, <3>3
  <2>6. CASE Split
    <3> SUFFICES ASSUME NEW p, NEW k, NEW b, p = call.page, k = call.order - 1, b = p + Size[k]
                 PROVE  Coalesced'
      OBVIOUS
    <3>1. /\ call.op = "alloc" /\ call.order > call.want
          /\ freelist' = [freelist EXCEPT ![k] = @ \cup {b}]
      BY <2>6 DEF Split
    <3>2. k \in Orders /\ b \in Pages /\ p \in Pages /\ p \notin freelist[k]
      BY <3>1, <2>0, HeldIsUnlisted, CallFacts
    <3>3. k < MaxOrder /\ k + 1 = call.order /\ IsBlock(p, call.order) /\ p \in Nat
      BY <2>0, <3>1, <3>2, CallFacts DEF Orders, IInv, AlignedBlocks, Who, Has, Pages
    <3>4. Size[k] \in Nat /\ Size[k] >= 1 /\ Size[k + 1] = 2 * Size[k]
      BY <3>2, <3>3, SizeFacts
    <3>5. /\ \E m \in 0 .. p : p = 2 * m * Size[k]
          /\ IsBlock(p, k)
      <4>1. PICK m \in 0 .. p : p = m * Size[k + 1]
        BY <3>3 DEF IsBlock
      <4>2. p = 2 * m * Size[k] /\ p = (2 * m) * Size[k]
        BY <4>1, <3>4
      <4>3. 2 * m \in 0 .. p
        <5> DEFINE s == Size[k]
        <5>1. s \in Nat /\ s - 1 \in Nat /\ p = (2 * m) * s
          BY <3>4, <4>2
        <5> HIDE DEF s
        <5>2. (2 * m) * (s - 1) >= 0 /\ (2 * m) * (s - 1) = (2 * m) * s - 2 * m
          BY <5>1
        <5> QED BY <5>1, <5>2, <3>3
      <4>4. p + Size[k] <= NPages
        BY <3>3, <3>4, NPagesAssumption DEF IsBlock
      <4> QED BY <4>2, <4>3, <4>4 DEF IsBlock
    <3>6. BuddyOf(p, k) = b
      BY <3>5 DEF BuddyOf
    <3>7. BuddyOf(b, k) = p /\ IsBlock(b, k)
      BY <3>2, <3>3, <3>5, <3>6, BuddyFacts
    <3> QED BY <2>4, <3>1, <3>2, <3>7
  <2> QED BY <2>2, <2>3, <2>5, <2>6 DEF Next
<1>3. Starts => CoalescedUntilHeldMerge
  BY <1>1 DEF Starts, CoalescedUntilHeldMerge
<1>4. (met \/ IInv) /\ CoalescedUntilHeldMerge /\ [Goes]_history => CoalescedUntilHeldMerge'
  BY <1>2, UnmetStep DEF CoalescedUntilHeldMerge
<1> QED BY <1>3, <1>4, HistoryInv, PTL DEF AnyCallers
=============================================================================
