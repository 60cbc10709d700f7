---------------------------- MODULE BootmmProofs ----------------------------
(***************************************************************************)
(* The search of the bitmap finds free pages and only free pages, and the  *)
(* table describes the same memory: proofs for any size of memory, any     *)
(* length of the table and any calls.                                      *)
(***************************************************************************)
EXTENDS Bootmm, SequenceTheorems, WellFoundedInduction, TLAPS

Pfns == 0 .. MaxPfn - 1
Segments == [start : Pfns, end : Pfns, type : Types]

\* What the two searches know while they are under way and when they succeed: the pages
\* from index to tmp are free, and tmp is as far as has been counted.
SearchOK ==
  /\ Searching => call.end = IF call.op = "forward" THEN MaxPfn ELSE last_alloc_end
  /\ Searching /\ call.cnt > 0 =>
       /\ call.tmp = call.index + call.n - call.cnt
       /\ call.cnt <= call.n
       /\ call.index < call.end
       /\ (call.index .. call.tmp) \cap used = {}
       /\ call.tmp <= call.end
  /\ call.op = "found" =>
       /\ call.tmp = call.index + call.n
       /\ call.tmp <= MaxPfn
       /\ Run(call.index, call.n) \cap used = {}
  /\ last_alloc_end \in used

\* Every run of n pages that begins in lo .. hi has a page in use.
NoRun(lo, hi, n) ==
  \A p \in lo .. hi : p + n <= MaxPfn => \E q \in p .. p + n - 1 : q \in used

\* A search without an alignment has left no run behind: not from the last reservation
\* up to where it is, and in the second search not from there to the end either.
LeftNothing ==
  Searching /\ call.align = 1 =>
    /\ call.op = "forward" => NoRun(last_alloc_end + 1, call.index - 1, call.n)
    /\ call.op = "front" => /\ NoRun(0, call.index - 1, call.n)
                            /\ NoRun(last_alloc_end + 1, MaxPfn, call.n)

Calls ==
  [op : {"none", "forward", "front", "found", "over", "stuck"},
   who : {"nobody", "boot", "init_buddy"}, n : Nat \ {0}, type : Types,
   align : Nat \ {0}, index : Nat, end : 0 .. MaxPfn, tmp : Nat, cnt : Nat]

Scalars == used \subseteq Pfns /\ last_alloc_end \in Pfns /\ call \in Calls

SInv == Scalars /\ SearchOK /\ LeftNothing

LEMMA RoundUpFacts ==
  ASSUME NEW s \in Nat, NEW a \in Nat \ {0}
  PROVE  RoundUp(s, a) \in Nat /\ RoundUp(s, a) >= s
<1> DEFINE q == (s + a - 1) \div a
<1>1. q \in Nat /\ s + a - 1 < (q + 1) * a
  OBVIOUS
<1>2. (q + 1) * a = q * a + a /\ q * a \in Nat
  BY <1>1
<1> QED BY <1>1, <1>2 DEF RoundUp

LEMMA RoundUpOne ==
  ASSUME NEW s \in Nat PROVE RoundUp(s, 1) = s
BY DEF RoundUp

LEMMA SInvInit == Init => SInv
BY MapAssumption DEF Init, SInv, Scalars, Calls, SearchOK, LeftNothing, Searching, Over, Call, Run, Pfns

LEMMA SInvNext == SInv /\ [Next]_vars => SInv'
<1> SUFFICES ASSUME SInv, [Next]_vars PROVE SInv'
  OBVIOUS
<1> USE MapAssumption, RequestAssumption DEF Pfns
<1>1. ASSUME NEW n \in Nat \ {0}, NEW t \in Types, NEW a \in Nat \ {0},
             NEW who \in {"boot", "init_buddy"}, bootmm_alloc_pages(who, n, t, a)
      PROVE  SInv'
  <2>1. last_alloc_end + 1 \in Nat
    BY DEF SInv, Scalars, Calls
  <2>2. RoundUp(last_alloc_end + 1, a) \in Nat
    BY <2>1, RoundUpFacts
  <2>3. a = 1 => RoundUp(last_alloc_end + 1, a) = last_alloc_end + 1
    BY <2>1, RoundUpOne
  <2>4. /\ call' = [op |-> "forward", who |-> who, n |-> n, type |-> t, align |-> a,
                    index |-> RoundUp(last_alloc_end + 1, a), end |-> MaxPfn, tmp |-> 0, cnt |-> 0]
        /\ UNCHANGED <<used, last_alloc_end>>
    BY <1>1 DEF bootmm_alloc_pages, Call
  <2>5. Scalars'
    BY <2>2, <2>4 DEF SInv, Scalars, Calls
  <2>6. SearchOK'
    BY <2>4 DEF SInv, SearchOK, Searching
  <2>7. LeftNothing'
    BY <2>1, <2>3, <2>4 DEF LeftNothing, Searching, NoRun
  <2> QED BY <2>5, <2>6, <2>7 DEF SInv
<1>2. CASE SkipUsed
  <2>1. /\ Searching /\ call.cnt = 0 /\ call.index \in used
        /\ call' = [call EXCEPT !.index = call.index + 1]
        /\ UNCHANGED <<used, last_alloc_end>>
    BY <1>2 DEF SkipUsed
  <2>2. Scalars'
    BY <2>1 DEF SInv, Scalars, Calls
  <2>3. SearchOK'
    BY <2>1, <2>2 DEF SInv, Scalars, Calls, SearchOK, Searching
  <2>4. LeftNothing'
    BY <2>1 DEF SInv, Scalars, Calls, LeftNothing, Searching, NoRun
  <2> QED BY <2>2, <2>3, <2>4 DEF SInv
<1>3. CASE StartCounting
  <2>1. /\ Searching /\ call.cnt = 0 /\ call.index \notin used /\ call.index < call.end
        /\ call' = [call EXCEPT !.tmp = call.index, !.cnt = call.n]
        /\ UNCHANGED <<used, last_alloc_end>>
    BY <1>3 DEF StartCounting
  <2>2. Scalars'
    BY <2>1 DEF SInv, Scalars, Calls
  <2>3. SearchOK'
    BY <2>1, <2>2 DEF SInv, Scalars, Calls, SearchOK, Searching
  <2>4. LeftNothing'
    BY <2>1 DEF SInv, Scalars, Calls, LeftNothing, Searching, NoRun
  <2> QED BY <2>2, <2>3, <2>4 DEF SInv
<1>4. CASE CountPage
  <2>1. /\ Searching /\ call.cnt > 0 /\ call.tmp < call.end
        /\ UNCHANGED <<used, last_alloc_end>>
    BY <1>4 DEF CountPage
  <2>2. /\ call.tmp = call.index + call.n - call.cnt
        /\ call.cnt <= call.n /\ call.index < call.end
        /\ (call.index .. call.tmp) \cap used = {}
        /\ call.tmp <= call.end
        /\ call.end <= MaxPfn
    BY <2>1 DEF SInv, Scalars, Calls, SearchOK
  <2>3. CASE call.cnt = 1
    <3>1. call' = [call EXCEPT !.op = "found", !.tmp = call.tmp + 1, !.cnt = 0]
      BY <1>4, <2>3 DEF CountPage
    <3>2. Scalars'
      <4>1. call.tmp + 1 \in Nat
        BY DEF SInv, Scalars, Calls
      <4>2. call' \in Calls
        BY <3>1, <4>1 DEF SInv, Scalars, Calls
      <4> QED BY <2>1, <4>2 DEF SInv, Scalars
    <3>3. SearchOK'
      BY <2>1, <2>2, <2>3, <3>1 DEF SInv, Scalars, Calls, SearchOK, Searching, Run
    <3> QED BY <3>1, <3>2, <3>3 DEF SInv, Scalars, Calls, LeftNothing, Searching
  <2>4. CASE call.cnt /= 1 /\ call.tmp + 1 \in used
    <3>1. call' = [call EXCEPT !.index = call.tmp + 1 + call.align, !.tmp = 0, !.cnt = 0]
      BY <1>4, <2>4 DEF CountPage
    <3>2. Scalars'
      <4>1. call.tmp + 1 + call.align \in Nat
        BY DEF SInv, Scalars, Calls
      <4>2. call' \in Calls
        BY <3>1, <4>1 DEF SInv, Scalars, Calls
      <4> QED BY <2>1, <4>2 DEF SInv, Scalars
    <3>3. SearchOK'
      BY <2>1, <3>1 DEF SInv, Scalars, Calls, SearchOK, Searching
    <3>4. ASSUME call.align = 1, NEW lo \in Nat, NoRun(lo, call.index - 1, call.n)
          PROVE  NoRun(lo, call.tmp + 1, call.n)
      <4> SUFFICES ASSUME NEW p \in lo .. call.tmp + 1, p > call.index - 1
                   PROVE  call.tmp + 1 \in p .. p + call.n - 1
        BY <2>4, <3>4 DEF NoRun, SInv, Scalars, Calls
      <4> QED BY <2>1, <2>2, <2>4 DEF SInv, Scalars, Calls
    <3>5. LeftNothing'
      <4>1. call.align = 1 => call'.index - 1 = call.tmp + 1
        BY <3>1 DEF SInv, Scalars, Calls
      <4>2. last_alloc_end + 1 \in Nat
        BY DEF SInv, Scalars, Calls
      <4> QED BY <2>1, <3>1, <3>4, <4>1, <4>2 DEF SInv, Scalars, Calls, LeftNothing, Searching, NoRun
    <3> QED BY <3>2, <3>3, <3>5 DEF SInv
  <2>5. CASE call.cnt /= 1 /\ call.tmp + 1 \notin used
    <3>1. call' = [call EXCEPT !.tmp = call.tmp + 1, !.cnt = call.cnt - 1]
      BY <1>4, <2>5 DEF CountPage
    <3>2. Scalars'
      <4>1. call.tmp + 1 \in Nat /\ call.cnt - 1 \in Nat
        BY <2>1 DEF SInv, Scalars, Calls
      <4>2. call' \in Calls
        BY <3>1, <4>1 DEF SInv, Scalars, Calls
      <4> QED BY <2>1, <4>2 DEF SInv, Scalars
    <3>3. SearchOK'
      BY <2>1, <2>2, <2>5, <3>1 DEF SInv, Scalars, Calls, SearchOK, Searching
    <3>4. LeftNothing'
      BY <2>1, <3>1 DEF SInv, Scalars, Calls, LeftNothing, Searching, NoRun
    <3> QED BY <3>2, <3>3, <3>4 DEF SInv
  <2> QED BY <2>3, <2>4, <2>5
<1>5. CASE SearchEnds
  <2> USE DEF Searching
  <2>1. CASE call.op = "forward"
    <3>1. RoundUp(0, call.align) \in Nat /\ (call.align = 1 => RoundUp(0, call.align) = 0)
      BY RoundUpFacts, RoundUpOne DEF SInv, Scalars, Calls
    <3>2. /\ call' = [call EXCEPT !.op = "front", !.index = RoundUp(0, call.align),
                                  !.end = last_alloc_end, !.tmp = 0, !.cnt = 0]
          /\ UNCHANGED <<used, last_alloc_end>>
      BY <1>5, <2>1 DEF SearchEnds
    <3>3. Scalars'
      <4>1. last_alloc_end \in 0 .. MaxPfn
        BY DEF SInv, Scalars
      <4>2. call' \in Calls
        BY <3>1, <3>2, <4>1 DEF SInv, Scalars, Calls
      <4> QED BY <3>2, <4>2 DEF SInv, Scalars
    <3>4. SearchOK'
      BY <3>2, <3>3 DEF SInv, Scalars, Calls, SearchOK
    <3>5. call.align = 1 => NoRun(last_alloc_end + 1, MaxPfn, call.n)
      <4> SUFFICES ASSUME call.align = 1, NEW p \in last_alloc_end + 1 .. MaxPfn,
                          p > call.index - 1, p + call.n <= MaxPfn
                   PROVE  FALSE
        BY <2>1 DEF SInv, Scalars, Calls, LeftNothing, NoRun
      <4> QED BY <1>5, <2>1 DEF SearchEnds, SInv, Scalars, Calls, SearchOK
    <3>6. LeftNothing'
      BY <3>1, <3>2, <3>5 DEF SInv, Scalars, Calls, LeftNothing, NoRun
    <3> QED BY <3>3, <3>4, <3>6 DEF SInv
  <2>2. CASE call.op = "front"
    <3>1. /\ call' = Over(IF call.who = "init_buddy" THEN "stuck" ELSE "none")
          /\ UNCHANGED <<used, last_alloc_end>>
      BY <1>5, <2>2 DEF SearchEnds
    <3> QED BY <3>1 DEF SInv, Scalars, Calls, SearchOK, LeftNothing, Over, Call
  <2> QED BY <1>5, <2>1, <2>2 DEF SearchEnds
<1>6. CASE Reserve
  <2>1. /\ call.op = "found"
        /\ last_alloc_end' = call.tmp - 1
        /\ used' = used \cup Run(call.index, call.n)
        /\ call' = Over(IF call.who = "init_buddy" THEN "over" ELSE "none")
    BY <1>6 DEF Reserve
  <2>2. call.tmp = call.index + call.n /\ call.tmp <= MaxPfn
    BY <2>1 DEF SInv, SearchOK
  <2>3. Scalars'
    BY <2>1, <2>2 DEF SInv, Scalars, Calls, Over, Call, Run
  <2>4. SearchOK' /\ LeftNothing'
    BY <2>1, <2>2 DEF SInv, Scalars, Calls, SearchOK, LeftNothing, Searching, Over, Call, Run
  <2> QED BY <2>3, <2>4 DEF SInv
<1>7. ASSUME NEW i \in DOMAIN info, NEW page \in 0 .. MaxPfn - 1, split_mminfo(i, page)
      PROVE  SInv'
  <2>1. /\ call.op = "none" /\ UNCHANGED <<used, last_alloc_end>>
        /\ call' = call \/ call' = Over("stuck")
    BY <1>7 DEF split_mminfo
  <2>2. Scalars'
    BY <2>1 DEF SInv, Scalars, Calls, Over, Call
  <2> QED BY <2>1, <2>2 DEF SInv, SearchOK, LeftNothing, Searching, Over, Call
<1>8. CASE UNCHANGED vars
  BY <1>8 DEF vars, SInv, Scalars, Calls, SearchOK, LeftNothing, Searching, NoRun
<1> QED BY <1>1, <1>2, <1>3, <1>4, <1>5, <1>6, <1>7, <1>8 DEF Next

LEMMA SearchInvariant == Spec => []SInv
BY SInvInit, SInvNext, PTL DEF Spec

\* A call that succeeds takes free pages, as many as were asked for, and remembers the
\* last of them: for every size of memory and any calls.
THEOREM PagesAreReservedOnce == Spec => NeverTwice
<1>1. SInv /\ [Next]_vars =>
        [used' /= used => used' \ used = Run(last_alloc_end' - call.n + 1, call.n)]_vars
  <2> SUFFICES ASSUME SInv, Next, used' /= used
               PROVE  used' \ used = Run(last_alloc_end' - call.n + 1, call.n)
    OBVIOUS
  <2>1. Reserve
    BY DEF Next, bootmm_alloc_pages, split_mminfo, SkipUsed, StartCounting, CountPage, SearchEnds
  <2> QED BY <2>1, MapAssumption DEF Reserve, SInv, Scalars, Calls, SearchOK, Run
<1> QED BY <1>1, SearchInvariant, PTL DEF Spec, NeverTwice

\* A call without an alignment fails only if memory has no run of free pages long enough.
THEOREM SearchIsComplete == Spec => FailsOnlyWhenFull
<1>1. SInv /\ [Next]_vars =>
        [call.op = "front" /\ ~Searching' /\ used' = used /\ call'.op /= "found" /\ call.align = 1
           => \A p \in 0 .. MaxPfn - call.n : Run(p, call.n) \cap used /= {}]_vars
  <2> SUFFICES ASSUME SInv, Next, call.op = "front", ~Searching', used' = used,
                      call'.op /= "found", call.align = 1,
                      NEW p \in 0 .. MaxPfn - call.n
               PROVE  Run(p, call.n) \cap used /= {}
    OBVIOUS
  <2>1. SearchEnds
    BY DEF Next, bootmm_alloc_pages, split_mminfo, SkipUsed, StartCounting, CountPage, Reserve,
           Searching, SInv, Scalars, Calls
  <2>2. /\ NoRun(0, call.index - 1, call.n) /\ NoRun(last_alloc_end + 1, MaxPfn, call.n)
        /\ last_alloc_end \in used
    BY DEF SInv, LeftNothing, Searching, SearchOK
  <2>3. CASE p <= call.index - 1 \/ p >= last_alloc_end + 1
    BY <2>2, <2>3, MapAssumption DEF NoRun, SInv, Scalars, Calls, Run, Pfns
  <2>4. CASE p > call.index - 1 /\ p <= last_alloc_end
    <3>1. last_alloc_end \in Run(p, call.n)
      BY <2>1, <2>4, MapAssumption DEF SearchEnds, SInv, Scalars, Calls, SearchOK, Run, Pfns, Searching
    <3> QED BY <2>2, <3>1
  <2> QED BY <2>3, <2>4, MapAssumption DEF SInv, Scalars, Calls, Pfns
<1> QED BY <1>1, SearchInvariant, PTL DEF Spec, FailsOnlyWhenFull
-----------------------------------------------------------------------------
(* The table *)

Less == {xy \in Nat \X Nat : xy[1] < xy[2]}

LEMMA LessWellFounded == IsWellFoundedOn(Less, Nat)
BY NatLessThanWellFounded DEF OpToRel, Less

LEMMA MinFacts ==
  ASSUME NEW S, S \subseteq Nat, S /= {}
  PROVE  Min(S) \in S /\ \A x \in S : Min(S) <= x
<1>1. PICK m \in S : \A x \in S : ~(<<x, m>> \in Less)
  BY WFMin, LessWellFounded
<1>2. \A x, y \in Nat : x < y => <<x, y>> \in Less
  BY DEF Less
<1>3. ASSUME NEW x \in S PROVE m <= x
  <2>1. ~(x < m)
    BY <1>1, <1>2
  <2> QED BY <2>1
<1> QED BY <1>3 DEF Min

LEMMA RemoveFacts ==
  ASSUME NEW S, NEW s \in Seq(S), NEW i \in 1 .. Len(s)
  PROVE  /\ RemoveAt(s, i) \in Seq(S)
         /\ Len(RemoveAt(s, i)) = Len(s) - 1
         /\ \A j \in 1 .. Len(s) - 1 :
              RemoveAt(s, i)[j] = IF j < i THEN s[j] ELSE s[j + 1]
<1> DEFINE front == SubSeq(s, 1, i - 1)
           back  == SubSeq(s, i + 1, Len(s))
<1>1. Len(s) \in Nat /\ \A j \in 1 .. Len(s) : s[j] \in S
  BY LenProperties, ElementOfSeq
<1>2. /\ front \in Seq(S) /\ Len(front) = i - 1
      /\ \A j \in 1 .. i - 1 : front[j] = s[j]
  BY <1>1, SubSeqProperties
<1>3. /\ back \in Seq(S) /\ Len(back) = Len(s) - i
      /\ \A j \in 1 .. Len(s) - i : back[j] = s[i + j]
  BY <1>1, SubSeqProperties
<1> HIDE DEF front, back
<1>4. /\ front \o back \in Seq(S) /\ Len(front \o back) = Len(s) - 1
      /\ \A j \in 1 .. Len(s) - 1 :
           (front \o back)[j] = IF j <= i - 1 THEN front[j] ELSE back[j - (i - 1)]
  BY <1>1, <1>2, <1>3, ConcatProperties
<1>5. RemoveAt(s, i) = front \o back
  BY DEF RemoveAt, front, back
<1> QED BY <1>1, <1>2, <1>3, <1>4, <1>5

LEMMA InsertFacts ==
  ASSUME NEW S, NEW s \in Seq(S), NEW i \in 1 .. Len(s), NEW x \in S
  PROVE  /\ InsertAt(s, i, x) \in Seq(S)
         /\ Len(InsertAt(s, i, x)) = Len(s) + 1
         /\ \A j \in 1 .. Len(s) + 1 :
              InsertAt(s, i, x)[j] = IF j < i THEN s[j] ELSE IF j = i THEN x ELSE s[j - 1]
<1> DEFINE front == SubSeq(s, 1, i - 1)
           back  == SubSeq(s, i, Len(s))
           begin == front \o <<x>>
<1>1. Len(s) \in Nat /\ \A j \in 1 .. Len(s) : s[j] \in S
  BY LenProperties, ElementOfSeq
<1>2. /\ front \in Seq(S) /\ Len(front) = i - 1
      /\ \A j \in 1 .. i - 1 : front[j] = s[j]
  BY <1>1, SubSeqProperties
<1>3. /\ back \in Seq(S) /\ Len(back) = Len(s) - i + 1
      /\ \A j \in 1 .. Len(s) - i + 1 : back[j] = s[i + j - 1]
  BY <1>1, SubSeqProperties
<1>4. <<x>> \in Seq(S) /\ Len(<<x>>) = 1 /\ <<x>>[1] = x
  OBVIOUS
<1> HIDE DEF front, back
<1>5. /\ begin \in Seq(S) /\ Len(begin) = i
      /\ \A j \in 1 .. i : begin[j] = IF j <= i - 1 THEN front[j] ELSE <<x>>[j - (i - 1)]
  BY <1>2, <1>4, ConcatProperties
<1>6. \A j \in 1 .. i : begin[j] = IF j < i THEN s[j] ELSE x
  BY <1>2, <1>4, <1>5
<1> HIDE DEF begin
<1>7. /\ begin \o back \in Seq(S) /\ Len(begin \o back) = Len(s) + 1
      /\ \A j \in 1 .. Len(s) + 1 :
           (begin \o back)[j] = IF j <= i THEN begin[j] ELSE back[j - i]
  <2>1. Len(begin) + Len(back) = Len(s) + 1
    BY <1>1, <1>3, <1>5
  <2>2. begin \in Seq(S) /\ back \in Seq(S) /\ Len(begin) = i
    BY <1>3, <1>5
  <2> QED BY ONLY <2>1, <2>2, ConcatProperties
<1>8. InsertAt(s, i, x) = begin \o back
  BY DEF InsertAt, front, back, begin
<1> QED BY <1>1, <1>3, <1>6, <1>7, <1>8

\* Page q is in a segment of the table.
In(table, q) == \E i \in 1 .. Len(table) : table[i].start <= q /\ q <= table[i].end

\* A table of segments that are not empty and have no page in common.
WellFormed(table) ==
  /\ table \in Seq(Segments) /\ Len(table) <= MaxInfo
  /\ \A i \in 1 .. Len(table) : table[i].start <= table[i].end
  /\ \A i, j \in 1 .. Len(table) :
       i /= j => table[i].end < table[j].start \/ table[j].end < table[i].start

LEMMA RecordedFacts ==
  ASSUME NEW table \in Seq(Segments)
  PROVE  \A q : q \in Recorded(table) <=> q \in Pfns /\ In(table, q)
<1>1. DOMAIN table = 1 .. Len(table) /\ \A i \in 1 .. Len(table) : table[i] \in Segments
  BY LenProperties, ElementOfSeq
<1>2. \A q : q \in Recorded(table) <=>
        \E i \in 1 .. Len(table) : q \in table[i].start .. table[i].end
  BY <1>1 DEF Recorded
<1>3. \A i \in 1 .. Len(table) : table[i].start \in Pfns /\ table[i].end \in Pfns
  BY <1>1 DEF Segments
<1>4. ASSUME NEW q, NEW i \in 1 .. Len(table)
      PROVE  q \in table[i].start .. table[i].end <=>
               q \in Pfns /\ table[i].start <= q /\ q <= table[i].end
  BY <1>3, MapAssumption DEF Pfns
<1> QED BY <1>2, <1>4 DEF In

\* Segment i is widened to wider, which meets no other segment.
LEMMA WidenFacts ==
  ASSUME NEW table, WellFormed(table), NEW i \in 1 .. Len(table),
         NEW wider \in Segments,
         wider.start <= table[i].start, table[i].end <= wider.end,
         \A j \in 1 .. Len(table) :
           j /= i => table[j].end < wider.start \/ wider.end < table[j].start
  PROVE  LET new == [table EXCEPT ![i] = wider] IN
         /\ WellFormed(new)
         /\ \A q \in Int : In(new, q) <=> In(table, q) \/ q \in wider.start .. wider.end
<1> USE MapAssumption DEF Pfns
<1> DEFINE new == [table EXCEPT ![i] = wider]
<1>1. /\ table \in Seq(Segments) /\ Len(table) \in Nat /\ Len(table) <= MaxInfo
      /\ \A j \in 1 .. Len(table) : table[j] \in Segments /\ table[j].start <= table[j].end
      /\ \A j, k \in 1 .. Len(table) :
           j /= k => table[j].end < table[k].start \/ table[k].end < table[j].start
  BY LenProperties, ElementOfSeq DEF WellFormed
<1>2. /\ \A j \in 1 .. Len(table) : table[j].start \in Nat /\ table[j].end \in Nat
      /\ wider.start \in Nat /\ wider.end \in Nat
  BY <1>1 DEF Segments
<1>3. /\ new \in Seq(Segments) /\ Len(new) = Len(table)
      /\ \A j \in 1 .. Len(table) : j /= i => new[j] = table[j]
      /\ new[i] = wider
  BY <1>1, ExceptSeq
<1> HIDE DEF new
<1>4. WellFormed(new)
  <2>1. \A j \in 1 .. Len(new) : new[j].start <= new[j].end
    <3>1. wider.start <= wider.end
      <4>1. /\ table[i].start <= table[i].end
            /\ table[i].start \in Nat /\ table[i].end \in Nat
        BY <1>1, <1>2
      <4> QED BY <1>2, <4>1
    <3> QED BY <1>1, <1>3, <3>1
  <2>2. ASSUME NEW j \in 1 .. Len(new), NEW k \in 1 .. Len(new), j /= k
        PROVE  new[j].end < new[k].start \/ new[k].end < new[j].start
    <3>1. CASE j /= i /\ k /= i
      <4>1. new[j] = table[j] /\ new[k] = table[k]
        BY <1>3, <3>1
      <4>2. table[j].end < table[k].start \/ table[k].end < table[j].start
        BY <1>1, <1>3, <2>2
      <4> QED BY <4>1, <4>2
    <3>2. CASE j = i
      <4>1. new[j] = wider /\ new[k] = table[k] /\ k /= i /\ k \in 1 .. Len(table)
        BY <1>3, <2>2, <3>2
      <4>2. table[k].end < wider.start \/ wider.end < table[k].start
        BY <4>1
      <4> QED BY <4>1, <4>2
    <3>3. CASE k = i
      <4>1. new[k] = wider /\ new[j] = table[j] /\ j /= i /\ j \in 1 .. Len(table)
        BY <1>3, <2>2, <3>3
      <4>2. table[j].end < wider.start \/ wider.end < table[j].start
        BY <4>1
      <4> QED BY <4>1, <4>2
    <3> QED BY <3>1, <3>2, <3>3
  <2> QED BY <1>1, <1>3, <2>1, <2>2 DEF WellFormed
<1>5. ASSUME NEW q \in Int
      PROVE  In(new, q) <=> In(table, q) \/ q \in wider.start .. wider.end
  <2>1. ASSUME In(new, q) PROVE In(table, q) \/ q \in wider.start .. wider.end
    <3>1. PICK j \in 1 .. Len(table) : new[j].start <= q /\ q <= new[j].end
      BY <1>3, <2>1 DEF In
    <3>2. CASE j = i
      BY <1>2, <1>3, <3>1, <3>2
    <3>3. CASE j /= i
      BY <1>3, <3>1, <3>3 DEF In
    <3> QED BY <3>2, <3>3
  <2>2. ASSUME In(table, q) PROVE In(new, q)
    <3>1. PICK j \in 1 .. Len(table) : table[j].start <= q /\ q <= table[j].end
      BY <2>2 DEF In
    <3>2. CASE j = i
      <4>1. table[i].start \in Nat /\ table[i].end \in Nat
        BY <1>2
      <4>2. wider.start <= q /\ q <= wider.end
        BY <1>2, <3>1, <3>2, <4>1
      <4> QED BY <1>3, <4>2 DEF In
    <3>3. CASE j /= i
      BY <1>3, <3>1, <3>3 DEF In
    <3> QED BY <3>2, <3>3
  <2>3. ASSUME q \in wider.start .. wider.end PROVE In(new, q)
    BY <1>2, <1>3, <2>3 DEF In
  <2> QED BY <2>1, <2>2, <2>3
<1> QED BY <1>4, <1>5 DEF new

\* What is clear of three adjacent segments is clear of the one they are joined to.
LEMMA Adjacent ==
  ASSUME NEW a \in Int, NEW b \in Int, NEW s \in Int, NEW e \in Int, NEW c \in Int, NEW d \in Int,
         NEW x \in Int, NEW y \in Int,
         b + 1 = s, c = e + 1, x <= y,
         y < s \/ e < x, y < a \/ b < x, y < c \/ d < x
  PROVE  y < a \/ d < x
OBVIOUS

\* Entering a segment of free pages: the table stays well formed and gets exactly these
\* pages, unless it has no room for them.
LEMMA InsertKeepsMap ==
  ASSUME NEW table, WellFormed(table),
         NEW s \in Pfns, NEW e \in Pfns, s <= e, NEW t \in Types,
         \A q \in s .. e : ~In(table, q)
  PROVE  LET new == insert_mminfo(table, s, e, t) IN
         /\ WellFormed(new)
         /\ Refuses(table, s, e, t) => new = table
         /\ ~Refuses(table, s, e, t) => \A q \in Int : In(new, q) <=> In(table, q) \/ q \in s .. e
<1> USE MapAssumption DEF Pfns
<1> DEFINE new  == insert_mminfo(table, s, e, t)
           hits == {i \in DOMAIN table : Joins(table, i, s, e, t)}
           i    == Min(hits)
           seg  == Segment(s, e, t)
<1>1. /\ table \in Seq(Segments) /\ Len(table) \in Nat /\ DOMAIN table = 1 .. Len(table)
      /\ Len(table) <= MaxInfo
      /\ \A j \in 1 .. Len(table) : table[j] \in Segments /\ table[j].start <= table[j].end
  BY LenProperties, ElementOfSeq DEF WellFormed
<1>2. \A j \in 1 .. Len(table) : /\ table[j].start \in Nat /\ table[j].start < MaxPfn
                                 /\ table[j].end \in Nat /\ table[j].end < MaxPfn
                                 /\ table[j].type \in Types
  BY <1>1 DEF Segments
<1>3. seg \in Segments /\ seg.start = s /\ seg.end = e
  BY DEF Segments, Segment
<1>4. \A j \in 1 .. Len(table) : table[j].end < s \/ e < table[j].start
  <2> SUFFICES ASSUME NEW j \in 1 .. Len(table), s <= table[j].end, table[j].start <= e
               PROVE  FALSE
    BY <1>2
  <2>1. \E q \in s .. e : table[j].start <= q /\ q <= table[j].end
    <3>1. CASE table[j].start <= s
      BY <1>2, <3>1
    <3>2. CASE table[j].start > s
      BY <1>1, <1>2, <3>2
    <3> QED BY <1>2, <3>1, <3>2
  <2> QED BY <2>1 DEF In
<1>5. CASE Refuses(table, s, e, t)
  <2>1. new = table
    <3>1. hits = {} /\ ~(Len(table) < MaxInfo)
      BY <1>1, <1>5 DEF Refuses
    <3> QED BY ONLY <1>5, <3>1 DEF insert_mminfo
  <2> QED BY ONLY <1>5, <2>1, WellFormed(table)
<1>6. CASE ~Refuses(table, s, e, t) /\ hits = {}
  <2>1. Len(table) < MaxInfo
    BY <1>1, <1>6 DEF Refuses
  <2>2. new = Append(table, seg)
    BY <1>6, <2>1 DEF insert_mminfo
  <2> HIDE DEF new, seg
  <2>3. /\ new \in Seq(Segments) /\ Len(new) = Len(table) + 1
        /\ \A j \in 1 .. Len(table) : new[j] = table[j]
        /\ new[Len(table) + 1] = seg
    BY <1>1, <1>3, <2>2, AppendProperties
  <2>4. WellFormed(new)
    <3>1. \A j \in 1 .. Len(new) : new[j].start <= new[j].end
      BY <1>1, <1>3, <2>3
    <3>2. ASSUME NEW j \in 1 .. Len(new), NEW k \in 1 .. Len(new), j /= k
          PROVE  new[j].end < new[k].start \/ new[k].end < new[j].start
      <4>1. CASE j /= Len(new) /\ k /= Len(new)
        <5>1. /\ new[j] = table[j] /\ new[k] = table[k]
              /\ j \in 1 .. Len(table) /\ k \in 1 .. Len(table)
          BY <1>1, <2>3, <4>1
        <5>2. table[j].end < table[k].start \/ table[k].end < table[j].start
          BY <3>2, <5>1 DEF WellFormed
        <5> QED BY <5>1, <5>2
      <4>2. CASE j = Len(new)
        <5>1. new[j] = seg /\ new[k] = table[k] /\ k \in 1 .. Len(table)
          BY <1>1, <2>3, <3>2, <4>2
        <5> QED BY <1>3, <1>4, <5>1
      <4>3. CASE k = Len(new)
        <5>1. new[k] = seg /\ new[j] = table[j] /\ j \in 1 .. Len(table)
          BY <1>1, <2>3, <3>2, <4>3
        <5> QED BY <1>3, <1>4, <5>1
      <4> QED BY <4>1, <4>2, <4>3
    <3> QED BY <1>1, <2>1, <2>3, <3>1, <3>2 DEF WellFormed
  <2>5. \A q \in Int : In(new, q) <=> In(table, q) \/ q \in s .. e
    BY <1>1, <1>3, <2>3 DEF In
  <2> QED BY <1>6, <2>4, <2>5 DEF new
<1>7. CASE ~Refuses(table, s, e, t) /\ hits /= {}
  <2>1. hits \subseteq Nat /\ \A j \in hits : j \in 1 .. Len(table) /\ Joins(table, j, s, e, t)
    BY <1>1
  <2>2. i \in 1 .. Len(table) /\ Joins(table, i, s, e, t)
    BY <1>7, <2>1, MinFacts
  <2> HIDE DEF i, hits
  <2>a. /\ table[i] \in Segments /\ table[i].start <= table[i].end
        /\ table[i].start \in Nat /\ table[i].end \in Nat
        /\ table[i].start < MaxPfn /\ table[i].end < MaxPfn
    BY <1>1, <1>2, <2>2
  <2>b. ASSUME NEW j \in 1 .. Len(table), j /= i
        PROVE  /\ table[j].start \in Nat /\ table[j].end \in Nat
               /\ table[j].start <= table[j].end
               /\ table[j].end < s \/ e < table[j].start
               /\ table[j].end < table[i].start \/ table[i].end < table[j].start
    BY <1>1, <1>2, <1>4, <2>2, <2>b DEF WellFormed
  <2>3. CASE ~JoinsEnd(table, i, s, e, t)
    <3> DEFINE wider == [table[i] EXCEPT !.start = s]
    <3>1. table[i].start = e + 1
      BY <2>2, <2>3, <2>a DEF Joins, JoinsStart
    <3>2. new = [table EXCEPT ![i] = wider]
      BY <1>7, <2>3 DEF insert_mminfo, hits, i
    <3>3. wider \in Segments /\ wider.start = s /\ wider.end = table[i].end
      BY <2>a DEF Segments
    <3> HIDE DEF wider, new
    <3>4. wider.start <= table[i].start /\ table[i].end <= wider.end
      BY <2>a, <3>1, <3>3
    <3>5. \A j \in 1 .. Len(table) :
            j /= i => table[j].end < wider.start \/ wider.end < table[j].start
      BY <2>a, <2>b, <3>1, <3>3
    <3>6. /\ WellFormed(new)
          /\ \A q \in Int : In(new, q) <=> In(table, q) \/ q \in s .. table[i].end
      BY <2>2, <3>2, <3>3, <3>4, <3>5, WidenFacts
    <3>7. \A q \in Int : q \in s .. table[i].end => q \in s .. e \/ In(table, q)
      BY <2>2, <2>a, <3>1 DEF In
    <3>8. \A q \in Int : q \in s .. e => q \in s .. table[i].end
      BY <2>a, <3>1
    <3> QED BY <1>7, <3>6, <3>7, <3>8 DEF new
  <2>4. CASE JoinsEnd(table, i, s, e, t) /\ ~Bridges(table, i, e, t)
    <3> DEFINE wider == [table[i] EXCEPT !.end = e]
    <3>1. table[i].end + 1 = s
      BY <2>2, <2>4, <2>a DEF JoinsEnd
    <3>2. new = [table EXCEPT ![i] = wider]
      BY <1>7, <2>4 DEF insert_mminfo, hits, i
    <3>3. wider \in Segments /\ wider.start = table[i].start /\ wider.end = e
      BY <2>a DEF Segments
    <3> HIDE DEF wider, new
    <3>4. wider.start <= table[i].start /\ table[i].end <= wider.end
      BY <2>a, <3>1, <3>3
    <3>5. \A j \in 1 .. Len(table) :
            j /= i => table[j].end < wider.start \/ wider.end < table[j].start
      BY <2>a, <2>b, <3>1, <3>3
    <3>6. /\ WellFormed(new)
          /\ \A q \in Int : In(new, q) <=> In(table, q) \/ q \in table[i].start .. e
      BY <2>2, <3>2, <3>3, <3>4, <3>5, WidenFacts
    <3>7. \A q \in Int : q \in table[i].start .. e => q \in s .. e \/ In(table, q)
      BY <2>2, <2>a, <3>1 DEF In
    <3>8. \A q \in Int : q \in s .. e => q \in table[i].start .. e
      BY <2>a, <3>1
    <3> QED BY <1>7, <3>6, <3>7, <3>8 DEF new
  <2>5. CASE JoinsEnd(table, i, s, e, t) /\ Bridges(table, i, e, t)
    <3>0. i + 1 \in 1 .. Len(table) /\ i + 1 /= i
      BY <1>1, <2>2, <2>5 DEF Bridges
    <3>a. /\ table[i + 1] \in Segments /\ table[i + 1].start <= table[i + 1].end
          /\ table[i + 1].start \in Nat /\ table[i + 1].end \in Nat
          /\ table[i + 1].end < MaxPfn
      BY <1>1, <1>2, <3>0
    <3>1. table[i].end + 1 = s /\ i + 1 <= Len(table) /\ table[i + 1].start = e + 1
      <4>1. table[i].end = s - 1 /\ table[i + 1].start - 1 = e
        BY <2>5 DEF JoinsEnd, Bridges
      <4>2. s \in Nat /\ e \in Nat
        OBVIOUS
      <4> QED BY ONLY <1>1, <2>a, <3>0, <3>a, <4>1, <4>2
    <3>2. new = RemoveAt([table EXCEPT ![i].end = table[i + 1].end], i + 1)
      BY <1>7, <2>5 DEF insert_mminfo, remove_mminfo, hits, i
    <3> DEFINE wider == [table[i] EXCEPT !.end = table[i + 1].end]
               grown == [table EXCEPT ![i] = wider]
    <3>3. wider \in Segments /\ wider.start = table[i].start /\ wider.end = table[i + 1].end
      BY <2>a, <3>a DEF Segments
    <3>4. new = RemoveAt(grown, i + 1)
      BY <3>2
    <3> HIDE DEF wider, new
    <3>5. /\ grown \in Seq(Segments) /\ Len(grown) = Len(table)
          /\ \A j \in 1 .. Len(table) : grown[j] = IF j = i THEN wider ELSE table[j]
      BY <1>1, <2>2, <3>3, ExceptSeq
    <3> HIDE DEF grown
    <3>6. /\ new \in Seq(Segments) /\ Len(new) = Len(table) - 1
          /\ \A j \in 1 .. Len(table) - 1 : new[j] = IF j < i + 1 THEN grown[j] ELSE grown[j + 1]
      <4>1. i + 1 \in 1 .. Len(grown)
        BY <2>2, <3>1, <3>5
      <4> QED BY <3>4, <3>5, <4>1, RemoveFacts
    <3>7. \A j \in 1 .. Len(table) - 1 :
            new[j] = IF j < i THEN table[j] ELSE IF j = i THEN wider ELSE table[j + 1]
      BY <1>1, <2>2, <3>5, <3>6
    <3>8. WellFormed(new)
      <4>1. \A j \in 1 .. Len(table) - 1 : new[j].start <= new[j].end
        <5>1. wider.start <= wider.end
          BY <2>a, <3>1, <3>3, <3>a
        <5> QED BY <1>1, <3>7, <5>1
      <4>2. ASSUME NEW j \in 1 .. Len(table) - 1, NEW k \in 1 .. Len(table) - 1, j < k
            PROVE  new[j].end < new[k].start \/ new[k].end < new[j].start
        <5>1. \A m, n \in 1 .. Len(table) :
                m /= n => table[m].end < table[n].start \/ table[n].end < table[m].start
          BY DEF WellFormed
        <5>2. CASE j /= i /\ k /= i
          <6> DEFINE j1 == IF j < i THEN j ELSE j + 1
                     k1 == IF k < i THEN k ELSE k + 1
          <6>1. j1 \in 1 .. Len(table) /\ k1 \in 1 .. Len(table) /\ j1 /= k1
            BY <1>1, <2>2, <4>2
          <6>2. new[j] = table[j1] /\ new[k] = table[k1]
            BY <3>7, <5>2
          <6> HIDE DEF j1, k1
          <6> QED BY <5>1, <6>1, <6>2
        <5>3. CASE j = i
          <6>1. new[j] = wider /\ new[k] = table[k + 1] /\ k + 1 /= i /\ k + 1 /= i + 1
                /\ k + 1 \in 1 .. Len(table)
            BY <1>1, <2>2, <3>7, <4>2, <5>3
          <6>2. /\ table[k + 1].end < table[i].start \/ table[i].end < table[k + 1].start
                /\ table[k + 1].end < table[i + 1].start \/ table[i + 1].end < table[k + 1].start
            BY <2>2, <3>1, <5>1, <6>1
          <6>3. /\ table[k + 1].start \in Nat /\ table[k + 1].end \in Nat
                /\ table[k + 1].start <= table[k + 1].end
                /\ table[k + 1].end < s \/ e < table[k + 1].start
            BY <2>b, <6>1
          <6>4. table[k + 1].end < wider.start \/ wider.end < table[k + 1].start
            <7>1. table[k + 1].end < table[i].start \/ table[i + 1].end < table[k + 1].start
              BY <2>a, <3>1, <3>a, <6>2, <6>3, Adjacent
            <7> QED BY <3>3, <7>1
          <6> QED BY <6>1, <6>4
        <5>4. CASE k = i
          <6>1. new[k] = wider /\ new[j] = table[j] /\ j /= i /\ j /= i + 1 /\ j \in 1 .. Len(table)
            BY <1>1, <2>2, <3>7, <4>2, <5>4
          <6>2. /\ table[j].end < table[i].start \/ table[i].end < table[j].start
                /\ table[j].end < table[i + 1].start \/ table[i + 1].end < table[j].start
            BY <2>2, <3>1, <5>1, <6>1
          <6>3. /\ table[j].start \in Nat /\ table[j].end \in Nat
                /\ table[j].start <= table[j].end
                /\ table[j].end < s \/ e < table[j].start
            BY <2>b, <6>1
          <6>4. table[j].end < wider.start \/ wider.end < table[j].start
            <7>1. table[j].end < table[i].start \/ table[i + 1].end < table[j].start
              <8>1. table[i].end + 1 = s /\ table[i + 1].start = e + 1 /\ s \in Int /\ e \in Int
                BY <3>1
              <8>2. /\ table[j].start \in Int /\ table[j].end \in Int
                    /\ table[i].start \in Int /\ table[i].end \in Int
                    /\ table[i + 1].start \in Int /\ table[i + 1].end \in Int
                BY <2>a, <3>a, <6>3
              <8> QED BY ONLY <6>2, <6>3, <8>1, <8>2, Adjacent
            <7> QED BY <3>3, <7>1
          <6> QED BY <6>1, <6>4
        <5> QED BY <5>2, <5>3, <5>4
      <4>3. \A j, k \in 1 .. Len(table) - 1 :
              j /= k => new[j].end < new[k].start \/ new[k].end < new[j].start
        BY <1>1, <4>2
      <4> QED BY <1>1, <3>6, <4>1, <4>3 DEF WellFormed
    <3>9. \A q \in Int : In(new, q) <=> In(table, q) \/ q \in s .. e
      <4> SUFFICES ASSUME NEW q \in Int PROVE In(new, q) <=> In(table, q) \/ q \in s .. e
        OBVIOUS
      <4>1. ASSUME In(new, q) PROVE In(table, q) \/ q \in s .. e
        <5>1. PICK j \in 1 .. Len(table) - 1 : new[j].start <= q /\ q <= new[j].end
          BY <3>6, <4>1 DEF In
        <5>2. CASE j = i
          <6>1. table[i].start <= q /\ q <= table[i + 1].end
            BY <2>2, <3>3, <3>7, <5>1, <5>2
          <6>2. \/ q <= table[i].end
                \/ q \in s .. e
                \/ table[i + 1].start <= q
            BY <2>a, <3>1, <3>a
          <6> QED BY <2>2, <3>0, <6>1, <6>2 DEF In
        <5>3. CASE j /= i
          BY <1>1, <2>2, <3>7, <5>1, <5>3 DEF In
        <5> QED BY <5>2, <5>3
      <4>2. ASSUME In(table, q) PROVE In(new, q)
        <5>1. PICK j \in 1 .. Len(table) : table[j].start <= q /\ q <= table[j].end
          BY <4>2 DEF In
        <5>2. \E k \in 1 .. Len(table) - 1 : new[k].start <= q /\ q <= new[k].end
          <6>1. CASE j < i
            BY <1>1, <2>2, <3>1, <3>7, <5>1, <6>1
          <6>2. CASE j = i \/ j = i + 1
            <7>1. wider.start <= q /\ q <= wider.end
              BY <2>a, <3>1, <3>3, <3>a, <5>1, <6>2
            <7>2. i \in 1 .. Len(table) - 1 /\ new[i] = wider
              BY <1>1, <2>2, <3>1, <3>7
            <7> QED BY <7>1, <7>2
          <6>3. CASE j > i + 1
            <7>1. j - 1 \in 1 .. Len(table) - 1 /\ new[j - 1] = table[j]
              BY <1>1, <2>2, <3>1, <3>7, <6>3
            <7> QED BY <5>1, <7>1
          <6> QED BY <2>2, <6>1, <6>2, <6>3
        <5> QED BY <3>6, <5>2 DEF In
      <4>3. ASSUME q \in s .. e PROVE In(new, q)
        <5>1. i \in 1 .. Len(table) - 1 /\ new[i] = wider
          BY <1>1, <2>2, <3>1, <3>7
        <5>2. new[i].start <= q /\ q <= new[i].end
          <6>1. wider.start <= q /\ q <= wider.end
            BY ONLY <2>a, <3>1, <3>3, <3>a, <4>3, s \in Nat, e \in Nat, s <= e, q \in Int
          <6> QED BY <5>1, <6>1
        <5> QED BY <3>6, <5>1, <5>2 DEF In
      <4> QED BY <4>1, <4>2, <4>3
    <3> QED BY <1>7, <3>8, <3>9 DEF new
  <2> QED BY <2>3, <2>4, <2>5
<1> QED BY <1>5, <1>6, <1>7

\* Dividing a segment changes nothing for any page.
LEMMA SplitKeepsMap ==
  ASSUME NEW table, WellFormed(table), NEW i \in 1 .. Len(table), Len(table) < MaxInfo,
         NEW page \in table[i].start + 1 .. table[i].end
  PROVE  LET new == InsertAt([table EXCEPT ![i].start = page], i,
                             [table[i] EXCEPT !.end = page - 1]) IN
         WellFormed(new) /\ \A q \in Int : In(new, q) <=> In(table, q)
<1> USE MapAssumption DEF Pfns
<1> DEFINE left  == [table[i] EXCEPT !.end = page - 1]
           right == [table[i] EXCEPT !.start = page]
           short == [table EXCEPT ![i] = right]
           new   == InsertAt(short, i, left)
           src(j) == IF j <= i THEN j ELSE j - 1
<1>1. /\ table \in Seq(Segments) /\ Len(table) \in Nat /\ Len(table) <= MaxInfo
      /\ \A j \in 1 .. Len(table) : table[j] \in Segments /\ table[j].start <= table[j].end
      /\ \A j, k \in 1 .. Len(table) :
           j /= k => table[j].end < table[k].start \/ table[k].end < table[j].start
  BY LenProperties, ElementOfSeq DEF WellFormed
<1>2. \A j \in 1 .. Len(table) : /\ table[j].start \in Nat /\ table[j].start < MaxPfn
                                 /\ table[j].end \in Nat /\ table[j].end < MaxPfn
  BY <1>1 DEF Segments
<1>3. /\ page \in Nat /\ page < MaxPfn
      /\ table[i].start < page /\ page <= table[i].end
      /\ table[i].start \in Nat /\ table[i].end \in Nat
  BY <1>2
<1>4. /\ left \in Segments /\ left.start = table[i].start /\ left.end = page - 1
      /\ right \in Segments /\ right.start = page /\ right.end = table[i].end
  <2>1. table[i] \in [start : Pfns, end : Pfns, type : Types]
    BY <1>1 DEF Segments
  <2>2. page \in Pfns /\ page - 1 \in Pfns
    BY <1>3
  <2> HIDE DEF Pfns
  <2> QED BY ONLY <2>1, <2>2 DEF Segments
<1> HIDE DEF left, right
<1>5. /\ short \in Seq(Segments) /\ Len(short) = Len(table)
      /\ \A j \in 1 .. Len(table) : short[j] = IF j = i THEN right ELSE table[j]
  BY <1>1, <1>4, ExceptSeq
<1> HIDE DEF short
<1>6. /\ new \in Seq(Segments) /\ Len(new) = Len(table) + 1
      /\ \A j \in 1 .. Len(table) + 1 :
           new[j] = IF j < i THEN short[j] ELSE IF j = i THEN left ELSE short[j - 1]
  <2>1. i \in 1 .. Len(short)
    BY <1>5
  <2> HIDE DEF Pfns, Segments
  <2>2. left \in Segments /\ short \in Seq(Segments) /\ Len(short) = Len(table)
    BY <1>4, <1>5
  <2>3. /\ InsertAt(short, i, left) \in Seq(Segments)
        /\ Len(InsertAt(short, i, left)) = Len(short) + 1
        /\ \A j \in 1 .. Len(short) + 1 :
             InsertAt(short, i, left)[j] =
               IF j < i THEN short[j] ELSE IF j = i THEN left ELSE short[j - 1]
    BY ONLY <2>1, <2>2, InsertFacts
  <2> QED BY ONLY <2>2, <2>3 DEF new
<1> HIDE DEF new
<1>7. \A j \in 1 .. Len(table) + 1 :
        new[j] = IF j = i THEN left ELSE IF j = i + 1 THEN right ELSE table[src(j)]
  <2> TAKE j \in 1 .. Len(table) + 1
  <2>1. CASE j < i
    BY <1>1, <1>5, <1>6, <2>1
  <2>2. CASE j = i
    BY <1>6, <2>2
  <2>3. CASE j > i
    <3>1. j - 1 \in 1 .. Len(table) /\ (j - 1 = i <=> j = i + 1) /\ src(j) = j - 1
      BY <1>1, <2>3
    <3>2. new[j] = short[j - 1]
      BY <1>6, <2>3
    <3> QED BY <1>5, <2>3, <3>1, <3>2
  <2> QED BY <2>1, <2>2, <2>3
<1>8. \A j \in 1 .. Len(table) + 1 : src(j) \in 1 .. Len(table) /\ (src(j) = i <=> j = i \/ j = i + 1)
  BY <1>1
<1>9. \A j \in 1 .. Len(table) + 1 : /\ table[src(j)].start <= new[j].start
                                     /\ new[j].start <= new[j].end
                                     /\ new[j].end <= table[src(j)].end
                                     /\ new[j].start \in Nat /\ new[j].end \in Nat
  <2> TAKE j \in 1 .. Len(table) + 1
  <2>1. CASE j = i
    <3>1. new[j] = left /\ src(j) = i
      BY <1>7, <1>8, <2>1
    <3> HIDE DEF src
    <3> QED BY <1>3, <1>4, <3>1
  <2>2. CASE j = i + 1
    <3>1. new[j] = right /\ src(j) = i
      BY <1>7, <1>8, <2>2
    <3> HIDE DEF src
    <3> QED BY <1>3, <1>4, <3>1
  <2>3. CASE j /= i /\ j /= i + 1
    <3>1. new[j] = table[src(j)] /\ src(j) \in 1 .. Len(table)
      BY <1>7, <1>8, <2>3
    <3> HIDE DEF src
    <3> QED BY <1>1, <1>2, <3>1
  <2> QED BY <2>1, <2>2, <2>3
<1>10. WellFormed(new)
  <2>1. ASSUME NEW j \in 1 .. Len(table) + 1, NEW k \in 1 .. Len(table) + 1, j /= k
        PROVE  new[j].end < new[k].start \/ new[k].end < new[j].start
    <3>1. CASE src(j) = src(k)
      <4>1. (j = i /\ k = i + 1) \/ (j = i + 1 /\ k = i)
        BY ONLY <1>1, <2>1, <3>1, i \in 1 .. Len(table) DEF src
      <4>2. left.end < right.start
        BY <1>3, <1>4
      <4> QED BY <1>7, <4>1, <4>2
    <3>2. CASE src(j) /= src(k)
      <4>1. PICK m \in 1 .. Len(table) : m = src(j)
        BY <1>8
      <4>2. PICK n \in 1 .. Len(table) : n = src(k)
        BY <1>8
      <4>3. m /= n
        BY <3>2, <4>1, <4>2
      <4>4. /\ table[m].start <= new[j].start /\ new[j].end <= table[m].end
            /\ table[n].start <= new[k].start /\ new[k].end <= table[n].end
            /\ new[j].start \in Nat /\ new[j].end \in Nat
            /\ new[k].start \in Nat /\ new[k].end \in Nat
        BY <1>9, <4>1, <4>2
      <4>5. /\ table[m].end < table[n].start \/ table[n].end < table[m].start
            /\ table[m].start \in Nat /\ table[m].end \in Nat
            /\ table[n].start \in Nat /\ table[n].end \in Nat
        BY <1>1, <1>2, <4>3
      <4>6. CASE table[m].end < table[n].start
        BY ONLY <4>4, <4>5, <4>6
      <4>7. CASE table[n].end < table[m].start
        BY ONLY <4>4, <4>5, <4>7
      <4> QED BY <4>5, <4>6, <4>7
    <3> QED BY <3>1, <3>2
  <2>2. Len(table) + 1 <= MaxInfo
    BY <1>1
  <2> QED BY <1>6, <1>9, <2>1, <2>2 DEF WellFormed
<1>11. ASSUME NEW q \in Int PROVE In(new, q) <=> In(table, q)
  <2>1. ASSUME In(new, q) PROVE In(table, q)
    <3>1. PICK j \in 1 .. Len(table) + 1 : new[j].start <= q /\ q <= new[j].end
      BY <1>6, <2>1 DEF In
    <3>2. /\ table[src(j)].start <= new[j].start /\ new[j].end <= table[src(j)].end
          /\ new[j].start \in Nat /\ new[j].end \in Nat /\ src(j) \in 1 .. Len(table)
      BY <1>8, <1>9
    <3> HIDE DEF src
    <3>3. table[src(j)].start \in Nat /\ table[src(j)].end \in Nat
      BY <1>2, <3>2
    <3>4. table[src(j)].start <= q /\ q <= table[src(j)].end
      BY ONLY <3>1, <3>2, <3>3, q \in Int
    <3> QED BY <3>2, <3>4 DEF In
  <2>2. ASSUME In(table, q) PROVE In(new, q)
    <3>1. PICK j \in 1 .. Len(table) : table[j].start <= q /\ q <= table[j].end
      BY <2>2 DEF In
    <3>2. CASE j < i
      <4>1. new[j] = table[j] /\ j \in 1 .. Len(new)
        BY <1>1, <1>5, <1>6, <3>2
      <4> QED BY <3>1, <4>1 DEF In
    <3>3. CASE j > i
      <4>1. new[j + 1] = table[j] /\ j + 1 \in 1 .. Len(new)
        <5>1. j + 1 \in 1 .. Len(table) + 1 /\ j + 1 /= i /\ j + 1 /= i + 1 /\ src(j + 1) = j
          BY <1>1, <3>3
        <5> HIDE DEF src
        <5> QED BY <1>6, <1>7, <5>1
      <4> QED BY <3>1, <4>1 DEF In
    <3>4. CASE j = i
      <4>1. /\ i \in 1 .. Len(new) /\ i + 1 \in 1 .. Len(new)
            /\ new[i] = left /\ new[i + 1] = right
        <5>1. i \in 1 .. Len(table) + 1 /\ i + 1 \in 1 .. Len(table) + 1 /\ i + 1 /= i
          BY <1>1
        <5> HIDE DEF src
        <5> QED BY <1>6, <1>7, <5>1
      <4>2. (left.start <= q /\ q <= left.end) \/ (right.start <= q /\ q <= right.end)
        BY <1>3, <1>4, <3>1, <3>4
      <4> QED BY <4>1, <4>2 DEF In
    <3> QED BY <3>2, <3>3, <3>4
  <2> QED BY <2>1, <2>2
<1>12. new = InsertAt([table EXCEPT ![i].start = page], i, [table[i] EXCEPT !.end = page - 1])
  BY DEF new, short, left, right
<1> QED BY <1>10, <1>11, <1>12

\* The table is well formed and never empty, and a page is in use exactly when a segment
\* has it or the table had no room for it.
MapInv ==
  /\ WellFormed(info) /\ Len(info) >= 1
  /\ unrecorded \subseteq Pfns
  /\ \A q \in unrecorded : ~In(info, q)
  /\ \A q \in Pfns : q \in used <=> In(info, q) \/ q \in unrecorded

LEMMA MapInvInit == Init => MapInv
<1> SUFFICES ASSUME Init PROVE MapInv
  OBVIOUS
<1> DEFINE first == Segment(0, KernelPages - 1, MM_KERNEL)
<1>1. first \in Segments /\ first.start = 0 /\ first.end = KernelPages - 1
  BY MapAssumption DEF Segment, Segments, Pfns
<1> HIDE DEF first
<1>2. info = <<first>> /\ used = Run(0, KernelPages) /\ unrecorded = {}
  BY DEF Init, first
<1>3. info \in Seq(Segments) /\ Len(info) = 1 /\ info[1] = first
  BY <1>1, <1>2
<1>4. WellFormed(info)
  BY <1>1, <1>3, MapAssumption DEF WellFormed
<1>5. \A q \in Pfns : q \in used <=> In(info, q)
  BY <1>1, <1>2, <1>3, MapAssumption DEF In, Run, Pfns
<1> QED BY <1>2, <1>3, <1>4, <1>5 DEF MapInv

LEMMA ReserveFacts ==
  ASSUME SInv, MapInv, Reserve
  PROVE  LET s == call.index
             e == call.index + call.n - 1
             t == call.type
         IN  /\ s \in Pfns /\ e \in Pfns /\ s <= e /\ t \in Types
             /\ Run(s, call.n) = s .. e
             /\ \A q \in s .. e : q \in Pfns /\ ~In(info, q) /\ q \notin unrecorded
<1>1. /\ call.index \in Nat /\ call.n \in Nat \ {0} /\ call.type \in Types
      /\ call.index + call.n <= MaxPfn
      /\ Run(call.index, call.n) \cap used = {}
  BY DEF Reserve, SInv, Scalars, Calls, SearchOK
<1>2. /\ call.index \in Pfns /\ call.index + call.n - 1 \in Pfns
      /\ call.index <= call.index + call.n - 1
  BY <1>1, MapAssumption DEF Pfns
<1>3. ASSUME NEW q \in call.index .. call.index + call.n - 1
      PROVE  q \in Pfns /\ ~In(info, q) /\ q \notin unrecorded
  <2>1. q \in Pfns /\ q \in Run(call.index, call.n)
    BY <1>1, MapAssumption DEF Pfns, Run
  <2> QED BY <1>1, <2>1 DEF MapInv
<1> QED BY <1>1, <1>2, <1>3 DEF Run

LEMMA MapInvNext == SInv /\ MapInv /\ [Next]_vars => MapInv'
<1> SUFFICES ASSUME SInv, MapInv, [Next]_vars PROVE MapInv'
  OBVIOUS
<1>1. CASE UNCHANGED <<used, info, unrecorded>>
  BY <1>1 DEF MapInv, WellFormed, In
<1>2. CASE Reserve
  <2> DEFINE s   == call.index
             e   == call.index + call.n - 1
             new == insert_mminfo(info, s, e, call.type)
  <2>1. /\ s \in Pfns /\ e \in Pfns /\ s <= e /\ call.type \in Types
        /\ \A q \in s .. e : q \in Pfns /\ ~In(info, q) /\ q \notin unrecorded
        /\ Run(call.index, call.n) = s .. e
    BY <1>2, ReserveFacts
  <2>2. /\ used' = used \cup (s .. e) /\ info' = new
        /\ unrecorded' = IF Refuses(info, s, e, call.type)
                         THEN unrecorded \cup (s .. e) ELSE unrecorded
    BY <1>2, <2>1 DEF Reserve
  <2>3. /\ WellFormed(info) /\ Len(info) >= 1
        /\ unrecorded \subseteq Pfns
        /\ \A q \in unrecorded : ~In(info, q)
        /\ \A q \in Pfns : q \in used <=> In(info, q) \/ q \in unrecorded
    BY DEF MapInv
  <2> HIDE DEF s, e, new
  <2>4. /\ WellFormed(new)
        /\ Refuses(info, s, e, call.type) => new = info
        /\ ~Refuses(info, s, e, call.type) =>
             \A q \in Int : In(new, q) <=> In(info, q) \/ q \in s .. e
    BY <2>1, <2>3, InsertKeepsMap DEF new
  <2>5. Pfns \subseteq Int
    BY MapAssumption DEF Pfns
  <2>6. CASE Refuses(info, s, e, call.type)
    <3>1. info' = info /\ unrecorded' = unrecorded \cup (s .. e)
      BY <2>2, <2>4, <2>6
    <3> QED BY <2>1, <2>2, <2>3, <3>1 DEF MapInv
  <2>7. CASE ~Refuses(info, s, e, call.type)
    <3>1. unrecorded' = unrecorded /\ \A q \in Int : In(info', q) <=> In(info, q) \/ q \in s .. e
      BY <2>2, <2>4, <2>7
    <3>2. Len(info') >= 1
      <4>1. In(info', s)
        BY <2>1, <2>5, <3>1
      <4>2. info' \in Seq(Segments)
        BY <2>2, <2>4 DEF WellFormed
      <4> QED BY <4>1, <4>2, LenProperties DEF In
    <3>3. \A q \in unrecorded' : ~In(info', q)
      BY <2>1, <2>3, <2>5, <3>1
    <3>4. \A q \in Pfns : q \in used' <=> In(info', q) \/ q \in unrecorded'
      BY <2>2, <2>3, <2>5, <3>1
    <3> QED BY <2>2, <2>3, <2>4, <3>1, <3>2, <3>3, <3>4 DEF MapInv
  <2> QED BY <2>6, <2>7
<1>3. ASSUME NEW i \in DOMAIN info, NEW page \in 0 .. MaxPfn - 1, split_mminfo(i, page), i /= 1
      PROVE  MapInv'
  <2>1. WellFormed(info) /\ info \in Seq(Segments) /\ DOMAIN info = 1 .. Len(info)
    BY LenProperties DEF MapInv, WellFormed
  <2>2. /\ page \in info[i].start + 1 .. info[i].end /\ Len(info) < MaxInfo
        /\ info' = InsertAt([info EXCEPT ![i].start = page], i, [info[i] EXCEPT !.end = page - 1])
        /\ UNCHANGED <<used, unrecorded>>
    BY <1>3 DEF split_mminfo
  <2>3. WellFormed(info') /\ \A q \in Int : In(info', q) <=> In(info, q)
    BY <2>1, <2>2, SplitKeepsMap
  <2>4. Pfns \subseteq Int
    BY MapAssumption DEF Pfns
  <2>5. Len(info') >= 1
    <3>1. In(info, info[i].start) /\ info[i].start \in Int
      <4>1. info[i] \in Segments /\ info[i].start <= info[i].end
        BY <2>1, ElementOfSeq DEF WellFormed
      <4>2. info[i].start \in Int
        BY <4>1, MapAssumption DEF Segments, Pfns
      <4> QED BY <2>1, <4>1, <4>2 DEF In
    <3>2. In(info', info[i].start)
      BY <2>3, <3>1
    <3>3. info' \in Seq(Segments)
      BY <2>3 DEF WellFormed
    <3> QED BY <3>2, <3>3, LenProperties DEF In
  <2>6. /\ \A q \in unrecorded' : ~In(info', q)
        /\ \A q \in Pfns : q \in used' <=> In(info', q) \/ q \in unrecorded'
    BY <2>2, <2>3, <2>4 DEF MapInv
  <2> QED BY <2>2, <2>3, <2>5, <2>6 DEF MapInv
<1>4. Next => \/ UNCHANGED <<used, info, unrecorded>>
              \/ Reserve
              \/ \E i \in DOMAIN info, page \in 0 .. MaxPfn - 1 : split_mminfo(i, page) /\ i /= 1
  BY DEF Next, bootmm_alloc_pages, split_mminfo, SkipUsed, StartCounting, CountPage, SearchEnds
<1> QED BY <1>1, <1>2, <1>3, <1>4 DEF vars

\* The table and the bitmap describe the same memory, whatever is asked for and however
\* the table is joined, bridged and split.
THEOREM BothMapsAgree == Spec => []TableIsMap
<1>1. SInv /\ MapInv => TableIsMap
  <2> SUFFICES ASSUME SInv, MapInv PROVE TableIsMap
    OBVIOUS
  <2>1. info \in Seq(Segments) /\ DOMAIN info = 1 .. Len(info)
    BY LenProperties DEF MapInv, WellFormed
  <2>2. ASSUME NEW i \in 1 .. Len(info), NEW j \in 1 .. Len(info), i /= j
        PROVE  (info[i].start .. info[i].end) \cap (info[j].start .. info[j].end) = {}
    <3>1. info[i].end < info[j].start \/ info[j].end < info[i].start
      BY <2>2 DEF MapInv, WellFormed
    <3>2. info[i] \in Segments /\ info[j] \in Segments
      BY <2>1, ElementOfSeq
    <3>3. /\ info[i].start \in Int /\ info[i].end \in Int
          /\ info[j].start \in Int /\ info[j].end \in Int
      BY <3>2, MapAssumption DEF Segments, Pfns
    <3> QED BY ONLY <3>1, <3>3
  <2>3. \A q : q \in Recorded(info) <=> q \in Pfns /\ In(info, q)
    BY <2>1, RecordedFacts
  <2>4. Recorded(info) \cap unrecorded = {}
    BY <2>3 DEF MapInv
  <2>5. Recorded(info) \cup unrecorded = used
    BY <2>3 DEF MapInv, SInv, Scalars
  <2> QED BY <2>1, <2>2, <2>4, <2>5 DEF TableIsMap
<1> QED BY <1>1, MapInvInit, MapInvNext, SInvInit, SInvNext, PTL DEF Spec
-----------------------------------------------------------------------------
(* What the page allocator takes over *)

LEMMA MaxFacts ==
  ASSUME NEW S, S \subseteq Pfns, S /= {}
  PROVE  Max(S) \in S /\ \A x \in S : Max(S) >= x
<1> USE MapAssumption DEF Pfns
<1> DEFINE T == {MaxPfn - x : x \in S}
<1>1. T \subseteq Nat /\ T /= {}
  <2>1. \A x \in S : MaxPfn - x \in Nat
    OBVIOUS
  <2>2. PICK x \in S : TRUE
    OBVIOUS
  <2>3. MaxPfn - x \in T
    BY <2>2
  <2> QED BY <2>1, <2>3
<1>2. Min(T) \in T /\ \A y \in T : Min(T) <= y
  BY <1>1, MinFacts
<1>3. PICK m \in S : Min(T) = MaxPfn - m
  BY <1>2
<1>4. \A x \in S : m >= x
  <2> TAKE x \in S
  <2>1. MaxPfn - m <= MaxPfn - x
    BY <1>2, <1>3
  <2> QED BY <2>1
<1> QED BY <1>4 DEF Max

\* A page that rounding leaves alone begins a group.
LEMMA RoundedIsMultiple ==
  ASSUME NEW E \in Nat, NEW g \in Nat \ {0}, RoundUp(E, g) = E
  PROVE  E % g = 0
<1> DEFINE q == (E + g - 1) \div g
           d == E \div g
           r == E % g
<1>1. q \in Int /\ E = q * g
  BY DEF RoundUp
<1>2. d \in Int /\ r \in 0 .. g - 1 /\ E = g * d + r
  OBVIOUS
<1> HIDE DEF q, d, r
<1>3. q = d
  <2>1. CASE q > d
    <3>1. q >= d + 1 /\ (q - d - 1) * g >= 0
      BY <1>1, <1>2, <2>1
    <3>2. (q - d - 1) * g = q * g - g * d - g
      BY <1>1, <1>2
    <3> QED BY <1>1, <1>2, <3>1, <3>2
  <2>2. CASE q < d
    <3>1. d >= q + 1 /\ (d - q - 1) * g >= 0
      BY <1>1, <1>2, <2>2
    <3>2. (d - q - 1) * g = g * d - q * g - g
      BY <1>1, <1>2
    <3> QED BY <1>1, <1>2, <3>1, <3>2
  <2> QED BY <1>1, <1>2, <2>1, <2>2
<1>4. r = 0
  <2>1. q * g = g * d
    BY <1>1, <1>2, <1>3
  <2> QED BY <1>1, <1>2, <2>1
<1> QED BY <1>4 DEF r

\* Nothing is taken over before the end; then it is what TakenOver says.
HandedOver == /\ call.op /= "over" => buddy = {}
              /\ call.op = "over" => buddy = TakenOver(info)

LEMMA HandedOverInit == Init => HandedOver
BY DEF Init, HandedOver, Over, Call

LEMMA HandedOverNext == SInv /\ HandedOver /\ [Next]_vars => HandedOver'
<1> SUFFICES ASSUME SInv, HandedOver, [Next]_vars PROVE HandedOver'
  OBVIOUS
<1>0. call \in Calls
  BY DEF SInv, Scalars
<1>1. CASE UNCHANGED vars
  BY <1>1 DEF vars, HandedOver, TakenOver
<1>2. CASE Reserve
  <2>1. CASE call.who = "init_buddy"
    BY <1>2, <2>1 DEF Reserve, HandedOver, Over, Call
  <2>2. CASE call.who /= "init_buddy"
    BY <1>2, <2>2 DEF Reserve, HandedOver, Over, Call
  <2> QED BY <2>1, <2>2
<1>3. CASE Next /\ ~Reserve
  <2> DEFINE Goes == buddy' = buddy /\ call.op /= "over" /\ call'.op /= "over"
  <2>1. ASSUME NEW who, NEW n, NEW t, NEW a, bootmm_alloc_pages(who, n, t, a) PROVE Goes
    BY <2>1 DEF bootmm_alloc_pages, Call
  <2>2. ASSUME NEW i, NEW page, split_mminfo(i, page) PROVE Goes
    BY <2>2 DEF split_mminfo, Over, Call
  <2>3. ASSUME SkipUsed PROVE Goes
    BY <1>0, <2>3 DEF SkipUsed, Searching, Calls
  <2>4. ASSUME StartCounting PROVE Goes
    BY <1>0, <2>4 DEF StartCounting, Searching, Calls
  <2>5. ASSUME CountPage PROVE Goes
    BY <1>0, <2>5 DEF CountPage, Searching, Calls
  <2>6. ASSUME SearchEnds PROVE Goes
    <3>1. /\ Searching /\ buddy' = buddy
          /\ call'.op \in {"front", "stuck", "none"}
      BY <1>0, <2>6 DEF SearchEnds, Searching, Calls, Over, Call
    <3> QED BY <3>1 DEF Searching
  <2> HIDE DEF Goes
  <2>7. Goes
    BY <1>3, <2>1, <2>2, <2>3, <2>4, <2>5, <2>6, Zenon DEF Next
  <2> QED BY <2>7 DEF HandedOver, Goes
<1> QED BY <1>1, <1>2, <1>3

\* What the page allocator takes over is not in use, but for pages that the table had no
\* room for and for a last page that begins a group.
THEOREM BuddyGetsFreePages == Spec => []BuddyTakesFree
<1>1. SInv /\ MapInv /\ HandedOver => BuddyTakesFree
  <2> SUFFICES ASSUME SInv, MapInv, HandedOver,
                      NEW q \in buddy, q \in used, q \notin unrecorded
               PROVE  /\ Max(Recorded(info)) % Group = 0
                      /\ q = Max(Recorded(info))
    BY DEF BuddyTakesFree
  <2> DEFINE ends == {info[i].end : i \in DOMAIN info}
             E    == Max(ends)
  <2>1. info \in Seq(Segments) /\ DOMAIN info = 1 .. Len(info) /\ Len(info) >= 1
    BY LenProperties DEF MapInv, WellFormed
  <2>2. \A i \in 1 .. Len(info) : /\ info[i].start \in Pfns /\ info[i].end \in Pfns
                                  /\ info[i].start <= info[i].end
    <3>1. \A i \in 1 .. Len(info) : info[i] \in Segments
      BY <2>1, ElementOfSeq
    <3> QED BY <3>1 DEF Segments, MapInv, WellFormed
  <2>3. ends \subseteq Pfns /\ ends /= {}
    <3>1. 1 \in DOMAIN info
      BY <2>1, LenProperties
    <3> QED BY <2>1, <2>2, <3>1
  <2>4. E \in ends /\ \A x \in ends : E >= x
    BY <2>3, MaxFacts
  <2> HIDE DEF E
  <2>5. \A p : p \in Recorded(info) <=> p \in Pfns /\ In(info, p)
    BY <2>1, RecordedFacts
  <2>6. \A p \in Recorded(info) : p \in Pfns /\ p <= E
    <3> SUFFICES ASSUME NEW p \in Recorded(info) PROVE p \in Pfns /\ p <= E
      OBVIOUS
    <3>1. p \in Pfns
      BY <2>5
    <3>2. PICK i \in 1 .. Len(info) : p <= info[i].end
      BY <2>5 DEF In
    <3>3. info[i].end \in ends /\ info[i].end \in Pfns
      BY <2>1, <2>2
    <3>4. E >= info[i].end /\ E \in Pfns
      BY <2>3, <2>4, <3>3
    <3> QED BY <3>1, <3>2, <3>3, <3>4, MapAssumption DEF Pfns
  <2>7. E \in Recorded(info)
    <3>1. PICK i \in 1 .. Len(info) : E = info[i].end
      BY <2>1, <2>4
    <3>2. info[i].start <= E /\ E <= info[i].end /\ E \in Pfns
      BY <2>2, <3>1, MapAssumption DEF Pfns
    <3> QED BY <2>5, <3>2 DEF In
  <2> HIDE DEF ends
  <2>8. Max(Recorded(info)) = E
    <3>1. /\ Max(Recorded(info)) \in Recorded(info)
          /\ \A x \in Recorded(info) : Max(Recorded(info)) >= x
      BY <2>6, <2>7, MaxFacts
    <3>2. Max(Recorded(info)) <= E /\ Max(Recorded(info)) >= E
      BY <2>6, <2>7, <3>1
    <3>3. Max(Recorded(info)) \in Int /\ E \in Int
      BY <2>6, <2>7, <3>1, MapAssumption DEF Pfns
    <3> QED BY ONLY <3>2, <3>3
  <2>9. E \in Nat /\ q \in Recorded(info) /\ q \in Nat /\ q <= E
    BY <2>5, <2>6, <2>7, MapAssumption DEF MapInv, SInv, Scalars, Pfns
  <2>10. RoundUp(E, Group) \in Nat /\ RoundUp(E, Group) >= E
    BY <2>9, RoundUpFacts, RequestAssumption
  <2>11. q \in RoundUp(E, Group) .. (MaxPfn \div Group) * Group - 1
    BY DEF HandedOver, TakenOver, E, ends
  <2>12. (MaxPfn \div Group) * Group - 1 \in Int
    BY MapAssumption, RequestAssumption
  <2>13. RoundUp(E, Group) = E /\ q = E
    BY <2>9, <2>10, <2>11, <2>12
  <2>14. E % Group = 0
    BY <2>9, <2>13, RoundedIsMultiple, RequestAssumption
  <2> QED BY <2>8, <2>13, <2>14
<1>2. SInv /\ MapInv /\ HandedOver /\ [Next]_vars => (SInv /\ MapInv /\ HandedOver)'
  BY SInvNext, MapInvNext, HandedOverNext
<1> QED BY <1>1, <1>2, MapInvInit, SInvInit, HandedOverInit, PTL DEF Spec
=============================================================================
