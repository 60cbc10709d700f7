------------------------------- MODULE Bootmm -------------------------------
(***************************************************************************)
(* The memory map of the boot, kernel/mm/bootmm.c, and what init_buddy     *)
(* takes from it (kernel/mm/buddy.c).                                      *)
(*                                                                         *)
(* The same memory is described twice: by a bitmap of pages (used) and by  *)
(* a short table of segments (info).  bootmm_alloc_pages searches the      *)
(* bitmap and enters what it found in the table; init_buddy reads only the *)
(* table.  One turn of the search loop of find_pages is a step.            *)
(*                                                                         *)
(* Everything is counted in pages: start and end of a segment are byte     *)
(* addresses in the code, always the first and the last byte of a page.    *)
(*                                                                         *)
(* The model takes bootmm.h as it stands: any calls, then init_buddy.  The *)
(* kernel at this commit makes the call of init_buddy only, and nothing    *)
(* calls split_mminfo.                                                     *)
(***************************************************************************)
EXTENDS Integers, Sequences, FiniteSetsExt, SequencesExt

CONSTANTS
  MaxPfn,       \* bmm.max_pfn
  KernelPages,  \* the pages of the first 16 MB
  MaxInfo,      \* MAX_INFO, the length of the table
  Types,        \* enum mm_usage
  MM_KERNEL,    \* _MM_KERNEL
  Requests,     \* the sizes asked for, in pages
  Aligns,       \* the alignments asked for, in pages
  PageArray,    \* the pages of init_buddy's array of struct page
  Group         \* 1 << MAX_BUDDY_ORDER

ASSUME MapAssumption ==
  /\ MaxPfn \in Nat /\ KernelPages \in 1 .. MaxPfn
  /\ MaxInfo \in Nat \ {0} /\ MM_KERNEL \in Types
ASSUME RequestAssumption ==
  /\ Requests \subseteq Nat \ {0} /\ PageArray \in Nat \ {0}
  /\ Aligns \subseteq Nat \ {0} /\ 1 \in Aligns /\ Group \in Nat \ {0}

VARIABLES
  used,            \* the pages whose byte of s_map is PAGE_USED
  info,            \* info[1 .. cnt_infos]
  last_alloc_end,
  call,            \* the call in progress, with the locals of find_pages
  unrecorded,      \* history: reserved pages that the table had no room for
  buddy            \* the pages that init_buddy takes over

vars == <<used, info, last_alloc_end, call, unrecorded, buddy>>

Segment(s, e, t) == [start |-> s, end |-> e, type |-> t]

\* A call: who makes it, what it asks for, and in which of the two searches it is.
\* While cnt > 0 the inner loop of find_pages is at page tmp.
Call(who, n, type, align) ==
  [op |-> "forward", who |-> who, n |-> n, type |-> type, align |-> align,
   index |-> 0, end |-> 0, tmp |-> 0, cnt |-> 0]
Over(op) == [Call("nobody", 1, MM_KERNEL, 1) EXCEPT !.op = op]

Searching == call.op \in {"forward", "front"}

\* The n pages from s on.
Run(s, n) == s .. s + n - 1

\* The pages of the segments of a table.
Recorded(table) == UNION {table[i].start .. table[i].end : i \in DOMAIN table}

\* s rounded up to a multiple of a.
RoundUp(s, a) == ((s + a - 1) \div a) * a

TypeOK ==
  /\ used \subseteq 0 .. MaxPfn - 1
  /\ info \in Seq([start : 0 .. MaxPfn - 1, end : 0 .. MaxPfn - 1, type : Types])
  /\ Len(info) <= MaxInfo
  /\ last_alloc_end \in 0 .. MaxPfn - 1
  /\ call \in [op : {"none", "forward", "front", "found", "over", "stuck"},
               who : {"nobody", "boot", "init_buddy"}, n : Nat \ {0}, type : Types,
               align : Nat \ {0}, index : Nat, end : 0 .. MaxPfn, tmp : Nat, cnt : Nat]
  /\ unrecorded \subseteq 0 .. MaxPfn - 1
  /\ buddy \subseteq 0 .. MaxPfn - 1

\* init_bootmm
Init ==
  /\ used = Run(0, KernelPages)
  /\ info = <<Segment(0, KernelPages - 1, MM_KERNEL)>>
  /\ last_alloc_end = KernelPages - 1
  /\ call = Over("none")
  /\ unrecorded = {}
  /\ buddy = {}
-----------------------------------------------------------------------------
(* The table *)

\* The new segment continues segment i, and insert_mminfo extends i: no segment
\* of this type comes next in the table, or one that the new segment leads up to.
JoinsEnd(table, i, s, e, t) ==
  /\ table[i].type = t
  /\ table[i].end = s - 1
  /\ \/ i = Len(table)
     \/ table[i + 1].type /= t
     \/ table[i + 1].start - 1 = e

\* The new segment leads up to segment i.
JoinsStart(table, i, s, e, t) ==
  /\ table[i].type = t
  /\ table[i].start - 1 = e

Joins(table, i, s, e, t) == JoinsEnd(table, i, s, e, t) \/ JoinsStart(table, i, s, e, t)

\* The new segment closes the gap between segment i and the next of its type.
Bridges(table, i, e, t) ==
  i < Len(table) /\ table[i + 1].type = t /\ table[i + 1].start - 1 = e

\* remove_mminfo
remove_mminfo(table, i) == RemoveAt(table, i)

\* There is no segment to join and no room for another.
Refuses(table, s, e, t) ==
  Len(table) >= MaxInfo /\ \A i \in DOMAIN table : ~Joins(table, i, s, e, t)

\* Variant: a bridged gap keeps the end of the new segment.
insert_mminfoShort(table, s, e, t) ==
  LET hits == {i \in DOMAIN table : Joins(table, i, s, e, t)}
      i    == Min(hits)
  IN  CASE Refuses(table, s, e, t) -> table
        [] hits = {} /\ Len(table) < MaxInfo -> Append(table, Segment(s, e, t))
        [] hits /= {} /\ ~JoinsEnd(table, i, s, e, t) -> [table EXCEPT ![i].start = s]
        [] hits /= {} /\ JoinsEnd(table, i, s, e, t) ->
             LET grown == [table EXCEPT ![i].end = e]
             IN  IF Bridges(table, i, e, t) THEN remove_mminfo(grown, i + 1) ELSE grown

\* insert_mminfo: the first segment that the new one can be joined to grows,
\* else the new one is entered at the end.
insert_mminfo(table, s, e, t) ==
  LET hits == {i \in DOMAIN table : Joins(table, i, s, e, t)}
      i    == Min(hits)
  IN  CASE Refuses(table, s, e, t) -> table
        [] hits = {} /\ Len(table) < MaxInfo -> Append(table, Segment(s, e, t))
        [] hits /= {} /\ ~JoinsEnd(table, i, s, e, t) -> [table EXCEPT ![i].start = s]
        [] hits /= {} /\ JoinsEnd(table, i, s, e, t) /\ ~Bridges(table, i, e, t) ->
             [table EXCEPT ![i].end = e]
        [] hits /= {} /\ JoinsEnd(table, i, s, e, t) /\ Bridges(table, i, e, t) ->
             remove_mminfo([table EXCEPT ![i].end = table[i + 1].end], i + 1)

\* split_mminfo(index, page), with index counted from 1.  For the first entry the loop
\* that makes room runs below the table and never ends: tmp >= 0 always holds.
split_mminfo(i, page) ==
  /\ call.op = "none"
  /\ page \in info[i].start + 1 .. info[i].end
  /\ Len(info) < MaxInfo
  /\ IF i = 1
     THEN call' = Over("stuck") /\ UNCHANGED info
     ELSE /\ info' = InsertAt([info EXCEPT ![i].start = page], i,
                             [info[i] EXCEPT !.end = page - 1])
          /\ UNCHANGED call
  /\ UNCHANGED <<used, last_alloc_end, unrecorded, buddy>>
-----------------------------------------------------------------------------
(* The bitmap *)

\* bootmm_alloc_pages is entered: the first search starts behind the last reservation.
bootmm_alloc_pages(who, n, type, align) ==
  /\ call.op = "none"
  /\ call' = [Call(who, n, type, align) EXCEPT
                !.index = RoundUp(last_alloc_end + 1, align), !.end = MaxPfn]
  /\ UNCHANGED <<used, info, last_alloc_end, unrecorded, buddy>>

\* find_pages: the page at index is in use.
SkipUsed ==
  /\ Searching /\ call.cnt = 0
  /\ call.index < call.end /\ call.index \in used
  /\ call' = [call EXCEPT !.index = @ + 1]
  /\ UNCHANGED <<used, info, last_alloc_end, unrecorded, buddy>>

\* find_pages: the page at index is free, count from there.
StartCounting ==
  /\ Searching /\ call.cnt = 0
  /\ call.index < call.end /\ call.index \notin used
  /\ call' = [call EXCEPT !.tmp = call.index, !.cnt = call.n]
  /\ UNCHANGED <<used, info, last_alloc_end, unrecorded, buddy>>

\* Variant: the page looked at is the one already counted.
CountPageLate ==
  /\ Searching /\ call.cnt > 0
  /\ call.tmp < call.end
  /\ call' =
       IF call.cnt = 1
       THEN [call EXCEPT !.op = "found", !.tmp = @ + 1, !.cnt = 0]
       ELSE IF call.tmp \in used
            THEN [call EXCEPT !.index = call.tmp + 1 + call.align, !.tmp = 0, !.cnt = 0]
            ELSE [call EXCEPT !.tmp = @ + 1, !.cnt = @ - 1]
  /\ UNCHANGED <<used, info, last_alloc_end, unrecorded, buddy>>

\* One turn of the inner loop.  The page at tmp is free here (the turn before has looked),
\* so tmp moves on; the page it comes to ends the run if it is in use.  (Behind the last
\* page the code reads one byte beyond the map; whatever it is, the search is over.)
CountPage ==
  /\ Searching /\ call.cnt > 0
  /\ call.tmp < call.end
  /\ call' =
       IF call.cnt = 1
       THEN [call EXCEPT !.op = "found", !.tmp = @ + 1, !.cnt = 0]
       ELSE IF call.tmp + 1 \in used
            THEN [call EXCEPT !.index = call.tmp + 1 + call.align, !.tmp = 0, !.cnt = 0]
            ELSE [call EXCEPT !.tmp = @ + 1, !.cnt = @ - 1]
  /\ UNCHANGED <<used, info, last_alloc_end, unrecorded, buddy>>

\* Variant: the second search ends where the first began to fail.
SearchEndsOnce ==
  /\ Searching
  /\ \/ call.cnt = 0 /\ call.index >= call.end
     \/ call.cnt > 0 /\ call.tmp >= call.end
  /\ call' =
       IF call.op = "forward"
       THEN [call EXCEPT !.op = "front", !.index = RoundUp(last_alloc_end + 1, call.align),
                         !.end = MaxPfn, !.tmp = 0, !.cnt = 0]
       ELSE Over(IF call.who = "init_buddy" THEN "stuck" ELSE "none")
  /\ UNCHANGED <<used, info, last_alloc_end, unrecorded, buddy>>

\* find_pages has found nothing: the second search is in front of the last reservation,
\* after it the call fails, and init_buddy then loops for ever.
SearchEnds ==
  /\ Searching
  /\ \/ call.cnt = 0 /\ call.index >= call.end
     \/ call.cnt > 0 /\ call.tmp >= call.end
  /\ call' =
       IF call.op = "forward"
       THEN [call EXCEPT !.op = "front", !.index = RoundUp(0, call.align),
                         !.end = last_alloc_end, !.tmp = 0, !.cnt = 0]
       ELSE Over(IF call.who = "init_buddy" THEN "stuck" ELSE "none")
  /\ UNCHANGED <<used, info, last_alloc_end, unrecorded, buddy>>

\* Variant: the start is rounded down.
TakenOverDown(table) ==
  (Max({table[i].end : i \in DOMAIN table}) \div Group) * Group .. (MaxPfn \div Group) * Group - 1

\* init_buddy: buddy_start_pfn and buddy_end_pfn, from the last page of the table and the
\* size of memory, rounded to whole groups.
TakenOver(table) ==
  RoundUp(Max({table[i].end : i \in DOMAIN table}), Group) .. (MaxPfn \div Group) * Group - 1

\* The search has a run: it is reserved and entered in the table.  Whether the table had
\* room for it, nobody asks.
Reserve ==
  LET block == Run(call.index, call.n)
      last  == call.index + call.n - 1
  IN  /\ call.op = "found"
      /\ last_alloc_end' = call.tmp - 1
      /\ used' = used \cup block
      /\ info' = insert_mminfo(info, call.index, last, call.type)
      /\ unrecorded' = IF Refuses(info, call.index, last, call.type)
                       THEN unrecorded \cup block ELSE unrecorded
      /\ buddy' = IF call.who = "init_buddy"
                  THEN TakenOver(info')
                  ELSE buddy
      /\ call' = Over(IF call.who = "init_buddy" THEN "over" ELSE "none")

Next ==
  \/ \E n \in Requests, t \in Types, a \in Aligns : bootmm_alloc_pages("boot", n, t, a)
  \/ bootmm_alloc_pages("init_buddy", PageArray, MM_KERNEL, 1)
  \/ \E i \in DOMAIN info, page \in 0 .. MaxPfn - 1 : split_mminfo(i, page)
  \/ SkipUsed \/ StartCounting \/ CountPage \/ SearchEnds \/ Reserve

Spec == Init /\ [][Next]_vars
-----------------------------------------------------------------------------
\* The table and the bitmap describe the same memory: every page in use is in exactly
\* one segment, but for those the table had no room for, and no segment has a free page.
\* (insert_mminfo joins, bridges and appends; split_mminfo divides.)
TableIsMap ==
  /\ \A i, j \in DOMAIN info : i /= j =>
       (info[i].start .. info[i].end) \cap (info[j].start .. info[j].end) = {}
  /\ Recorded(info) \cap unrecorded = {}
  /\ Recorded(info) \cup unrecorded = used

\* A call that succeeds reserves as many pages as were asked for, all of them free until
\* then, and the last of them is remembered as the last reservation.
NeverTwice ==
  [][used' /= used => used' \ used = Run(last_alloc_end' - call.n + 1, call.n)]_vars

\* A call without an alignment fails only if there is no run of free pages as long as it
\* asks for, anywhere: the two searches together leave nothing out.
FailsOnlyWhenFull ==
  [][call.op = "front" /\ ~Searching' /\ used' = used /\ call'.op /= "found" /\ call.align = 1
       => \A p \in 0 .. MaxPfn - call.n : Run(p, call.n) \cap used /= {}]_vars

\* What the page allocator takes over from the boot is not in use, but for pages that the
\* table had no room for, and for the last page in use if a group starts with it:
\* kernel_end_pfn is the last page of the table, not the one behind it.
BuddyTakesFree ==
  LET end == Max(Recorded(info))
  IN  buddy \cap used \subseteq
        unrecorded \cup (IF end % Group = 0 THEN {end} ELSE {})
=============================================================================
