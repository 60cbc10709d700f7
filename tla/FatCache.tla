------------------------------ MODULE FatCache ------------------------------
(***************************************************************************)
(* The buffers of the file allocation table: read_fat_sector and           *)
(* write_fat_sector (kernel/fs/fat/fat.c), the two functions that reach    *)
(* the table through them (get_fat_entry_value and fs_modify_fat, utils.c) *)
(* and the flush of fs_fflush, for calls without a journal handle.         *)
(*                                                                         *)
(* The SD card holds the table twice.  Every sector is written, first to   *)
(* the one and then to the other copy, in two writes of the SD card, and   *)
(* the machine may stop between any two accesses.  Of a sector's contents  *)
(* only which of a few values it has is kept.                              *)
(*                                                                         *)
(* An error of the SD card is an even code (sd.c).  The callers compare it *)
(* with 1: they go on as if the sector had been transferred.               *)
(***************************************************************************)
EXTENDS Clock, FiniteSets

CONSTANTS
  Sectors,     \* the sectors of the table
  Values,      \* what a sector may contain
  None,        \* 0xffffffff, the cur of an empty buffer
  Blank,       \* one of Values: the table on a new card
  MaxCrashes,  \* bound: how often the machine stops
  Faults       \* whether the SD card may report errors

ASSUME NoneAssumption == None \notin Sectors
ASSUME SectorsAssumption == IsFiniteSet(Sectors)
ASSUME BlankAssumption == Blank \in Values
ASSUME MaxCrashesAssumption == MaxCrashes \in Nat
ASSUME FaultsAssumption == Faults \in BOOLEAN

VARIABLES
  cur,             \* fat_buf[i].cur
  state,           \* fat_buf[i].state
  data,            \* fat_buf[i].buf
  fat_clock_head,
  fat,             \* the table on the card
  copy,            \* its copy
  call,            \* the call in progress, with its local variables
  got,             \* what the last get_fat_entry_value returned
  crashes          \* how often the machine has stopped

bufs == <<cur, state, data, fat_clock_head>>
vars == <<bufs, fat, copy, call, got, crashes>>

NoCall == [op |-> "none", at |-> "return", sector |-> None, value |-> Blank, index |-> 0]

\* init_fat_buf
NoCur == [i \in Bufs |-> None]
NoState == [i \in Bufs |-> [ref |-> FALSE, dirty |-> FALSE]]

Init ==
  /\ cur = NoCur
  /\ state = NoState
  /\ data = [i \in Bufs |-> Blank]
  /\ fat_clock_head = 0
  /\ fat = [s \in Sectors |-> Blank]
  /\ copy = [s \in Sectors |-> Blank]
  /\ call = NoCall
  /\ got = Blank
  /\ crashes = 0

\* Variant: the search looks at the first buffer only.
CachedFirst(s) == cur[0] = s

Cached(s) == \E i \in Bufs : cur[i] = s

\* Variant: a buffer counts as dirty only while it is referenced.
UnwrittenReferenced(i) == cur[i] # None /\ state[i] = [ref |-> TRUE, dirty |-> TRUE]

\* A buffer has to be written before it is used for another sector.
Unwritten(i) == cur[i] # None /\ state[i].dirty

----------------------------------------------------------------------------
\* What get_fat_entry_value and fs_modify_fat do with the value v that
\* read_fat_sector left in buffer i, which `was' dirty or not.
Deliver(op, new, i, v, was) ==
  /\ got' = IF op = "get" THEN v ELSE got
  /\ state' = [state EXCEPT ![i] = [ref |-> TRUE, dirty |-> op = "modify" \/ was]]
  /\ data' = [data EXCEPT ![i] = IF op = "modify" THEN new ELSE v]

\* read_fat_sector finds the sector in a buffer.
Hit(op, s, new) ==
  /\ call.op = "none"
  /\ \E i \in Bufs : cur[i] = s /\ Deliver(op, new, i, data[i], state[i].dirty)
  /\ UNCHANGED <<cur, fat_clock_head, fat, copy, call, crashes>>

\* It does not: a victim is chosen.
Miss(op, s, new) ==
  /\ call.op = "none"
  /\ ~Cached(s)
  /\ \E d \in Bufs :
       LET i == Ahead(fat_clock_head, d) IN
       /\ Victim(state, fat_clock_head, d, state')
       /\ fat_clock_head' = Ahead(i, 1)
       /\ call' = [op |-> op, at |-> IF Unwritten(i) THEN "fat" ELSE "read",
                   sector |-> s, value |-> new, index |-> i]
  /\ UNCHANGED <<cur, data, fat, copy, got, crashes>>

\* The sector is read into the victim, or the victim keeps what it has.
Read ==
  /\ call.at = "read"
  /\ \E v \in {fat[call.sector]} \cup (IF Faults THEN {data[call.index]} ELSE {}) :
       /\ cur' = [cur EXCEPT ![call.index] = call.sector]
       /\ Deliver(call.op, call.value, call.index, v, FALSE)
  /\ call' = NoCall
  /\ UNCHANGED <<fat_clock_head, fat, copy, crashes>>

\* Variant: the copy is left out.
WriteFatOnly ==
  /\ call.at = "fat"
  /\ LET i == call.index IN
     /\ fat' = [fat EXCEPT ![cur[i]] = data[i]]
     /\ state' = [state EXCEPT ![i].dirty = FALSE]
  /\ call' = [call EXCEPT !.at = IF call.op = "flush" THEN "next" ELSE "read"]
  /\ UNCHANGED <<cur, data, fat_clock_head, copy, got, crashes>>

\* write_fat_sector: the table, then its copy.
WriteFat ==
  /\ call.at = "fat"
  /\ LET i == call.index IN
     \/ fat' = [fat EXCEPT ![cur[i]] = data[i]]
     \/ Faults /\ fat' = fat
  /\ call' = [call EXCEPT !.at = "copy"]
  /\ UNCHANGED <<bufs, copy, got, crashes>>

WriteCopy ==
  /\ call.at = "copy"
  /\ LET i == call.index IN
     /\ \/ copy' = [copy EXCEPT ![cur[i]] = data[i]]
        \/ Faults /\ copy' = copy
     /\ state' = [state EXCEPT ![i].dirty = FALSE]
  /\ call' = [call EXCEPT !.at = IF call.op = "flush" THEN "next" ELSE "read"]
  /\ UNCHANGED <<cur, data, fat_clock_head, fat, got, crashes>>

\* fs_fflush, its part about the table, starts with buffer 0.
Flush ==
  /\ call.op = "none"
  /\ call' = [NoCall EXCEPT !.op = "flush", !.at = IF Unwritten(0) THEN "fat" ELSE "next"]
  /\ UNCHANGED <<bufs, fat, copy, got, crashes>>

\* Variant: the last buffer is not flushed.
FlushNextShort ==
  /\ call.at = "next"
  /\ LET i == call.index + 1 IN
     call' = IF i >= NBuf - 1 THEN NoCall
             ELSE [call EXCEPT !.index = i, !.at = IF Unwritten(i) THEN "fat" ELSE "next"]
  /\ UNCHANGED <<bufs, fat, copy, got, crashes>>

FlushNext ==
  /\ call.at = "next"
  /\ LET i == call.index + 1 IN
     call' = IF i = NBuf THEN NoCall
             ELSE [call EXCEPT !.index = i, !.at = IF Unwritten(i) THEN "fat" ELSE "next"]
  /\ UNCHANGED <<bufs, fat, copy, got, crashes>>

\* The machine stops and is started again: init_fat_buf.
Crash ==
  /\ crashes < MaxCrashes
  /\ crashes' = crashes + 1
  /\ cur' = NoCur
  /\ state' = NoState
  /\ data' = [i \in Bufs |-> Blank]
  /\ fat_clock_head' = 0
  /\ call' = NoCall
  /\ got' = Blank
  /\ UNCHANGED <<fat, copy>>

get_fat_entry_value(s) == Hit("get", s, Blank) \/ Miss("get", s, Blank)
fs_modify_fat(s, new) == Hit("modify", s, new) \/ Miss("modify", s, new)

Next ==
  \/ \E s \in Sectors : get_fat_entry_value(s)
  \/ \E s \in Sectors, new \in Values : fs_modify_fat(s, new)
  \/ Read
  \/ WriteFat
  \/ WriteCopy
  \/ Flush
  \/ FlushNext
  \/ Crash

Spec == Init /\ [][Next]_vars

----------------------------------------------------------------------------
TypeOK ==
  /\ cur \in [Bufs -> Sectors \cup {None}]
  /\ state \in [Bufs -> States]
  /\ data \in [Bufs -> Values]
  /\ fat_clock_head \in Bufs
  /\ fat \in [Sectors -> Values]
  /\ copy \in [Sectors -> Values]
  /\ call \in [op : {"none", "get", "modify", "flush"},
               at : {"return", "read", "fat", "copy", "next"},
               sector : Sectors \cup {None}, value : Values, index : Bufs]
  /\ got \in Values
  /\ crashes \in Nat

\* A sector is in one buffer at most, so that the linear search of
\* read_fat_sector cannot come upon an old version of it.
OneBufferPerSector ==
  \A i, j \in Bufs : cur[i] = cur[j] /\ cur[i] # None => i = j

\* A buffer that is not marked dirty may be dropped: it says what the card says.
CleanIsOnCard ==
  \A i \in Bufs : cur[i] # None /\ ~state[i].dirty => data[i] = fat[cur[i]]

\* The two copies of the table differ only where a write was interrupted: one
\* sector for every stop of the machine, and the one being written.
CopiesAgree ==
  Cardinality({s \in Sectors : fat[s] # copy[s]})
    <= crashes + (IF call.at = "copy" THEN 1 ELSE 0)

\* What the callers see of the table.
View == [s \in Sectors |->
           IF Cached(s) THEN data[CHOOSE i \in Bufs : cur[i] = s] ELSE fat[s]]

\* When fs_fflush returns, all that was modified is on the card ("write global
\* buffers to sd", fat.c:489).
FlushReachesCard ==
  [][call.op = "flush" /\ call'.op = "none" /\ crashes' = crashes => fat' = View']_vars

\* The table with the buffers is a table: see FatTable.
Table == INSTANCE FatTable WITH view <- View, stable <- fat
TableSpec == Table!Spec
=============================================================================
