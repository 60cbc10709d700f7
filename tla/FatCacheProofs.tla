--------------------------- MODULE FatCacheProofs ---------------------------
(***************************************************************************)
(* The buffers of the file allocation table never disagree with it: proofs *)
(* for any number of buffers and sectors, any contents and any number of   *)
(* stops of the machine; and the loops of fs_victim_512 and fs_victim_4k   *)
(* find the victim that Victim names, which the models of buffers use.     *)
(***************************************************************************)
EXTENDS FatCache, ClockLoop, FiniteSetTheorems, TLAPS

\* The hand stays among the buffers.
LEMMA AheadInBufs ==
  \A h \in Bufs, d \in 0 .. NBuf : Ahead(h, d) \in Bufs
BY NBufAssumption DEF Ahead, Bufs

LEMMA OneStepAhead ==
  \A h \in Bufs : Ahead(h, 1) \in Bufs
BY NBufAssumption DEF Ahead, Bufs

\* The sweeps clear reference bits and nothing else.
LEMMA SweepsKeepDirty ==
  ASSUME NEW st \in [Bufs -> States], NEW h, NEW d, NEW after, Victim(st, h, d, after)
  PROVE  after \in [Bufs -> States] /\ \A i \in Bufs : after[i].dirty = st[i].dirty
<1>1. ASSUME NEW n
      PROVE  /\ Swept(st, h, n) \in [Bufs -> States]
             /\ \A i \in Bufs : Swept(st, h, n)[i].dirty = st[i].dirty
  BY DEF Swept, States
<1> QED BY <1>1 DEF Victim

\* A victim that is not written first is empty or clean.
Consistent ==
  /\ call.op = "none" <=> call.at = "return"
  /\ call.at = "read" => /\ call.op \in {"get", "modify"}
                         /\ call.sector \in Sectors
                         /\ ~Cached(call.sector)
                         /\ ~Unwritten(call.index)
  /\ call.at \in {"fat", "copy"} => Unwritten(call.index)
  /\ call.at \in {"fat", "copy"} /\ call.op # "flush" =>
       /\ call.op \in {"get", "modify"}
       /\ call.sector \in Sectors
       /\ ~Cached(call.sector)
  /\ call.at = "copy" /\ ~Faults => data[call.index] = fat[cur[call.index]]
  /\ call.at = "next" => call.op = "flush"
  /\ \A i \in Bufs : cur[i] = None => ~state[i].dirty

IInv ==
  /\ TypeOK
  /\ OneBufferPerSector
  /\ Consistent
  /\ ~Faults => CleanIsOnCard

----------------------------------------------------------------------------
LEMMA IInvInit == Init => IInv
<1> SUFFICES ASSUME Init PROVE IInv
  OBVIOUS
<1>1. 0 \in Bufs /\ None \notin Sectors /\ Blank \in Values
  BY NBufAssumption, NoneAssumption, BlankAssumption DEF Bufs
<1>2. TypeOK
  BY <1>1 DEF Init, TypeOK, NoCur, NoState, NoCall, States
<1>3. OneBufferPerSector /\ Consistent /\ CleanIsOnCard
  BY <1>1 DEF Init, OneBufferPerSector, Consistent, CleanIsOnCard, NoCur, NoState, NoCall
<1> QED BY <1>2, <1>3 DEF IInv

\* A hit changes the buffer that has the sector, and only its state and data.
LEMMA HitKeepsIInv ==
  ASSUME IInv, NEW op \in {"get", "modify"}, NEW s \in Sectors, NEW new \in Values,
         Hit(op, s, new)
  PROVE  IInv'
<1>1. PICK i \in Bufs : cur[i] = s /\ Deliver(op, new, i, data[i], state[i].dirty)
  BY DEF Hit
<1>2. /\ TypeOK /\ s # None /\ call.op = "none" /\ call' = call /\ cur' = cur
      /\ fat_clock_head' = fat_clock_head /\ fat' = fat /\ copy' = copy
      /\ crashes' = crashes /\ call.at = "return"
  BY NoneAssumption DEF Hit, IInv, Consistent
<1>3. /\ state' = [state EXCEPT ![i] = [ref |-> TRUE, dirty |-> op = "modify" \/ state[i].dirty]]
      /\ data' = [data EXCEPT ![i] = IF op = "modify" THEN new ELSE data[i]]
      /\ got' = IF op = "get" THEN data[i] ELSE got
  BY <1>1 DEF Deliver
<1>4. state[i].dirty \in BOOLEAN
  BY <1>2 DEF TypeOK, States
<1>5. state' \in [Bufs -> States]
  BY <1>2, <1>3, <1>4 DEF TypeOK, States
<1>6. data' \in [Bufs -> Values] /\ got' \in Values
  BY <1>2, <1>3 DEF TypeOK
<1>7. TypeOK'
  BY <1>2, <1>5, <1>6 DEF TypeOK
<1>8. OneBufferPerSector'
  BY <1>2 DEF IInv, OneBufferPerSector
<1>9. \A j \in Bufs : j # i => state'[j] = state[j] /\ data'[j] = data[j]
  BY <1>2, <1>3 DEF TypeOK
<1>10. Consistent'
  BY <1>1, <1>2, <1>9 DEF IInv, Consistent
<1>11. ~Faults => CleanIsOnCard'
  <2>1. state'[i].dirty = (op = "modify" \/ state[i].dirty)
    BY <1>2, <1>3 DEF TypeOK
  <2>2. ~state'[i].dirty => data'[i] = data[i] /\ ~state[i].dirty
    BY <1>2, <1>3, <2>1 DEF TypeOK
  <2> QED BY <1>1, <1>2, <1>9, <2>2 DEF IInv, CleanIsOnCard
<1> QED BY <1>7, <1>8, <1>10, <1>11 DEF IInv

\* Choosing a victim clears reference bits.
LEMMA MissKeepsIInv ==
  ASSUME IInv, NEW op \in {"get", "modify"}, NEW s \in Sectors, NEW new \in Values,
         Miss(op, s, new)
  PROVE  IInv'
<1>1. PICK d \in Bufs :
        /\ Victim(state, fat_clock_head, d, state')
        /\ fat_clock_head' = Ahead(Ahead(fat_clock_head, d), 1)
        /\ call' = [op |-> op, at |-> IF Unwritten(Ahead(fat_clock_head, d)) THEN "fat" ELSE "read",
                    sector |-> s, value |-> new, index |-> Ahead(fat_clock_head, d)]
  BY DEF Miss
<1>0. PICK v : v = Ahead(fat_clock_head, d)
  OBVIOUS
<1>2. /\ TypeOK /\ ~Cached(s) /\ cur' = cur /\ data' = data /\ fat' = fat /\ copy' = copy
      /\ got' = got /\ crashes' = crashes
  BY DEF Miss, IInv
<1>3. d \in 0 .. NBuf /\ fat_clock_head \in Bufs
  BY <1>2, NBufAssumption DEF Bufs, TypeOK
<1>4. v \in Bufs /\ fat_clock_head' \in Bufs
  BY <1>0, <1>1, <1>3, AheadInBufs, OneStepAhead
<1>5. state' \in [Bufs -> States] /\ \A i \in Bufs : state'[i].dirty = state[i].dirty
  BY <1>1, <1>2, SweepsKeepDirty DEF TypeOK
<1>6. /\ call'.op = op /\ call'.sector = s /\ call'.index = v
      /\ call'.at = IF Unwritten(v) THEN "fat" ELSE "read"
  BY <1>0, <1>1
<1>7. TypeOK'
  BY <1>0, <1>1, <1>2, <1>4, <1>5 DEF TypeOK
<1>8. OneBufferPerSector' /\ (~Faults => CleanIsOnCard')
  BY <1>2, <1>5 DEF IInv, OneBufferPerSector, CleanIsOnCard
<1>9. Unwritten(v)' <=> Unwritten(v)
  BY <1>2, <1>4, <1>5 DEF Unwritten
<1>10. ~Cached(s)'
  BY <1>2 DEF Cached
<1>11. Consistent'
  BY <1>2, <1>5, <1>6, <1>9, <1>10 DEF IInv, Consistent
<1> QED BY <1>7, <1>8, <1>11 DEF IInv

\* A sector that is in no buffer gets the buffer that may be dropped.
LEMMA ReadKeepsIInv ==
  ASSUME IInv, Read
  PROVE  IInv'
<1>1. PICK v \in {fat[call.sector]} \cup (IF Faults THEN {data[call.index]} ELSE {}) :
        /\ cur' = [cur EXCEPT ![call.index] = call.sector]
        /\ Deliver(call.op, call.value, call.index, v, FALSE)
  BY DEF Read
<1> DEFINE i == call.index
           s == call.sector
<1>2. /\ TypeOK /\ i \in Bufs /\ s \in Sectors /\ s # None /\ ~Cached(s)
      /\ call.op \in {"get", "modify"} /\ call.value \in Values /\ call' = NoCall
      /\ fat_clock_head' = fat_clock_head /\ fat' = fat /\ copy' = copy /\ crashes' = crashes
  BY NoneAssumption DEF Read, IInv, Consistent, TypeOK
<1>3. v \in Values /\ (~Faults => v = fat[s])
  BY <1>1, <1>2 DEF TypeOK
<1>4. /\ state' = [state EXCEPT ![i] = [ref |-> TRUE, dirty |-> call.op = "modify" \/ FALSE]]
      /\ data' = [data EXCEPT ![i] = IF call.op = "modify" THEN call.value ELSE v]
      /\ got' = IF call.op = "get" THEN v ELSE got
  BY <1>1 DEF Deliver
<1>5. NoCall.op = "none" /\ NoCall.at = "return" /\ NoCall \in
        [op : {"none", "get", "modify", "flush"},
         at : {"return", "read", "fat", "copy", "next"},
         sector : Sectors \cup {None}, value : Values, index : Bufs]
  BY NBufAssumption, BlankAssumption DEF NoCall, Bufs
<1>6. state' \in [Bufs -> States]
  BY <1>2, <1>4 DEF TypeOK, States
<1>7. TypeOK'
  BY <1>1, <1>2, <1>3, <1>4, <1>5, <1>6 DEF TypeOK
<1>8. /\ cur'[i] = s
      /\ \A j \in Bufs : j # i => cur'[j] = cur[j] /\ state'[j] = state[j] /\ data'[j] = data[j]
      /\ \A j \in Bufs : cur[j] # s
  BY <1>1, <1>2, <1>4 DEF TypeOK, Cached
<1>9. OneBufferPerSector'
  BY <1>8 DEF IInv, OneBufferPerSector
<1>10. ~Faults => CleanIsOnCard'
  <2>1. ~state'[i].dirty => data'[i] = v
    BY <1>2, <1>4 DEF TypeOK
  <2> QED BY <1>2, <1>3, <1>8, <2>1 DEF IInv, CleanIsOnCard
<1>11. Consistent'
  BY <1>2, <1>5, <1>8 DEF IInv, Consistent
<1> QED BY <1>7, <1>9, <1>10, <1>11 DEF IInv

\* The first of the two writes.
LEMMA WriteFatKeepsIInv ==
  ASSUME IInv, WriteFat
  PROVE  IInv'
<1>0. PICK i : i = call.index
  OBVIOUS
<1>1. /\ TypeOK /\ i \in Bufs /\ cur[i] \in Sectors /\ state[i].dirty /\ call.at = "fat"
      /\ call' = [call EXCEPT !.at = "copy"]
      /\ cur' = cur /\ state' = state /\ data' = data /\ fat_clock_head' = fat_clock_head
      /\ copy' = copy /\ got' = got /\ crashes' = crashes
  BY <1>0 DEF WriteFat, bufs, IInv, Consistent, TypeOK, Unwritten
<1>2. fat' = [fat EXCEPT ![cur[i]] = data[i]] \/ (Faults /\ fat' = fat)
  BY <1>0 DEF WriteFat
<1>3. /\ call'.op = call.op /\ call'.at = "copy" /\ call'.sector = call.sector
      /\ call'.value = call.value /\ call'.index = i
  BY <1>0, <1>1 DEF TypeOK
<1>4. TypeOK'
  BY <1>1, <1>2 DEF TypeOK
<1>5. OneBufferPerSector'
  BY <1>1 DEF IInv, OneBufferPerSector
<1>6. ~Faults => CleanIsOnCard'
  <2>1. \A j \in Bufs : cur[j] # None /\ ~state[j].dirty => cur[j] # cur[i]
    BY <1>1 DEF IInv, OneBufferPerSector
  <2> QED BY <1>1, <1>2, <2>1 DEF IInv, CleanIsOnCard, TypeOK
<1>7. ~Faults => fat'[cur[i]] = data[i]
  BY <1>1, <1>2 DEF TypeOK

<1>8. Unwritten(i)' /\ (Cached(call.sector)' <=> Cached(call.sector))
  BY <1>1, NoneAssumption DEF Unwritten, Cached
<1>9. Consistent'
  BY <1>0, <1>1, <1>3, <1>7, <1>8 DEF IInv, Consistent, Cached
<1> QED BY <1>4, <1>5, <1>6, <1>9 DEF IInv

\* The second write: the buffer is clean, and on the card.
LEMMA WriteCopyKeepsIInv ==
  ASSUME IInv, WriteCopy
  PROVE  IInv'
<1>0. PICK i : i = call.index
  OBVIOUS
<1>1. /\ TypeOK /\ i \in Bufs /\ cur[i] \in Sectors /\ state[i].dirty /\ call.at = "copy"
      /\ call' = [call EXCEPT !.at = IF call.op = "flush" THEN "next" ELSE "read"]
      /\ state' = [state EXCEPT ![i].dirty = FALSE]
      /\ cur' = cur /\ data' = data /\ fat_clock_head' = fat_clock_head
      /\ fat' = fat /\ got' = got /\ crashes' = crashes
  BY <1>0 DEF WriteCopy, IInv, Consistent, TypeOK, Unwritten
<1>2. copy' = [copy EXCEPT ![cur[i]] = data[i]] \/ copy' = copy
  BY <1>0 DEF WriteCopy
<1>3. /\ call'.op = call.op /\ call'.sector = call.sector /\ call'.value = call.value
      /\ call'.index = i /\ call'.at = IF call.op = "flush" THEN "next" ELSE "read"
  BY <1>0, <1>1 DEF TypeOK
<1>4. /\ state' \in [Bufs -> States] /\ ~state'[i].dirty
      /\ \A j \in Bufs : j # i => state'[j] = state[j]
  BY <1>1 DEF TypeOK, States
<1>5. TypeOK'
  BY <1>1, <1>2, <1>4 DEF TypeOK
<1>6. OneBufferPerSector'
  BY <1>1 DEF IInv, OneBufferPerSector
<1>7. ~Faults => CleanIsOnCard'
  <2>1. ~Faults => data[i] = fat[cur[i]]
    BY <1>0, <1>1 DEF IInv, Consistent
  <2> QED BY <1>1, <1>4, <2>1 DEF IInv, CleanIsOnCard
<1>8. ~Unwritten(i)'
  BY <1>4 DEF Unwritten
<1>9. Consistent'
  BY <1>0, <1>1, <1>3, <1>4, <1>8 DEF IInv, Consistent, Cached
<1> QED BY <1>5, <1>6, <1>7, <1>9 DEF IInv

\* The steps of fs_fflush only move to a buffer.
LEMMA FlushKeepsIInv ==
  ASSUME IInv, Flush \/ FlushNext
  PROVE  IInv'
<1>1. /\ TypeOK /\ cur' = cur /\ state' = state /\ data' = data
      /\ fat_clock_head' = fat_clock_head /\ fat' = fat /\ copy' = copy
      /\ got' = got /\ crashes' = crashes
  BY DEF Flush, FlushNext, bufs, IInv
<1>2. PICK i \in Bufs :
        \/ call' = NoCall
        \/ /\ call' \in [op : {"flush"}, at : {"fat", "next"}, sector : Sectors \cup {None},
                         value : Values, index : {i}]
           /\ call'.at = "fat" <=> Unwritten(i)
  <2>1. CASE Flush
    <3>1. 0 \in Bufs
      BY NBufAssumption DEF Bufs
    <3>2. call' = [op |-> "flush", at |-> IF Unwritten(0) THEN "fat" ELSE "next",
                   sector |-> None, value |-> Blank, index |-> 0]
      BY <2>1 DEF Flush, NoCall
    <3> QED BY <3>1, <3>2, BlankAssumption
  <2>2. CASE FlushNext /\ call.index + 1 # NBuf
    <3>1. call.index + 1 \in Bufs
      BY <1>1, <2>2, NBufAssumption DEF Bufs, TypeOK
    <3>2. call' = [call EXCEPT !.index = call.index + 1,
                               !.at = IF Unwritten(call.index + 1) THEN "fat" ELSE "next"]
      BY <2>2 DEF FlushNext
    <3>3. call.op = "flush"
      BY <2>2 DEF FlushNext, IInv, Consistent
    <3> QED BY <1>1, <3>1, <3>2, <3>3 DEF TypeOK
  <2>3. CASE FlushNext /\ call.index + 1 = NBuf
    <3>1. 0 \in Bufs
      BY NBufAssumption DEF Bufs
    <3> QED BY <2>3, <3>1 DEF FlushNext
  <2> QED BY <2>1, <2>2, <2>3
<1>3. NoCall.op = "none" /\ NoCall.at = "return" /\ NoCall \in
        [op : {"none", "get", "modify", "flush"},
         at : {"return", "read", "fat", "copy", "next"},
         sector : Sectors \cup {None}, value : Values, index : Bufs]
  BY NBufAssumption, BlankAssumption DEF NoCall, Bufs
<1>4. TypeOK'
  BY <1>1, <1>2, <1>3 DEF TypeOK
<1>5. OneBufferPerSector' /\ (~Faults => CleanIsOnCard')
  BY <1>1 DEF IInv, OneBufferPerSector, CleanIsOnCard
<1>6. Consistent'
  <2>1. CASE call' = NoCall
    BY <1>1, <1>3, <2>1 DEF IInv, Consistent
  <2>2. CASE call' # NoCall
    <3>1. call'.op = "flush" /\ call'.at \in {"fat", "next"} /\ call'.index = i
          /\ (call'.at = "fat" => Unwritten(i))
      BY <1>2, <2>2
    <3>2. Unwritten(i)' <=> Unwritten(i)
      BY <1>1 DEF Unwritten
    <3> QED BY <1>1, <3>1, <3>2 DEF IInv, Consistent
  <2> QED BY <2>1, <2>2
<1> QED BY <1>4, <1>5, <1>6 DEF IInv

LEMMA CrashKeepsIInv ==
  ASSUME IInv, Crash
  PROVE  IInv'
<1>1. 0 \in Bufs /\ None \notin Sectors /\ Blank \in Values /\ TypeOK
  BY NBufAssumption, NoneAssumption, BlankAssumption DEF Bufs, IInv
<1>2. TypeOK'
  BY <1>1, MaxCrashesAssumption DEF Crash, TypeOK, NoCur, NoState, NoCall, States
<1>3. /\ call'.op = "none" /\ call'.at = "return"
      /\ \A i \in Bufs : cur'[i] = None /\ ~state'[i].dirty
  BY DEF Crash, NoCur, NoState, NoCall
<1>4. OneBufferPerSector' /\ Consistent' /\ CleanIsOnCard'
  BY <1>3 DEF OneBufferPerSector, Consistent, CleanIsOnCard
<1> QED BY <1>2, <1>4 DEF IInv

LEMMA IInvNext == IInv /\ [Next]_vars => IInv'
<1> SUFFICES ASSUME IInv, [Next]_vars PROVE IInv'
  OBVIOUS
<1>1. CASE \E s \in Sectors : get_fat_entry_value(s)
  BY <1>1, HitKeepsIInv, MissKeepsIInv, BlankAssumption DEF get_fat_entry_value
<1>2. CASE \E s \in Sectors, new \in Values : fs_modify_fat(s, new)
  BY <1>2, HitKeepsIInv, MissKeepsIInv DEF fs_modify_fat
<1>3. CASE Read
  BY <1>3, ReadKeepsIInv
<1>4. CASE WriteFat
  BY <1>4, WriteFatKeepsIInv
<1>5. CASE WriteCopy
  BY <1>5, WriteCopyKeepsIInv
<1>6. CASE Flush \/ FlushNext
  BY <1>6, FlushKeepsIInv
<1>7. CASE Crash
  BY <1>7, CrashKeepsIInv
<1>8. CASE UNCHANGED vars
  BY <1>8 DEF vars, bufs, IInv, TypeOK, OneBufferPerSector, Consistent, CleanIsOnCard,
              Cached, Unwritten
<1> QED BY <1>1, <1>2, <1>3, <1>4, <1>5, <1>6, <1>7, <1>8 DEF Next

\* Every variable keeps to its type.
THEOREM TypeCorrect == Spec => []TypeOK
<1>1. IInv => TypeOK
  BY DEF IInv
<1> QED BY <1>1, IInvInit, IInvNext, PTL DEF Spec

\* A sector is in one buffer at most: OneBufferPerSector, with errors of the
\* SD card or without.
THEOREM NoSectorTwice == Spec => []OneBufferPerSector
<1>1. IInv => OneBufferPerSector
  BY DEF IInv
<1> QED BY <1>1, IInvInit, IInvNext, PTL DEF Spec

\* Without errors of the SD card, a buffer that is not dirty agrees with the
\* card and may be dropped: CleanIsOnCard.
THEOREM CleanBuffersAgree == ASSUME ~Faults PROVE Spec => []CleanIsOnCard
<1>1. IInv => CleanIsOnCard
  BY DEF IInv
<1> QED BY <1>1, IInvInit, IInvNext, PTL DEF Spec

----------------------------------------------------------------------------
\* The refinement: FatCache implements FatTable.

LEMMA TheOne ==
  ASSUME NEW c, NEW i \in Bufs, NEW s, c[i] = s, \A j \in Bufs : c[j] = s => j = i
  PROVE  (CHOOSE j \in Bufs : c[j] = s) = i
OBVIOUS

\* What View says of a sector, now and in the next state.
LEMMA ViewOf ==
  ASSUME OneBufferPerSector, NEW s \in Sectors
  PROVE  /\ \A i \in Bufs : cur[i] = s => View[s] = data[i]
         /\ ~Cached(s) => View[s] = fat[s]
<1>1. ASSUME NEW i \in Bufs, cur[i] = s
      PROVE  View[s] = data[i]
  <2>1. \A j \in Bufs : cur[j] = s => j = i
    BY <1>1, NoneAssumption DEF OneBufferPerSector
  <2>2. (CHOOSE j \in Bufs : cur[j] = s) = i
    BY <1>1, <2>1, TheOne
  <2> QED BY <1>1, <2>2 DEF View, Cached
<1> QED BY <1>1 DEF View

LEMMA NextViewOf ==
  ASSUME OneBufferPerSector', NEW s \in Sectors
  PROVE  /\ \A i \in Bufs : cur'[i] = s => View'[s] = data'[i]
         /\ ~Cached(s)' => View'[s] = fat'[s]
<1>1. ASSUME NEW i \in Bufs, cur'[i] = s
      PROVE  View'[s] = data'[i]
  <2>1. \A j \in Bufs : cur'[j] = s => j = i
    BY <1>1, NoneAssumption DEF OneBufferPerSector
  <2>2. (CHOOSE j \in Bufs : cur'[j] = s) = i
    BY <1>1, <2>1, TheOne
  <2> QED BY <1>1, <2>2 DEF View, Cached
<1> QED BY <1>1 DEF View

\* If every sector reads as before but s, which reads as v, View has changed so.
LEMMA ViewChanges ==
  ASSUME NEW s \in Sectors, NEW v, View'[s] = v, \A t \in Sectors : t # s => View'[t] = View[t]
  PROVE  View' = [View EXCEPT ![s] = v]
<1>1. View = [t \in Sectors |-> View[t]] /\ View' = [t \in Sectors |-> View'[t]]
  BY DEF View
<1>2. [View EXCEPT ![s] = v] = [t \in Sectors |-> IF t = s THEN v ELSE View[t]]
  BY <1>1
<1> QED BY <1>1, <1>2

LEMMA ViewStays ==
  ASSUME \A t \in Sectors : View'[t] = View[t]
  PROVE  View' = View
BY DEF View

LEMMA HitIsGetOrModify ==
  ASSUME IInv, IInv', NEW op \in {"get", "modify"}, NEW s \in Sectors, NEW new \in Values,
         Hit(op, s, new)
  PROVE  IF op = "get" THEN Table!Get(s) ELSE Table!Modify(s, new)
<1>1. PICK i \in Bufs : cur[i] = s /\ Deliver(op, new, i, data[i], state[i].dirty)
  BY DEF Hit
<1>2. TypeOK /\ OneBufferPerSector /\ OneBufferPerSector' /\ cur' = cur /\ fat' = fat
  BY DEF Hit, IInv
<1>3. /\ data' = [data EXCEPT ![i] = IF op = "modify" THEN new ELSE data[i]]
      /\ got' = IF op = "get" THEN data[i] ELSE got
  BY <1>1 DEF Deliver
<1>4. View[s] = data[i] /\ View'[s] = data'[i]
  BY <1>1, <1>2, ViewOf, NextViewOf
<1>5. ASSUME NEW t \in Sectors, t # s PROVE View'[t] = View[t]
  <2>1. CASE Cached(t)
    <3>1. PICK j \in Bufs : cur[j] = t
      BY <2>1 DEF Cached
    <3>2. data'[j] = data[j]
      BY <1>1, <1>2, <1>3, <1>5, <3>1 DEF TypeOK
    <3> QED BY <1>2, <3>1, <3>2, ViewOf, NextViewOf
  <2>2. CASE ~Cached(t)
    <3>1. ~Cached(t)'
      BY <1>2, <2>2 DEF Cached
    <3> QED BY <1>2, <2>2, <3>1, ViewOf, NextViewOf
  <2> QED BY <2>1, <2>2
<1>6. CASE op = "get"
  <2>1. View'[s] = View[s]
    BY <1>2, <1>3, <1>4, <1>6 DEF TypeOK
  <2>2. View' = View
    BY <1>5, <2>1, ViewStays
  <2> QED BY <1>2, <1>3, <1>4, <1>6, <2>2 DEF Table!Get
<1>7. CASE op = "modify"
  <2>1. View'[s] = new
    BY <1>2, <1>3, <1>4, <1>7 DEF TypeOK
  <2>2. View' = [View EXCEPT ![s] = new]
    BY <1>5, <2>1, ViewChanges
  <2> QED BY <1>2, <1>3, <1>7, <2>2 DEF Table!Modify
<1> QED BY <1>6, <1>7

\* What was in the victim is on the card; what is read is what the card says.
LEMMA ReadIsGetOrModify ==
  ASSUME ~Faults, IInv, IInv', Read
  PROVE  IF call.op = "get" THEN Table!Get(call.sector)
         ELSE Table!Modify(call.sector, call.value)
<1>0. PICK i, s : i = call.index /\ s = call.sector
  OBVIOUS
<1>1. /\ cur' = [cur EXCEPT ![i] = s]
      /\ Deliver(call.op, call.value, i, fat[s], FALSE)
  BY <1>0 DEF Read
<1>2. /\ TypeOK /\ OneBufferPerSector /\ OneBufferPerSector' /\ CleanIsOnCard
      /\ i \in Bufs /\ s \in Sectors /\ ~Cached(s) /\ ~Unwritten(i) /\ fat' = fat
      /\ call.op \in {"get", "modify"}
  BY <1>0 DEF Read, IInv, Consistent, TypeOK
<1>3. /\ data' = [data EXCEPT ![i] = IF call.op = "modify" THEN call.value ELSE fat[s]]
      /\ got' = IF call.op = "get" THEN fat[s] ELSE got
  BY <1>1 DEF Deliver
<1>4. cur'[i] = s /\ \A j \in Bufs : j # i => cur'[j] = cur[j] /\ data'[j] = data[j]
  BY <1>1, <1>2, <1>3 DEF TypeOK
<1>5. View[s] = fat[s] /\ View'[s] = data'[i]
  BY <1>2, <1>4, ViewOf, NextViewOf
<1>6. ASSUME NEW t \in Sectors, t # s PROVE View'[t] = View[t]
  <2>1. CASE Cached(t) /\ cur[i] # t
    <3>1. PICK j \in Bufs : cur[j] = t /\ j # i
      BY <2>1 DEF Cached
    <3> QED BY <1>2, <1>4, <3>1, ViewOf, NextViewOf
  <2>2. CASE cur[i] = t
    <3>1. View[t] = fat[t]
      BY <1>2, <2>2, ViewOf, NoneAssumption DEF Unwritten, CleanIsOnCard
    <3>2. ~Cached(t)'
      BY <1>2, <1>4, <1>6, <2>2, NoneAssumption DEF Cached, OneBufferPerSector
    <3> QED BY <1>2, <3>1, <3>2, NextViewOf
  <2>3. CASE ~Cached(t)
    <3>1. ~Cached(t)'
      BY <1>4, <1>6, <2>3 DEF Cached
    <3> QED BY <1>2, <2>3, <3>1, ViewOf, NextViewOf
  <2> QED BY <2>1, <2>2, <2>3
<1>7. CASE call.op = "get"
  <2>1. View'[s] = View[s]
    BY <1>2, <1>3, <1>5, <1>7 DEF TypeOK
  <2>2. View' = View
    BY <1>6, <2>1, ViewStays
  <2> QED BY <1>0, <1>2, <1>3, <1>5, <1>7, <2>2 DEF Table!Get
<1>8. CASE call.op = "modify"
  <2>1. View'[s] = call.value
    BY <1>2, <1>3, <1>5, <1>8 DEF TypeOK
  <2>2. View' = [View EXCEPT ![s] = call.value]
    BY <1>2, <1>6, <2>1, ViewChanges
  <2> QED BY <1>0, <1>2, <1>3, <1>8, <2>2 DEF Table!Modify
<1> QED BY <1>2, <1>7, <1>8

\* The first write takes one sector of the view to the card.
LEMMA WriteFatIsPersist ==
  ASSUME ~Faults, IInv, IInv', WriteFat
  PROVE  \E s \in Sectors : Table!Persist(s)
<1>0. PICK i, s : i = call.index /\ s = cur[i]
  OBVIOUS
<1>1. /\ TypeOK /\ OneBufferPerSector /\ OneBufferPerSector'
      /\ i \in Bufs /\ s \in Sectors /\ cur' = cur /\ data' = data /\ got' = got
      /\ fat' = [fat EXCEPT ![s] = data[i]]
  BY <1>0 DEF WriteFat, bufs, IInv, Consistent, TypeOK, Unwritten
<1>2. View[s] = data[i]
  BY <1>0, <1>1, ViewOf
<1>3. ASSUME NEW t \in Sectors PROVE View'[t] = View[t]
  <2>1. CASE Cached(t)
    <3>1. PICK j \in Bufs : cur[j] = t
      BY <2>1 DEF Cached
    <3> QED BY <1>1, <3>1, ViewOf, NextViewOf
  <2>2. CASE ~Cached(t)
    <3>1. ~Cached(t)' /\ t # s
      BY <1>0, <1>1, <2>2 DEF Cached
    <3>2. fat'[t] = fat[t]
      BY <1>1, <3>1 DEF TypeOK
    <3> QED BY <1>1, <2>2, <3>1, <3>2, ViewOf, NextViewOf
  <2> QED BY <2>1, <2>2
<1>4. View' = View
  BY <1>3, ViewStays
<1> QED BY <1>1, <1>2, <1>4 DEF Table!Persist

LEMMA ViewUnchanged ==
  ASSUME cur' = cur, data' = data, fat' = fat
  PROVE  View' = View
BY DEF View, Cached

\* Every step is one of the table's, or none.
LEMMA Simulation ==
  ASSUME ~Faults, IInv, IInv', [Next]_vars
  PROVE  [Table!Next]_<<View, fat, got>>
<1>1. ASSUME NEW op \in {"get", "modify"}, NEW s \in Sectors, NEW new \in Values,
             Hit(op, s, new)
      PROVE  Table!Next
  BY <1>1, HitIsGetOrModify DEF Table!Next
<1>2. ASSUME NEW op \in {"get", "modify"}, NEW s \in Sectors, NEW new \in Values,
             Miss(op, s, new)
      PROVE  UNCHANGED <<View, fat, got>>
  BY <1>2, ViewUnchanged DEF Miss
<1>3. CASE \E s \in Sectors : get_fat_entry_value(s)
  BY <1>1, <1>2, <1>3, BlankAssumption DEF get_fat_entry_value
<1>4. CASE \E s \in Sectors, new \in Values : fs_modify_fat(s, new)
  BY <1>1, <1>2, <1>4 DEF fs_modify_fat
<1>5. CASE Read
  <2>1. call.sector \in Sectors /\ call.value \in Values
    BY <1>5 DEF Read, IInv, Consistent, TypeOK
  <2> QED BY <1>5, <2>1, ReadIsGetOrModify DEF Table!Next
<1>6. CASE WriteFat
  BY <1>6, WriteFatIsPersist DEF Table!Next
<1>7. CASE WriteCopy
  BY <1>7, ViewUnchanged DEF WriteCopy
<1>8. CASE Flush \/ FlushNext
  BY <1>8, ViewUnchanged DEF Flush, FlushNext, bufs
<1>9. CASE Crash
  <2>1. \A s \in Sectors : View'[s] = fat[s]
    BY <1>9, NoneAssumption DEF Crash, View, Cached, NoCur
  <2>2. fat = [s \in Sectors |-> fat[s]] /\ View' = [s \in Sectors |-> View'[s]]
    BY DEF View, IInv, TypeOK
  <2>3. View' = fat
    BY <2>1, <2>2
  <2> QED BY <1>9, <2>3 DEF Crash, Table!Next, Table!Crash
<1>10. CASE UNCHANGED vars
  BY <1>10, ViewUnchanged DEF vars, bufs
<1> QED BY <1>3, <1>4, <1>5, <1>6, <1>7, <1>8, <1>9, <1>10 DEF Next

LEMMA InitialTable == Init => Table!Init
<1> SUFFICES ASSUME Init PROVE Table!Init
  OBVIOUS
<1>1. \A s \in Sectors : ~Cached(s)
  BY NoneAssumption DEF Init, Cached, NoCur
<1>2. View = [s \in Sectors |-> Blank]
  BY <1>1 DEF View, Init
<1> QED BY <1>2 DEF Init, Table!Init

\* Without errors of the SD card the table with its two buffers, the clock and
\* the delayed writes is a table in which a sector reads as it was last
\* modified, and which a stop of the machine takes back to what is on the card.
THEOREM CacheImplementsTable == ASSUME ~Faults PROVE Spec => TableSpec
<1>1. IInv /\ IInv' /\ [Next]_vars => [Table!Next]_<<View, fat, got>>
  BY Simulation
<1> QED BY <1>1, InitialTable, IInvInit, IInvNext, PTL DEF Spec, TableSpec, Table!Spec

----------------------------------------------------------------------------
\* The two copies of the table.

\* Where they differ, and where no write in progress accounts for it.
Torn == {s \in Sectors : fat[s] # copy[s]}
LeftTorn == IF call.at = "copy" THEN Torn \ {cur[call.index]} ELSE Torn

\* For each of them the machine has stopped once.
CopyInv == Cardinality(LeftTorn) <= crashes

LEMMA TornFinite == \A T : T \subseteq Torn => IsFiniteSet(T) /\ Cardinality(T) \in Nat
BY SectorsAssumption, FS_Subset, FS_CardinalityType DEF Torn

LEMMA OneMore ==
  ASSUME NEW S, IsFiniteSet(S), NEW x
  PROVE  /\ IsFiniteSet(S \cup {x})
         /\ Cardinality(S \cup {x}) \in Nat
         /\ Cardinality(S \cup {x}) <= Cardinality(S) + 1
<1>1. IsFiniteSet(S \cup {x})
  BY FS_AddElement
<1>2. Cardinality(S \cup {x}) \in Nat /\ Cardinality(S) \in Nat
  BY <1>1, FS_CardinalityType
<1> QED BY <1>1, <1>2, FS_AddElement

\* Only a stop of the machine leaves a sector torn.
LEMMA LeftTornGrows ==
  ASSUME ~Faults, IInv, [Next]_vars
  PROVE  \/ LeftTorn' \subseteq LeftTorn /\ crashes' = crashes
         \/ LeftTorn' \subseteq LeftTorn \cup {cur[call.index]} /\ crashes' = crashes + 1
<1> USE DEF IInv
<1>1. ASSUME call.at # "copy", call'.at # "copy", UNCHANGED <<fat, copy, crashes>>
      PROVE  LeftTorn' \subseteq LeftTorn /\ crashes' = crashes
  BY <1>1 DEF LeftTorn, Torn
<1>2. ASSUME NEW op \in {"get", "modify"}, NEW s, NEW new, Hit(op, s, new) \/ Miss(op, s, new)
      PROVE  LeftTorn' \subseteq LeftTorn /\ crashes' = crashes
  <2>1. call.at = "return" /\ call'.at # "copy" /\ UNCHANGED <<fat, copy, crashes>>
    BY <1>2 DEF Hit, Miss, Consistent
  <2> QED BY <2>1, <1>1
<1>3. CASE Read
  BY <1>1, <1>3 DEF Read, NoCall
<1>4. CASE WriteFat
  <2>1. /\ call.at = "fat" /\ call'.at = "copy" /\ call'.index = call.index /\ cur' = cur
        /\ copy' = copy /\ crashes' = crashes
        /\ fat' = [fat EXCEPT ![cur[call.index]] = data[call.index]]
    BY <1>4 DEF WriteFat, TypeOK, bufs
  <2> QED BY <2>1 DEF LeftTorn, Torn, TypeOK
<1>5. CASE WriteCopy
  <2>1. /\ call.at = "copy" /\ call'.at # "copy" /\ fat' = fat /\ crashes' = crashes
        /\ copy' = [copy EXCEPT ![cur[call.index]] = data[call.index]]
        /\ data[call.index] = fat[cur[call.index]]
    BY <1>5 DEF WriteCopy, TypeOK, Consistent
  <2> QED BY <2>1 DEF LeftTorn, Torn, TypeOK
<1>6. CASE Flush \/ FlushNext
  <2>1. call.at # "copy" /\ UNCHANGED <<fat, copy, crashes>>
    BY <1>6 DEF Flush, FlushNext, Consistent
  <2>2. call'.at # "copy"
    <3>1. NoCall.at # "copy"
      BY DEF NoCall
    <3>2. CASE Flush
      BY <3>2 DEF Flush, NoCall
    <3>3. CASE FlushNext
      <4>1. call' = NoCall \/ \E i : call' = [call EXCEPT !.index = i,
                                        !.at = IF Unwritten(i) THEN "fat" ELSE "next"]
        BY <3>3 DEF FlushNext
      <4> QED BY <3>1, <4>1 DEF TypeOK
    <3> QED BY <1>6, <3>2, <3>3
  <2> QED BY <1>1, <2>1, <2>2
<1>7. CASE Crash
  <2>1. call'.at # "copy" /\ fat' = fat /\ copy' = copy /\ crashes' = crashes + 1
    BY <1>7 DEF Crash, NoCall
  <2> QED BY <2>1 DEF LeftTorn, Torn
<1>8. CASE UNCHANGED vars
  BY <1>8 DEF vars, bufs, LeftTorn, Torn
<1>9. (\E s \in Sectors : get_fat_entry_value(s)) \/ (\E s \in Sectors, new \in Values : fs_modify_fat(s, new))
        => LeftTorn' \subseteq LeftTorn /\ crashes' = crashes
  BY <1>2 DEF get_fat_entry_value, fs_modify_fat
<1> QED BY <1>3, <1>4, <1>5, <1>6, <1>7, <1>8, <1>9 DEF Next

LEMMA CopyInvNext ==
  ASSUME ~Faults, IInv, CopyInv, [Next]_vars
  PROVE  CopyInv'
<1>1. LeftTorn \subseteq Torn
  BY DEF LeftTorn
<1>2. IsFiniteSet(LeftTorn) /\ Cardinality(LeftTorn) \in Nat
  BY <1>1, TornFinite
<1>3. crashes \in Nat
  BY DEF IInv, TypeOK
<1>4. PICK x : x = cur[call.index]
  OBVIOUS
<1>5. /\ IsFiniteSet(LeftTorn \cup {x})
      /\ Cardinality(LeftTorn \cup {x}) \in Nat
      /\ Cardinality(LeftTorn \cup {x}) <= Cardinality(LeftTorn) + 1
  BY <1>2, OneMore
<1>6. CASE LeftTorn' \subseteq LeftTorn /\ crashes' = crashes
  <2>1. Cardinality(LeftTorn') <= Cardinality(LeftTorn) /\ Cardinality(LeftTorn') \in Nat
    BY <1>2, <1>6, FS_Subset, FS_CardinalityType
  <2> QED BY <1>2, <1>3, <1>6, <2>1 DEF CopyInv
<1>7. CASE crashes' = crashes + 1 /\ LeftTorn' \subseteq LeftTorn \cup {x}
  <2>1. Cardinality(LeftTorn') <= Cardinality(LeftTorn \cup {x}) /\ Cardinality(LeftTorn') \in Nat
    BY <1>5, <1>7, FS_Subset, FS_CardinalityType
  <2> QED BY <1>2, <1>3, <1>5, <1>7, <2>1 DEF CopyInv
<1> QED BY <1>4, <1>6, <1>7, LeftTornGrows

\* Without errors of the SD card the two copies of the table differ in one
\* sector at most for every stop of the machine, and the one being written:
\* CopiesAgree.
THEOREM CopiesStayTogether == ASSUME ~Faults PROVE Spec => []CopiesAgree
<1>1. Init => CopyInv
  <2> SUFFICES ASSUME Init PROVE CopyInv
    OBVIOUS
  <2>1. LeftTorn = {} /\ crashes = 0
    BY DEF Init, LeftTorn, Torn
  <2> QED BY <2>1, FS_EmptySet DEF CopyInv
<1>2. IInv /\ CopyInv /\ [Next]_vars => CopyInv'
  BY CopyInvNext
<1>3. IInv /\ CopyInv => CopiesAgree
  <2> SUFFICES ASSUME IInv, CopyInv PROVE CopiesAgree
    OBVIOUS
  <2>1. PICK x : x = cur[call.index]
    OBVIOUS
  <2>2. LeftTorn \subseteq Torn /\ Torn \subseteq LeftTorn \cup {x}
    BY <2>1 DEF LeftTorn
  <2>3. /\ IsFiniteSet(LeftTorn) /\ Cardinality(LeftTorn) \in Nat /\ Cardinality(Torn) \in Nat
    BY <2>2, TornFinite
  <2>4. /\ IsFiniteSet(LeftTorn \cup {x}) /\ Cardinality(LeftTorn \cup {x}) \in Nat
        /\ Cardinality(LeftTorn \cup {x}) <= Cardinality(LeftTorn) + 1
    BY <2>3, OneMore
  <2>5. Cardinality(Torn) <= Cardinality(LeftTorn) + 1
    BY <2>2, <2>3, <2>4, FS_Subset
  <2>6. crashes \in Nat
    BY DEF IInv, TypeOK
  <2>7. call.at # "copy" => LeftTorn = Torn
    BY DEF LeftTorn
  <2>8. Cardinality(Torn) <= crashes + (IF call.at = "copy" THEN 1 ELSE 0)
    BY <2>3, <2>5, <2>6, <2>7 DEF CopyInv
  <2> QED BY <2>8 DEF CopiesAgree, Torn
<1> QED BY <1>1, <1>2, <1>3, IInvInit, IInvNext, PTL DEF Spec

----------------------------------------------------------------------------
\* The flush.

\* The buffers that fs_fflush has passed have nothing unwritten.
FlushInv ==
  call.op = "flush" =>
    /\ \A j \in Bufs : j < call.index => ~Unwritten(j)
    /\ call.at = "next" => ~Unwritten(call.index)

LEMMA FlushInvNext ==
  ASSUME IInv, FlushInv, [Next]_vars
  PROVE  FlushInv'
<1> USE DEF IInv
<1>1. ASSUME NEW op \in {"get", "modify"}, NEW s, NEW new, Hit(op, s, new) \/ Miss(op, s, new)
      PROVE  FlushInv'
  BY <1>1 DEF Hit, Miss, FlushInv
<1>2. CASE Read \/ Crash
  <2>1. call' = NoCall
    BY <1>2 DEF Read, Crash
  <2>2. call'.op = "none"
    BY <2>1 DEF NoCall
  <2> QED BY <2>2 DEF FlushInv
<1>3. CASE WriteFat
  BY <1>3 DEF WriteFat, bufs, TypeOK, FlushInv, Unwritten
<1>4. CASE WriteCopy
  <2>1. /\ cur' = cur /\ state' = [state EXCEPT ![call.index].dirty = FALSE]
        /\ call'.op = call.op /\ call'.index = call.index /\ call.index \in Bufs
    BY <1>4 DEF WriteCopy, TypeOK
  <2>2. ~Unwritten(call.index)' /\ \A j \in Bufs : Unwritten(j)' => Unwritten(j)
    BY <2>1 DEF Unwritten, TypeOK, States
  <2> QED BY <2>1, <2>2 DEF FlushInv
<1>5. CASE Flush
  <2>1. call' = [op |-> "flush", at |-> IF Unwritten(0) THEN "fat" ELSE "next",
                 sector |-> None, value |-> Blank, index |-> 0]
    BY <1>5 DEF Flush, NoCall
  <2>2. cur' = cur /\ state' = state
    BY <1>5 DEF Flush, bufs
  <2> QED BY <2>1, <2>2 DEF FlushInv, Unwritten, Bufs
<1>6. CASE FlushNext
  <2>1. call.op = "flush" /\ call.at = "next" /\ call.index \in Bufs /\ cur' = cur /\ state' = state
    BY <1>6 DEF FlushNext, bufs, TypeOK, Consistent
  <2>2. CASE call' = NoCall
    BY <2>2 DEF NoCall, FlushInv
  <2>3. CASE call' = [call EXCEPT !.index = call.index + 1,
                        !.at = IF Unwritten(call.index + 1) THEN "fat" ELSE "next"]
    <3>1. call'.index = call.index + 1 /\ (call'.at = "next" => ~Unwritten(call.index + 1))
      BY <2>3 DEF TypeOK
    <3>2. \A j \in Bufs : j < call.index + 1 => j < call.index \/ j = call.index
      BY <2>1, NBufAssumption DEF Bufs
    <3> QED BY <2>1, <3>1, <3>2 DEF FlushInv, Unwritten
  <2> QED BY <1>6, <2>2, <2>3 DEF FlushNext
<1>7. CASE UNCHANGED vars
  BY <1>7 DEF vars, bufs, FlushInv, Unwritten
<1>8. (\E s \in Sectors : get_fat_entry_value(s)) \/ (\E s \in Sectors, new \in Values : fs_modify_fat(s, new))
        => FlushInv'
  BY <1>1 DEF get_fat_entry_value, fs_modify_fat
<1> QED BY <1>2, <1>3, <1>4, <1>5, <1>6, <1>7, <1>8 DEF Next

\* fs_fflush ends behind the last buffer, and only there.
LEMMA FlushEnds ==
  ASSUME ~Faults, IInv, FlushInv, Next,
         call.op = "flush", call'.op = "none", crashes' = crashes
  PROVE  fat' = View'
<1> USE DEF IInv
<1>1. ASSUME NEW op, NEW s, NEW new
      PROVE  ~Hit(op, s, new) /\ ~Miss(op, s, new)
  BY DEF Hit, Miss
<1>2. ~Read
  BY DEF Read, Consistent
<1>3. ~WriteFat /\ ~WriteCopy
  BY DEF WriteFat, WriteCopy, TypeOK
<1>4. ~Crash /\ ~Flush
  BY DEF Crash, Flush, TypeOK
<1>5. FlushNext
  BY <1>1, <1>2, <1>3, <1>4 DEF Next, get_fat_entry_value, fs_modify_fat
<1>6. /\ call.index \in Bufs /\ call.at = "next" /\ cur' = cur /\ state' = state
      /\ data' = data /\ fat' = fat
  BY <1>5 DEF FlushNext, bufs, TypeOK
<1>7. call.index + 1 = NBuf
  BY <1>5 DEF FlushNext, TypeOK
<1>8. \A j \in Bufs : ~Unwritten(j)
  <2>1. \A j \in Bufs : j < call.index \/ j = call.index
    BY <1>6, <1>7, NBufAssumption DEF Bufs
  <2> QED BY <1>6, <2>1 DEF FlushInv
<1>9. \A i \in Bufs : cur[i] # None => data[i] = fat[cur[i]]
  BY <1>8 DEF Unwritten, CleanIsOnCard
<1>10. \A s \in Sectors : View[s] = fat[s]
  <2> SUFFICES ASSUME NEW s \in Sectors PROVE View[s] = fat[s]
    OBVIOUS
  <2>1. CASE Cached(s)
    <3>1. (CHOOSE i \in Bufs : cur[i] = s) \in Bufs /\ cur[CHOOSE i \in Bufs : cur[i] = s] = s
      BY <2>1 DEF Cached
    <3> QED BY <2>1, <3>1, <1>9, NoneAssumption DEF View
  <2>2. CASE ~Cached(s)
    BY <2>2 DEF View
  <2> QED BY <2>1, <2>2
<1>11. View = fat
  BY <1>10 DEF View, TypeOK
<1>12. View' = View
  BY <1>6, ViewUnchanged
<1> QED BY <1>6, <1>11, <1>12

\* Without errors of the SD card fs_fflush returns only when the table on the
\* card is what the callers see: FlushReachesCard.
THEOREM FlushIsComplete == ASSUME ~Faults PROVE Spec => FlushReachesCard
<1>1. Init => FlushInv
  BY DEF Init, NoCall, FlushInv
<1>2. IInv /\ FlushInv /\ [Next]_vars => FlushInv'
  BY FlushInvNext
<1>3. IInv /\ FlushInv /\ [Next]_vars
        => [call.op = "flush" /\ call'.op = "none" /\ crashes' = crashes => fat' = View']_vars
  BY FlushEnds
<1> QED BY <1>1, <1>2, <1>3, IInvInit, IInvNext, PTL DEF Spec, FlushReachesCard

----------------------------------------------------------------------------
(* The replacement clock *)

\* Victim, the formula by which the buffers are chosen above, is what the loops of
\* fs_victim_512 compute (ClockLoop).  They run within one step of FatCache.

\* Counting the buffers.
LEMMA BufFacts ==
  /\ NBuf \in Nat /\ 0 \in Bufs
  /\ \A d \in Bufs : /\ d \in Nat /\ d < NBuf /\ d + 1 \in Nat /\ (d + 1) - 1 = d
                     /\ d \in 0 .. NBuf /\ d + 1 \in 0 .. NBuf
                     /\ d + 1 # NBuf => d + 1 \in Bufs
                     /\ \A e \in 0 .. d - 1 : e \in Bufs /\ e # d
                     /\ \A e : (e \in 0 .. d <=> e \in 0 .. d - 1 \/ e = d)
                     /\ d + 1 = NBuf => \A e \in Bufs : e \in 0 .. d
BY NBufAssumption DEF Bufs

\* The turns of the loops go round the buffers.
LEMMA AheadFacts ==
  /\ \A h \in Bufs, d \in 0 .. NBuf : Ahead(h, d) \in Bufs
  /\ \A h \in Bufs, d, e \in Bufs : Ahead(h, d) = Ahead(h, e) => d = e
  /\ \A h \in Bufs, j \in Bufs : \E d \in Bufs : Ahead(h, d) = j
  /\ \A h \in Bufs, d \in Bufs : Ahead(Ahead(h, d), 1) = Ahead(h, d + 1)
  /\ \A h \in Bufs : Ahead(h, 0) = h /\ Ahead(h, NBuf) = h
<1>1. \A h \in Bufs, j \in Bufs : \E d \in Bufs : Ahead(h, d) = j
  <2> SUFFICES ASSUME NEW h \in Bufs, NEW j \in Bufs PROVE \E d \in Bufs : Ahead(h, d) = j
    OBVIOUS
  <2>1. CASE j >= h
    <3>1. j - h \in Bufs /\ Ahead(h, j - h) = j
      BY <2>1, NBufAssumption DEF Ahead, Bufs
    <3> QED BY <3>1
  <2>2. CASE j < h
    <3>1. j - h + NBuf \in Bufs /\ Ahead(h, j - h + NBuf) = j
      BY <2>2, NBufAssumption DEF Ahead, Bufs
    <3> QED BY <3>1
  <2> QED BY <2>1, <2>2 DEF Bufs
<1> QED BY <1>1, NBufAssumption DEF Ahead, Bufs

\* One buffer more is swept.
LEMMA SweptOneMore ==
  ASSUME NEW st \in [Bufs -> States], NEW h \in Bufs, NEW d \in Bufs
  PROVE  /\ Swept(st, h, d) \in [Bufs -> States]
         /\ Swept(st, h, d)[Ahead(h, d)] = st[Ahead(h, d)]
         /\ Swept(st, h, d + 1) = [Swept(st, h, d) EXCEPT ![Ahead(h, d)].ref = FALSE]
<1>1. (d + 1) - 1 = d /\ \A e : e \in 0 .. d <=> e \in 0 .. d - 1 \/ e = d
  BY BufFacts
<1>2. \A e \in 0 .. d - 1 : Ahead(h, e) # Ahead(h, d)
  <2>1. \A e \in 0 .. d - 1 : e \in Bufs /\ e # d
    BY BufFacts
  <2> QED BY <2>1, AheadFacts
<1>3. Ahead(h, d) \in Bufs
  BY BufFacts, AheadFacts
<1>4. PICK past : past = {j \in Bufs : \E e \in 0 .. d - 1 : j = Ahead(h, e)}
  OBVIOUS
<1>5. Swept(st, h, d) =
        [j \in Bufs |-> IF j \in past THEN [st[j] EXCEPT !.ref = FALSE] ELSE st[j]]
  BY <1>4 DEF Swept
<1>6. Swept(st, h, d + 1) =
        [j \in Bufs |-> IF j \in past \/ j = Ahead(h, d)
                      THEN [st[j] EXCEPT !.ref = FALSE] ELSE st[j]]
  <2>1. \A j \in Bufs :
          (\E e \in 0 .. (d + 1) - 1 : j = Ahead(h, e)) <=> j \in past \/ j = Ahead(h, d)
    <3>1. \A j \in Bufs : (\E e \in 0 .. d : j = Ahead(h, e)) <=> j \in past \/ j = Ahead(h, d)
      BY <1>1, <1>4
    <3> QED BY <1>1, <3>1
  <2> QED BY <1>4, <2>1 DEF Swept
<1>7. Ahead(h, d) \notin past
  BY <1>2, <1>4
<1>8. PICK x : x = Ahead(h, d)
  OBVIOUS
<1>9. PICK now : now = Swept(st, h, d)
  OBVIOUS
<1>10. now \in [Bufs -> States]
  <2>1. \A j \in Bufs : [st[j] EXCEPT !.ref = FALSE] \in States /\ st[j] \in States
    BY DEF States
  <2> QED BY <1>5, <1>9, <2>1
<1>11. now[x] = st[x] /\ x \in Bufs
  BY <1>3, <1>5, <1>7, <1>8, <1>9
<1>12. [now EXCEPT ![x].ref = FALSE] =
         [j \in Bufs |-> IF j \in past \/ j = x THEN [st[j] EXCEPT !.ref = FALSE] ELSE st[j]]
  BY <1>5, <1>9, <1>11
<1> QED BY <1>6, <1>8, <1>9, <1>10, <1>11, <1>12

\* The first buffer that satisfies the search is the only one.
LEMMA OneVictim ==
  ASSUME NEW st, NEW h \in Bufs, NEW d \in Bufs, NEW e \in Bufs, NEW after,
         Victim(st, h, d, after), Victim(st, h, e, after)
  PROVE  d = e
<1>1. d \in Nat /\ e \in Nat
  BY DEF Bufs
<1>2. \A x \in Bufs : Ahead(h, x) \in Bufs
  BY AheadFacts, BufFacts
<1>3. ASSUME NEW x \in Bufs, NEW y \in Bufs, x < y
      PROVE  ~(Victim(st, h, x, after) /\ Victim(st, h, y, after))
  <2>1. x \in 0 .. y - 1 /\ y # 0
    BY <1>3 DEF Bufs
  <2> QED BY <1>2, <2>1 DEF Victim, SweepOne, SweepTwo, Idle
<1> QED BY <1>1, <1>3

\* The inductive invariant.
LoopTypeOK ==
  /\ bits \in [Bufs -> States] /\ bits0 \in [Bufs -> States]
  /\ clock_head \in Bufs /\ head0 \in Bufs /\ turn \in Bufs /\ index \in Bufs
  /\ pc \in {"sweep 1", "sweep 2", "ok", "done"}

\* The first sweep has passed turn buffers, none of them idle.
InSweepOne ==
  pc = "sweep 1" =>
    /\ clock_head = Ahead(head0, turn)
    /\ bits = Swept(bits0, head0, turn)
    /\ \A e \in 0 .. turn - 1 : ~Idle(bits0, Ahead(head0, e))

\* The second has passed as many that are dirty, after a first that found none idle.
InSweepTwo ==
  pc = "sweep 2" =>
    /\ clock_head = Ahead(head0, turn)
    /\ bits = Swept(bits0, head0, NBuf)
    /\ \A j \in Bufs : ~Idle(bits0, j)
    /\ \A e \in 0 .. turn - 1 : bits0[Ahead(head0, e)].dirty

\* The search has ended with a victim, and then the hand is moved past it.
Found ==
  pc \in {"ok", "done"} =>
    /\ \E d \in Bufs : index = Ahead(head0, d) /\ Victim(bits0, head0, d, bits)
    /\ clock_head = IF pc = "ok" THEN index ELSE Ahead(index, 1)

LoopInv == LoopTypeOK /\ InSweepOne /\ InSweepTwo /\ Found

LEMMA LoopInit == LoopsInit => LoopInv
<1> SUFFICES ASSUME LoopsInit PROVE LoopInv
  OBVIOUS
<1>1. 0 \in Bufs /\ Ahead(head0, 0) = head0 /\ 0 .. 0 - 1 = {}
  <2>1. head0 \in Bufs
    BY DEF LoopsInit
  <2>2. 0 .. 0 - 1 = {}
    OBVIOUS
  <2> QED BY <2>1, <2>2, AheadFacts, BufFacts
<1>2. Swept(bits0, head0, 0) = bits0
  <2>1. bits = bits0 /\ bits0 \in [Bufs -> States]
    BY DEF LoopsInit
  <2>2. \A j : ~\E e \in 0 .. 0 - 1 : j = Ahead(head0, e)
    BY <1>1
  <2> QED BY <2>1, <2>2 DEF Swept
<1> QED BY <1>1, <1>2
     DEF LoopsInit, LoopInv, LoopTypeOK, InSweepOne, InSweepTwo, Found

\* A turn that passes the buffer leaves the hand one ahead, and the second sweep
\* ends where it began.
LEMMA PassFacts ==
  ASSUME LoopInv, NEW then, Pass(then), clock_head = Ahead(head0, turn)
  PROVE  /\ clock_head' = Ahead(head0, turn + 1) /\ clock_head' \in Bufs
         /\ turn \in Nat /\ turn + 1 \in Nat
         /\ turn + 1 = NBuf => clock_head' = head0 /\ turn' = 0 /\ pc' = then
         /\ turn + 1 # NBuf => turn' = turn + 1 /\ turn' \in Bufs /\ pc' = pc
         /\ 0 \in Bufs /\ Ahead(head0, 0) = head0
         /\ \A e : e \in 0 .. turn <=> e \in 0 .. turn - 1 \/ e = turn
         /\ \A e : e \in 0 .. (turn + 1) - 1 <=> e \in 0 .. turn - 1 \/ e = turn
<1>1. clock_head' = Ahead(clock_head, 1)
  <2>1. clock_head \in Bufs
    BY DEF LoopInv, LoopTypeOK
  <2>2. clock_head' = IF clock_head + 1 >= NBuf THEN 0 ELSE clock_head + 1
    BY DEF Pass, Advance
  <2> QED BY <2>1, <2>2, NBufAssumption DEF Ahead, Bufs
<1>2. clock_head' = Ahead(head0, turn + 1)
  BY <1>1, AheadFacts DEF LoopInv, LoopTypeOK
<1>3. /\ turn \in Nat /\ turn + 1 \in Nat /\ (turn + 1) - 1 = turn /\ turn + 1 \in 0 .. NBuf
      /\ 0 \in Bufs
      /\ turn + 1 # NBuf => turn + 1 \in Bufs
      /\ \A e : e \in 0 .. turn <=> e \in 0 .. turn - 1 \/ e = turn
  BY BufFacts DEF LoopInv, LoopTypeOK
<1>4. \A e : e \in 0 .. (turn + 1) - 1 <=> e \in 0 .. turn - 1 \/ e = turn
  BY <1>3
<1>5. Ahead(head0, turn + 1) \in Bufs /\ Ahead(head0, NBuf) = head0 /\ Ahead(head0, 0) = head0
  BY <1>3, AheadFacts DEF LoopInv, LoopTypeOK
<1>6. /\ turn + 1 = NBuf => turn' = 0 /\ pc' = then
      /\ turn + 1 # NBuf => turn' = turn + 1 /\ turn' \in Bufs /\ pc' = pc
  BY <1>3 DEF Pass
<1> QED BY <1>2, <1>3, <1>4, <1>5, <1>6

LEMMA SweepOneKeepsLoop == LoopInv /\ SweepOneStep => LoopInv'
<1> SUFFICES ASSUME LoopInv, SweepOneStep PROVE LoopInv'
  OBVIOUS
<1>1. /\ LoopTypeOK /\ pc = "sweep 1" /\ bits0' = bits0 /\ head0' = head0
      /\ clock_head = Ahead(head0, turn) /\ bits = Swept(bits0, head0, turn)
      /\ \A e \in 0 .. turn - 1 : ~Idle(bits0, Ahead(head0, e))
      /\ turn \in Bufs /\ clock_head \in Bufs /\ head0 \in Bufs /\ bits0 \in [Bufs -> States]
  BY DEF LoopInv, LoopTypeOK, InSweepOne, SweepOneStep
<1>5. bits[clock_head] = bits0[clock_head]
  <2>1. bits0 \in [Bufs -> States] /\ head0 \in Bufs /\ turn \in Bufs
    BY <1>1
  <2>2. /\ Swept(bits0, head0, turn) \in [Bufs -> States]
        /\ Swept(bits0, head0, turn)[Ahead(head0, turn)] = bits0[Ahead(head0, turn)]
        /\ Swept(bits0, head0, turn + 1) =
             [Swept(bits0, head0, turn) EXCEPT ![Ahead(head0, turn)].ref = FALSE]
    BY <2>1, SweptOneMore
  <2> QED BY <1>1, <2>2
<1>2. CASE Idle(bits, clock_head) /\ Take /\ UNCHANGED <<bits0, head0>>
  <2>1. SweepOne(bits0, head0, turn) /\ bits = Swept(bits0, head0, turn)
    BY <1>1, <1>2, <1>5 DEF SweepOne, Idle
  <2>2. Victim(bits0, head0, turn, bits)
    BY <2>1 DEF Victim
  <2> QED BY <1>1, <1>2, <2>2 DEF Take, LoopInv, LoopTypeOK, InSweepOne, InSweepTwo, Found
<1>3. ASSUME ~Idle(bits, clock_head), Pass("sweep 2"),
             bits' = [bits EXCEPT ![clock_head].ref = FALSE]
      PROVE  LoopInv'
  <2>1. bits' = Swept(bits0, head0, turn + 1) /\ bits' \in [Bufs -> States]
    <3>1. bits' = Swept(bits0, head0, turn + 1)
      BY <1>1, <1>3, SweptOneMore
    <3>2. bits' \in [Bufs -> States]
      <4>1. bits \in [Bufs -> States] /\ clock_head \in Bufs
        BY <1>1 DEF LoopTypeOK
      <4>2. [bits[clock_head] EXCEPT !.ref = FALSE] \in States
        BY <4>1 DEF States
      <4> QED BY <1>3, <4>1, <4>2
    <3> QED BY <3>1, <3>2
  <2>2. \A e \in 0 .. turn : ~Idle(bits0, Ahead(head0, e))
    BY <1>1, <1>3, <1>5, PassFacts DEF Idle
  <2>3. CASE turn + 1 = NBuf
    <3>1. \A j \in Bufs : ~Idle(bits0, j)
      <4>1. \A d \in Bufs : d \in 0 .. turn
        BY <1>1, <2>3, BufFacts
      <4>2. ASSUME NEW j \in Bufs PROVE ~Idle(bits0, j)
        <5>1. PICK d \in Bufs : Ahead(head0, d) = j
          BY <1>1, AheadFacts
        <5> QED BY <2>2, <4>1, <5>1
      <4> QED BY <4>2
    <3>2. /\ clock_head' = head0 /\ turn' = 0 /\ pc' = "sweep 2" /\ 0 \in Bufs
          /\ Ahead(head0, 0) = head0 /\ index' = index
      BY <1>1, <1>3, <2>3, PassFacts DEF Pass
    <3>3. Swept(bits0, head0, NBuf) = bits'
      BY <2>1, <2>3
    <3>4. 0 .. turn' - 1 = {}
      <4>1. 0 .. 0 - 1 = {}
        OBVIOUS
      <4> QED BY <3>2, <4>1
    <3> QED BY <1>1, <2>1, <3>1, <3>2, <3>3, <3>4
         DEF LoopInv, LoopTypeOK, InSweepOne, InSweepTwo, Found
  <2>4. CASE turn + 1 # NBuf
    <3>1. /\ clock_head' = Ahead(head0, turn') /\ turn' = turn + 1 /\ turn' \in Bufs
          /\ pc' = "sweep 1" /\ clock_head' \in Bufs /\ index' = index
      BY <1>1, <1>3, <2>4, PassFacts DEF Pass
    <3>2. \A e \in 0 .. turn' - 1 : ~Idle(bits0, Ahead(head0, e))
      BY <1>1, <1>3, <2>2, <3>1, PassFacts
    <3> QED BY <1>1, <2>1, <3>1, <3>2 DEF LoopInv, LoopTypeOK, InSweepOne, InSweepTwo, Found
  <2> QED BY <2>3, <2>4
<1>4. ASSUME ~bits[clock_head].ref, UNCHANGED bits
      PROVE  bits' = [bits EXCEPT ![clock_head].ref = FALSE]
  <2>1. bits \in [Bufs -> States] /\ bits[clock_head] \in States
    BY <1>1 DEF LoopTypeOK
  <2>2. [bits[clock_head] EXCEPT !.ref = FALSE] = bits[clock_head]
    BY <1>4, <2>1 DEF States
  <2> QED BY <1>4, <2>1, <2>2
<1> QED BY <1>2, <1>3, <1>4 DEF SweepOneStep, Idle

LEMMA SweepTwoKeepsLoop == LoopInv /\ SweepTwoStep => LoopInv'
<1> SUFFICES ASSUME LoopInv, SweepTwoStep PROVE LoopInv'
  OBVIOUS
<1>1. /\ LoopTypeOK /\ pc = "sweep 2" /\ bits0' = bits0 /\ head0' = head0 /\ bits' = bits
      /\ clock_head = Ahead(head0, turn) /\ bits = Swept(bits0, head0, NBuf)
      /\ \A j \in Bufs : ~Idle(bits0, j)
      /\ \A e \in 0 .. turn - 1 : bits0[Ahead(head0, e)].dirty
      /\ turn \in Bufs /\ clock_head \in Bufs
  BY DEF LoopInv, LoopTypeOK, InSweepTwo, SweepTwoStep, Take
<1>2. bits[clock_head].dirty = bits0[clock_head].dirty
  <2>1. bits0[clock_head] \in States /\ clock_head \in Bufs
    BY <1>1 DEF LoopTypeOK
  <2> QED BY <1>1, <2>1 DEF Swept, States
<1>3. CASE ~bits[clock_head].dirty /\ Take
  <2>1. SweepTwo(bits0, head0, turn)
    BY <1>1, <1>2, <1>3 DEF SweepTwo
  <2>2. Victim(bits0, head0, turn, bits)
    BY <1>1, <2>1 DEF Victim
  <2> QED BY <1>1, <1>3, <2>2 DEF Take, LoopInv, LoopTypeOK, InSweepOne, InSweepTwo, Found
<1>4. CASE bits[clock_head].dirty /\ Pass("ok")
  <2>1. \A e \in 0 .. turn : bits0[Ahead(head0, e)].dirty
    BY <1>1, <1>2, <1>4, PassFacts
  <2>2. CASE turn + 1 = NBuf
    <3>1. \A j \in Bufs : bits0[j].dirty
      <4>1. \A d \in Bufs : d \in 0 .. turn
        BY <1>1, <2>2, BufFacts
      <4>2. \A j \in Bufs : \E d \in Bufs : Ahead(head0, d) = j
        <5>1. head0 \in Bufs
          BY <1>1 DEF LoopTypeOK
        <5> QED BY <5>1, AheadFacts
      <4> QED BY <2>1, <4>1, <4>2
    <3>2. /\ clock_head' = head0 /\ turn' = 0 /\ pc' = "ok" /\ 0 \in Bufs
          /\ Ahead(head0, 0) = head0 /\ index' = clock_head'
      BY <1>1, <1>4, <2>2, PassFacts DEF Pass
    <3>3. Victim(bits0, head0, 0, bits)
      BY <1>1, <3>1 DEF Victim, SweepTwo
    <3> QED BY <1>1, <3>2, <3>3 DEF LoopInv, LoopTypeOK, InSweepOne, InSweepTwo, Found
  <2>3. CASE turn + 1 # NBuf
    <3>1. /\ clock_head' = Ahead(head0, turn') /\ turn' = turn + 1 /\ turn' \in Bufs
          /\ pc' = "sweep 2" /\ clock_head' \in Bufs /\ index' = index
      BY <1>1, <1>4, <2>3, PassFacts DEF Pass
    <3>2. \A e \in 0 .. turn' - 1 : bits0[Ahead(head0, e)].dirty
      BY <1>1, <1>4, <2>1, <3>1, PassFacts
    <3> QED BY <1>1, <3>1, <3>2 DEF LoopInv, LoopTypeOK, InSweepOne, InSweepTwo, Found
  <2> QED BY <2>2, <2>3
<1> QED BY <1>3, <1>4 DEF SweepTwoStep

LEMMA ReturnKeepsLoop == LoopInv /\ Return => LoopInv'
<1> SUFFICES ASSUME LoopInv, Return PROVE LoopInv'
  OBVIOUS
<1>1. clock_head' = Ahead(clock_head, 1) /\ clock_head' \in Bufs
  BY NBufAssumption DEF Return, Advance, Ahead, LoopInv, LoopTypeOK, Bufs
<1> QED BY <1>1 DEF Return, LoopInv, LoopTypeOK, InSweepOne, InSweepTwo, Found

\* In whatever state the loops are called, and for any number of buffers, they return
\* the one victim that Victim allows, with the states it says and the hand behind it:
\* LoopsFindVictim.
THEOREM VictimIsFound == LoopsSpec => []LoopsFindVictim
<1>1. LoopInv /\ [LoopsNext]_loops => LoopInv'
  <2>1. LoopInv /\ UNCHANGED loops => LoopInv'
    BY DEF loops, LoopInv, LoopTypeOK, InSweepOne, InSweepTwo, Found
  <2> QED BY <2>1, SweepOneKeepsLoop, SweepTwoKeepsLoop, ReturnKeepsLoop DEF LoopsNext
<1>2. LoopInv => LoopsFindVictim
  <2> SUFFICES ASSUME LoopInv, pc = "done"
               PROVE  /\ \A d \in Bufs :
                           Victim(bits0, head0, d, bits) <=> index = Ahead(head0, d)
                      /\ clock_head = Ahead(index, 1)
    BY DEF LoopsFindVictim
  <2>1. PICK e \in Bufs : index = Ahead(head0, e) /\ Victim(bits0, head0, e, bits)
    BY DEF LoopInv, Found
  <2>2. clock_head = Ahead(index, 1) /\ head0 \in Bufs
    BY DEF LoopInv, LoopTypeOK, Found
  <2>3. \A d \in Bufs : Victim(bits0, head0, d, bits) => d = e
    BY <2>1, <2>2, OneVictim
  <2>4. \A d \in Bufs : Ahead(head0, d) = Ahead(head0, e) => d = e
    BY <2>2, AheadFacts
  <2> QED BY <2>1, <2>2, <2>3, <2>4
<1> QED BY <1>1, <1>2, LoopInit, PTL DEF LoopsSpec
=============================================================================
