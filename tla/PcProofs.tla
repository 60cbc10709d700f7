------------------------------ MODULE PcProofs ------------------------------
(***************************************************************************)
(* Proofs about the process table, for every number of PCBs.               *)
(***************************************************************************)
EXTENDS Pc, TLAPS

LEMMA RangeFacts ==
  /\ N \in Nat /\ 0 \in Slots /\ 2 \in Slots /\ 0 \in Procs
  /\ -1 \in -1 .. N - 1
  /\ \A s \in Slots : s \in Nat /\ s \in -1 .. N - 1 /\ s >= 0
BY NAssumption, MaxProcAssumption DEF Slots, Procs

LEMMA AfterFacts ==
  ASSUME NEW s \in Slots
  PROVE  /\ \A d \in 1 .. N : After(s, d) \in Slots
         /\ After(s, N) = s
         /\ \E d \in 1 .. N : After(s, d) = 0
<1>1. N \in Nat /\ s \in Nat /\ s < N
  BY NAssumption DEF Slots
<1>2. \A d \in 1 .. N : After(s, d) \in Slots
  BY <1>1 DEF After, Slots
<1>3. After(s, N) = s
  BY <1>1 DEF After
<1>4. N - s \in 1 .. N /\ After(s, N - s) = 0
  BY <1>1 DEF After
<1> QED BY <1>2, <1>3, <1>4

\* With slot 0 in use the search of pc_schedule ends at a slot in use.
LEMMA ScheduleFinds ==
  ASSUME TypeOK, NEW alive \in SUBSET Slots, 0 \in alive,
         NEW then \in {"no", "exception"}, Schedule(alive, then)
  PROVE  /\ curr_proc' \in alive
         /\ ctx' = [ctx EXCEPT ![curr_proc] = cpu]
         /\ cpu' = ctx'[curr_proc']
         /\ halted' = then
<1>1. PICK d \in 1 .. N :
        LET saved == [ctx EXCEPT ![curr_proc] = cpu]
            next  == After(curr_proc, d)
        IN  /\ next \in alive \/ d = N
            /\ \A e \in 1 .. d - 1 : After(curr_proc, e) \notin alive
            /\ ctx' = saved
            /\ curr_proc' = next
            /\ cpu' = IF next \in alive THEN saved[next] ELSE cpu
            /\ halted' = IF next \in alive THEN then ELSE "PCB[0] is invalid"
  BY DEF Schedule
<1>2. curr_proc \in Slots
  BY DEF TypeOK
<1>3. PICK z \in 1 .. N : After(curr_proc, z) = 0
  BY <1>2, AfterFacts
<1>4. After(curr_proc, d) \in alive
  <2> SUFFICES ASSUME d = N PROVE After(curr_proc, N) \in alive
    BY <1>1
  <2>1. ~(z \in 1 .. d - 1)
    BY <1>1, <1>3
  <2>2. z = N
    BY <2>1, NAssumption
  <2> QED BY <1>3, <2>2
<1> QED BY <1>1, <1>4

----------------------------------------------------------------------------
(* Slot 0 is never freed, so the error branch of pc_schedule is dead code. *)

InitLives == TypeOK /\ Alive(0) /\ SchedulerFindsProcess

LEMMA InitLivesInit == Init => InitLives
<1> SUFFICES ASSUME Init PROVE InitLives
  OBVIOUS
<1>1. N \in Nat /\ N >= 3 /\ MaxProc \in Nat /\ MaxProc >= 2
  BY NAssumption, MaxProcAssumption
<1>2. TypeOK
  BY <1>1 DEF Init, TypeOK, Context, NoCreate, Slots, Procs
<1>3. Alive(0)
  BY <1>1 DEF Init, Alive, Slots
<1> QED BY <1>2, <1>3 DEF InitLives, SchedulerFindsProcess, Init

LEMMA ScheduleTypes ==
  ASSUME TypeOK, NEW alive \in SUBSET Slots, 0 \in alive,
         NEW then \in {"no", "exception"}, Schedule(alive, then)
  PROVE  /\ ctx' \in [Slots -> [epc : Procs, sp : Procs]]
         /\ cpu' \in [epc : Procs, sp : Procs]
         /\ curr_proc' \in Slots
<1>1. /\ curr_proc' \in alive /\ ctx' = [ctx EXCEPT ![curr_proc] = cpu]
      /\ cpu' = ctx'[curr_proc']
  BY ScheduleFinds
<1>2. ctx' \in [Slots -> [epc : Procs, sp : Procs]]
  BY <1>1 DEF TypeOK
<1> QED BY <1>1, <1>2

LEMMA InitLivesNext == InitLives /\ [Next]_vars => InitLives'
<1> SUFFICES ASSUME InitLives, [Next]_vars PROVE InitLives'
  OBVIOUS
<1>0. /\ TypeOK /\ Alive(0) /\ halted # "PCB[0] is invalid" /\ 0 \in Slots
      /\ AliveSlots \in SUBSET Slots /\ 0 \in AliveSlots
  <2>1. TypeOK /\ Alive(0) /\ halted # "PCB[0] is invalid"
    BY DEF InitLives, SchedulerFindsProcess
  <2> QED BY <2>1, RangeFacts DEF AliveSlots
<1>1. CASE Tick
  <2>1. Schedule(AliveSlots, "no") /\ UNCHANGED <<ASID, create, owner, dead, last>>
    BY <1>1 DEF Tick
  <2>2. halted' = "no"
    BY <1>0, <2>1, ScheduleFinds
  <2>3. /\ ctx' \in [Slots -> [epc : Procs, sp : Procs]]
        /\ cpu' \in [epc : Procs, sp : Procs]
        /\ curr_proc' \in Slots
    BY <1>0, <2>1, ScheduleTypes
  <2> QED BY <1>0, <2>1, <2>2, <2>3 DEF InitLives, TypeOK, Alive, SchedulerFindsProcess
<1>2. ASSUME NEW then \in {"no", "exception"}, KillCurrent(then)
      PROVE  InitLives'
  <2>1. /\ Schedule(AliveSlots \ {curr_proc}, then) /\ curr_proc # 0
        /\ ASID' = [ASID EXCEPT ![curr_proc] = -1]
        /\ dead' = dead \cup {owner[curr_proc]}
        /\ UNCHANGED <<create, owner, last>>
    BY <1>2 DEF KillCurrent
  <2>2. halted' = then
    BY <1>0, <2>1, ScheduleFinds
  <2>3. /\ ctx' \in [Slots -> [epc : Procs, sp : Procs]]
        /\ cpu' \in [epc : Procs, sp : Procs]
        /\ curr_proc' \in Slots
    BY <1>0, <2>1, ScheduleTypes
  <2>4. ASID' \in [Slots -> -1 .. N - 1] /\ dead' \subseteq Procs
    BY <1>0, <2>1, RangeFacts DEF TypeOK
  <2> QED BY <1>0, <2>1, <2>2, <2>3, <2>4 DEF InitLives, TypeOK, Alive, SchedulerFindsProcess
<1>3. CASE Exit \/ Fault
  BY <1>2, <1>3 DEF Exit, Fault
<1>4. ASSUME NEW s \in Slots, StartCreate(s) PROVE InitLives'
  <2>1. last + 1 \in Procs /\ last' = last + 1
    <3>1. last \in Procs /\ last < MaxProc /\ last' = last + 1
      BY <1>0, <1>4 DEF StartCreate, TypeOK
    <3> QED BY <3>1, MaxProcAssumption DEF Procs
  <2>2. create' \in [at : {"none", "epc", "sp", "ASID"}, slot : Slots, proc : Procs]
    BY <1>4, <2>1 DEF StartCreate
  <2> QED BY <1>0, <1>4, <2>1, <2>2
          DEF StartCreate, InitLives, TypeOK, Alive, SchedulerFindsProcess
<1>5. CASE CommandProc
  BY <1>4, <1>5 DEF CommandProc
<1>6. CASE CommandTime
  BY <1>4, <1>6, RangeFacts DEF CommandTime
<1>7. CASE \E s \in Slots : CommandKill(s)
  <2>1. PICK s \in Slots : CommandKill(s)
    BY <1>7
  <2>2. /\ s # 0 /\ ASID' = [ASID EXCEPT ![s] = -1] /\ dead' = dead \cup {owner[s]}
        /\ UNCHANGED <<ctx, cpu, curr_proc, create, owner, last, halted>>
    BY <2>1 DEF CommandKill
  <2>3. ASID' \in [Slots -> -1 .. N - 1] /\ dead' \subseteq Procs
    BY <1>0, <2>2, RangeFacts DEF TypeOK
  <2>4. ASID'[0] = ASID[0]
    BY <1>0, <2>2 DEF TypeOK
  <2> QED BY <1>0, <2>2, <2>3, <2>4 DEF InitLives, TypeOK, Alive, SchedulerFindsProcess
<1>8. CASE WriteEpc
  BY <1>0, <1>8 DEF WriteEpc, InCreate, InitLives, TypeOK, Alive, SchedulerFindsProcess
<1>9. CASE WriteSp
  BY <1>0, <1>9 DEF WriteSp, InCreate, InitLives, TypeOK, Alive, SchedulerFindsProcess
<1>10. CASE WriteASID
  <2>1. create.slot \in Slots /\ create.slot \in -1 .. N - 1 /\ create.slot >= 0
        /\ create.proc \in Procs
    <3>1. create.slot \in Slots /\ create.proc \in Procs
      BY <1>0 DEF TypeOK
    <3> QED BY <3>1, RangeFacts
  <2>2. /\ ASID' = [ASID EXCEPT ![create.slot] = create.slot]
        /\ owner' = [owner EXCEPT ![create.slot] = create.proc]
        /\ create' = NoCreate
        /\ UNCHANGED <<ctx, cpu, curr_proc, dead, last, halted>>
    BY <1>10 DEF WriteASID
  <2>3. NoCreate \in [at : {"none", "epc", "sp", "ASID"}, slot : Slots, proc : Procs]
    BY RangeFacts DEF NoCreate
  <2> QED BY <1>0, <2>1, <2>2, <2>3 DEF InitLives, TypeOK, Alive, SchedulerFindsProcess
<1>11. CASE UNCHANGED vars
  BY <1>11 DEF vars, InitLives, TypeOK, Alive, SchedulerFindsProcess
<1> QED BY <1>1, <1>3, <1>5, <1>6, <1>7, <1>8, <1>9, <1>10, <1>11 DEF Next

\* The variables keep their types, whatever commands are given.
THEOREM TypeCorrect == Spec => []TypeOK
<1>1. InitLives => TypeOK
  BY DEF InitLives
<1> QED BY <1>1, InitLivesInit, InitLivesNext, PTL DEF Spec

\* pc_schedule finds a process on every call: its error loop is never entered,
\* whatever is killed by command, system call or exception.
THEOREM SchedulerNeverGivesUp == Spec => []SchedulerFindsProcess
<1>1. InitLives => SchedulerFindsProcess
  BY DEF InitLives
<1> QED BY <1>1, InitLivesInit, InitLivesNext, PTL DEF Spec

----------------------------------------------------------------------------
(***************************************************************************)
(* Processes keep their own context as long as the shell is given neither  *)
(* command that takes a slot in use: time, whose slot is always 2, and     *)
(* kill of the slot the shell itself runs in.  Then the running slot and   *)
(* every other live slot belong to distinct processes that were not        *)
(* killed, and a slot being filled is free until its last store.           *)
(***************************************************************************)
Creating ==
  create.at # "none" =>
    /\ ~Alive(create.slot)
    /\ create.proc = last
    /\ last \notin dead
    /\ \A s \in AliveSlots : owner[s] # last
    /\ create.at \in {"sp", "ASID"} => ctx[create.slot].epc = create.proc
    /\ create.at = "ASID" => ctx[create.slot].sp = create.proc

Owners ==
  /\ \A s \in AliveSlots : owner[s] <= last /\ owner[s] \notin dead
  /\ \A s, t \in AliveSlots : s # t => owner[s] # owner[t]
  /\ \A p \in dead : p <= last

\* ContextsIntact for every slot: no command overwrites a slot in use.
AllIntact ==
  \A s \in AliveSlots :
    IF s = curr_proc THEN cpu = Context(owner[s]) ELSE ctx[s] = Context(owner[s])

PInv == InitLives /\ Alive(curr_proc) /\ AllIntact /\ Creating /\ Owners

LEMMA PInvInit == Init => PInv
<1> SUFFICES ASSUME Init PROVE PInv
  OBVIOUS
<1>1. InitLives
  BY InitLivesInit
<1>2. /\ N \in Nat /\ N >= 3 /\ curr_proc = 0 /\ cpu = Context(0)
      /\ \A s \in Slots : s \in Nat
      /\ ASID = [s \in Slots |-> IF s <= 2 THEN s ELSE -1]
      /\ owner = [s \in Slots |-> IF s <= 2 THEN s ELSE 0]
      /\ ctx = [s \in Slots |-> Context(IF s <= 2 THEN s ELSE 0)]
      /\ dead = {} /\ last = 2 /\ create = NoCreate
  BY NAssumption, RangeFacts DEF Init
<1>3. \A s \in AliveSlots : s \in Slots /\ s <= 2 /\ owner[s] = s /\ ctx[s] = Context(s)
  BY <1>2 DEF AliveSlots, Alive
<1>4. Alive(curr_proc)
  BY <1>1, <1>2 DEF InitLives
<1>5. AllIntact
  BY <1>2, <1>3, <1>4 DEF AllIntact
<1>6. Creating /\ Owners
  BY <1>2, <1>3 DEF Creating, Owners, NoCreate
<1> QED BY <1>1, <1>4, <1>5, <1>6 DEF PInv

\* A switch to one of the slots `alive', all of which were in use, keeps the
\* contexts, and what it loads belongs to the slot it goes to.
LEMMA SwitchKeepsContexts ==
  ASSUME PInv, NEW alive \in SUBSET AliveSlots, 0 \in alive,
         NEW then \in {"no", "exception"}, Schedule(alive, then)
  PROVE  /\ curr_proc' \in alive
         /\ cpu' = Context(owner[curr_proc'])
         /\ \A s \in alive : s # curr_proc' => ctx'[s] = Context(owner[s])
         /\ \A s \in Slots : ~Alive(s) => ctx'[s] = ctx[s]
<1>1. /\ TypeOK /\ alive \in SUBSET Slots /\ curr_proc \in Slots
      /\ curr_proc \in AliveSlots /\ AllIntact
  BY DEF PInv, InitLives, AliveSlots, TypeOK
<1>2. /\ curr_proc' \in alive /\ ctx' = [ctx EXCEPT ![curr_proc] = cpu]
      /\ cpu' = ctx'[curr_proc']
  BY <1>1, ScheduleFinds
<1>3. \A s \in alive : ctx'[s] = Context(owner[s])
  BY <1>1, <1>2 DEF AllIntact, TypeOK
<1>4. \A s \in Slots : ~Alive(s) => ctx'[s] = ctx[s]
  BY <1>1, <1>2 DEF TypeOK, AliveSlots
<1> QED BY <1>2, <1>3, <1>4

\* Freeing a slot takes it, and no other, off the slots in use.
LEMMA FreedSlot ==
  ASSUME TypeOK, NEW s \in Slots, ASID' = [ASID EXCEPT ![s] = -1]
  PROVE  AliveSlots' = AliveSlots \ {s}
<1>1. ASID'[s] = -1
  BY DEF TypeOK
<1>2. \A t \in Slots \ {s} : ASID'[t] = ASID[t]
  BY DEF TypeOK
<1>3. ~Alive(s)'
  <2>1. ~(-1 >= 0)
    OBVIOUS
  <2> QED BY <1>1, <2>1 DEF Alive
<1>4. \A t \in Slots \ {s} : Alive(t)' <=> Alive(t)
  BY <1>2 DEF Alive
<1> QED BY <1>3, <1>4 DEF AliveSlots

LEMMA PInvNext ==
  ASSUME Commands \subseteq {"proc", "kill"}, PInv, [Next]_vars
  PROVE  PInv'
<1>0. /\ InitLives' /\ TypeOK /\ 0 \in AliveSlots /\ curr_proc \in AliveSlots
      /\ \A s \in Slots : s \in Nat /\ s >= 0
      /\ AliveSlots \subseteq Slots /\ last \in Int
  <2>1. InitLives'
    BY InitLivesNext DEF PInv
  <2>2. last \in Int
    <3>1. last \in Procs
      BY DEF PInv, InitLives, TypeOK
    <3> QED BY <3>1, MaxProcAssumption DEF Procs
  <2> QED BY <2>1, <2>2, RangeFacts DEF PInv, InitLives, AliveSlots, TypeOK
<1>1. CASE Tick
  <2>1. /\ Schedule(AliveSlots, "no")
        /\ ASID' = ASID /\ create' = create /\ owner' = owner /\ dead' = dead /\ last' = last
    BY <1>1 DEF Tick
  <2>2. AliveSlots' = AliveSlots /\ (\A s : Alive(s)' <=> Alive(s))
    BY <2>1 DEF AliveSlots, Alive
  <2>3. /\ curr_proc' \in AliveSlots /\ cpu' = Context(owner[curr_proc'])
        /\ \A s \in AliveSlots : s # curr_proc' => ctx'[s] = Context(owner[s])
        /\ \A s \in Slots : ~Alive(s) => ctx'[s] = ctx[s]
    BY <1>0, <2>1, SwitchKeepsContexts
  <2>4. Alive(curr_proc)'
    BY <2>1, <2>3 DEF AliveSlots, Alive
  <2>5. AllIntact' /\ Owners'
    BY <2>1, <2>2, <2>3 DEF AllIntact, PInv, Owners
  <2>6. Creating'
    BY <1>0, <2>1, <2>2, <2>3 DEF PInv, Creating, TypeOK, Alive
  <2> QED BY <1>0, <2>4, <2>5, <2>6 DEF PInv
<1>2. ASSUME NEW then \in {"no", "exception"}, KillCurrent(then)
      PROVE  PInv'
  <2>1. /\ Schedule(AliveSlots \ {curr_proc}, then)
        /\ ASID' = [ASID EXCEPT ![curr_proc] = -1]
        /\ create' = create /\ owner' = owner /\ last' = last
        /\ dead' = dead \cup {owner[curr_proc]} /\ curr_proc # 0
    BY <1>2 DEF KillCurrent
  <2>2. AliveSlots' = AliveSlots \ {curr_proc}
    BY <1>0, <2>1, FreedSlot
  <2>3. /\ curr_proc' \in AliveSlots \ {curr_proc} /\ cpu' = Context(owner[curr_proc'])
        /\ \A s \in AliveSlots \ {curr_proc} : s # curr_proc' => ctx'[s] = Context(owner[s])
        /\ \A s \in Slots : ~Alive(s) => ctx'[s] = ctx[s]
    BY <1>0, <2>1, SwitchKeepsContexts
  <2>4. Alive(curr_proc)'
    BY <2>2, <2>3 DEF AliveSlots
  <2>5. AllIntact'
    BY <2>1, <2>2, <2>3 DEF AllIntact
  <2>6. Owners'
    BY <1>0, <2>1, <2>2 DEF PInv, Owners
  <2>7. Creating'
    <3>1. CASE create.at = "none"
      BY <2>1, <3>1 DEF Creating
    <3>2. CASE create.at # "none"
      <4>1. create.slot \in Slots /\ ~Alive(create.slot) /\ create.slot # curr_proc
        BY <1>0, <3>2 DEF PInv, Creating, TypeOK, AliveSlots
      <4>2. ~Alive(create.slot)'
        BY <1>0, <2>1, <4>1 DEF Alive, TypeOK
      <4> QED BY <1>0, <2>1, <2>2, <2>3, <3>2, <4>1, <4>2 DEF PInv, Creating
    <3> QED BY <3>1, <3>2
  <2> QED BY <1>0, <2>4, <2>5, <2>6, <2>7 DEF PInv
<1>3. CASE Exit \/ Fault
  BY <1>2, <1>3 DEF Exit, Fault
<1>4. CASE CommandProc
  <2>1. PICK s \in Slots : ~Alive(s) /\ StartCreate(s)
    BY <1>4 DEF CommandProc, pc_peek
  <2>2. /\ last' = last + 1
        /\ create' = [at |-> "epc", slot |-> s, proc |-> last + 1]
        /\ ASID' = ASID /\ ctx' = ctx /\ cpu' = cpu /\ curr_proc' = curr_proc
        /\ owner' = owner /\ dead' = dead
    BY <2>1 DEF StartCreate
  <2>3. AliveSlots' = AliveSlots /\ (\A t : Alive(t)' <=> Alive(t))
    BY <2>2 DEF AliveSlots, Alive
  <2>4. \A p \in Procs : p \in Int
    BY DEF Procs
  <2>5. \A t \in AliveSlots : owner[t] \in Int /\ owner[t] <= last
    BY <1>0, <2>4 DEF PInv, Owners, TypeOK
  <2>6. \A p \in dead : p \in Int /\ p <= last
    BY <1>0, <2>4 DEF PInv, Owners, TypeOK
  <2>7. Owners'
    BY <1>0, <2>2, <2>3, <2>5, <2>6 DEF PInv, Owners
  <2>8. Creating'
    <3>1. last + 1 \notin dead /\ \A t \in AliveSlots : owner[t] # last + 1
      BY <1>0, <2>5, <2>6
    <3> QED BY <2>1, <2>2, <2>3, <3>1 DEF Creating
  <2>9. Alive(curr_proc)' /\ AllIntact'
    BY <2>2, <2>3 DEF PInv, AllIntact, Alive
  <2> QED BY <1>0, <2>7, <2>8, <2>9 DEF PInv
<1>5. CASE CommandTime
  BY <1>5 DEF CommandTime
<1>6. CASE \E s \in Slots : CommandKill(s)
  <2>1. PICK s \in Slots : CommandKill(s)
    BY <1>6
  <2>2. /\ s # curr_proc /\ s # 0 /\ Alive(s) /\ create = NoCreate
        /\ ASID' = [ASID EXCEPT ![s] = -1] /\ dead' = dead \cup {owner[s]}
        /\ ctx' = ctx /\ cpu' = cpu /\ curr_proc' = curr_proc
        /\ create' = create /\ owner' = owner /\ last' = last
    BY <2>1 DEF CommandKill, AtPrompt
  <2>3. AliveSlots' = AliveSlots \ {s} /\ s \in AliveSlots
    BY <1>0, <2>2, FreedSlot DEF AliveSlots
  <2>4. Alive(curr_proc)'
    BY <1>0, <2>2, <2>3 DEF AliveSlots
  <2>5. AllIntact' /\ Owners'
    BY <1>0, <2>2, <2>3 DEF PInv, AllIntact, Owners
  <2>6. Creating'
    BY <2>2 DEF Creating, NoCreate
  <2> QED BY <1>0, <2>4, <2>5, <2>6 DEF PInv
<1>7. CASE WriteEpc \/ WriteSp
  <2>1. /\ create.slot \in Slots /\ create.proc \in Procs /\ create.at # "none"
        /\ ~Alive(create.slot) /\ create.slot \notin AliveSlots
        /\ ASID' = ASID /\ cpu' = cpu /\ curr_proc' = curr_proc
        /\ owner' = owner /\ dead' = dead /\ last' = last
        /\ create' \in [at : {"sp", "ASID"}, slot : {create.slot}, proc : {create.proc}]
    BY <1>0, <1>7 DEF WriteEpc, WriteSp, InCreate, PInv, Creating, AliveSlots, TypeOK
  <2>2. AliveSlots' = AliveSlots /\ (\A t : Alive(t)' <=> Alive(t))
    BY <2>1 DEF AliveSlots, Alive
  <2>3. \A t \in AliveSlots : ctx'[t] = ctx[t]
    BY <1>0, <1>7, <2>1 DEF WriteEpc, WriteSp, TypeOK
  <2>4. Alive(curr_proc)' /\ AllIntact' /\ Owners'
    BY <2>1, <2>2, <2>3 DEF PInv, AllIntact, Owners, Alive
  <2>5. /\ ctx'[create.slot].epc = create.proc
        /\ create'.at = "ASID" => ctx'[create.slot].sp = create.proc
    <3>1. CASE WriteEpc
      BY <1>0, <2>1, <3>1 DEF WriteEpc, TypeOK
    <3>2. CASE WriteSp
      BY <1>0, <2>1, <3>2 DEF WriteSp, InCreate, PInv, Creating, TypeOK
    <3> QED BY <1>7, <3>1, <3>2
  <2>6. Creating'
    BY <2>1, <2>2, <2>5 DEF PInv, Creating
  <2> QED BY <1>0, <2>4, <2>6 DEF PInv
<1>8. CASE WriteASID
  <2> DEFINE c == create.slot
             p == create.proc
  <2>1. /\ c \in Slots /\ p \in Procs /\ ~Alive(c) /\ c \notin AliveSlots
        /\ p = last /\ last \notin dead /\ (\A s \in AliveSlots : owner[s] # last)
        /\ ctx[c].epc = p /\ ctx[c].sp = p
        /\ ASID' = [ASID EXCEPT ![c] = c] /\ owner' = [owner EXCEPT ![c] = p]
        /\ create' = NoCreate
        /\ ctx' = ctx /\ cpu' = cpu /\ curr_proc' = curr_proc /\ dead' = dead /\ last' = last
    BY <1>0, <1>8 DEF WriteASID, InCreate, PInv, Creating, AliveSlots, TypeOK
  <2>2. AliveSlots' = AliveSlots \cup {c}
    <3>1. \A s \in Slots : Alive(s)' <=> (s = c \/ Alive(s))
      BY <1>0, <2>1 DEF Alive, TypeOK, Slots
    <3> QED BY <2>1, <3>1 DEF AliveSlots
  <2>3. ctx[c] = Context(p)
    BY <1>0, <2>1 DEF TypeOK, Context
  <2>4. \A t \in AliveSlots : t # c /\ owner'[t] = owner[t]
    BY <1>0, <2>1 DEF TypeOK
  <2>5. owner'[c] = p /\ c # curr_proc
    BY <1>0, <2>1 DEF TypeOK
  <2>6. AllIntact'
    BY <2>1, <2>2, <2>3, <2>4, <2>5 DEF PInv, AllIntact
  <2>7. Owners'
    BY <1>0, <2>1, <2>2, <2>4, <2>5 DEF PInv, Owners
  <2>8. Alive(curr_proc)'
    BY <1>0, <2>1, <2>2 DEF AliveSlots
  <2>9. Creating'
    BY <2>1 DEF Creating, NoCreate
  <2> QED BY <1>0, <2>6, <2>7, <2>8, <2>9 DEF PInv
<1>9. CASE UNCHANGED vars
  BY <1>0, <1>9 DEF vars, PInv, AllIntact, Creating, Owners, AliveSlots, Alive
<1> QED BY <1>1, <1>3, <1>4, <1>5, <1>6, <1>7, <1>8, <1>9 DEF Next

\* What the timer loads for a process is that process's own whole context,
\* at every point at which a tick may come, while pc_create runs included.
THEOREM ProcessesKeepTheirContext ==
  ASSUME Commands \subseteq {"proc", "kill"}
  PROVE  Spec => []ContextsIntact
<1>1. PInv => ContextsIntact
  BY DEF PInv, AllIntact, ContextsIntact
<1>2. PInv /\ [Next]_vars => PInv'
  BY PInvNext
<1> QED BY <1>1, <1>2, PInvInit, PTL DEF Spec

----------------------------------------------------------------------------
(***************************************************************************)
(* Who comes back from the dead, for every set of commands.  Runs(s) is    *)
(* the process whose epc slot s continues at.  Only slot Shell can be the  *)
(* running one without being in use, and it continues the shell and        *)
(* nothing else, whoever was created in it.  Every other slot in use       *)
(* continues the process created there, or the one being created there.    *)
(***************************************************************************)
Runs(s) == IF s = curr_proc THEN cpu.epc ELSE ctx[s].epc

\* The slots whose owner matters: also the one of a shell that killed itself.
Named == AliveSlots \cup {Shell}

Filling(s) == create.at \in {"sp", "ASID"} /\ create.slot = s

Homes ==
  /\ curr_proc \in Named
  /\ \A s \in Slots : Runs(s) = Shell => s = Shell
  /\ Alive(Shell) \/ curr_proc = Shell => Runs(Shell) = Shell
  /\ \A s \in AliveSlots \ {Shell} :
       Runs(s) = owner[s] \/ (Filling(s) /\ Runs(s) = create.proc)
  /\ \A s \in Slots \ {Shell} : Filling(s) => Runs(s) = create.proc

Names ==
  /\ last >= 2
  /\ \A p \in dead : p <= last
  /\ \A s \in Named : owner[s] <= last
  /\ \A s \in AliveSlots : owner[s] \notin dead
  /\ \A s, t \in Named : s # t => owner[s] # owner[t]
  /\ create.at # "none" =>
       /\ create.proc = last
       /\ last > 2
       /\ last \notin dead
       /\ \A s \in Named : owner[s] # last

RInv == InitLives /\ Homes /\ Names

LEMMA RInvInit == Init => RInv
<1> SUFFICES ASSUME Init PROVE RInv
  OBVIOUS
<1>1. InitLives
  BY InitLivesInit
<1>2. /\ N \in Nat /\ N >= 3 /\ curr_proc = 0 /\ cpu = Context(0)
      /\ \A s \in Slots : s \in Nat
      /\ 0 \in Slots /\ 1 \in Slots /\ Shell = 1
      /\ ASID = [s \in Slots |-> IF s <= 2 THEN s ELSE -1]
      /\ owner = [s \in Slots |-> IF s <= 2 THEN s ELSE 0]
      /\ ctx = [s \in Slots |-> Context(IF s <= 2 THEN s ELSE 0)]
      /\ dead = {} /\ last = 2 /\ create = NoCreate
  BY NAssumption, RangeFacts DEF Init, Slots, Shell
<1>3. /\ \A s \in AliveSlots : s \in Slots /\ s <= 2
      /\ \A s \in Named : s \in Slots /\ s <= 2 /\ owner[s] = s
      /\ 0 \in AliveSlots
  BY <1>2 DEF AliveSlots, Alive, Named
<1>4. \A s \in Slots : Runs(s) = IF s <= 2 THEN s ELSE 0
  BY <1>2 DEF Runs, Context
<1>5. Homes
  BY <1>2, <1>3, <1>4 DEF Homes, Filling, NoCreate, Named
<1>6. Names
  BY <1>2, <1>3 DEF Names, NoCreate
<1> QED BY <1>1, <1>5, <1>6 DEF RInv

\* A switch changes no slot's process.
LEMMA SwitchKeepsRuns ==
  ASSUME TypeOK, NEW alive \in SUBSET Slots, 0 \in alive,
         NEW then \in {"no", "exception"}, Schedule(alive, then)
  PROVE  /\ curr_proc' \in alive
         /\ \A s \in Slots : Runs(s)' = Runs(s)
         /\ cpu'.epc = Runs(curr_proc')
<1>1. /\ curr_proc' \in alive /\ ctx' = [ctx EXCEPT ![curr_proc] = cpu]
      /\ cpu' = ctx'[curr_proc'] /\ curr_proc \in Slots
  BY ScheduleFinds DEF TypeOK
<1>2. \A s \in Slots : ctx'[s] = IF s = curr_proc THEN cpu ELSE ctx[s]
  BY <1>1 DEF TypeOK
<1> QED BY <1>1, <1>2 DEF Runs

\* Homes after a step that changes no slot's process, no creation and no owner.
LEMMA HomesKept ==
  ASSUME RInv, curr_proc' \in Named',
         curr_proc' = Shell => Alive(Shell) \/ curr_proc = Shell,
         AliveSlots' \subseteq AliveSlots,
         \A s \in Slots : Runs(s)' = Runs(s),
         owner' = owner, create' = create
  PROVE  Homes'
<1>1. \A s \in Slots : Runs(s)' = Runs(s) /\ Filling(s)' = Filling(s)
  BY DEF Filling
<1>2. Shell \in Slots /\ AliveSlots \subseteq Slots
  BY NAssumption DEF Shell, Slots, AliveSlots
<1>3. Alive(Shell)' => Alive(Shell)
  BY <1>2 DEF AliveSlots
<1> QED BY <1>1, <1>2, <1>3 DEF RInv, Homes

LEMMA RInvNext == RInv /\ [Next]_vars => RInv'
<1> SUFFICES ASSUME RInv, [Next]_vars PROVE RInv'
  OBVIOUS
<1>0. /\ InitLives' /\ TypeOK /\ TypeOK' /\ Homes /\ Names /\ 0 \in AliveSlots
      /\ Shell \in Slots /\ Shell = 1 /\ Shell # 0
      /\ AliveSlots \subseteq Slots /\ Named \subseteq Slots /\ last \in Int
      /\ \A p \in Procs : p \in Int
  <2>1. InitLives'
    BY InitLivesNext DEF RInv
  <2>2. last \in Int
    <3>1. last \in Procs
      BY DEF RInv, InitLives, TypeOK
    <3> QED BY <3>1 DEF Procs
  <2>3. Shell \in Slots /\ Shell = 1
    BY NAssumption DEF Shell, Slots
  <2>4. \A p \in Procs : p \in Int
    BY DEF Procs
  <2> QED BY <2>1, <2>2, <2>3, <2>4, RangeFacts DEF RInv, InitLives, AliveSlots, Named
\* the shell is in the registers
<1>S. cpu.epc = Shell => curr_proc = Shell
  BY <1>0 DEF Homes, Runs, TypeOK
<1>1. CASE Tick
  <2>1. /\ Schedule(AliveSlots, "no")
        /\ ASID' = ASID /\ create' = create /\ owner' = owner /\ dead' = dead /\ last' = last
    BY <1>1 DEF Tick
  <2>2. AliveSlots' = AliveSlots /\ Named' = Named
    BY <2>1 DEF AliveSlots, Alive, Named
  <2>3. /\ curr_proc' \in AliveSlots
        /\ \A s \in Slots : Runs(s)' = Runs(s)
    BY <1>0, <2>1, SwitchKeepsRuns
  <2>4. Homes'
    BY <2>1, <2>2, <2>3, HomesKept DEF Named, AliveSlots
  <2>5. Names'
    BY <1>0, <2>1, <2>2 DEF Names
  <2> QED BY <1>0, <2>4, <2>5 DEF RInv
<1>2. ASSUME NEW then \in {"no", "exception"}, KillCurrent(then)
      PROVE  RInv'
  <2>1. /\ Schedule(AliveSlots \ {curr_proc}, then)
        /\ ASID' = [ASID EXCEPT ![curr_proc] = -1]
        /\ create' = create /\ owner' = owner /\ last' = last
        /\ dead' = dead \cup {owner[curr_proc]} /\ curr_proc # 0 /\ curr_proc \in Slots
    BY <1>0, <1>2 DEF KillCurrent, TypeOK
  <2>2. AliveSlots' = AliveSlots \ {curr_proc} /\ Named' \subseteq Named
    BY <1>0, <2>1, FreedSlot DEF Named
  <2>3. /\ curr_proc' \in AliveSlots \ {curr_proc}
        /\ \A s \in Slots : Runs(s)' = Runs(s)
    BY <1>0, <2>1, SwitchKeepsRuns
  <2>4. Homes'
    BY <2>1, <2>2, <2>3, HomesKept DEF Named, AliveSlots
  <2>5. Names'
    BY <1>0, <2>1, <2>2 DEF Names, Homes, Named
  <2> QED BY <1>0, <2>4, <2>5 DEF RInv
<1>3. CASE Exit \/ Fault
  BY <1>2, <1>3 DEF Exit, Fault
<1>4. ASSUME NEW s \in Slots, AtPrompt, StartCreate(s) PROVE RInv'
  <2>1. /\ last' = last + 1 /\ create.at = "none"
        /\ create' = [at |-> "epc", slot |-> s, proc |-> last + 1]
        /\ ASID' = ASID /\ ctx' = ctx /\ cpu' = cpu /\ curr_proc' = curr_proc
        /\ owner' = owner /\ dead' = dead
    BY <1>4 DEF StartCreate, AtPrompt, NoCreate
  <2>2. /\ AliveSlots' = AliveSlots /\ Named' = Named /\ (\A t : Alive(t)' <=> Alive(t))
        /\ \A t \in Slots : Runs(t)' = Runs(t) /\ ~Filling(t)' /\ ~Filling(t)
    BY <2>1 DEF AliveSlots, Alive, Named, Runs, Filling
  <2>3. Homes'
    BY <1>0, <2>1, <2>2 DEF Homes
  <2>4. \A t \in Named : owner[t] \in Int /\ owner[t] <= last
    BY <1>0 DEF Names, TypeOK
  <2>5. \A p \in dead : p \in Int /\ p <= last
    BY <1>0 DEF Names, TypeOK
  <2>6. Names'
    BY <1>0, <2>1, <2>2, <2>4, <2>5 DEF Names
  <2> QED BY <1>0, <2>3, <2>6 DEF RInv
<1>5. CASE CommandProc \/ CommandTime
  BY <1>4, <1>5, RangeFacts DEF CommandProc, CommandTime
<1>6. CASE \E s \in Slots : CommandKill(s)
  <2>1. PICK s \in Slots : CommandKill(s)
    BY <1>6
  <2>2. /\ Alive(s) /\ create.at = "none" /\ cpu.epc = Shell
        /\ ASID' = [ASID EXCEPT ![s] = -1] /\ dead' = dead \cup {owner[s]}
        /\ ctx' = ctx /\ cpu' = cpu /\ curr_proc' = curr_proc
        /\ create' = create /\ owner' = owner /\ last' = last
    BY <2>1 DEF CommandKill, AtPrompt, NoCreate
  <2>3. AliveSlots' = AliveSlots \ {s} /\ s \in AliveSlots /\ Named' \subseteq Named
    BY <1>0, <2>2, FreedSlot DEF AliveSlots, Named
  <2>4. (\A t \in Slots : Runs(t)' = Runs(t)) /\ curr_proc' = Shell /\ Shell \in Named'
    BY <1>S, <2>2 DEF Runs, Named
  <2>5. Homes'
    BY <1>S, <2>2, <2>3, <2>4, HomesKept
  <2>6. Names'
    BY <1>0, <2>2, <2>3 DEF Names, Named
  <2> QED BY <1>0, <2>5, <2>6 DEF RInv
<1>7. CASE WriteEpc \/ WriteSp
  <2> DEFINE c == create.slot
             p == create.proc
  <2>1. /\ c \in Slots /\ p = last /\ last > 2 /\ create.at # "none"
        /\ curr_proc = Shell /\ cpu.epc = Shell
        /\ ASID' = ASID /\ cpu' = cpu /\ curr_proc' = curr_proc
        /\ owner' = owner /\ dead' = dead /\ last' = last
        /\ create'.at \in {"sp", "ASID"} /\ create'.slot = c /\ create'.proc = p
    BY <1>0, <1>7, <1>S DEF WriteEpc, WriteSp, InCreate, Names, TypeOK
  <2>2. /\ AliveSlots' = AliveSlots /\ Named' = Named /\ (\A t : Alive(t)' <=> Alive(t))
    BY <2>1 DEF AliveSlots, Alive, Named
  <2>3. \A t \in Slots : t # c \/ t = Shell => Runs(t)' = Runs(t)
    BY <1>0, <1>7, <2>1 DEF Runs, WriteEpc, WriteSp, TypeOK
  <2>4. c # Shell => Runs(c)' = p
    <3>1. CASE WriteEpc
      BY <1>0, <2>1, <3>1 DEF WriteEpc, Runs, TypeOK
    <3>2. CASE WriteSp
      BY <1>0, <2>1, <3>2 DEF WriteSp, InCreate, Runs, Homes, Filling, TypeOK
    <3> QED BY <1>7, <3>1, <3>2
  <2>5. \A t \in Slots : (Filling(t)' <=> t = c) /\ (Filling(t) => t = c)
    BY <2>1 DEF Filling
  <2>6. p # Shell
    BY <1>0, <2>1
  <2>7. Homes'
    BY <1>0, <2>1, <2>2, <2>3, <2>4, <2>5, <2>6 DEF Homes
  <2>8. Names'
    BY <1>0, <2>1, <2>2 DEF Names
  <2> QED BY <1>0, <2>7, <2>8 DEF RInv
<1>8. CASE WriteASID
  <2> DEFINE c == create.slot
             p == create.proc
  <2>1. /\ c \in Slots /\ p \in Procs /\ p = last /\ last \notin dead
        /\ create.at = "ASID" /\ (\A s \in Named : owner[s] # last)
        /\ curr_proc = Shell /\ cpu.epc = Shell
        /\ ASID' = [ASID EXCEPT ![c] = c] /\ owner' = [owner EXCEPT ![c] = p]
        /\ create' = NoCreate /\ create'.at = "none"
        /\ ctx' = ctx /\ cpu' = cpu /\ curr_proc' = curr_proc /\ dead' = dead /\ last' = last
    BY <1>0, <1>8, <1>S DEF WriteASID, InCreate, Names, TypeOK, NoCreate
  <2>2. AliveSlots' = AliveSlots \cup {c} /\ Named' = Named \cup {c}
    <3>1. c >= 0
      BY <2>1, RangeFacts
    <3>2. \A t \in Slots : ASID'[t] = IF t = c THEN c ELSE ASID[t]
      BY <1>0, <2>1 DEF TypeOK
    <3>3. \A t \in Slots : Alive(t)' <=> Alive(t) \/ t = c
      BY <3>1, <3>2 DEF Alive
    <3>4. AliveSlots' = AliveSlots \cup {c}
      BY <2>1, <3>3 DEF AliveSlots
    <3> QED BY <3>4 DEF Named
  <2>3. \A t \in Slots : owner'[t] = IF t = c THEN p ELSE owner[t]
    BY <1>0, <2>1 DEF TypeOK
  <2>4. \A t \in Slots : Runs(t)' = Runs(t) /\ ~Filling(t)' /\ (Filling(t) <=> t = c)
    BY <2>1 DEF Runs, Filling
  <2>5. c # Shell => Runs(c) = p
    BY <2>1, <2>4, <1>0 DEF Homes
  <2>6. Runs(Shell) = Shell
    BY <2>1 DEF Runs
  <2>7. Homes'
    BY <1>0, <2>1, <2>2, <2>3, <2>4, <2>5, <2>6 DEF Homes, Named
  <2>8. Names'
    BY <1>0, <2>1, <2>2, <2>3 DEF Names
  <2> QED BY <1>0, <2>7, <2>8 DEF RInv
<1>9. CASE UNCHANGED vars
  <2>1. /\ ASID' = ASID /\ ctx' = ctx /\ cpu' = cpu /\ curr_proc' = curr_proc
        /\ create' = create /\ owner' = owner /\ dead' = dead /\ last' = last
    BY <1>9 DEF vars
  <2> QED BY <1>0, <2>1 DEF RInv, Homes, Names, Named, AliveSlots, Alive, Runs, Filling
<1> QED BY <1>1, <1>3, <1>5, <1>6, <1>7, <1>8, <1>9 DEF Next

\* What a switch to another slot loads, if it was killed, is the shell, in the
\* slot of a process that lives.
LEMMA OnlyShellReturns ==
  ASSUME RInv, RInv', NEW alive \in SUBSET AliveSlots, 0 \in alive,
         NEW then \in {"no", "exception"}, Schedule(alive, then),
         alive = AliveSlots', owner' = owner, create' = create, last' = last,
         dead' = dead \/ dead' = dead \cup {owner[curr_proc]},
         cpu'.epc \in dead'
  PROVE  cpu'.epc = Shell /\ owner'[curr_proc'] \notin dead' \cup {Shell}
<1>1. /\ TypeOK /\ alive \subseteq Slots
  BY DEF RInv, InitLives, AliveSlots
<1>2. curr_proc' \in alive /\ cpu'.epc = Runs(curr_proc') /\ curr_proc' \in AliveSlots
  BY <1>1, SwitchKeepsRuns
<1>3. owner'[curr_proc'] \notin dead'
  BY <1>2 DEF RInv, Names
<1>4. cpu'.epc # owner[curr_proc']
  BY <1>3
<1>5. Filling(curr_proc') => cpu'.epc # create.proc
  BY DEF RInv, Names, Filling
<1>6. curr_proc' = Shell
  BY <1>2, <1>4, <1>5 DEF RInv, Homes
<1>7. cpu'.epc = Shell
  BY <1>2, <1>6 DEF RInv, Homes, AliveSlots
<1> QED BY <1>3, <1>7

\* A process that was killed, in whatever way, is never scheduled again, but
\* for a shell that killed itself and created a process in its own slot before
\* the next tick: that tick puts the shell in the place of the new process.
\* Whatever commands are given and however many slots there are.
THEOREM KilledProcessesStayDead == Spec => NoResurrection
<1>1. RInv /\ [Next]_vars => RInv'
  BY RInvNext
<1>2. RInv /\ [Next]_vars =>
        [curr_proc' # curr_proc /\ cpu'.epc \in dead'
         => cpu'.epc = Shell /\ owner'[curr_proc'] \notin dead' \cup {Shell}]_vars
  <2> SUFFICES ASSUME RInv, RInv', Next, curr_proc' # curr_proc, cpu'.epc \in dead'
               PROVE  cpu'.epc = Shell /\ owner'[curr_proc'] \notin dead' \cup {Shell}
    BY <1>1 DEF vars
  <2>0. TypeOK /\ curr_proc \in Slots /\ 0 \in AliveSlots
    BY RangeFacts DEF RInv, InitLives, TypeOK, AliveSlots
  <2>1. CASE Tick
    <3>1. Schedule(AliveSlots, "no") /\ UNCHANGED <<ASID, create, owner, dead, last>>
      BY <2>1 DEF Tick
    <3>2. AliveSlots' = AliveSlots
      BY <3>1 DEF AliveSlots, Alive
    <3> QED BY <2>0, <3>1, <3>2, OnlyShellReturns
  <2>2. ASSUME NEW then \in {"no", "exception"}, KillCurrent(then)
        PROVE  cpu'.epc = Shell /\ owner'[curr_proc'] \notin dead' \cup {Shell}
    <3>1. /\ Schedule(AliveSlots \ {curr_proc}, then) /\ curr_proc # 0
          /\ ASID' = [ASID EXCEPT ![curr_proc] = -1]
          /\ dead' = dead \cup {owner[curr_proc]}
          /\ UNCHANGED <<create, owner, last>>
      BY <2>2 DEF KillCurrent
    <3>2. AliveSlots' = AliveSlots \ {curr_proc}
      BY <2>0, <3>1, FreedSlot
    <3> QED BY <2>0, <3>1, <3>2, OnlyShellReturns
  <2>3. Tick \/ Exit \/ Fault
    BY DEF Next, CommandProc, CommandTime, StartCreate, CommandKill, WriteEpc, WriteSp, WriteASID
  <2> QED BY <2>1, <2>2, <2>3 DEF Exit, Fault
<1> QED BY <1>1, <1>2, RInvInit, PTL DEF Spec, NoResurrection
=============================================================================
