--------------------------------- MODULE Pc ---------------------------------
(***************************************************************************)
(* Processes, kernel/pc/pc.c, with the timer interrupt, system call 10 and *)
(* unhandled exceptions that reach it (arch/mips32/exc.c, intr.c,          *)
(* kernel/syscall/syscall.c) and the shell commands that use it            *)
(* (usr/ps.c).                                                             *)
(*                                                                         *)
(* Of a register context only epc and sp are kept, and of each only the    *)
(* process it belongs to: a number given to every process created, 0 for   *)
(* init, Shell for the shell.  `cpu' is the context in the registers.      *)
(* pc_create runs with interrupts enabled, in the shell, so each of its    *)
(* stores that matters is a step a timer tick may come between.            *)
(***************************************************************************)
EXTENDS Integers

CONSTANTS
  N,         \* the number of PCBs, 8 in the code
  MaxProc,   \* bound: processes are numbered up to MaxProc
  Commands,  \* the shell commands given: of "proc", "time", "kill", "suicide"
  Faults     \* whether a process may raise an exception nobody handles

ASSUME NAssumption == N \in Nat /\ N >= 3
ASSUME MaxProcAssumption == MaxProc \in Nat /\ MaxProc >= 2
ASSUME CommandsAssumption == Commands \subseteq {"proc", "time", "kill", "suicide"}
ASSUME FaultsAssumption == Faults \in BOOLEAN

Slots == 0 .. N - 1
Procs == 0 .. MaxProc
Shell == 1

VARIABLES
  ASID,      \* pcb[s].ASID: s, or -1 when the slot is free
  ctx,       \* pcb[s].context
  cpu,       \* the context in the registers
  curr_proc,
  create,    \* the shell's call of pc_create: next store, slot, new process
  owner,     \* the process last created in a slot
  dead,      \* the processes killed so far
  last,      \* the number of the last process created
  halted     \* the endless loops of the kernel: "no", or which

vars == <<ASID, ctx, cpu, curr_proc, create, owner, dead, last, halted>>

Context(p) == [epc |-> p, sp |-> p]
Alive(s) == ASID[s] >= 0
NoCreate == [at |-> "none", slot |-> 0, proc |-> 0]

\* Variant: the search starts at slot 0.
AfterZero(s, d) == IF d >= N THEN 0 ELSE d

\* (s + d) & 7, for s in Slots and d at most N.
After(s, d) == IF s + d >= N THEN s + d - N ELSE s + d

\* init_pc and create_startup_process: init, the shell and the clock.
\* Interrupts are enabled afterwards, when init is in its last loop.
Init ==
  /\ ASID = [s \in Slots |-> IF s <= 2 THEN s ELSE -1]
  /\ owner = [s \in Slots |-> IF s <= 2 THEN s ELSE 0]
  /\ ctx = [s \in Slots |-> Context(IF s <= 2 THEN s ELSE 0)]
  /\ cpu = Context(0)
  /\ curr_proc = 0
  /\ create = NoCreate
  /\ dead = {}
  /\ last = 2
  /\ halted = "no"

----------------------------------------------------------------------------
\* Variant: the registers are saved when curr_proc has moved on.
ScheduleSavesLate(alive, then) ==
  \E d \in 1 .. N :
    LET next  == After(curr_proc, d)
        saved == [ctx EXCEPT ![next] = cpu]
    IN  /\ next \in alive \/ d = N
        /\ \A e \in 1 .. d - 1 : After(curr_proc, e) \notin alive
        /\ ctx' = saved
        /\ curr_proc' = next
        /\ cpu' = IF next \in alive THEN saved[next] ELSE cpu
        /\ halted' = IF next \in alive THEN then ELSE "PCB[0] is invalid"

\* pc_schedule when the slots in `alive' are in use: save the registers, look
\* for the next slot in use, starting after this one, and load its context.
\* After N slots the search gives up.  The kernel goes on as `then' says.
Schedule(alive, then) ==
  \E d \in 1 .. N :
    LET saved == [ctx EXCEPT ![curr_proc] = cpu]
        next  == After(curr_proc, d)
    IN  /\ next \in alive \/ d = N
        /\ \A e \in 1 .. d - 1 : After(curr_proc, e) \notin alive
        /\ ctx' = saved
        /\ curr_proc' = next
        /\ cpu' = IF next \in alive THEN saved[next] ELSE cpu
        /\ halted' = IF next \in alive THEN then ELSE "PCB[0] is invalid"

AliveSlots == {s \in Slots : Alive(s)}

\* The timer interrupt.
Tick ==
  /\ halted = "no"
  /\ Schedule(AliveSlots, "no")
  /\ UNCHANGED <<ASID, create, owner, dead, last>>

\* pc_kill_syscall, for a process that is not init.
KillCurrent(then) ==
  /\ halted = "no"
  /\ curr_proc # 0
  /\ ASID' = [ASID EXCEPT ![curr_proc] = -1]
  /\ dead' = dead \cup {owner[curr_proc]}
  /\ Schedule(AliveSlots \ {curr_proc}, then)
  /\ UNCHANGED <<create, owner, last>>

\* A process makes system call 10; the shell does when a program that exec
\* runs for it makes it.
Exit ==
  /\ cpu.epc = Shell => create = NoCreate
  /\ KillCurrent("no")

\* do_exceptions finds no handler for what a process did (init only spins):
\* the process is killed, the next context is loaded into the frame, and the
\* kernel loops for ever with interrupts masked.
Fault ==
  /\ Faults
  /\ KillCurrent("exception")

----------------------------------------------------------------------------
\* The shell is in the registers, about to read a command.
AtPrompt == halted = "no" /\ cpu.epc = Shell /\ create = NoCreate

\* pc_create is entered for slot s.
StartCreate(s) ==
  /\ last < MaxProc
  /\ last' = last + 1
  /\ create' = [at |-> "epc", slot |-> s, proc |-> last + 1]
  /\ UNCHANGED <<ASID, ctx, cpu, curr_proc, owner, dead, halted>>

\* pc_peek returns s, the first free slot.
pc_peek(s) ==
  /\ ~Alive(s)
  /\ \A t \in 0 .. s - 1 : Alive(t)

\* Command proc: proc_demo_create takes the slot pc_peek finds, if any.
CommandProc ==
  /\ "proc" \in Commands
  /\ AtPrompt
  /\ \E s \in Slots : pc_peek(s) /\ StartCreate(s)

\* Command time: the slot is always 2.
CommandTime ==
  /\ "time" \in Commands
  /\ AtPrompt
  /\ StartCreate(2)

\* Variants: init may be killed; the slot stays in use.
CommandKillInit(s) ==
  /\ IF s = curr_proc THEN "suicide" \in Commands ELSE "kill" \in Commands
  /\ AtPrompt
  /\ Alive(s)
  /\ ASID' = [ASID EXCEPT ![s] = -1]
  /\ dead' = dead \cup {owner[s]}
  /\ UNCHANGED <<ctx, cpu, curr_proc, create, owner, last, halted>>

CommandKillKeeps(s) ==
  /\ IF s = curr_proc THEN "suicide" \in Commands ELSE "kill" \in Commands
  /\ AtPrompt
  /\ s # 0
  /\ Alive(s)
  /\ dead' = dead \cup {owner[s]}
  /\ UNCHANGED <<ASID, ctx, cpu, curr_proc, create, owner, last, halted>>

\* Command kill, pc_kill: slot 0 and free slots are refused.
CommandKill(s) ==
  /\ IF s = curr_proc THEN "suicide" \in Commands ELSE "kill" \in Commands
  /\ AtPrompt
  /\ s # 0
  /\ Alive(s)
  /\ ASID' = [ASID EXCEPT ![s] = -1]
  /\ dead' = dead \cup {owner[s]}
  /\ UNCHANGED <<ctx, cpu, curr_proc, create, owner, last, halted>>

\* The stores of pc_create, in their order.
InCreate(at) == halted = "no" /\ cpu.epc = Shell /\ create.at = at

WriteEpc ==
  /\ InCreate("epc")
  /\ ctx' = [ctx EXCEPT ![create.slot].epc = create.proc]
  /\ create' = [create EXCEPT !.at = "sp"]
  /\ UNCHANGED <<ASID, cpu, curr_proc, owner, dead, last, halted>>

WriteSp ==
  /\ InCreate("sp")
  /\ ctx' = [ctx EXCEPT ![create.slot].sp = create.proc]
  /\ create' = [create EXCEPT !.at = "ASID"]
  /\ UNCHANGED <<ASID, cpu, curr_proc, owner, dead, last, halted>>

WriteASID ==
  /\ InCreate("ASID")
  /\ ASID' = [ASID EXCEPT ![create.slot] = create.slot]
  /\ owner' = [owner EXCEPT ![create.slot] = create.proc]
  /\ create' = NoCreate
  /\ UNCHANGED <<ctx, cpu, curr_proc, dead, last, halted>>

Next ==
  \/ Tick
  \/ Exit
  \/ Fault
  \/ CommandProc
  \/ CommandTime
  \/ \E s \in Slots : CommandKill(s)
  \/ WriteEpc
  \/ WriteSp
  \/ WriteASID

Spec == Init /\ [][Next]_vars

\* The timer is programmed again at the end of every tick, so that ticks come
\* as long as interrupts are not masked for ever.
FairSpec == Spec /\ WF_vars(Tick)

----------------------------------------------------------------------------
TypeOK ==
  /\ ASID \in [Slots -> -1 .. N - 1]
  /\ ctx \in [Slots -> [epc : Procs, sp : Procs]]
  /\ cpu \in [epc : Procs, sp : Procs]
  /\ curr_proc \in Slots
  /\ create \in [at : {"none", "epc", "sp", "ASID"}, slot : Slots, proc : Procs]
  /\ owner \in [Slots -> Procs]
  /\ dead \subseteq Procs
  /\ last \in Procs
  /\ halted \in {"no", "exception", "PCB[0] is invalid"}

\* The error branch of pc_schedule is dead code: whatever is killed, by
\* whatever of the three ways, the search finds a process.
SchedulerFindsProcess == halted # "PCB[0] is invalid"

\* The registers of a process are its own: what pc_schedule will load for a
\* slot in use, or what runs in it now, is one whole context, that of the
\* process created there.  Left out are slot 2, where the time command, which
\* does not ask whether it is in use, may be given, and the slot of a shell
\* that was killed: NoResurrection says what may run there.
Unkept ==
  (IF "time" \in Commands THEN {2} ELSE {}) \cup (IF Shell \in dead THEN {Shell} ELSE {})

ContextsIntact ==
  \A s \in AliveSlots \ Unkept :
    IF s = curr_proc THEN cpu = Context(owner[s]) ELSE ctx[s] = Context(owner[s])

\* A process that was killed never gets the processor again, by command, system
\* call or exception, but for one: a shell that kills itself by the command
\* keeps running until the next tick, and when it creates a process meanwhile,
\* in its own slot, that tick saves the shell over it.  It comes back in the
\* place of a process that lives.
NoResurrection ==
  [][curr_proc' # curr_proc /\ cpu'.epc \in dead'
     => cpu'.epc = Shell /\ owner'[curr_proc'] \notin dead' \cup {Shell}]_vars

\* Round robin: a process keeps getting the processor as long as it lives and
\* no exception stops the kernel.
EverySlotRuns ==
  \A s \in Slots : Alive(s) ~> (curr_proc = s \/ ~Alive(s) \/ halted # "no")
=============================================================================
