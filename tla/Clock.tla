------------------------------- MODULE Clock -------------------------------
(***************************************************************************)
(* The clock that chooses the buffer to be replaced: fs_victim_512 of      *)
(* kernel/fs/fscache/fscache.c (the sweeps of fs_victim_4k are the same).  *)
(* state[i] is the state word of buffer i, split into its two bits.        *)
(***************************************************************************)
EXTENDS Integers

CONSTANT NBuf   \* the number of buffers: 2 for the FAT, 4 for directories and files

ASSUME NBufAssumption == NBuf \in Nat /\ NBuf > 0

Bufs == 0 .. NBuf - 1

States == [ref : BOOLEAN, dirty : BOOLEAN]

\* The buffer d steps of the hand after buffer h.
Ahead(h, d) == IF h + d >= NBuf THEN h + d - NBuf ELSE h + d

Idle(state, i) == ~state[i].ref /\ ~state[i].dirty

\* The reference bits of the first d buffers from h on are cleared.
Swept(state, h, d) ==
  [i \in Bufs |->
     IF \E e \in 0 .. d - 1 : i = Ahead(h, e)
     THEN [state[i] EXCEPT !.ref = FALSE] ELSE state[i]]

\* Sweep 1 stops at the first buffer neither referenced nor dirty, and clears
\* the reference bits it passes.
SweepOne(state, h, d) ==
  /\ Idle(state, Ahead(h, d))
  /\ \A e \in 0 .. d - 1 : ~Idle(state, Ahead(h, e))

\* Sweep 2 stops at the first clean buffer; when all are dirty the hand is
\* back where it started.
SweepTwo(state, h, d) ==
  /\ \A i \in Bufs : ~Idle(state, i)
  /\ \/ /\ ~state[Ahead(h, d)].dirty
        /\ \A e \in 0 .. d - 1 : state[Ahead(h, e)].dirty
     \/ /\ d = 0
        /\ \A i \in Bufs : state[i].dirty

\* The victim d steps ahead of the hand, the states afterwards `after'.
Victim(state, h, d, after) ==
  \/ SweepOne(state, h, d) /\ after = Swept(state, h, d)
  \/ SweepTwo(state, h, d) /\ after = Swept(state, h, NBuf)
=============================================================================
