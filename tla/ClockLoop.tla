------------------------------ MODULE ClockLoop ------------------------------
(***************************************************************************)
(* The two loops of fs_victim_512 and fs_victim_4k, one iteration a step,  *)
(* to show that module Clock says what they compute.  The buffers and the  *)
(* hand start in any state.                                                *)
(***************************************************************************)
EXTENDS Clock

VARIABLES
  bits,        \* buf[i].state
  clock_head,   \* *clock_head
  turn,            \* the loop variable
  index,        \* the result
  pc,           \* "sweep 1", "sweep 2", "ok" (label fs_victim_512_ok) or "done"
  bits0,       \* the states and the hand at the call
  head0

loops == <<bits, clock_head, turn, index, pc, bits0, head0>>

LoopsInit ==
  /\ bits \in [Bufs -> States]
  /\ clock_head \in Bufs
  /\ turn = 0
  /\ index = clock_head
  /\ pc = "sweep 1"
  /\ bits0 = bits
  /\ head0 = clock_head

\* if ((++(*clock_head)) >= size) *clock_head = 0;
Advance == clock_head' = IF clock_head + 1 >= NBuf THEN 0 ELSE clock_head + 1

\* The buffer under the hand is the victim.
Take ==
  /\ index' = clock_head
  /\ pc' = "ok"
  /\ UNCHANGED <<bits, clock_head, turn>>

\* Variant: i is not incremented.
PassUncounted(then) ==
  /\ Advance
  /\ UNCHANGED <<turn, pc, index>>

\* The hand passes the buffer.
Pass(then) ==
  /\ Advance
  /\ turn' = IF turn + 1 = NBuf THEN 0 ELSE turn + 1
  /\ pc' = IF turn + 1 = NBuf THEN then ELSE pc
  /\ index' = IF pc = "sweep 2" /\ turn + 1 = NBuf THEN clock_head' ELSE index

SweepOneStep ==
  /\ pc = "sweep 1"
  /\ \/ /\ ~bits[clock_head].ref
        /\ ~bits[clock_head].dirty
        /\ Take
     \/ /\ ~bits[clock_head].ref
        /\ bits[clock_head].dirty
        /\ Pass("sweep 2")
        /\ UNCHANGED bits
     \/ /\ bits[clock_head].ref
        /\ bits' = [bits EXCEPT ![clock_head].ref = FALSE]
        /\ Pass("sweep 2")
  /\ UNCHANGED <<bits0, head0>>

SweepTwoStep ==
  /\ pc = "sweep 2"
  /\ \/ ~bits[clock_head].dirty /\ Take
     \/ bits[clock_head].dirty /\ Pass("ok") /\ UNCHANGED bits
  /\ UNCHANGED <<bits0, head0>>

\* Variant: the hand stays on the victim.
ReturnWithoutAdvance ==
  /\ pc = "ok"
  /\ pc' = "done"
  /\ UNCHANGED <<bits, clock_head, turn, index, bits0, head0>>

Return ==
  /\ pc = "ok"
  /\ Advance
  /\ pc' = "done"
  /\ UNCHANGED <<bits, turn, index, bits0, head0>>

LoopsNext == SweepOneStep \/ SweepTwoStep \/ Return

LoopsSpec == LoopsInit /\ [][LoopsNext]_loops /\ WF_loops(LoopsNext)

----------------------------------------------------------------------------
\* The loops return the one victim that Victim allows, with the states it
\* says and the hand behind it, whatever state they are called in.
LoopsFindVictim ==
  pc = "done" =>
    /\ \A d \in Bufs : Victim(bits0, head0, d, bits) <=> index = Ahead(head0, d)
    /\ clock_head = Ahead(index, 1)

\* The victim is always found.
LoopsEnd == <>(pc = "done")
=============================================================================
