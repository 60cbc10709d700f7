------------------------------ MODULE FatTable ------------------------------
(***************************************************************************)
(* What the buffers of the file allocation table promise their callers: a  *)
(* sector reads as it was last modified.  What was modified gets onto the  *)
(* card some time later, sector by sector, and a stop of the machine takes *)
(* the table back to what is on the card.                                  *)
(***************************************************************************)
CONSTANTS Sectors, Values, Blank

VARIABLES
  view,     \* the table as the callers see it
  stable,   \* the table on the card
  got       \* what was read last

Init ==
  /\ view = [s \in Sectors |-> Blank]
  /\ stable = view
  /\ got = Blank

Get(s) == got' = view[s] /\ UNCHANGED <<view, stable>>

Modify(s, new) == view' = [view EXCEPT ![s] = new] /\ UNCHANGED <<stable, got>>

Persist(s) == stable' = [stable EXCEPT ![s] = view[s]] /\ UNCHANGED <<view, got>>

Crash == view' = stable /\ got' = Blank /\ UNCHANGED stable

Next ==
  \/ \E s \in Sectors : Get(s) \/ Persist(s)
  \/ \E s \in Sectors, new \in Values : Modify(s, new)
  \/ Crash

Spec == Init /\ [][Next]_<<view, stable, got>>
=============================================================================
