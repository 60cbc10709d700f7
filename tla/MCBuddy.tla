------------------------------- MODULE MCBuddy ------------------------------
(* The buddy allocator with blocks of one to four pages and any callers. *)
EXTENDS BuddyCallers

SizeOf == [k \in Orders |-> 2 ^ k]
=============================================================================
