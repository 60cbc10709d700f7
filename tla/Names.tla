------------------------------- MODULE Names -------------------------------
(***************************************************************************)
(* What a tree of directories promises: a name appears when it is created, *)
(* once, goes when it is removed (a directory with all that is in it), and *)
(* nothing else changes.  What was changed is on the card some time later, *)
(* and a stop of the machine takes the tree back to what is on the card.   *)
(* Directories are known by their first cluster.                           *)
(***************************************************************************)
CONSTANT Directories

VARIABLES
  tree,    \* tree[d]: the entries of directory d, as the callers see them
  stored   \* the same on the card

Create(d) ==
  \E e \in tree'[d] \ tree[d] :
    /\ \A f \in tree[d] : f.name # e.name
    /\ tree' = [tree EXCEPT ![d] = @ \cup {e}]
    /\ UNCHANGED stored

Remove(d) ==
  \E e \in tree[d] \ tree'[d] :
    /\ tree' = [c \in Directories |->
         IF c = d THEN tree[d] \ {e} ELSE IF e.dir /\ c = e.clus THEN {} ELSE tree[c]]
    /\ UNCHANGED stored

Persist == stored' = tree /\ UNCHANGED tree

Crash == tree' = stored /\ UNCHANGED stored

Init == stored = tree

Next ==
  \/ \E d \in Directories : Create(d) \/ Remove(d)
  \/ Persist
  \/ Crash

Spec == Init /\ [][Next]_<<tree, stored>>
=============================================================================
