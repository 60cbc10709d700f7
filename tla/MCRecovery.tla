----------------------------- MODULE MCRecovery -----------------------------
(***************************************************************************)
(* Every log of four blocks, of two transactions: descriptor blocks as JBD *)
(* writes them (the first tag with 16 bytes of its own) and with plain     *)
(* tags, commit and revoke blocks, and blocks that are none of these.      *)
(***************************************************************************)
EXTENDS Recovery

Tag(same, last) == [same |-> same, last |-> last]

TagLists == {
  <<Tag(TRUE, TRUE), Tag(TRUE, TRUE), Tag(TRUE, TRUE)>>,
  <<Tag(TRUE, FALSE), Tag(FALSE, TRUE), Tag(TRUE, TRUE)>>,
  <<Tag(FALSE, FALSE), Tag(TRUE, TRUE), Tag(TRUE, TRUE)>>}

Plain(type, s) == [type |-> type, seq |-> s, tags |-> <<>>, records |-> 0]

BlocksOf(s) ==
  {[Plain("descriptor", s) EXCEPT !.tags = t] : t \in TagLists}
  \cup {Plain("commit", s), [Plain("revoke", s) EXCEPT !.records = 1]}

AllBlocks == BlocksOf(2) \cup BlocksOf(3) \cup {Plain("data", 0), Plain("revoke", 2)}

Found(valid, start) == [valid |-> valid, s_sequence |-> 2, s_start |-> start]

\* The walk begins at the third block and wraps.
AllCards ==
  {[superblock |-> Found(TRUE, 3), log |-> l] : l \in [Ring -> AllBlocks]}
  \cup {[superblock |-> Found(v, 0), log |-> [b \in Ring |-> Plain("data", 0)]] : v \in BOOLEAN}
=============================================================================
