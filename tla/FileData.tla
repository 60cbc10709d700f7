------------------------------ MODULE FileData ------------------------------
(***************************************************************************)
(* A file: fs_open, fs_read, fs_write, fs_lseek and fs_close               *)
(* (kernel/fs/fat/fat.c) over the file's cluster buffers (fs_read_4k,      *)
(* fs_victim_4k and fs_write_4k, kernel/fs/fscache/fscache.c), with the    *)
(* transactions that fs_write opens for the clusters it changes.           *)
(*                                                                         *)
(* The file has a cluster already.  Where fs_write needs one more it calls *)
(* fs_alloc, which has two ends.  It fails when it finds no cluster, and   *)
(* fs_write returns 0xFFFFFFFF with its transaction left on the running    *)
(* list; or it erases the new cluster by a write of several sectors, and   *)
(* there sd_write_block loops for ever when all is written (sd.c:137), as  *)
(* it does in a write of a cluster buffer.  `halted' tells the endless     *)
(* loops apart; what a call did on its way into one is left out, but for   *)
(* what reached the card.                                                  *)
(*                                                                         *)
(* One turn of the loops of fs_read and fs_write is one step.  Clusters    *)
(* are numbered in the order of the file's chain.  All bytes are different:*)
(* <<0, k>> is byte k of the file as it was found, <<t, k>> byte k of the  *)
(* turn that opened transaction t - 1.  Transactions are numbered as they  *)
(* are allocated: t_tid, which transaction3 takes from another counter     *)
(* than the others (j_commit_sequence, line 1263), is not kept.            *)
(***************************************************************************)
EXTENDS Clock, FiniteSets, Sequences

CONSTANTS
  Clusters,   \* the clusters the file has
  CSize,      \* the bytes of a cluster
  None,       \* NULL, and the cur of an empty buffer
  MaxCount,   \* bound: the bytes one call asks for
  MaxTrans    \* bound: the transactions that are opened

ASSUME ClustersAssumption == Clusters \in Nat /\ Clusters > 0
ASSUME CSizeAssumption == CSize \in Nat /\ CSize > 0
ASSUME MaxCountAssumption == MaxCount \in Nat
ASSUME MaxTransAssumption == MaxTrans \in Nat
ASSUME NoneAssumption == None \notin Int

Cluster == 0 .. Clusters - 1
Offsets == 0 .. CSize - 1
Bytes   == 0 .. Clusters * CSize - 1
Trans   == 0 .. MaxTrans - 1
\* What the erasing writes: no byte of the file as it was found.
Erased  == <<0, Clusters * CSize>>

VARIABLES
  opened,        \* whether the shell has the file open
  cur, state, data,   \* data_buf[i].cur, .state, .buf
  h_signal_bit,  \* data_buf[i].h_signal_bit: 0 and 1 for STATE_ZERO and STATE_ONE
  handle,        \* data_buf[i].handle: the number of the transaction2 of the same turn
  b_page, b_blocknr,  \* what the buffer head of that handle6 says, by the same number
  clock_head,
  size, loc,     \* file->entry.attr.size, file->loc
  card,          \* the clusters on the card
  card_size,     \* the size in the directory entry on the card
  transactions,  \* how many there have been
  committed,     \* the transactions with t_state = T_COMMIT
  t_tnext, t_tprev,
  j_running_transaction, j_committing_transaction,
  j_commit_transaction_count,
  call,          \* the call in progress, with its local variables
  got,           \* the bytes fs_read has read, until the next call
  content,       \* what was written to the file, or found in it
  halted         \* the endless loops: "no", or which

bufs    == <<cur, state, data, h_signal_bit, handle, b_page, b_blocknr, clock_head>>
lists   == <<t_tnext, t_tprev, j_running_transaction, j_committing_transaction>>
journal == <<transactions, committed, lists, j_commit_transaction_count>>
disk    == <<card, card_size>>
vars == <<opened, bufs, size, loc, disk, journal, call, got, content, halted>>

NoCall == [op |-> "none", clus |-> 0, byte |-> 0, cc |-> 0, count |-> 0]

\* The position in the file of byte o of cluster c.
At(c, o) == c * CSize + o

Init ==
  /\ opened = FALSE
  /\ cur = [i \in Bufs |-> None]
  /\ state = [i \in Bufs |-> [ref |-> FALSE, dirty |-> FALSE]]
  /\ card = [c \in Cluster |-> [o \in Offsets |-> <<0, At(c, o)>>]]
  /\ data = [i \in Bufs |-> card[0]]
  /\ h_signal_bit = [i \in Bufs |-> 0]
  /\ handle = [i \in Bufs |-> None]
  /\ b_page = [t \in Trans |-> None]
  /\ b_blocknr = [t \in Trans |-> None]
  /\ clock_head = 0
  /\ size \in At(Clusters - 1, 1) .. At(Clusters, 0)
  /\ loc = 0
  /\ card_size = size
  /\ transactions = 0
  /\ committed = {}
  /\ t_tnext = [t \in Trans |-> None]
  /\ t_tprev = [t \in Trans |-> None]
  /\ j_running_transaction = None
  /\ j_committing_transaction = None
  /\ j_commit_transaction_count = 0
  /\ call = NoCall
  /\ got = <<>>
  /\ content = [b \in Bytes |-> <<0, b>>]
  /\ halted = "no"

Idling == halted = "no" /\ opened /\ call.op = "none"
InLoop(op) == halted = "no" /\ call.op = op

----------------------------------------------------------------------------
\* fs_open: the buffers are empty and the size is that of the directory entry.
fs_open ==
  /\ halted = "no"
  /\ ~opened
  /\ opened' = TRUE
  /\ cur' = [i \in Bufs |-> None]
  /\ state' = [i \in Bufs |-> [ref |-> FALSE, dirty |-> FALSE]]
  /\ h_signal_bit' = [i \in Bufs |-> 0]
  /\ handle' = [i \in Bufs |-> None]
  /\ clock_head' = 0
  /\ size' = card_size
  /\ loc' = 0
  /\ UNCHANGED <<data, b_page, b_blocknr, disk, journal, call, got, content, halted>>

\* fs_lseek does not go beyond the end.
fs_lseek(new) ==
  /\ Idling
  /\ loc' = IF new < size THEN new ELSE size
  /\ got' = <<>>
  /\ UNCHANGED <<opened, bufs, size, disk, journal, call, content, halted>>

----------------------------------------------------------------------------
Buffered(c) == \E b \in Bufs : cur[b] = c

\* What the sweeps may leave of the states when the hand moves d buffers on.
Sweeps(d) == {Swept(state, clock_head, d), Swept(state, clock_head, NBuf)}

\* fs_victim_4k takes buffer i for cluster c, d buffers ahead of the hand.
Chosen(c, i, d, swept) ==
  /\ ~Buffered(c)
  /\ i = Ahead(clock_head, d)
  /\ Victim(state, clock_head, d, swept)

\* fs_read_4k: cluster c is in buffer i, or read into it; then the caller
\* marks the buffer, or not.  What is found there is Found(c, i).
Fetch(c, i, mark) ==
  \/ /\ cur[i] = c
     /\ state' = [state EXCEPT ![i] = [ref |-> TRUE, dirty |-> mark \/ @.dirty]]
     /\ UNCHANGED <<cur, clock_head>>
  \/ \E d \in Bufs : \E swept \in Sweeps(d) :
       /\ Chosen(c, i, d, swept)
       /\ h_signal_bit[i] = 0
       /\ ~state[i].dirty
       /\ cur' = [cur EXCEPT ![i] = c]
       /\ state' = [swept EXCEPT ![i] = [ref |-> TRUE, dirty |-> mark]]
       /\ clock_head' = Ahead(i, 1)

\* Variant: a cluster is not read in.
FoundUnread(c, i) == data[i]

Found(c, i) == IF cur[i] = c THEN data[i] ELSE card[c]

\* fs_victim_4k without a handle, as fs_read_4k calls it, loops for ever when a
\* transaction has the buffer; else fs_write_4k does.
StuckOnVictim ==
  /\ halted = "no"
  /\ call.op \in {"read", "write"}
  /\ call.clus < Clusters
  /\ \E i, d \in Bufs : \E swept \in Sweeps(d) :
       /\ Chosen(call.clus, i, d, swept)
       /\ h_signal_bit[i] = 1 \/ state[i].dirty
       /\ halted' = IF h_signal_bit[i] = 1 THEN "STATE ONE in fs_victim_4k" ELSE "sd_write_block"
  /\ UNCHANGED <<opened, bufs, size, loc, disk, journal, call, got, content>>

----------------------------------------------------------------------------
\* The last cluster of the call in progress, and the last byte of this turn.
LastClus == (loc + call.count - 1) \div CSize
LastByte == IF call.clus = LastClus THEN (loc + call.count - 1) % CSize ELSE CSize - 1

Enter(op, count) ==
  call' = [op |-> op, clus |-> loc \div CSize, byte |-> loc % CSize, cc |-> 0, count |-> count]

\* Variant: start_byte is not reset.
NextTurnKeepsByte ==
  call' = [call EXCEPT !.clus = @ + 1, !.cc = @ + LastByte - call.byte + 1]

\* The turn of the loop is over: the next cluster, from its first byte.
NextTurn ==
  call' = [call EXCEPT !.clus = @ + 1, !.byte = 0, !.cc = @ + LastByte - call.byte + 1]

\* fs_read does not read beyond the end, and there reads nothing.
fs_read(count) ==
  /\ Idling
  /\ loc < size
  /\ Enter("read", IF loc + count > size THEN size - loc ELSE count)
  /\ got' = <<>>
  /\ UNCHANGED <<opened, bufs, size, loc, disk, journal, content, halted>>

ReadCluster ==
  /\ InLoop("read")
  /\ \E i \in Bufs :
       /\ Fetch(call.clus, i, FALSE)
       /\ data' = [data EXCEPT ![i] = Found(call.clus, i)]
       /\ got' = got \o [k \in 1 .. LastByte - call.byte + 1 |->
                           Found(call.clus, i)[call.byte + k - 1]]
  /\ \/ /\ call.clus = LastClus
        /\ loc' = loc + call.count
        /\ call' = NoCall
     \/ /\ call.clus < LastClus
        /\ NextTurn
        /\ UNCHANGED loc
  /\ UNCHANGED <<opened, h_signal_bit, handle, b_page, b_blocknr, size, disk, journal,
                 content, halted>>

----------------------------------------------------------------------------
fs_write(count) ==
  /\ Idling
  /\ Enter("write", count)
  /\ got' = <<>>
  /\ UNCHANGED <<opened, bufs, size, loc, disk, journal, content, halted>>

\* A transaction wants a buffer that is in a transaction already.
StuckOnTransaction ==
  /\ InLoop("write")
  /\ \E i \in Bufs : cur[i] = call.clus /\ h_signal_bit[i] = 1
  /\ halted' = "STATE ONE in fs_write"
  /\ UNCHANGED <<opened, bufs, size, loc, disk, journal, call, got, content>>

\* Variant: the new transaction is not linked to the old head.
BeginUnlinked(t, back) ==
  /\ transactions' = t + 1
  /\ j_running_transaction' = t
  /\ t_tprev' = [u \in Trans |-> IF u = j_running_transaction THEN back
                                 ELSE IF u = t THEN None ELSE t_tprev[u]]
  /\ UNCHANGED <<t_tnext, committed, j_commit_transaction_count, j_committing_transaction>>

\* A transaction is linked into the running list, at its head; the t_tprev of the
\* old head becomes `back'.
Begin(t, back) ==
  /\ transactions' = t + 1
  /\ j_running_transaction' = t
  /\ t_tnext' = [t_tnext EXCEPT ![t] = j_running_transaction]
  /\ t_tprev' = [u \in Trans |-> IF u = j_running_transaction THEN back
                                 ELSE IF u = t THEN None ELSE t_tprev[u]]
  /\ UNCHANGED <<committed, j_commit_transaction_count, j_committing_transaction>>

\* transaction2 is linked there and, as the head, taken off again, to be linked to
\* the head of the committing list, which stays the head.
BeginAndCommit(t) ==
  LET head == j_committing_transaction
      run  == j_running_transaction
  IN  /\ transactions' = t + 1
      /\ committed' = committed \cup {t}
      /\ j_commit_transaction_count' = j_commit_transaction_count + 1
      /\ j_committing_transaction' = IF head = None THEN t ELSE head
      /\ t_tnext' = [t_tnext EXCEPT ![t] = head]
      /\ t_tprev' = [u \in Trans |-> IF u = head THEN t
                                     ELSE IF u \in {t, run} THEN None ELSE t_tprev[u]]
      /\ UNCHANGED j_running_transaction

\* The chain ends before the call does, and fs_alloc fails.  The transaction stays
\* on the running list: transaction1 if the call has not written yet, which links the
\* old head back to itself (line 876), or transaction3.  The bytes written stay in the
\* buffers; neither the size nor loc moves.
AllocFails ==
  /\ InLoop("write")
  /\ call.clus = Clusters
  /\ transactions < MaxTrans
  /\ Begin(transactions, IF call.cc = 0 THEN j_running_transaction ELSE transactions)
  /\ call' = NoCall
  /\ UNCHANGED <<opened, bufs, size, loc, disk, got, content, halted>>

\* Or fs_alloc hangs, in the table or in erasing the new cluster.  It erases sectors
\* without the start of the partition (fat.c:717): they may be of any clusters.
AllocHangs ==
  /\ InLoop("write")
  /\ call.clus = Clusters
  /\ \E erased \in SUBSET (Cluster \X Offsets) :
       card' = [c \in Cluster |-> [o \in Offsets |->
                  IF <<c, o>> \in erased THEN Erased ELSE card[c][o]]]
  /\ halted' = "fs_alloc"
  /\ UNCHANGED <<opened, bufs, size, loc, card_size, journal, call, got, content>>

\* Variant: the handle is not stored.
BindSignalOnly(i, c, t) ==
  /\ h_signal_bit' = [h_signal_bit EXCEPT ![i] = 1]
  /\ b_page' = [b_page EXCEPT ![t] = i]
  /\ b_blocknr' = [b_blocknr EXCEPT ![t] = c]
  /\ UNCHANGED handle

\* Buffer i, whose bit is STATE_ZERO and which has cluster c, gets the handle of this
\* turn, and the buffer head of that the buffer.  Neither handle nor transaction is told
\* of the other: h_transaction and t_buffers of these two are never set.
Bind(i, c, t) ==
  /\ h_signal_bit' = [h_signal_bit EXCEPT ![i] = 1]
  /\ handle' = [handle EXCEPT ![i] = t]
  /\ b_page' = [b_page EXCEPT ![t] = i]
  /\ b_blocknr' = [b_blocknr EXCEPT ![t] = c]

\* fs_write_end: the file has grown, or not.
FinishWrite ==
  /\ size' = IF loc + call.count > size THEN loc + call.count ELSE size
  /\ loc' = loc + call.count
  /\ call' = NoCall

\* One turn of fs_write's loop.  The transaction of the last cluster is left
\* on the running list: `goto fs_write_end' jumps over its commit.
WriteCluster ==
  /\ InLoop("write")
  /\ call.clus < Clusters
  /\ transactions < MaxTrans
  /\ LET t == transactions
         new == [o \in call.byte .. LastByte |-> <<t + 1, call.cc + o - call.byte>>]
     IN
     /\ \E i \in Bufs :
          /\ Fetch(call.clus, i, TRUE)
          /\ h_signal_bit[i] = 0
          /\ Bind(i, call.clus, t)
          /\ data' = [data EXCEPT ![i] = [o \in Offsets |->
                        IF o \in DOMAIN new THEN new[o] ELSE Found(call.clus, i)[o]]]
     /\ content' = [b \in Bytes |->
          IF b - loc \in call.cc .. call.cc + LastByte - call.byte
          THEN <<t + 1, b - loc>> ELSE content[b]]
     /\ \/ /\ call.clus = LastClus
           /\ Begin(t, t)
           /\ FinishWrite
        \/ /\ call.clus < LastClus
           /\ BeginAndCommit(t)
           /\ NextTurn
           /\ UNCHANGED <<size, loc>>
  /\ UNCHANGED <<opened, disk, got, halted>>

----------------------------------------------------------------------------
\* fs_close writes the directory entry and flushes it, and writes the buffers
\* that are dirty: it does not come back from the first of them.
StuckInClose ==
  /\ Idling
  /\ \E i \in Bufs :
       /\ state[i].dirty
       /\ \A b \in 0 .. i - 1 : ~state[b].dirty
       /\ card' = [card EXCEPT ![cur[i]] = data[i]]
  /\ card_size' = size
  /\ halted' = "fs_close"
  /\ UNCHANGED <<opened, bufs, size, loc, journal, call, got, content>>

fs_close ==
  /\ Idling
  /\ \A i \in Bufs : ~state[i].dirty
  /\ opened' = FALSE
  /\ card_size' = size
  /\ got' = <<>>
  /\ UNCHANGED <<bufs, size, loc, card, journal, call, content, halted>>

Next ==
  \/ fs_open
  \/ \E new \in 0 .. At(Clusters, 0) : fs_lseek(new)
  \/ \E count \in 1 .. MaxCount : fs_read(count) \/ fs_write(count)
  \/ ReadCluster
  \/ WriteCluster
  \/ StuckOnVictim
  \/ AllocFails
  \/ AllocHangs
  \/ StuckOnTransaction
  \/ StuckInClose
  \/ fs_close

Spec == Init /\ [][Next]_vars

----------------------------------------------------------------------------
\* What the variables hold: the types on which the proofs of the properties below
\* rest (FileDataProofs).
Contents == [Offsets -> Nat \X Nat]

TypeOK ==
  /\ opened \in BOOLEAN
  /\ cur \in [Bufs -> Cluster \cup {None}]
  /\ state \in [Bufs -> States]
  /\ data \in [Bufs -> Contents]
  /\ h_signal_bit \in [Bufs -> 0 .. 1]
  /\ handle \in [Bufs -> Trans \cup {None}]
  /\ b_page \in [Trans -> Bufs \cup {None}]
  /\ b_blocknr \in [Trans -> Cluster \cup {None}]
  /\ clock_head \in Bufs
  /\ size \in 0 .. At(Clusters, 0)
  /\ card_size \in 0 .. At(Clusters, 0)
  /\ loc \in Nat
  /\ card \in [Cluster -> Contents]
  /\ content \in [Bytes -> Nat \X Nat]
  /\ transactions \in 0 .. MaxTrans
  /\ committed \subseteq Trans
  /\ t_tnext \in [Trans -> Trans \cup {None}]
  /\ t_tprev \in [Trans -> Trans \cup {None}]
  /\ j_running_transaction \in Trans \cup {None}
  /\ j_committing_transaction \in Trans \cup {None}
  /\ j_commit_transaction_count \in Nat
  /\ call \in [op : {"none", "read", "write"}, clus : 0 .. Clusters, byte : Offsets,
               cc : Nat, count : Nat]
  /\ got \in Seq(Nat \X Nat)

\* No byte that was written is lost, and none that was found in the file: it
\* is in every buffer that has its cluster, and on the card if a buffer that
\* has it might be dropped, or none has it.  Only fs_alloc may erase some.
NoByteLost ==
  halted # "fs_alloc" => \A c \in Cluster, o \in Offsets :
    LET here == {i \in Bufs : cur[i] = c}
    IN  /\ \A i \in here : data[i][o] = content[At(c, o)]
        /\ (\A i \in here : ~state[i].dirty) => card[c][o] = content[At(c, o)]

\* fs_read returns the bytes between the two values of loc, those last written
\* there, however they are spread over clusters, buffers and the card.
ReadsBack ==
  [][call.op = "read" /\ call'.op = "none" =>
       /\ Len(got') = loc' - loc
       /\ \A k \in 1 .. Len(got') : got'[k] = content[loc + k - 1]]_vars

\* What is not on the card is in the hands of the journal: a buffer that is dirty is
\* in STATE_ONE and has a handle, and the buffer head of that handle still tells the
\* truth, that this is the buffer and which cluster it has; no handle is left over
\* whose buffer was given to a later one.
HandlesAgree ==
  /\ \A i \in Bufs :
       /\ state[i].dirty <=> h_signal_bit[i] = 1
       /\ h_signal_bit[i] = 1 <=> handle[i] # None
       /\ handle[i] # None => b_page[handle[i]] = i /\ b_blocknr[handle[i]] = cur[i]
  /\ \A t \in Trans : b_page[t] # None => handle[b_page[t]] = t

\* Along t_tnext the running list has each transaction that was not committed once, the
\* newest first, those of failed calls among them, and the counter counts the others.
\* t_tprev goes back, except where line 876 has made it point to the transaction itself.
Running == (0 .. transactions - 1) \ committed
Older(t, set) == {u \in set : u < t}
IsNewest(t, set) ==
  IF set = {} THEN t = None ELSE t \in set /\ \A u \in set : u <= t

RunningList ==
  /\ IsNewest(j_running_transaction, Running)
  /\ \A t \in Running :
       /\ IsNewest(t_tnext[t], Older(t, Running))
       /\ IF t = j_running_transaction THEN t_tprev[t] = None
          ELSE t_tprev[t] = t \/ (t_tprev[t] \in Running /\ t_tnext[t_tprev[t]] = t)
  /\ j_commit_transaction_count = Cardinality(committed)

\* The committed transactions are in a queue, the newest at its head, as the comments
\* of fat.c:1184 and commit.c:55 have it.  (The second one to be committed is linked to
\* the head and never becomes the head.)
CommitQueueInOrder ==
  /\ IsNewest(j_committing_transaction, committed)
  /\ \A t \in committed : IsNewest(t_tnext[t], Older(t, committed))

\* fs_write finds its cluster in a buffer in STATE_ZERO or STATE_FOUR only, as the
\* comment of fat.c:1047 has it.  (A cluster that is written twice is in STATE_ONE.)
ZeroOrFourOnly ==
  InLoop("write") => \A i \in Bufs : cur[i] = call.clus => h_signal_bit[i] \in {0, 4}
=============================================================================
