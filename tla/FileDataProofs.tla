--------------------------- MODULE FileDataProofs ---------------------------
(***************************************************************************)
(* No byte of a file is lost between its buffers and the card, what is not *)
(* on the card has a handle that knows it, and the running list is whole:  *)
(* proofs for any number and size of clusters, any number of buffers and   *)
(* any number of transactions.                                             *)
(***************************************************************************)
EXTENDS FileData, FiniteSetTheorems, SequenceTheorems, TLAPS

\* NoByteLost as long as fs_alloc has erased nothing, without the set of the buffers
\* that have the cluster.
Held ==
  \A c \in Cluster, o \in Offsets :
    /\ \A i \in Bufs : cur[i] = c => data[i][o] = content[At(c, o)]
    /\ (\A i \in Bufs : cur[i] = c => ~state[i].dirty) => card[c][o] = content[At(c, o)]

\* A cluster is in one buffer at most.
OneBufferPerCluster ==
  \A i, j \in Bufs : cur[i] = cur[j] /\ cur[i] # None => i = j

\* The turn of the loop begins where the last one ended.
CallOK ==
  call.op # "none" =>
    /\ call.cc < call.count
    /\ At(call.clus, call.byte) = loc + call.cc
    /\ call.op = "read" => loc + call.count <= size

LocOK == loc <= size

\* fs_close only comes back when no buffer is dirty.
ClosedIsClean == ~opened => call.op = "none" /\ \A i \in Bufs : ~state[i].dirty

\* HandlesAgree; the transactions that were not opened yet have no handle, and a
\* buffer with one has a cluster.
Bound ==
  /\ HandlesAgree
  /\ \A i \in Bufs : handle[i] # None => handle[i] < transactions /\ cur[i] # None

\* RunningList, among the transactions there have been.
Linked ==
  /\ committed \subseteq 0 .. transactions - 1
  /\ RunningList
  /\ j_committing_transaction # None => j_committing_transaction \in committed

\* What fs_read has read so far.
ReadSoFar ==
  call.op = "read" =>
    /\ Len(got) = call.cc
    /\ \A k \in 1 .. call.cc : got[k] = content[loc + k - 1]

IInv ==
  /\ TypeOK
  /\ OneBufferPerCluster
  /\ CallOK
  /\ LocOK
  /\ ClosedIsClean
  /\ halted # "fs_alloc" => Held
  /\ Bound
  /\ Linked
  /\ ReadSoFar

----------------------------------------------------------------------------
(* Positions in the file *)

LEMMA ScaleLeq ==
  ASSUME NEW a \in Int, NEW b \in Int, NEW s \in Nat, a <= b
  PROVE  a * s <= b * s
<1>1. (b - a) * s >= 0
  OBVIOUS
<1>2. (b - a) * s = b * s - a * s
  OBVIOUS
<1> QED BY <1>1, <1>2

\* The clusters of the file follow each other.
LEMMA AtFacts ==
  ASSUME NEW c \in Nat
  PROVE  /\ At(c, 0) \in Nat
         /\ At(c + 1, 0) = At(c, 0) + CSize
         /\ \A o \in Int : At(c, o) = At(c, 0) + o
<1>1. PICK a \in Nat : a = c * CSize
  BY CSizeAssumption
<1>2. (c + 1) * CSize = a + CSize
  BY <1>1, CSizeAssumption
<1> QED BY <1>1, <1>2, CSizeAssumption DEF At

LEMMA AtMonotonic ==
  ASSUME NEW c \in Nat, NEW d \in Nat, c <= d
  PROVE  At(c, 0) <= At(d, 0)
<1>1. c * CSize <= d * CSize
  BY CSizeAssumption, ScaleLeq
<1>2. PICK a \in Nat, b \in Nat : a = c * CSize /\ b = d * CSize
  BY CSizeAssumption
<1> QED BY <1>1, <1>2 DEF At

\* Positions are ordered like their clusters.
LEMMA AtOrder ==
  ASSUME NEW c \in Nat, NEW d \in Nat, NEW o \in Offsets, NEW p \in Offsets,
         At(c, o) <= At(d, p)
  PROVE  c <= d /\ (c = d => o <= p)
<1>1. o \in Nat /\ p \in Nat /\ o < CSize /\ p < CSize /\ CSize \in Nat
  BY CSizeAssumption DEF Offsets
<1>2. PICK a \in Nat, b \in Nat : a = At(c, 0) /\ b = At(d, 0)
  BY AtFacts
<1>3. a + o <= b + p
  BY <1>1, <1>2, AtFacts
<1>4. ASSUME d + 1 <= c PROVE FALSE
  <2>1. At(d + 1, 0) <= a
    BY <1>2, <1>4, AtMonotonic
  <2>2. At(d + 1, 0) = b + CSize
    BY <1>2, AtFacts
  <2> QED BY <1>1, <1>3, <2>1, <2>2
<1>5. c = d => o <= p
  BY <1>1, <1>2, <1>3
<1> QED BY <1>4, <1>5

LEMMA AtInjective ==
  ASSUME NEW c \in Nat, NEW d \in Nat, NEW o \in Offsets, NEW p \in Offsets,
         At(c, o) = At(d, p)
  PROVE  c = d /\ o = p
<1>1. At(c, o) \in Int /\ At(d, p) \in Int
  <2>1. o \in Int /\ p \in Int
    BY CSizeAssumption DEF Offsets
  <2> QED BY <2>1, AtFacts
<1>2. At(c, o) <= At(d, p) /\ At(d, p) <= At(c, o)
  BY <1>1
<1>3. c <= d /\ d <= c
  BY <1>2, AtOrder
<1>4. c = d
  BY <1>3
<1>5. o <= p /\ p <= o
  BY <1>2, <1>4, AtOrder
<1> QED BY <1>4, <1>5, CSizeAssumption DEF Offsets

\* The cluster and the byte of a position.
LEMMA DivAt ==
  ASSUME NEW x \in Nat
  PROVE  x \div CSize \in Nat /\ x % CSize \in Offsets /\ At(x \div CSize, x % CSize) = x
<1> DEFINE q == x \div CSize
           r == x % CSize
<1>1. q \in Int /\ r \in 0 .. CSize - 1 /\ x = CSize * q + r
  BY CSizeAssumption
<1> HIDE DEF q, r
<1>2. PICK z \in Int : z = q * CSize
  BY <1>1, CSizeAssumption
<1>3. CSize * q = z
  BY <1>1, <1>2, CSizeAssumption
<1>4. x = z + r
  BY <1>1, <1>3
<1>5. ASSUME q <= -1 PROVE FALSE
  <2>1. q * CSize <= (-1) * CSize
    BY <1>1, <1>5, CSizeAssumption, ScaleLeq
  <2>2. z <= -CSize
    BY <1>2, <2>1, CSizeAssumption
  <2> QED BY <1>1, <1>4, <2>2, CSizeAssumption
<1>6. q \in Nat
  BY <1>1, <1>5
<1>7. At(q, r) = x
  BY <1>2, <1>4 DEF At
<1> QED BY <1>1, <1>6, <1>7 DEF q, r, Offsets

LEMMA ClusterFacts ==
  /\ Clusters \in Nat /\ CSize \in Nat /\ CSize >= 1
  /\ \A c \in Cluster : c \in Nat /\ c < Clusters
  /\ \A o \in Offsets : o \in Nat /\ o < CSize
  /\ 0 \in Offsets /\ 0 \in Cluster
  /\ \A c \in Nat : c < Clusters => c \in Cluster
  /\ None \notin Cluster /\ None \notin Nat /\ None \notin Int
BY ClustersAssumption, CSizeAssumption, NoneAssumption DEF Cluster, Offsets

\* The bytes of the file's clusters.
LEMMA AtInBytes ==
  ASSUME NEW c \in Cluster, NEW o \in Offsets
  PROVE  At(c, o) \in Bytes
<1>1. c \in Nat /\ c + 1 <= Clusters /\ o \in Nat /\ o < CSize /\ Clusters \in Nat /\ CSize \in Nat
  BY ClusterFacts
<1>2. PICK a \in Nat, b \in Nat : a = At(c, 0) /\ b = At(Clusters, 0)
  BY <1>1, AtFacts
<1>3. a + CSize <= b
  <2>1. At(c + 1, 0) <= b
    BY <1>1, <1>2, AtMonotonic
  <2> QED BY <1>1, <1>2, <2>1, AtFacts
<1>4. At(c, o) = a + o /\ b = Clusters * CSize
  BY <1>1, <1>2, AtFacts DEF At
<1> QED BY <1>1, <1>2, <1>3, <1>4 DEF Bytes

\* A position before the end of the last cluster is in a cluster.
LEMMA InCluster ==
  ASSUME NEW c \in Nat, NEW o \in Offsets, At(c, o) < At(Clusters, 0)
  PROVE  c \in Cluster
<1>1. PICK a \in Nat, b \in Nat : a = At(c, 0) /\ b = At(Clusters, 0)
  BY ClusterFacts, AtFacts
<1>2. o \in Nat /\ At(c, o) = a + o
  BY <1>1, ClusterFacts, AtFacts
<1>3. ~(Clusters <= c)
  <2> SUFFICES ASSUME Clusters <= c PROVE FALSE
    OBVIOUS
  <2>1. b <= a
    BY <1>1, AtMonotonic, ClusterFacts
  <2> QED BY <1>1, <1>2, <2>1
<1> QED BY <1>3, ClusterFacts

\* One turn of the loops of fs_read and fs_write: bytes call.byte to LastByte of
\* cluster call.clus, the last turn up to the last byte asked for.
LEMMA TurnFacts ==
  ASSUME TypeOK, CallOK, call.op # "none"
  PROVE  /\ call.clus \in Nat /\ call.byte \in Offsets /\ call.byte \in Nat
         /\ call.cc \in Nat /\ call.count \in Nat /\ loc \in Nat
         /\ At(call.clus, call.byte) = loc + call.cc
         /\ LastByte \in Offsets /\ LastByte \in Nat /\ call.byte <= LastByte
         /\ LastClus \in Nat /\ call.clus <= LastClus
         /\ \E r \in Offsets : At(LastClus, r) = loc + call.count - 1
         /\ call.clus = LastClus => call.cc + (LastByte - call.byte + 1) = call.count
         /\ call.clus < LastClus =>
              /\ At(call.clus + 1, 0) = loc + (call.cc + LastByte - call.byte + 1)
              /\ call.cc + LastByte - call.byte + 1 < call.count
<1>1. PICK n, b, k, m : n = call.clus /\ b = call.byte /\ k = call.cc /\ m = call.count
  OBVIOUS
<1>2. /\ n \in Nat /\ b \in Offsets /\ b \in Nat /\ b < CSize /\ k \in Nat /\ m \in Nat /\ loc \in Nat
      /\ k < m /\ At(n, b) = loc + k /\ CSize \in Nat /\ CSize >= 1
  BY <1>1, ClusterFacts DEF TypeOK, CallOK
<1>3. PICK e \in Nat : e = loc + m - 1
  BY <1>2
<1>4. PICK q, r : q = e \div CSize /\ r = e % CSize
  OBVIOUS
<1>5. q \in Nat /\ r \in Offsets /\ r \in Nat /\ r < CSize /\ At(q, r) = e
  BY <1>3, <1>4, DivAt, ClusterFacts
<1>6. LastClus = q /\ LastByte = IF n = q THEN r ELSE CSize - 1
  BY <1>1, <1>3, <1>4 DEF LastClus, LastByte
<1>7. At(n, b) <= At(q, r)
  BY <1>2, <1>3, <1>5
<1>8. n <= q /\ (n = q => b <= r)
  BY <1>2, <1>5, <1>7, AtOrder
<1>9. PICK a \in Nat, z \in Nat : a = At(n, 0) /\ z = At(q, 0)
  BY <1>2, <1>5, AtFacts
<1>10. a + b = loc + k /\ z + r = loc + m - 1 /\ At(n + 1, 0) = a + CSize
  BY <1>2, <1>3, <1>5, <1>9, AtFacts
<1>11. CASE n = q
  <2>1. LastByte = r /\ a = z
    BY <1>6, <1>9, <1>11
  <2>2. k + (r - b + 1) = m
    BY <1>2, <1>5, <1>9, <1>10, <2>1
  <2> QED BY <1>1, <1>2, <1>3, <1>5, <1>6, <1>8, <1>11, <2>1, <2>2
<1>12. CASE n < q
  <2>1. LastByte = CSize - 1
    BY <1>2, <1>5, <1>6, <1>12
  <2>2. a + CSize <= z
    <3>1. At(n + 1, 0) <= z
      BY <1>2, <1>5, <1>9, <1>12, AtMonotonic
    <3> QED BY <1>10, <3>1
  <2>3. At(n + 1, 0) = loc + (k + (CSize - 1) - b + 1)
    BY <1>2, <1>9, <1>10
  <2>4. k + (CSize - 1) - b + 1 < m
    BY <1>2, <1>5, <1>9, <1>10, <2>2
  <2>5. CSize - 1 \in Offsets /\ CSize - 1 \in Nat /\ b <= CSize - 1
    BY <1>2 DEF Offsets
  <2>6. n # q
    BY <1>2, <1>12
  <2> QED BY <1>1, <1>2, <1>3, <1>5, <1>6, <1>12, <2>1, <2>3, <2>4, <2>5, <2>6
<1> QED BY <1>2, <1>5, <1>8, <1>11, <1>12

----------------------------------------------------------------------------
(* Buffers *)

LEMMA AheadInBufs ==
  \A h \in Bufs : \A d \in 0 .. NBuf : Ahead(h, d) \in Bufs
BY NBufAssumption DEF Ahead, Bufs

\* The sweeps clear reference bits and nothing else.
LEMMA SweepsKeepDirty ==
  ASSUME state \in [Bufs -> States], NEW d, NEW swept \in Sweeps(d)
  PROVE  swept \in [Bufs -> States] /\ \A i \in Bufs : swept[i].dirty = state[i].dirty
<1>1. ASSUME NEW n
      PROVE  /\ Swept(state, clock_head, n) \in [Bufs -> States]
             /\ \A i \in Bufs : Swept(state, clock_head, n)[i].dirty = state[i].dirty
  BY DEF Swept, States
<1> QED BY <1>1 DEF Sweeps

\* Fetch, when the cluster is not in a buffer.
ReadsIn(c, i, mark, d, swept) ==
  /\ Chosen(c, i, d, swept)
  /\ h_signal_bit[i] = 0
  /\ ~state[i].dirty
  /\ cur' = [cur EXCEPT ![i] = c]
  /\ state' = [swept EXCEPT ![i] = [ref |-> TRUE, dirty |-> mark]]
  /\ clock_head' = Ahead(i, 1)

\* fs_read_4k: afterwards the cluster is in buffer i, and in no other; a buffer that
\* had another cluster was clean, and in no transaction.
LEMMA FetchFacts ==
  ASSUME TypeOK, OneBufferPerCluster, NEW c \in Cluster, NEW i \in Bufs,
         NEW mark \in BOOLEAN, Fetch(c, i, mark)
  PROVE  /\ cur' = [cur EXCEPT ![i] = c]
         /\ cur'[i] = c
         /\ \A j \in Bufs : j # i => cur'[j] = cur[j] /\ cur[j] # c
         /\ state' \in [Bufs -> States] /\ clock_head' \in Bufs
         /\ \A j \in Bufs : j # i => state'[j].dirty = state[j].dirty
         /\ mark => state'[i].dirty
         /\ ~mark => (state'[i].dirty <=> cur[i] = c /\ state[i].dirty)
         /\ cur[i] # c => ~state[i].dirty /\ h_signal_bit[i] = 0
         /\ cur' \in [Bufs -> Cluster \cup {None}]
         /\ OneBufferPerCluster'
<1>1. /\ cur \in [Bufs -> Cluster \cup {None}] /\ state \in [Bufs -> States] /\ clock_head \in Bufs
      /\ c # None /\ state[i].dirty \in BOOLEAN
  BY ClusterFacts DEF TypeOK, States
<1>2. CASE /\ cur[i] = c
           /\ state' = [state EXCEPT ![i] = [ref |-> TRUE, dirty |-> mark \/ @.dirty]]
           /\ UNCHANGED <<cur, clock_head>>
  <2>1. PICK new : new = [ref |-> TRUE, dirty |-> mark \/ state[i].dirty]
    OBVIOUS
  <2>2. new \in States /\ (mark => new.dirty) /\ (~mark => (new.dirty <=> state[i].dirty))
    BY <1>1, <2>1 DEF States
  <2>3. state' = [state EXCEPT ![i] = new]
    BY <1>2, <2>1
  <2>4. state' \in [Bufs -> States] /\ state'[i] = new /\ \A j \in Bufs : j # i => state'[j] = state[j]
    BY <1>1, <2>2, <2>3
  <2>5. cur' = [cur EXCEPT ![i] = c]
    BY <1>1, <1>2
  <2>6. \A j \in Bufs : j # i => cur'[j] = cur[j] /\ cur[j] # c
    BY <1>1, <1>2 DEF OneBufferPerCluster
  <2>7. OneBufferPerCluster'
    BY <1>2 DEF OneBufferPerCluster
  <2>8. ~mark => (state'[i].dirty <=> cur[i] = c /\ state[i].dirty)
    BY <1>2, <2>2, <2>4
  <2> QED BY <1>1, <1>2, <2>2, <2>4, <2>5, <2>6, <2>7, <2>8
<1>3. ASSUME NEW d \in Bufs, NEW swept \in Sweeps(d), ReadsIn(c, i, mark, d, swept)
      PROVE  /\ state' \in [Bufs -> States] /\ clock_head' \in Bufs
             /\ \A j \in Bufs : j # i => state'[j].dirty = state[j].dirty
             /\ (mark => state'[i].dirty) /\ (~mark => ~state'[i].dirty)
             /\ \A j \in Bufs : cur[j] # c
  <2>0. /\ Chosen(c, i, d, swept) /\ h_signal_bit[i] = 0 /\ ~state[i].dirty
        /\ state' = [swept EXCEPT ![i] = [ref |-> TRUE, dirty |-> mark]]
        /\ clock_head' = Ahead(i, 1)
    BY <1>3 DEF ReadsIn
  <2>1. swept \in [Bufs -> States] /\ \A j \in Bufs : swept[j].dirty = state[j].dirty
    BY <1>1, SweepsKeepDirty
  <2>2. PICK new : new = [ref |-> TRUE, dirty |-> mark]
    OBVIOUS
  <2>3. new \in States /\ (mark => new.dirty) /\ (~mark => ~new.dirty)
    BY <2>2 DEF States
  <2>4. state' = [swept EXCEPT ![i] = new]
    BY <2>0, <2>2
  <2>5. state' \in [Bufs -> States] /\ state'[i] = new /\ \A j \in Bufs : j # i => state'[j] = swept[j]
    BY <2>1, <2>3, <2>4
  <2>6. clock_head' \in Bufs
    BY <2>0, AheadInBufs, NBufAssumption
  <2>7. \A j \in Bufs : cur[j] # c
    BY <2>0 DEF Chosen, Buffered
  <2> QED BY <2>1, <2>3, <2>5, <2>6, <2>7
<1>4. CASE \E d \in Bufs : \E swept \in Sweeps(d) : ReadsIn(c, i, mark, d, swept)
  <2>0. PICK d \in Bufs : \E swept \in Sweeps(d) : ReadsIn(c, i, mark, d, swept)
    BY <1>4
  <2>1. PICK swept \in Sweeps(d) : ReadsIn(c, i, mark, d, swept)
    BY <2>0
  <2>2. /\ state' \in [Bufs -> States] /\ clock_head' \in Bufs
        /\ \A j \in Bufs : j # i => state'[j].dirty = state[j].dirty
        /\ (mark => state'[i].dirty) /\ (~mark => ~state'[i].dirty)
        /\ \A j \in Bufs : cur[j] # c
    BY <1>3, <2>1
  <2>3. cur' \in [Bufs -> Cluster \cup {None}] /\ cur'[i] = c /\ \A j \in Bufs : j # i => cur'[j] = cur[j]
    BY <1>1, <2>1 DEF ReadsIn
  <2>4. OneBufferPerCluster'
    BY <2>2, <2>3 DEF OneBufferPerCluster
  <2> QED BY <2>1, <2>2, <2>3, <2>4 DEF ReadsIn
<1> QED BY <1>2, <1>4 DEF Fetch, ReadsIn

\* What fs_read_4k finds is what was written.
LEMMA FoundIsContent ==
  ASSUME TypeOK, OneBufferPerCluster, Held, NEW c \in Cluster, NEW i \in Bufs,
         cur[i] = c \/ \A j \in Bufs : cur[j] # c
  PROVE  /\ Found(c, i) \in Contents
         /\ \A o \in Offsets : Found(c, i)[o] = content[At(c, o)]
<1>1. Found(c, i) \in Contents
  BY DEF Found, TypeOK
<1>2. CASE cur[i] = c
  BY <1>1, <1>2 DEF Found, Held
<1>3. CASE cur[i] # c /\ \A j \in Bufs : cur[j] # c
  BY <1>1, <1>3 DEF Found, Held
<1> QED BY <1>1, <1>2, <1>3

\* Of the clusters only c changes, and buffer i has it.
Rebuffered(c, i, new) ==
  /\ cur'[i] = c
  /\ \A j \in Bufs : j # i => /\ cur'[j] = cur[j] /\ cur[j] # c
                              /\ state'[j].dirty = state[j].dirty
  /\ cur[i] # c => ~state[i].dirty
  /\ ~state'[i].dirty => content' = content /\ (cur[i] = c => ~state[i].dirty)
  /\ data' = [data EXCEPT ![i] = new]
  /\ card' = card
  /\ \A o \in Offsets : new[o] = content'[At(c, o)]
  /\ \A d \in Cluster : d # c => \A o \in Offsets : content'[At(d, o)] = content[At(d, o)]

LEMMA FetchKeepsHeld ==
  ASSUME TypeOK, Held, NEW c \in Cluster, NEW i \in Bufs, NEW new, Rebuffered(c, i, new)
  PROVE  Held'
<1> USE DEF Rebuffered
<1>1. data'[i] = new /\ \A j \in Bufs : j # i => data'[j] = data[j]
  BY DEF TypeOK
<1> SUFFICES ASSUME NEW d \in Cluster, NEW o \in Offsets
             PROVE  /\ \A j \in Bufs : cur'[j] = d => data'[j][o] = content'[At(d, o)]
                    /\ (\A j \in Bufs : cur'[j] = d => ~state'[j].dirty)
                         => card'[d][o] = content'[At(d, o)]
  BY DEF Held
<1>2. CASE d = c
  <2>1. \A j \in Bufs : cur'[j] = d => data'[j][o] = content'[At(d, o)]
    BY <1>1, <1>2
  <2>2. ASSUME ~state'[i].dirty PROVE card[c][o] = content'[At(c, o)]
    <3>1. content' = content
      BY <2>2
    <3>2. \A j \in Bufs : cur[j] = c => ~state[j].dirty
      BY <2>2
    <3> QED BY <3>1, <3>2 DEF Held
  <2> QED BY <1>2, <2>1, <2>2
<1>3. CASE d # c
  <2>1. content'[At(d, o)] = content[At(d, o)]
    BY <1>3
  <2>2. \A j \in Bufs : cur'[j] = d => j # i
    BY <1>3
  <2>3. \A j \in Bufs : cur'[j] = d => data'[j][o] = content'[At(d, o)]
    BY <1>1, <2>1, <2>2 DEF Held
  <2>4. ASSUME \A j \in Bufs : cur'[j] = d => ~state'[j].dirty
        PROVE  card'[d][o] = content'[At(d, o)]
    <3>1. \A j \in Bufs : cur[j] = d => ~state[j].dirty
      BY <1>3, <2>4
    <3> QED BY <2>1, <3>1 DEF Held
  <2> QED BY <2>3, <2>4
<1> QED BY <1>2, <1>3

----------------------------------------------------------------------------
(* Transactions *)

LEMMA SameJournal == Linked /\ UNCHANGED journal => Linked'
BY DEF Linked, RunningList, journal, lists, Running, Older, IsNewest

LEMMA SameBuffers ==
  Bound /\ (\A i \in Bufs : state'[i].dirty = state[i].dirty)
        /\ UNCHANGED <<cur, h_signal_bit, handle, b_page, b_blocknr, transactions>> => Bound'
BY DEF Bound, HandlesAgree

\* The lists refer to transactions there have been.
LEMMA LinkedFacts ==
  ASSUME TypeOK, Linked
  PROVE  /\ transactions \in Nat /\ MaxTrans \in Nat /\ transactions <= MaxTrans
         /\ \A t \in Running : t \in Trans /\ t \in Nat /\ t < transactions /\ t \notin committed
         /\ \A t \in committed : t \in Trans /\ t \in Nat /\ t < transactions
         /\ j_running_transaction = None \/ j_running_transaction \in Running
         /\ j_committing_transaction = None \/ j_committing_transaction \in committed
         /\ IsFiniteSet(committed)
<1>1. /\ transactions \in Nat /\ transactions <= MaxTrans /\ MaxTrans \in Nat
      /\ committed \subseteq 0 .. transactions - 1
  BY MaxTransAssumption DEF TypeOK, Linked
<1>2. \A t \in 0 .. transactions - 1 : t \in Trans /\ t \in Nat /\ t < transactions
  BY <1>1 DEF Trans
<1>3. IsFiniteSet(committed)
  <2>1. IsFiniteSet(0 .. transactions - 1)
    BY <1>1, FS_Interval
  <2> QED BY <1>1, <2>1, FS_Subset
<1>4. j_running_transaction = None \/ j_running_transaction \in Running
  BY DEF Linked, RunningList, IsNewest
<1>5. j_committing_transaction = None \/ j_committing_transaction \in committed
  BY DEF Linked
<1> QED BY <1>1, <1>2, <1>3, <1>4, <1>5 DEF Running

\* A transaction that is linked to the running list stays there; the old head is linked
\* back to it, or to itself.
LEMMA BeginKeepsLists ==
  ASSUME TypeOK, Linked, NEW t \in Trans, t = transactions,
         NEW back \in {t, j_running_transaction}, Begin(t, back)
  PROVE  /\ Linked'
         /\ transactions' = t + 1 /\ transactions' \in 0 .. MaxTrans
         /\ committed' \subseteq Trans
         /\ t_tnext' \in [Trans -> Trans \cup {None}]
         /\ t_tprev' \in [Trans -> Trans \cup {None}]
         /\ j_running_transaction' \in Trans \cup {None}
         /\ j_committing_transaction' \in Trans \cup {None}
         /\ j_commit_transaction_count' \in Nat
<1> DEFINE run == j_running_transaction
<1>1. /\ t \in Nat /\ t + 1 \in 0 .. MaxTrans /\ t # None
      /\ \A u \in Running : u \in Trans /\ u \in Nat /\ u < t /\ u # t /\ u # None
      /\ run = None \/ run \in Running
      /\ committed \subseteq 0 .. t - 1
  BY LinkedFacts, ClusterFacts, MaxTransAssumption DEF Trans, Linked
<1>2. /\ transactions' = t + 1 /\ j_running_transaction' = t /\ committed' = committed
      /\ j_committing_transaction' = j_committing_transaction
      /\ j_commit_transaction_count' = j_commit_transaction_count
  BY DEF Begin
<1>3. /\ t_tnext'[t] = run
      /\ \A u \in Trans : u # t => t_tnext'[u] = t_tnext[u]
      /\ \A u \in Trans : t_tprev'[u] = IF u = run THEN back ELSE IF u = t THEN None ELSE t_tprev[u]
  BY DEF Begin, TypeOK
<1>4. t_tnext' \in [Trans -> Trans \cup {None}] /\ t_tprev' \in [Trans -> Trans \cup {None}]
  BY DEF Begin, TypeOK
<1>5. PICK R : R = Running
  OBVIOUS
<1>6. Running' = R \cup {t}
  BY <1>1, <1>2, <1>5 DEF Running
<1>7. \A u \in R : Older(u, Running') = Older(u, R)
  BY <1>1, <1>5, <1>6 DEF Older
<1>8. Older(t, Running') = R
  BY <1>1, <1>5, <1>6 DEF Older
<1>9. IsNewest(t, R \cup {t})
  BY <1>1, <1>5 DEF IsNewest
<1>10. \A u \in R \cup {t} : IsNewest(t_tnext'[u], Older(u, Running'))
  <2>1. IsNewest(t_tnext'[t], Older(t, Running'))
    BY <1>3, <1>5, <1>8 DEF Linked, RunningList
  <2>2. ASSUME NEW u \in R PROVE IsNewest(t_tnext'[u], Older(u, Running'))
    BY <1>1, <1>3, <1>5, <1>7 DEF Linked, RunningList
  <2> QED BY <2>1, <2>2
<1>11. t_tprev'[t] = None
  BY <1>1, <1>3
<1>12. \A u \in R : t_tprev'[u] = u \/ (t_tprev'[u] \in R \cup {t} /\ t_tnext'[t_tprev'[u]] = u)
  <2> SUFFICES ASSUME NEW u \in R
               PROVE  t_tprev'[u] = u \/ (t_tprev'[u] \in R \cup {t} /\ t_tnext'[t_tprev'[u]] = u)
    OBVIOUS
  <2>1. CASE u = run
    BY <1>1, <1>3, <1>5, <2>1
  <2>2. CASE u # run
    <3>1. /\ t_tprev'[u] = t_tprev[u]
          /\ t_tprev[u] = u \/ (t_tprev[u] \in R /\ t_tnext[t_tprev[u]] = u)
      BY <1>1, <1>3, <1>5, <2>2 DEF Linked, RunningList
    <3> QED BY <1>1, <1>3, <1>5, <3>1
  <2> QED BY <2>1, <2>2
<1>13. committed \subseteq 0 .. (t + 1) - 1
  BY <1>1
<1>14. RunningList'
  BY <1>1, <1>2, <1>5, <1>6, <1>9, <1>10, <1>11, <1>12 DEF Linked, RunningList
<1>15. Linked'
  BY <1>2, <1>13, <1>14 DEF Linked
<1> QED BY <1>1, <1>2, <1>4, <1>15 DEF TypeOK

LEMMA BeginAndCommitKeepsLists ==
  ASSUME TypeOK, Linked, NEW t \in Trans, t = transactions, BeginAndCommit(t)
  PROVE  /\ Linked'
         /\ transactions' = t + 1 /\ transactions' \in 0 .. MaxTrans
         /\ committed' \subseteq Trans
         /\ t_tnext' \in [Trans -> Trans \cup {None}]
         /\ t_tprev' \in [Trans -> Trans \cup {None}]
         /\ j_running_transaction' \in Trans \cup {None}
         /\ j_committing_transaction' \in Trans \cup {None}
         /\ j_commit_transaction_count' \in Nat
<1> DEFINE head == j_committing_transaction
           run  == j_running_transaction
<1>1. /\ t \in Nat /\ t + 1 \in 0 .. MaxTrans /\ t # None
      /\ \A u \in Running : u \in Trans /\ u \in Nat /\ u < t /\ u # t /\ u # None /\ u \notin committed
      /\ run = None \/ run \in Running
      /\ committed \subseteq 0 .. t - 1 /\ t \notin committed
      /\ head = None \/ head \in committed
  BY LinkedFacts, ClusterFacts, MaxTransAssumption DEF Trans, Linked
<1>2. /\ transactions' = t + 1 /\ run' = run /\ committed' = committed \cup {t}
      /\ j_commit_transaction_count' = j_commit_transaction_count + 1
      /\ head' = IF head = None THEN t ELSE head
      /\ t_tnext' = [t_tnext EXCEPT ![t] = head]
      /\ t_tprev' = [u \in Trans |-> IF u = head THEN t
                                     ELSE IF u \in {t, run} THEN None ELSE t_tprev[u]]
  BY DEF BeginAndCommit
<1>3. /\ \A u \in Trans : u # t => t_tnext'[u] = t_tnext[u]
      /\ \A u \in Trans : u # head /\ u # t /\ u # run => t_tprev'[u] = t_tprev[u]
      /\ \A u \in Trans : u # head /\ u = run => t_tprev'[u] = None
  BY <1>2 DEF TypeOK
<1>4. t_tnext' \in [Trans -> Trans \cup {None}] /\ t_tprev' \in [Trans -> Trans \cup {None}]
  <2>1. head \in Trans \cup {None}
    BY DEF TypeOK
  <2> QED BY <1>2, <2>1 DEF TypeOK
<1>5. PICK R : R = Running
  OBVIOUS
<1>6. Running' = R
  BY <1>1, <1>2, <1>5 DEF Running
<1>7. \A u \in R : u \in Trans /\ u # t /\ u # head
  BY <1>1, <1>5
<1>8. IsNewest(run', R)
  BY <1>2, <1>5 DEF Linked, RunningList
<1>9. \A u \in R : IsNewest(t_tnext'[u], Older(u, R))
  BY <1>3, <1>5, <1>7 DEF Linked, RunningList
<1>10. \A u \in R : u = run' => t_tprev'[u] = None
  BY <1>2, <1>3, <1>7
<1>11. \A u \in R : u # run' =>
         t_tprev'[u] = u \/ (t_tprev'[u] \in R /\ t_tnext'[t_tprev'[u]] = u)
  BY <1>2, <1>3, <1>5, <1>7 DEF Linked, RunningList
<1>12. committed' \subseteq 0 .. (t + 1) - 1
  BY <1>1, <1>2
<1>13. head' \in committed'
  BY <1>1, <1>2
<1>14. j_commit_transaction_count' = Cardinality(committed')
  <2>1. IsFiniteSet(committed)
    BY LinkedFacts
  <2>2. Cardinality(committed \cup {t}) = IF t \in committed THEN Cardinality(committed) ELSE Cardinality(committed) + 1
    BY <2>1, FS_AddElement
  <2> QED BY <1>1, <1>2, <2>2 DEF Linked, RunningList
<1>15. RunningList'
  BY <1>5, <1>6, <1>8, <1>9, <1>10, <1>11, <1>14 DEF RunningList
<1>16. Linked'
  BY <1>2, <1>12, <1>13, <1>15 DEF Linked
<1>17. committed' \subseteq Trans /\ head' \in Trans \cup {None}
  BY <1>2 DEF TypeOK
<1> QED BY <1>1, <1>2, <1>4, <1>16, <1>17 DEF TypeOK

----------------------------------------------------------------------------
(* The invariant is kept *)

LEMMA InitIInv == Init => IInv
<1> SUFFICES ASSUME Init PROVE IInv
  OBVIOUS
<1>1. \A c \in Cluster, o \in Offsets : At(c, o) \in Nat /\ At(c, o) \in Bytes
  BY AtInBytes, AtFacts, ClusterFacts DEF Bytes
<1>2. At(Clusters, 0) \in Nat /\ At(Clusters - 1, 1) \in Nat /\ \A b \in Bytes : b \in Nat
  <2>1. Clusters \in Nat /\ Clusters - 1 \in Nat
    BY ClustersAssumption
  <2>2. At(Clusters, 0) \in Nat /\ At(Clusters - 1, 0) \in Nat
    BY <2>1, AtFacts
  <2>3. At(Clusters - 1, 1) = At(Clusters - 1, 0) + 1
    BY <2>1, AtFacts
  <2>4. PICK z \in Nat : z = Clusters * CSize
    BY <2>1, CSizeAssumption
  <2> QED BY <2>2, <2>3, <2>4 DEF Bytes
<1>3. 0 \in Bufs
  BY NBufAssumption DEF Bufs
<1>4. /\ card \in [Cluster -> Contents]
      /\ \A c \in Cluster, o \in Offsets : card[c][o] = <<0, At(c, o)>>
  BY <1>1 DEF Init, Contents
<1>5. data \in [Bufs -> Contents]
  BY <1>4, ClusterFacts DEF Init
<1>6. content \in [Bytes -> Nat \X Nat] /\ \A b \in Bytes : content[b] = <<0, b>>
  BY <1>2 DEF Init
<1>7. size \in 0 .. At(Clusters, 0)
  BY <1>2 DEF Init
<1>8. call \in [op : {"none", "read", "write"}, clus : 0 .. Clusters, byte : Offsets,
               cc : Nat, count : Nat] /\ call.op = "none"
  BY ClusterFacts DEF Init, NoCall
<1>9. /\ \A i \in Bufs : cur[i] = None /\ handle[i] = None /\ h_signal_bit[i] = 0
      /\ \A t \in Trans : b_page[t] = None
      /\ state \in [Bufs -> States] /\ \A i \in Bufs : ~state[i].dirty
  BY DEF Init, States
<1>10. got \in Seq(Nat \X Nat)
  BY DEF Init
<1>11. TypeOK
  <2>1. cur \in [Bufs -> Cluster \cup {None}] /\ handle \in [Bufs -> Trans \cup {None}]
        /\ h_signal_bit \in [Bufs -> 0 .. 1]
        /\ b_page \in [Trans -> Bufs \cup {None}] /\ b_blocknr \in [Trans -> Cluster \cup {None}]
    BY DEF Init
  <2>2. clock_head \in Bufs /\ card_size \in 0 .. At(Clusters, 0) /\ loc \in Nat /\ opened \in BOOLEAN
    BY <1>3, <1>7 DEF Init
  <2>3. /\ transactions \in 0 .. MaxTrans /\ committed \subseteq Trans
        /\ t_tnext \in [Trans -> Trans \cup {None}] /\ t_tprev \in [Trans -> Trans \cup {None}]
        /\ j_running_transaction \in Trans \cup {None} /\ j_committing_transaction \in Trans \cup {None}
        /\ j_commit_transaction_count \in Nat
    BY MaxTransAssumption DEF Init
  <2> QED BY <1>4, <1>5, <1>6, <1>7, <1>8, <1>9, <1>10, <2>1, <2>2, <2>3 DEF TypeOK
<1>12. OneBufferPerCluster /\ CallOK /\ ClosedIsClean /\ ReadSoFar
  BY <1>8, <1>9 DEF OneBufferPerCluster, CallOK, ClosedIsClean, ReadSoFar
<1>13. LocOK
  BY <1>2, <1>7 DEF Init, LocOK
<1>14. Held
  BY <1>1, <1>4, <1>6, <1>9, ClusterFacts DEF Held
<1>15. Bound
  BY <1>9 DEF Bound, HandlesAgree, Init
<1>16. Linked
  BY FS_EmptySet DEF Init, Linked, RunningList, Running, IsNewest
<1> QED BY <1>11, <1>12, <1>13, <1>14, <1>15, <1>16 DEF IInv

\* Nothing but halted changes.
LEMMA SameIInv ==
  ASSUME IInv, halted' = "fs_alloc" \/ halted # "fs_alloc" \/ UNCHANGED halted,
         UNCHANGED <<opened, bufs, size, loc, disk, journal, call, got, content>>
  PROVE  IInv'
<1>1. TypeOK'
  BY DEF IInv, TypeOK, bufs, disk, journal, lists
<1>2. OneBufferPerCluster' /\ (halted' # "fs_alloc" => Held')
  BY DEF IInv, OneBufferPerCluster, Held, bufs, disk
<1>3. CallOK' /\ LocOK' /\ ClosedIsClean' /\ ReadSoFar'
  BY DEF IInv, CallOK, LocOK, ClosedIsClean, ReadSoFar, bufs
<1>4. Bound'
  BY SameBuffers DEF IInv, bufs, journal
<1>5. Linked'
  BY SameJournal DEF IInv
<1> QED BY <1>1, <1>2, <1>3, <1>4, <1>5 DEF IInv

LEMMA OpenIInv == IInv /\ fs_open => IInv'
<1> SUFFICES ASSUME IInv, fs_open PROVE IInv'
  OBVIOUS
<1>1. TypeOK /\ Held /\ call.op = "none" /\ \A i \in Bufs : ~state[i].dirty
  BY DEF IInv, fs_open, ClosedIsClean
<1>2. /\ opened' = TRUE /\ size' = card_size /\ loc' = 0 /\ clock_head' = 0
      /\ cur' = [i \in Bufs |-> None] /\ handle' = [i \in Bufs |-> None]
      /\ state' = [i \in Bufs |-> [ref |-> FALSE, dirty |-> FALSE]]
      /\ h_signal_bit' = [i \in Bufs |-> 0]
      /\ UNCHANGED <<data, b_page, b_blocknr, card, card_size, journal, call, got, content>>
  BY DEF fs_open, disk
<1>3. /\ \A i \in Bufs : cur'[i] = None /\ handle'[i] = None /\ h_signal_bit'[i] = 0
      /\ state' \in [Bufs -> States] /\ \A i \in Bufs : ~state'[i].dirty
  BY <1>2 DEF States
<1>4. TypeOK'
  <2>1. cur' \in [Bufs -> Cluster \cup {None}] /\ handle' \in [Bufs -> Trans \cup {None}]
        /\ h_signal_bit' \in [Bufs -> 0 .. 1]
    BY <1>2
  <2>2. clock_head' \in Bufs /\ loc' \in Nat /\ opened' \in BOOLEAN
    BY <1>2, NBufAssumption DEF Bufs
  <2> QED BY <1>1, <1>2, <1>3, <2>1, <2>2 DEF TypeOK, journal, lists
<1>5. OneBufferPerCluster' /\ CallOK' /\ ClosedIsClean' /\ ReadSoFar'
  BY <1>1, <1>2, <1>3 DEF OneBufferPerCluster, CallOK, ClosedIsClean, ReadSoFar
<1>6. LocOK'
  BY <1>1, <1>2 DEF LocOK, TypeOK
<1>7. Held'
  BY <1>1, <1>2, <1>3, ClusterFacts DEF Held
<1>8. Bound'
  <2>1. \A t \in Trans : b_page[t] = None
    <3> SUFFICES ASSUME NEW t \in Trans, b_page[t] # None PROVE FALSE
      OBVIOUS
    <3>1. b_page[t] \in Bufs /\ handle[b_page[t]] = t /\ t # None
      BY <1>1, ClusterFacts, MaxTransAssumption DEF TypeOK, Trans, IInv, Bound, HandlesAgree
    <3> QED BY <1>1, <3>1 DEF IInv, Bound, HandlesAgree
  <2> QED BY <1>2, <1>3, <2>1 DEF Bound, HandlesAgree, journal
<1>9. Linked'
  BY <1>2, SameJournal DEF IInv
<1> QED BY <1>4, <1>5, <1>6, <1>7, <1>8, <1>9 DEF IInv

LEMMA SeekIInv ==
  ASSUME IInv, NEW new \in 0 .. At(Clusters, 0), fs_lseek(new)
  PROVE  IInv'
<1>1. /\ TypeOK /\ Held /\ call.op = "none" /\ loc' = IF new < size THEN new ELSE size
      /\ got' = <<>> /\ UNCHANGED <<opened, bufs, size, disk, journal, call, content>>
  BY DEF IInv, fs_lseek, Idling
<1>2. size \in Nat /\ new \in Nat
  BY <1>1, AtFacts, ClusterFacts DEF TypeOK
<1>3. loc' \in Nat /\ loc' <= size
  BY <1>1, <1>2
<1>4. got' \in Seq(Nat \X Nat)
  BY <1>1
<1>5. TypeOK'
  BY <1>1, <1>3, <1>4 DEF TypeOK, bufs, disk, journal, lists
<1>6. OneBufferPerCluster' /\ Held'
  BY <1>1 DEF IInv, OneBufferPerCluster, Held, bufs, disk
<1>7. CallOK' /\ LocOK' /\ ClosedIsClean' /\ ReadSoFar'
  BY <1>1, <1>3 DEF IInv, CallOK, LocOK, ClosedIsClean, ReadSoFar, bufs
<1>8. Bound'
  BY <1>1, SameBuffers DEF IInv, bufs, journal
<1>9. Linked'
  BY <1>1, SameJournal DEF IInv
<1> QED BY <1>5, <1>6, <1>7, <1>8, <1>9 DEF IInv

\* A call starts at the cluster and byte of loc.
LEMMA EnterIInv ==
  ASSUME IInv, NEW op \in {"read", "write"}, NEW count \in Nat \ {0}, Enter(op, count),
         call.op = "none", opened, op = "read" => loc + count <= size,
         got' = <<>>, halted = "no",
         UNCHANGED <<opened, bufs, size, loc, disk, journal, content>>
  PROVE  IInv'
<1>1. TypeOK /\ loc \in Nat /\ LocOK /\ Held
  BY DEF IInv, TypeOK
<1>2. PICK q, r : q = loc \div CSize /\ r = loc % CSize
  OBVIOUS
<1>3. q \in Nat /\ r \in Offsets /\ At(q, r) = loc
  BY <1>1, <1>2, DivAt
<1>4. q \in 0 .. Clusters
  <2>1. loc <= At(Clusters, 0)
    <3>1. PICK z \in Nat : z = At(Clusters, 0)
      BY AtFacts, ClusterFacts
    <3>2. size \in 0 .. z /\ loc <= size
      BY <1>1, <3>1 DEF TypeOK, LocOK
    <3> QED BY <1>1, <3>1, <3>2
  <2>2. q <= Clusters
    BY <1>3, <2>1, AtOrder, ClusterFacts
  <2> QED BY <1>3, <2>2, ClusterFacts
<1>5. /\ call' = [op |-> op, clus |-> q, byte |-> r, cc |-> 0, count |-> count]
      /\ call'.op = op /\ call'.clus = q /\ call'.byte = r /\ call'.cc = 0 /\ call'.count = count
  BY <1>2 DEF Enter
<1>6. TypeOK'
  <2>1. call' \in [op : {"none", "read", "write"}, clus : 0 .. Clusters, byte : Offsets,
                   cc : Nat, count : Nat]
    BY <1>3, <1>4, <1>5
  <2>2. got' \in Seq(Nat \X Nat)
    OBVIOUS
  <2> QED BY <1>1, <2>1, <2>2 DEF TypeOK, bufs, disk, journal, lists
<1>7. OneBufferPerCluster' /\ Held'
  BY <1>1 DEF IInv, OneBufferPerCluster, Held, bufs, disk
<1>8. CallOK'
  BY <1>1, <1>3, <1>5 DEF CallOK
<1>9. LocOK' /\ ClosedIsClean'
  BY DEF IInv, LocOK, ClosedIsClean, bufs
<1>10. ReadSoFar'
  BY <1>5 DEF ReadSoFar
<1>11. Bound'
  BY SameBuffers DEF IInv, bufs, journal
<1>12. Linked'
  BY SameJournal DEF IInv
<1> QED BY <1>6, <1>7, <1>8, <1>9, <1>10, <1>11, <1>12 DEF IInv

LEMMA ReadIInv ==
  ASSUME IInv, NEW count \in 1 .. MaxCount, fs_read(count)
  PROVE  IInv'
<1>1. /\ loc \in Nat /\ size \in Nat /\ count \in Nat \ {0} /\ loc < size
  BY MaxCountAssumption, AtFacts, ClusterFacts DEF IInv, TypeOK, fs_read
<1>2. PICK n : n = IF loc + count > size THEN size - loc ELSE count
  OBVIOUS
<1>3. n \in Nat \ {0} /\ loc + n <= size
  BY <1>1, <1>2
<1>4. Enter("read", n)
  BY <1>2 DEF fs_read
<1> QED BY <1>3, <1>4, EnterIInv DEF fs_read, Idling

LEMMA WriteIInv ==
  ASSUME IInv, NEW count \in 1 .. MaxCount, fs_write(count)
  PROVE  IInv'
<1>1. count \in Nat \ {0}
  BY MaxCountAssumption
<1> QED BY <1>1, EnterIInv DEF fs_write, Idling

LEMMA StuckInCloseIInv == IInv /\ StuckInClose => IInv'
<1> SUFFICES ASSUME IInv, StuckInClose PROVE IInv'
  OBVIOUS
<1>1. PICK i \in Bufs : state[i].dirty /\ card' = [card EXCEPT ![cur[i]] = data[i]]
  BY DEF StuckInClose
<1>2. card_size' = size /\ UNCHANGED <<opened, bufs, size, loc, journal, call, got, content>>
  BY DEF StuckInClose
<1>3. cur[i] \in Cluster /\ TypeOK /\ Held
  BY <1>1 DEF IInv, Bound, HandlesAgree, TypeOK, StuckInClose, Idling
<1>4. TypeOK'
  <2>1. card' \in [Cluster -> Contents]
    BY <1>1, <1>3 DEF TypeOK
  <2> QED BY <1>2, <1>3, <2>1 DEF TypeOK, bufs, journal, lists
<1>5. /\ card'[cur[i]] = data[i]
      /\ \A c \in Cluster : c # cur[i] => card'[c] = card[c]
  BY <1>1, <1>3 DEF TypeOK
<1>6. Held'
  <2> SUFFICES ASSUME NEW c \in Cluster, NEW o \in Offsets
               PROVE  /\ \A j \in Bufs : cur[j] = c => data[j][o] = content[At(c, o)]
                      /\ (\A j \in Bufs : cur[j] = c => ~state[j].dirty)
                           => card'[c][o] = content[At(c, o)]
    BY <1>2 DEF Held, bufs
  <2>1. CASE c = cur[i]
    BY <1>3, <1>5, <2>1 DEF Held
  <2>2. CASE c # cur[i]
    BY <1>3, <1>5, <2>2 DEF Held
  <2> QED BY <2>1, <2>2
<1>7. OneBufferPerCluster' /\ CallOK' /\ LocOK' /\ ClosedIsClean' /\ ReadSoFar'
  BY <1>2 DEF IInv, OneBufferPerCluster, CallOK, LocOK, ClosedIsClean, ReadSoFar, bufs
<1>8. Bound'
  BY <1>2, SameBuffers DEF IInv, bufs, journal
<1>9. Linked'
  BY <1>2, SameJournal DEF IInv
<1> QED BY <1>4, <1>6, <1>7, <1>8, <1>9 DEF IInv

LEMMA CloseIInv == IInv /\ fs_close => IInv'
<1> SUFFICES ASSUME IInv, fs_close PROVE IInv'
  OBVIOUS
<1>1. /\ call.op = "none" /\ Held /\ \A i \in Bufs : ~state[i].dirty
      /\ opened' = FALSE /\ card_size' = size /\ got' = <<>>
      /\ UNCHANGED <<bufs, size, loc, card, journal, call, content>>
  BY DEF IInv, fs_close, Idling
<1>2. got' \in Seq(Nat \X Nat)
  BY <1>1
<1>3. TypeOK'
  BY <1>1, <1>2 DEF IInv, TypeOK, bufs, journal, lists
<1>4. OneBufferPerCluster' /\ Held'
  BY <1>1 DEF IInv, OneBufferPerCluster, Held, bufs
<1>5. CallOK' /\ LocOK' /\ ClosedIsClean' /\ ReadSoFar'
  BY <1>1 DEF IInv, CallOK, LocOK, ClosedIsClean, ReadSoFar, bufs
<1>6. Bound'
  BY <1>1, SameBuffers DEF IInv, bufs, journal
<1>7. Linked'
  BY <1>1, SameJournal DEF IInv
<1> QED BY <1>3, <1>4, <1>5, <1>6, <1>7 DEF IInv

\* From one turn of the loop to the next.
LEMMA NextTurnFacts ==
  ASSUME TypeOK, CallOK, call.op # "none", call.clus < LastClus, call.clus + 1 \in 0 .. Clusters,
         NextTurn, UNCHANGED <<loc, size>>
  PROVE  /\ call' \in [op : {"none", "read", "write"}, clus : 0 .. Clusters, byte : Offsets,
                       cc : Nat, count : Nat]
         /\ call'.op = call.op
         /\ call'.cc = call.cc + LastByte - call.byte + 1
         /\ CallOK'
<1>1. PICK k : k = call.cc + LastByte - call.byte + 1
  OBVIOUS
<1>2. /\ k \in Nat /\ k < call.count /\ At(call.clus + 1, 0) = loc + k
  BY <1>1, TurnFacts
<1>3. /\ call \in [op : {"none", "read", "write"}, clus : 0 .. Clusters, byte : Offsets,
                   cc : Nat, count : Nat]
      /\ call' = [call EXCEPT !.clus = call.clus + 1, !.byte = 0, !.cc = k]
  BY <1>1 DEF TypeOK, NextTurn
<1>4. /\ call'.op = call.op /\ call'.clus = call.clus + 1 /\ call'.byte = 0
      /\ call'.cc = k /\ call'.count = call.count
  BY <1>3
<1>5. call' \in [op : {"none", "read", "write"}, clus : 0 .. Clusters, byte : Offsets,
                 cc : Nat, count : Nat]
  BY <1>2, <1>3, ClusterFacts
<1>6. CallOK'
  BY <1>2, <1>4 DEF CallOK
<1> QED BY <1>1, <1>4, <1>5, <1>6

LEMMA NoCallFacts ==
  /\ NoCall \in [op : {"none", "read", "write"}, clus : 0 .. Clusters, byte : Offsets,
                 cc : Nat, count : Nat]
  /\ NoCall.op = "none"
BY ClusterFacts DEF NoCall

LEMMA Concatenated ==
  ASSUME NEW S, NEW s \in Seq(S), NEW u \in Seq(S), NEW t, t = s \o u
  PROVE  /\ t \in Seq(S)
         /\ Len(t) = Len(s) + Len(u)
         /\ \A i \in 1 .. Len(s) + Len(u) : t[i] = IF i <= Len(s) THEN s[i] ELSE u[i - Len(s)]
BY ConcatProperties

\* The positions of the bytes of a turn of fs_read.
LEMMA TurnOffsets ==
  ASSUME NEW c \in Nat, NEW b \in Nat, NEW m \in Nat, NEW l \in Nat, NEW p \in Nat,
         b <= l, l < CSize, At(c, b) = p + m
  PROVE  \A k \in 1 .. l - b + 1 : b + k - 1 \in Offsets /\ At(c, b + k - 1) = p + m + k - 1
<1>1. PICK a \in Nat : a = At(c, 0)
  BY AtFacts
<1>2. At(c, b) = a + b
  <2>1. b \in Int
    OBVIOUS
  <2> QED BY <1>1, <2>1, AtFacts
<1> SUFFICES ASSUME NEW k \in 1 .. l - b + 1
             PROVE  b + k - 1 \in Offsets /\ At(c, b + k - 1) = p + m + k - 1
  OBVIOUS
<1>3. b + k - 1 \in Offsets /\ b + k - 1 \in Int
  BY CSizeAssumption DEF Offsets
<1>4. At(c, b + k - 1) = a + (b + k - 1)
  BY <1>1, <1>3, AtFacts
<1> QED BY <1>1, <1>2, <1>3, <1>4

\* The bytes fs_read adds to those it has.
LEMMA ReadMore ==
  ASSUME IInv, call.op = "read", NEW i \in Bufs,
         Found(call.clus, i) \in Contents,
         \A o \in Offsets : Found(call.clus, i)[o] = content[At(call.clus, o)],
         got' = got \o [k \in 1 .. LastByte - call.byte + 1 |->
                          Found(call.clus, i)[call.byte + k - 1]]
  PROVE  /\ got' \in Seq(Nat \X Nat)
         /\ Len(got') = call.cc + LastByte - call.byte + 1
         /\ \A k \in 1 .. Len(got') : got'[k] = content[loc + k - 1]
<1> DEFINE n == LastByte - call.byte + 1
           piece == [k \in 1 .. n |-> Found(call.clus, i)[call.byte + k - 1]]
<1>1. PICK c, b, m, l : c = call.clus /\ b = call.byte /\ m = call.cc /\ l = LastByte
  OBVIOUS
<1>2. /\ c \in Nat /\ b \in Nat /\ m \in Nat /\ l \in Nat /\ b <= l /\ l < CSize /\ CSize \in Nat
      /\ loc \in Nat /\ At(c, b) = loc + m
  BY <1>1, TurnFacts, ClusterFacts DEF IInv
<1>3. n \in Nat /\ n = l - b + 1
  BY <1>1, <1>2
<1>4. \A k \in 1 .. n : b + k - 1 \in Offsets /\ At(c, b + k - 1) = loc + m + k - 1
  <2>1. PICK p \in Nat : p = loc /\ At(c, b) = p + m
    BY <1>2
  <2>2. \A k \in 1 .. l - b + 1 : b + k - 1 \in Offsets /\ At(c, b + k - 1) = p + m + k - 1
    <3>1. c \in Nat /\ b \in Nat /\ m \in Nat /\ l \in Nat /\ b <= l /\ l < CSize
      BY <1>2
    <3> HIDE DEF n, piece
    <3> QED BY <2>1, <3>1, TurnOffsets
  <2> QED BY <1>3, <2>1, <2>2
<1>5. \A k \in 1 .. n : piece[k] \in Nat \X Nat /\ piece[k] = content[loc + m + k - 1]
  BY <1>1, <1>4 DEF Contents
<1>6. piece \in Seq(Nat \X Nat) /\ Len(piece) = n
  <2>1. piece \in [1 .. n -> Nat \X Nat]
    BY <1>5
  <2> HIDE DEF piece, n
  <2> QED BY <1>3, <2>1, IsASeq, LenProperties
<1>7. got \in Seq(Nat \X Nat) /\ Len(got) = m /\ \A k \in 1 .. m : got[k] = content[loc + k - 1]
  BY <1>1 DEF IInv, TypeOK, ReadSoFar
<1>8. got' = got \o piece
  OBVIOUS
<1> HIDE DEF piece, n
<1>9. /\ got' \in Seq(Nat \X Nat) /\ Len(got') = m + n
      /\ \A k \in 1 .. m + n : got'[k] = IF k <= m THEN got[k] ELSE piece[k - m]
  <2>1. PICK t, s, u : t = got' /\ s = got /\ u = piece
    OBVIOUS
  <2>2. s \in Seq(Nat \X Nat) /\ u \in Seq(Nat \X Nat) /\ t = s \o u /\ Len(s) = m /\ Len(u) = n
    BY <1>6, <1>7, <1>8, <2>1
  <2>3. /\ t \in Seq(Nat \X Nat) /\ Len(t) = Len(s) + Len(u)
        /\ \A k \in 1 .. Len(s) + Len(u) : t[k] = IF k <= Len(s) THEN s[k] ELSE u[k - Len(s)]
    BY <2>2, Concatenated
  <2> QED BY <2>1, <2>2, <2>3
<1>10. ASSUME NEW k \in 1 .. m + n PROVE got'[k] = content[loc + k - 1]
  <2>1. CASE k <= m
    <3>1. k \in 1 .. m
      BY <1>2, <1>3, <2>1
    <3>2. got[k] = content[loc + k - 1]
      BY <1>7, <3>1
    <3> QED BY <1>9, <2>1, <3>2
  <2>2. CASE ~(k <= m)
    <3>1. m \in Nat /\ n \in Nat /\ loc \in Nat
      BY <1>2, <1>3
    <3>2. k - m \in 1 .. n
      BY <2>2, <3>1
    <3>3. loc + m + (k - m) - 1 = loc + k - 1
      BY <3>1
    <3> QED BY <1>5, <1>9, <2>2, <3>2, <3>3
  <2> QED BY <2>1, <2>2
<1>11. m + n = m + l - b + 1
  BY <1>2, <1>3
<1> QED BY <1>1, <1>9, <1>10, <1>11

LEMMA ReadingInFile ==
  ASSUME IInv, call.op = "read"
  PROVE  /\ call.clus \in Cluster
         /\ LastClus \in Cluster
<1>1. PICK k, m, n, q : k = call.cc /\ m = call.count /\ n = call.clus /\ q = LastClus
  OBVIOUS
<1>2. /\ k \in Nat /\ m \in Nat /\ loc \in Nat /\ k < m /\ loc + m <= size
      /\ At(n, call.byte) = loc + k /\ n \in Nat /\ call.byte \in Offsets /\ q \in Nat
  BY <1>1, TurnFacts DEF IInv, CallOK
<1>3. PICK r \in Offsets : At(q, r) = loc + m - 1
  BY <1>1, TurnFacts DEF IInv
<1>4. PICK z \in Nat : z = At(Clusters, 0)
  BY AtFacts, ClusterFacts
<1>5. size \in Nat /\ size <= z
  BY <1>4 DEF IInv, TypeOK
<1>6. At(n, call.byte) < At(Clusters, 0) /\ At(q, r) < At(Clusters, 0)
  BY <1>2, <1>3, <1>4, <1>5
<1> QED BY <1>1, <1>2, <1>3, <1>6, InCluster

\* One turn of fs_read's loop puts cluster c into buffer i, if it was not there, and
\* what it reads are the next bytes of the file.
TurnRead(c, i) ==
  /\ c = call.clus
  /\ cur'[i] = c
  /\ \A j \in Bufs : j # i => /\ cur'[j] = cur[j] /\ cur[j] # c
                              /\ state'[j].dirty = state[j].dirty
  /\ state'[i].dirty <=> cur[i] = c /\ state[i].dirty
  /\ cur[i] # c => ~state[i].dirty
  /\ cur' \in [Bufs -> Cluster \cup {None}]
  /\ state' \in [Bufs -> States] /\ clock_head' \in Bufs
  /\ OneBufferPerCluster'
  /\ data' = [data EXCEPT ![i] = Found(c, i)]
  /\ Found(c, i) \in Contents
  /\ \A o \in Offsets : Found(c, i)[o] = content[At(c, o)]
  /\ got' \in Seq(Nat \X Nat)
  /\ Len(got') = call.cc + LastByte - call.byte + 1
  /\ \A k \in 1 .. Len(got') : got'[k] = content[loc + k - 1]

LEMMA ReadTurn ==
  ASSUME IInv, ReadCluster
  PROVE  \E c \in Cluster, i \in Bufs : TurnRead(c, i)
<1>1. PICK i \in Bufs :
        /\ Fetch(call.clus, i, FALSE)
        /\ data' = [data EXCEPT ![i] = Found(call.clus, i)]
        /\ got' = got \o [k \in 1 .. LastByte - call.byte + 1 |->
                             Found(call.clus, i)[call.byte + k - 1]]
  BY DEF ReadCluster
<1>2. call.op = "read" /\ TypeOK /\ OneBufferPerCluster /\ Held /\ CallOK
  BY DEF IInv, ReadCluster, InLoop
<1>3. PICK c \in Cluster : c = call.clus
  BY <1>2, ReadingInFile DEF IInv
<1>4. PICK mark \in BOOLEAN : ~mark /\ Fetch(c, i, mark)
  BY <1>1, <1>3, Zenon
<1>5. /\ cur'[i] = c
      /\ \A j \in Bufs : j # i => cur'[j] = cur[j] /\ cur[j] # c
      /\ state' \in [Bufs -> States] /\ clock_head' \in Bufs
      /\ \A j \in Bufs : j # i => state'[j].dirty = state[j].dirty
      /\ state'[i].dirty <=> cur[i] = c /\ state[i].dirty
      /\ cur[i] # c => ~state[i].dirty
      /\ cur' \in [Bufs -> Cluster \cup {None}]
      /\ OneBufferPerCluster'
  BY <1>2, <1>4, FetchFacts
<1>6. cur[i] = c \/ \A j \in Bufs : cur[j] # c
  BY <1>5
<1>7. Found(c, i) \in Contents /\ \A o \in Offsets : Found(c, i)[o] = content[At(c, o)]
  BY <1>2, <1>6, FoundIsContent
<1>8. /\ got' \in Seq(Nat \X Nat)
      /\ Len(got') = call.cc + LastByte - call.byte + 1
      /\ \A k \in 1 .. Len(got') : got'[k] = content[loc + k - 1]
  BY <1>1, <1>2, <1>3, <1>7, ReadMore
<1>9. data' = [data EXCEPT ![i] = Found(c, i)]
  BY <1>1, <1>3
<1>10. TurnRead(c, i)
  BY <1>3, <1>5, <1>7, <1>8, <1>9 DEF TurnRead
<1> QED BY <1>10

LEMMA ReadClusterIInv == IInv /\ ReadCluster => IInv'
<1> SUFFICES ASSUME IInv, ReadCluster PROVE IInv'
  OBVIOUS
<1>1. PICK c \in Cluster, i \in Bufs : TurnRead(c, i)
  BY ReadTurn
<1>2. /\ call.op = "read" /\ call.op # "none" /\ TypeOK /\ OneBufferPerCluster /\ Held /\ CallOK
      /\ UNCHANGED <<opened, h_signal_bit, handle, b_page, b_blocknr, size, card, card_size,
                   journal, content>>
  BY DEF IInv, ReadCluster, InLoop, disk
<1>3. c = call.clus
  BY <1>1 DEF TurnRead
<1>4. /\ cur'[i] = c
      /\ \A j \in Bufs : j # i => cur'[j] = cur[j] /\ cur[j] # c
      /\ state' \in [Bufs -> States] /\ clock_head' \in Bufs
      /\ \A j \in Bufs : j # i => state'[j].dirty = state[j].dirty
      /\ state'[i].dirty <=> cur[i] = c /\ state[i].dirty
      /\ cur[i] # c => ~state[i].dirty
      /\ cur' \in [Bufs -> Cluster \cup {None}]
      /\ OneBufferPerCluster'
  BY <1>1 DEF TurnRead
<1>5. Found(c, i) \in Contents /\ \A o \in Offsets : Found(c, i)[o] = content[At(c, o)]
  BY <1>1 DEF TurnRead
<1>6. /\ got' \in Seq(Nat \X Nat)
      /\ Len(got') = call.cc + LastByte - call.byte + 1
      /\ \A k \in 1 .. Len(got') : got'[k] = content[loc + k - 1]
  BY <1>1 DEF TurnRead
<1>7. Held'
  <2>1. PICK new : new = Found(c, i)
    OBVIOUS
  <2>2. data' = [data EXCEPT ![i] = new] /\ card' = card /\ content' = content
    BY <1>1, <1>2, <2>1 DEF TurnRead
  <2>3. \A o \in Offsets : new[o] = content'[At(c, o)]
    BY <1>5, <2>1, <2>2
  <2>4. Rebuffered(c, i, new)
    BY <1>4, <2>2, <2>3 DEF Rebuffered
  <2> QED BY <1>2, <2>4, FetchKeepsHeld
<1>8. data' \in [Bufs -> Contents]
  BY <1>1, <1>2, <1>5 DEF TypeOK, TurnRead
<1>9. Bound'
  <2>1. \A j \in Bufs : state'[j].dirty <=> state[j].dirty
    BY <1>4
  <2>2. \A j \in Bufs : handle[j] # None => cur'[j] = cur[j]
    BY <1>2, <1>4 DEF IInv, Bound, HandlesAgree
  <2> QED BY <1>2, <2>1, <2>2 DEF IInv, Bound, HandlesAgree, journal
<1>10. Linked'
  BY <1>2, SameJournal DEF IInv
<1>11. CASE call.clus = LastClus /\ loc' = loc + call.count /\ call' = NoCall
  <2>1. loc \in Nat /\ call.count \in Nat /\ loc + call.count <= size
    BY <1>2, TurnFacts DEF CallOK
  <2>2. TypeOK'
    <3>1. loc' \in Nat
      BY <1>11, <2>1
    <3>2. call' \in [op : {"none", "read", "write"}, clus : 0 .. Clusters, byte : Offsets,
                     cc : Nat, count : Nat]
      BY <1>11, NoCallFacts
    <3> QED BY <1>2, <1>4, <1>6, <1>8, <3>1, <3>2 DEF TypeOK, journal, lists
  <2>3. CallOK' /\ ReadSoFar'
    BY <1>11, NoCallFacts DEF CallOK, ReadSoFar
  <2>4. LocOK'
    BY <1>2, <1>11, <2>1 DEF LocOK
  <2>5. ClosedIsClean'
    BY <1>2 DEF IInv, ClosedIsClean
  <2> QED BY <1>4, <1>7, <1>9, <1>10, <2>2, <2>3, <2>4, <2>5 DEF IInv
<1>12. CASE call.clus < LastClus /\ NextTurn /\ loc' = loc
  <2>1. call.clus + 1 \in 0 .. Clusters
    BY <1>3, ClusterFacts
  <2>2. /\ call' \in [op : {"none", "read", "write"}, clus : 0 .. Clusters, byte : Offsets,
                      cc : Nat, count : Nat]
        /\ call'.cc = call.cc + LastByte - call.byte + 1
        /\ CallOK'
    BY <1>2, <1>12, <2>1, NextTurnFacts
  <2>3. TypeOK'
    BY <1>2, <1>4, <1>6, <1>8, <1>12, <2>2 DEF TypeOK, journal, lists
  <2>4. ReadSoFar'
    BY <1>2, <1>6, <1>12, <2>2 DEF ReadSoFar
  <2>5. LocOK' /\ ClosedIsClean'
    BY <1>2, <1>12 DEF IInv, LocOK, ClosedIsClean
  <2> QED BY <1>4, <1>7, <1>9, <1>10, <2>2, <2>3, <2>4, <2>5 DEF IInv
<1> QED BY <1>11, <1>12 DEF ReadCluster

\* The positions of a turn of fs_write are those of its bytes in the cluster.
LEMMA TurnPositions ==
  ASSUME NEW c \in Cluster, NEW b \in Nat, NEW m \in Nat, NEW l \in Nat, NEW p \in Nat,
         b <= l, l < CSize, At(c, b) = p + m
  PROVE  /\ \A o \in Offsets : At(c, o) - p = m + o - b
         /\ \A o \in Offsets : At(c, o) - p \in m .. m + l - b <=> o \in b .. l
         /\ \A d \in Cluster : d # c =>
              \A o \in Offsets : ~(At(d, o) - p \in m .. m + l - b)
<1>1. c \in Nat /\ CSize \in Nat
  BY ClusterFacts
<1>2. PICK a \in Nat : a = At(c, 0)
  BY <1>1, AtFacts
<1>3. \A o \in Int : At(c, o) = a + o
  BY <1>1, <1>2, AtFacts
<1>4. a + b = p + m
  BY <1>3
<1>5. \A o \in Offsets : o \in Nat /\ o \in Int
  BY ClusterFacts
<1>6. \A o \in Offsets : At(c, o) - p = m + o - b
  BY <1>3, <1>4, <1>5
<1>7. \A o \in Offsets : At(c, o) - p \in m .. m + l - b <=> o \in b .. l
  <2> SUFFICES ASSUME NEW o \in Offsets
               PROVE  At(c, o) - p \in m .. m + l - b <=> o \in b .. l
    OBVIOUS
  <2>1. PICK x \in Int : x = At(c, o) - p /\ x = m + o - b
    BY <1>5, <1>6
  <2> QED BY <1>5, <2>1
<1>8. ASSUME NEW d \in Cluster, d # c, NEW q \in Offsets,
             At(d, q) - p \in m .. m + l - b
      PROVE  FALSE
  <2>1. d \in Nat /\ q \in Int
    BY <1>5, ClusterFacts
  <2>2. PICK x \in Int : x = At(d, q)
    <3>1. PICK z \in Nat : z = At(d, 0)
      BY <2>1, AtFacts
    <3>2. At(d, q) = z + q
      BY <2>1, <3>1, AtFacts
    <3> QED BY <2>1, <3>2
  <2>3. PICK o \in Int : x = a + o
    BY <2>2
  <2>4. o \in Offsets
    <3>1. x - p \in m .. m + l - b
      BY <1>8, <2>2
    <3>2. b <= o /\ o <= l
      BY <1>4, <2>3, <3>1
    <3> QED BY <1>1, <3>2 DEF Offsets
  <2>5. At(c, o) = At(d, q)
    BY <1>3, <2>2, <2>3
  <2> QED BY <1>1, <1>8, <2>1, <2>4, <2>5, AtInjective
<1> QED BY <1>6, <1>7, <1>8

\* The bytes a turn of fs_write writes, the buffer with them, and the file with them.
NewBytes(b, l, m, t) == [o \in b .. l |-> <<t + 1, m + o - b>>]
Patched(old, new) == [o \in Offsets |-> IF o \in DOMAIN new THEN new[o] ELSE old[o]]
Rewritten(was, p, m, k, t) ==
  [x \in Bytes |-> IF x - p \in m .. k THEN <<t + 1, x - p>> ELSE was[x]]

\* What fs_write puts into the buffer, and what that makes of the file.
LEMMA WriteMore ==
  ASSUME TypeOK, CallOK, call.op # "none", NEW c \in Cluster, c = call.clus,
         NEW t \in Nat, NEW old \in Contents, \A o \in Offsets : old[o] = content[At(c, o)],
         NEW buf, buf = Patched(old, NewBytes(call.byte, LastByte, call.cc, t)),
         content' = Rewritten(content, loc, call.cc, call.cc + LastByte - call.byte, t)
  PROVE  /\ buf \in Contents
         /\ content' \in [Bytes -> Nat \X Nat]
         /\ \A o \in Offsets : buf[o] = content'[At(c, o)]
         /\ \A d \in Cluster : d # c => \A o \in Offsets : content'[At(d, o)] = content[At(d, o)]
<1>1. PICK b \in Nat, m \in Nat, l \in Nat :
        b = call.byte /\ m = call.cc /\ l = LastByte
  BY TurnFacts
<1>2. b <= l /\ l < CSize /\ loc \in Nat /\ At(c, b) = loc + m
  <2>1. LastByte \in Offsets
    BY TurnFacts
  <2>2. b <= l /\ loc \in Nat /\ At(c, b) = loc + m
    BY <1>1, TurnFacts
  <2> QED BY <1>1, <2>1, <2>2, ClusterFacts
<1>3. content \in [Bytes -> Nat \X Nat]
  BY DEF TypeOK
<1>4. PICK was \in [Bytes -> Nat \X Nat], p \in Nat : was = content /\ p = loc
  BY <1>2, <1>3
<1>5. PICK now : now = content'
  OBVIOUS
<1>6. /\ now = Rewritten(was, p, m, m + l - b, t)
      /\ buf = Patched(old, NewBytes(b, l, m, t))
      /\ \A o \in Offsets : old[o] = was[At(c, o)]
  BY <1>1, <1>4, <1>5
<1>7. b <= l /\ l < CSize /\ At(c, b) = p + m
  BY <1>2, <1>4
<1>8. \A x \in Bytes : IF x - p \in m .. m + l - b THEN now[x] = <<t + 1, x - p>>
                                                  ELSE now[x] = was[x]
  BY <1>6 DEF Rewritten
<1>9. \A o \in Offsets : IF o \in b .. l THEN buf[o] = <<t + 1, m + o - b>>
                                         ELSE buf[o] = old[o]
  BY <1>6 DEF Patched, NewBytes
<1>10. \A d \in Cluster, o \in Offsets : At(d, o) \in Bytes
  BY AtInBytes
<1>11. ASSUME NEW o \in Offsets PROVE buf[o] = now[At(c, o)]
  <2>1. PICK x \in Bytes : x = At(c, o)
    BY <1>10
  <2>2. x - p = m + o - b
    BY <1>7, <2>1, TurnPositions
  <2>3. x - p \in m .. m + l - b <=> o \in b .. l
    BY <1>7, <2>1, TurnPositions
  <2>4. CASE o \in b .. l
    <3>1. now[x] = <<t + 1, x - p>>
      BY <1>8, <2>3, <2>4
    <3>2. buf[o] = <<t + 1, m + o - b>>
      BY <1>9, <2>4
    <3> QED BY <2>1, <2>2, <3>1, <3>2
  <2>5. CASE o \notin b .. l
    <3>1. now[x] = was[x]
      BY <1>8, <2>3, <2>5
    <3>2. buf[o] = old[o]
      BY <1>9, <2>5
    <3> QED BY <1>6, <2>1, <3>1, <3>2
  <2> QED BY <2>4, <2>5
<1>12. ASSUME NEW d \in Cluster, d # c, NEW o \in Offsets
      PROVE  now[At(d, o)] = was[At(d, o)]
  <2>1. PICK x \in Bytes : x = At(d, o)
    BY <1>10
  <2>2. ~(x - p \in m .. m + l - b)
    BY <1>7, <1>12, <2>1, TurnPositions
  <2> QED BY <1>8, <2>1, <2>2
<1>13. now \in [Bytes -> Nat \X Nat]
  <2> SUFFICES ASSUME NEW x \in Bytes PROVE now[x] \in Nat \X Nat
    BY <1>6 DEF Rewritten
  <2>1. CASE x - p \in m .. m + l - b
    <3>1. PICK k \in Nat : k = x - p
      BY <2>1
    <3>2. now[x] = <<t + 1, k>>
      BY <1>8, <2>1, <3>1
    <3>3. t + 1 \in Nat
      OBVIOUS
    <3> QED BY <3>2, <3>3
  <2>2. CASE ~(x - p \in m .. m + l - b)
    BY <1>8, <2>2
  <2> QED BY <2>1, <2>2
<1>14. buf \in Contents
  <2> SUFFICES ASSUME NEW o \in Offsets PROVE buf[o] \in Nat \X Nat
    BY <1>6 DEF Contents, Patched
  <2>1. At(c, o) \in Bytes
    BY <1>10
  <2> QED BY <1>11, <1>13, <2>1
<1> QED BY <1>4, <1>5, <1>11, <1>12, <1>13, <1>14

\* Buffer i, which was in no transaction, is in the new one.
LEMMA BindKeepsBound ==
  ASSUME TypeOK, Bound, NEW i \in Bufs, NEW c \in Cluster, NEW t \in Trans, t = transactions,
         h_signal_bit[i] = 0, Bind(i, c, t), transactions' = t + 1,
         state'[i].dirty, cur'[i] = c,
         \A j \in Bufs : j # i => state'[j].dirty = state[j].dirty /\ cur'[j] = cur[j]
  PROVE  /\ Bound'
         /\ h_signal_bit' \in [Bufs -> 0 .. 1]
         /\ handle' \in [Bufs -> Trans \cup {None}]
         /\ b_page' \in [Trans -> Bufs \cup {None}]
         /\ b_blocknr' \in [Trans -> Cluster \cup {None}]
<1>1. t \in Nat /\ t # None /\ c # None /\ \A u \in Trans : u \in Nat /\ u # None
  BY ClusterFacts, MaxTransAssumption DEF Trans
<1>2. /\ h_signal_bit'[i] = 1 /\ handle'[i] = t /\ b_page'[t] = i /\ b_blocknr'[t] = c
      /\ \A j \in Bufs : j # i => h_signal_bit'[j] = h_signal_bit[j] /\ handle'[j] = handle[j]
      /\ \A u \in Trans : u # t => b_page'[u] = b_page[u] /\ b_blocknr'[u] = b_blocknr[u]
  BY DEF Bind, TypeOK
<1>3. handle[i] = None /\ ~state[i].dirty
  BY DEF Bound, HandlesAgree
<1>4. \A j \in Bufs : handle[j] # None => handle[j] \in Trans /\ handle[j] < t /\ handle[j] # t
  BY <1>1 DEF Bound, TypeOK
<1>5. \A j \in Bufs : /\ state'[j].dirty <=> h_signal_bit'[j] = 1
                      /\ h_signal_bit'[j] = 1 <=> handle'[j] # None
  BY <1>1, <1>2 DEF Bound, HandlesAgree
<1>6. ASSUME NEW j \in Bufs, handle'[j] # None
      PROVE  /\ b_page'[handle'[j]] = j /\ b_blocknr'[handle'[j]] = cur'[j]
             /\ handle'[j] < t + 1 /\ cur'[j] # None
  <2>1. CASE j = i
    BY <1>1, <1>2, <2>1
  <2>2. CASE j # i
    <3>0. PICK u : u = handle[j]
      OBVIOUS
    <3>1. handle'[j] = u /\ u \in Trans /\ u # t /\ u < t
      BY <1>2, <1>4, <1>6, <2>2, <3>0
    <3>2. u < t + 1
      BY <1>1, <3>1
    <3>3. b_page[u] = j /\ b_blocknr[u] = cur[j] /\ cur[j] # None
      BY <1>6, <3>0, <3>1 DEF Bound, HandlesAgree
    <3> QED BY <1>2, <2>2, <3>1, <3>2, <3>3
  <2> QED BY <2>1, <2>2
<1>7. ASSUME NEW u \in Trans, b_page'[u] # None
      PROVE  handle'[b_page'[u]] = u
  <2>1. CASE u = t
    BY <1>2, <2>1
  <2>2. CASE u # t
    <3>1. b_page[u] \in Bufs /\ handle[b_page[u]] = u /\ b_page'[u] = b_page[u]
      BY <1>2, <1>7, <2>2 DEF Bound, HandlesAgree, TypeOK
    <3>2. b_page[u] # i
      BY <1>1, <1>3, <3>1
    <3> QED BY <1>2, <3>1, <3>2
  <2> QED BY <2>1, <2>2
<1>8. HandlesAgree'
  BY <1>5, <1>6, <1>7 DEF HandlesAgree
<1>9. Bound'
  BY <1>6, <1>8 DEF Bound
<1>10. /\ h_signal_bit' \in [Bufs -> 0 .. 1] /\ handle' \in [Bufs -> Trans \cup {None}]
       /\ b_page' \in [Trans -> Bufs \cup {None}] /\ b_blocknr' \in [Trans -> Cluster \cup {None}]
  BY DEF Bind, TypeOK
<1> QED BY <1>9, <1>10

LEMMA WriteClusterIInv == IInv /\ WriteCluster => IInv'
<1> SUFFICES ASSUME IInv, WriteCluster PROVE IInv'
  OBVIOUS
<1>1. PICK i \in Bufs :
        /\ Fetch(call.clus, i, TRUE)
        /\ h_signal_bit[i] = 0
        /\ Bind(i, call.clus, transactions)
        /\ data' = [data EXCEPT ![i] =
             Patched(Found(call.clus, i),
                     NewBytes(call.byte, LastByte, call.cc, transactions))]
  BY DEF WriteCluster, Patched, NewBytes
<1>2. content' = Rewritten(content, loc, call.cc, call.cc + LastByte - call.byte,
                           transactions)
  BY DEF WriteCluster, Rewritten
<1>3. /\ call.op = "write" /\ call.op # "none" /\ TypeOK /\ OneBufferPerCluster /\ Held /\ CallOK
      /\ Bound /\ Linked /\ call.clus < Clusters
      /\ UNCHANGED <<opened, card, card_size, got>>
  BY DEF IInv, WriteCluster, InLoop, disk
<1>4. PICK c \in Cluster : c = call.clus
  BY <1>3, ClusterFacts, TurnFacts
<1>5. PICK mark \in BOOLEAN : mark /\ Fetch(c, i, mark)
  BY <1>1, <1>4, Zenon
<1>6. /\ cur'[i] = c
      /\ \A j \in Bufs : j # i => cur'[j] = cur[j] /\ cur[j] # c
      /\ state' \in [Bufs -> States] /\ clock_head' \in Bufs
      /\ \A j \in Bufs : j # i => state'[j].dirty = state[j].dirty
      /\ mark => state'[i].dirty
      /\ cur[i] # c => ~state[i].dirty
      /\ cur' \in [Bufs -> Cluster \cup {None}]
      /\ OneBufferPerCluster'
  <2>1. TypeOK /\ OneBufferPerCluster /\ Fetch(c, i, mark)
    BY <1>3, <1>5
  <2> QED BY <2>1, FetchFacts
<1>7. PICK old : old = Found(c, i)
  OBVIOUS
<1>8. old \in Contents /\ \A o \in Offsets : old[o] = content[At(c, o)]
  <2>1. cur[i] = c \/ \A j \in Bufs : cur[j] # c
    BY <1>6
  <2> QED BY <1>3, <1>7, <2>1, FoundIsContent
<1>9. PICK t : t = transactions
  OBVIOUS
<1>10. PICK buf : buf = Patched(old, NewBytes(call.byte, LastByte, call.cc, t))
  OBVIOUS
<1>11. data' = [data EXCEPT ![i] = buf]
  BY <1>1, <1>4, <1>7, <1>9, <1>10
<1>12. content' = Rewritten(content, loc, call.cc, call.cc + LastByte - call.byte, t)
  BY <1>2, <1>9
<1>13. t \in Trans /\ t \in Nat
  BY <1>3, <1>9, MaxTransAssumption DEF WriteCluster, TypeOK, Trans
<1>14. /\ buf \in Contents
       /\ content' \in [Bytes -> Nat \X Nat]
       /\ \A o \in Offsets : buf[o] = content'[At(c, o)]
       /\ \A d \in Cluster : d # c => \A o \in Offsets : content'[At(d, o)] = content[At(d, o)]
  BY <1>3, <1>4, <1>8, <1>10, <1>12, <1>13, WriteMore
<1>15. Held'
  <2>1. card' = card /\ state'[i].dirty
    BY <1>3, <1>5, <1>6
  <2>2. Rebuffered(c, i, buf)
    BY <1>6, <1>11, <1>14, <2>1 DEF Rebuffered
  <2> QED BY <1>3, <2>2, FetchKeepsHeld
<1>16. data' \in [Bufs -> Contents]
  BY <1>3, <1>11, <1>14 DEF TypeOK
<1>17. ASSUME transactions' = t + 1
       PROVE  /\ Bound'
              /\ h_signal_bit' \in [Bufs -> 0 .. 1]
              /\ handle' \in [Bufs -> Trans \cup {None}]
              /\ b_page' \in [Trans -> Bufs \cup {None}]
              /\ b_blocknr' \in [Trans -> Cluster \cup {None}]
  <2>1. cur'[i] = c /\ state'[i].dirty
    BY <1>5, <1>6
  <2>2. Bind(i, c, t) /\ h_signal_bit[i] = 0
    BY <1>1, <1>4, <1>9
  <2> QED BY <1>3, <1>6, <1>9, <1>13, <1>17, <2>1, <2>2, BindKeepsBound
<1>18. ClosedIsClean' /\ opened
  <2>1. opened
    BY <1>3 DEF IInv, ClosedIsClean
  <2> QED BY <1>3, <2>1 DEF ClosedIsClean
<1>19. /\ call.clus \in Nat /\ call.count \in Nat /\ loc \in Nat /\ call.clus <= LastClus
       /\ LastClus \in Nat
  BY <1>3, TurnFacts
<1>20. CASE call.clus = LastClus /\ Begin(t, t) /\ FinishWrite
  <2>1. /\ Linked'
        /\ transactions' = t + 1 /\ transactions' \in 0 .. MaxTrans
        /\ committed' \subseteq Trans
        /\ t_tnext' \in [Trans -> Trans \cup {None}]
        /\ t_tprev' \in [Trans -> Trans \cup {None}]
        /\ j_running_transaction' \in Trans \cup {None}
        /\ j_committing_transaction' \in Trans \cup {None}
        /\ j_commit_transaction_count' \in Nat
    BY <1>3, <1>9, <1>13, <1>20, BeginKeepsLists
  <2>2. PICK z \in Nat : z = At(Clusters, 0)
    BY AtFacts, ClusterFacts
  <2>3. PICK e \in Nat : e = loc + call.count
    BY <1>19
  <2>4. e <= z
    <3>1. PICK r \in Offsets : At(c, r) = loc + call.count - 1
      BY <1>3, <1>4, <1>20, TurnFacts
    <3>2. e - 1 \in Bytes
      BY <1>19, <2>3, <3>1, AtInBytes
    <3>3. z = Clusters * CSize
      BY <2>2, ClusterFacts DEF At
    <3> QED BY <2>2, <2>3, <3>2, <3>3 DEF Bytes
  <2>5. size \in 0 .. z
    BY <1>3, <2>2 DEF TypeOK
  <2>6. loc' = e /\ call' = NoCall /\ size' = IF e > size THEN e ELSE size
    BY <1>20, <2>3 DEF FinishWrite
  <2>7. size' \in 0 .. z /\ loc' <= size' /\ loc' \in Nat
    BY <2>4, <2>5, <2>6
  <2>8. TypeOK'
    BY <1>3, <1>6, <1>14, <1>16, <1>17, <2>1, <2>2, <2>6, <2>7, NoCallFacts DEF TypeOK
  <2>9. CallOK' /\ ReadSoFar' /\ LocOK'
    BY <2>6, <2>7, NoCallFacts DEF CallOK, ReadSoFar, LocOK
  <2> QED BY <1>6, <1>15, <1>18, <1>17, <2>1, <2>8, <2>9 DEF IInv
<1>21. CASE call.clus < LastClus /\ BeginAndCommit(t) /\ NextTurn /\ size' = size /\ loc' = loc
  <2>1. /\ Linked'
        /\ transactions' = t + 1 /\ transactions' \in 0 .. MaxTrans
        /\ committed' \subseteq Trans
        /\ t_tnext' \in [Trans -> Trans \cup {None}]
        /\ t_tprev' \in [Trans -> Trans \cup {None}]
        /\ j_running_transaction' \in Trans \cup {None}
        /\ j_committing_transaction' \in Trans \cup {None}
        /\ j_commit_transaction_count' \in Nat
    BY <1>3, <1>9, <1>13, <1>21, BeginAndCommitKeepsLists
  <2>2. call.clus + 1 \in 0 .. Clusters
    BY <1>3, <1>19, ClusterFacts
  <2>3. /\ call' \in [op : {"none", "read", "write"}, clus : 0 .. Clusters, byte : Offsets,
                      cc : Nat, count : Nat]
        /\ call'.op = call.op
        /\ CallOK'
    BY <1>3, <1>21, <2>2, NextTurnFacts
  <2>4. TypeOK'
    BY <1>3, <1>6, <1>14, <1>16, <1>17, <1>21, <2>1, <2>3 DEF TypeOK
  <2>5. ReadSoFar' /\ LocOK'
    BY <1>3, <1>21, <2>3 DEF IInv, ReadSoFar, LocOK
  <2> QED BY <1>6, <1>15, <1>18, <1>17, <2>1, <2>3, <2>4, <2>5 DEF IInv
<1> QED BY <1>9, <1>20, <1>21 DEF WriteCluster

\* fs_write returns with its transaction on the running list.
LEMMA AllocFailsIInv == IInv /\ AllocFails => IInv'
<1> SUFFICES ASSUME IInv, AllocFails PROVE IInv'
  OBVIOUS
<1>1. PICK t : t = transactions
  OBVIOUS
<1>2. PICK back \in {t, j_running_transaction} : Begin(t, back)
  BY <1>1 DEF AllocFails
<1>3. /\ TypeOK /\ Bound /\ Linked /\ Held /\ call.op = "write"
      /\ call' = NoCall /\ UNCHANGED <<opened, bufs, size, loc, disk, got, content>>
  BY DEF IInv, AllocFails, InLoop
<1>4. t \in Trans /\ t \in Nat
  BY <1>1, <1>3, MaxTransAssumption DEF AllocFails, TypeOK, Trans
<1>5. /\ Linked'
      /\ transactions' = t + 1 /\ transactions' \in 0 .. MaxTrans
      /\ committed' \subseteq Trans
      /\ t_tnext' \in [Trans -> Trans \cup {None}]
      /\ t_tprev' \in [Trans -> Trans \cup {None}]
      /\ j_running_transaction' \in Trans \cup {None}
      /\ j_committing_transaction' \in Trans \cup {None}
      /\ j_commit_transaction_count' \in Nat
  BY <1>1, <1>2, <1>3, <1>4, BeginKeepsLists
<1>6. TypeOK'
  BY <1>3, <1>5, NoCallFacts DEF TypeOK, bufs, disk
<1>7. OneBufferPerCluster' /\ Held'
  BY <1>3 DEF IInv, OneBufferPerCluster, Held, bufs, disk
<1>8. CallOK' /\ LocOK' /\ ReadSoFar'
  BY <1>3, NoCallFacts DEF IInv, CallOK, LocOK, ReadSoFar
<1>9. ClosedIsClean'
  BY <1>3, NoCallFacts DEF IInv, ClosedIsClean, bufs
<1>10. Bound'
  <2>1. \A i \in Bufs : handle[i] # None => handle[i] < t + 1
    BY <1>1, <1>3, <1>4, MaxTransAssumption DEF Bound, TypeOK, Trans
  <2> QED BY <1>3, <1>5, <2>1 DEF Bound, HandlesAgree, bufs
<1> QED BY <1>5, <1>6, <1>7, <1>8, <1>9, <1>10 DEF IInv

LEMMA AllocHangsIInv == IInv /\ AllocHangs => IInv'
<1> SUFFICES ASSUME IInv, AllocHangs PROVE IInv'
  OBVIOUS
<1>1. PICK erased \in SUBSET (Cluster \X Offsets) :
        card' = [c \in Cluster |-> [o \in Offsets |->
                   IF <<c, o>> \in erased THEN Erased ELSE card[c][o]]]
  BY DEF AllocHangs
<1>2. /\ TypeOK /\ halted' = "fs_alloc"
      /\ UNCHANGED <<opened, bufs, size, loc, card_size, journal, call, got, content>>
  BY DEF IInv, AllocHangs
<1>3. Erased \in Nat \X Nat
  BY ClusterFacts DEF Erased
<1>4. card' \in [Cluster -> Contents]
  BY <1>1, <1>2, <1>3 DEF TypeOK, Contents
<1>5. TypeOK'
  BY <1>2, <1>4 DEF TypeOK, bufs, journal, lists
<1>6. OneBufferPerCluster' /\ CallOK' /\ LocOK' /\ ClosedIsClean' /\ ReadSoFar'
  BY <1>2 DEF IInv, OneBufferPerCluster, CallOK, LocOK, ClosedIsClean, ReadSoFar, bufs
<1>7. Bound'
  BY <1>2, SameBuffers DEF IInv, bufs, journal
<1>8. Linked'
  BY <1>2, SameJournal DEF IInv
<1> QED BY <1>2, <1>5, <1>6, <1>7, <1>8 DEF IInv

LEMMA NextIInv == IInv /\ [Next]_vars => IInv'
<1> SUFFICES ASSUME IInv, [Next]_vars PROVE IInv'
  OBVIOUS
<1>1. CASE fs_open
  BY <1>1, OpenIInv
<1>2. ASSUME NEW new \in 0 .. At(Clusters, 0), fs_lseek(new) PROVE IInv'
  BY <1>2, SeekIInv
<1>3. ASSUME NEW count \in 1 .. MaxCount, fs_read(count) PROVE IInv'
  BY <1>3, ReadIInv
<1>4. ASSUME NEW count \in 1 .. MaxCount, fs_write(count) PROVE IInv'
  BY <1>4, WriteIInv
<1>5. CASE ReadCluster
  BY <1>5, ReadClusterIInv
<1>6. CASE WriteCluster
  BY <1>6, WriteClusterIInv
<1>7. CASE StuckOnVictim
  BY <1>7, SameIInv DEF StuckOnVictim
<1>8. CASE AllocFails
  BY <1>8, AllocFailsIInv
<1>9. CASE StuckOnTransaction
  <2>1. halted # "fs_alloc" /\ UNCHANGED <<opened, bufs, size, loc, disk, journal, call, got, content>>
    BY <1>9 DEF StuckOnTransaction, InLoop
  <2> QED BY <2>1, SameIInv
<1>10. CASE StuckInClose
  BY <1>10, StuckInCloseIInv
<1>11. CASE fs_close
  BY <1>11, CloseIInv
<1>12. CASE AllocHangs
  BY <1>12, AllocHangsIInv
<1>13. CASE UNCHANGED vars
  BY <1>13, SameIInv DEF vars
<1> QED BY <1>1, <1>2, <1>3, <1>4, <1>5, <1>6, <1>7, <1>8, <1>9, <1>10, <1>11, <1>12, <1>13 DEF Next

LEMMA Invariance == Spec => []IInv
BY InitIInv, NextIInv, PTL DEF Spec

----------------------------------------------------------------------------
(* What follows *)

\* The variables of the file, its buffers and the journal keep their types: no index leaves
\* its array, and the loops stay in the file's chain.
THEOREM TypeCorrect == Spec => []TypeOK
<1>1. IInv => TypeOK
  BY DEF IInv
<1> QED BY <1>1, Invariance, PTL

\* Whatever fs_read, fs_write, fs_lseek, fs_open and fs_close are called in, and whichever
\* buffer the clock takes: a buffer has the bytes last written to its cluster, and the card
\* has them when no dirty buffer does, until fs_alloc erases some in its endless loop.
THEOREM EveryByteIsKept == Spec => []NoByteLost
<1>1. IInv => NoByteLost
  BY DEF IInv, Held, NoByteLost
<1> QED BY <1>1, Invariance, PTL

\* What is not on the card has a handle, and the buffer heads keep telling the buffer and
\* the cluster truly, whichever buffers the clock takes for which clusters and whichever
\* calls fail in between.
THEOREM HandlesStayTrue == Spec => []HandlesAgree
<1>1. IInv => HandlesAgree
  BY DEF IInv, Bound
<1> QED BY <1>1, Invariance, PTL

\* The running list is whole along t_tnext, however many calls have left a transaction on
\* it; t_tprev undoes it, or points to its own transaction (line 876).
THEOREM RunningListIsWhole == Spec => []RunningList
<1>1. IInv => RunningList
  BY DEF IInv, Linked
<1> QED BY <1>1, Invariance, PTL

\* When fs_read comes back it has read as many bytes as loc has moved, and they are those
\* of the file, whatever was in the buffers and wherever the clusters end.
THEOREM ReadsWhatWasWritten == Spec => ReadsBack
<1> DEFINE Back == call.op = "read" /\ call'.op = "none" =>
                     /\ Len(got') = loc' - loc
                     /\ \A k \in 1 .. Len(got') : got'[k] = content[loc + k - 1]
<1>1. IInv /\ [Next]_vars => Back
  <2> SUFFICES ASSUME IInv, [Next]_vars, call.op = "read", call'.op = "none"
               PROVE  /\ Len(got') = loc' - loc
                      /\ \A k \in 1 .. Len(got') : got'[k] = content[loc + k - 1]
    OBVIOUS
  <2>1. ReadCluster
    <3>1. call' # call
      OBVIOUS
    <3> QED BY <3>1 DEF IInv, ClosedIsClean, Next, vars, fs_open, fs_lseek, fs_read, fs_write,
                 WriteCluster, StuckOnVictim, AllocFails, AllocHangs, StuckOnTransaction,
                 StuckInClose, fs_close, Idling, InLoop
  <2>2. PICK c \in Cluster, i \in Bufs : TurnRead(c, i)
    BY <2>1, ReadTurn
  <2>3. /\ Len(got') = call.cc + LastByte - call.byte + 1
        /\ \A k \in 1 .. Len(got') : got'[k] = content[loc + k - 1]
    BY <2>2 DEF TurnRead
  <2>4. ~(call.clus < LastClus /\ NextTurn)
    BY DEF NextTurn, IInv, TypeOK
  <2>5. call.clus = LastClus /\ loc' = loc + call.count
    BY <2>1, <2>4 DEF ReadCluster
  <2>6. /\ call.byte \in Nat /\ call.cc \in Nat /\ call.count \in Nat /\ loc \in Nat
        /\ LastByte \in Nat /\ call.cc + (LastByte - call.byte + 1) = call.count
    BY <2>5, TurnFacts DEF IInv
  <2>7. Len(got') = loc' - loc
    <3>1. PICK n, b, k, l : n = call.count /\ b = call.byte /\ k = call.cc /\ l = LastByte
      OBVIOUS
    <3>2. /\ n \in Nat /\ b \in Nat /\ k \in Nat /\ l \in Nat /\ loc \in Nat
          /\ k + (l - b + 1) = n /\ loc' = loc + n
      BY <2>5, <2>6, <3>1
    <3>3. PICK g : g = Len(got') /\ g = k + l - b + 1
      BY <2>3, <3>1
    <3>4. g = n
      BY <3>2, <3>3
    <3> QED BY <3>2, <3>3, <3>4
  <2> QED BY <2>3, <2>7
<1> QED BY <1>1, Invariance, PTL DEF Spec, ReadsBack
=============================================================================
