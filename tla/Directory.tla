----------------------------- MODULE Directory -----------------------------
(***************************************************************************)
(* Directories: fs_find, fs_find_empty_entry, fs_create_with_attr,         *)
(* fs_close, fs_fflush (kernel/fs/fat/fat.c), the operations of usr.c and  *)
(* dir.c, over the buffers of sectors (fs_read_512 and fs_write_512 of     *)
(* fscache.c, with the clock of Clock) and the promise of the buffers of   *)
(* the file allocation table (FatTable).                                   *)
(*                                                                         *)
(* One scan of a sector, one access of the card and one access of the      *)
(* table is a step; the machine may stop between any two.  Sector numbers  *)
(* are those of the code, sums with base_addr included: fs_read_512 adds   *)
(* base_addr to a number that its callers sometimes took from cur, which   *)
(* has it already, and get_fat_entry_value is sometimes given a sector.    *)
(* Of an entry its name, whether it is a directory and its first cluster   *)
(* are kept; the conversion of names to the form 8.3 is left out.          *)
(***************************************************************************)
EXTENDS Clock, Sequences, FiniteSets

CONSTANTS
  Base,        \* base_addr: the first sector of the partition
  FirstData,   \* first_data_sector, from the start of the partition
  Spc,         \* sectors_per_cluster
  PerSector,   \* entries in a sector: 512 / 32
  Total,       \* total_data_clusters
  FirstCard,   \* the sectors of the card in the beginning
  FirstFat,    \* the file allocation table in the beginning
  NextFree,    \* the cluster that FSI_Nxt_Free leads fs_alloc to
  EntryNames,  \* what the names of entries may be, those of unused ones included
  Commands,    \* the commands given: <<what, path>>
  Directories, \* the first clusters of the directories
  MaxCrashes   \* bound: how often the machine stops

VARIABLES
  card,                 \* card[s][k]: entry k of sector s of the card
  cur,                  \* dir_data_buf[i].cur
  state,                \* dir_data_buf[i].state
  data,                 \* dir_data_buf[i].buf
  dir_data_clock_head,
  view, stable,         \* the table, for the callers and on the card (see FatTable)
  call,                 \* the command in progress, with its local variables
  crashes,              \* how often the machine has stopped
  roomy                 \* history: no command so far was one that Roomy excludes

bufs == <<cur, state, data, dir_data_clock_head>>
fats == <<view, stable>>
volume == <<card, bufs, fats, call, crashes>>

\* What is read from the table is kept in call.
Fat == INSTANCE FatTable WITH
         Sectors <- DOMAIN FirstFat, Values <- Nat, Blank <- 0, got <- 0

Slots     == 0 .. PerSector - 1
Clusters  == 2 .. Total + 1
Root      == 2
None      == -1       \* 0xffffffff
Free      == 0        \* a free cluster in the table
EndOfChain == Total + 2  \* the end of a chain, larger than any cluster

fs_dataclus2sec(c) == FirstData + (c - 2) * Spc

\* The first sector of cluster c on the card.
FirstSector(c) == fs_dataclus2sec(c) + Base

End      == [name |-> "", dir |-> FALSE, clus |-> 0]  \* the first byte is 0
IsEnd(e) == e.name = ""
Gone     == "E5"                                      \* the first byte is 0xE5
IsGone(e) == e.name = Gone

Entries == [name : EntryNames, dir : BOOLEAN, clus : Nat]

ASSUME SizesAssumption == Spc \in Nat \ {0} /\ PerSector \in Nat
ASSUME NamesAssumption == {End.name, Gone} \subseteq EntryNames

\* Directories, new ones without a cluster included, are on the card.
ASSUME CardAssumption ==
  /\ None \notin DOMAIN FirstCard
  /\ FirstCard \in [DOMAIN FirstCard -> [Slots -> Entries]]
  /\ \A d \in Directories \cup {Root, 0} : FirstSector(d) \in DOMAIN FirstCard
  /\ \A s \in DOMAIN FirstCard, k \in Slots :
       FirstCard[s][k].dir => FirstSector(FirstCard[s][k].clus) \in DOMAIN FirstCard

\* FSI_Nxt_Free is legal and leads to a free cluster.
ASSUME TableAssumption ==
  /\ FirstFat \in [DOMAIN FirstFat -> Nat]
  /\ Clusters \subseteq DOMAIN FirstFat
  /\ NextFree \in Clusters /\ FirstFat[NextFree] = Free

ASSUME CommandsAssumption ==
  Commands \subseteq {"create", "mkdir", "rm", "cat", "ls"} \X (Seq(EntryNames) \ {<<>>})

\* A FILE of which fs_find found nothing: dir_entry_pos = 0xFFFFFFFF.
NoFile == [sector |-> None, pos |-> None, entry |-> End]

NoCall == [op |-> "none", at |-> "return", stage |-> "", path |-> <<>>, depth |-> 0, upto |-> 0, sec |-> 0, index |-> 0, file |-> NoFile,
           clus |-> 0, next |-> 0, loc |-> 0, listed |-> {}]

Empty == [i \in Bufs |-> [k \in Slots |-> End]]

TreeInit ==
  /\ card = FirstCard
  /\ cur = [i \in Bufs |-> None]
  /\ state = [i \in Bufs |-> [ref |-> FALSE, dirty |-> FALSE]]
  /\ data = Empty
  /\ dir_data_clock_head = 0
  /\ view = FirstFat
  /\ stable = FirstFat
  /\ call = NoCall
  /\ crashes = 0

----------------------------------------------------------------------------
\* The buffers of sectors.

\* fs_write_512
Written(i) ==
  IF cur[i] # None /\ state[i].dirty THEN [card EXCEPT ![cur[i]] = data[i]] ELSE card

\* fs_read_512 finds the sector in buffer i.
Hit512(s, i) ==
  /\ cur[i] = s + Base
  /\ \A j \in 0 .. i - 1 : cur[j] # s + Base
  /\ state' = [state EXCEPT ![i].ref = TRUE]
  /\ UNCHANGED <<cur, data, dir_data_clock_head, card>>

\* fs_read_512 reads the sector into buffer i.  An error of the card, as of a
\* sector it does not have, is not noticed and leaves the buffer as it is.
Miss512(s, i) ==
  /\ \A j \in Bufs : cur[j] # s + Base
  /\ \E d \in Bufs, after \in {Swept(state, dir_data_clock_head, n) : n \in 0 .. NBuf} :
       /\ i = Ahead(dir_data_clock_head, d)
       /\ Victim(state, dir_data_clock_head, d, after)
       /\ state' = [after EXCEPT ![i] = [ref |-> TRUE, dirty |-> FALSE]]
  /\ card' = Written(i)
  /\ dir_data_clock_head' = Ahead(i, 1)
  /\ cur' = [cur EXCEPT ![i] = s + Base]
  /\ data' = [data EXCEPT ![i] = IF s + Base \in DOMAIN card THEN card'[s + Base] ELSE @]

fs_read_512(s, i) == Hit512(s, i) \/ Miss512(s, i)

\* The sector s is read for call c, which goes on at `at', in turn sec of the
\* loop over the sectors of a cluster.
Goto(c, s, at, sec) ==
  /\ \E i \in Bufs :
       /\ fs_read_512(s, i)
       /\ call' = [c EXCEPT !.at = at, !.sec = sec, !.index = i, !.next = 0]
  /\ UNCHANGED <<fats, crashes>>

Stay(c) == call' = c /\ UNCHANGED <<card, bufs, fats, crashes>>

Return == Stay(NoCall)

\* The loops of fs_find, fs_find_empty_entry and fs_read_dir go from sector to
\* sector of a cluster, `step' sectors on, and from cluster to cluster.
NextSector(step) ==
  /\ call.sec < Spc
  /\ Goto([call EXCEPT !.loc = 0], cur[call.index] + step, call.at, call.sec + 1)

AskTable ==
  /\ call.sec = Spc
  /\ Stay([call EXCEPT !.sec = Spc + 1, !.next = view[cur[call.index] - Spc + 1]])

NextCluster ==
  /\ call.sec = Spc + 1
  /\ call.next <= Total + 1
  /\ Goto([call EXCEPT !.loc = 0], fs_dataclus2sec(call.next), call.at, 1)

NoCluster == call.sec = Spc + 1 /\ call.next > Total + 1

Sector == data[call.index]

\* k is the first slot of the sector, from slot `from' on, with property P.
FirstSlot(P(_), from, k) ==
  /\ k >= from
  /\ P(Sector[k])
  /\ \A j \in from .. k - 1 : ~P(Sector[j])

NoSlot(P(_), from) == call.sec <= Spc /\ \A k \in Slots : k >= from => ~P(Sector[k])

----------------------------------------------------------------------------
\* fs_find of the first `upto' names of the path, from the root.
fs_find(c, stage, upto) ==
  Goto([c EXCEPT !.stage = stage, !.upto = upto, !.depth = 1, !.file = NoFile],
       fs_dataclus2sec(Root), "scan", 1)

Found(file) == Stay([call EXCEPT !.at = "found", !.file = file])

\* Variant: deleted entries end the search too.
StopsScanAtGone(e) == IsEnd(e) \/ IsGone(e) \/ e.name = call.path[call.depth]

StopsScan(e) == IsEnd(e) \/ e.name = call.path[call.depth]

\* The search of a sector ends at the name or at the first entry never used.
ScanSector ==
  /\ call.at = "scan"
  /\ \E k \in Slots :
       /\ FirstSlot(StopsScan, 0, k)
       /\ LET e == Sector[k] IN
          \/ /\ e.name # call.path[call.depth] \/ (call.depth < call.upto /\ ~e.dir)
             /\ Found(NoFile)
          \/ /\ e.name = call.path[call.depth]
             /\ call.depth = call.upto
             /\ Found([sector |-> cur[call.index] - Base, pos |-> k, entry |-> e])
          \/ /\ e.name = call.path[call.depth]
             /\ call.depth < call.upto
             /\ e.dir
             /\ IF e.clus <= Total + 1
                THEN Goto([call EXCEPT !.depth = @ + 1], fs_dataclus2sec(e.clus), "scan", 1)
                ELSE Found(NoFile)

ScanOn ==
  /\ call.at = "scan"
  /\ NoSlot(StopsScan, 0)
  /\ NextSector(1) \/ AskTable

ScanOver ==
  /\ call.at = "scan"
  /\ NextCluster \/ (NoCluster /\ Found(NoFile))

----------------------------------------------------------------------------
\* The commands begin with fs_open: of rm, rmdir and cat, or of any program that
\* opens and closes, or that in fs_create_with_attr.
Begin(c) ==
  /\ call.op = "none"
  /\ fs_find([NoCall EXCEPT !.op = c[1], !.path = c[2]],
             IF c[1] \in {"create", "mkdir"} THEN "exists" ELSE "open", Len(c[2]))

\* ls of the root: fs_open_dir without fs_find.
BeginListRoot ==
  /\ call.op = "none"
  /\ Goto([NoCall EXCEPT !.op = "ls", !.file.entry.clus = Root], fs_dataclus2sec(Root), "list", 1)

There == call.file # NoFile

\* Variant: the entry is not marked.
FoundToRemoveUnmarked ==
  /\ call.at = "found" /\ call.stage = "open" /\ There
  /\ call.op = "rm"
  /\ Stay([call EXCEPT !.at = "free", !.clus = call.file.entry.clus])

\* fs_rm and fs_rmdir: the entry in memory is marked, then the chain is freed.
FoundToRemove ==
  /\ call.at = "found" /\ call.stage = "open" /\ There
  /\ call.op = "rm"
  /\ Stay([call EXCEPT !.at = "free", !.clus = call.file.entry.clus, !.file.entry.name = Gone])

\* fs_cat closes the file as it was opened.
FoundToClose ==
  /\ call.at = "found" /\ call.stage = "open" /\ There
  /\ call.op = "cat"
  /\ Stay([call EXCEPT !.at = "close"])

\* fs_open_dir, then fs_read_dir again and again.
FoundToList ==
  /\ call.at = "found" /\ call.stage = "open" /\ There
  /\ call.op = "ls"
  /\ IF call.file.entry.dir THEN Goto(call, fs_dataclus2sec(call.file.entry.clus), "list", 1) ELSE Return

\* What fails for a missing name, and fs_create_with_attr for an existing one.
FoundToFail ==
  /\ call.at = "found"
  /\ There <=> call.stage = "exists"
  /\ Return

\* fs_create_with_attr: the parent is looked up, unless it is the root.
FoundToCreate ==
  /\ call.at = "found" /\ call.stage = "exists" /\ ~There
  /\ IF Len(call.path) = 1
     THEN Goto(call, fs_dataclus2sec(Root), "empty", 1)
     ELSE fs_find(call, "parent", Len(call.path) - 1)

\* Whether the parent is a directory is not asked.
ParentFound ==
  /\ call.at = "found" /\ call.stage = "parent" /\ There
  /\ Goto(call, fs_dataclus2sec(call.file.entry.clus), "empty", 1)

\* fs_mkdir writes to the new file, which has no cluster.
ReopenedToWrite ==
  /\ call.at = "found" /\ call.stage = "reopen" /\ There
  /\ call.op = "mkdir"
  /\ Stay([call EXCEPT !.at = "alloc"])

----------------------------------------------------------------------------
Unused(e) == IsEnd(e) \/ IsGone(e)

\* The end of fs_create_with_attr: the new entry goes into the buffer.
EmptyFound ==
  /\ call.at = "empty"
  /\ \E k \in Slots :
       /\ FirstSlot(Unused, 0, k)
       /\ data' = [data EXCEPT ![call.index][k] =
            [name |-> call.path[Len(call.path)], dir |-> call.op = "mkdir", clus |-> 0]]
  /\ state' = [state EXCEPT ![call.index] = [ref |-> TRUE, dirty |-> TRUE]]
  /\ call' = [call EXCEPT !.at = "flush"]
  /\ UNCHANGED <<card, cur, dir_data_clock_head, fats, crashes>>

EmptyOn ==
  /\ call.at = "empty"
  /\ NoSlot(Unused, 0)
  /\ NextSector(call.sec) \/ AskTable

EmptyOver ==
  /\ call.at = "empty"
  /\ NextCluster \/ (NoCluster /\ Stay([call EXCEPT !.at = "alloc"]))

\* fs_alloc marks a cluster and looks for a free one behind it.  FSI_Nxt_Free moves
\* only in an fs_alloc that finds one, and that never returns: so the cluster is
\* always the same.
FreeAfter(c) == \E d \in c + 1 .. Total + 1 : view[d] = Free

Marks == call.at = "alloc" /\ Fat!Modify(NextFree, EndOfChain)

\* The sectors that are then cleared are counted from the beginning of the card, not
\* of the partition.  sd_write_block writes them, here in one step, and does not return.
Erased == fs_dataclus2sec(NextFree) .. fs_dataclus2sec(NextFree + 1) - 1

Alloc ==
  /\ Marks
  /\ FreeAfter(NextFree)
  /\ card' = [s \in DOMAIN card |-> IF s \in Erased THEN [k \in Slots |-> End] ELSE card[s]]
  /\ call' = [call EXCEPT !.at = "stuck"]
  /\ UNCHANGED <<bufs, crashes>>

\* fs_create_with_attr fails when fs_alloc does; fs_mkdir, whose fs_write answers
\* 0xFFFFFFFF and not 1, goes on.
AllocFails ==
  /\ Marks
  /\ ~FreeAfter(NextFree)
  /\ call' = IF call.stage = "reopen" THEN [call EXCEPT !.at = "rewrite"] ELSE NoCall
  /\ UNCHANGED <<card, bufs, crashes>>

\* Two more times fs_mkdir calls fs_write, which marks the same cluster and fails in
\* the same way.  Then fs_mkdir closes the file.
WriteAgain ==
  /\ call.at = "rewrite"
  /\ Stay([call EXCEPT !.at = "close"])

\* The buffer of the table may be bound to the handle of an earlier fs_write that
\* failed: then read_fat_sector never returns.
StateOneError ==
  /\ call.stage = "reopen" /\ call.at \in {"alloc", "rewrite"}
  /\ view[NextFree] = EndOfChain
  /\ Stay([call EXCEPT !.at = "stuck"])

----------------------------------------------------------------------------
\* The loop of fs_rm over the chain: get_fat_entry_value, then fs_modify_fat.
FreeGet ==
  /\ call.at = "free"
  /\ call.clus # 0 /\ call.clus <= Total + 1
  /\ Stay([call EXCEPT !.at = "freed", !.next = view[call.clus]])

FreeModify ==
  /\ call.at = "freed"
  /\ Fat!Modify(call.clus, Free)
  /\ call' = [call EXCEPT !.at = "free", !.clus = call.next]
  /\ UNCHANGED <<card, bufs, crashes>>

FreeOver ==
  /\ call.at = "free"
  /\ call.clus = 0 \/ call.clus > Total + 1
  /\ Stay([call EXCEPT !.at = "close"])

\* fs_close reads the sector of the entry and puts the entry back into it.
Close ==
  /\ call.at = "close"
  /\ \E i \in Bufs :
       /\ fs_read_512(call.file.sector, i)
       /\ call' = [call EXCEPT !.at = "closing", !.index = i]
  /\ UNCHANGED <<fats, crashes>>

Closing ==
  /\ call.at = "closing"
  /\ data' = [data EXCEPT ![call.index][call.file.pos] = call.file.entry]
  /\ state' = [state EXCEPT ![call.index] = [ref |-> TRUE, dirty |-> TRUE]]
  /\ call' = [call EXCEPT !.at = "flush"]
  /\ UNCHANGED <<card, cur, dir_data_clock_head, fats, crashes>>

Dirty == {i \in Bufs : state[i].dirty}

\* A sector of the table is written, by fs_fflush or when its buffer is needed.
PersistFat ==
  /\ call.at \notin {"stuck", "return"}
  /\ \E c \in Clusters : view[c] # stable[c] /\ Fat!Persist(c)
  /\ UNCHANGED <<card, bufs, call, crashes>>

\* fs_fflush: when the table is written, the buffers of sectors are, in order.
FlushSector ==
  /\ call.at = "flush"
  /\ view = stable
  /\ \E i \in Dirty :
       /\ \A j \in Dirty : i <= j
       /\ card' = Written(i)
       /\ state' = [state EXCEPT ![i].dirty = FALSE]
  /\ UNCHANGED <<cur, data, dir_data_clock_head, fats, call, crashes>>

\* Variant: the last buffer is not written.
FlushedShort(i) == i = NBuf - 1 \/ ~state[i].dirty

Flushed(i) == ~state[i].dirty

FlushOver ==
  /\ call.at = "flush"
  /\ view = stable
  /\ \A i \in Bufs : Flushed(i)
  /\ IF call.op = "mkdir" /\ call.stage # "reopen"
     THEN fs_find(call, "reopen", Len(call.path)) ELSE Return

----------------------------------------------------------------------------
\* Variant: deleted entries are listed too.
StopsListGoneToo(e) == TRUE

StopsList(e) == ~IsGone(e)

\* fs_read_dir: the next entry from loc on that is not deleted.
ListSector ==
  /\ call.at = "list"
  /\ \E k \in Slots :
       /\ FirstSlot(StopsList, call.loc, k)
       /\ Stay(IF IsEnd(Sector[k]) THEN [call EXCEPT !.at = "listed"]
               ELSE [call EXCEPT !.loc = k + 1, !.listed = @ \cup {Sector[k].name}])

ListOn ==
  /\ call.at = "list"
  /\ NoSlot(StopsList, call.loc)
  /\ NextSector(call.sec) \/ AskTable

ListOver ==
  /\ call.at = "list"
  /\ NextCluster \/ (NoCluster /\ Stay([call EXCEPT !.at = "listed"]))

Listed == call.at = "listed" /\ Return

\* The machine is switched off and on: init_dir_buf and init_fat_buf.
Crash ==
  /\ crashes < MaxCrashes
  /\ crashes' = crashes + 1
  /\ Fat!Crash
  /\ cur' = [i \in Bufs |-> None]
  /\ state' = [i \in Bufs |-> [ref |-> FALSE, dirty |-> FALSE]]
  /\ data' = Empty
  /\ dir_data_clock_head' = 0
  /\ call' = NoCall
  /\ UNCHANGED card

Step ==
  \/ ScanSector \/ ScanOn \/ ScanOver
  \/ FoundToRemove \/ FoundToClose \/ FoundToList \/ FoundToFail
  \/ FoundToCreate \/ ParentFound \/ ReopenedToWrite
  \/ EmptyFound \/ EmptyOn \/ EmptyOver
  \/ Alloc \/ AllocFails \/ WriteAgain \/ StateOneError
  \/ FreeGet \/ FreeModify \/ FreeOver
  \/ Close \/ Closing
  \/ PersistFat \/ FlushSector \/ FlushOver
  \/ ListSector \/ ListOn \/ ListOver \/ Listed
  \/ Crash

----------------------------------------------------------------------------
\* The sector s of the card as the callers see it.
Seen(s) ==
  IF \E i \in Bufs : cur[i] = s
  THEN data[CHOOSE i \in Bufs : cur[i] = s /\ \A j \in 0 .. i - 1 : cur[j] # s]
  ELSE card[s]

OnCard(s) == card[s]

\* The entries of the directory at cluster d, with their slots: those before the
\* first one never used, in its first sector.
In(sector(_), d) ==
  LET s == sector(FirstSector(d))
  IN  {[slot |-> k, name |-> s[k].name, dir |-> s[k].dir, clus |-> s[k].clus] :
        k \in {j \in Slots : ~IsGone(s[j]) /\ \A i \in 0 .. j : ~IsEnd(s[i])}}

\* The directories that are found from the root: they are in every set that holds the
\* root and what is found from its members.
Reached(sector(_)) ==
  LET all == Directories \cup {Root}
      Closed(S) == \A d \in S : \A e \in In(sector, d) : e.dir /\ e.clus \in Directories => e.clus \in S
  IN  {d \in all : \A S \in SUBSET all : Root \in S /\ Closed(S) => d \in S}

Tree(sector(_)) ==
  [d \in Directories |-> IF d \in Reached(sector) THEN In(sector, d) ELSE {}]

AllIn(sector(_)) == UNION {Tree(sector)[d] : d \in Directories}

\* The chain of a file's clusters.
Chain[c \in Clusters] ==
  {c} \cup (IF FirstFat[c] \in Clusters THEN Chain[FirstFat[c]] ELSE {})

\* The entries whose clusters, or some of them, are free on the card.
Dangling ==
  {e \in AllIn(OnCard) : e.clus \in Clusters /\ \E c \in Chain[e.clus] : stable[c] = Free}

Parents(path) ==
  IF Len(path) = 1 THEN {Root} ELSE {e.clus : e \in {f \in AllIn(Seen) : f.name = path[Len(path) - 1]}}

\* The commands that the code is made for: a name on the way is that of a
\* directory with a cluster, and a directory that is removed has none in it.
Careful(c) ==
  LET path  == c[2]
      steps == IF c[1] = "ls" THEN Len(path) ELSE Len(path) - 1
      Named(n) == {e \in AllIn(Seen) : e.name = n}
  IN  /\ \A n \in 1 .. steps : \A e \in Named(path[n]) : e.dir /\ e.clus \in Directories
      /\ c[1] = "rm" => \A e \in Named(path[Len(path)]) :
           e.clus \in Directories => \A f \in Tree(Seen)[e.clus] : ~f.dir

CarefulNext == Step \/ BeginListRoot \/ \E c \in Commands : Careful(c) /\ Begin(c)

\* A new name leaves an entry never used behind it in the first sector of its directory.
Roomy(c) ==
  c[1] \in {"create", "mkdir"} => \A d \in Parents(c[2]) : \E j, k \in Slots :
    LET s == Seen(FirstSector(d)) IN j < k /\ Unused(s[j]) /\ IsEnd(s[k])

CommandBegins == call.op = "none" /\ call'.op # "none"

Noted == roomy' = (roomy /\ (CommandBegins => Roomy(<<call'.op, call'.path>>)))

VolumeInit == TreeInit /\ roomy = TRUE

CarefulSpec == VolumeInit /\ [][CarefulNext /\ Noted]_<<volume, roomy>>

----------------------------------------------------------------------------
\* Directories are a tree of names: a name is created once and removed, alone
\* or with its directory, whatever buffers the sectors pass through, and after
\* a stop of the machine the tree is the one on the card (fs_create, fs_rm,
\* fs_cat, fs_fflush and the buffers under them).  So it is until a name fills the
\* first sector of its directory: from there fs_find goes astray (fat.c:404, 410).
Promise == INSTANCE Names WITH tree <- Tree(Seen), stored <- Tree(OnCard)
NamesSpec ==
  Promise!Init /\ [][~roomy' \/ Promise!Next]_<<Tree(Seen), Tree(OnCard)>>

\* An entry on the card whose clusters are free comes only from a removal that
\* was interrupted or is in progress: fs_rm frees the chain before the entry
\* is marked, and fs_fflush writes the table before the entry.
DanglingBounded ==
  Cardinality(Dangling) <= crashes + (IF call.op = "rm" THEN 1 ELSE 0)

\* A stop between two commands loses nothing that they did, those that failed
\* included, but the mark of a cluster whose allocation failed (fs_fflush in
\* fs_close; the error returns of fs_create_with_attr and fs_alloc).
ReturnsStored ==
  [][call.op = "none" /\ crashes' # crashes =>
       /\ Tree(Seen)' = Tree(Seen)
       /\ \A c \in Clusters : view'[c] # view[c] => c = NextFree /\ view[c] = EndOfChain]_volume

\* ls lists what is in the directory, no more and no less, if the directory
\* does not fill its first sector.
ListsAll ==
  LET d == call.file.entry.clus
  IN  call.at = "listed" /\ (\E k \in Slots : IsEnd(Seen(FirstSector(d))[k]))
        => call.listed = {e.name : e \in In(Seen, d)}

\* From one sector fs_find goes to the next in the cluster (fat.c:404).
NextSectorIsNext ==
  [][call.at = "scan" /\ call'.at = "scan" /\ call'.sec = call.sec + 1 /\ call'.sec <= Spc
       => cur'[call'.index] = cur[call.index] + 1]_volume

\* The cluster that a sector of the card belongs to.
ClusterOf(s) == CHOOSE c \in Clusters : s \in FirstSector(c) .. FirstSector(c + 1) - 1

\* From the last sector of a cluster fs_find goes on to the cluster that follows in
\* the directory (fat.c:410).
NextClusterIsNext ==
  [][call.at = "scan" /\ call'.at = "scan" /\ call.sec = Spc /\ call'.sec = Spc + 1
       => call'.next = view[ClusterOf(cur[call.index])]]_volume

\* The cluster that fs_alloc gives is erased on the card (fat.c:716).
NewClusterErased ==
  [][call.at = "alloc" /\ call'.at = "stuck"
       => \A s \in FirstSector(NextFree) .. FirstSector(NextFree + 1) - 1, k \in Slots :
            IsEnd(card'[s][k])]_volume
=============================================================================
