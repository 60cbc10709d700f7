------------------------------ MODULE Recovery ------------------------------
(***************************************************************************)
(* What the journal does when the file system is mounted: the superblock   *)
(* of the log is read or made (kernel/fs/fat/journal.c), and the log is    *)
(* gone through three times (kernel/fs/fat/recovery.c).                    *)
(*                                                                         *)
(* The log on the card is any log.  Of a block its type is kept, the       *)
(* sequence number, of a descriptor block the flags of its tags, of a      *)
(* revoke block how many records it has; a block without the magic number  *)
(* has type "data".  Read errors of the card are left out.                 *)
(***************************************************************************)
EXTENDS Integers, Sequences, FiniteSets, FiniteSetsExt

CONSTANTS
  First, Last,   \* the log's blocks are First .. Last - 1 (s_first, s_maxlen)
  Cards,         \* what the card may have: a superblock and a log
  TagSlots,      \* the tags a descriptor block has room for
  U16            \* 2^16, what a u16 wraps at

ASSUME LogAssumption == First \in Nat \ {0} /\ Last \in Nat /\ First < Last

Ring == First .. Last - 1

ASSUME CardsAssumption ==
  \A card \in Cards :
    card.superblock.s_sequence \in Nat /\ card.superblock.s_start \in Ring \cup {0}
\* A block of 512 bytes has room for 62 tags, the log for 127 blocks.
ASSUME TagsAssumption == TagSlots \in Nat /\ TagSlots <= Last - First
ASSUME U16Assumption == U16 \in Nat /\ U16 > 0

VARIABLES
  superblock,       \* on the card: [valid, s_sequence, s_start]
  log,              \* the blocks of the log, on the card
  room,             \* how many tags fit into j_blocksize, which nobody sets
  stage,            \* where init_journal_info is
  pass,
  next_commit_ID, next_log_block,
  bh, tagp,         \* the descriptor block of the replay and its tag, or 0
  end_transaction,  \* info.end_transaction
  replayed,         \* the blocks of the log written where they belong
  j_transaction_sequence,
  accepted          \* the sequence numbers of the blocks the scan has accepted

walk  == <<next_commit_ID, next_log_block, bh, tagp>>
found == <<superblock, log, room>>
vars  == <<found, stage, pass, walk, end_transaction, replayed, j_transaction_sequence, accepted>>

Init ==
  /\ \E card \in Cards : superblock = card.superblock /\ log = card.log
  /\ room \in 0 .. TagSlots
  /\ stage = "off"
  /\ pass = "scan"
  /\ next_commit_ID = 0
  /\ next_log_block = 0
  /\ bh = 0
  /\ tagp = 0
  /\ end_transaction = 0
  /\ replayed = {}
  /\ j_transaction_sequence = 0
  /\ accepted = {}

wrap(b) == IF b >= Last THEN b - (Last - First) ELSE b

\* The result of jread, which fails only without a buffer.
jread == 1

\* Variant: without the flag of the last tag.
count_tagsAll(tags) == IF room < Len(tags) THEN room ELSE Len(tags)

\* One tag after the other, up to the one with JFS_FLAG_LAST_TAG.
count_tags(tags) ==
  LET lasts == {i \in 1 .. room : tags[i].last}
  IN  IF lasts = {} THEN room ELSE CHOOSE i \in lasts : \A j \in lasts : i <= j

----------------------------------------------------------------------------
\* journal_get_superblock finds none, journal_new_superblock makes one, and
\* journal_update_superblock writes it.
NewSuperblock ==
  /\ stage = "off"
  /\ ~superblock.valid
  /\ superblock' = [valid |-> TRUE, s_sequence |-> 0, s_start |-> 0]
  /\ stage' = "mounted"
  /\ UNCHANGED <<log, room, pass, walk, end_transaction, replayed, j_transaction_sequence, accepted>>

\* journal_recover: "no need to recovery!"
NoRecovery ==
  /\ stage = "off"
  /\ superblock.valid
  /\ superblock.s_start = 0
  /\ j_transaction_sequence' = superblock.s_sequence + 1
  /\ stage' = "mounted"
  /\ UNCHANGED <<found, pass, walk, end_transaction, replayed, accepted>>

\* do_one_pass begins at the oldest transaction.
BeginPass(p) ==
  /\ pass' = p
  /\ next_commit_ID' = superblock.s_sequence
  /\ next_log_block' = superblock.s_start
  /\ bh' = 0
  /\ tagp' = 0

BeginScan ==
  /\ stage = "off"
  /\ superblock.valid
  /\ superblock.s_start # 0
  /\ BeginPass("scan")
  /\ stage' = "recovering"
  /\ UNCHANGED <<found, end_transaction, replayed, j_transaction_sequence, accepted>>

\* The outer loop of do_one_pass reads this block.
Block == log[next_log_block]

\* The block belongs to the transaction that is expected.
Expected == Block.seq = next_commit_ID

Here(type) ==
  /\ stage = "recovering"
  /\ tagp = 0
  /\ Block.type = type
  /\ Expected

Accept ==
  /\ accepted' = IF pass = "scan" THEN accepted \cup {Block.seq} ELSE accepted
  /\ UNCHANGED <<found, stage, pass, end_transaction, replayed, j_transaction_sequence>>

\* Variant: one block more than it has tags is skipped.
SkipDescriptorAndOne ==
  /\ Here("descriptor")
  /\ pass # "replay"
  /\ next_log_block' = wrap(wrap(next_log_block + 1) + count_tags(Block.tags) + 1)
  /\ Accept
  /\ UNCHANGED <<next_commit_ID, bh, tagp>>

\* A descriptor block: not in the replay, its blocks are skipped.
SkipDescriptor ==
  /\ Here("descriptor")
  /\ pass # "replay"
  /\ next_log_block' = wrap(wrap(next_log_block + 1) + count_tags(Block.tags))
  /\ Accept
  /\ UNCHANGED <<next_commit_ID, bh, tagp>>

\* In the replay its tags are gone through.
BeginTags ==
  /\ Here("descriptor")
  /\ pass = "replay"
  /\ next_log_block' = wrap(next_log_block + 1)
  /\ IF room > 0 THEN bh' = next_log_block /\ tagp' = 1 ELSE UNCHANGED <<bh, tagp>>
  /\ Accept
  /\ UNCHANGED next_commit_ID

\* A tag of 8 bytes, and 16 more without JFS_FLAG_SAME_UUID.
Stride(tag) == IF tag.same THEN 1 ELSE 3

\* The next block of the log is read and, if jread reports no error, written
\* where the tag says.
ReplayTag ==
  /\ stage = "recovering"
  /\ tagp > 0
  /\ LET tag  == log[bh].tags[tagp]
         next == tagp + Stride(tag)
     IN  /\ replayed' = IF jread = 0 THEN replayed \cup {next_log_block} ELSE replayed
         /\ next_log_block' = wrap(next_log_block + 1)
         /\ IF tag.last \/ next > room
            THEN bh' = 0 /\ tagp' = 0
            ELSE tagp' = next /\ UNCHANGED bh
  /\ UNCHANGED <<found, stage, pass, next_commit_ID, end_transaction, j_transaction_sequence, accepted>>

SeeCommit ==
  /\ Here("commit")
  /\ next_commit_ID' = next_commit_ID + 1
  /\ next_log_block' = wrap(next_log_block + 1)
  /\ Accept
  /\ UNCHANGED <<bh, tagp>>

\* A revoke block is of interest to the second pass only, and there if it has
\* records.
SkipRevoke ==
  /\ Here("revoke")
  /\ pass = "revoke" => Block.records = 0
  /\ next_log_block' = wrap(next_log_block + 1)
  /\ Accept
  /\ UNCHANGED <<next_commit_ID, bh, tagp>>

\* scan_revoke_records goes through j_revoke_table, a pointer nobody sets: the
\* kernel stops in an exception, or goes on.
ScanRevoke ==
  /\ Here("revoke")
  /\ pass = "revoke"
  /\ Block.records > 0
  /\ next_log_block' = wrap(next_log_block + 1)
  /\ stage' \in {"recovering", "lost in the revoke table"}
  /\ UNCHANGED <<found, pass, next_commit_ID, bh, tagp, end_transaction, replayed,
                 j_transaction_sequence, accepted>>

\* The pass is at a block that is of no type it knows or not one it expects.
AtEnd ==
  /\ stage = "recovering"
  /\ tagp = 0
  /\ Block.type \notin {"descriptor", "commit", "revoke"} \/ ~Expected

\* end_transaction is a u16.
EndScan ==
  /\ AtEnd
  /\ pass = "scan"
  /\ end_transaction' = next_commit_ID % U16
  /\ BeginPass("revoke")
  /\ UNCHANGED <<found, stage, replayed, j_transaction_sequence, accepted>>

\* Another pass ends where the scan did, or the kernel loops for ever.
EndRevoke ==
  /\ AtEnd
  /\ pass = "revoke"
  /\ end_transaction = next_commit_ID
  /\ BeginPass("replay")
  /\ UNCHANGED <<found, stage, end_transaction, replayed, j_transaction_sequence, accepted>>

\* Variant: end_transaction is not incremented.
FinishAtEnd ==
  /\ j_transaction_sequence' = end_transaction
  /\ stage' = "mounted"

\* journal_recover: the next transaction is numbered ++info.end_transaction.
Finish ==
  /\ j_transaction_sequence' = (end_transaction + 1) % U16
  /\ stage' = "mounted"

EndReplay ==
  /\ AtEnd
  /\ pass = "replay"
  /\ end_transaction = next_commit_ID
  /\ Finish
  /\ UNCHANGED <<found, pass, walk, end_transaction, replayed, accepted>>

PassesDisagree ==
  /\ AtEnd
  /\ pass # "scan"
  /\ end_transaction # next_commit_ID
  /\ stage' = "passes disagree"
  /\ UNCHANGED <<found, pass, walk, end_transaction, replayed, j_transaction_sequence, accepted>>

Recover ==
  \/ SkipDescriptor \/ BeginTags \/ ReplayTag \/ SeeCommit \/ SkipRevoke \/ ScanRevoke
  \/ EndScan \/ EndRevoke \/ EndReplay \/ PassesDisagree

Next == NewSuperblock \/ NoRecovery \/ BeginScan \/ Recover

\* Weak fairness: no one waits in this code.
Spec == Init /\ [][Next]_vars /\ WF_vars(Recover)

----------------------------------------------------------------------------
Descriptors == {b \in Ring : log[b].type = "descriptor"}

\* The tags of a descriptor block that the scan counts, but for the last, are
\* as long as the scan takes them to be.
PlainTags(b) ==
  \A i \in 1 .. count_tags(log[b].tags) - 1 : log[b].tags[i].same

\* "It's really bad news if different passes end up at different places"
\* (recovery.c:361): they do so, and the kernel loops for ever, only if the
\* log has tags of 24 bytes or its sequence numbers are beyond a u16.
DisagreeOnlyOn ==
  stage = "passes disagree" =>
    (\E b \in Descriptors : ~PlainTags(b)) \/ next_commit_ID >= U16

\* The sequence number the next transaction gets is larger than that of any
\* block the scan accepted: a later recovery cannot take such a block for one
\* of a new transaction.  Only 65535, the last of the u16, is followed by 0.
FreshSequence ==
  stage = "mounted" /\ end_transaction # U16 - 1
    => \A s \in accepted : s < j_transaction_sequence

\* How many blocks of the log the transaction with this number takes.
SizeOfTransaction(s) ==
  MapThenSumSet(LAMBDA b : IF log[b].type = "descriptor" THEN 1 + count_tags(log[b].tags) ELSE 1,
                {b \in Ring : log[b].seq = s /\ log[b].type # "data"})

\* The recovery comes to an end, if no transaction is as long as the log: then
\* it meets a commit or the end in every turn round the ring.
RecoveryEnds ==
  (stage = "recovering" /\ \A s \in {log[b].seq : b \in Ring} : SizeOfTransaction(s) < Last - First)
    ~> stage # "recovering"

\* "we can now write all of the data blocks" (recovery.c:218): when the file
\* system is mounted, the blocks of the oldest transaction, if it was committed,
\* are where they belong.
CommittedIsReplayed ==
  LET start == superblock.s_start
      tags  == count_tags(log[start].tags)
      commit == log[wrap(wrap(start + 1) + tags)]
  IN  stage = "mounted" /\ start \in Descriptors /\ log[start].seq = superblock.s_sequence
        /\ commit.type = "commit" /\ commit.seq = superblock.s_sequence
        => \A k \in 1 .. tags : wrap(start + k) \in replayed
=============================================================================
