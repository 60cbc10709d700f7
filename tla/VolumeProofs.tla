---------------------------- MODULE VolumeProofs ----------------------------
(***************************************************************************)
(* What is on the card: the passes over the log, then directories and      *)
(* their buffers.                                                          *)
(*                                                                         *)
(* The three passes over the log end at one place, and the next            *)
(* transaction gets a number larger than those the scan accepted, unless   *)
(* the u16 wraps: proofs for any log, any number of blocks and tags, and   *)
(* any width of end_transaction.                                           *)
(*                                                                         *)
(* ls lists its directory, and a stop between two commands loses nothing   *)
(* that they did: proofs for any tree, commands, sizes and buffers.        *)
(***************************************************************************)
EXTENDS Recovery, Directory, NaturalsInduction, WellFoundedInduction, SequenceTheorems, TLAPS

----------------------------------------------------------------------------
(* The way of a pass through the log *)

\* A pass is at a block, and expects a sequence number.
Positions == Ring \X Nat

Known(x) == log[x[1]].type \in {"descriptor", "commit", "revoke"} /\ log[x[1]].seq = x[2]

\* Where a pass goes from x, if it goes on.
After(x) ==
  <<IF log[x[1]].type = "descriptor"
    THEN wrap(wrap(x[1] + 1) + count_tags(log[x[1]].tags)) ELSE wrap(x[1] + 1),
    IF log[x[1]].type = "commit" THEN x[2] + 1 ELSE x[2]>>

\* The positions a pass comes to from x: those in every set that has x and is closed
\* under After.
Closed(C) == \A x \in C : Known(x) => After(x) \in C
Reach(x) == {y \in Positions : \A C \in SUBSET Positions : x \in C /\ Closed(C) => y \in C}

----------------------------------------------------------------------------
(* The inductive invariant of recovery *)

TypeOK ==
  /\ superblock.s_sequence \in Nat /\ superblock.s_start \in Ring \cup {0}
  /\ room \in 0 .. TagSlots
  /\ next_commit_ID \in Nat /\ end_transaction \in Nat /\ tagp \in Nat
  /\ accepted \subseteq Nat

Start    == <<superblock.s_start, superblock.s_sequence>>
Position == <<next_log_block, next_commit_ID>>

\* Where the scan ended, and what it left.
ScanEnded ==
  \E x \in Reach(Start) :
    ~Known(x) /\ end_transaction = x[2] % U16 /\ \A s \in accepted : s <= x[2]

\* The replay goes the way of the scan, one tag after the other.
ReplayOnPath ==
  IF tagp = 0 THEN Position \in Reach(Start)
  ELSE /\ bh \in Ring
       /\ log[bh].type = "descriptor"
       /\ log[bh].seq = next_commit_ID
       /\ <<bh, next_commit_ID>> \in Reach(Start)
       /\ tagp \in 1 .. count_tags(log[bh].tags)
       /\ next_log_block = wrap(wrap(bh + 1) + (tagp - 1))

Plain == \A b \in Descriptors : PlainTags(b)

OnPath ==
  stage = "recovering" =>
    /\ Start \in Positions /\ Position \in Positions
    /\ pass \in {"scan", "revoke", "replay"}
    /\ pass # "replay" => tagp = 0 /\ Position \in Reach(Start)
    /\ pass = "scan" => \A s \in accepted : s <= next_commit_ID
    /\ pass # "scan" => ScanEnded
    /\ pass = "replay" => \A s \in accepted : s <= end_transaction
    /\ pass = "replay" /\ Plain => ReplayOnPath

IInv ==
  /\ TypeOK
  /\ stage = "off" => accepted = {}
  /\ OnPath
  /\ FreshSequence
  /\ DisagreeOnlyOn

----------------------------------------------------------------------------
(* Numbers *)

LEMMA Wraps ==
  ASSUME NEW b \in Ring
  PROVE  /\ b \in Nat /\ wrap(b + 1) \in Ring
         /\ \A n \in 0 .. Last - First :
              /\ wrap(b + n) \in Ring
              /\ n > 0 => wrap(wrap(b + (n - 1)) + 1) = wrap(b + n)
         /\ wrap(b + 0) = b
BY LogAssumption DEF Ring, wrap

LEMMA ModFacts ==
  ASSUME NEW x \in Nat
  PROVE  x % U16 \in Nat /\ x % U16 < U16 /\ (x < U16 => x % U16 = x)
<1>1. x % U16 \in Nat /\ x % U16 < U16
  BY U16Assumption
<1>2. ASSUME x < U16 PROVE x % U16 = x
  BY <1>2, U16Assumption
<1> QED BY <1>1, <1>2

Less == {xy \in Nat \X Nat : xy[1] < xy[2]}

LEMMA Smallest ==
  ASSUME NEW S, S \subseteq Nat, S # {}
  PROVE  \E m \in S : \A x \in S : m <= x
<1>1. IsWellFoundedOn(Less, Nat)
  BY NatLessThanWellFounded DEF OpToRel, Less
<1>2. PICK m \in S : \A x \in S : ~(<<x, m>> \in Less)
  BY <1>1, WFMin
<1>3. \A x, y \in Nat : x < y => <<x, y>> \in Less
  BY DEF Less
<1>4. ASSUME NEW x \in S PROVE m <= x
  <2>1. ~(x < m)
    BY <1>2, <1>3
  <2> QED BY <2>1
<1> QED BY <1>4

\* count_tags ends at the first tag with the flag, or where the block ends.
LEMMA CountFacts ==
  ASSUME room \in Nat, NEW tags
  PROVE  /\ count_tags(tags) \in 0 .. room
         /\ room > 0 => count_tags(tags) >= 1
         /\ \A i \in 1 .. room : tags[i].last => count_tags(tags) <= i
         /\ count_tags(tags) = room \/ tags[count_tags(tags)].last
<1> DEFINE lasts == {i \in 1 .. room : tags[i].last}
<1>1. CASE lasts = {}
  <2>1. count_tags(tags) = room
    BY <1>1 DEF count_tags
  <2> QED BY <1>1, <2>1
<1>2. CASE lasts # {}
  <2>1. PICK m \in lasts : \A i \in lasts : m <= i
    <3>1. lasts \subseteq Nat
      OBVIOUS
    <3> QED BY <1>2, <3>1, Smallest
  <2>2. PICK n : n = CHOOSE i \in lasts : \A j \in lasts : i <= j
    OBVIOUS
  <2>3. n \in lasts /\ \A j \in lasts : n <= j
    BY <2>1, <2>2
  <2>4. count_tags(tags) = n
    BY <1>2, <2>2 DEF count_tags
  <2> QED BY <2>3, <2>4
<1> QED BY <1>1, <1>2

----------------------------------------------------------------------------
(* Positions *)

LEMMA AfterInPositions ==
  ASSUME TypeOK, NEW x \in Positions
  PROVE  After(x) \in Positions
<1>1. PICK b \in Ring, s \in Nat : x = <<b, s>> /\ x[1] = b /\ x[2] = s
  BY DEF Positions
<1>2. PICK n : n = count_tags(log[b].tags)
  OBVIOUS
<1>3. n \in 0 .. Last - First
  <2>1. room \in Nat /\ room <= Last - First
    BY TagsAssumption, LogAssumption DEF TypeOK
  <2> QED BY <1>2, <2>1, CountFacts, LogAssumption
<1>4. wrap(b + 1) \in Ring /\ wrap(wrap(b + 1) + n) \in Ring
  <2>1. PICK a \in Ring : a = wrap(b + 1)
    BY Wraps
  <2> QED BY <1>3, <2>1, Wraps
<1>5. s + 1 \in Nat
  OBVIOUS
<1> QED BY <1>1, <1>2, <1>4, <1>5 DEF After, Positions

LEMMA ReachStart ==
  ASSUME NEW x \in Positions
  PROVE  x \in Reach(x)
BY DEF Reach

LEMMA ReachOn ==
  ASSUME TypeOK, NEW x, NEW y \in Reach(x), Known(y)
  PROVE  After(y) \in Reach(x)
<1>1. After(y) \in Positions
  BY AfterInPositions DEF Reach
<1>2. ASSUME NEW C \in SUBSET Positions, x \in C, Closed(C) PROVE After(y) \in C
  BY <1>2 DEF Reach, Closed
<1> QED BY <1>1, <1>2 DEF Reach

\* From x a pass comes only to x, or from where it goes next.
LEMMA ReachFirst ==
  ASSUME TypeOK, NEW x \in Positions, NEW y \in Reach(x), y # x
  PROVE  Known(x) /\ y \in Reach(After(x))
<1>1. Known(x)
  <2>1. ASSUME ~Known(x) PROVE FALSE
    <3>1. Closed({x}) /\ {x} \in SUBSET Positions /\ x \in {x}
      BY <2>1 DEF Closed
    <3>2. y \in {x}
      BY <3>1 DEF Reach
    <3> QED BY <3>2
  <2> QED BY <2>1
<1>2. PICK a \in Positions : a = After(x)
  BY AfterInPositions
<1>3. PICK C : C = Reach(a) \cup {x}
  OBVIOUS
<1>4. C \in SUBSET Positions /\ x \in C
  BY <1>3 DEF Reach
<1>5. Closed(C)
  <2> SUFFICES ASSUME NEW z \in C, Known(z) PROVE After(z) \in C
    BY DEF Closed
  <2>1. CASE z = x
    BY <1>2, <1>3, <2>1, ReachStart
  <2>2. CASE z \in Reach(a)
    BY <1>3, <2>2, ReachOn
  <2> QED BY <1>3, <2>1, <2>2
<1>6. y \in C
  BY <1>4, <1>5 DEF Reach
<1> QED BY <1>1, <1>2, <1>3, <1>6

\* A pass ends at one place only, whatever way it seems to go.
LEMMA OneEnd ==
  ASSUME TypeOK, NEW x \in Positions, NEW y \in Reach(x), NEW z \in Reach(x),
         ~Known(y), ~Known(z)
  PROVE  y = z
<1>1. PICK C : C = {p \in Positions : z \in Reach(p)}
  OBVIOUS
<1>2. C \in SUBSET Positions /\ x \in C
  BY <1>1
<1>3. Closed(C)
  <2> SUFFICES ASSUME NEW p \in C, Known(p) PROVE After(p) \in C
    BY DEF Closed
  <2>1. p \in Positions /\ z \in Reach(p) /\ z # p
    BY <1>1
  <2>2. z \in Reach(After(p))
    BY <2>1, ReachFirst
  <2>3. After(p) \in Positions
    BY <2>1, AfterInPositions
  <2> QED BY <1>1, <2>2, <2>3
<1>4. y \in C
  BY <1>2, <1>3 DEF Reach
<1>5. y \in Positions /\ z \in Reach(y)
  BY <1>1, <1>4
<1> QED BY <1>5, ReachFirst

LEMMA SameLog ==
  ASSUME UNCHANGED found, NEW x
  PROVE  /\ Reach(x)' = Reach(x) /\ Start' = Start /\ Plain' = Plain
         /\ (Known(x)' <=> Known(x))
BY DEF found, Reach, Closed, After, Known, count_tags, Start, Plain, Descriptors, PlainTags

\* A pass that ends on the way of the scan ends where the scan did.
LEMMA EndsTogether ==
  ASSUME TypeOK, OnPath, AtEnd, pass # "scan", Position \in Reach(Start)
  PROVE  end_transaction = next_commit_ID % U16 /\ \A s \in accepted : s <= next_commit_ID
<1>1. PICK x \in Reach(Start) :
        ~Known(x) /\ end_transaction = x[2] % U16 /\ \A s \in accepted : s <= x[2]
  BY DEF OnPath, AtEnd, ScanEnded
<1>2. PICK y : y = Position
  OBVIOUS
<1>3. ~Known(y) /\ y \in Reach(Start) /\ y[2] = next_commit_ID
  BY <1>2 DEF AtEnd, Known, Position, Block, Expected
<1>4. PICK start \in Positions : start = Start
  BY DEF OnPath, AtEnd
<1>5. x = y
  BY <1>1, <1>3, <1>4, OneEnd
<1> QED BY <1>1, <1>3, <1>5

----------------------------------------------------------------------------
(* The steps of recovery *)

LEMMA InitIInv == Init => IInv
<1> SUFFICES ASSUME Init PROVE IInv
  OBVIOUS
<1>1. PICK image \in Cards : superblock = image.superblock
  BY DEF Init
<1>2. TypeOK
  BY <1>1, CardsAssumption DEF Init, TypeOK
<1> QED BY <1>2 DEF IInv, Init, OnPath, FreshSequence, DisagreeOnlyOn

\* The pass goes on to the next position.
Goes ==
  /\ stage = "recovering" /\ tagp = 0 /\ tagp' = 0
  /\ Known(Position) /\ Position' = After(Position)
  /\ UNCHANGED <<found, pass, end_transaction>>
  /\ accepted' = IF pass = "scan" THEN accepted \cup {next_commit_ID} ELSE accepted
  /\ stage' \in {"recovering", "lost in the revoke table"}

LEMMA GoesIInv == IInv /\ Goes => IInv'
<1> SUFFICES ASSUME IInv, Goes PROVE IInv'
  OBVIOUS
<1>1. /\ stage = "recovering" /\ tagp = 0 /\ tagp' = 0 /\ Known(Position)
      /\ Position' = After(Position)
      /\ UNCHANGED found /\ pass' = pass /\ end_transaction' = end_transaction
  BY DEF Goes
<1>2. TypeOK /\ OnPath
  BY DEF IInv
<1>3. PICK start \in Positions, here \in Positions : start = Start /\ here = Position
  BY <1>1, <1>2 DEF OnPath
<1>4. Start' = start /\ Reach(start)' = Reach(start) /\ Plain' = Plain
  BY <1>1, <1>3, SameLog
<1>5. PICK there \in Positions : there = After(here) /\ there = Position'
  BY <1>1, <1>2, <1>3, AfterInPositions
<1>6. PICK n \in Nat, m \in Nat : n = next_commit_ID /\ m = next_commit_ID' /\ n <= m
  <2>1. PICK n \in Nat : n = next_commit_ID
    BY <1>2 DEF TypeOK
  <2>2. PICK commit \in BOOLEAN : commit <=> log[here[1]].type = "commit"
    OBVIOUS
  <2>3. next_commit_ID' = IF commit THEN n + 1 ELSE n
    BY <1>1, <1>3, <2>1, <2>2 DEF Position, After
  <2>4. PICK m \in Nat : m = next_commit_ID' /\ n <= m
    <3>1. CASE commit
      BY <2>3, <3>1
    <3>2. CASE ~commit
      BY <2>3, <3>2
    <3> QED BY <3>1, <3>2
  <2> QED BY <2>1, <2>4
<1>7. accepted' \subseteq Nat /\ (pass = "scan" => \A s \in accepted' : s <= m)
  <2>1. accepted \subseteq Nat
    BY <1>2 DEF TypeOK
  <2>2. CASE pass = "scan"
    <3>1. \A s \in accepted : s <= n
      BY <1>1, <1>2, <1>6, <2>2 DEF OnPath
    <3>2. accepted' = accepted \cup {n}
      BY <1>6, <2>2 DEF Goes
    <3>3. \A s \in accepted : s <= m
      BY <1>6, <2>1, <3>1
    <3> QED BY <1>6, <2>1, <3>2, <3>3
  <2>3. CASE pass # "scan"
    BY <2>1, <2>3 DEF Goes
  <2> QED BY <2>2, <2>3
<1>8. TypeOK'
  BY <1>1, <1>2, <1>6, <1>7 DEF TypeOK, found
<1>9. here \in Reach(start) => there \in Reach(start)'
  BY <1>1, <1>2, <1>3, <1>4, <1>5, ReachOn
<1>10. pass # "scan" => ScanEnded'
  <2> SUFFICES ASSUME pass # "scan" PROVE ScanEnded'
    OBVIOUS
  <2>1. PICK x \in Reach(start) :
          ~Known(x) /\ end_transaction = x[2] % U16 /\ \A s \in accepted : s <= x[2]
    BY <1>1, <1>2, <1>3 DEF OnPath, ScanEnded
  <2>2. ~Known(x)' /\ x \in Reach(start)' /\ accepted' = accepted
    BY <1>1, <1>4, <2>1, SameLog DEF Goes
  <2> QED BY <1>1, <1>4, <2>1, <2>2 DEF ScanEnded
<1>11. Plain' /\ pass = "replay" => ReplayOnPath'
  BY <1>1, <1>2, <1>3, <1>4, <1>5, <1>9 DEF OnPath, ReplayOnPath
<1>12. OnPath'
  <2>1. pass' = pass /\ tagp' = 0 /\ end_transaction' = end_transaction
    BY <1>1
  <2>2. Position' \in Positions /\ Start' \in Positions
    BY <1>3, <1>4, <1>5
  <2>3. pass # "replay" => Position' \in Reach(Start)'
    BY <1>1, <1>2, <1>3, <1>4, <1>5, <1>9 DEF OnPath
  <2>4. pass = "replay" => \A s \in accepted' : s <= end_transaction
    BY <1>1, <1>2 DEF Goes, OnPath
  <2> QED BY <1>1, <1>2, <1>6, <1>7, <1>10, <1>11, <2>1, <2>2, <2>3, <2>4 DEF OnPath
<1> QED BY <1>1, <1>8, <1>12 DEF Goes, IInv, FreshSequence, DisagreeOnlyOn

LEMMA SkipDescriptorIInv == IInv /\ SkipDescriptor => IInv'
<1> SUFFICES ASSUME IInv, SkipDescriptor PROVE IInv'
  OBVIOUS
<1>1. Known(Position) /\ Position' = After(Position)
  BY DEF SkipDescriptor, Here, Expected, Block, Known, Position, After
<1> QED BY <1>1, GoesIInv DEF Goes, SkipDescriptor, Here, Accept, Expected, found

LEMMA SeeCommitIInv == IInv /\ SeeCommit => IInv'
<1> SUFFICES ASSUME IInv, SeeCommit PROVE IInv'
  OBVIOUS
<1>1. Known(Position) /\ Position' = After(Position)
  BY DEF SeeCommit, Here, Expected, Block, Known, Position, After
<1> QED BY <1>1, GoesIInv DEF Goes, SeeCommit, Here, Accept, Expected, found

LEMMA SkipRevokeIInv == IInv /\ SkipRevoke => IInv'
<1> SUFFICES ASSUME IInv, SkipRevoke PROVE IInv'
  OBVIOUS
<1>1. Known(Position) /\ Position' = After(Position)
  BY DEF SkipRevoke, Here, Expected, Block, Known, Position, After
<1> QED BY <1>1, GoesIInv DEF Goes, SkipRevoke, Here, Accept, Expected, found

LEMMA ScanRevokeIInv == IInv /\ ScanRevoke => IInv'
<1> SUFFICES ASSUME IInv, ScanRevoke PROVE IInv'
  OBVIOUS
<1>1. Known(Position) /\ Position' = After(Position)
  BY DEF ScanRevoke, Here, Expected, Block, Known, Position, After
<1> QED BY <1>1, GoesIInv DEF Goes, ScanRevoke, Here, found

\* The replay begins with the first tag of a descriptor block.
LEMMA BeginTagsIInv == IInv /\ BeginTags => IInv'
<1> SUFFICES ASSUME IInv, BeginTags PROVE IInv'
  OBVIOUS
<1>1. PICK b : b = next_log_block
  OBVIOUS
<1>2. /\ stage = "recovering" /\ pass = "replay" /\ tagp = 0 /\ TypeOK /\ OnPath
      /\ log[b].type = "descriptor" /\ log[b].seq = next_commit_ID
      /\ UNCHANGED found /\ stage' = "recovering" /\ pass' = pass
      /\ end_transaction' = end_transaction /\ next_commit_ID' = next_commit_ID
      /\ next_log_block' = wrap(b + 1) /\ accepted' = accepted
      /\ IF room > 0 THEN bh' = b /\ tagp' = 1 ELSE tagp' = tagp
  BY <1>1 DEF IInv, BeginTags, Here, Expected, Block, Accept
<1>3. PICK n : n = count_tags(log[b].tags)
  OBVIOUS
<1>4. b \in Ring /\ wrap(b + 1) \in Ring
  <2>1. b \in Ring
    BY <1>1, <1>2 DEF OnPath, Position, Positions
  <2> QED BY <2>1, Wraps
<1>5. PICK a \in Ring : a = wrap(b + 1)
  BY <1>4
<1>6. wrap(a + 0) = a
  BY Wraps
<1>7. room \in Nat /\ n \in 0 .. room /\ (room > 0 => n >= 1)
  <2>1. room \in Nat
    BY <1>2, TagsAssumption DEF TypeOK
  <2> QED BY <1>3, <2>1, CountFacts
<1>8. CASE room = 0
  <2>1. tagp' = 0
    BY <1>2, <1>8
  <2>2. Known(Position)
    BY <1>1, <1>2 DEF Known, Position
  <2>3. n = 0
    BY <1>7, <1>8
  <2>4. wrap(wrap(b + 1) + count_tags(log[b].tags)) = next_log_block'
    BY <1>2, <1>3, <1>5, <1>6, <2>3
  <2>5. Position' = After(Position)
    BY <1>1, <1>2, <2>4 DEF Position, After
  <2> QED BY <1>2, <2>1, <2>2, <2>5, GoesIInv DEF Goes
<1>9. CASE room > 0
  <2>1. bh' = b /\ tagp' = 1 /\ 1 \in 1 .. n
    BY <1>2, <1>7, <1>9
  <2>2. TypeOK'
    BY <1>2, <2>1 DEF TypeOK, found
  <2>3. PICK start \in Positions : start = Start
    BY <1>2 DEF OnPath
  <2>4. Start' = start /\ Reach(start)' = Reach(start) /\ Plain' = Plain
    BY <1>2, <2>3, SameLog
  <2>5. Position' \in Positions
    BY <1>2, <1>4 DEF Position, Positions, TypeOK
  <2>6. ScanEnded'
    <3>1. PICK x \in Reach(start) :
            ~Known(x) /\ end_transaction = x[2] % U16 /\ \A s \in accepted : s <= x[2]
      BY <1>2, <2>3 DEF OnPath, ScanEnded
    <3>2. ~Known(x)' /\ x \in Reach(start)'
      BY <1>2, <2>4, <3>1, SameLog
    <3> QED BY <1>2, <2>4, <3>1, <3>2 DEF ScanEnded
  <2>7. Plain => ReplayOnPath'
    <3> SUFFICES ASSUME Plain PROVE ReplayOnPath'
      OBVIOUS
    <3>1. <<b, next_commit_ID>> \in Reach(start)
      BY <1>1, <1>2, <2>3 DEF OnPath, ReplayOnPath, Position
    <3>2. log' = log /\ count_tags(log[b].tags)' = n
      BY <1>2, <1>3 DEF found, count_tags
    <3>3. next_log_block' = wrap(wrap(b + 1) + (1 - 1))
      BY <1>2, <1>5, <1>6
    <3> QED BY <1>2, <1>4, <2>1, <2>4, <3>1, <3>2, <3>3 DEF ReplayOnPath
  <2>8. OnPath'
    BY <1>2, <2>3, <2>4, <2>5, <2>6, <2>7 DEF OnPath
  <2> QED BY <1>2, <2>2, <2>8 DEF IInv, FreshSequence, DisagreeOnlyOn
<1> QED BY <1>7, <1>8, <1>9

\* Each further tag takes it one block on, and the last to where the scan went.
LEMMA ReplayTagIInv == IInv /\ ReplayTag => IInv'
<1> SUFFICES ASSUME IInv, ReplayTag PROVE IInv'
  OBVIOUS
<1>1. PICK tag, next : tag = log[bh].tags[tagp] /\ next = tagp + Stride(tag)
  OBVIOUS
<1>2. /\ stage = "recovering" /\ tagp > 0 /\ TypeOK /\ OnPath
      /\ UNCHANGED found /\ stage' = "recovering" /\ pass' = pass
      /\ end_transaction' = end_transaction /\ next_commit_ID' = next_commit_ID
      /\ next_log_block' = wrap(next_log_block + 1) /\ accepted' = accepted
      /\ IF tag.last \/ next > room THEN bh' = 0 /\ tagp' = 0 ELSE tagp' = next /\ bh' = bh
  BY <1>1 DEF IInv, ReplayTag
<1>3. pass = "replay" /\ tagp \in Nat /\ tagp # 0 /\ room \in Nat /\ room <= Last - First
  BY <1>2, TagsAssumption, LogAssumption DEF OnPath, TypeOK
<1>4. next \in Nat /\ next > tagp /\ (tag.same => next = tagp + 1)
  BY <1>1, <1>3 DEF Stride
<1>5. TypeOK'
  BY <1>2, <1>4 DEF TypeOK, found
<1>6. PICK start \in Positions : start = Start
  BY <1>2 DEF OnPath
<1>7. Start' = start /\ Reach(start)' = Reach(start) /\ Plain' = Plain
  BY <1>2, <1>6, SameLog
<1>8. Position' \in Positions
  <2>1. next_log_block \in Ring
    BY <1>2 DEF OnPath, Position, Positions
  <2>2. wrap(next_log_block + 1) \in Ring
    BY <2>1, Wraps
  <2> QED BY <1>2, <2>2 DEF Position, Positions, TypeOK
<1>9. ScanEnded'
  <2>1. PICK x \in Reach(start) :
          ~Known(x) /\ end_transaction = x[2] % U16 /\ \A s \in accepted : s <= x[2]
    BY <1>2, <1>3, <1>6 DEF OnPath, ScanEnded
  <2>2. ~Known(x)' /\ x \in Reach(start)'
    BY <1>2, <1>7, <2>1, SameLog
  <2> QED BY <1>2, <1>7, <2>1, <2>2 DEF ScanEnded
<1>10. ASSUME Plain PROVE ReplayOnPath'
  <2>1. PICK n : n = count_tags(log[bh].tags)
    OBVIOUS
  <2>2. /\ bh \in Ring /\ log[bh].type = "descriptor" /\ log[bh].seq = next_commit_ID
        /\ <<bh, next_commit_ID>> \in Reach(start)
        /\ tagp \in 1 .. n /\ next_log_block = wrap(wrap(bh + 1) + (tagp - 1))
    BY <1>2, <1>3, <1>6, <1>10, <2>1 DEF OnPath, ReplayOnPath
  <2>3. /\ n \in 0 .. room
        /\ \A i \in 1 .. room : log[bh].tags[i].last => n <= i
        /\ n = room \/ log[bh].tags[n].last
    BY <1>3, <2>1, CountFacts
  <2>4. PICK a \in Ring : a = wrap(bh + 1)
    BY <2>2, Wraps
  <2>5. next_log_block' = wrap(a + tagp)
    <3>1. tagp \in 0 .. Last - First /\ tagp > 0
      BY <1>3, <2>2, <2>3, LogAssumption
    <3> QED BY <1>2, <2>2, <2>4, <3>1, Wraps
  <2>6. tagp < n => tag.same
    <3>1. bh \in Descriptors
      BY <2>2 DEF Descriptors
    <3>2. PlainTags(bh)
      BY <1>10, <3>1 DEF Plain
    <3> QED BY <1>1, <2>1, <2>2, <2>3, <3>2 DEF PlainTags
  <2>7. CASE tag.last \/ next > room
    <3>1. tagp = n
      <4>1. tag.last => n <= tagp
        BY <1>1, <1>3, <2>2, <2>3
      <4>2. tagp < n => next = tagp + 1
        BY <1>4, <2>6
      <4> QED BY <1>3, <2>2, <2>3, <2>7, <4>1, <4>2
    <3>2. PICK here : here = <<bh, next_commit_ID>>
      OBVIOUS
    <3>3. here \in Reach(start) /\ Known(here)
      BY <2>2, <3>2 DEF Known
    <3>4. After(here) = Position'
      BY <1>2, <2>1, <2>2, <2>4, <2>5, <3>1, <3>2 DEF After, Position
    <3>5. Position' \in Reach(start)
      BY <1>2, <3>3, <3>4, ReachOn
    <3>6. tagp' = 0
      BY <1>2, <2>7
    <3> QED BY <1>7, <3>5, <3>6 DEF ReplayOnPath
  <2>8. CASE ~(tag.last \/ next > room)
    <3>1. ASSUME tagp = n PROVE FALSE
      <4>1. CASE n = room
        BY <1>3, <1>4, <2>8, <3>1, <4>1
      <4>2. CASE log[bh].tags[n].last
        BY <1>1, <2>8, <3>1, <4>2
      <4> QED BY <2>3, <4>1, <4>2
    <3>2. next = tagp + 1 /\ next \in 1 .. n /\ next # 0 /\ next - 1 = tagp
      BY <1>3, <1>4, <2>2, <2>3, <2>6, <3>1
    <3>3. tagp' = next /\ bh' = bh
      BY <1>2, <2>8
    <3>4. log' = log /\ count_tags(log[bh].tags)' = n
      BY <1>2, <2>1, <3>3 DEF found, count_tags
    <3>5. next_log_block' = wrap(wrap(bh + 1) + (next - 1))
      BY <2>4, <2>5, <3>2
    <3> QED BY <1>2, <1>7, <2>2, <3>2, <3>3, <3>4, <3>5 DEF ReplayOnPath
  <2> QED BY <2>7, <2>8
<1>11. OnPath'
  BY <1>2, <1>3, <1>6, <1>7, <1>8, <1>9, <1>10 DEF OnPath
<1> QED BY <1>2, <1>5, <1>11 DEF IInv, FreshSequence, DisagreeOnlyOn

\* Nothing is recovered.
LEMMA NoRecoveryIInv == IInv /\ (NewSuperblock \/ NoRecovery) => IInv'
<1> SUFFICES ASSUME IInv, NewSuperblock \/ NoRecovery PROVE IInv'
  OBVIOUS
<1>1. /\ accepted = {} /\ accepted' = accepted /\ stage' = "mounted" /\ room' = room
      /\ UNCHANGED <<next_commit_ID, end_transaction, tagp>> /\ TypeOK
  BY DEF IInv, NewSuperblock, NoRecovery, found, walk
<1>2. superblock' = superblock \/ superblock' = [valid |-> TRUE, s_sequence |-> 0, s_start |-> 0]
  BY DEF NewSuperblock, NoRecovery, found
<1>3. TypeOK'
  BY <1>1, <1>2 DEF TypeOK
<1> QED BY <1>1, <1>3 DEF IInv, OnPath, FreshSequence, DisagreeOnlyOn

\* A pass that begins is at the start.
LEMMA Begins ==
  ASSUME TypeOK, OnPath, stage = "recovering" \/ superblock.s_start # 0,
         NEW p, BeginPass(p), UNCHANGED found
  PROVE  /\ Start \in Positions /\ Start' = Start /\ Position' = Start
         /\ Position' \in Reach(Start)' /\ Reach(Start)' = Reach(Start)
         /\ Plain' = Plain /\ \A x : Known(x)' <=> Known(x)
         /\ pass' = p /\ tagp' = 0 /\ next_commit_ID' = superblock.s_sequence
<1>1. PICK start \in Positions : start = Start
  BY DEF TypeOK, OnPath, Start, Positions
<1>2. start \in Reach(start)
  BY ReachStart
<1>3. Position' = start
  BY <1>1 DEF BeginPass, Position, Start
<1>4. /\ Reach(start)' = Reach(start) /\ Start' = Start /\ Plain' = Plain
      /\ \A x : Known(x)' <=> Known(x)
  BY SameLog
<1> QED BY <1>1, <1>2, <1>3, <1>4 DEF BeginPass

LEMMA BeginScanIInv == IInv /\ BeginScan => IInv'
<1> SUFFICES ASSUME IInv, BeginScan PROVE IInv'
  OBVIOUS
<1>1. /\ superblock.s_start # 0 /\ BeginPass("scan") /\ UNCHANGED found /\ TypeOK /\ OnPath
      /\ stage' = "recovering" /\ accepted' = {} /\ accepted = {}
      /\ end_transaction' = end_transaction
  BY DEF IInv, BeginScan
<1>2. /\ Start \in Positions /\ Start' = Start /\ Position' = Start
      /\ Position' \in Reach(Start)'
      /\ pass' = "scan" /\ tagp' = 0 /\ next_commit_ID' = superblock.s_sequence
  BY <1>1, Begins
<1>3. TypeOK'
  BY <1>1, <1>2 DEF TypeOK, found
<1>4. OnPath'
  BY <1>1, <1>2 DEF OnPath
<1> QED BY <1>1, <1>3, <1>4 DEF IInv, FreshSequence, DisagreeOnlyOn

\* The scan has ended, and the revoke pass begins where it began.
LEMMA EndScanIInv == IInv /\ EndScan => IInv'
<1> SUFFICES ASSUME IInv, EndScan PROVE IInv'
  OBVIOUS
<1>1. /\ AtEnd /\ stage = "recovering" /\ pass = "scan" /\ BeginPass("revoke") /\ UNCHANGED found
      /\ stage' = "recovering" /\ accepted' = accepted /\ TypeOK /\ OnPath
      /\ end_transaction' = next_commit_ID % U16
  BY DEF IInv, EndScan, AtEnd
<1>2. /\ Start \in Positions /\ Start' = Start /\ Position' = Start
      /\ Position' \in Reach(Start)' /\ Reach(Start)' = Reach(Start)
      /\ \A x : Known(x)' <=> Known(x)
      /\ pass' = "revoke" /\ tagp' = 0 /\ next_commit_ID' = superblock.s_sequence
  BY <1>1, Begins
<1>3. TypeOK'
  BY <1>1, <1>2, ModFacts DEF TypeOK, found
<1>4. ScanEnded'
  <2>1. PICK x : x = Position
    OBVIOUS
  <2>2. x \in Reach(Start) /\ ~Known(x) /\ x[2] = next_commit_ID
    BY <1>1, <2>1 DEF OnPath, AtEnd, Known, Position, Block, Expected
  <2>3. \A s \in accepted : s <= x[2]
    BY <1>1, <2>2 DEF OnPath
  <2> QED BY <1>1, <1>2, <2>2, <2>3 DEF ScanEnded
<1>5. OnPath'
  BY <1>1, <1>2, <1>4 DEF OnPath
<1> QED BY <1>1, <1>3, <1>5 DEF IInv, FreshSequence, DisagreeOnlyOn

\* The revoke pass has come to where the scan ended, and the replay begins.
LEMMA EndRevokeIInv == IInv /\ EndRevoke => IInv'
<1> SUFFICES ASSUME IInv, EndRevoke PROVE IInv'
  OBVIOUS
<1>1. /\ AtEnd /\ stage = "recovering" /\ pass = "revoke" /\ BeginPass("replay") /\ UNCHANGED found
      /\ stage' = "recovering" /\ accepted' = accepted /\ TypeOK /\ OnPath
      /\ end_transaction = next_commit_ID /\ end_transaction' = end_transaction
  BY DEF IInv, EndRevoke, AtEnd
<1>2. /\ Start \in Positions /\ Start' = Start /\ Position' = Start
      /\ Position' \in Reach(Start)' /\ Reach(Start)' = Reach(Start)
      /\ \A x : Known(x)' <=> Known(x)
      /\ pass' = "replay" /\ tagp' = 0 /\ next_commit_ID' = superblock.s_sequence
  BY <1>1, Begins
<1>3. TypeOK'
  BY <1>1, <1>2 DEF TypeOK, found
<1>4. ScanEnded'
  BY <1>1, <1>2 DEF OnPath, ScanEnded
<1>5. \A s \in accepted : s <= end_transaction
  <2>1. Position \in Reach(Start)
    BY <1>1 DEF OnPath
  <2> QED BY <1>1, <2>1, EndsTogether
<1>6. ReplayOnPath'
  BY <1>2 DEF ReplayOnPath
<1>7. OnPath'
  BY <1>1, <1>2, <1>4, <1>5, <1>6 DEF OnPath
<1> QED BY <1>1, <1>3, <1>7 DEF IInv, FreshSequence, DisagreeOnlyOn

\* The number after the one the scan ended with is larger than those of the blocks.
LEMMA EndReplayIInv == IInv /\ EndReplay => IInv'
<1> SUFFICES ASSUME IInv, EndReplay PROVE IInv'
  OBVIOUS
<1>1. /\ AtEnd /\ stage = "recovering" /\ pass = "replay" /\ UNCHANGED found
      /\ stage' = "mounted" /\ accepted' = accepted /\ TypeOK /\ OnPath
      /\ end_transaction' = end_transaction /\ j_transaction_sequence' = (end_transaction + 1) % U16
      /\ UNCHANGED <<next_commit_ID, tagp>>
  BY DEF IInv, EndReplay, AtEnd, Finish, walk
<1>2. TypeOK'
  BY <1>1 DEF TypeOK, found
<1>3. PICK e \in Nat : e = end_transaction /\ e < U16
  <2>1. PICK x \in Reach(Start) : end_transaction = x[2] % U16
    BY <1>1 DEF OnPath, ScanEnded
  <2>2. x[2] \in Nat
    BY <2>1 DEF Reach, Positions
  <2> QED BY <2>1, <2>2, ModFacts
<1>4. FreshSequence'
  <2> SUFFICES ASSUME e # U16 - 1, NEW s \in accepted PROVE s < j_transaction_sequence'
    BY <1>1, <1>3 DEF FreshSequence
  <2>1. e + 1 \in Nat /\ e + 1 < U16
    BY <1>3, U16Assumption
  <2>2. (e + 1) % U16 = e + 1
    BY <2>1, ModFacts
  <2>3. s \in Nat /\ s <= e
    BY <1>1, <1>3 DEF OnPath, TypeOK
  <2>4. j_transaction_sequence' = e + 1
    BY <1>1, <1>3, <2>2
  <2> QED BY <2>3, <2>4
<1> QED BY <1>1, <1>2, <1>4 DEF IInv, OnPath, DisagreeOnlyOn

LEMMA PassesDisagreeIInv == IInv /\ PassesDisagree => IInv'
<1> SUFFICES ASSUME IInv, PassesDisagree PROVE IInv'
  OBVIOUS
<1>1. /\ AtEnd /\ stage = "recovering" /\ tagp = 0 /\ pass # "scan" /\ UNCHANGED found
      /\ stage' = "passes disagree" /\ accepted' = accepted /\ TypeOK /\ OnPath
      /\ end_transaction # next_commit_ID
      /\ end_transaction' = end_transaction /\ UNCHANGED <<next_commit_ID, tagp>>
  BY DEF IInv, PassesDisagree, AtEnd, walk
<1>2. TypeOK'
  BY <1>1 DEF TypeOK, found
<1>3. ASSUME Plain, next_commit_ID < U16 PROVE FALSE
  <2>1. Position \in Reach(Start)
    BY <1>1, <1>3 DEF OnPath, ReplayOnPath
  <2>2. end_transaction = next_commit_ID % U16
    BY <1>1, <2>1, EndsTogether
  <2>3. next_commit_ID % U16 = next_commit_ID
    BY <1>1, <1>3, ModFacts DEF TypeOK
  <2> QED BY <1>1, <2>2, <2>3
<1>4. DisagreeOnlyOn'
  <2>1. Plain' = Plain
    <3>1. PICK x : x = Start
      OBVIOUS
    <3> QED BY <1>1, <3>1, SameLog
  <2>2. PICK n \in Nat : n = next_commit_ID
    BY <1>1 DEF TypeOK
  <2>3. n < U16 \/ n >= U16
    BY U16Assumption
  <2>4. ~Plain \/ n >= U16
    BY <1>3, <2>2, <2>3
  <2>5. ~Plain' \/ next_commit_ID' >= U16
    BY <1>1, <2>1, <2>2, <2>4
  <2> QED BY <2>5 DEF DisagreeOnlyOn, Plain
<1> QED BY <1>1, <1>2, <1>4 DEF IInv, OnPath, FreshSequence

LEMMA NextIInv == IInv /\ [Next]_vars => IInv'
<1> SUFFICES ASSUME IInv, [Next]_vars PROVE IInv'
  OBVIOUS
<1>1. CASE NewSuperblock \/ NoRecovery
  BY <1>1, NoRecoveryIInv
<1>2. CASE BeginScan
  BY <1>2, BeginScanIInv
<1>3. CASE SkipDescriptor
  BY <1>3, SkipDescriptorIInv
<1>4. CASE BeginTags
  BY <1>4, BeginTagsIInv
<1>5. CASE ReplayTag
  BY <1>5, ReplayTagIInv
<1>6. CASE SeeCommit
  BY <1>6, SeeCommitIInv
<1>7. CASE SkipRevoke
  BY <1>7, SkipRevokeIInv
<1>8. CASE ScanRevoke
  BY <1>8, ScanRevokeIInv
<1>9. CASE EndScan
  BY <1>9, EndScanIInv
<1>10. CASE EndRevoke
  BY <1>10, EndRevokeIInv
<1>11. CASE EndReplay
  BY <1>11, EndReplayIInv
<1>12. CASE PassesDisagree
  BY <1>12, PassesDisagreeIInv
<1>13. CASE UNCHANGED vars
  <2>1. /\ UNCHANGED <<found, stage, pass, walk, end_transaction, accepted,
                       j_transaction_sequence>>
    BY <1>13 DEF vars
  <2>2. PICK start : start = Start
    OBVIOUS
  <2>3. /\ Reach(start)' = Reach(start) /\ Start' = start /\ Plain' = Plain
        /\ \A x : Known(x)' <=> Known(x)
    BY <2>1, <2>2, SameLog
  <2>4. TypeOK' /\ FreshSequence'
    BY <2>1 DEF IInv, TypeOK, FreshSequence, found, walk
  <2>5. DisagreeOnlyOn'
    BY <2>1, <2>3 DEF IInv, DisagreeOnlyOn, Plain, walk
  <2>6. ScanEnded' = ScanEnded
    BY <2>1, <2>2, <2>3 DEF ScanEnded
  <2>7. ReplayOnPath' = ReplayOnPath
    BY <2>1, <2>2, <2>3 DEF ReplayOnPath, Position, walk, found, count_tags
  <2>8. OnPath'
    BY <2>1, <2>2, <2>3, <2>6, <2>7 DEF IInv, OnPath, Position, walk
  <2> QED BY <2>1, <2>4, <2>5, <2>8 DEF IInv
<1> QED BY <1>1, <1>2, <1>3, <1>4, <1>5, <1>6, <1>7, <1>8, <1>9, <1>10, <1>11, <1>12, <1>13
        DEF Next, Recover

LEMMA Invariance == Spec => []IInv
BY InitIInv, NextIInv, PTL DEF Spec

----------------------------------------------------------------------------
(* What follows for recovery *)

\* Whatever the log holds, the number of the first transaction after a recovery is larger
\* than those of the blocks the recovery accepted, unless the counter of 16 bits is at its
\* end: the blocks are never taken for blocks of a new transaction.
THEOREM NextNumberIsNew == Spec => []FreshSequence
<1>1. IInv => FreshSequence
  BY DEF IInv
<1> QED BY <1>1, Invariance, PTL

\* A log whose tags are as long as the scan takes them to be, and whose numbers fit into
\* 16 bits, never makes the kernel loop for ever because two passes end at different places.
THEOREM PassesEndTogether == Spec => []DisagreeOnlyOn
<1>1. IInv => DisagreeOnlyOn
  BY DEF IInv
<1> QED BY <1>1, Invariance, PTL

----------------------------------------------------------------------------
(* The buffers of sectors *)

\* Directories are on the card, wherever their entries are.
DirsOnCard ==
  /\ \A s \in DOMAIN FirstCard, k \in Slots :
       card[s][k].dir => FirstSector(card[s][k].clus) \in DOMAIN FirstCard
  /\ \A i \in Bufs, k \in Slots :
       data[i][k].dir => FirstSector(data[i][k].clus) \in DOMAIN FirstCard

\* No sector is in two buffers.
OneBuffer == \A i, j \in Bufs : cur[i] = cur[j] /\ cur[i] # None => i = j

BufsOK ==
  /\ card \in [DOMAIN FirstCard -> [Slots -> Entries]]
  /\ cur \in [Bufs -> {cur[i] : i \in Bufs}]
  /\ state \in [Bufs -> States]
  /\ data \in [Bufs -> [Slots -> Entries]]
  /\ dir_data_clock_head \in Bufs
  /\ OneBuffer
  /\ DirsOnCard

\* A clean buffer says what the card says.
Agree == \A i \in Bufs : ~state[i].dirty /\ cur[i] \in DOMAIN FirstCard => data[i] = card[cur[i]]

LEMMA ClockStays ==
  /\ \A h \in Bufs, d \in 0 .. NBuf : Ahead(h, d) \in Bufs
  /\ \A h \in Bufs : Ahead(h, 1) \in Bufs
  /\ 0 \in Bufs
BY NBufAssumption DEF Ahead, Bufs

LEMMA SweepsClearRef ==
  ASSUME NEW st \in [Bufs -> States], NEW h, NEW n
  PROVE  /\ Swept(st, h, n) \in [Bufs -> States]
         /\ \A i \in Bufs : Swept(st, h, n)[i].dirty = st[i].dirty
BY DEF Swept, States

\* Where a sector is seen that is in one buffer.
LEMMA TheBuffer ==
  ASSUME NEW cu, NEW s, NEW i \in Bufs, cu[i] = s, \A j \in Bufs : cu[j] = s => j = i
  PROVE  (CHOOSE j \in Bufs : cu[j] = s /\ \A l \in 0 .. j - 1 : cu[l] # s) = i
<1>1. \A j \in 0 .. i - 1 : j \in Bufs /\ j # i
  BY NBufAssumption DEF Bufs
<1>2. \A j \in Bufs : (cu[j] = s /\ \A l \in 0 .. j - 1 : cu[l] # s) <=> j = i
  BY <1>1
<1> QED BY <1>2

LEMMA SeenInBuffer ==
  ASSUME OneBuffer, NEW i \in Bufs, cur[i] \in DOMAIN FirstCard
  PROVE  Seen(cur[i]) = data[i]
<1>1. \A j \in Bufs : cur[j] = cur[i] => j = i
  BY CardAssumption DEF OneBuffer
<1>2. (CHOOSE j \in Bufs : cur[j] = cur[i] /\ \A l \in 0 .. j - 1 : cur[l] # cur[i]) = i
  BY <1>1, TheBuffer
<1> QED BY <1>2 DEF Seen

LEMMA SeenInBufferAfter ==
  ASSUME OneBuffer', NEW s \in DOMAIN FirstCard, NEW i \in Bufs, cur'[i] = s
  PROVE  Seen(s)' = data'[i]
<1>1. \A j \in Bufs : cur'[j] = s => j = i
  BY CardAssumption DEF OneBuffer
<1>2. (CHOOSE j \in Bufs : cur'[j] = s /\ \A l \in 0 .. j - 1 : cur'[l] # s) = i
  BY <1>1, TheBuffer
<1> QED BY <1>2 DEF Seen

\* What writing a buffer changes on the card.
LEMMA WrittenFacts ==
  ASSUME BufsOK, NEW i \in Bufs
  PROVE  /\ Written(i) \in [DOMAIN FirstCard -> [Slots -> Entries]]
         /\ \A s \in DOMAIN FirstCard : s # cur[i] => Written(i)[s] = card[s]
         /\ state[i].dirty /\ cur[i] \in DOMAIN FirstCard => Written(i)[cur[i]] = data[i]
         /\ ~state[i].dirty => Written(i) = card
         /\ \A s \in DOMAIN FirstCard, k \in Slots :
              Written(i)[s][k].dir => FirstSector(Written(i)[s][k].clus) \in DOMAIN FirstCard
<1>1. card \in [DOMAIN FirstCard -> [Slots -> Entries]] /\ data[i] \in [Slots -> Entries]
  BY DEF BufsOK
<1>2. CASE cur[i] # None /\ state[i].dirty
  <2>1. Written(i) = [card EXCEPT ![cur[i]] = data[i]]
    BY <1>2 DEF Written
  <2>2. \A s \in DOMAIN FirstCard : Written(i)[s] = IF s = cur[i] THEN data[i] ELSE card[s]
    BY <1>1, <2>1
  <2>3. Written(i) \in [DOMAIN FirstCard -> [Slots -> Entries]]
    BY <1>1, <2>1
  <2> QED BY <1>2, <2>2, <2>3 DEF BufsOK, DirsOnCard
<1>3. CASE ~(cur[i] # None /\ state[i].dirty)
  <2>1. Written(i) = card
    BY <1>3 DEF Written
  <2>2. ~(state[i].dirty /\ cur[i] \in DOMAIN FirstCard)
    BY <1>3, CardAssumption
  <2> QED BY <1>1, <2>1, <2>2 DEF BufsOK, DirsOnCard
<1> QED BY <1>2, <1>3

\* fs_read_512 brings a sector into a buffer and changes nothing that is seen.
LEMMA ReadFacts ==
  ASSUME BufsOK, Agree, NEW s, NEW i \in Bufs, fs_read_512(s, i)
  PROVE  /\ BufsOK' /\ Agree' /\ cur'[i] = s + Base
         /\ \A t \in DOMAIN FirstCard : Seen(t)' = Seen(t)
<1>1. CASE Hit512(s, i)
  <2>1. /\ UNCHANGED <<cur, data, dir_data_clock_head, card>> /\ cur[i] = s + Base
        /\ state' = [state EXCEPT ![i].ref = TRUE]
    BY <1>1 DEF Hit512
  <2>2. state' \in [Bufs -> States] /\ \A j \in Bufs : state'[j].dirty = state[j].dirty
    <3>1. state \in [Bufs -> States] /\ state[i] \in States
      BY DEF BufsOK
    <3> QED BY <2>1, <3>1 DEF States
  <2>3. \A t \in DOMAIN FirstCard : Seen(t)' = Seen(t)
    BY <2>1 DEF Seen
  <2> QED BY <2>1, <2>2, <2>3 DEF BufsOK, Agree, OneBuffer, DirsOnCard
<1>2. CASE Miss512(s, i)
  <2>1. PICK t : t = s + Base
    OBVIOUS
  <2>2. /\ \A j \in Bufs : cur[j] # t
        /\ card' = Written(i) /\ dir_data_clock_head' = Ahead(i, 1)
        /\ cur' = [cur EXCEPT ![i] = t]
        /\ data' = [data EXCEPT ![i] = IF t \in DOMAIN card THEN card'[t] ELSE data[i]]
    BY <1>2, <2>1 DEF Miss512
  <2>3. /\ state' \in [Bufs -> States]
        /\ \A j \in Bufs : j # i => state'[j].dirty = state[j].dirty
    <3>1. PICK d \in Bufs, n \in 0 .. NBuf :
            state' = [Swept(state, dir_data_clock_head, n) EXCEPT ![i] = [ref |-> TRUE, dirty |-> FALSE]]
      BY <1>2 DEF Miss512
    <3>2. PICK after : after = Swept(state, dir_data_clock_head, n)
      OBVIOUS
    <3>3. after \in [Bufs -> States] /\ \A j \in Bufs : after[j].dirty = state[j].dirty
      <4>1. state \in [Bufs -> States]
        BY DEF BufsOK
      <4> QED BY <3>2, <4>1, SweepsClearRef
    <3>4. [ref |-> TRUE, dirty |-> FALSE] \in States
      BY DEF States
    <3>5. state' = [after EXCEPT ![i] = [ref |-> TRUE, dirty |-> FALSE]]
      BY <3>1, <3>2
    <3> QED BY <3>3, <3>4, <3>5
  <2>4. /\ card' \in [DOMAIN FirstCard -> [Slots -> Entries]]
        /\ \A u \in DOMAIN FirstCard : u # cur[i] => card'[u] = card[u]
        /\ state[i].dirty /\ cur[i] \in DOMAIN FirstCard => card'[cur[i]] = data[i]
        /\ ~state[i].dirty => card' = card
        /\ \A u \in DOMAIN FirstCard, k \in Slots :
             card'[u][k].dir => FirstSector(card'[u][k].clus) \in DOMAIN FirstCard
    BY <2>2, WrittenFacts
  <2>5. /\ DOMAIN card = DOMAIN FirstCard /\ DOMAIN cur = Bufs /\ data \in [Bufs -> [Slots -> Entries]]
        /\ data[i] \in [Slots -> Entries]
    BY DEF BufsOK
  <2>6. /\ cur'[i] = t /\ cur' \in [Bufs -> {cur'[j] : j \in Bufs}]
        /\ \A j \in Bufs : j # i => cur'[j] = cur[j]
    BY <2>2, <2>5
  <2>7. /\ t \in DOMAIN FirstCard => data'[i] = card'[t]
        /\ t \notin DOMAIN FirstCard => data'[i] = data[i]
        /\ \A j \in Bufs : j # i => data'[j] = data[j]
        /\ data' \in [Bufs -> [Slots -> Entries]]
    <3>1. PICK new : new = IF t \in DOMAIN card THEN card'[t] ELSE data[i]
      OBVIOUS
    <3>2. new \in [Slots -> Entries]
      BY <2>4, <2>5, <3>1
    <3>3. data' = [data EXCEPT ![i] = new]
      BY <2>2, <3>1
    <3> QED BY <2>5, <3>1, <3>2, <3>3
  <2>8. OneBuffer'
    BY <2>2, <2>6 DEF OneBuffer, BufsOK
  <2>9. DirsOnCard'
    <3>1. ASSUME NEW j \in Bufs, NEW k \in Slots, data'[j][k].dir
          PROVE  FirstSector(data'[j][k].clus) \in DOMAIN FirstCard
      <4>1. \A l \in Bufs : data[l][k].dir => FirstSector(data[l][k].clus) \in DOMAIN FirstCard
        BY DEF BufsOK, DirsOnCard
      <4>2. data'[j] = data[j] \/ (t \in DOMAIN FirstCard /\ data'[j] = card'[t])
        BY <2>7
      <4> QED BY <2>4, <3>1, <4>1, <4>2
    <3> QED BY <2>4, <3>1 DEF DirsOnCard
  <2>10. BufsOK'
    <3>1. dir_data_clock_head' \in Bufs
      BY <2>2, ClockStays
    <3> QED BY <2>3, <2>4, <2>6, <2>7, <2>8, <2>9, <3>1 DEF BufsOK
  <2>11. ASSUME NEW j \in Bufs, j # i, cur[j] \in DOMAIN FirstCard PROVE cur[j] # cur[i]
    BY <2>11, CardAssumption DEF BufsOK, OneBuffer
  <2>12. Agree'
    <3>1. ASSUME NEW j \in Bufs, ~state'[j].dirty, cur'[j] \in DOMAIN FirstCard
          PROVE  data'[j] = card'[cur'[j]]
      <4>1. CASE j = i
        BY <2>6, <2>7, <3>1, <4>1
      <4>2. CASE j # i
        <5>1. ~state[j].dirty /\ cur'[j] = cur[j] /\ cur[j] \in DOMAIN FirstCard /\ data'[j] = data[j]
          BY <2>3, <2>6, <2>7, <3>1, <4>2
        <5>2. cur[j] # cur[i]
          BY <2>11, <4>2, <5>1
        <5>3. data[j] = card[cur[j]]
          BY <5>1 DEF Agree
        <5>4. card'[cur[j]] = card[cur[j]]
          BY <2>4, <5>1, <5>2
        <5> QED BY <5>1, <5>3, <5>4
      <4> QED BY <4>1, <4>2
    <3> QED BY <3>1 DEF Agree
  <2>13. ASSUME NEW u \in DOMAIN FirstCard PROVE Seen(u)' = Seen(u)
    <3>1. CASE u = t
      <4>1. Seen(u) = card[u]
        BY <2>2, <3>1 DEF Seen
      <4>2. Seen(u)' = data'[i]
        BY <2>6, <2>8, <3>1, SeenInBufferAfter
      <4> QED BY <2>2, <2>4, <2>7, <3>1, <4>1, <4>2
    <3>2. CASE u # t /\ u = cur[i]
      <4>1. Seen(u) = data[i]
        BY <3>2, SeenInBuffer DEF BufsOK
      <4>2. \A j \in Bufs : cur'[j] # u
        BY <2>6, <2>11, <3>2
      <4>3. Seen(u)' = card'[u]
        BY <4>2 DEF Seen
      <4> QED BY <2>4, <3>2, <4>1, <4>3 DEF Agree
    <3>3. CASE u # t /\ u # cur[i] /\ \E j \in Bufs : cur[j] = u
      <4>1. PICK j \in Bufs : cur[j] = u
        BY <3>3
      <4>2. Seen(u) = data[j]
        BY <4>1, SeenInBuffer DEF BufsOK
      <4>3. j # i /\ cur'[j] = u
        BY <2>6, <3>3, <4>1
      <4>4. Seen(u)' = data'[j]
        BY <2>8, <4>3, SeenInBufferAfter
      <4> QED BY <2>7, <4>2, <4>3, <4>4
    <3>4. CASE u # t /\ u # cur[i] /\ ~\E j \in Bufs : cur[j] = u
      <4>1. Seen(u) = card[u]
        BY <3>4 DEF Seen
      <4>2. \A j \in Bufs : cur'[j] # u
        BY <2>6, <3>4
      <4>3. Seen(u)' = card'[u]
        BY <4>2 DEF Seen
      <4> QED BY <2>4, <3>4, <4>1, <4>3
    <3> QED BY <3>1, <3>2, <3>3, <3>4
  <2> QED BY <2>1, <2>6, <2>10, <2>12, <2>13
<1> QED BY <1>1, <1>2 DEF fs_read_512

----------------------------------------------------------------------------
(* The inductive invariant of directories *)

\* A call is a record with these fields.
Fields(c) ==
  c \in [op : {c.op}, at : {c.at}, stage : {c.stage}, path : Seq(EntryNames), depth : {c.depth},
         upto : {c.upto}, sec : {c.sec}, index : Bufs,
         file : [sector : {c.file.sector}, pos : {c.file.pos}, entry : Entries],
         clus : {c.clus}, next : {c.next}, loc : {c.loc}, listed : {c.listed}]

\* The directory that is opened is on the card; only the root is listed without a path.
CallOK(c) ==
  /\ Fields(c)
  /\ c.file.entry.dir => FirstSector(c.file.entry.clus) \in DOMAIN FirstCard
  /\ c.at # "return" => c.op # "none"
  /\ c.path = <<>> => c.at \in {"return", "list", "listed"}
  /\ c.at \notin {"list", "listed"} => c.loc = 0 /\ c.listed = {}

\* So is a call in progress that lists nothing yet.
Ready(c) ==
  /\ Fields(c)
  /\ c.file.entry.dir => FirstSector(c.file.entry.clus) \in DOMAIN FirstCard
  /\ c.op # "none"
  /\ c.path # <<>>
  /\ c.loc = 0
  /\ c.listed = {}

\* ls is in the first sector of its directory and has listed what is there before loc, or
\* it has gone on because that sector has no end.
NoEnd(d) == \A k \in Slots : ~IsEnd(Seen(FirstSector(d))[k])

Before(d) ==
  /\ call.sec = 1 /\ cur[call.index] = FirstSector(d)
  /\ call.loc \in 0 .. PerSector
  /\ \A k \in 0 .. call.loc - 1 : ~IsEnd(data[call.index][k])
  /\ call.listed =
       {data[call.index][k].name : k \in {j \in 0 .. call.loc - 1 : ~IsGone(data[call.index][j])}}

Listing ==
  LET d == call.file.entry.clus
  IN  /\ call.at \in {"list", "listed"} => FirstSector(d) \in DOMAIN FirstCard
      /\ call.at = "list" => Before(d) \/ NoEnd(d)

DirInv ==
  /\ BufsOK
  /\ call.at # "stuck" => Agree
  /\ CallOK(call)
  /\ Listing
  /\ ListsAll

\* A step of a command that is not ls.
NotListed(c) == CallOK(c) /\ c.at \notin {"list", "listed", "stuck"}

LEMMA SeenSame == UNCHANGED <<card, bufs>> => \A t : Seen(t)' = Seen(t)
BY DEF Seen, bufs

LEMMA StayInv ==
  ASSUME DirInv, UNCHANGED <<card, bufs>>, call.at # "stuck", NotListed(call')
  PROVE  DirInv'
<1>1. BufsOK' /\ Agree'
  BY DEF DirInv, BufsOK, Agree, bufs, OneBuffer, DirsOnCard
<1> QED BY <1>1 DEF DirInv, NotListed, Listing, ListsAll

\* Going on in another sector.
LEMMA GotoFacts ==
  ASSUME DirInv, call.at # "stuck", NEW c, Fields(c), NEW s, NEW at, NEW sec, Goto(c, s, at, sec)
  PROVE  /\ BufsOK' /\ Agree'
         /\ \A t \in DOMAIN FirstCard : Seen(t)' = Seen(t)
         /\ \E i \in Bufs : /\ cur'[i] = s + Base
                            /\ call' = [c EXCEPT !.at = at, !.sec = sec, !.index = i, !.next = 0]
         /\ Fields(call') /\ call'.at = at /\ call'.sec = sec /\ call'.index \in Bufs
         /\ cur'[call'.index] = s + Base
         /\ call'.op = c.op /\ call'.path = c.path /\ call'.file = c.file /\ call'.loc = c.loc
         /\ call'.listed = c.listed
<1>1. PICK f : f = call'
  OBVIOUS
<1>2. \E i \in Bufs : fs_read_512(s, i) /\ f = [c EXCEPT !.at = at, !.sec = sec, !.index = i, !.next = 0]
  BY <1>1 DEF Goto
<1>3. PICK i \in Bufs : fs_read_512(s, i) /\ f = [c EXCEPT !.at = at, !.sec = sec, !.index = i, !.next = 0]
  BY <1>2
<1>4. /\ BufsOK' /\ Agree' /\ cur'[i] = s + Base
      /\ \A t \in DOMAIN FirstCard : Seen(t)' = Seen(t)
  BY <1>3, ReadFacts DEF DirInv
<1>5. /\ Fields(f) /\ f.at = at /\ f.sec = sec /\ f.index = i
      /\ f.op = c.op /\ f.path = c.path /\ f.file = c.file /\ f.loc = c.loc /\ f.listed = c.listed
  BY <1>3 DEF Fields
<1> QED BY <1>1, <1>3, <1>4, <1>5

\* A command that is not ls goes on in another sector.
LEMMA GotoInv ==
  ASSUME DirInv, call.at # "stuck", NEW c, NEW s, NEW at, NEW sec, Goto(c, s, at, sec),
         Ready(c), at \notin {"list", "listed", "stuck"}
  PROVE  DirInv'
<1>1. /\ BufsOK' /\ Agree'
      /\ \A t \in DOMAIN FirstCard : Seen(t)' = Seen(t)
      /\ \E i \in Bufs : /\ cur'[i] = s + Base
                         /\ call' = [c EXCEPT !.at = at, !.sec = sec, !.index = i, !.next = 0]
      /\ Fields(call') /\ call'.at = at /\ call'.sec = sec /\ call'.index \in Bufs
      /\ cur'[call'.index] = s + Base
      /\ call'.op = c.op /\ call'.path = c.path /\ call'.file = c.file /\ call'.loc = c.loc
      /\ call'.listed = c.listed
  BY GotoFacts DEF Ready
<1>2. NotListed(call')
  BY <1>1 DEF NotListed, CallOK, Ready
<1> QED BY <1>1, <1>2 DEF DirInv, NotListed, Listing, ListsAll

LEMMA NoCallOK == NotListed(NoCall)
<1>1. End \in Entries /\ 0 \in Bufs
  BY ClockStays, NamesAssumption DEF End, Entries
<1>4. <<>> \in Seq(EntryNames)
  OBVIOUS
<1>2. /\ NoCall.file.entry = End /\ ~End.dir /\ NoCall.at = "return" /\ NoCall.loc = 0 /\ NoCall.listed = {}
  BY DEF NoCall, NoFile, End
<1>3. Fields(NoCall)
  BY <1>1, <1>4 DEF Fields, NoCall, NoFile
<1> QED BY <1>2, <1>3 DEF NotListed, CallOK

\* A command that is not ls goes on without another sector.
LEMMA ReadyInv ==
  ASSUME DirInv, UNCHANGED <<card, bufs>>, call.at # "stuck", Ready(call'),
         call'.at \notin {"list", "listed", "stuck"}
  PROVE  DirInv'
<1>1. NotListed(call')
  BY DEF NotListed, CallOK, Ready
<1> QED BY <1>1, StayInv

LEMMA ReturnInv ==
  ASSUME DirInv, UNCHANGED <<card, bufs>>, call.at # "stuck", call' = NoCall
  PROVE  DirInv'
BY NoCallOK, StayInv

LEMMA InitInv == TreeInit => DirInv
<1> SUFFICES ASSUME TreeInit PROVE DirInv
  OBVIOUS
<1>1. /\ card = FirstCard /\ cur = [i \in Bufs |-> None]
      /\ state = [i \in Bufs |-> [ref |-> FALSE, dirty |-> FALSE]]
      /\ data = [i \in Bufs |-> [k \in Slots |-> End]]
      /\ dir_data_clock_head = 0 /\ call = NoCall
  BY DEF TreeInit, Empty
<1>2. End \in Entries /\ ~End.dir /\ [ref |-> FALSE, dirty |-> FALSE] \in States
  BY NamesAssumption DEF End, Entries, States
<1>3. BufsOK
  <2>1. card \in [DOMAIN FirstCard -> [Slots -> Entries]]
    BY <1>1, CardAssumption
  <2>2. cur \in [Bufs -> {cur[i] : i \in Bufs}] /\ OneBuffer
    BY <1>1 DEF OneBuffer
  <2>3. state \in [Bufs -> States] /\ data \in [Bufs -> [Slots -> Entries]] /\ dir_data_clock_head \in Bufs
    BY <1>1, <1>2, ClockStays
  <2>4. \A i \in Bufs, k \in Slots : data[i][k] = End
    BY <1>1
  <2>5. DirsOnCard
    BY <1>1, <1>2, <2>4, CardAssumption DEF DirsOnCard
  <2> QED BY <2>1, <2>2, <2>3, <2>5 DEF BufsOK
<1>4. Agree
  BY <1>1, CardAssumption DEF Agree
<1> QED BY <1>1, <1>3, <1>4, NoCallOK DEF DirInv, NotListed, Listing, ListsAll

\* What is read in a sector.
LEMMA SectorFacts ==
  ASSUME DirInv, NEW k \in Slots
  PROVE  /\ Sector[k] \in Entries
         /\ Sector[k].dir => FirstSector(Sector[k].clus) \in DOMAIN FirstCard
<1>1. call.index \in Bufs
  BY DEF DirInv, CallOK, Fields
<1>2. data \in [Bufs -> [Slots -> Entries]] /\ DirsOnCard
  BY DEF DirInv, BufsOK
<1> QED BY <1>1, <1>2 DEF Sector, DirsOnCard

LEMMA CallFacts ==
  ASSUME DirInv
  PROVE  /\ Fields(call)
         /\ call.file.entry.dir => FirstSector(call.file.entry.clus) \in DOMAIN FirstCard
         /\ call.at # "return" => call.op # "none"
         /\ call.at \notin {"return", "list", "listed"} => Ready(call)
BY DEF DirInv, CallOK, Ready

----------------------------------------------------------------------------
(* Looking names up *)

LEMMA FindInv ==
  ASSUME DirInv, call.at # "stuck", NEW c, NEW phase, NEW upto, fs_find(c, phase, upto), Ready(c)
  PROVE  DirInv'
<1>1. PICK d : d = [c EXCEPT !.stage = phase, !.upto = upto, !.depth = 1, !.file = NoFile]
  OBVIOUS
<1>2. Goto(d, fs_dataclus2sec(Root), "scan", 1)
  BY <1>1 DEF fs_find
<1>3. End \in Entries /\ ~End.dir /\ NoFile = [sector |-> None, pos |-> None, entry |-> End]
  BY NamesAssumption DEF End, Entries, NoFile
<1>4. Ready(d)
  BY <1>1, <1>3 DEF Fields, Ready
<1> QED BY <1>2, <1>4, GotoInv

LEMMA FoundInv ==
  ASSUME DirInv, call.at = "scan", NEW file, Found(file), NEW x, NEW y,
         file = [sector |-> x, pos |-> y, entry |-> file.entry], file.entry \in Entries,
         file.entry.dir => FirstSector(file.entry.clus) \in DOMAIN FirstCard
  PROVE  DirInv'
<1>1. /\ call' = [call EXCEPT !.at = "found", !.file = file] /\ UNCHANGED <<card, bufs>>
  BY DEF Found, Stay
<1>2. PICK f : f = call'
  OBVIOUS
<1>3. Ready(f) /\ f.at = "found"
  BY <1>1, <1>2, CallFacts DEF Fields, Ready
<1> QED BY <1>1, <1>2, <1>3, ReadyInv

LEMMA NoFileInv ==
  ASSUME DirInv, call.at = "scan", Found(NoFile)
  PROVE  DirInv'
<1>1. End \in Entries /\ ~End.dir /\ NoFile = [sector |-> None, pos |-> None, entry |-> End]
  BY NamesAssumption DEF End, Entries, NoFile
<1>2. NoFile = [sector |-> None, pos |-> None, entry |-> NoFile.entry] /\ NoFile.entry = End
  BY <1>1
<1> QED BY <1>1, <1>2, FoundInv

LEMMA ScanSectorInv == DirInv /\ ScanSector => DirInv'
<1> SUFFICES ASSUME DirInv, ScanSector PROVE DirInv'
  OBVIOUS
<1>1. PICK k \in Slots :
        \/ Found(NoFile)
        \/ Found([sector |-> cur[call.index] - Base, pos |-> k, entry |-> Sector[k]])
        \/ /\ Sector[k].dir
           /\ Goto([call EXCEPT !.depth = @ + 1], fs_dataclus2sec(Sector[k].clus), "scan", 1)
  BY DEF ScanSector
<1>2. call.at = "scan"
  BY DEF ScanSector
<1>3. CASE Found(NoFile)
  BY <1>2, <1>3, NoFileInv
<1>4. CASE Found([sector |-> cur[call.index] - Base, pos |-> k, entry |-> Sector[k]])
  <2>1. PICK x, e, file : x = cur[call.index] - Base /\ e = Sector[k] /\ file = [sector |-> x, pos |-> k, entry |-> e]
    OBVIOUS
  <2>2. e \in Entries /\ (e.dir => FirstSector(e.clus) \in DOMAIN FirstCard)
    BY <2>1, SectorFacts
  <2>3. file.entry = e /\ Found(file)
    BY <1>4, <2>1
  <2> QED BY <1>2, <2>1, <2>2, <2>3, FoundInv
<1>5. CASE Goto([call EXCEPT !.depth = @ + 1], fs_dataclus2sec(Sector[k].clus), "scan", 1)
  <2>1. PICK c : c = [call EXCEPT !.depth = @ + 1]
    OBVIOUS
  <2>2. Ready(c)
    BY <1>2, <2>1, CallFacts DEF Fields, Ready
  <2> QED BY <1>2, <1>5, <2>1, <2>2, GotoInv
<1> QED BY <1>1, <1>3, <1>4, <1>5

\* The loops over the sectors and clusters, when it is not ls that goes on.
LEMMA LoopInv ==
  ASSUME DirInv, call.at \notin {"list", "listed", "stuck", "return"},
         \/ \E step : NextSector(step)
         \/ AskTable
         \/ NextCluster
  PROVE  DirInv'
<1>1. CASE AskTable
  <2>1. /\ call' = [call EXCEPT !.sec = Spc + 1, !.next = view[cur[call.index] - Spc + 1]]
        /\ UNCHANGED <<card, bufs>>
    BY <1>1 DEF AskTable, Stay
  <2>2. PICK f : f = call'
    OBVIOUS
  <2>3. Ready(f) /\ f.at = call.at
    BY <2>1, <2>2, CallFacts DEF Fields, Ready
  <2> QED BY <2>1, <2>2, <2>3, ReadyInv
<1>2. ASSUME NEW s, NEW sec, Goto([call EXCEPT !.loc = 0], s, call.at, sec) PROVE DirInv'
  <2>1. PICK c : c = [call EXCEPT !.loc = 0]
    OBVIOUS
  <2>2. Ready(c)
    BY <2>1, CallFacts DEF Fields, Ready
  <2> QED BY <1>2, <2>1, <2>2, GotoInv
<1>3. CASE \E step : NextSector(step)
  BY <1>2, <1>3 DEF NextSector
<1>4. CASE NextCluster
  BY <1>2, <1>4 DEF NextCluster
<1> QED BY <1>1, <1>3, <1>4

LEMMA ScanOnInv == DirInv /\ (ScanOn \/ ScanOver) => DirInv'
BY LoopInv, NoFileInv DEF ScanOn, ScanOver

LEMMA BeginInv == ASSUME NEW c \in Commands PROVE DirInv /\ Begin(c) => DirInv'
<1> SUFFICES ASSUME DirInv, Begin(c) PROVE DirInv'
  OBVIOUS
<1>1. c[1] # "none" /\ c[2] \in Seq(EntryNames) /\ c[2] # <<>>
  BY CommandsAssumption
<1>2. PICK d : d = [NoCall EXCEPT !.op = c[1], !.path = c[2]]
  OBVIOUS
<1>3. Ready(d)
  <2>1. /\ Fields(NoCall) /\ ~NoCall.file.entry.dir /\ NoCall.loc = 0 /\ NoCall.listed = {}
    BY NoCallOK DEF NotListed, CallOK, NoCall, NoFile, End
  <2> QED BY <1>1, <1>2, <2>1 DEF Fields, Ready
<1>4. \E phase, upto : fs_find(d, phase, upto)
  BY <1>2 DEF Begin
<1>5. call.at # "stuck"
  BY CallFacts DEF Begin
<1> QED BY <1>3, <1>4, <1>5, FindInv


----------------------------------------------------------------------------
(* What was found *)

\* The step of a command from one place to another.
LEMMA OnwardInv ==
  ASSUME DirInv, call.at # "stuck", NEW c, Stay(c), Ready(c), c.at \notin {"list", "listed", "stuck"}
  PROVE  DirInv'
BY ReadyInv DEF Stay

LEMMA FoundToRemoveInv == DirInv /\ (FoundToRemove \/ FoundToClose \/ ReopenedToWrite) => DirInv'
<1>1. CASE DirInv /\ FoundToRemove
  <2>1. PICK c : c = [call EXCEPT !.at = "free", !.clus = call.file.entry.clus, !.file.entry.name = Gone]
    OBVIOUS
  <2>2. Stay(c) /\ call.at = "found" /\ Gone \in EntryNames
    BY <1>1, <2>1, NamesAssumption DEF FoundToRemove
  <2>3. Ready(call)
    BY <1>1, <2>2, CallFacts
  <2>4. /\ c.file.entry \in Entries /\ c.file.entry.dir = call.file.entry.dir
        /\ c.file.entry.clus = call.file.entry.clus
    BY <2>1, <2>2, <2>3 DEF Ready, Fields, Entries
  <2>5. Ready(c) /\ c.at = "free"
    BY <2>1, <2>3, <2>4 DEF Ready, Fields
  <2> QED BY <1>1, <2>2, <2>5, OnwardInv
<1>2. CASE DirInv /\ FoundToClose
  <2>1. PICK c : c = [call EXCEPT !.at = "close"]
    OBVIOUS
  <2>2. Stay(c) /\ call.at = "found"
    BY <1>2, <2>1 DEF FoundToClose
  <2>3. Ready(c) /\ c.at = "close"
    BY <1>2, <2>1, <2>2, CallFacts DEF Ready, Fields
  <2> QED BY <1>2, <2>2, <2>3, OnwardInv
<1>3. CASE DirInv /\ ReopenedToWrite
  <2>1. PICK c : c = [call EXCEPT !.at = "alloc"]
    OBVIOUS
  <2>2. Stay(c) /\ call.at = "found"
    BY <1>3, <2>1 DEF ReopenedToWrite
  <2>3. Ready(c) /\ c.at = "alloc"
    BY <1>3, <2>1, <2>2, CallFacts DEF Ready, Fields
  <2> QED BY <1>3, <2>2, <2>3, OnwardInv
<1> QED BY <1>1, <1>2, <1>3

LEMMA FoundToFailInv == DirInv /\ FoundToFail => DirInv'
BY ReturnInv DEF FoundToFail, Return, Stay

LEMMA FoundToCreateInv == DirInv /\ (FoundToCreate \/ ParentFound) => DirInv'
<1>1. CASE DirInv /\ FoundToCreate
  <2>1. Ready(call) /\ call.at # "stuck"
    BY <1>1, CallFacts DEF FoundToCreate
  <2>2. CASE Goto(call, fs_dataclus2sec(Root), "empty", 1)
    BY <1>1, <2>1, <2>2, GotoInv
  <2>3. CASE fs_find(call, "parent", Len(call.path) - 1)
    BY <1>1, <2>1, <2>3, FindInv
  <2> QED BY <1>1, <2>2, <2>3 DEF FoundToCreate
<1>2. CASE DirInv /\ ParentFound
  <2>1. /\ Ready(call) /\ call.at # "stuck"
        /\ Goto(call, fs_dataclus2sec(call.file.entry.clus), "empty", 1)
    BY <1>2, CallFacts DEF ParentFound
  <2> QED BY <1>2, <2>1, GotoInv
<1> QED BY <1>1, <1>2

----------------------------------------------------------------------------
(* Writing *)

\* An entry is put into the buffer of the call.
LEMMA EntryInv ==
  ASSUME DirInv, call.at \notin {"return", "list", "listed", "stuck"}, NEW x,
         NEW e \in Entries, e.dir => FirstSector(e.clus) \in DOMAIN FirstCard,
         data' = [data EXCEPT ![call.index][x] = e],
         state' = [state EXCEPT ![call.index] = [ref |-> TRUE, dirty |-> TRUE]],
         call' = [call EXCEPT !.at = "flush"],
         UNCHANGED <<card, cur, dir_data_clock_head>>
  PROVE  DirInv'
<1>1. Ready(call)
  BY CallFacts
<1>2. PICK i : i = call.index
  OBVIOUS
<1>3. i \in Bufs
  BY <1>1, <1>2 DEF Ready, Fields
<1>4. /\ state' \in [Bufs -> States] /\ state'[i].dirty
      /\ \A j \in Bufs : j # i => state'[j].dirty = state[j].dirty
  <2>1. state \in [Bufs -> States] /\ [ref |-> TRUE, dirty |-> TRUE] \in States
    BY DEF DirInv, BufsOK, States
  <2> QED BY <1>2, <1>3, <2>1
<1>5. /\ data' \in [Bufs -> [Slots -> Entries]]
      /\ \A j \in Bufs : j # i => data'[j] = data[j]
      /\ \A k \in Slots : data'[i][k] \in {e, data[i][k]}
  <2>1. data \in [Bufs -> [Slots -> Entries]] /\ data[i] \in [Slots -> Entries]
    BY <1>3 DEF DirInv, BufsOK
  <2>2. data' = [data EXCEPT ![i] = [data[i] EXCEPT ![x] = e]]
    BY <1>2
  <2>3. PICK new : new = [data[i] EXCEPT ![x] = e]
    OBVIOUS
  <2>4. new \in [Slots -> Entries] /\ \A k \in Slots : new[k] \in {e, data[i][k]}
    BY <2>1, <2>3
  <2> QED BY <1>3, <2>1, <2>2, <2>3, <2>4
<1>6. DirsOnCard'
  <2>1. DirsOnCard
    BY DEF DirInv, BufsOK
  <2>2. ASSUME NEW j \in Bufs, NEW k \in Slots, data'[j][k].dir
        PROVE  FirstSector(data'[j][k].clus) \in DOMAIN FirstCard
    <3>1. data'[j][k] = e \/ data'[j][k] = data[j][k]
      BY <1>3, <1>5
    <3> QED BY <2>1, <2>2, <3>1 DEF DirsOnCard
  <2> QED BY <2>1, <2>2 DEF DirsOnCard
<1>7. BufsOK'
  BY <1>4, <1>5, <1>6 DEF DirInv, BufsOK, OneBuffer
<1>8. Agree'
  <2>1. Agree
    BY DEF DirInv
  <2> QED BY <1>4, <1>5, <2>1 DEF Agree
<1>9. PICK f : f = call'
  OBVIOUS
<1>10. Ready(f) /\ f.at = "flush"
  BY <1>1, <1>9 DEF Ready, Fields
<1> QED BY <1>7, <1>8, <1>9, <1>10 DEF DirInv, CallOK, Ready, Listing, ListsAll


LEMMA EmptyFoundInv == DirInv /\ EmptyFound => DirInv'
<1> SUFFICES ASSUME DirInv, EmptyFound PROVE DirInv'
  OBVIOUS
<1>1. Ready(call) /\ call.at = "empty"
  BY CallFacts DEF EmptyFound
<1>2. PICK name : name = call.path[Len(call.path)]
  OBVIOUS
<1>3. name \in EntryNames
  BY <1>1, <1>2, LenProperties, EmptySeq DEF Ready, Fields
<1>4. PICK k \in Slots :
        data' = [data EXCEPT ![call.index][k] = [name |-> name, dir |-> call.op = "mkdir", clus |-> 0]]
  BY <1>2 DEF EmptyFound
<1>5. PICK e : e = [name |-> name, dir |-> call.op = "mkdir", clus |-> 0]
  OBVIOUS
<1>6. e \in Entries /\ FirstSector(e.clus) \in DOMAIN FirstCard
  <2>1. e.clus = 0 /\ e \in Entries
    BY <1>3, <1>5 DEF Entries
  <2> QED BY <2>1, CardAssumption
<1>7. data' = [data EXCEPT ![call.index][k] = e]
  BY <1>4, <1>5
<1>8. /\ state' = [state EXCEPT ![call.index] = [ref |-> TRUE, dirty |-> TRUE]]
      /\ call' = [call EXCEPT !.at = "flush"]
      /\ UNCHANGED <<card, cur, dir_data_clock_head>>
  BY DEF EmptyFound
<1> QED BY <1>1, <1>6, <1>7, <1>8, EntryInv

LEMMA EmptyOnInv == DirInv /\ (EmptyOn \/ EmptyOver) => DirInv'
<1>1. CASE DirInv /\ EmptyOn
  BY <1>1, LoopInv DEF EmptyOn
<1>2. CASE DirInv /\ EmptyOver
  <2>1. PICK c : c = [call EXCEPT !.at = "alloc"]
    OBVIOUS
  <2>2. call.at = "empty" /\ (NextCluster \/ Stay(c))
    BY <1>2, <2>1 DEF EmptyOver
  <2>3. CASE NextCluster
    BY <1>2, <2>2, <2>3, LoopInv
  <2>4. CASE Stay(c)
    <3>1. Ready(c) /\ c.at = "alloc"
      BY <1>2, <2>1, <2>2, CallFacts DEF Ready, Fields
    <3> QED BY <1>2, <2>2, <2>4, <3>1, OnwardInv
  <2> QED BY <2>2, <2>3, <2>4
<1> QED BY <1>1, <1>2

\* After fs_alloc nothing is read any more, or it failed.
LEMMA AllocInv == DirInv /\ (Alloc \/ AllocFails \/ WriteAgain \/ StateOneError) => DirInv'
<1>1. CASE DirInv /\ Alloc
  <2>1. /\ card' = [s \in DOMAIN card |-> IF s \in Erased THEN [k \in Slots |-> End] ELSE card[s]]
        /\ call' = [call EXCEPT !.at = "stuck"] /\ UNCHANGED bufs /\ call.at = "alloc"
    BY <1>1 DEF Alloc, Marks
  <2>2. card \in [DOMAIN FirstCard -> [Slots -> Entries]]
    BY <1>1 DEF DirInv, BufsOK
  <2>3. End \in Entries /\ ~End.dir
    BY NamesAssumption DEF End, Entries
  <2>4. \A s \in DOMAIN FirstCard : card'[s] = card[s] \/ card'[s] = [k \in Slots |-> End]
    BY <2>1, <2>2
  <2>5. card' \in [DOMAIN FirstCard -> [Slots -> Entries]]
    <3>1. PICK in : in = {s \in DOMAIN FirstCard : s \in Erased}
      OBVIOUS
    <3>2. PICK blank : blank = [k \in Slots |-> End]
      OBVIOUS
    <3>3. card' = [s \in DOMAIN FirstCard |-> IF s \in in THEN blank ELSE card[s]]
      BY <2>1, <2>2, <3>1, <3>2
    <3>4. blank \in [Slots -> Entries]
      BY <2>3, <3>2
    <3> QED BY <2>2, <3>3, <3>4
  <2>6. DirsOnCard'
    <3>1. DirsOnCard
      BY <1>1 DEF DirInv, BufsOK
    <3>2. \A s \in DOMAIN FirstCard, k \in Slots : card'[s][k] = card[s][k] \/ ~card'[s][k].dir
      BY <2>3, <2>4
    <3> QED BY <2>1, <3>1, <3>2 DEF DirsOnCard, bufs
  <2>7. BufsOK'
    BY <1>1, <2>1, <2>5, <2>6 DEF DirInv, BufsOK, OneBuffer, bufs
  <2>8. PICK f : f = call'
    OBVIOUS
  <2>9. Ready(f) /\ f.at = "stuck"
    <3>1. Ready(call)
      BY <1>1, <2>1, CallFacts
    <3> QED BY <2>1, <2>8, <3>1 DEF Ready, Fields
  <2> QED BY <2>7, <2>8, <2>9 DEF DirInv, CallOK, Ready, Listing, ListsAll
<1>2. CASE DirInv /\ AllocFails
  <2>1. UNCHANGED <<card, bufs>> /\ call.at = "alloc"
    BY <1>2 DEF AllocFails, Marks
  <2>2. CASE call' = NoCall
    BY <1>2, <2>1, <2>2, ReturnInv
  <2>3. CASE call' = [call EXCEPT !.at = "rewrite"]
    <3>1. PICK f : f = call'
      OBVIOUS
    <3>2. Ready(f) /\ f.at = "rewrite"
      BY <1>2, <2>1, <2>3, <3>1, CallFacts DEF Ready, Fields
    <3> QED BY <1>2, <2>1, <3>1, <3>2, ReadyInv
  <2> QED BY <1>2, <2>2, <2>3 DEF AllocFails
<1>3. CASE DirInv /\ WriteAgain
  <2>1. PICK c : c = [call EXCEPT !.at = "close"]
    OBVIOUS
  <2>2. Stay(c) /\ call.at = "rewrite"
    BY <1>3, <2>1 DEF WriteAgain
  <2>3. Ready(c) /\ c.at = "close"
    BY <1>3, <2>1, <2>2, CallFacts DEF Ready, Fields
  <2> QED BY <1>3, <2>2, <2>3, OnwardInv
<1>4. CASE DirInv /\ StateOneError
  <2>1. PICK f : f = call'
    OBVIOUS
  <2>2. f = [call EXCEPT !.at = "stuck"] /\ UNCHANGED <<card, bufs>> /\ call.at \in {"alloc", "rewrite"}
    BY <1>4, <2>1 DEF StateOneError, Stay
  <2>3. Ready(f) /\ f.at = "stuck"
    BY <1>4, <2>2, CallFacts DEF Ready, Fields
  <2>4. BufsOK'
    BY <1>4, <2>2 DEF DirInv, BufsOK, bufs, OneBuffer, DirsOnCard
  <2> QED BY <2>1, <2>3, <2>4 DEF DirInv, CallOK, Ready, Listing, ListsAll
<1> QED BY <1>1, <1>2, <1>3, <1>4

LEMMA FreeInv == DirInv /\ (FreeGet \/ FreeModify \/ FreeOver) => DirInv'
<1>1. CASE DirInv /\ FreeGet
  <2>1. PICK c : c = [call EXCEPT !.at = "freed", !.next = view[call.clus]]
    OBVIOUS
  <2>2. Stay(c) /\ call.at = "free"
    BY <1>1, <2>1 DEF FreeGet
  <2>3. Ready(c) /\ c.at = "freed"
    BY <1>1, <2>1, <2>2, CallFacts DEF Ready, Fields
  <2> QED BY <1>1, <2>2, <2>3, OnwardInv
<1>2. CASE DirInv /\ FreeModify
  <2>1. PICK f : f = call'
    OBVIOUS
  <2>2. /\ f = [call EXCEPT !.at = "free", !.clus = call.next]
        /\ call.at = "freed" /\ UNCHANGED <<card, bufs>>
    BY <1>2, <2>1 DEF FreeModify
  <2>3. Ready(f) /\ f.at = "free"
    BY <1>2, <2>2, CallFacts DEF Ready, Fields
  <2> QED BY <1>2, <2>1, <2>2, <2>3, ReadyInv
<1>3. CASE DirInv /\ FreeOver
  <2>1. PICK c : c = [call EXCEPT !.at = "close"]
    OBVIOUS
  <2>2. Stay(c) /\ call.at = "free"
    BY <1>3, <2>1 DEF FreeOver
  <2>3. Ready(c) /\ c.at = "close"
    BY <1>3, <2>1, <2>2, CallFacts DEF Ready, Fields
  <2> QED BY <1>3, <2>2, <2>3, OnwardInv
<1> QED BY <1>1, <1>2, <1>3

LEMMA CloseInv == DirInv /\ Close => DirInv'
<1> SUFFICES ASSUME DirInv, Close PROVE DirInv'
  OBVIOUS
<1>1. PICK f : f = call'
  OBVIOUS
<1>2. PICK i \in Bufs : /\ fs_read_512(call.file.sector, i)
                        /\ f = [call EXCEPT !.at = "closing", !.index = i]
  BY <1>1 DEF Close
<1>3. call.at = "close" /\ Ready(call)
  BY CallFacts DEF Close
<1>4. BufsOK' /\ Agree'
  BY <1>2, <1>3, ReadFacts DEF DirInv
<1>5. Ready(f) /\ f.at = "closing"
  BY <1>2, <1>3 DEF Ready, Fields
<1> QED BY <1>1, <1>4, <1>5 DEF DirInv, CallOK, Ready, Listing, ListsAll

LEMMA ClosingInv == DirInv /\ Closing => DirInv'
<1> SUFFICES ASSUME DirInv, Closing PROVE DirInv'
  OBVIOUS
<1>1. Ready(call) /\ call.at = "closing"
  BY CallFacts DEF Closing
<1>2. PICK e, x : e = call.file.entry /\ x = call.file.pos
  OBVIOUS
<1>3. /\ data' = [data EXCEPT ![call.index][x] = e]
      /\ state' = [state EXCEPT ![call.index] = [ref |-> TRUE, dirty |-> TRUE]]
      /\ call' = [call EXCEPT !.at = "flush"]
      /\ UNCHANGED <<card, cur, dir_data_clock_head>>
  BY <1>2 DEF Closing
<1>4. e \in Entries /\ (e.dir => FirstSector(e.clus) \in DOMAIN FirstCard)
  BY <1>1, <1>2 DEF Ready, Fields
<1> QED BY <1>1, <1>3, <1>4, EntryInv

\* fs_fflush writes a buffer; what is seen is what it was.
LEMMA FlushSectorInv == DirInv /\ FlushSector => DirInv'
<1> SUFFICES ASSUME DirInv, FlushSector PROVE DirInv'
  OBVIOUS
<1>1. PICK i \in Bufs : state[i].dirty /\ card' = Written(i) /\ state' = [state EXCEPT ![i].dirty = FALSE]
  BY DEF FlushSector, Dirty
<1>2. call.at = "flush" /\ call' = call /\ UNCHANGED <<cur, data, dir_data_clock_head>>
  BY DEF FlushSector
<1>3. BufsOK /\ Agree
  BY <1>2 DEF DirInv
<1>4. /\ state' \in [Bufs -> States] /\ ~state'[i].dirty
      /\ \A j \in Bufs : j # i => state'[j].dirty = state[j].dirty
  <2>1. state \in [Bufs -> States] /\ state[i] \in States
    BY <1>3 DEF BufsOK
  <2> QED BY <1>1, <2>1 DEF States
<1>5. /\ card' \in [DOMAIN FirstCard -> [Slots -> Entries]]
      /\ \A s \in DOMAIN FirstCard : s # cur[i] => card'[s] = card[s]
      /\ cur[i] \in DOMAIN FirstCard => card'[cur[i]] = data[i]
      /\ \A s \in DOMAIN FirstCard, k \in Slots :
           card'[s][k].dir => FirstSector(card'[s][k].clus) \in DOMAIN FirstCard
  BY <1>1, <1>3, WrittenFacts
<1>6. BufsOK'
  BY <1>2, <1>3, <1>4, <1>5 DEF BufsOK, OneBuffer, DirsOnCard
<1>7. Agree'
  <2>1. ASSUME NEW j \in Bufs, ~state'[j].dirty, cur[j] \in DOMAIN FirstCard PROVE data[j] = card'[cur[j]]
    <3>1. CASE j = i
      BY <1>5, <2>1, <3>1
    <3>2. CASE j # i
      <4>1. ~state[j].dirty
        BY <1>4, <2>1, <3>2
      <4>2. cur[j] # cur[i]
        BY <1>3, <2>1, <3>2, CardAssumption DEF BufsOK, OneBuffer
      <4> QED BY <1>3, <1>5, <2>1, <4>1, <4>2 DEF Agree
    <3> QED BY <3>1, <3>2
  <2> QED BY <1>2, <2>1 DEF Agree
<1>8. CallOK(call')
  BY <1>2 DEF DirInv
<1> QED BY <1>2, <1>6, <1>7, <1>8 DEF DirInv, Listing, ListsAll

LEMMA FlushOverInv == DirInv /\ FlushOver => DirInv'
<1> SUFFICES ASSUME DirInv, FlushOver PROVE DirInv'
  OBVIOUS
<1>1. call.at = "flush" /\ Ready(call)
  BY CallFacts DEF FlushOver
<1>2. CASE fs_find(call, "reopen", Len(call.path))
  BY <1>1, <1>2, FindInv
<1>3. CASE Return
  BY <1>1, <1>3, ReturnInv DEF Return, Stay
<1> QED BY <1>2, <1>3 DEF FlushOver


----------------------------------------------------------------------------
(* Listing *)

\* The first sector of a directory is seen as it is in the buffer of ls.
LEMMA ListSees ==
  ASSUME DirInv, call.at = "list", Before(call.file.entry.clus)
  PROVE  /\ call.index \in Bufs
         /\ Seen(FirstSector(call.file.entry.clus)) = Sector
<1>1. call.index \in Bufs
  BY CallFacts DEF Fields
<1>2. cur[call.index] = FirstSector(call.file.entry.clus) /\ cur[call.index] \in DOMAIN FirstCard
  BY DEF DirInv, Listing, Before
<1>3. Seen(cur[call.index]) = data[call.index]
  BY <1>1, <1>2, SeenInBuffer DEF DirInv, BufsOK
<1> QED BY <1>1, <1>2, <1>3 DEF Sector

\* ls begins.
LEMMA ListInv ==
  ASSUME DirInv, call.at # "stuck", NEW c, Fields(c), c.op # "none", c.loc = 0, c.listed = {},
         FirstSector(c.file.entry.clus) \in DOMAIN FirstCard,
         Goto(c, fs_dataclus2sec(c.file.entry.clus), "list", 1)
  PROVE  DirInv'
<1>1. PICK s : s = fs_dataclus2sec(c.file.entry.clus)
  OBVIOUS
<1>2. Goto(c, s, "list", 1) /\ s + Base = FirstSector(c.file.entry.clus)
  BY <1>1 DEF FirstSector
<1>3. /\ BufsOK' /\ Agree'
      /\ \A t \in DOMAIN FirstCard : Seen(t)' = Seen(t)
      /\ \E i \in Bufs : /\ cur'[i] = s + Base
                         /\ call' = [c EXCEPT !.at = "list", !.sec = 1, !.index = i, !.next = 0]
      /\ Fields(call') /\ call'.at = "list" /\ call'.sec = 1 /\ call'.index \in Bufs
      /\ cur'[call'.index] = s + Base
      /\ call'.op = c.op /\ call'.path = c.path /\ call'.file = c.file /\ call'.loc = c.loc
      /\ call'.listed = c.listed
  BY <1>2, GotoFacts
<1>4. CallOK(call')
  BY <1>3 DEF CallOK
<1>5. Before(call.file.entry.clus)'
  <2>1. 0 \in 0 .. PerSector /\ 0 .. 0 - 1 = {}
    BY SizesAssumption
  <2> QED BY <1>2, <1>3, <2>1 DEF Before
<1> QED BY <1>3, <1>4, <1>5 DEF DirInv, Listing, ListsAll

LEMMA BeginListInv == DirInv /\ BeginListRoot => DirInv'
<1> SUFFICES ASSUME DirInv, BeginListRoot PROVE DirInv'
  OBVIOUS
<1>1. PICK c : c = [NoCall EXCEPT !.op = "ls", !.file.entry.clus = Root]
  OBVIOUS
<1>2. Fields(NoCall) /\ NoCall.file.entry = End /\ NoCall.loc = 0 /\ NoCall.listed = {}
  BY NoCallOK DEF NotListed, CallOK, NoCall, NoFile
<1>3. /\ c.file.entry \in Entries /\ c.file.entry.clus = Root /\ Fields(c) /\ c.op = "ls"
      /\ c.loc = 0 /\ c.listed = {}
  BY <1>1, <1>2 DEF Fields, Entries, Root
<1>4. Goto(c, fs_dataclus2sec(c.file.entry.clus), "list", 1)
  BY <1>1, <1>3 DEF BeginListRoot
<1>5. call.at # "stuck" /\ FirstSector(c.file.entry.clus) \in DOMAIN FirstCard
  BY <1>3, CallFacts, CardAssumption DEF BeginListRoot
<1> QED BY <1>3, <1>4, <1>5, ListInv

LEMMA FoundToListInv == DirInv /\ FoundToList => DirInv'
<1> SUFFICES ASSUME DirInv, FoundToList PROVE DirInv'
  OBVIOUS
<1>1. call.at = "found" /\ Ready(call)
  BY CallFacts DEF FoundToList
<1>2. CASE Return
  BY <1>1, <1>2, ReturnInv DEF Return, Stay
<1>3. CASE call.file.entry.dir /\ Goto(call, fs_dataclus2sec(call.file.entry.clus), "list", 1)
  BY <1>1, <1>3, ListInv DEF Ready
<1> QED BY <1>2, <1>3 DEF FoundToList

\* What is listed when ls goes on to another sector.
LEMMA NoEndHere ==
  ASSUME DirInv, call.at = "list", NoSlot(StopsList, call.loc)
  PROVE  NoEnd(call.file.entry.clus)
<1>1. CASE Before(call.file.entry.clus)
  <2>1. \A k \in Slots : k < call.loc => ~IsEnd(Sector[k])
    BY <1>1, SizesAssumption DEF Before, Slots, Sector
  <2>2. \A k \in Slots : k >= call.loc => IsGone(Sector[k])
    BY DEF NoSlot, StopsList
  <2>3. call.loc \in Int
    BY <1>1 DEF Before
  <2>4. \A k \in Slots : k < call.loc \/ k >= call.loc
    BY <2>3, SizesAssumption DEF Slots
  <2>5. ASSUME NEW e, IsGone(e) PROVE ~IsEnd(e)
    BY <2>5 DEF IsGone, IsEnd, Gone
  <2>6. \A k \in Slots : ~IsEnd(Sector[k])
    BY <2>1, <2>2, <2>4, <2>5
  <2> QED BY <1>1, <2>6, ListSees DEF NoEnd
<1> QED BY <1>1 DEF DirInv, Listing

\* ls goes on after a sector without an end.
LEMMA ListGotoInv ==
  ASSUME DirInv, call.at = "list", NoEnd(call.file.entry.clus), NEW s, NEW sec,
         Goto([call EXCEPT !.loc = 0], s, "list", sec)
  PROVE  DirInv'
<1>1. PICK c : c = [call EXCEPT !.loc = 0]
  OBVIOUS
<1>2. /\ Fields(c) /\ c.op = call.op /\ c.file = call.file /\ Goto(c, s, "list", sec)
      /\ c.path = call.path
  BY <1>1, CallFacts DEF Fields
<1>3. /\ BufsOK' /\ Agree'
      /\ \A t \in DOMAIN FirstCard : Seen(t)' = Seen(t)
      /\ \E i \in Bufs : /\ cur'[i] = s + Base
                         /\ call' = [c EXCEPT !.at = "list", !.sec = sec, !.index = i, !.next = 0]
      /\ Fields(call') /\ call'.at = "list" /\ call'.sec = sec /\ call'.index \in Bufs
      /\ cur'[call'.index] = s + Base
      /\ call'.op = c.op /\ call'.path = c.path /\ call'.file = c.file /\ call'.loc = c.loc
      /\ call'.listed = c.listed
  BY <1>2, GotoFacts
<1>4. FirstSector(call.file.entry.clus) \in DOMAIN FirstCard
  BY DEF DirInv, Listing
<1>5. CallOK(call')
  BY <1>2, <1>3, CallFacts DEF CallOK
<1>6. NoEnd(call.file.entry.clus)'
  BY <1>2, <1>3, <1>4 DEF NoEnd
<1> QED BY <1>2, <1>3, <1>4, <1>5, <1>6 DEF DirInv, Listing, ListsAll

\* ls goes on in its sector, or ends, after a sector without an end.
LEMMA ListStayInv ==
  ASSUME DirInv, call.at = "list", NoEnd(call.file.entry.clus), NEW c, Stay(c),
         \/ \E next : c = [call EXCEPT !.sec = Spc + 1, !.next = next]
         \/ c = [call EXCEPT !.at = "listed"]
  PROVE  DirInv'
<1>1. PICK f : f = call'
  OBVIOUS
<1>2. f = c /\ UNCHANGED <<card, bufs>>
  BY <1>1 DEF Stay
<1>0. UNCHANGED <<card, cur, state, data, dir_data_clock_head>>
  BY <1>2 DEF bufs
<1>3. /\ Fields(f) /\ f.file = call.file /\ f.op = call.op /\ f.path = call.path
      /\ f.at \in {"list", "listed"}
  BY <1>2, CallFacts DEF Fields
<1>4. CallOK(f)
  BY <1>3, CallFacts DEF CallOK
<1>5. BufsOK' /\ Agree'
  <2>1. BufsOK /\ Agree
    BY DEF DirInv
  <2>2. Agree'
    BY <1>0, <2>1 DEF Agree
  <2>3. OneBuffer' /\ DirsOnCard'
    BY <1>0, <2>1 DEF BufsOK, OneBuffer, DirsOnCard
  <2> QED BY <1>0, <2>1, <2>2, <2>3 DEF BufsOK
<1>6. NoEnd(call.file.entry.clus)'
  <2>1. UNCHANGED <<card, bufs>>
    BY <1>2
  <2>2. \A t : Seen(t)' = Seen(t)
    BY <2>1, SeenSame
  <2> QED BY <1>1, <1>3, <2>2 DEF NoEnd
<1>7. FirstSector(call.file.entry.clus) \in DOMAIN FirstCard
  BY DEF DirInv, Listing
<1>8. Listing' /\ ListsAll'
  BY <1>1, <1>3, <1>6, <1>7 DEF Listing, ListsAll, NoEnd
<1> QED BY <1>1, <1>4, <1>5, <1>8 DEF DirInv

LEMMA ListOnInv == DirInv /\ ListOn => DirInv'
<1> SUFFICES ASSUME DirInv, ListOn PROVE DirInv'
  OBVIOUS
<1>1. call.at = "list" /\ NoEnd(call.file.entry.clus) /\ Fields(call)
      /\ FirstSector(call.file.entry.clus) \in DOMAIN FirstCard
  BY NoEndHere, CallFacts DEF ListOn, DirInv, Listing
<1>2. CASE NextSector(call.sec)
  BY <1>1, <1>2, ListGotoInv DEF NextSector
<1>3. CASE AskTable
  BY <1>1, <1>3, ListStayInv DEF AskTable
<1> QED BY <1>2, <1>3 DEF ListOn


LEMMA ListOverInv == DirInv /\ ListOver => DirInv'
<1> SUFFICES ASSUME DirInv, ListOver PROVE DirInv'
  OBVIOUS
<1>1. call.at = "list" /\ call.sec = Spc + 1
  BY DEF ListOver, NextCluster, NoCluster
<1>2. NoEnd(call.file.entry.clus)
  <2>1. call.sec # 1
    BY <1>1, SizesAssumption
  <2> QED BY <1>1, <2>1 DEF DirInv, Listing, Before
<1>3. CASE NextCluster
  BY <1>1, <1>2, <1>3, ListGotoInv DEF NextCluster
<1>4. CASE Stay([call EXCEPT !.at = "listed"])
  BY <1>1, <1>2, <1>4, ListStayInv
<1> QED BY <1>3, <1>4 DEF ListOver

LEMMA ListedInv == DirInv /\ Listed => DirInv'
BY ReturnInv DEF Listed, Return, Stay

\* The slots before the next entry that ls comes to are listed already or deleted.
LEMMA ListSteps ==
  ASSUME DirInv, call.at = "list", NEW k \in Slots, FirstSlot(StopsList, call.loc, k),
         Before(call.file.entry.clus)
  PROVE  /\ ~IsGone(Sector[k])
         /\ \A j \in 0 .. k - 1 : j \in Slots /\ ~IsEnd(Sector[j])
         /\ call.listed = {Sector[j].name : j \in {l \in 0 .. k - 1 : ~IsGone(Sector[l])}}
<1>1. /\ k >= call.loc /\ ~IsGone(Sector[k]) /\ \A j \in call.loc .. k - 1 : IsGone(Sector[j])
  BY DEF FirstSlot, StopsList
<1>2. /\ call.loc \in 0 .. PerSector
      /\ \A j \in 0 .. call.loc - 1 : ~IsEnd(Sector[j])
      /\ call.listed = {Sector[j].name : j \in {l \in 0 .. call.loc - 1 : ~IsGone(Sector[l])}}
  BY DEF Before, Sector
<1>3. k \in Nat /\ k < PerSector /\ call.loc \in Nat
  BY <1>2, SizesAssumption DEF Slots
<1>4. \A j \in 0 .. k - 1 : j \in Slots /\ (j \in 0 .. call.loc - 1 \/ j \in call.loc .. k - 1)
  BY <1>3, SizesAssumption DEF Slots
<1>5. ASSUME NEW e, IsGone(e) PROVE ~IsEnd(e)
  BY <1>5 DEF IsGone, IsEnd, Gone
<1>6. \A j \in 0 .. k - 1 : ~IsEnd(Sector[j])
  BY <1>1, <1>2, <1>4, <1>5
<1>7. {l \in 0 .. call.loc - 1 : ~IsGone(Sector[l])} = {l \in 0 .. k - 1 : ~IsGone(Sector[l])}
  <2>1. 0 .. call.loc - 1 \subseteq 0 .. k - 1
    BY <1>1, <1>3
  <2> QED BY <1>1, <1>4, <2>1
<1> QED BY <1>1, <1>2, <1>4, <1>6, <1>7

LEMMA ListSectorInv == DirInv /\ ListSector => DirInv'
<1> SUFFICES ASSUME DirInv, ListSector PROVE DirInv'
  OBVIOUS
<1>1. call.at = "list"
  BY DEF ListSector
<1>2. PICK k \in Slots :
        /\ FirstSlot(StopsList, call.loc, k)
        /\ Stay(IF IsEnd(Sector[k]) THEN [call EXCEPT !.at = "listed"]
                ELSE [call EXCEPT !.loc = k + 1, !.listed = @ \cup {Sector[k].name}])
  BY DEF ListSector
<1>3. PICK d : d = call.file.entry.clus
  OBVIOUS
<1>4. UNCHANGED <<card, bufs>> /\ FirstSector(d) \in DOMAIN FirstCard
  BY <1>1, <1>2, <1>3 DEF Stay, DirInv, Listing
<1>5. BufsOK' /\ Agree'
  BY <1>1, <1>4 DEF DirInv, BufsOK, Agree, bufs, OneBuffer, DirsOnCard
<1>6. \A t : Seen(t)' = Seen(t)
  BY <1>4, SeenSame
<1>7. PICK f : f = call'
  OBVIOUS
<1>8. CASE IsEnd(Sector[k])
  <2>1. f = [call EXCEPT !.at = "listed"]
    BY <1>2, <1>7, <1>8 DEF Stay
  <2>2. /\ Fields(f) /\ f.at = "listed" /\ f.file = call.file /\ f.op = call.op /\ f.path = call.path
        /\ f.listed = call.listed
    BY <2>1, CallFacts DEF Fields
  <2>3. CallOK(f)
    BY <1>1, <2>2, CallFacts DEF CallOK
  <2>4. CASE NoEnd(d)
    BY <1>2, <1>3, <1>4, <1>5, <1>6, <1>7, <2>2, <2>3, <2>4 DEF DirInv, Listing, ListsAll, NoEnd
  <2>5. CASE Before(d)
    <3>1. /\ ~IsGone(Sector[k])
          /\ \A j \in 0 .. k - 1 : j \in Slots /\ ~IsEnd(Sector[j])
          /\ call.listed = {Sector[j].name : j \in {l \in 0 .. k - 1 : ~IsGone(Sector[l])}}
      BY <1>1, <1>2, <1>3, <2>5, ListSteps
    <3>2. Seen(FirstSector(d)) = Sector
      BY <1>1, <1>3, <2>5, ListSees
    <3>3. {j \in Slots : ~IsGone(Sector[j]) /\ \A i \in 0 .. j : ~IsEnd(Sector[i])}
            = {l \in 0 .. k - 1 : ~IsGone(Sector[l])}
      BY <1>8, <3>1, SizesAssumption DEF Slots
    <3>4. call.listed = {e.name : e \in In(Seen, d)}
      <4>1. PICK S : S = {l \in 0 .. k - 1 : ~IsGone(Sector[l])}
        OBVIOUS
      <4>2. In(Seen, d) = {[slot |-> j, name |-> Sector[j].name, dir |-> Sector[j].dir, clus |-> Sector[j].clus] : j \in S}
        BY <3>2, <3>3, <4>1 DEF In
      <4>3. {e.name : e \in In(Seen, d)} = {Sector[j].name : j \in S}
        <5>1. \A e \in In(Seen, d) : \E j \in S : e.name = Sector[j].name
          BY <4>2
        <5>2. \A j \in S : \E e \in In(Seen, d) : e.name = Sector[j].name
          <6>1. ASSUME NEW j \in S PROVE \E e \in In(Seen, d) : e.name = Sector[j].name
            <7>1. PICK e : e = [slot |-> j, name |-> Sector[j].name, dir |-> Sector[j].dir, clus |-> Sector[j].clus]
              OBVIOUS
            <7>2. e \in In(Seen, d)
              BY <4>2, <7>1
            <7>3. e.name = Sector[j].name
              BY <7>1
            <7> QED BY <7>2, <7>3
          <6> QED BY <6>1
        <5> QED BY <5>1, <5>2
      <4> QED BY <3>1, <4>1, <4>3
    <3>5. In(Seen, d)' = In(Seen, d)
      BY <1>6 DEF In
    <3>6. ListsAll'
      BY <1>3, <1>7, <2>2, <3>4, <3>5 DEF ListsAll
    <3> QED BY <1>3, <1>4, <1>5, <1>7, <2>2, <2>3, <3>6 DEF DirInv, Listing
  <2> QED BY <1>1, <1>3, <2>4, <2>5 DEF DirInv, Listing
<1>9. CASE ~IsEnd(Sector[k])
  <2>1. f = [call EXCEPT !.loc = k + 1, !.listed = @ \cup {Sector[k].name}]
    BY <1>2, <1>7, <1>9 DEF Stay
  <2>2. /\ Fields(f) /\ f.at = "list" /\ f.file = call.file /\ f.op = call.op /\ f.path = call.path
        /\ f.listed = call.listed \cup {Sector[k].name} /\ f.loc = k + 1 /\ f.index = call.index
        /\ f.sec = call.sec
    BY <1>1, <2>1, CallFacts DEF Fields
  <2>3. CallOK(f)
    BY <1>1, <2>2, CallFacts DEF CallOK
  <2>4. CASE NoEnd(d)
    <3>1. NoEnd(d)'
      BY <1>6, <2>4 DEF NoEnd
    <3> QED BY <1>3, <1>4, <1>5, <1>7, <2>2, <2>3, <3>1 DEF DirInv, Listing, ListsAll
  <2>5. CASE Before(d)
    <3>1. /\ ~IsGone(Sector[k])
          /\ \A j \in 0 .. k - 1 : j \in Slots /\ ~IsEnd(Sector[j])
          /\ call.listed = {Sector[j].name : j \in {l \in 0 .. k - 1 : ~IsGone(Sector[l])}}
      BY <1>1, <1>2, <1>3, <2>5, ListSteps
    <3>2. k + 1 \in 0 .. PerSector /\ (0 .. (k + 1) - 1) = (0 .. k - 1) \cup {k}
      BY SizesAssumption DEF Slots
    <3>3. \A j \in 0 .. (k + 1) - 1 : ~IsEnd(Sector[j])
      BY <1>9, <3>1, <3>2
    <3>4. {l \in 0 .. (k + 1) - 1 : ~IsGone(Sector[l])} = {l \in 0 .. k - 1 : ~IsGone(Sector[l])} \cup {k}
      BY <3>1, <3>2
    <3>5. call.listed \cup {Sector[k].name}
            = {Sector[j].name : j \in {l \in 0 .. (k + 1) - 1 : ~IsGone(Sector[l])}}
      BY <3>1, <3>4
    <3>6. /\ f.sec = 1 /\ cur[f.index] = FirstSector(d) /\ f.loc \in 0 .. PerSector
          /\ \A j \in 0 .. f.loc - 1 : ~IsEnd(data[f.index][j])
          /\ f.listed = {data[f.index][j].name : j \in {l \in 0 .. f.loc - 1 : ~IsGone(data[f.index][l])}}
      BY <2>2, <2>5, <3>2, <3>3, <3>5 DEF Before, Sector
    <3>7. Before(d)'
      BY <1>4, <1>7, <3>6 DEF Before, bufs
    <3> QED BY <1>3, <1>4, <1>5, <1>7, <2>2, <2>3, <3>7 DEF DirInv, Listing, ListsAll
  <2> QED BY <1>1, <1>3, <2>4, <2>5 DEF DirInv, Listing
<1> QED BY <1>8, <1>9


----------------------------------------------------------------------------
(* Every step of a command *)

LEMMA CrashInv == DirInv /\ Crash => DirInv'
<1> SUFFICES ASSUME DirInv, Crash PROVE DirInv'
  OBVIOUS
<1>1. /\ cur' = [i \in Bufs |-> None] /\ state' = [i \in Bufs |-> [ref |-> FALSE, dirty |-> FALSE]]
      /\ data' = [i \in Bufs |-> [k \in Slots |-> End]]
      /\ dir_data_clock_head' = 0 /\ call' = NoCall /\ card' = card
  BY DEF Crash, Empty
<1>2. End \in Entries /\ ~End.dir /\ [ref |-> FALSE, dirty |-> FALSE] \in States
  BY NamesAssumption DEF End, Entries, States
<1>3. BufsOK'
  <2>1. BufsOK
    BY DEF DirInv
  <2>2. card' \in [DOMAIN FirstCard -> [Slots -> Entries]]
    BY <1>1, <2>1 DEF BufsOK
  <2>3. cur' \in [Bufs -> {cur'[i] : i \in Bufs}] /\ OneBuffer'
    BY <1>1 DEF OneBuffer
  <2>4. state' \in [Bufs -> States] /\ data' \in [Bufs -> [Slots -> Entries]] /\ dir_data_clock_head' \in Bufs
    BY <1>1, <1>2, ClockStays
  <2>5. \A i \in Bufs, k \in Slots : data'[i][k] = End
    BY <1>1
  <2>6. DirsOnCard'
    BY <1>1, <1>2, <2>1, <2>5 DEF DirsOnCard, BufsOK
  <2> QED BY <2>2, <2>3, <2>4, <2>6 DEF BufsOK
<1>4. Agree'
  BY <1>1, CardAssumption DEF Agree
<1>5. NotListed(call')
  BY <1>1, NoCallOK
<1> QED BY <1>3, <1>4, <1>5 DEF DirInv, NotListed, Listing, ListsAll

\* What changes only the table.
LEMMA SameInv == DirInv /\ UNCHANGED <<card, bufs, call>> => DirInv'
<1> SUFFICES ASSUME DirInv, UNCHANGED <<card, bufs, call>> PROVE DirInv'
  OBVIOUS
<1>1. UNCHANGED <<card, bufs>> /\ call' = call
  OBVIOUS
<1>2. \A t : Seen(t)' = Seen(t)
  BY <1>1, SeenSame
<1>3. BufsOK' /\ (call.at # "stuck" => Agree')
  BY <1>1 DEF DirInv, BufsOK, Agree, bufs, OneBuffer, DirsOnCard
<1>4. CallOK(call')
  BY <1>1 DEF DirInv
<1>5. Listing'
  <2>1. \A d : NoEnd(d)' = NoEnd(d)
    BY <1>2 DEF NoEnd
  <2>2. \A d : Before(d)' = Before(d)
    BY <1>1 DEF Before, bufs
  <2> QED BY <1>1, <2>1, <2>2 DEF DirInv, Listing
<1>6. ListsAll'
  <2>1. \A d : In(Seen, d)' = In(Seen, d)
    BY <1>2 DEF In
  <2> QED BY <1>1, <1>2, <2>1 DEF DirInv, ListsAll
<1> QED BY <1>1, <1>3, <1>4, <1>5, <1>6 DEF DirInv

LEMMA StepInv == DirInv /\ Step => DirInv'
<1>1. DirInv /\ PersistFat => DirInv'
  BY SameInv DEF PersistFat
<1> QED BY <1>1, ScanSectorInv, ScanOnInv, FoundToRemoveInv, FoundToListInv, FoundToFailInv,
           FoundToCreateInv, EmptyFoundInv, EmptyOnInv, AllocInv, FreeInv, CloseInv, ClosingInv,
           FlushSectorInv, FlushOverInv, ListSectorInv, ListOnInv, ListOverInv, ListedInv, CrashInv
        DEF Step

LEMMA DirInvStep == DirInv /\ [CarefulNext]_volume => DirInv'
<1>1. DirInv /\ UNCHANGED volume => DirInv'
  BY SameInv DEF volume
<1> QED BY <1>1, StepInv, BeginInv, BeginListInv DEF CarefulNext

\* The history variable roomy adds no step.
LEMMA VolumeStep == [CarefulNext /\ Noted]_<<volume, roomy>> => [CarefulNext]_volume
  OBVIOUS

\* DirInv holds throughout.
LEMMA DirInvHolds == CarefulSpec => []DirInv
BY InitInv, DirInvStep, VolumeStep, PTL DEF CarefulSpec, VolumeInit

\* ls lists what is in the directory, no more and no less, if the directory does not fill
\* its first sector (fs_read_dir), whatever buffers its sectors pass through.
THEOREM LsListsAll == CarefulSpec => []ListsAll
<1>1. DirInv => ListsAll
  BY DEF DirInv
<1> QED BY <1>1, DirInvHolds, PTL

----------------------------------------------------------------------------
(* Returning *)

Clean == \A i \in Bufs : Flushed(i)

\* When no buffer is dirty, the tree of names that is seen is the one on the card.
LEMMA CleanTree == BufsOK /\ Agree /\ Clean => Tree(Seen) = Tree(OnCard)
<1> SUFFICES ASSUME BufsOK, Agree, Clean PROVE Tree(Seen) = Tree(OnCard)
  OBVIOUS
<1>1. ASSUME NEW s \in DOMAIN FirstCard PROVE Seen(s) = OnCard(s)
  <2>1. CASE \E i \in Bufs : cur[i] = s
    <3>1. PICK i \in Bufs : cur[i] = s
      BY <2>1
    <3>2. Seen(s) = data[i]
      BY <3>1, SeenInBuffer DEF BufsOK
    <3>3. data[i] = card[s]
      BY <3>1 DEF Agree, Clean, Flushed
    <3> QED BY <3>2, <3>3 DEF OnCard
  <2>2. CASE ~\E i \in Bufs : cur[i] = s
    BY <2>2 DEF Seen, OnCard
  <2> QED BY <2>1, <2>2
<1>2. \A d \in Directories \cup {Root} : Seen(FirstSector(d)) = OnCard(FirstSector(d))
  BY <1>1, CardAssumption
<1>3. \A d \in Directories \cup {Root} : In(Seen, d) = In(OnCard, d)
  BY <1>2 DEF In
<1>4. Reached(Seen) = Reached(OnCard)
  BY <1>3 DEF Reached
<1>5. \A d \in Directories : In(Seen, d) = In(OnCard, d)
  BY <1>3
<1> QED BY <1>4, <1>5 DEF Tree


\* Only a stop of the machine counts as one.
LEMMA CrashesStay == [CarefulNext]_volume /\ ~Crash => crashes' = crashes
<1>1. ASSUME NEW c, Stay(c) PROVE crashes' = crashes
  BY <1>1 DEF Stay
<1>2. ASSUME NEW c, NEW s, NEW at, NEW sec, Goto(c, s, at, sec) PROVE crashes' = crashes
  BY <1>2 DEF Goto
<1>3. (\E step : NextSector(step)) \/ AskTable \/ NextCluster => crashes' = crashes
  BY <1>1, <1>2 DEF NextSector, AskTable, NextCluster
<1>4. ASSUME NEW c, NEW phase, NEW upto, fs_find(c, phase, upto) PROVE crashes' = crashes
  BY <1>2, <1>4 DEF fs_find
<1>5. Return => crashes' = crashes
  BY <1>1 DEF Return
<1>6. ScanSector \/ ScanOn \/ ScanOver => crashes' = crashes
  <2>1. ASSUME NEW file, Found(file) PROVE crashes' = crashes
    BY <1>1, <2>1 DEF Found
  <2> QED BY <1>2, <1>3, <2>1 DEF ScanSector, ScanOn, ScanOver
<1>7. FoundToRemove \/ FoundToClose \/ FoundToList \/ FoundToFail => crashes' = crashes
  BY <1>1, <1>2, <1>5 DEF FoundToRemove, FoundToClose, FoundToList, FoundToFail
<1>8. FoundToCreate \/ ParentFound \/ ReopenedToWrite => crashes' = crashes
  BY <1>1, <1>2, <1>4 DEF FoundToCreate, ParentFound, ReopenedToWrite
<1>9. EmptyFound \/ EmptyOn \/ EmptyOver => crashes' = crashes
  BY <1>1, <1>3 DEF EmptyFound, EmptyOn, EmptyOver
<1>10. Alloc \/ AllocFails \/ WriteAgain \/ StateOneError => crashes' = crashes
  BY <1>1 DEF Alloc, AllocFails, WriteAgain, StateOneError
<1>11. FreeGet \/ FreeModify \/ FreeOver => crashes' = crashes
  BY <1>1 DEF FreeGet, FreeModify, FreeOver
<1>12. Close \/ Closing \/ PersistFat \/ FlushSector \/ FlushOver => crashes' = crashes
  BY <1>4, <1>5 DEF Close, Closing, PersistFat, FlushSector, FlushOver
<1>13. ListSector \/ ListOn \/ ListOver \/ Listed => crashes' = crashes
  BY <1>1, <1>3, <1>5 DEF ListSector, ListOn, ListOver, Listed
<1>14. BeginListRoot \/ (\E c \in Commands : Begin(c)) => crashes' = crashes
  BY <1>2, <1>4 DEF BeginListRoot, Begin
<1>15. UNCHANGED volume => crashes' = crashes
  BY DEF volume
<1> QED BY <1>6, <1>7, <1>8, <1>9, <1>10, <1>11, <1>12, <1>13, <1>14, <1>15 DEF CarefulNext, Step

\* Where a command has changed entries or the table and not yet flushed them.
Changing == {"free", "freed", "close", "closing", "flush"}

IsTable(t) == t = [c \in DOMAIN FirstFat |-> t[c]]

\* What else is not on the card is the mark of a failed fs_alloc.
OnlyMarks ==
  \A c \in Clusters : view[c] # stable[c] => c = NextFree /\ view[c] = EndOfChain

Kept ==
  /\ IsTable(view) /\ IsTable(stable)
  /\ call.at # "flush" => Clean
  /\ call.at \notin Changing => OnlyMarks

\* A read of a sector leaves no buffer dirty that was clean.
LEMMA ReadClean ==
  ASSUME BufsOK, Clean, NEW s, NEW i \in Bufs, fs_read_512(s, i)
  PROVE  Clean'
<1>1. state \in [Bufs -> States] /\ \A j \in Bufs : ~state[j].dirty
  BY DEF BufsOK, Clean, Flushed
<1>2. CASE Hit512(s, i)
  <2>1. state' = [state EXCEPT ![i].ref = TRUE] /\ state[i] \in States
    BY <1>1, <1>2 DEF Hit512
  <2> QED BY <1>1, <2>1 DEF Clean, Flushed, States
<1>3. CASE Miss512(s, i)
  <2>1. PICK n \in 0 .. NBuf :
          state' = [Swept(state, dir_data_clock_head, n) EXCEPT ![i] = [ref |-> TRUE, dirty |-> FALSE]]
    BY <1>3 DEF Miss512
  <2>2. PICK after : after = Swept(state, dir_data_clock_head, n)
    OBVIOUS
  <2>3. after \in [Bufs -> States] /\ \A j \in Bufs : ~after[j].dirty
    BY <1>1, <2>2, SweepsClearRef
  <2>4. state' = [after EXCEPT ![i] = [ref |-> TRUE, dirty |-> FALSE]]
    BY <2>1, <2>2
  <2> QED BY <2>3, <2>4 DEF Clean, Flushed
<1> QED BY <1>2, <1>3 DEF fs_read_512

LEMMA KeptSame ==
  ASSUME Kept, UNCHANGED fats, Clean', call.at \notin Changing \/ view = stable
  PROVE  Kept'
BY DEF Kept, IsTable, OnlyMarks, fats

LEMMA KeptStay ==
  ASSUME Kept, NEW c, Stay(c), call.at \notin Changing
  PROVE  Kept'
<1>1. Clean' /\ UNCHANGED fats
  BY DEF Kept, Stay, Clean, Flushed, bufs, Changing
<1> QED BY <1>1, KeptSame

LEMMA KeptGoto ==
  ASSUME Kept, BufsOK, NEW c, NEW s, NEW at, NEW sec, Goto(c, s, at, sec),
         call.at \notin Changing \/ (Clean /\ view = stable)
  PROVE  Kept'
<1>1. Clean /\ UNCHANGED fats
  BY DEF Kept, Goto, Changing
<1>2. PICK i \in Bufs : fs_read_512(s, i)
  BY DEF Goto
<1> QED BY <1>1, <1>2, ReadClean, KeptSame

LEMMA KeptInit == TreeInit => Kept
<1> SUFFICES ASSUME TreeInit PROVE Kept
  OBVIOUS
<1>1. view = FirstFat /\ stable = FirstFat /\ state = [i \in Bufs |-> [ref |-> FALSE, dirty |-> FALSE]]
  BY DEF TreeInit
<1>2. IsTable(view) /\ IsTable(stable)
  BY <1>1, TableAssumption DEF IsTable
<1> QED BY <1>1, <1>2 DEF Kept, Clean, Flushed, OnlyMarks

\* The steps of searches and listings, and those from one place to another.
LEMMA KeptOn ==
  DirInv /\ Kept /\ (ScanSector \/ ScanOn \/ ScanOver \/ FoundToRemove \/ FoundToClose
    \/ FoundToList \/ FoundToFail \/ FoundToCreate \/ ParentFound \/ ReopenedToWrite
    \/ EmptyOn \/ EmptyOver \/ WriteAgain \/ StateOneError
    \/ ListSector \/ ListOn \/ ListOver \/ Listed) => Kept'
<1> SUFFICES ASSUME DirInv, Kept PROVE
      (ScanSector \/ ScanOn \/ ScanOver \/ FoundToRemove \/ FoundToClose
        \/ FoundToList \/ FoundToFail \/ FoundToCreate \/ ParentFound \/ ReopenedToWrite
        \/ EmptyOn \/ EmptyOver \/ WriteAgain \/ StateOneError
        \/ ListSector \/ ListOn \/ ListOver \/ Listed) => Kept'
  OBVIOUS
<1> USE DEF Changing
<1>1. ASSUME NEW c, Stay(c), call.at \notin Changing PROVE Kept'
  BY <1>1, KeptStay
<1>2. ASSUME NEW c, NEW s, NEW at, NEW sec, Goto(c, s, at, sec), call.at \notin Changing PROVE Kept'
  BY <1>2, KeptGoto DEF DirInv
<1>3. ASSUME (\E step : NextSector(step)) \/ AskTable \/ NextCluster, call.at \notin Changing PROVE Kept'
  BY <1>1, <1>2, <1>3 DEF NextSector, AskTable, NextCluster
<1>4. ASSUME NEW c, NEW phase, NEW upto, fs_find(c, phase, upto), call.at \notin Changing PROVE Kept'
  BY <1>2, <1>4 DEF fs_find
<1>5. ASSUME Return, call.at \notin Changing PROVE Kept'
  BY <1>1, <1>5 DEF Return
<1>6. ASSUME NEW file, Found(file), call.at \notin Changing PROVE Kept'
  BY <1>1, <1>6 DEF Found
<1>7. ScanSector \/ ScanOn \/ ScanOver => Kept'
  BY <1>2, <1>3, <1>6 DEF ScanSector, ScanOn, ScanOver
<1>8. FoundToRemove \/ FoundToClose \/ FoundToList \/ FoundToFail => Kept'
  BY <1>1, <1>2, <1>5 DEF FoundToRemove, FoundToClose, FoundToList, FoundToFail
<1>9. FoundToCreate \/ ParentFound \/ ReopenedToWrite => Kept'
  BY <1>1, <1>2, <1>4 DEF FoundToCreate, ParentFound, ReopenedToWrite
<1>10. EmptyOn \/ EmptyOver \/ WriteAgain \/ StateOneError => Kept'
  BY <1>1, <1>3 DEF EmptyOn, EmptyOver, WriteAgain, StateOneError
<1>11. ListSector \/ ListOn \/ ListOver \/ Listed => Kept'
  BY <1>1, <1>3, <1>5 DEF ListSector, ListOn, ListOver, Listed
<1> QED BY <1>7, <1>8, <1>9, <1>10, <1>11

\* A command begins.
LEMMA KeptBegin ==
  DirInv /\ Kept /\ (BeginListRoot \/ \E c \in Commands : Begin(c)) => Kept'
<1> SUFFICES ASSUME DirInv, Kept, call.op = "none" PROVE
      BeginListRoot \/ (\E c \in Commands : Begin(c)) => Kept'
  BY DEF BeginListRoot, Begin
<1>1. call.at \notin Changing
  BY DEF DirInv, CallOK, Changing
<1>2. ASSUME NEW c, NEW s, NEW at, NEW sec, Goto(c, s, at, sec) PROVE Kept'
  BY <1>1, <1>2, KeptGoto DEF DirInv
<1> QED BY <1>2 DEF BeginListRoot, Begin, fs_find

\* The steps that change the table.
LEMMA KeptTable ==
  DirInv /\ Kept /\ (Alloc \/ AllocFails \/ FreeGet \/ FreeModify \/ FreeOver \/ PersistFat) => Kept'
<1> SUFFICES ASSUME DirInv, Kept PROVE
      (Alloc \/ AllocFails \/ FreeGet \/ FreeModify \/ FreeOver \/ PersistFat) => Kept'
  OBVIOUS
<1>1. ASSUME UNCHANGED bufs PROVE Clean' <=> Clean
  BY <1>1 DEF Clean, Flushed, bufs
<1>2. IsTable(view) /\ IsTable(stable)
  BY DEF Kept
<1>3. CASE Alloc \/ AllocFails
  <2>1. /\ view' = [view EXCEPT ![NextFree] = EndOfChain] /\ stable' = stable
        /\ call.at = "alloc" /\ UNCHANGED bufs
    BY <1>3 DEF Alloc, AllocFails, Marks, Fat!Modify
  <2>2. Clean' /\ OnlyMarks
    BY <1>1, <2>1 DEF Kept, Changing
  <2>3. IsTable(view') /\ IsTable(stable')
    BY <1>2, <2>1 DEF IsTable
  <2>4. OnlyMarks'
    BY <1>2, <2>1, <2>2, TableAssumption DEF OnlyMarks, IsTable
  <2> QED BY <2>2, <2>3, <2>4 DEF Kept
<1>4. CASE FreeGet \/ FreeOver
  <2>1. PICK f : f = call'
    OBVIOUS
  <2>2. /\ call.at = "free" /\ UNCHANGED <<bufs, fats>>
        /\ f = [call EXCEPT !.at = "close"] \/ f = [call EXCEPT !.at = "freed", !.next = view[call.clus]]
    BY <1>4, <2>1 DEF FreeGet, FreeOver, Stay
  <2>3. f.at \in Changing
    BY <2>2, CallFacts DEF Fields, Changing
  <2> QED BY <1>1, <2>1, <2>2, <2>3 DEF Kept, fats, Changing
<1>5. CASE FreeModify
  <2>1. PICK f : f = call'
    OBVIOUS
  <2>2. /\ call.at = "freed" /\ UNCHANGED bufs /\ stable' = stable
        /\ view' = [view EXCEPT ![call.clus] = Free]
        /\ f = [call EXCEPT !.at = "free", !.clus = call.next]
    BY <1>5, <2>1 DEF FreeModify, Fat!Modify
  <2>3. f.at \in Changing
    BY <2>2, CallFacts DEF Fields, Changing
  <2>4. IsTable(view') /\ IsTable(stable')
    BY <1>2, <2>2 DEF IsTable
  <2> QED BY <1>1, <2>1, <2>2, <2>3, <2>4 DEF Kept, Changing
<1>6. CASE PersistFat
  <2>1. PICK c \in Clusters : stable' = [stable EXCEPT ![c] = view[c]]
    BY <1>6 DEF PersistFat, Fat!Persist
  <2>2. view' = view /\ call' = call /\ UNCHANGED bufs
    BY <1>6 DEF PersistFat, Fat!Persist
  <2>3. IsTable(view') /\ IsTable(stable')
    BY <1>2, <2>1, <2>2 DEF IsTable
  <2>4. OnlyMarks => OnlyMarks'
    BY <1>2, <2>1, <2>2, TableAssumption DEF OnlyMarks, IsTable
  <2> QED BY <1>1, <2>2, <2>3, <2>4 DEF Kept
<1> QED BY <1>3, <1>4, <1>5, <1>6

\* The steps that change a buffer of entries, and a stop.
LEMMA KeptEntries ==
  DirInv /\ Kept /\ (EmptyFound \/ Close \/ Closing \/ FlushSector \/ FlushOver \/ Crash) => Kept'
<1> SUFFICES ASSUME DirInv, Kept PROVE
      (EmptyFound \/ Close \/ Closing \/ FlushSector \/ FlushOver \/ Crash) => Kept'
  OBVIOUS
<1>1. CASE EmptyFound \/ Closing
  <2>1. PICK f : f = call'
    OBVIOUS
  <2>2. /\ call.at \in {"empty", "closing"} /\ UNCHANGED fats
        /\ f = [call EXCEPT !.at = "flush"]
    BY <1>1, <2>1 DEF EmptyFound, Closing
  <2>3. f.at = "flush"
    BY <2>2, CallFacts DEF Fields
  <2> QED BY <2>1, <2>2, <2>3 DEF Kept, IsTable, fats, Changing
<1>2. CASE Close
  <2>1. PICK f : f = call'
    OBVIOUS
  <2>2. PICK i \in Bufs : /\ fs_read_512(call.file.sector, i)
                          /\ f = [call EXCEPT !.at = "closing", !.index = i]
    BY <1>2, <2>1 DEF Close
  <2>3. call.at = "close" /\ UNCHANGED fats
    BY <1>2 DEF Close
  <2>4. f.at = "closing"
    BY <2>2, <2>3, CallFacts DEF Fields
  <2>5. Clean'
    BY <2>2, <2>3, ReadClean DEF Kept, DirInv
  <2> QED BY <2>1, <2>3, <2>4, <2>5 DEF Kept, IsTable, fats, Changing
<1>3. CASE FlushSector
  <2>1. call.at = "flush" /\ UNCHANGED <<fats, call>>
    BY <1>3 DEF FlushSector
  <2> QED BY <2>1 DEF Kept, IsTable, fats, Changing
<1>4. CASE FlushOver
  <2>1. Clean /\ view = stable
    BY <1>4 DEF FlushOver, Clean
  <2>2. CASE fs_find(call, "reopen", Len(call.path))
    BY <2>1, <2>2, KeptGoto DEF fs_find, DirInv
  <2>3. CASE Return
    <3>1. UNCHANGED <<bufs, fats>>
      BY <2>3 DEF Return, Stay
    <3>2. Clean'
      BY <2>1, <3>1 DEF Clean, Flushed, bufs
    <3> QED BY <2>1, <3>1, <3>2, KeptSame
  <2> QED BY <1>4, <2>2, <2>3 DEF FlushOver
<1>5. CASE Crash
  <2>1. /\ state' = [i \in Bufs |-> [ref |-> FALSE, dirty |-> FALSE]]
        /\ view' = stable /\ stable' = stable
    BY <1>5 DEF Crash, Fat!Crash
  <2>2. Clean' /\ OnlyMarks'
    BY <2>1 DEF Clean, Flushed, OnlyMarks
  <2> QED BY <2>1, <2>2 DEF Kept, IsTable
<1> QED BY <1>1, <1>2, <1>3, <1>4, <1>5

LEMMA KeptStep == DirInv /\ Kept /\ [CarefulNext]_volume => Kept'
<1>1. Kept /\ UNCHANGED volume => Kept'
  BY DEF Kept, IsTable, OnlyMarks, Clean, Flushed, volume, bufs, fats
<1> QED BY <1>1, KeptOn, KeptBegin, KeptTable, KeptEntries DEF CarefulNext, Step

\* What a stop does between two commands.
LEMMA StopBetween ==
  DirInv /\ DirInv' /\ Kept /\ [CarefulNext]_volume
    => (call.op = "none" /\ crashes' # crashes =>
          /\ BufsOK /\ Agree /\ Clean /\ BufsOK' /\ Agree' /\ Clean' /\ card' = card
          /\ \A c \in Clusters : view'[c] # view[c] => c = NextFree /\ view[c] = EndOfChain)
<1> SUFFICES ASSUME DirInv, DirInv', Kept, [CarefulNext]_volume, call.op = "none", crashes' # crashes
             PROVE  /\ BufsOK /\ Agree /\ Clean /\ BufsOK' /\ Agree' /\ Clean' /\ card' = card
                    /\ \A c \in Clusters : view'[c] # view[c] => c = NextFree /\ view[c] = EndOfChain
  OBVIOUS
<1>1. Crash
  BY CrashesStay
<1>2. call.at = "return" /\ call'.at = "return" /\ card' = card /\ view' = stable
  BY <1>1 DEF DirInv, CallOK, Crash, NoCall, Fat!Crash
<1>3. Clean /\ OnlyMarks
  BY <1>2 DEF Kept, Changing
<1>4. Clean'
  BY <1>1 DEF Crash, Clean, Flushed
<1> QED BY <1>2, <1>3, <1>4 DEF DirInv, OnlyMarks

LEMMA CardTree == card' = card => (Tree(OnCard))' = Tree(OnCard)
<1> SUFFICES ASSUME card' = card PROVE (Tree(OnCard))' = Tree(OnCard)
  OBVIOUS
<1>1. \A d : (In(OnCard, d))' = In(OnCard, d)
  BY DEF In, OnCard
<1>2. (Reached(OnCard))' = Reached(OnCard)
  BY <1>1 DEF Reached
<1> QED BY <1>1, <1>2 DEF Tree

\* A stop between two commands loses nothing of what they did, the failed ones included,
\* but the mark of a cluster whose allocation failed (fs_close, fs_fflush, fs_alloc).
THEOREM CommandsStored == CarefulSpec => ReturnsStored
<1>1. BufsOK /\ Agree /\ Clean => Tree(Seen) = Tree(OnCard)
  BY CleanTree
<1>2. (BufsOK /\ Agree /\ Clean)' => (Tree(Seen) = Tree(OnCard))'
  BY <1>1, PTL
<1>3. DirInv /\ DirInv' /\ Kept /\ [CarefulNext]_volume
        => [call.op = "none" /\ crashes' # crashes =>
             /\ Tree(Seen)' = Tree(Seen)
             /\ \A c \in Clusters : view'[c] # view[c] => c = NextFree /\ view[c] = EndOfChain]_volume
  BY <1>1, <1>2, StopBetween, CardTree
<1> QED BY <1>3, KeptInit, KeptStep, DirInvHolds, VolumeStep, PTL DEF CarefulSpec, VolumeInit, ReturnsStored
=============================================================================
