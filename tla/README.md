# ZJUNIX with a journal: TLA+ models and proofs

TLA+ specifications of the ZJUNIX kernel (MIPS32, one processor, one SD card with
a FAT32 partition, a keyboard and a text screen), TLC configurations that check
them on small instances, and TLAPS proofs about them for every instance.

## 1. The system

ZJUNIX has no user mode and no virtual memory in use: the shell, the clock process
and the demo processes run in the kernel's address space and call kernel functions
directly. There are three sources of concurrency:

* the timer interrupt, which switches processes between any two instructions;
* the keyboard interrupt, which runs between any two instructions;
* the machine being switched off, after which only the SD card remains.

Interrupt and exception handlers run with interrupts masked. Only the shell uses
memory allocation and the file system, so these are sequential; their hard
behaviours are long call sequences, boundaries, half-done steps and errors of the
card.

### Inventory

| Component | State | Operations | What makes it hard | What makes it correct |
|---|---|---|---|---|
| Boot memory map (`mm/bootmm.c`) | page bitmap and segment table, two descriptions of the same memory | find and reserve pages; insert, split, remove segments | the search looks ahead and jumps; a full table goes unnoticed; `init_buddy` reads only the table | both descriptions agree; no page given twice; a call fails only when memory is full; the buddy allocator gets free pages |
| Buddy allocator (`mm/buddy.c`) | `struct page` array, free lists, counters | `init_buddy`, `__alloc_pages`, `__free_pages` | splitting and merging over long call sequences; a merge test that does not tell free from held | memory shared by that merge only, never lost; full coalescing |
| Slab allocator (`mm/slab.c`) | per size: page lists, free lists inside pages | `kmalloc`, `kfree` | links between the objects; page flags shared with the buddy allocator | objects disjoint and large enough; links out of callers' reach; no page lost |
| Processes (`pc/pc.c`) | 8 PCBs with saved contexts, `curr_proc` | create, kill, exit, schedule | ticks in the middle of `pc_create`; killing what runs | contexts whole; the killed stay dead, but for a shell that kills itself; round robin |
| Interrupts, exceptions, system calls (`arch/mips32`, `syscall`) | handler tables | dispatch | an exception nobody handles | only the process at fault ends |
| Keyboard (`driver/ps2.c`) | ring of 32 slots with ready flags, modifiers | handler, `kernel_getkey` | handler between any two accesses; the wrap; overrun | every key once, in order, in the right case |
| Buffer clock (`fs/fscache/fscache.c`) | reference and dirty bits, hand | choose a victim | two sweeps with a moving hand | ends, with the cheapest victim |
| FAT buffers (`fs/fat/fat.c`, `utils.c`) | 2 sector buffers over two copies on the card | read, modify, flush | replacement; power loss between the two copies; errors | reads what was modified; the flush reaches the card |
| File data (`fs/fat/fat.c`, `fscache.c`) | cluster buffers, position, size, journal lists | open, read, write, seek, close | cluster boundaries; replacement; buffers held by transactions | bytes read are those written; none lost; lists right |
| Cluster allocation (`fs/fat/fat.c`) | free count, next free, FAT | `fs_alloc`, `fs_next_free` | wrap of the cluster number | no cluster in two chains |
| Directories (`fs/fat/fat.c`, `dir.c`, `usr.c`) | 4 sector buffers, entries | find, create, remove, list, make | sector and cluster numbers mixed; power loss inside a removal | a tree of names; what returned is on the card |
| Journal (`journal.c`, `commit.c`) | running, committing and checkpoint lists, log | start, commit, checkpoint | list order; endless loops | what is committed is in the log |
| Recovery (`recovery.c`, `revoke.c`) | log tail, revoke table | scan, revoke, replay | the passes must agree | replay makes committed data present |
| SD card (`driver/sd.c`) | controller registers | read and write sectors | error codes; writes of several sectors | what was written is there |
| Text editor (`usr/myvi.c`) | buffer, cursor, page on the screen, mode, last line | keys of three modes, drawing, loading, saving | the page follows the cursor a line at a time, by what the last drawing counted; a full buffer; files that get shorter | the text is what was typed; the cursor is on the page; `:wq` saves it, and nothing else ends a session but `:q!` and a full buffer |
| Screen, log, clock process, shell, loader, locks, utilities | cells and cursor of the screen | output, parsing | at boot, `machine_info` (`init.c:17`) and the shell print with the same cursor (the clock writes its own cells only) | - |

How they interact. The timer interrupt calls `pc_schedule`; system call 10 and
unhandled exceptions call `pc_kill_syscall`. The shell's commands call `pc_create`,
`pc_kill` and the file system. The file system calls the FAT buffers, the cluster
and directory buffers, the journal and the SD driver; the buffers share one
replacement algorithm. `kmalloc` calls the buddy allocator, `kfree` reads page
fields that both allocators write. The keyboard handler and `kernel_getkey` share
the ring.

`PROJECT.json` lists under "hazards" what in this code is hard to test, line by
line, with the properties below that cover it or the reason none does yet.

## 2. Modules and how they correspond to the code

| Module | Code | Instances and proofs |
|---|---|---|
| `Bootmm` | `bootmm.c`, and what `init_buddy` takes over | `BootmmProofs` |
| `PageAlloc` | abstract: blocks of pages handed out and given back | |
| `Buddy` | `buddy.c`; implements `PageAlloc` | `MCBuddy`, `BuddyProofs` |
| `BuddyCallers` | the same, with the history of merges that met a held block | `MCBuddy`, `BuddyProofs` |
| `Slab` | `slab.c`, uses `PageAlloc` | `MCSlab`, `SlabProofs` |
| `Pc` | `pc.c`, `intr.c`, `exc.c`, `syscall.c`, commands of `ps.c` | `PcProofs` |
| `Ps2` | `ps2.c` | `TypingProofs` |
| `Clock` | the victim search of `fscache.c`, as what it computes | |
| `ClockLoop` | the same, loop turn by loop turn | `FatCacheProofs` |
| `FatTable` | abstract: a table with persistence and power loss | |
| `FatCache` | `read_fat_sector`, `write_fat_sector`, their callers, `fs_fflush`; implements `FatTable` | `FatCacheProofs` |
| `FileData` | `fs_open/read/write/lseek/close` over `fs_read_4k`, `fs_victim_4k`, `fs_write_4k` | `FileDataProofs` |
| `Names` | abstract: a tree of names with persistence and power loss | |
| `Directory` | lookup, creation, removal and listing of entries over `fs_read_512`; uses `FatTable`, implements `Names` | `MCDirectory`, `VolumeProofs` |
| `Recovery` | `journal.c` (superblock), `recovery.c` | `MCRecovery`, `VolumeProofs` |
| `Text` | abstract: a text with a place in it, and a file | |
| `Editor` | `myvi.c`; implements `Text` | `MCEditor`, `TypingProofs` |

`TypingProofs` and `VolumeProofs` prove about two modules each, which share no state: what is said of
the one does not mention the other.

Each module keeps the names of the code for its variables and operations where
TLA+ allows it. A definition whose comment begins with "Variant" is not part of a
model: it is what the definition below it would be after a plausible slip, and is
used to check that a property can fail.

**Bootmm.** One turn of the search loop of `find_pages` is a step; `call` holds its locals.
`used` is the bitmap and `info` the table, counted in pages. The model takes the interface of
`bootmm.h` as it stands: any calls of `bootmm_alloc_pages` and `split_mminfo`, then the call
of `init_buddy`. The kernel at this commit makes the last of these only, so that what the
other calls do is a matter of the code and not of any boot. `bootmm_alloc_pages` does not ask
whether `insert_mminfo` had room; `unrecorded` is history and holds the pages of such calls.
Splitting the first entry never ends (`split_mminfo` counts an unsigned index below zero:
`call.op = "stuck"`), nor does `init_buddy` when its call fails.

**Buddy.** One turn of each loop is a step and `call` holds the locals of the call
in progress. Pages are numbers, `bplevel` is the field of `struct page` (-1 for
`0xffffffff`), a free list is the set of first pages: the code takes the head where
the model takes any element, so the model has every behaviour of the code and
more. `live` is what callers hold. Their order of calls matters: `__free_pages` merges
with a buddy whose `bplevel` is equal (`buddy.c:105`), and `__alloc_pages` writes that very field on
pages it hands out (`buddy.c:145`). `MeetsHeld` is the state in which the next turn of the loop
merges with a block that is on no free list. `Spec` lets callers free in any order; `BuddyCallers`
adds to it the history variable `met`, which the first such merge sets, and says that this merge
is the one thing that goes wrong, and always does: all properties of the allocator hold until `met`, and none of
them afterwards, when the lists and counters mean nothing. `CarefulSpec` has callers for which that merge never comes
(`Careful` states the condition on the blocks held); what is shown of them is proved only. The flag words of
`struct page` and `alloc_pages`' change of a page to an address are left out; no
branch of `buddy.c` reads the flags.

**PageAlloc, Slab.** `PageAlloc` is the contract between the two allocators: any aligned
block that is apart from those held. `Buddy` implements it up to the first merge with a held block (run `buddy`, theorem
`KeepsItsPromise`), with careful callers for ever (`CarefulKeepsPromise`), and `Slab` uses nothing else of the page allocator. In `Slab`, `word`
holds the links that `slab_alloc` threads through a page; a caller may overwrite
every word of its object (`TakeObject` makes them junk), so that a link within a
caller's reach shows. The two passes of `slab_alloc` through its check are the actions
`NewPage` (or `NoMorePages`) and `TakeObject`. `slab_free` is not modelled because it is
never entered: `kfree` asks whether the flag word is exactly `_PAGE_SLAB` (`slab.c:213`),
and every page handed out has `_PAGE_ALLOCED` as well (`buddy.c:146`). Sizes from 1537 to
2048, for which `get_slab` finds nothing, end in the endless loop of `kmalloc`
(`halted = "no available slab"`).

**Pc.** A register context is two fields, each only the number of the process it
belongs to, so that a context put together from two processes is visible. Each
store of `pc_create` is a step and `Tick` may come between any two. `CommandKill`
of a slot other than the shell's is the command "kill", of the shell's own slot
"suicide"; the constant `Commands` says which may be given. `Fault` is an exception
without a handler. `owner` and `dead` are history. The endless loops are values of
`halted`.

**Ps2.** The handler is one step (interrupts are masked); `kernel_getkey` is one
step per access to what the handler changes, including `init_buffer`, slot by slot.
The clearing of a slot's two words is one step: the key and its flag are only ever
looked at with the flag first, so no reader could tell a handler between the two
from one before both. A polling call that finds no key is no step. `calm` records
whether the typist has always waited for the last key to appear.

**Clock, ClockLoop.** `Victim` says in one formula which buffer the two sweeps
choose and what they leave of the bits; `ClockLoop` has the loops themselves. The
other modules use `Victim`, which the run `clock_loop` justifies for four buffers and the
theorem `VictimIsFound` (`FatCacheProofs`) for any number.

**FatTable, FatCache.** `FatCache` has each access of the card as a step: the
victim's sector to the table, to the copy, then the read of the new one. `Crash`
may come anywhere and keeps only the card. With `Faults` an access may fail, and
the callers go on as if it had not, because they compare the code of the card, which
is even for every error, with 1. Contents are members of a small set. Calls that
pass a journal handle are not part of it.

**FileData.** One turn of the loops of `fs_read` and `fs_write` is a step. Bytes are
pairs that say which turn wrote them and at which place, so that any misplaced byte
is visible. Each turn of `fs_write` makes a transaction and a handle; they are numbered together. The
buffer gets the handle and the handle's buffer head gets the buffer (`handle`, `b_page`, `b_blocknr`), and that is
all: nothing sets `h_transaction` or `t_buffers` of these (`fat.c:1010` to 1057), so a transaction does not know
its buffers. The running and committing lists are the functions `t_tnext` and
`t_tprev`. Behind the last cluster of the file comes `fs_alloc`, which fails or hangs. When it
fails (`AllocFails`) `fs_write` returns with its transaction left on the running list and with the bytes of earlier turns in the
buffers; if no turn came before, that is transaction1, which is linked with the old head's
`t_tprev` pointing to the old head itself (`fat.c:876`). When it hangs (`AllocHangs`) it may have erased any sectors.
The code really stops for ever in several places, and the model says
where (`halted`): a write of several sectors never returns from `sd_write_block`
(`sd.c:137`), which ends every call that needs to write a cluster or to erase a new one.
A consequence worth knowing when reading this module: in the code at this commit,
data reaches the card only as the last thing the kernel does.

**Names, Directory.** One scan of a sector, one access of the card and one access of
the table is a step, and the machine may stop between any two. The sector buffers
are those of the code, with `base_addr`; sector numbers are never abstracted, because
the loops over a directory go astray at its second sector: they pass `cur`, an absolute
sector, where `fs_read_512` adds `base_addr` again (`fat.c:406`), and ask the table with a
sector number (`fat.c:411`). The file allocation table is `FatTable`, the contract that
`FatCache` implements. Errors of the card appear only as they do in the code: a sector
the card does not have leaves the old bytes in the buffer. `fs_rmdir` (no caller) is
`fs_rm`. `fs_mkdir` creates the entry and then writes to the new directory, which needs a cluster.
`fs_alloc` does not return (`Alloc`) or fails (`AllocFails`); in the second case `fs_mkdir` does not notice, because
`fs_write` returns `0xFFFFFFFF` and not 1 (`usr.c:108`): it writes twice more, each time marking the same
cluster (`WriteAgain`), unless the buffer of the table still has the handle of the first write, on
which `read_fat_sector` loops for ever (`StateOneError`); then it closes the file, flushes, and returns 0. `NextFree` is the cluster that `FSI_Nxt_Free`
leads to: it moves only in an `fs_alloc` that never returns. `fs_mv` has no caller
and copies a name it never set. `Tree` maps buffers and card to what `Names` speaks of. `roomy` is history: whether
every name created so far has left an entry never used behind it in the first sector of its directory (`Roomy`).

**Recovery.** The log on the card is any log. Of a block the type, the sequence number
and the flags of its tags are kept. `j_blocksize`, the end of a descriptor block, is never
set by the code: `room`, how many tags it admits, is any number. `j_revoke_table` is never
set either: a revoke record ends in an exception or does nothing (`ScanRevoke`). `jread`
returns 1 and is tested for 0, as in the code. Nothing writes the log at this commit:
`commit.c` is called only for buffers in `STATE_TWO`, which code behind a write that does
not return would have to set, and its loop over handles (`commit.c:216`) has no end. So
the log found is whatever the card has, which is why the model takes every log.

**Text, Editor.** One key is one step: the handler of the mode and the drawing that ends it.
Of the buffer `buffer[0 .. size - 1]` is kept, the part that is read. Drawing is modelled by
what it counts, `page_end`, which needs the column of every character (tab stops, wrapped
lines, carriage returns). `i` and ESC return without drawing, as in the code. `Text` is what the session is to
its typist: the text before and behind a place, the mode, the last line, and what each key does to them, without page or drawing. A line
`:wq` writes the text over the beginning of the file, which does
not get shorter; a session ends by it, by `:q!`, or by a character for which there is no room, and by nothing else. `MyviSpec` has any typist. Two keys have handlers that look at no bound (`Unbounded`): BS at
the beginning of the text, which takes the cursor to -1 (`myvi.c:321`), and a character for which
`instruction` has no room (`myvi.c:359`). They are steps of the model, which goes no further: what the program
does then depends on what lies beside its arrays. `careful` is history: whether the typist has typed neither so far, and kept every
line so short that it can be shown whole (`Careful`). Saving succeeds: what the file system does is in `FileData`.

## 3. Runs

`tlc -workers 2 -config <cfg> <module>`; the names are those of `PROJECT.json`.
"Passes" means that TLC searched every state. Deadlock checking is off wherever the system
may really stop: the kernel halts in an endless loop (`Pc`, `FileData`), all
memory is handed out (`Buddy`), all bounded keys are typed (`Ps2`), the page allocator has taken over or waits for ever
(`Bootmm`), the session is over (`Editor`), the search is over
(`ClockLoop`), a mount is done (`Recovery`) or memory used up (`Slab`), `fs_alloc` does not return
(`Directory`), and in `FatCache` only for the sake of the bound on crashes.

| Run | Configuration | Checks | Shows |
|---|---|---|---|
| `bootmm` | `MCBootmm.cfg` | `TableIsMap`, `BuddyTakesFree`, `NeverTwice`, `FailsOnlyWhenFull` | bitmap and table agree over any calls, and nothing in use is taken over but for the two cases named there |
| `buddy` | `MCBuddy.cfg` | `SharedOnlyByHeldMerge`, `HeldMergeShares`, `PromiseUntilHeldMerge`, `LostOnlyByHeldMerge`, `WellFormedUntilHeldMerge`, `CoalescedUntilHeldMerge` | with any callers all is well up to the first merge with a held block, between any two turns of the loops, and that merge always puts memory in use on the lists |
| `slab` | `MCSlab.cfg` | `MemoryApart`, `LinksIntact`, `PagesAccounted` | callers get memory of their own, large enough, and cannot reach the links |
| `slab_free` | `MCSlabFree.cfg` | `NrObjsIsAllocated` fails | the first `kfree` of an object gives back its whole page, with its neighbours in it |
| `pc` | `MCPc.cfg` | `SchedulerFindsProcess`, `ContextsIntact`, `NoResurrection`, `EverySlotRuns` | creation, killing (the shell's own slot included), exit and exceptions under ticks at any place |
| `clock_loop` | `MCClockLoop.cfg` | `LoopsFindVictim`, `LoopsEnd` | the two sweeps compute `Victim`, from every state |
| `fat_cache` | `MCFatCache.cfg` | `OneBufferPerSector`, `CopiesAgree`, `FlushReachesCard`, `TableSpec` | the buffers implement `FatTable`; the copies differ by one sector per stop |
| `keyboard` | `MCPs2.cfg` | `EveryKeyOnce`, `AsTyped`, `EveryKeyAppears` | no key twice, ever; all keys in order for a typist who waits |
| `file_data` | `MCFileData.cfg` | `NoByteLost`, `HandlesAgree`, `RunningList`, `ReadsBack` | reads return what was written, over any mixture of calls, failed allocations included |
| `directory` | `MCDirectory.cfg` | `DanglingBounded`, `ListsAll`, `NamesSpec`, `ReturnsStored` | a stop between commands loses nothing but the mark of a failed allocation; one inside a removal leaves one entry whose clusters are free; until a name fills a first sector, commands implement the tree of names |
| `recovery` | `MCRecovery.cfg` | `DisagreeOnlyOn`, `FreshSequence`, `RecoveryEnds` | the three passes end, at one place for the logs named there, and the next number is larger than those the scan accepted |
| `editor` | `MCEditor.cfg` | `CursorShown`, `LeavesOnlyUnbounded`, `TextSpec` | two keys take an index out of its array; up to there a session is one of `Text`, key for key; and for a careful typist the cursor is on the page whenever each line takes one row |

The failing run is recorded under "findings" in `PROJECT.json` with the line of code
and the text it disagrees with. Other places where the models stop or misbehave as the
code does, each visible by one change of a configuration or in a value of `halted`. Where a text of the
repository says otherwise, a definition of the module states what the text says, and TLC refutes it when it is added to
the configuration named:

* Memory in use on a free list. `__free_pages` merges with a buddy of the same `bplevel`, and `__alloc_pages` gives a
  `bplevel` to the pages it hands out too (`buddy.c:105`, `145`). `buddy.h:32` to 34 says of the lists "order = 1 -> 2^1
  pages(consequent) are free". `FreeBlocksAreFree` (`Buddy`, `MCBuddy.cfg` without its constraint): two pages are allocated, the first is freed,
  and the list of order 1 holds both. The property `HeldMergeShares` says that this always comes of such a merge.
* The next sector and the next cluster of a search. `fat.c:404` says "next sector in current cluster", but `cur + 1` is a sector of the
  card, to which `fs_read_512` adds `base_addr` again (`fat.c:406`); `fat.c:410` says "Read next cluster of current directory", but
  the table is asked with a sector number (`fat.c:411`). `NextSectorIsNext` (`MCDirectory.cfg`): a name that is not
  there is looked up in a directory whose first sector is full. `NextClusterIsNext` (the same with `Spc = 1`): the search takes the entry of another cluster for the answer.
* The erasure of a new cluster. `fat.c:716` says "Erase new allocated cluster", but the sectors are `fs_dataclus2sec(clus)` and
  on, without the `base_addr` that every other access adds (`fat.c:717`). `NewClusterErased` (`MCDirectory.cfg`): `mkdir` leaves the new cluster as it was, and other sectors cleared.
* The committing list. `fat.c:1184` says that a transaction which is done moves to the commit queue, and `commit.c:55` to 57 that
  `t_tid` decreases along that queue, the oldest last; but the second one committed is linked in front of the head, which
  is not moved to it (`fat.c:1209`). `CommitQueueInOrder` (`MCFileData.cfg`): after two commits the head is the older, with nothing behind it.
* The states a write meets. `fat.c:1048` says that only `STATE_ZERO` and `STATE_FOUR` occur, but the buffer of a call's last
  cluster stays in `STATE_ONE`: `goto fs_write_end` (`fat.c:1103`) jumps over the commit. `ZeroOrFourOnly` (`MCFileData.cfg`): a byte is
  written twice; the second write loops for ever.
* `CommittedIsReplayed` (`Recovery`) fails: `jread` returns 1 for success and is tested as an
  error (`recovery.c:243`), so that no block of a committed transaction is written back.
* If the last page in use begins a group, `init_buddy` takes it over (`buddy.c:67`: `kernel_end_pfn`
  is the last page, not the one behind it), and so it does with pages the table had no room
  for; `BuddyTakesFree` names both cases.
* An exception without a handler stops every process: `do_exceptions` loads the next
  context and then loops (`exc.c:24`; `Fault` in `Pc`).
* A shell that kills its own slot goes on until the next tick (`pc_kill` does not reschedule), and that tick saves it
  over whatever it created in its slot meanwhile: `NoResurrection` and `ContextsIntact` name the case.
* With `Faults = TRUE` in `MCFatCache.cfg` `FlushReachesCard` fails: `write_fat_sector` takes only
  the code 1 for an error (`fat.c:134`), and the codes of the card are even.
* The commit would loop for ever: `commit.c:216` has no way out, and the walk of `commit.c:43` relies on a
  head of the committing list that no one moves.
* `fs_mkdir` returns 0 for a directory without a cluster when `fs_alloc` fails (`usr.c:108`; `AllocFails` of `Directory`).
* A close of a file with two dirty buffers writes the first (`sd.c:137`; `StuckInClose`).
* Creation under a file writes the entry into that file's data (`fat.c:1448`; `ParentFound`
  asks for no directory, `Careful` excludes it).
* Recovery loops for ever (`recovery.c:367`; `PassesDisagree`) on a log whose first tag lacks
  `JFS_FLAG_SAME_UUID`, which is how `commit.c:151` would flag it.

### Bounds, and why they are enough

* `buddy`: three top-level blocks of four pages (`MaxOrder = 2`, `NPages = 12`). Two
  merges in a row and two splits in a row occur, and the buddy at the top level
  exists on one side only. TLC looks no further than the first merge with a held
  block (constraint `Unmet`).
* `bootmm`: 12 pages of which the kernel has 3, a table of three segments, groups of four pages,
  requests of one to three pages with alignments of one and two. The table fills up, segments of both types
  are joined at either end and bridged, the second search meets the last reservation, memory
  runs out with and without a gap, and the last page in use begins a group.
* `editor`: a buffer of five characters, a page of two rows of three columns, tab stops every
  three, a last line of three (the length of `:wq` and `:q!`); files that are empty, end with a newline or not, contain carriage returns, or are too
  long (`MCEditor`). The buffer fills up, lines wrap, the text has more lines than the page, both lines run and the last line can overflow.
* `pc`: five slots, three of them in use at the start, and process numbers up to 6:
  the table fills up, a slot is reused, and the search of `pc_schedule` wraps.
* `clock_loop`: four buffers, the larger of the two numbers in the code, so nothing is bounded.
* `fat_cache`: two buffers, the number in the code, for three sectors: each buffer
  can be replaced while the other holds something; two contents tell old from new.
  One crash (`MaxCrashes`).
* `slab`: four pages of 64 bytes, four caches whose sizes stand to the page as the code's
  do: two that leave a rest, one with a single object, one of half a page (for which
  `get_slab` finds nothing). Pages run out, pages fill up, and blocks of two and of four pages
  are taken and given back in between.
* `directory`: clusters of two sectors, sectors of three entries, two buffers; names that come and go in both directories, a
  directory that comes to fill its first sector, chains of two and of five clusters, two free
  clusters, one stop (`MaxCrashes`). The code has four buffers; with two each search replaces
  the other's.
* `recovery`: every log of four blocks out of twelve kinds, of two transactions; descriptor blocks
  with room for up to three tags; numbers wrap at 5 (`U16`). The walk starts at the third block
  and goes round.
* `keyboard`: two slots and four keys (`MaxKeys`): the ring wraps twice and can be
  overrun by a whole turn.
* `file_data`: three clusters of two bytes in two buffers; calls of up to four bytes
  (`MaxCount`), up to four transactions (`MaxTrans`): one for each cluster, and one that a failed call leaves. A call can cover a partial first, a full middle and a partial last
  cluster; there are more clusters than buffers, so replacement happens; the size
  starts at either byte of the last cluster.

### Fairness

* `Pc!FairSpec`: weak fairness of `Tick`. The handler programs the timer anew at
  the end of every tick (`intr.c`), so as long as interrupts are not masked for ever
  another tick comes. Nothing is assumed of commands, exits or exceptions.
* `Ps2!FairSpec`: weak fairness of the reader. The shell calls `kernel_getchar` in
  an endless loop and gets the processor again after each round of ticks
  (`EverySlotRuns` is that promise). Nothing is assumed of the typist.
* `Recovery!Spec`: the passes go on; nothing in this code waits.
* `ClockLoop!LoopsSpec`: the loop goes on; it is code without a wait.

### Restrictions of the properties

* `FailsOnlyWhenFull` is about calls without an alignment: with one, the search steps by more than
  it has looked at (`bootmm.c:188`), and the repository does not say what is to be found.
* The properties of the run `buddy` end at the first merge with a held block: after it the code keeps none of them.
* `Editor!MyviSpec` ends where an index leaves its array. `CursorShown` is about a careful typist and promises the cursor on the page only while each line of
  the text takes one row: the page moves by one line after a key, and `j` behind a wrapped line may need more.
* `ContextsIntact` leaves out slot 2 when the `time` command may be given: that
  command overwrites slot 2 whether it is in use or not, and nothing in the
  repository says what should happen.
* `ContextsIntact` leaves out the slot of a shell that was killed: a process created there loses its context to the shell
  when the shell killed itself. `NoResurrection` says what may run there.
* `FileData` has no read errors of the card and no empty file. The chain never grows: `fs_alloc` fails or never returns.
  `NoByteLost` ends where `fs_alloc` has hung, since it erases sectors that may be any cluster's.
* `Slab!Spec` has no `kfree` of objects (that is the run `slab_free`), and its callers write
  within their objects; `journal.c:64` does not.
* `Slab` lets blocks of pages be freed in any order (`PageAlloc!Free`), while the buddy allocator keeps that
  contract only up to the first merge with a held block: what is shown of `Slab` is relative to the contract.
* `Directory!CarefulSpec` admits a command only in a state it is made for (`Careful`): a name on the
  way is that of a directory with a cluster, and a removed directory has no directory in it. Outside, the
  code mixes trees, and the repository does not say what should happen.
* `NamesSpec` speaks of the time before a name fills the first sector of its directory (`roomy`), in which no search leaves such a
  sector. Where one does it goes astray (see above), and the tree is whatever the sectors it comes to say.
* `Directory` trusts `FSI_Nxt_Free` to be legal and to lead to a free cluster (`TableAssumption`), as `fs_alloc` does (`fat.c:683` does not look).
* `ReturnsStored` is about a stop between two commands; the mark of a cluster that `fs_alloc` failed to give may be lost, as it is
  in no chain.
* `ListsAll` is about directories that do not fill their first sector: beyond it the search
  goes astray.
* `Recovery` has no read errors of the card; `FreshSequence` leaves out the one number, 65535, after which the
  `u16` is 0.

## 4. What is proved

TLAPS: `tlapm M.tla` for `BootmmProofs`, `BuddyProofs`, `SlabProofs`, `PcProofs`, `TypingProofs`,
`FatCacheProofs`, `FileDataProofs` and `VolumeProofs`. The theorems hold
for every value of the constants that satisfies the named assumptions of the modules
(`NAssumption`, `SizeAssumption` and so on), which TLC evaluates in the runs.

**BootmmProofs** (`Spec`). All four properties of the run `bootmm`: `PagesAreReservedOnce`, `SearchIsComplete`,
`BothMapsAgree`, `BuddyGetsFreePages`. `SInv` says what the search knows while it runs: the pages
from `index` to `tmp` are free and counted (`SearchOK`), and no run of free pages was left
behind (`LeftNothing`), in the second search up to the end of memory, because what lies behind
the last reservation was seen by the first and the last reservation itself is in use. `MapInv` says that the
table is well formed (segments not empty, two of them apart) and that a page is in use exactly
when a segment has it or the table had no room for it. It rests on one lemma for each
operation of the table: `InsertKeepsMap`, one case for each of the ways to enter a segment,
and `SplitKeepsMap`; `Min` and `Max` of the code's choices are dealt with by `MinFacts` and
`MaxFacts`, from the well-foundedness of the naturals.

**BuddyProofs**. For callers that do as they like (`Spec`, `AnyCallers`): `TypeCorrect`, `BlocksAreAligned`, and, up to the first merge
with a held block, `OnlyHeldMergeShares`
(`SharedOnlyByHeldMerge`), `HeldMergeAlwaysShares` (`HeldMergeShares`), `KeepsItsPromise` (`PromiseUntilHeldMerge`),
`NoPageIsLost` (`LostOnlyByHeldMerge`), `BlocksAreWellFormed` (`WellFormedUntilHeldMerge`), `CoalescingIsComplete`
(`CoalescedUntilHeldMerge`) and `CountersAreExact` (`CountsAgree`).
The first two need only `Shape`, which every step keeps, merges with held blocks included. For the others `IInv` joins
to it what makes merging
safe: no two owners (a free list, a caller, the call in progress) have a page in
common (`Disjoint`); together they cover what was fed, and nothing beyond (`Covered`,
`Feeding`); and first pages of listed and held blocks have their
order as `bplevel` (`LevelsAgree`). From these, lemma `MergeFindsBlock`: a
buddy whose `bplevel` is equal is a whole block of that order, on the list or held. If it is on the list,
merging only re-partitions pages, and `NextIInv` shows that every step but a merge with a held block keeps `IInv`. If it is held, the
block in hand then has its pages too (`HeldMergeOverlaps`). `HistoryInv` is therefore `met \/ IInv`: no strengthening of it is true
beyond that merge. `KeepsItsPromise` is step for step the refinement of `PageAlloc`: the block `Return` hands out is aligned and in range by `IInv`, and apart from
every held block by `Disjoint`; all steps but `Return` and the start of a free leave `live` alone.
The arithmetic rests on two lemmas about aligned
blocks: two of them are apart or one contains the other (`Nested`), and what
`BuddyOf` computes is the other half of the parent (`BuddyFacts`).

For careful callers (`CarefulSpec`), for whom all this holds for ever: `CarefulSharesNothing` (`NoOverlap`) and `CarefulKeepsPromise` (`PageAllocSpec`).
They rest on one more invariant, `CarefulCall`: the block being freed contains a page whose
freeing no held block is in the way of; from it `CarefulMeetsFree`, that the merge finds the buddy on the list, so
that `IInv` holds for ever.

**PcProofs** (`Spec`). `TypeCorrect` and `SchedulerNeverGivesUp` hold for any commands:
slot 0 is never freed by any of the three ways to kill, so the search of
`pc_schedule`, which looks at all N slots, ends at a slot in use (`InitLives`).
`ProcessesKeepTheirContext` assumes `Commands` within
`{"proc", "kill"}`. Its invariant `PInv` adds that the slot being filled by
`pc_create` is free until the last store, which is what makes the intermediate
stores harmless, and that live slots have distinct owners, none of them dead.
`KilledProcessesStayDead` (`NoResurrection`) assumes nothing of the commands. Its invariant `RInv` follows the
process that each slot would continue (`Runs`): only the shell's slot can be the running one without being in use, it continues the
shell and nothing else, whoever was created in it, and every other slot in use continues the process created there, or
the one being created (`Homes`, which covers a `time` command that fills slot 2 over a running clock); process numbers are never reused (`Names`). So a dead process that a
switch loads can only be the shell, in a slot whose new owner lives (`OnlyShellReturns`).

**FatCacheProofs** (`Spec`). `TypeCorrect` and `NoSectorTwice` hold with card errors too;
`CleanBuffersAgree` and the refinement `CacheImplementsTable` assume `~Faults`. The
refinement maps the view of the callers to "the buffer that has the sector, or else
the card": a modification in a buffer is `Modify`, the write of a dirty buffer to the
table is `Persist`, all else is a stutter or `Crash`. `CopiesStayTogether` (`CopiesAgree`) and `FlushIsComplete`
(`FlushReachesCard`) assume `~Faults` too, because with errors both are false. For the first, the sectors in which the copies
differ are those that a stop left so and have not been written since, and the one between its
two writes; a stop adds one at most (`CopyInv`). For the second, `FlushInv` says that the
buffers before the one the flush has come to are not dirty, so that at its end the card has
what the view has. Both look at more than one step, and neither is inductive alone. The last part of the module is about the
clock: `VictimIsFound` shows `LoopsFindVictim` for any number of buffers. Its invariant says of each sweep which buffers
it has passed, how it found them and what it left of their bits; that the hand's turns go round
the buffers without meeting one twice (`AheadFacts`) makes the victim unique (`OneVictim`). So the
step that all models of buffers take from `Clock` is the code's loops and not a guess about them.

**SlabProofs** (`Spec`). `NothingIsShared`, `ChainIsIntact` and `NoPageIsForgotten` are the three invariants of the
run `slab`, for any number of pages and caches. `IInv` ties the state of a cache to arithmetic: the
page objects are taken from has room for one more, `freeobj` is the slot after the last
object (`CpuOK`), full pages have none left (`FullOK`), the n-th object of a page is in its n-th
slot (`ObjsOK`), a page has one user (`PagesApart`) and what the page allocator counts as held is
what caches and callers have (`Accounted`). That the links are intact is part of it, since the
next `freeobj` is read from a link: this is where a caller's writes could have done harm. What is shown rests on
`PageAlloc`'s contract and on four assumptions: sizes and header are as on the machine
(`PageAssumption`), the blocks double with the order (`SizeAssumption`), and no cache has slots that fill
a page exactly (`CacheAssumption`; with such a size `end_ptr` would be behind the page. None of
`size_kmem_cache` is of this kind). `RequestsAssumption` says that requests are numbers.

**TypingProofs**, the keyboard (`Ps2!Spec`). `NoKeyTwice` (`EveryKeyOnce`) and `TypingIsFaithful` (`AsTyped`), for any size of the ring and any number
of keys. For the first, `RingInv` adds that keys in ready slots were typed, are different, and have not come
out (`Fresh`), and where the reader's pointer and hand may be at each of its steps
(`ReaderOK`): a key in the hand is still in the ring only between its load and the clearing of its slot. An
overrun replaces keys and never copies one, so nothing is assumed of the typist. For the second,
`CalmInv` says that with a typist who waits, one slot at most is ready, it is at the reader's pointer, the handler's
pointer is one further (`PointersMeet`), and the modifiers are still those the key was typed under.

**TypingProofs**, the editor (`Editor!MyviSpec`). `SessionStaysInArrays` (`LeavesOnlyUnbounded`), the refinement
`SessionEditsText` (`TextSpec`), and, as long as the typist has been careful, `PagesBeginLines` (`PageBeginsLine`) and
`CursorIsShown` (`CursorShown`). All are for any files, characters, size of the buffer,
and size of the screen. `CarefulInv` is the invariant: types of the sequences for any typist, and `SessionInv` for a careful one. The first rests on `TextInv`: the text ends with a newline, which no key takes away, so that the cursor
stays before it through every move and every `x`, and each drawing counts within the text. The page moves by one line after a key, by what the last drawing counted, and rows are not lines; so
`CursorShown` is not inductive. `SessionInv` counts newlines instead: there are fewer between the beginning of the page and the
cursor than the page has rows (`OnScreen`), whether lines are wrapped or not, and `page_end` is that of the text as it is. Each newline takes a
row (`NewlinesTakeRows`), so that a cursor which the comparison finds on the page has that few before it, and one that is behind
`page_end` has at most one too many (`ScrollDown`, `ScrollUp`); when lines take one row each, rows are newlines
(`RowsAreNewlines`) and the cursor is on the page. What a line is to the page it is to the cursor: the loops of both that go
up stop at the same newlines (`LinesAbove`), which needs a text without carriage returns. The drawing is a recursive function along the text; `DrawnFacts` gives its value
at each place from the place before, by way of the least place where there would be none (`Smallest`), since the induction theorems
cannot be used. For the refinement, a text is what is before and behind the cursor (`Slice`), each key is compared with the one of `Text` in the same mode, and `load_file`
is compared with `Kept`, what of a file comes into the text, character by character (`LoadedIsKept`). `FilesAssumption` says that carriage
returns come from files only: `to_lower_case` and the keyboard's table produce none.

**FileDataProofs** (`Spec`). All safety properties of the run `file_data`, and `TypeOK`, for any number and size of
clusters and any number of buffers: `EveryByteIsKept` (`NoByteLost`), `HandlesStayTrue`
(`HandlesAgree`), `RunningListIsWhole` (`RunningList`), `ReadsWhatWasWritten` (the action property `ReadsBack`). None is inductive alone.
`IInv` adds that no cluster is in two buffers, without which a write to the one would leave the other old;
that each turn of a loop begins where the last one ended (`CallOK`), so that the pieces of a call join;
that no handle belongs to a transaction still to come (`Bound`), so that the next one names its buffer alone; that the committed transactions are among those there
have been and have the committing list's head (`Linked`), so that linking one in front of that list disturbs no running one;
and what `fs_read` has read so far (`ReadSoFar`). The arithmetic of clusters is in lemmas of its own (`DivAt`, `TurnFacts`):
which bytes a turn covers, and that the last one ends with the call. Every part of `IInv` was found to hold by TLC first, on
the constants of the run.

**VolumeProofs**, recovery (`Recovery!Spec`). `NextNumberIsNew` (`FreshSequence`) and `PassesEndTogether` (`DisagreeOnlyOn`), for every log, any
number of blocks and any width of `end_transaction`. Both follow from where a pass may be. `Reach(x)` is the set of
positions (a block and the number expected there) that a pass comes to from x, defined as what every set
has that contains x and is closed under `After`, the step of a pass. Lemma `OneEnd`: a pass that goes on
from each known block has only one end, however often the ring has been gone round. `OnPath` puts all three passes on
the way from the superblock's position, the replay tag by tag to where the scan skipped a
descriptor's tags in one step (`ReplayOnPath`), which needs tags without the 16 bytes; and `ScanEnded` remembers
that the scan stopped at such an end. It is assumed that a descriptor has no more tags than the log has blocks
(`TagsAssumption`: 62 in a block of 512 bytes, 127 blocks): otherwise one wrap would not bring the scan back into the ring. `Reach` quantifies
over sets of positions, so TLC cannot evaluate this invariant; it evaluates the two properties.

**VolumeProofs**, directories (`Directory!CarefulSpec`). `LsListsAll` (`ListsAll`) and the action property `CommandsStored` (`ReturnsStored`), for any
tree, any commands, any size of sectors and clusters, and any number of buffers and stops. `DirInv` is inductive: no
sector is in two buffers (`OneBuffer`), a clean buffer says what the card says (`Agree`), directories
are on the card wherever their entries are (`DirsOnCard`), and ls has listed what is before `loc` in the first sector
of its directory, or has left that sector because it has no end (`Listing`). The lemma that carries
both theorems is `ReadFacts`: `fs_read_512` may write one buffer to the card and read another sector into it,
and what is seen of every sector of the card stays what it was. From it follows that `ls` does not lose its place when the
buffers are replaced. `CommandsStored` needs to know where every command returns: that buffers are dirty only until `fs_fflush` has
written them, and that the table on the card differs from the one seen only by the mark of a failed allocation, except inside
a removal or a close (`Kept`); then the tree that is seen is the one on the card (`CleanTree`). The theorems do
not use that commands are careful. `CardAssumption` says of the card that every directory's first sector is on it, as on
a card that was formatted, and so is that of "cluster 0", which a directory has that
`fs_mkdir` did not finish: two clusters before the data, where FAT32 has the reserved sectors and the table.
`EntryNames` and `CommandsAssumption` say what names and commands are.

**Only model-checked.** What is left to TLC, and why:

* All liveness properties, which need fairness or ENABLED: `EverySlotRuns`, `EveryKeyAppears`, `LoopsEnd`, `RecoveryEnds`.
* `Directory`: `DanglingBounded` and `NamesSpec`. They are about what is looked up. For the first, a lookup behind a full sector of a directory
  reads sectors of files (`fat.c:406`), whose bytes it takes for entries: whether these name anything, and which
  clusters, is up to the files; the run has a card with harmless bytes there, and for every card it is false. For the second, the searches
  stay in first sectors (`roomy`), and what is left is the induction over the path of a command, step by step of `Directory`, which has not been done.
* The property of the failing run.

**Only proved.** `TypeOK` of `Buddy`, `Pc`, `FatCache` and `FileData`, `Aligned` (for any callers), `CountsAgree` and what is said of
`CarefulSpec` (`Buddy`), `CleanIsOnCard` (`FatCache`) and `PageBeginsLine` (`Editor`) are in no run: the theorems say
more than a run would. The types of the other modules are parts of their inductive invariants.

## 5. What is not modelled

* Journal: log, commit, checkpoint (`commit.c`, most of `journal.c` and `jbd.h`). With clusters of more than one
  sector, as the install notes prescribe, nothing reaches it: the write of a cluster does not
  return (`sd.c:137`). With one sector per cluster the commit would start on pointers that no
  code has set (`t_buffers`, `t_journal` and `h_transaction` of what `fat.c:1010` to 1035 builds;
  `fat.c:761` sets `h_tprev` twice and `h_tnext` never), and its loop over handles
  (`commit.c:216`) has no end. Nearly every step would be an arbitrary choice, and no property of it
  would say anything about the code. The lists it would work on are in `FileData`.
* The calls of the FAT buffers with a journal handle, from `fs_alloc` and `fs_write`: the same
  lists, on the way to an allocation that does not return.
* The revoke table (`revoke.c`): its pointer is never set.
* Screen, log and debug output: no state that anything reads back.
* Register-level protocols of the card and keyboard controllers; their callers' view of them is
  modelled.
* String utilities, the shell's line editor, `ls` and the loader: handling of characters.
* The locks of `lock.c` never make anyone wait; no model depends on them.

## 6. Plan

Order of work, most important first.

1. *Done*: `Bootmm`, `Buddy`, `PageAlloc`, `Slab`, `Pc`, `Clock`/`ClockLoop`, `FatTable`/`FatCache`, `Ps2`, `FileData`,
   `Names`/`Directory`, `Recovery`, `Text`/`Editor`, and proofs for all of them.
2. Errors of the card in `Directory`, `FileData` and `Recovery`.
3. The SD driver: its command sequence and error codes, in place of the assumption made of it.
4. The shell's line editor.
5. Proofs: `NamesSpec`, and `DanglingBounded` for cards on which no directory fills its first sector.

A run for one of these takes the place of a run whose question it includes.
