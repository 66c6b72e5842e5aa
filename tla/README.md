# TLA+ specifications of e2fsprogs 1.46.5

This directory holds a verification project for the e2fsprogs sources in
`src/e2fsprogs-1.46.5`: modules that model parts of the program, TLC
configurations that check them on small instances, and proofs, checked by
TLAPS, of what holds for every instance. `PROJECT.json` lists components,
runs, the source lines every definition stands for, hazards, findings and
theorems. `src/e2fsprogsDoc` holds notes about the sources and no code.

## 1. Inventory

e2fsprogs is a set of sequential tools (e2fsck, mke2fs, tune2fs, resize2fs,
debugfs, e2undo ...) over one library, libext2fs. A tool opens a file system
through an *I/O manager*, reads metadata into memory, changes it and flushes it
back. What is hard in it is seldom parallelism; it is that the tool, the
machine or the device may stop at any moment, that the page cache writes blocks
back in any order, that one of several writes fails, that two programs share
one device, that a cached copy is older than what it stands for, and that logs
and counters wrap.

| component | state | operations | interacts with | correct when |
|---|---|---|---|---|
| unix I/O channel, `lib/ext2fs/unix_io.c` | cache of 8 blocks, flags, reference count, mutex | read, write, write_byte, zeroout, discard, flush, set_blksize, set_option, close | every tool; the kernel's page cache; threads of the bitmap loader | reads return the last write; a flush that succeeds is durable; failures are reported |
| journal format, `kernel-jbd.h`, `e2fsck/revoke.c` | log blocks, revoke table | tid comparison, ring arithmetic, checksums, set/test_revoke | recovery, debugfs | comparisons survive the wrap; a block is replayed iff it was written after its last revocation |
| journal recovery, `e2fsck/recovery.c`, `e2fsck/journal.c`, `debugfs/journal.c` | the journal on disk, `journal_t`, superblock flags | check, load, three passes, sync, release, clear | the kernel that wrote the log; `ext2fs_flush` | every committed transaction is replayed, no other; no crash loses one; failures lead to a full check |
| debugfs journal commands, `debugfs/do_journal.c` | the open journal, its head | journal_open, write, close, run | recovery of either tool | what was written is what is replayed |
| fast commit, `e2fsck/journal.c`, `recovery.c` | fast commit area, replay state | scan, replay of tags | recovery | tags up to the last valid tail are applied, in order |
| multiple mount protection, `mmp.c` | MMP block, sequence number | start, update, stop, clear | other nodes | no two nodes have the file system open |
| undo files, `undo_io.c`, `e2undo.c` | undo file, bitmap of saved blocks | write with save, resume, replay | the channel below it | the undo file can always bring back the state before |
| link counts, `icount.c`; EA counts, `ea_refcount.c` | bitmaps plus sorted list; sorted list | fetch, store, increment, decrement | passes 1, 2, 4 | a map of counts |
| bitmaps, `blkmap64_rb.c` | red-black tree of extents with cursors | mark, unmark, test, find, resize | everything that allocates | a set of bits |
| parallel bitmap reading, `rw_bitmaps.c` | threads over ranges of groups | read bitmaps | the channel | the same bitmap as one thread reads |
| allocation, `alloc*.c` | free counts per group, uninitialised groups | new block, new inode, ranges, stats | bitmaps | counters agree with bitmaps, a search misses nothing |
| extents, `extent.c`, `punch.c` | path of nodes | insert, split, delete, set_bmap, punch | the channel | a map of logical to physical blocks |
| file I/O, `fileio.c` | one block's buffer, its state | read, write, seek, set_size, flush | allocation, extents | what is read is what was written |
| directories, `link.c`, `unlink.c`, `expanddir.c` | linear blocks or a hash tree | link, unlink, split, grow | fuse2fs, debugfs | a name is found where its hash leads |
| inode scan and cache, `inode.c` | position in the tables; 4 cached inodes and a block | next_inode, read, write | passes | every inode once; the latest inode |
| e2fsck passes 1 to 5 | the whole in-memory picture | check and repair | all of the above | what is called clean is sound; a second run finds nothing |
| fuse2fs, `misc/fuse2fs.c` | a mounted file system, open handles | the FUSE operations | library, other calls | each call does all of its work or says that it did not |
| resize2fs, `resize/` | translation tables | shrink: move blocks, inodes, references | the channel | stopped anywhere, files stay or the file system says it is broken |
| quota tree, `lib/support/quotaio_tree.c` | blocks of a file, free lists | commit, delete, read, scan | e2fsck, tune2fs | one entry per id, nothing shared |
| uuid library and daemon, `gen_uuid.c`, `uuidd.c` | clock state file, last time | generate, bulk | processes, threads, the clock | no UUID twice |
| regions of a block, `e2fsck/region.c` | sorted list of ranges | allocate, free | checks of EA blocks | accepts exactly the free ranges |

`PROJECT.json` lists every component, also those left out with the reason, and
a hazard at every line known to be hard to test.

## 2. Modules

```
BlockDevice <--refines-- UnixIO <-- MC_UnixIO
                           ^-- UnixIOProofs
Jbd2 <-- JournalRecovery <-- KernelJournal <-- MC_KernelJournal
                ^                 ^-- JournalProofs
                +-- DebugfsJournal <-- MC_DebugfsJournal
                                ^-- DebugfsProofs
UndoIO <-- UndoProofs
E2fsck <-- MC_E2fsck
SortedTable <-- Icount, EaRefcount
Icount, Allocator, RbBitmap, EaRefcount, Region,
    ExtentTree, FileIO, Directory                        <-- MC_Library
Mmp, UuidClock, BitmapThreads, FastCommit, FcExtents,
    Fuse2fs, Resize, InodeCache, InodeScan, QuotaTree    <-- MC_Shared
Mmp                           <-- MmpProofs
Region, RbBitmap, InodeCache,
    FileIO                    <-- LibraryProofs
Icount, EaRefcount            <-- TableProofs
BitmapThreads, UuidClock      <-- SharedProofs
```
(an arrow from B to A reads "B extends A")

Definitions keep the names of the functions they stand for where a whole
function is one step. A name of the form `X_Fault` next to `X` is a plausible
slip in `X`, kept to show that the properties notice it.

### UnixIO and BlockDevice

`BlockDevice` is what a channel promises: `mem`, one value per block; `dur`,
the set of values each block may hold after a crash; requests that work through
their blocks piece by piece. A flush that returns success has collapsed `dur`
to `mem`.

`UnixIO` is `unix_io.c`. `cache` and `age` are `data->cache[]` with the
`access_time`s as ranks; `disk` is what the descriptor returns and `stable`
what survives a power failure. A request is a sequence of steps, cut where the
code drops or takes `CACHE_MTX` and where it calls the device: `ReadHit`,
`ReadMiss`, `ReadFetch`, `ReadRelock`, `ReadSave` are the turns of the loop in
`unix_read_blk64`; `WriteThrough`, `WriteLock`, `WriteFill` those of
`unix_write_blk64`. Direct requests, `unix_write_byte`, `unix_zeroout`,
`unix_discard`, `unix_flush`, `unix_set_blksize`, the `cache=` option,
`io_channel_bumpcount` and `unix_close` are actions of their own. Alignment,
offsets, bounce buffers and readahead change no contents and are inside
`RawRead` and `RawWrite`.

What callers do is limited by `MayStart` and `MayBypass`: only reads overlap
(the only threads in the repository are those of `rw_bitmaps.c`, which read),
and requests that go round the cache without emptying it are made for blocks
that are not cached. `Liberties` lifts either limit.

### Jbd2, JournalRecovery, KernelJournal, DebugfsJournal

`Jbd2` has the identifiers modulo `TidMod` (2^32 in the code), the ring
`First .. Last - 1`, the four kinds of log block, the revoke table and the
checksums. The contents of a block is the number of the write that made it,
plus whether it begins with the journal's magic number, so that escaping is
modelled; checksums have no collisions. `Formats` lists the kinds of journal an
execution may have: checksum feature, `async_commit`, first identifier.

`JournalRecovery` is the recovery of both tools. `pc` follows
`e2fsck_check_ext3_journal`, `e2fsck_run_ext3_journal`,
`recover_ext3_journal`, `do_one_pass` (a step per log block and per tag),
`e2fsck_journal_release`, `e2fsck_clear_recover` and `ext2fs_flush2` with its
two syncs. `disk` is what is read back, `stable` what a crash leaves;
`Writeback` moves any single item from one to the other. `s` holds the locals
of `do_one_pass`. `want` is a history variable: what the file system must hold
when everything committed has been replayed. The rest of e2fsck is one step
(`RestOfFsck`): a file system not marked valid is repaired, and what it then
holds is right by definition.

`KernelJournal` adds the kernel that fills the log. It is not part of this
repository and is modelled from what recovery relies on: commit block last
unless `async_commit` is set, the tail moves after the checkpoint, a block is
written in place only after its revocation is committed. `TornCommit` leaves
any subset of the blocks of the last transaction behind. `Mkfs` is
`mke2fs -E lazy_journal_init`.

`DebugfsJournal` adds debugfs' journal commands instead. Its writes are not
ordered among themselves.

### UndoIO

The undo manager and e2undo. The undo file's blocks, a block of old contents
and the key block, wait in the cache of its channel until the write of the
header flushes them (`cached`, `file`); a tool may be killed after any of its
steps, exit, close, and a later tool may resume the file. `flush_cached_blocks`
writes in the order of the slots. That is data before key when the cache was
empty, which the header's write sees to (`Emptied`); but `undo_setup_tdb` and
`try_reopen_undo_file` leave the key block in a slot, and until the next header
is written (`warm`) the order is key before data. `Kill` leaves a prefix of the
first order, `KillBetween` the key block alone. e2undo, with and without `-f`,
replays the keys, skips an extent it cannot read, and may be killed too.

### E2fsck

The five passes with `-f -y` over images of inodes with one block each. An
execution begins with a sound image, up to `MaxDamage` of whose fields change;
then e2fsck runs, is perhaps cancelled, and runs a second time. `ctx` is the
part of `struct e2fsck_struct` that the passes hand to each other: the maps of
pass 1, the blocks with several owners and their clones (1B to 1D), the
directory information and parents, the link counts. `known` records defects of
section 5 that an execution has met, so that the properties can be stated for
all the others.

### The library's data structures (MC_Library)

An execution chooses one component and runs it alone, under every sequence of
calls within its bounds. Each has a history variable or a plain definition of
what its calls add up to.

- `SortedTable`: the sorted arrays with binary search that `icount.c` and
  `ea_refcount.c` share in idea; `Icount` adds bitmaps for counts of one and
  the full map, `EaRefcount` the use of the tables by pass 1.
- `Allocator`: `ext2fs_new_block3`, `ext2fs_new_range` with a minimum length, a
  fixed goal, both or neither, `ext2fs_new_inode`, the statistics, BLOCK_UNINIT
  and INODE_UNINIT, reopening, and a flush that may fail between any two of the
  bitmaps it writes.
- `RbBitmap`: extents with the read and write cursors `rcursor`, `rcursor_next`
  and `wcursor`, which every operation must leave valid.
- `Region`; a call that gets no memory for a new element changes nothing and is
  a stuttering step.
- `ExtentTree`: a tree with real nodes, splits and fix-ups of parents. Each call
  finds some number of blocks free, up to what `TreeBlocks` leaves, and takes
  the error paths when there are not enough; a punch frees the data it unmaps,
  and `BlocksCounted` compares the bitmap and `i_blocks` with the tree.
- `FileIO`, `Directory` (leaf splits, two levels of index).

### What is shared or cut off (MC_Shared)

Composed in the same way.

- `Mmp`: nodes with clocks. A tick passes for everyone at once; a node between
  two calls takes its next step within `MaxDelay` ticks unless it is suspended.
- `UuidClock`: threads, processes, the state file under its lock, the daemon,
  a clock that is set back.
- `BitmapThreads`: the threads of `ext2fs_rw_bitmaps`, an insertion into the
  bitmap being two steps, with failures of memory, creation and reading.
- `FastCommit` and `FcExtents`: scan and replay of names, inodes and ranges from
  an area with stale and torn blocks, in a file system that holds any state
  between the last full commit and the last fast commit. Replay may fail at once,
  when the bitmaps cannot be read, or at a name for which its directory has no
  room. A list of ranges emptied down to one extent keeps it with length zero,
  as `ex_sort_and_merge` returns early for it; its end then wraps, as in the code.
- `Fuse2fs`: each FUSE operation as the sequence of library calls it makes, any
  of which may fail. Some errors are counted in the superblock and others not
  (`__translate_error`): an operation that ends with an uncounted one after it
  has written something sets `halfway`, and the execution is followed no further.
- `Resize`: shrinking, stopped at any moment, over an image and a cache of it.
- `InodeCache` and `InodeScan`: `inode.c`. The scan may be sent to a group
  (`ext2fs_inode_scan_goto_blockgroup`) at any time, its reads may fail and be
  repeated, and a group's table may lie outside the device.
- `QuotaTree`: the blocks of a quota file with their two free lists.

## 3. Runs

Each bound is a constant named in its module.

| run | configuration | shows |
|---|---|---|
| `unixio_coherence` | 1 thread, 3 blocks, 2 slots, direct above 2 blocks, requests up to 3 | the channel implements `BlockDevice`; a clean slot agrees with the device |
| `unixio_concurrent` | 2 threads, 2 blocks, 1 slot, failing reads, kills, power failures, 2 references | the same refinement when the mutex is dropped during reads and when flushed data has to survive; the mutex never blocks everyone |
| `unixio_faults` | 2 threads, 2 blocks, 2 slots, failing reads and writes | no block in two slots; data is lost only in a call that reports it, in the last close, or when a dirty slot is evicted (`reuse_cache` ignores the result of that write) |
| `journal_exact` | log of 7 blocks, 2 mounts, 1 crash of e2fsck; journals without checksums whose identifiers wrap at 16, and v1 with `async_commit` | nothing committed is lost, nothing else is replayed, `needs_recovery` outlives the log, old commit records are dead, an interrupted commit ends the log and is no error |
| `journal_damage` | log of 5 blocks, v1 and v3, one damaged block, unreadable blocks, failing sync, lazy journal initialisation | a file system that passes as clean holds exactly what was committed to it |
| `debugfs_session` | log of 10 blocks, 3 writes with a list of blocks or of revocations, failing log writes, journal_run after the last | every committed journal_write is replayed and nothing else; the file system asks for it |
| `debugfs_interrupted` | log of 6 blocks that fills up, 1 crash, any order of writes, failing reads and writes, v1 | a recovery that has begun ends |
| `undo` | 3 blocks, 2 keys per key block, writes of 2 blocks, one value (what is written matters only as different from the original) | a block is saved before it changes, and e2undo restores at every moment, killed and repeated, but for what a kill in the middle of a flush tears off |
| `fsck` | 6 inodes, 8 blocks, 3 images, 2 damaged fields, 1 cancellation | what e2fsck calls clean is sound, a second run changes nothing, intact files survive |
| `fsck_no_room` | the image without a free block | section 5 |
| `library` | see `Library.cfg` | each data structure holds what the calls before add up to |
| `shared` | see `Shared.cfg` | two nodes never use one file system and an intruder is noticed; no UUID twice; all groups or no bitmap; replay is exact, and partial replay marked; fuse2fs' calls leave sound or declared-unsound trees unless an uncounted error ends one half way; a resize stopped anywhere loses no data unmarked; inodes are the latest; the scan meets every inode; quota files are sound |

Several properties are conjunctions of named parts, which their modules define
and comment on: `IcountCorrect`, `AllocatorCorrect`, `RbBitmapCorrect`,
`RefcountsCorrect`, `RegionCorrect`, `ExtentTreeCorrect`, `FileIOCorrect`,
`DirectoryCorrect`, `ThreadsCorrect`, `FastCommitCorrect`, `RangesCorrect`,
`FuseCorrect`, `ResizeSafe`, `ScanCorrect`, `QuotaCorrect`, `CleanMeansSound`,
`RunsSettle`, `UndoWorks`.

Why these bounds are enough for what they are meant to show.

- A cache smaller than the device evicts; two slots and three blocks are the
  least with a run of uncached blocks that ends at a cached one; `MaxCount` is
  above `WRITE_DIRECT_SIZE` so that both paths meet. One slot under two readers
  is the worst case for eviction while the mutex is free.
- With five to seven log blocks and transactions of two to four, transactions
  wrap in their middle, a log can be exactly full, and the remains of earlier
  transactions follow the end of the log. Two file system blocks are needed to
  write one and revoke the other; one of them begins with the magic number and
  is escaped. `TidMod = 16` keeps all identifiers in use less than half the
  range apart, as 2^32 does. `CommitsPerSecond = 2` gives two commits the same
  time: recovery compares commit times in seconds. One crash suffices for the
  ordering properties, since the state after a crash is again an initial state
  of a recovery.
- Mmp's intervals of 1 and 3 ticks give a fast and a slow kernel sleeps of
  different lengths, and the delay of 1 is just below the shortest sleep.
- Two damaged fields are the least with which the repair of one finds what the
  other broke (a directory without a parent, and no room to reconnect it).
- Nodes of two or three entries make trees of two levels split and merge within
  five keys, and with three blocks for the tree every split can fail: leaving out
  what the code puts back then (`Restored_StaysShort`) violates `ExtentTreeCorrect`; `BlockLen = 6` with names of length 2 and 4 is the least that can
  be halved with both kinds.
- A file system of fuse2fs that begins with five free blocks of twelve runs out
  of them, with `alloc_all_blocks` and with the default reserve of a tenth.
- Six groups, three threads and flex sizes of 1 and 2 divide evenly, unevenly
  and not at all.

`DebugfsJournal` restricts its user in two runs: `ClosesJournal` has the user
close the journal before leaving, and `RunsAt` says after how many writes
`journal_run` is used. Section 5 says why.

Fairness. `RecoveryEnds` needs weak fairness of `Recover`, the steps of
`recover_ext3_journal`: a sequential loop of a running process that waits for
nobody; either it takes its next step or the process is gone, which is the
action `Crash`. `IntruderNoticed` needs that time passes (`Tick`), that a node
which is running takes its steps (`Proceeds`) and that a suspended one is
resumed (`Resume`). Nothing is assumed of users, kernels or write back.

Deadlock is checked where the system can always go on: the channel, the
journals and debugfs, which can always be started again. The other runs
(`undo`, `fsck`, `library`, `shared`) say `CHECK_DEADLOCK FALSE`: a session
ends after its last permitted call, and so does e2fsck after its second run.

## 4. Proofs

| theorem | statement | for every | hypotheses |
|---|---|---|---|
| `UnixIOProofs!TypeCorrect` | `Spec => []TypeOK` | cache, device, request size, number of threads, set of faults and liberties | |
| `UnixIOProofs!OneSlot` | `Spec => []OneSlotPerBlock` | the same | |
| `UnixIOProofs!CleanSlotsAreCurrent` | `Spec => []CleanMatchesDisk` | cache, device, request size, number of threads, failing reads, crashes | `Liberties = {}`, `~WriteFaults` |
| `UnixIOProofs!LossesAreReported` | `Spec => NoSilentLoss` | the same, and failing writes | `Liberties = {}` |
| `UnixIOProofs!ChannelIsADevice` | `Spec => ImplementsBlockDevice` | the same, without failing writes | `Liberties = {}`, `~WriteFaults` |
| `JournalProofs!NeedsRecoveryOutlivesTheLog` | `Spec => []FlagOutlivesLog` (`KernelJournal`) | log size, checksum feature, fault, number of crashes, mounts and writes | |
| `JournalProofs!RecoveryTypeCorrect` | `Spec => []TypeOK` (`KernelJournal`) | the same, and damage | |
| `DebugfsProofs!JournalWritesAskForRecovery` | `Spec => []LogAsksForRecovery` (`DebugfsJournal`) | log size, commands, shapes of transactions, fault | `MaxCrashes = 0` |
| `MmpProofs!MmpTypeCorrect` | `Spec => []MmpTypeOK` | number of nodes, interval, delay | |
| `MmpProofs!OneUserAtATime` | `Spec => []OneUser` | number of nodes, interval, delay | `Punctual` |
| `SharedProofs!ThreadsReadAllGroups` | `ThreadsSpec => []ThreadsCorrect` | number of groups and threads, flex size | |
| `LibraryProofs!CachedInodesAreLatest` | `InodeCacheSpec => []InodesAreLatest` | set of inodes, layout of the table, size of the cache, number of faults | `~UnsoundEvicts`, `~ErrorsClobber` |
| `SharedProofs!NoUuidTwice` | `UuidSpec => []NeverTwice` | number of callers, time stamps per tick, size of a bulk reply, number of clock sequences, times the clock is set back, kills | `OwnProcesses` |
| `UndoProofs!OldContentsAreSaved` | `Spec => []SavedBeforeChanged` (`UndoIO`) | size of the device, of key blocks and of extents, number of sessions, writes, kills (between any two writes of a flush too) and failing reads | `~ResumeFull` |
| `UndoProofs!UndoPutsBack` | `Spec => []UndoWorks` (`UndoIO`) | the same | `~ResumeFull` |
| `LibraryProofs!RegionIsExact` | `RegionSpec => []RegionCorrect` | bounds of the region | |
| `LibraryProofs!BitmapIsExact` | `RbSpec => []RbBitmapCorrect` | size of the bitmap | |
| `LibraryProofs!FilesReadBack` | `FileSpec => []FileIOCorrect` | size of a block, a file and the disk, positions, values | `~TruncatesUsed` |
| `TableProofs!CountsStayExact` | `IcountSpec => []IcountCorrect` | set of inodes, cutoff, links, room of the list | |
| `TableProofs!ReferencesAreCounted` | `EaSpec => []RefcountsCorrect` | set of blocks, number of inodes, header counts, room of the lists | |

They rest on the named assumptions about constants in `UnixIO`, `Jbd2`,
`JournalRecovery`, `KernelJournal`, `DebugfsJournal`, `Mmp`, `BitmapThreads`,
`InodeCache`, `UuidClock`, `UndoIO`, `Region`, `RbBitmap`, `FileIO`, `Icount`
and `EaRefcount`, which TLC evaluates in every run of those modules. The last
five say only which constants are natural numbers or sets of them, with one
exception: the unsigned counts of `EaRefcount` can count all inodes
(`EaInodes < Modulus`). The five specifications named after a component
(`RegionSpec`, `RbSpec`, `FileSpec`, `IcountSpec`, `EaSpec`) are the behaviours
in which `MC_Library` chooses it.

*TypeCorrect.* `TypeOK` is inductive once it says that a run of uncached blocks
is within the request and the request within the device (`blk + cnt <= NBlocks`,
`run <= cnt`). The proof has a lemma per helper (`ReuseType`, `FlushType`,
`EnterType` ...), then one step per action.

*OneSlot.* Inductive together with `TypeOK`. Slots get a block in two places
only, `FillBlock` and `SaveBlock`, and both look first whether the block is
cached, under the mutex in the same step. That the second look is needed is
what the fault `SaveBlock_NoRecheck` shows. The theorem does not use
`MayStart`: it holds even for callers that write from several threads.

*CleanSlotsAreCurrent.* That a clean slot agrees with the device is not
inductive: a read fetches without the mutex and saves what it fetched later,
and a write-through writes before it caches. `Coherent` adds what the steps in
between know: whoever does more than read is alone (`WritesAlone`); what a
read is fetching is dirty in no slot, and what it has fetched is on the device
(`FetchIsCurrent`); what a write-through has written is what it is going to
cache (`ThroughIsWritten`); a channel that writes through has nothing dirty
(`ThroughIsClean`); a request that bypasses the cache does so for uncached
blocks (`RawIsUncached`); a closed channel holds nothing (`ClosedIsEmpty`). The
argument has two halves: what the step of one thread leaves to the others
(`Considerate`, `OthersKept`), and what it does to its own request. The two
hypotheses are the callers' discipline of section 2 and a device that accepts
writes: where a write-through fails, the code has cached nothing yet but the
device may hold part of it, and with `"bypass_cached"` the statement is false
(section 5).

*LossesAreReported.* From `Coherent`, which holds with failing writes as well
(its parts that need the device are stated for `~WriteFaults`): a step that
changes what a block reads as either belongs to a request that writes the block,
or is an eviction, a close, an end of the process or a call with an error.

*ChannelIsADevice.* A step-by-step simulation under the mapping in `UnixIO`
(`DevMem`: the slot's contents if cached, else the device's; `dur`: what the
medium or any copy on its way to it holds). `Durable` is the additional
invariant: what the abstract device may hold after a crash includes everything
the concrete one may. Every action is mapped to a step of `BlockDevice` or to
none: `CallImplements` for the beginnings of requests, `ReadStepsImplement`,
`WriteStepsImplement` and `OtherStepsImplement` for their pieces,
`StopImplements` for kills and power failures.

*NeedsRecoveryOutlivesTheLog.* `FlagOutlivesLog` speaks of the medium alone and
is not inductive: a step of write back could bring a superblock without the
flag, or a journal superblock that is not empty, from `disk` to `stable`.
`FlagInv` adds three facts: if either copy of the superblock lacks the flag the
log is empty in both copies (`FlagFirst`); while mounted both copies have it
(`MountedFlag`); and the superblock in memory lacks it only when the log reads
back empty, and is written only when it is empty on the medium as well
(`MemoryFlag`). The last part is where the first `io_channel_flush` of
`ext2fs_flush2` is used: with `FlushBefore_Nothing` in its place the step
`FlushKeepsInv` no longer goes through. `PassesAreQuiet` shows once that no
step of `do_one_pass` touches either superblock.

*RecoveryTypeCorrect.* The part of `TypeOK` that is not obvious is that
`next_log_block` stays in the log. `do_one_pass` adds the number of tags of a
descriptor to it and wraps once, which is right only for descriptors of fewer
blocks than the log has (`AfterType`); nothing in the loop checks that. The
invariant `JournalTyped` therefore bounds every descriptor in the log, on the
disk and on the medium (`ShortRecords`), and the bound comes from whoever writes
the log: a transaction is committed, or torn, only when all of its blocks,
descriptor and commit included, have room (`LogOfType`, `CommitWrites`). It
also needs that a pass only runs over a log that is not empty (`PassTypes`), so
that the second and third pass begin inside it too.

*JournalWritesAskForRecovery.* `AskInv` follows the flag from memory to the
disk: while a tool runs, a log that is not empty has the flag in the superblock
in memory, and on the disk once it is written or the tool has ended
(`MemoryAsks`); a superblock that has the flag only in memory is dirty
(`DirtyOrWritten`), since `close_filesystem` writes no other; and what
`journal_close` is about to write has been announced by `journal_write`
(`OpenAsks`). It holds for every fault and whether or not the user closes the
journal. `MaxCrashes = 0` is needed: `journal_close` writes the journal
superblock and leaves the flag in memory, so a crash before the superblock is
written leaves a log that nobody asks to be recovered.

*OneUserAtATime.* The argument is about time. A node that finds its own number
in the block after its second sleep has outlived every node that was about to
claim the block when it did (`Older`), because such a node acts within
`MaxDelay`, which is shorter than the sleep. And a node that read that number
during the sleep is still asleep when the number is replaced, by FSCK or by the
next number of a kernel that mounted (`Outsleeps`), because its own sleep is
derived from the interval in the block it read and begins later. `Exclusive`
states both with the distances of the clocks, says that no two nodes wrote the
same number (`Apart`), and that a node which has the file system is alone
(`Alone`). `Punctual` has three parts: `MaxDelay < SleepTime(SuperInterval)` is
what the sleeps are for, and it is sharp (with equality TLC finds two users);
`MaxExtra > 0` is true of the code's 60; and `Staggered`, that nobody begins
while another's claim is fresh, excludes the race of section 5, which the code
does not close. `OneUser` itself promises nothing after a node was suspended
or somebody cleared the block of a file system in use (`misused`); for the
first there is `IntruderNoticed`.

*ThreadsReadAllGroups.* Two parts. Arithmetic: with
`average = (groups / num / flex) * flex` the ranges `average * i + 1 ..
average * (i + 1)`, the first beginning at 0 and the last ending at the last
group, have each group exactly once (`AverageFits`, `Ranges`, `Division`).
Concurrency: `ThreadsInv` says that a thread inside an insertion has the mutex
and has seen the bitmap as it is, so that no insertion is lost, that every
thread has inserted all groups before its position, and that a call succeeds
only after all of its threads, created and joined, have.

*CachedInodesAreLatest.* `InodeCacheInv`: the buffer holds the whole block its
number says and no inode older than the last successful write (`BufferHolds`),
the same of the slots (`SlotsHold`) and of the table (`TableHolds`), and no
inode is in two slots (`SlotsDiffer`), without which a write would update one
and leave the other. The hypotheses are exactly the two calls of section 5 that
break the property.

*NoUuidTwice.* A UUID is a time stamp and a clock sequence. Within one sequence
the last time stamp that the state remembers (`Top`) grows with every UUID, and
stays the same only where `MAX_ADJUSTMENT` is compared off by one (`brim`).
When the clock is set back the sequence is counted on, and as long as there were
fewer changes than sequences the new one is unused (`NextTurn`, `NotATurn`).
`Covers(s, u)` says both of a state and a UUID. `UuidInv` has: one thread at a
time is between the lock and the write of the state (`Exclusive`), and works on
what is in the file (`TriesLatest`); the file covers all that was handed out or
reserved by those who have written it (`FileCovers`), a state not yet written
all but what is being made with it (`StampedCovers`); and what a thread may
still hand out, its own UUID or the rest of a bulk reply (`Own`), was handed out
by nobody and belongs to nobody else (`Separate`). A kill, a reply that arrives
too late and a range reserved for a caller that gave up only make `Own` smaller.
`OwnProcesses` says that no two threads share a process; without it the code
does hand out the same UUID twice (section 5). `NeverTwice` promises nothing
once every clock sequence has been used: then the sequence comes round to one
whose time stamps the state has forgotten.

*OldContentsAreSaved, UndoPutsBack.* `SavedBeforeChanged` speaks of the file a
kill leaves now, and a kill loses what is still in the channel's cache; so the
invariant must speak of every file that a kill could leave from here.
`KillSafe`: whatever prefix of the cached writes has reached the undo file, the
keys that its header counts can be read, their extents have the checksummed,
original contents, and together they have every block that is changed on the
device or waits to be. `Tearing` says the same of the file that has the key
block without the data before it, with the blocks of the one key this tears
added to `lost.torn`: none when the key is new, as the header does not count it
yet, and its extent when a key that was there has been extended. `ToolSound` says the same of the keys the tool counts
once everything is written, that its bitmap of saved blocks is what those keys
have, and that its cursors are where e2undo would look for the next key
(`GoesOn`) or right behind the one just added (`HasAdded`). e2undo finds keys by
walking the file from its beginning, the tool by counters it carries along;
most of the lemmas show that a write behind the walked part leaves the walk
alone (`Place`). A resumed file must give the tool the same cursors, and this
is where `~ResumeFull` is used: with an exactly full last key block it does
not (section 5). For e2undo, the keys left to write have every block that
still differs (`UndoingSound`), so that an interrupted replay can be repeated.

*RegionIsExact.* `RegionIInv`: the list is sorted with gaps between its
elements, `last` is its last element, and the addresses in it are those handed
out. The loop of `region_allocate` is a search for the first element at which
it stops; the lemmas say for each of the four cases (before, behind, merged
with the next, closing a gap) which addresses the new list has.

*BitmapIsExact.* `RbIInv`: no extent is empty, no two overlap or touch, the bits
held are those marked, and the cursors are good: each is null or an extent
of the tree, and nothing lies between `rcursor` and `rcursor_next`. The last is
what the shortcut of `rb_test_bit` relies on and what every
insertion and removal must reestablish; `rb_free_extent` clears the cursors of
an extent that goes away. `rb_set_bmap_range` takes the runs of ones of its
argument one after the other, and the proof follows them by induction on how
many were inserted.

*FilesReadBack.* That a read returns what was written is not inductive: it says
nothing of the disk behind a dirty buffer, nor of the cells behind the end of
the file, and both are read later. `FileSound` has: no block is at two places
of the file, or in the file and free (`Mapped`); a valid buffer knows the block
behind it, and only a valid one is dirty (`AtItsBlock`); the buffer has what
the callers were told, and the disk has it wherever the buffer is not `Ahead`
of it (`Shows`). A dirty buffer whose block could not be allocated is not
ahead: what a failing write left in it may be lost at the close, and the disk
then shows a hole, so `content` of those cells is a set. `FileIInv` adds that
cells behind the end may be zero, which a file that grows must show:
`ShrinkIs` proves that of `ext2fs_file_set_size2` from the zeros behind the new
end in the last block and the blocks given back behind it, `WriteIs` of a write
past the end. The loops of `ext2fs_file_read` and `ext2fs_file_write` are
followed round by round (`LoopKeeps`). `~TruncatesUsed` is used once, for
a file that shrinks: a buffer that stays valid while its block is cut or given back
still shows, and later writes, what was cut off (section 5).

*CountsStayExact.* `Counts`: outside a full map, the links an inode was given
are `Count`: one if it is in the bitmap of ones, nothing if neither that nor
the bitmap of more has it, otherwise what the list says; inside, they are what
the map says unless the cutoff was met. An entry of the list may be stale
as long as the bitmaps hide it, and the invariant does not forbid that.
The list is a sorted table (`Table`); its lookups are a binary search
(`BsearchIs`: it ends at the key's place, or where the key belongs), a hint
`last_lookup` and a comparison with the last key, and all three agree.

*ReferencesAreCounted.* For every block seen so far, what is left in `refcount`
minus what went to `refcount_extra` is the header's count minus one, as an
unsigned number, minus the inodes seen after the first (`Balanced`); at most
one of the two is not zero, and a block not seen yet has none. The two
adjustments at the end turn this balance into the number of inodes, modulo
2^32 and so exactly. A header that says 0 goes through 2^32 - 1. That the
lists stay tables across `refcount_collapse` and the search after it is
`CollapseIs` and the cases of `get_refcount_el`; the fault
`CreateRefcount_NoRetry` is the step that then fails.

*Recursion.* The library's induction theorems cannot be instantiated with the
installed provers, since they take a predicate as an operator. The proofs of
this section that need induction (binary search, collapse, runs of ones, the
walk along an undo file) write the recursion as a recursive function, show that
it exists, and argue with a set of natural numbers: either it contains 0 and
every successor, or its complement has a least element (`NatMin`).

Only model-checked:

- what recovery replays (`EmptyLogMeansDurable`, `CleanMeansRecovered`,
  `ReplaysAllTransactions`), which depends on the contents of sequences of log
  blocks and needs induction over the log;
- trees and folds over them: extent trees, hash trees, quota trees, fast commit
  replay, the searches of the allocator, the passes of e2fsck. They are written
  with RECURSIVE operators or with folds that take an operator, neither of which
  the installed provers can reason about;
- `RecoveryEnds`, `IntruderNoticed` (liveness), `SomebodyCanMove` (ENABLED);
- `OldCommitsInvalid` and `NeverFails`, which need the order of all identifiers
  left in the ring, and `ResizeSafe`, `FuseCorrect` and `ScanCorrect`, which no
  theorem states yet.

## 5. Disagreements between the code and what it says of itself

`fsck_no_room` has a run of its own, which TLC ends with a counterexample: when
there is no block for lost+found, pass 4 writes a link count of zero into an
intact file that has no name, and the next e2fsck frees it, against "skip the
i_links_test since there's no point in trying to force i_links_count to zero"
(`pass4.c:80`). The second run, in which there may be room, would have
reconnected it.

The same modules show the following with other values of the constants; the
runs avoid them so that the rest can be checked.

| what the code does | constants under which TLC shows it |
|---|---|
| `unix_zeroout` (`unix_io.c:1353`) leaves cached copies of the range, against the comment at 1291 | `UnixIO`: `Liberties = {"bypass_cached"}`, `CleanMatchesDisk` |
| `brelse` (`e2fsck/journal.c:217`) ignores the outcome of writing a replayed block, and the log is emptied, against "Make sure all replayed data is on permanent storage" (`recovery.c:326`) | `KernelJournal`: `Faults = {"write"}`, `EmptyLogMeansDurable` |
| a recovery that failed empties the log on disk before the superblock says so; a crash in between hides the failure, against "if we had an error doing journal recovery, we need a full fsck" (`e2fsck/journal.c:244`) | `KernelJournal`: `Faults = {"read"}`, `MaxCrashes = 1`, `CleanMeansRecovered` |
| a failed recovery releases the log with its old `s_sequence` (`e2fsck/journal.c:1642`), so old commit records are valid again after the next mount, and can be replayed | `KernelJournal`: `Mounts = 2`, `Faults = {"read"}`, `OldCommitsInvalid`, `CleanMeansRecovered` |
| `break` at `recovery.c:596` leaves the switch and not the loop when a described block cannot be read | `KernelJournal`: v1, `Faults = {"described"}`, `CleanMeansRecovered` |
| `end_transaction = 0` means "unknown", and 0 is an identifier (`recovery.c:864`) | `KernelJournal`: v1 with `async_commit` in `Formats` and first identifier 15, `EmptyLogMeansDurable` |
| `j_failed_commit == 0` means "none", and 0 is an identifier: a failed commit with it goes unreported (`e2fsck/journal.c:1645`; `recovery.c:781`, 809) | `KernelJournal`: v1 without `async_commit` and first identifier 15 in the damage run, `CleanMeansRecovered` |
| `journal_write -b .. -r ..` takes a block more than `journal_guess_blocks` counts, and the next journal_write overwrites its commit block, against "Replay all transactions in the open journal" (`debugfs.8`) | `DebugfsJournal`: a shape with both lists, `ReplaysAllTransactions` |
| `journal_run` does not advance the tail's identifier (`debugfs/journal.c:767`) | `DebugfsJournal`: `RunsAt = {1, 2, 3}`, `OldCommitsInvalid` |
| ENOSPC is decided without the commit block (`do_journal.c:457`) | `DebugfsJournal`: `Last = 6`, `ReplaysAllTransactions` |
| the head of an exactly full log wraps onto the tail (`do_journal.c:742`) | `DebugfsJournal`: `Last = 7`, three single blocks, `ReplaysAllTransactions` |
| `journal_commit_trans` sums revoke blocks, recovery does not (`do_journal.c:100`) | `DebugfsJournal`: v1, blocks and revocations together, `ReplaysAllTransactions` |
| two nodes that begin together can both find their number: the first sleep of one may end while the other's claim is fresh, against "Make sure that the fs is not mounted or being fsck'ed while opening the fs" (`mmp.c`, `ext2fs_mmp_start`) | `Mmp`: `Staggered = FALSE`, `OneUser` |
| an undo file whose last key block is exactly full is resumed with `keys_in_block` at its maximum (`undo_io.c:657`, comment at 540) | `UndoIO`: `ResumeFull = TRUE`, `SavedBeforeChanged` |
| a tool that has just resumed an undo file and extends its last key may be killed with the key in the file and its data not (`flush_cached_blocks` goes by slots, `unix_io.c:608-624`; `undo_io.c:436-445`): e2undo then asks for `-f`, and with it skips the extent, or writes zeros once the file has grown past the hole; a tool that resumes the file takes the block for saved | `UndoIO`: part of the run, `lost.torn` in `SavedBeforeChanged` and `UndoWorks` |
| two threads of one process that use no daemon get the same UUID, since `fcntl` locks belong to processes (`gen_uuid.c`; `uuidd.8.in:46`) | `UuidClock`: `ProcessOf` not injective, `NeverTwice` |
| replaying the creation of a symbolic link returns before the name is linked (`e2fsck/journal.c:688`) | `FastCommit`: `Symlinks = {1}`, `ReplayIsExact` |
| a list of ranges emptied by DEL_RANGE keeps one extent of length 0, since `ex_sort_and_merge` returns before it, against "that way we strip off all the 0 length extents" (`e2fsck/journal.c:450-456`): at logical block 0 its end wraps, and the next ADD_RANGE takes a wrong case | `FcExtents`: `AfterEmptied = TRUE`, `RangesCorrect` |
| the scan reads one block more than the area of fast commits (`recovery.c:247`) | `FastCommit`: `KeepsOneFree = FALSE` |
| mapping the last block of an extent to where the next extent, in another leaf, begins loses a block (`extent.c`) | `ExtentTree`: `Distant = TRUE`, `ExtentsExact` |
| an index entry that begins exactly at the end of the file (`extent.c`) | `ExtentTree`: `EndBlk = 3` |
| shortening a file keeps its buffer, valid or dirty, with a block that has been freed (`fileio.c`, `ext2fs_file_set_size2`) | `FileIO`: `TruncatesUsed = TRUE`, `ReadsWhatWasWritten`; `FALSE` leaves out every shortening with a valid buffer, harmless ones too |
| an inode with a bad checksum is copied into the next slot, which keeps its old number (`inode.c:820-862`) | `InodeCache`: `UnsoundEvicts = TRUE`, `InodesAreLatest` |
| a read that fails half way changes the buffer, and `buffer_blk` still names the old block | `InodeCache`: `ErrorsClobber = TRUE`, `InodesAreLatest` |
| bad blocks in inode tables that are not in the order of their groups go unnoticed: `bad_block_ptr` only advances (`inode.c`) | `InodeScan`: descending `TableAt`, `ScanMeetsAll` |
| `ext2fs_inode_scan_goto_blockgroup` does not set `EXT2_SF_CHK_BADBLOCKS` again, so a scan sent back after its bad block list was used up returns bad blocks without an error, against "may be safely called at any time" (`libext2fs.texinfo:582`) | `InodeScan`: part of the run, `met.unchecked` in `ScanMeetsAll` |
| with 1024-byte blocks `dx_split_leaf` can move every entry and look at `map[-1]` (`link.c:443`) | `Directory`: `BlockLen = 4`, excluded by its ASSUME |

With `async_commit` damage of a committed transaction cannot be told from an
interrupted commit; that is its design, and no property claims otherwise.

Met while modelling, each part of the model or excluded by a named flag:

- *e2fsck*: a loop of directories is never detected (`pass3.c:308`, comment at
  277); lost+found, when it is made during pass 3, is inserted into the sorted
  array before the current directory, so that one ".." stays wrong and the file
  system is marked clean (`dirinfo.c:185`, iterator at 381); without a free
  inode for lost+found a block leaks (`pass3.c:505`); a file whose number stands
  in ".." has no links between passes 3 and 4.
- *debugfs*: a `journal_open` that could not find the head of the log leaves the
  journal open, and a `journal_write` would begin at block 0 and overwrite the
  journal's superblock. `FindHeadFails` is an action; what a user writes after it
  is left out (`HeadKnown`).
- *mmp*: `ext2fs_mmp_stop` compares the block with a copy made from it
  (`mmp.c:417`, comment at 393).
- *undo*: a session that writes nothing leaves a header with block size 0;
  `undo_write_byte` adds the offset twice; a block counts as saved before it is
  read (378).
- *icount*: the full map has `num_inodes` entries and is indexed up to
  `num_inodes` (`icount.c:119`).
- *uuid*: `MAX_ADJUSTMENT` is compared off by one (`gen_uuid.c:401`, excluded by
  `brim`); a state file with descriptor 0 is read and not written (359, 421).
- *allocation*: `ext2fs_new_range` with a minimum length never ends when no run
  is long enough and the last block is in use (`alloc.c:446-461`); the range
  callback gets a block past the range and the count 0 (`alloc_stats.c:148`);
  clearing BLOCK_UNINIT for inodes does not mark the block bitmap dirty.
- *bitmaps*: `rb_find_first_zero` says ENOENT on an empty tree;
  `rb_remove_extent` says that a clear bit in front of an extent was set
  (`tst_bitmaps.c:368`); `rb_get_bmap_range` leaves the buffer unwritten on an
  empty tree; `rb_set_bmap_range` clears no bits.
- *threads*: when the second allocation fails, the call succeeds without a
  bitmap (`rw_bitmaps.c:581`); other early failures leave the cache off (570).
- *fast commit*: "It's okay if the above call fails" (`e2fsck/journal.c:658`),
  but `handle_unlink` returns the error; a stale head or a torn first fast
  commit fails the whole recovery and resets the journal.
- *fuse2fs*: `op_symlink` does not check for space; errors below
  `EXT2_ET_BASE`, no memory, no blocks and some others are not counted
  (`__translate_error`), so that an EIO half way through an operation leaves damage
  that nothing declares (`halfway`); `remove_inode` drops the error of
  `ext2fs_free_ext_attr`; link counts are not limited; `op_create`
  returns with the lock held in one path (2908); `op_link` looks at the wrong
  variable (1806); `op_truncate` and `op_ftruncate` lose an error; a file system
  mounted although not valid is marked valid at the end (716); rename removes
  its target before the new name is made.
- *extents*: unmapping in an empty tree inserts an uninitialised extent
  (`extent.c:1308`).
- *files*: a failed write leaves its data in the buffer; `write_inline_data` can
  make its count wrap.
- *directories*: growing a full hash tree appends a block no index points to.
- *inodes*: a write to a read-only file system changes the cache before it is
  refused; the scan's statuses belong to other blocks after a bad block in a
  table (`InStep` in `ReportsAreRight`).
- *quota*: an insertion that fails is ignored, and the entry is written over the
  file's header (`header`); `quota_write_inode` still succeeds.

## 6. What the models leave out

- a journal superblock that is itself corrupt, external journal devices, moving
  the journal to inode 8; transactions of more than one descriptor or one revoke
  block, and 64-bit and csum_v2 tags, which differ from v3 in layout only;
- damage that no checksum feature covers, and damage to a commit block under
  v1 (which has none of its own);
- the wrap of a fast commit area (`recovery.c:228`), inline data, the unwritten
  flag of ranges;
- a damaged MMP block, and the immediate update of `ext2fs_mmp_update2`, which
  only tune2fs asks for, once, ignoring its error; blocks of unknown type in the
  log, which nobody writes there; random UUIDs, an unusable state file; the tdb variant of
  link counts; undo blocks larger than blocks, failing writes of an undo file;
- growth and flex_bg moves in resize2fs, files of several blocks there; sizes,
  extents, attributes, htrees, quota and several groups in e2fsck's passes, and
  a user who answers no;
- `ext2fs_get_free_blocks2`, bigalloc, inodes that straddle blocks, usage
  accounting and limits of quota, contents of files in fuse2fs;
- `access_time` overflowing after 2^31 hits: it changes which slot is evicted,
  and no property depends on that;
- tools that parse options, format and print (mke2fs, tune2fs, dumpe2fs, most of
  debugfs), tables of messages and characters, blkid, vendored code. Together
  they are most of the repository's lines.

## 7. Plan

What is modelled is what keeps state across failures or actors. Left, in order:

1. theorems about `Resize` (`ResizeSafe`) and the allocator's counters;
2. growth in `Resize`; several blocks per inode in `E2fsck`;
3. extended attributes in inodes, and the orphan list.
