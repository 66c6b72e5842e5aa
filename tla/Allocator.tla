------------------------------ MODULE Allocator ------------------------------
(***************************************************************************)
(* Block and inode allocation (lib/ext2fs/alloc.c, alloc_stats.c), and how *)
(* the bitmaps get to the disk and back (write_bitmaps of rw_bitmaps.c and *)
(* ext2fs_flush2 of closefs.c).  With group descriptor checksums a group   *)
(* may be BLOCK_UNINIT or INODE_UNINIT: its bitmap on the disk is then     *)
(* undefined, is not written, and counts as empty but for the group's own  *)
(* metadata.  itable_unused counts inodes at the end of a group's table    *)
(* that were never in use.                                                 *)
(***************************************************************************)
EXTENDS Integers, FiniteSetsExt

CONSTANTS
    GroupCount,     \* fs->group_desc_count
    BlocksPerGroup, InodesPerGroup,
    FirstInode,     \* EXT2_FIRST_INODE: the inodes before it are in use
    GroupMeta,      \* the metadata blocks of each group
    MaxUnflushed    \* bound on the calls between two flushes

DGroups == 0 .. GroupCount - 1
ABlocks == 0 .. GroupCount * BlocksPerGroup - 1
AInodes == 1 .. GroupCount * InodesPerGroup

BlocksOf(g) == g * BlocksPerGroup .. (g + 1) * BlocksPerGroup - 1
InodesOf(g) == g * InodesPerGroup + 1 .. (g + 1) * InodesPerGroup
GroupOfBlock(b) == b \div BlocksPerGroup
GroupOfInode(i) == (i - 1) \div InodesPerGroup

ASSUME AllocatorAssumption ==
    /\ GroupCount \in Nat \ {0} /\ BlocksPerGroup \in Nat \ {0} /\ InodesPerGroup \in Nat \ {0}
    /\ FirstInode \in AInodes /\ FirstInode <= InodesPerGroup
    /\ MaxUnflushed \in Nat
    /\ GroupMeta \in [DGroups -> SUBSET ABlocks]
    /\ \A g \in DGroups : GroupMeta[g] \subseteq BlocksOf(g)

VARIABLES
    fs,         \* the open file system, in memory
    onDisk,     \* its superblock, descriptors and bitmaps on the disk
    taken,      \* blocks and inodes that callers have been given
    unflushed   \* calls since the last flush

allocVars == <<fs, onDisk, taken, unflushed>>

-----------------------------------------------------------------------------
Uninit(f, map, g) == g \in f.uninit[map]

Cleared(f, map, g) == [f EXCEPT !.uninit[map] = @ \ {g}]

Dirtied(f, what) == [f EXCEPT !.dirty = @ \cup what]

ext2fs_clear_block_uninit(f, g) ==
    IF Uninit(f, "block", g) THEN Dirtied(Cleared(f, "block", g), {"super", "block"}) ELSE f

\* The block bitmap is not marked dirty although the group's becomes defined.
check_inode_uninit(f, g) ==
    IF Uninit(f, "inode", g)
    THEN Dirtied([Cleared(Cleared(f, "inode", g), "block", g) EXCEPT !.inodes = @ \ InodesOf(g)],
                 {"super", "inode"})
    ELSE f

\* find_first_zero and find_first_set: {} or one number.
First(S) == IF S = {} THEN {} ELSE {Min(S)}

-----------------------------------------------------------------------------
(* ext2fs_new_inode.  The search goes through the groups from that of the   *)
(* parent directory on and round; "upto" is the first inode of the group    *)
(* behind the one that is searched.                                         *)

InodeSearch(f, start) ==
    LET last == Max(AInodes)
        after(i) == i + (InodesPerGroup - ((i - 1) % InodesPerGroup))
        upto(i) == Min({IF i < start /\ after(i) >= start THEN start - 1 ELSE after(i), last})
        next(i) == IF upto(i) + 1 > last THEN FirstInode ELSE upto(i) + 1
        look[i \in AInodes, g \in SUBSET DGroups, fuel \in 0 .. GroupCount + 2] ==
            LET seen == g \cup {GroupOfInode(i)}
                free == (i .. upto(i)) \ f.inodes
            IN  IF free # {} THEN [ino |-> First(free), groups |-> seen, ends |-> TRUE]
                ELSE IF next(i) = start \/ fuel = 0
                THEN [ino |-> {}, groups |-> seen, ends |-> fuel > 0]
                ELSE look[next(i), seen, fuel - 1]
    IN  look[start, {}, GroupCount + 2]

StartInode(dir) == Max({GroupOfInode(dir) * InodesPerGroup + 1, FirstInode})

AfterSearch(f, groups) == FoldSet(LAMBDA g, h : check_inode_uninit(h, g), f, groups)

ext2fs_inode_alloc_stats2_UninitStays(f, ino, inuse) ==
    LET g == GroupOfInode(ino)
        firstUnused == InodesPerGroup - f.unused[g] + g * InodesPerGroup + 1
    IN  Dirtied([f EXCEPT
                    !.inodes = IF inuse > 0 THEN @ \cup {ino} ELSE @ \ {ino},
                    !.freeInodes[g] = @ - inuse,
                    !.allInodes = @ - inuse,
                    !.unused[g] = IF ino >= firstUnused THEN (g + 1) * InodesPerGroup - ino ELSE @],
                {"super", "inode"})

ext2fs_inode_alloc_stats2(f, ino, inuse) ==
    LET g == GroupOfInode(ino)
        firstUnused == InodesPerGroup - f.unused[g] + g * InodesPerGroup + 1
    IN  Dirtied([Cleared(f, "inode", g) EXCEPT
                    !.inodes = IF inuse > 0 THEN @ \cup {ino} ELSE @ \ {ino},
                    !.freeInodes[g] = @ - inuse,
                    !.allInodes = @ - inuse,
                    !.unused[g] = IF ino >= firstUnused THEN (g + 1) * InodesPerGroup - ino ELSE @],
                {"super", "inode"})

-----------------------------------------------------------------------------
(* ext2fs_new_block3, ext2fs_new_range *)

BlockSearch(f, goal) ==
    LET up == First({b \in ABlocks \ f.blocks : b >= goal})
    IN  IF up = {} /\ goal # 0 THEN First({b \in ABlocks \ f.blocks : b < goal}) ELSE up

ext2fs_block_alloc_stats2(f, b, inuse) ==
    LET g == GroupOfBlock(b)
    IN  Dirtied([Cleared(f, "block", g) EXCEPT
                    !.blocks = IF inuse > 0 THEN @ \cup {b} ELSE @ \ {b},
                    !.freeBlocks[g] = @ - inuse, !.allBlocks = @ - inuse],
                {"super", "block"})

\* The range found, or none; "ends" is FALSE when the loop does not end.  atLeast
\* is EXT2_NEWRANGE_MIN_LENGTH and fixed EXT2_NEWRANGE_FIXED_GOAL.
RangeSearch(f, goal, len, atLeast, fixed) ==
    LET count == Cardinality(ABlocks)
        fail == [from |-> 0, to |-> 0, ends |-> TRUE]
        look[start \in 0 .. count, looped \in BOOLEAN, fuel \in 0 .. 2 * count + 2] ==
            LET zero == First({b \in ABlocks \ f.blocks : b >= start})
                s == Min(zero)
                b == Min({s + len - 1, count - 1})
                set == First(f.blocks \cap (s .. b))
                end == IF set = {} THEN b + 1 ELSE Min(set)
            IN  IF fuel = 0 THEN [fail EXCEPT !.ends = FALSE]
                ELSE IF looped /\ start > goal THEN fail
                ELSE IF zero = {} THEN IF fixed \/ start = 0 THEN fail ELSE look[0, looped, fuel - 1]
                ELSE IF fixed /\ s # goal THEN fail
                ELSE IF ~atLeast \/ end - s >= len THEN [from |-> s, to |-> end, ends |-> TRUE]
                ELSE IF fixed THEN fail
                ELSE IF end >= count THEN IF looped THEN fail ELSE look[0, TRUE, fuel - 1]
                ELSE look[end, looped, fuel - 1]
    IN  look[goal, FALSE, 2 * count + 2]

\* The flags are cleared for the groups of every BlocksPerGroup-th block.
RangeCleared(f, r) ==
    LET hit == {GroupOfBlock(b) : b \in {c \in r.from .. r.to - 1 : (c - r.from) % BlocksPerGroup = 0}}
    IN  FoldSet(LAMBDA g, h : ext2fs_clear_block_uninit(h, g), f, hit)

ext2fs_block_alloc_stats_range(f, from, to) ==
    LET mine(g) == Cardinality(BlocksOf(g) \cap (from .. to - 1))
        hit == {g \in DGroups : mine(g) > 0}
    IN  Dirtied([f EXCEPT !.blocks = @ \cup (from .. to - 1),
                          !.freeBlocks = [g \in DGroups |-> @[g] - mine(g)],
                          !.uninit["block"] = @ \ hit,
                          !.allBlocks = @ - (to - from)],
                {"super", "block"})

-----------------------------------------------------------------------------
(* Reading and writing.                                                     *)

\* What read_bitmaps makes of the disk.
ReadBitmaps(d) ==
    [blocks |-> UNION {IF Uninit(d, "block", g) THEN GroupMeta[g] ELSE d.bb[g] : g \in DGroups},
     inodes |-> UNION {IF Uninit(d, "inode", g) THEN {} ELSE d.ib[g] : g \in DGroups}]

\* Group by group the block bitmap and then the inode bitmap, unless uninit; only
\* the first "upTo" of them when a write fails.
write_bitmaps(f, d, upTo) ==
    [d EXCEPT !.bb = [g \in DGroups |-> IF "block" \in f.dirty /\ ~Uninit(f, "block", g) /\ 2 * g < upTo
                                        THEN f.blocks \cap BlocksOf(g) ELSE d.bb[g]],
              !.ib = [g \in DGroups |-> IF "inode" \in f.dirty /\ ~Uninit(f, "inode", g) /\ 2 * g + 1 < upTo
                                        THEN f.inodes \cap InodesOf(g) ELSE d.ib[g]]]

\* The superblock and the descriptors.
WriteDescriptors(f, d) ==
    [d EXCEPT !.uninit = f.uninit, !.unused = f.unused, !.freeBlocks = f.freeBlocks,
              !.freeInodes = f.freeInodes, !.allBlocks = f.allBlocks, !.allInodes = f.allInodes]

Open(d) ==
    [blocks |-> ReadBitmaps(d).blocks, inodes |-> ReadBitmaps(d).inodes, dirty |-> {},
     uninit |-> d.uninit, unused |-> d.unused, freeBlocks |-> d.freeBlocks,
     freeInodes |-> d.freeInodes, allBlocks |-> d.allBlocks, allInodes |-> d.allInodes]

-----------------------------------------------------------------------------
\* As mke2fs leaves it: only the first group's bitmaps are written, and the
\* others are whatever was there before.
FreshDisk(old) ==
    LET used == [g \in DGroups |-> IF g = 0 THEN FirstInode - 1 ELSE 0]
    IN  [bb |-> [g \in DGroups |-> IF g = 0 THEN GroupMeta[0] ELSE old \cap BlocksOf(g)],
         ib |-> [g \in DGroups |-> IF g = 0 THEN 1 .. FirstInode - 1 ELSE {}],
         uninit |-> [map \in {"block", "inode"} |-> DGroups \ {0}],
         unused |-> [g \in DGroups |-> InodesPerGroup - used[g]],
         freeBlocks |-> [g \in DGroups |-> BlocksPerGroup - Cardinality(GroupMeta[g])],
         freeInodes |-> [g \in DGroups |-> InodesPerGroup - used[g]],
         allBlocks |-> Cardinality(ABlocks \ UNION {GroupMeta[g] : g \in DGroups}),
         allInodes |-> Cardinality(AInodes) - used[0]]

Nothing == [blocks |-> {}, inodes |-> {}]

AllocInit ==
    /\ onDisk = FreshDisk(ABlocks)
    /\ fs = Open(onDisk)
    /\ taken = Nothing
    /\ unflushed = 0

Call == unflushed < MaxUnflushed /\ unflushed' = unflushed + 1

\* ext2fs_alloc_block3: the block is zeroed between the search and the
\* accounting; when that fails the flag of the group has been cleared.
AllocBlock(goal) ==
    \E b \in BlockSearch(fs, goal), zeroed \in BOOLEAN :
        LET f == ext2fs_clear_block_uninit(fs, GroupOfBlock(b))
        IN  /\ fs' = IF zeroed THEN ext2fs_block_alloc_stats2(f, b, 1) ELSE f
            /\ taken' = IF zeroed THEN [taken EXCEPT !.blocks = @ \cup {b}] ELSE taken
            /\ UNCHANGED onDisk

\* ext2fs_alloc_range, which asks for at least the length and may fail to zero
\* the blocks, and the callers of ext2fs_new_range that take what there is.
AllocRange(goal, len, atLeast, fixed) ==
    LET r == RangeSearch(fs, goal, len, atLeast, fixed)
        f == RangeCleared(fs, r)
    IN  /\ r.to > r.from
        /\ \/ /\ fs' = ext2fs_block_alloc_stats_range(f, r.from, r.to)
              /\ taken' = [taken EXCEPT !.blocks = @ \cup (r.from .. r.to - 1)]
           \/ atLeast /\ fs' = f /\ UNCHANGED taken
        /\ UNCHANGED onDisk

FreeBlock(b) ==
    /\ b \in taken.blocks
    /\ fs' = ext2fs_block_alloc_stats2(fs, b, -1)
    /\ taken' = [taken EXCEPT !.blocks = @ \ {b}]
    /\ UNCHANGED onDisk

\* A caller may fail, and give up the inode, before it counts it as in use.
NewInode(dir) ==
    LET r == InodeSearch(fs, StartInode(dir))
        f == AfterSearch(fs, r.groups)
    IN  /\ dir \in fs.inodes
        /\ \E kept \in BOOLEAN :
            IF kept /\ r.ino # {}
            THEN \E i \in r.ino :
                    fs' = ext2fs_inode_alloc_stats2(f, i, 1)
                    /\ taken' = [taken EXCEPT !.inodes = @ \cup {i}]
            ELSE fs' = f /\ UNCHANGED taken
        /\ UNCHANGED onDisk

FreeInode(i) ==
    /\ i \in taken.inodes
    /\ fs' = ext2fs_inode_alloc_stats2(fs, i, -1)
    /\ taken' = [taken EXCEPT !.inodes = @ \ {i}]
    /\ UNCHANGED onDisk

\* ext2fs_flush2; the write of a bitmap, or of what follows, may fail.
Flush ==
    /\ fs.dirty # {}
    /\ \E upTo \in 0 .. 2 * GroupCount, rest \in BOOLEAN :
        LET d == write_bitmaps(fs, onDisk, upTo)
            written == upTo = 2 * GroupCount
        IN  /\ rest => written
            /\ onDisk' = IF rest THEN WriteDescriptors(fs, d) ELSE d
            /\ fs' = IF rest THEN [fs EXCEPT !.dirty = {}]
                     ELSE IF written THEN [fs EXCEPT !.dirty = {"super"}] ELSE fs
            /\ unflushed' = IF rest THEN 0 ELSE unflushed
            /\ UNCHANGED taken

\* The file system is closed after a successful flush, and opened again.
Reopen ==
    /\ fs.dirty = {}
    /\ fs' = Open(onDisk)
    /\ UNCHANGED <<onDisk, taken, unflushed>>

AllocNext ==
    \/ /\ Call
       /\ \/ \E goal \in ABlocks : AllocBlock(goal)
          \/ \E goal \in ABlocks, atLeast, fixed \in BOOLEAN :
                AllocRange(goal, BlocksPerGroup, atLeast, fixed)
          \/ \E b \in ABlocks : FreeBlock(b)
          \/ \E i \in AInodes : NewInode(i) \/ FreeInode(i)
    \/ Flush \/ Reopen

-----------------------------------------------------------------------------
\* Everything that callers hold is marked, and nothing but metadata and the
\* reserved inodes besides, whatever was flushed, failed and was opened again:
\* no bitmap of a group that became defined was left unwritten.
HeldIsMarked ==
    /\ fs.blocks = taken.blocks \cup UNION {GroupMeta[g] : g \in DGroups}
    /\ fs.inodes = taken.inodes \cup 1 .. FirstInode - 1
    /\ fs.dirty = {} => ReadBitmaps(onDisk) = [blocks |-> fs.blocks, inodes |-> fs.inodes]

\* The counters of the groups and the superblock agree with the bitmaps, in
\* memory and, after a flush, on the disk; the inodes the descriptor says were
\* never used are not in use.
CountersAgree ==
    LET agree(c) ==
        /\ \A g \in DGroups :
            /\ c.freeBlocks[g] = Cardinality(BlocksOf(g) \ fs.blocks)
            /\ c.freeInodes[g] = Cardinality(InodesOf(g) \ fs.inodes)
            /\ c.unused[g] >= 0
            /\ \A i \in fs.inodes \cap InodesOf(g) : i <= (g + 1) * InodesPerGroup - c.unused[g]
        /\ c.allBlocks = Cardinality(ABlocks \ fs.blocks)
        /\ c.allInodes = Cardinality(AInodes \ fs.inodes)
    IN  agree(fs) /\ (fs.dirty = {} => agree(onDisk))

\* A search fails only when there is nothing to be found: an inode from any
\* parent, a block or a range of whatever length from any goal, a range at the
\* goal itself when that is asked for, a range of at least two blocks unless the
\* last block is in use, when the loop of ext2fs_new_range need not end.  (Asked after every call that may have
\* changed the bitmaps; a flush does not.)
SearchesAreComplete == unflushed > 0 =>
    /\ \A dir \in fs.inodes :
        LET r == InodeSearch(fs, StartInode(dir))
        IN  r.ends /\ (r.ino = {} => \A i \in AInodes : i >= FirstInode => i \in fs.inodes)
    /\ \A goal \in ABlocks :
        /\ BlockSearch(fs, goal) = {} => fs.blocks = ABlocks
        /\ LET r == RangeSearch(fs, goal, 2, FALSE, TRUE)
           IN  r.ends /\ (r.to > r.from <=> goal \notin fs.blocks)
        /\ LET r == RangeSearch(fs, goal, 2, FALSE, FALSE)
           IN  r.ends /\ (r.to = r.from => fs.blocks = ABlocks)
        /\ Max(ABlocks) \notin fs.blocks =>
            LET r == RangeSearch(fs, goal, 2, TRUE, FALSE)
            IN  r.ends /\ (r.to = r.from => \A b \in ABlocks : {b, b + 1} \cap fs.blocks # {} \/ b + 1 \notin ABlocks)

\* Bitmaps, counters and searches agree with what callers hold, across flushes
\* that fail half way and opening again.
AllocatorCorrect == HeldIsMarked /\ CountersAgree /\ SearchesAreComplete
=============================================================================
