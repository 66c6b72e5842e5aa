------------------------------- MODULE Resize -------------------------------
(* Shrinking an unmounted file system with resize2fs: the blocks and inodes
   beyond the new end get new places, the blocks are copied, the inodes and
   then the names follow them, and the superblock with the new size is written
   last (resize/resize2fs.c, resize/extent.c, lib/ext2fs/closefs.c).

   A file has one block and the only directory is the root, inode 1.  `disk' is
   what a crash leaves; `cached' is what the program reads.  What it has
   written may reach the device at any time until the next flush. *)
EXTENDS Naturals, Sequences, FiniteSets, SequencesExt, FiniteSetsExt

CONSTANTS
    Files,          \* the names a user may have given
    OldSize,        \* blocks of the file system as it was
    NewSizes,       \* sizes it may be reduced to
    GroupSize,      \* blocks of a group
    GroupInodes,    \* inodes of a group
    FirstIno,       \* EXT2_FIRST_INODE
    TableLoc,       \* block of the inode table of a group
    OtherMeta,      \* blocks of superblocks, descriptors and bitmaps
    RootPlaces,     \* blocks the root directory may have
    CopyMost        \* inode_blocks_per_group: blocks copied at once

VARIABLES rfs, disk, cached
resizeVars == <<rfs, disk, cached>>

Groups(size) == 0 .. (size - 1) \div GroupSize
OldInodes == 1 .. Cardinality(Groups(OldSize)) * GroupInodes
GroupOfIno(i) == (i - 1) \div GroupInodes
Tables(size) == {TableLoc[g] : g \in Groups(size)}
Blocks == 0 .. OldSize - 1

ASSUME ResizeAssumption ==
    /\ \A n \in NewSizes : n \in 1 .. OldSize - 1
    /\ \A n \in NewSizes : \A g \in Groups(n) : TableLoc[g] < n

\* Contents of a block
Data(f) == [of |-> f, names |-> <<>>]
Directory(names) == [of |-> "names", names |-> names]
Table == [of |-> "inodes", names |-> <<>>]
Untouched == [of |-> "untouched", names |-> <<>>]

\* A sound file system in which file f has inode ino[f] and block at[f] and the
\* root directory block root.
Image(ino, at, root) ==
    [sb |-> [flagged |-> FALSE, size |-> OldSize],
     block |-> [b \in Blocks |->
                   IF b \in Tables(OldSize) THEN Table
                   ELSE IF b = root THEN Directory(ino)
                   ELSE IF \E f \in DOMAIN at : at[f] = b
                        THEN Data(CHOOSE f \in DOMAIN at : at[f] = b)
                        ELSE Untouched],
     inode |-> [i \in OldInodes |->
                   IF i = 1 THEN root
                   ELSE IF \E f \in DOMAIN ino : ino[f] = i
                        THEN at[CHOOSE f \in DOMAIN ino : ino[f] = i] ELSE 0],
     block_map |-> OtherMeta \cup Tables(OldSize) \cup {root} \cup {at[f] : f \in DOMAIN at},
     inode_map |-> (1 .. FirstIno - 1) \cup {ino[f] : f \in DOMAIN ino}]

Rfs0(size) ==
    [phase |-> "start", size |-> size, block_map |-> {}, inode_map |-> {}, reserve |-> {},
     bmap |-> <<>>, imap |-> <<>>, entry |-> 1, done |-> 0, ino |-> 0, at |-> 0,
     moves |-> <<>>]

ResizeInit ==
    /\ \E size \in NewSizes, root \in RootPlaces, F \in SUBSET Files :
          LET free == Blocks \ (OtherMeta \cup Tables(OldSize) \cup {root}) IN
          \E ino \in [F -> OldInodes \ (1 .. FirstIno - 1)], at \in [F -> free] :
             /\ \A f, g \in F : f # g => ino[f] # ino[g] /\ at[f] # at[g]
             /\ rfs = Rfs0(size)
             /\ disk = Image(ino, at, root)
    /\ cached = disk

-----------------------------------------------------------------------------
(* The device *)

\* io_channel_flush, and what follows it
FlushThen(next) ==
    /\ rfs' = next
    /\ disk' = cached
    /\ UNCHANGED cached

\* The channel writes one of its blocks before it has to.
Evict ==
    /\ \/ \E b \in Blocks : disk' = [disk EXCEPT !.block[b] = cached.block[b]]
       \/ \E g \in Groups(OldSize) :
             disk' = [disk EXCEPT !.inode =
                         [i \in OldInodes |-> IF GroupOfIno(i) = g THEN cached.inode[i] ELSE @[i]]]
       \/ \E field \in {"sb", "block_map", "inode_map"} :
             disk' = [disk EXCEPT ![field] = cached[field]]
    /\ disk' # disk
    /\ UNCHANGED <<rfs, cached>>

-----------------------------------------------------------------------------
(* The translation table: entries in ascending order of the old place *)

\* Fault: an entry grows although the new places are not adjacent.
ext2fs_add_extent_entry(table, old, new) ==
    IF /\ table # <<>>
       /\ Last(table).old + Last(table).size = old
       /\ Last(table).new + Last(table).size = new
    THEN [table EXCEPT ![Len(table)].size = @ + 1]
    ELSE Append(table, [old |-> old, new |-> new, size |-> 1])

\* The entry looked at next between entries low and high, by interpolation that
\* is kept between a tenth and nine tenths of the range
Middle(table, old, low, high) ==
    LET first == table[low].old
        last == table[high].old
        range == high - low
    IN IF low = high \/ old < first THEN low
       ELSE IF old > last THEN high
       ELSE IF 10 * (old - first) > 9 * (last - first) THEN low + (9 * range) \div 10
       ELSE IF 10 * (old - first) < last - first THEN low + range \div 10
       ELSE low + ((old - first) * range) \div (last - first)

\* The new place of old, or 0
ext2fs_extent_translate(table, old) ==
    LET search[low \in 1 .. Len(table) + 1, high \in 0 .. Len(table)] ==
            IF low > high THEN 0
            ELSE LET mid == Middle(table, old, low, high)
                     ent == table[mid]
                 IN IF old >= ent.old /\ old < ent.old + ent.size THEN ent.new + (old - ent.old)
                    ELSE IF old < ent.old THEN search[low, mid - 1]
                    ELSE search[mid + 1, high]
    IN search[1, Len(table)]

-----------------------------------------------------------------------------
(* The phases *)

\* resize_fs marks the file system as in error before it does anything.
MarkInError ==
    /\ rfs.phase = "start"
    /\ cached' = [cached EXCEPT !.sb.flagged = TRUE]
    /\ rfs' = [rfs EXCEPT !.phase = "marked"]
    /\ UNCHANGED disk

FlushMark == rfs.phase = "marked" /\ FlushThen([rfs EXCEPT !.phase = "adjust"])

\* On an error the program closes the file system, which writes what is pending.
Fail == FlushThen([rfs EXCEPT !.phase = "failed"])

\* The maps of the smaller file system.  Tables of the groups that go away are
\* free in it, but reserved while their inodes may still be needed.
adjust_superblock ==
    LET inodes == 1 .. Cardinality(Groups(rfs.size)) * GroupInodes
        gone == {b \in Tables(OldSize) \ Tables(rfs.size) : b < rfs.size}
    IN /\ rfs.phase = "adjust"
       /\ IF Cardinality(cached.inode_map) > Cardinality(inodes) THEN Fail
          ELSE /\ rfs' = [rfs EXCEPT !.phase = "plan",
                             !.block_map = {b \in cached.block_map \ gone : b < rfs.size},
                             !.inode_map = cached.inode_map \cap inodes,
                             !.reserve = gone]
               /\ UNCHANGED <<disk, cached>>

\* The blocks that have no place in the smaller file system
blocks_to_move ==
    {b \in cached.block_map \ (OtherMeta \cup Tables(OldSize)) : b >= rfs.size}

\* The first free block that the old file system did not use either, and when
\* there is none any free block; 0 when there is none at all.  The search goes
\* on from the block it found last, in front of which nothing became free.
get_new_block(map) ==
    LET fresh == {b \in 1 .. rfs.size - 1 : b \notin map \cup rfs.reserve \cup cached.block_map}
        any == {b \in 1 .. rfs.size - 1 : b \notin map \cup rfs.reserve}
    IN IF fresh # {} THEN Min(fresh) ELSE IF any # {} THEN Min(any) ELSE 0

\* The first half of block_mover decides where every block goes.
Plan ==
    LET Place(acc, b) ==
            LET new == get_new_block(acc.map)
            IN IF new = 0 \/ ~acc.ok THEN [acc EXCEPT !.ok = FALSE]
               ELSE [ok |-> TRUE, map |-> acc.map \cup {new},
                     bmap |-> ext2fs_add_extent_entry(acc.bmap, b, new),
                     moves |-> Append(acc.moves, <<b, new>>)]
        plan == FoldLeft(Place, [ok |-> TRUE, map |-> rfs.block_map, bmap |-> <<>>, moves |-> <<>>],
                         SetToSortSeq(blocks_to_move, <))
    IN /\ rfs.phase = "plan"
       /\ IF ~plan.ok THEN Fail
          ELSE /\ rfs' = [rfs EXCEPT !.phase = "copy", !.block_map = plan.map,
                             !.bmap = plan.bmap, !.moves = plan.moves]
               /\ UNCHANGED <<disk, cached>>

\* The second half copies, an entry of the table at a time.
CopyBlocks ==
    LET ent == rfs.bmap[rfs.entry]
        c == Min({CopyMost, ent.size - rfs.done})
        first == rfs.done
    IN /\ rfs.phase = "copy"
       /\ rfs.entry <= Len(rfs.bmap)
       /\ cached' = [cached EXCEPT !.block =
             [b \in Blocks |->
                 IF b \in ent.new + first .. ent.new + first + c - 1
                 THEN cached.block[ent.old + (b - ent.new)] ELSE @[b]]]
       /\ rfs' = [rfs EXCEPT !.done = first + c,
                             !.phase = IF first + c = ent.size THEN "copied" ELSE "copy"]
       /\ UNCHANGED disk

\* Fault: the copies are not flushed.
FlushCopied_NotFlushed ==
    /\ rfs.phase = "copied"
    /\ rfs' = [rfs EXCEPT !.phase = "copy", !.entry = @ + 1, !.done = 0]
    /\ UNCHANGED <<disk, cached>>

FlushCopied ==
    /\ rfs.phase = "copied"
    /\ FlushThen([rfs EXCEPT !.phase = "copy", !.entry = @ + 1, !.done = 0])

\* With as many groups as before and nothing moved, the inodes are left alone.
CopiesEnd ==
    /\ rfs.phase = "copy"
    /\ rfs.entry > Len(rfs.bmap)
    /\ rfs' = [rfs EXCEPT !.phase =
                  IF rfs.bmap = <<>> /\ Groups(rfs.size) = Groups(OldSize) THEN "close" ELSE "scan"]
    /\ UNCHANGED <<disk, cached>>

\* The inodes in use that the scan has still to come to
ToScan == {i \in OldInodes : i > rfs.ino /\ cached.inode[i] # 0}

\* The last inode of the smaller file system
StartToMove == Cardinality(Groups(rfs.size)) * GroupInodes

\* inode_scan_and_fix takes the next inode that is in use.  One beyond the new
\* end is first written in its new place, still with its old block.
ScanInode ==
    LET ino == Min(ToScan)
        free == {i \in FirstIno .. StartToMove : i \notin rfs.inode_map}
    IN /\ rfs.phase = "scan"
       /\ ToScan # {}
       /\ CASE ino <= StartToMove ->
                 rfs' = [rfs EXCEPT !.phase = "remap", !.ino = ino, !.at = ino] /\ UNCHANGED <<disk, cached>>
            [] ino > StartToMove /\ free = {} -> Fail
            [] OTHER ->
                 /\ cached' = [cached EXCEPT !.inode[Min(free)] = cached.inode[ino]]
                 /\ rfs' = [rfs EXCEPT !.phase = "remap", !.ino = ino, !.at = Min(free),
                               !.inode_map = @ \cup {Min(free)},
                               !.imap = ext2fs_add_extent_entry(@, ino, Min(free))]
                 /\ UNCHANGED disk

\* process_block for the only block of the inode; the scan goes on with the next.
process_block ==
    LET new == ext2fs_extent_translate(rfs.bmap, cached.inode[rfs.at])
    IN /\ rfs.phase = "remap"
       /\ cached' = IF new # 0 THEN [cached EXCEPT !.inode[rfs.at] = new] ELSE cached
       /\ rfs' = [rfs EXCEPT !.phase = "scan"]
       /\ UNCHANGED disk

\* The inodes are flushed before a name leads to them.
FlushInodes ==
    /\ rfs.phase = "scan"
    /\ ToScan = {}
    /\ FlushThen([rfs EXCEPT !.phase = "refs", !.bmap = <<>>])

\* inode_ref_fix: the names in every directory block of the list
inode_ref_fix ==
    LET root == cached.inode[1]
        Renumbered(ino) ==
            LET new == ext2fs_extent_translate(rfs.imap, ino) IN IF new # 0 THEN new ELSE ino
    IN /\ rfs.phase = "refs"
       /\ cached' = IF rfs.imap = <<>> THEN cached
                    ELSE [cached EXCEPT !.block[root].names =
                             [f \in DOMAIN @ |-> Renumbered(@[f])]]
       /\ rfs' = [rfs EXCEPT !.phase = "close", !.imap = <<>>]
       /\ UNCHANGED disk

\* ext2fs_flush2 writes the maps and the descriptors of the new file system ...
WriteBitmaps ==
    /\ rfs.phase = "close"
    /\ cached' = [cached EXCEPT !.block_map = rfs.block_map, !.inode_map = rfs.inode_map]
    /\ rfs' = [rfs EXCEPT !.phase = "rest"]
    /\ UNCHANGED disk

\* Fault: the primary superblock does not wait for the rest.
\* ... flushes ...
FlushRest == rfs.phase = "rest" /\ FlushThen([rfs EXCEPT !.phase = "super"])

\* ... and only then writes the primary superblock.
WriteSuper ==
    /\ rfs.phase = "super"
    /\ cached' = [cached EXCEPT !.sb = [flagged |-> FALSE, size |-> rfs.size]]
    /\ rfs' = [rfs EXCEPT !.phase = "written"]
    /\ UNCHANGED disk

FlushSuper == rfs.phase = "written" /\ FlushThen([rfs EXCEPT !.phase = "done"])

ResizeNext ==
    \/ Evict \/ MarkInError \/ FlushMark \/ adjust_superblock \/ Plan \/ CopyBlocks
    \/ FlushCopied \/ CopiesEnd \/ ScanInode \/ process_block \/ FlushInodes
    \/ inode_ref_fix \/ WriteBitmaps \/ FlushRest \/ WriteSuper \/ FlushSuper

-----------------------------------------------------------------------------
\* The names of the root directory of an image
NamesIn(d) == d.block[d.inode[1]].names

\* Whatever a crash or an abort leaves on the device at any moment, every name
\* leads to its file: through an inode of a group the superblock knows, whose
\* table nothing has been copied over, to a block with the file's contents.
\* (block_mover, inode_scan_and_fix and inode_ref_fix flush between them; the
\* comment above blocks_to_move says that "we can abort without any problems".)
DataReachable ==
    /\ disk.inode[1] < disk.sb.size
    /\ disk.block[disk.inode[1]].of = "names"
    /\ \A f \in DOMAIN NamesIn(disk) :
          LET ino == NamesIn(disk)[f]
              blk == disk.inode[ino]
          IN /\ GroupOfIno(ino) \in Groups(disk.sb.size)
             /\ disk.block[TableLoc[GroupOfIno(ino)]] = Table
             /\ blk < disk.sb.size
             /\ disk.block[blk] = Data(f)

\* A superblock without the error flag stands on the device only while nothing
\* has been changed or when everything has been: its maps then hold exactly what
\* the names and the metadata use.  (resize_fs sets and clears EXT2_ERROR_FS,
\* ext2fs_flush2 writes the primary superblock last.)
CleanMeansDone ==
    ~disk.sb.flagged =>
        /\ disk.inode_map = (1 .. FirstIno - 1) \cup {NamesIn(disk)[f] : f \in DOMAIN NamesIn(disk)}
        /\ disk.block_map = {b \in OtherMeta : b < disk.sb.size} \cup Tables(disk.sb.size)
                              \cup {disk.inode[i] : i \in disk.inode_map \ (2 .. FirstIno - 1)}

\* While the table of moved blocks is in use, looking a block up gives the place
\* chosen for it, and 0 for a block that stays.  (ext2fs_add_extent_entry joins
\* neighbours, ext2fs_extent_translate searches by interpolation.)
TranslateExact ==
    rfs.bmap # <<>> =>
        \A b \in Blocks :
            LET planned == {m \in Range(rfs.moves) : m[1] = b}
            IN ext2fs_extent_translate(rfs.bmap, b) =
                  IF planned = {} THEN 0 ELSE (CHOOSE m \in planned : TRUE)[2]

ResizeSpec == ResizeInit /\ [][ResizeNext]_resizeVars

\* A shrinking file system keeps its files and says when it is not consistent.
ResizeSafe == DataReachable /\ CleanMeansDone /\ TranslateExact
=============================================================================
