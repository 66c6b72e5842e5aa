------------------------------ MODULE InodeScan -----------------------------
(***************************************************************************)
(* The scan over all inodes (lib/ext2fs/inode.c) with the flags of e2fsck  *)
(* pass 1: inode tables are read some blocks at a time, around blocks that *)
(* the bad block list names; groups without inodes in use, or without a    *)
(* table, are skipped; blocks of which most inodes make no sense are       *)
(* reported as garbage, and blocks whose checksums were all found right    *)
(* are not looked at again.  Blocks may fail to be read, and a caller that  *)
(* has got an error may call again.                                        *)
(***************************************************************************)
EXTENDS Integers, Sequences, FiniteSets

CONSTANTS
    ScanGroups,         \* group_desc_count
    TableBlocks,        \* inode_blocks_per_group
    ScanPerBlock,       \* EXT2_INODES_PER_BLOCK
    BufferBlocks,       \* inode_buffer_blocks
    TableAt,            \* group -> first block of its inode table
    ScanImages          \* [bad: the bad block list; badSum, insane: inodes;
                        \*  uninit, missing: groups; outside: groups whose table
                        \*  lies outside the device; unused: group -> inodes]

ASSUME InodeScanAssumption ==
    /\ ScanGroups \in Nat \ {0} /\ TableBlocks \in Nat \ {0}
    /\ ScanPerBlock \in Nat \ {0, 1} /\ BufferBlocks \in Nat \ {0}
    /\ \A image \in ScanImages :
          \A i, j \in DOMAIN image.bad : i < j => image.bad[i] < image.bad[j]

VARIABLES
    image,      \* the file system that is scanned
    scan,       \* struct ext2_struct_inode_scan
    got,        \* what the last call returned
    met         \* history, since the scan was opened or last sent to a group:
                \* [from: that group; inodes: those returned; groups: done_group;
                \*  unchecked: the bad block list had been used up before]

scanVars == <<image, scan, got, met>>

ScanPerGroup == TableBlocks * ScanPerBlock
LeastOf(S) == CHOOSE x \in S : \A y \in S : x <= y
AtMost(a, b) == IF a < b THEN a ELSE b

InodesLeft(g) ==
    IF ScanPerGroup > image.unused[g] THEN ScanPerGroup - image.unused[g] ELSE 0
BlocksLeft(g) == (InodesLeft(g) + ScanPerBlock - 1) \div ScanPerBlock

\* The inode that position k, from 0, of block blk holds; 0 if the block is not
\* in a table.
InodeIn(blk, k) ==
    LET g == {x \in 0 .. ScanGroups - 1 : TableAt[x] <= blk /\ blk < TableAt[x] + TableBlocks}
    IN  IF g = {} THEN 0
        ELSE LeastOf(g) * ScanPerGroup + (blk - TableAt[LeastOf(g)]) * ScanPerBlock + k + 1

OutOfDevice == 2^20     \* a block behind the end of the device

\* The scan at the beginning of group g
AtGroup(s, g) ==
    [s EXCEPT !.group = g, !.ino = g * ScanPerGroup, !.ptr = <<>>, !.left = InodesLeft(g),
              !.blocksLeft = BlocksLeft(g),
              !.block = CASE g \in image.missing -> 0
                          [] g \in image.outside -> OutOfDevice
                          [] OTHER -> TableAt[g]]

\* What a call returns that returns no inode
Nothing(err) == [ino |-> 0, held |-> 0, err |-> err]
NothingMet == Nothing("none")

-----------------------------------------------------------------------------
(* get_next_blocks                                                         *)

\* The scan after a look at the bad block list, and how many of num blocks are
\* to be read.
check_for_inode_bad_blocks(s, num) ==
    LET list == image.bad
        ahead == {i \in DOMAIN list : i >= s.badPtr /\ list[i] >= s.block}
        p == LeastOf(ahead)
    IN  IF ahead = {} THEN [s |-> [s EXCEPT !.chk = FALSE, !.badPtr = Len(list) + 1], num |-> num]
        ELSE IF list[p] = s.block
        THEN [s |-> [s EXCEPT !.badBlk = TRUE, !.badPtr = p + 1, !.chk = p < Len(list)], num |-> 1]
        ELSE [s |-> [s EXCEPT !.badPtr = p],
              num |-> AtMost(num, list[p] - s.block)]

\* Are more than half of the inodes of block b of the buffer senseless, and if
\* not, are all of the block's checksums right?
Status(s, b) ==
    LET first == b * ScanPerBlock
        looked == {k \in first + 1 .. first + ScanPerBlock : k <= Len(s.ptr) /\ k <= s.left}
        bad == {k \in looked : s.ptr[k] \in image.badSum}
        odd == {k \in looked : s.ptr[k] \in image.badSum \cup image.insane}
    IN  IF Cardinality(odd) > ScanPerBlock \div 2 THEN "insane"
        ELSE IF Cardinality(looked) = ScanPerBlock /\ bad = {} THEN "sums ok"
        ELSE "unknown"

check_inode_block_sanity(s) ==
    [s EXCEPT !.status = [b \in 0 .. BufferBlocks - 1 |-> Status(s, b)]]

\* The scan before a read, and the number of blocks that are to be read
BeforeRead(s) ==
    LET most == AtMost(BufferBlocks, s.blocksLeft)
        t == [s EXCEPT !.badBlk = FALSE]
    IN  IF s.chk THEN check_for_inode_bad_blocks(t, most) ELSE [s |-> t, num |-> most]

\* What num blocks from the current one hold.  A bad block is not read: its
\* inodes are all zeroes, 0 here.
Contents(s, num) ==
    [k \in 1 .. num * ScanPerBlock |->
        IF s.badBlk THEN 0
        ELSE InodeIn(s.block + (k - 1) \div ScanPerBlock, (k - 1) % ScanPerBlock)]

get_next_blocks_TooFar(s, num) ==
    [check_inode_block_sanity([s EXCEPT !.ptr = Contents(s, num)])
        EXCEPT !.blocksLeft = @ - num, !.block = @ + AtMost(BufferBlocks, s.blocksLeft)]

get_next_blocks(s, num) ==
    [check_inode_block_sanity([s EXCEPT !.ptr = Contents(s, num)])
        EXCEPT !.blocksLeft = @ - num, !.block = @ + num]

-----------------------------------------------------------------------------
(* ext2fs_get_next_inode_full                                              *)

HasInodes(s) == s.left > 0 /\ s.group \notin image.uninit /\ s.block # 0

StatusOf(s) == s.status[((s.ino % ScanPerGroup) \div ScanPerBlock) % BufferBlocks]

\* The inode that the buffer holds next, and the error it is returned with
Result(s) ==
    LET held == Head(s.ptr)
        sum == IF StatusOf(s) # "sums ok" /\ held \in image.badSum THEN "bad checksum" ELSE "none"
    IN  [ino |-> s.ino + 1, held |-> held,
         err |-> IF s.badBlk THEN "bad block"
                 ELSE IF StatusOf(s) = "insane" THEN "garbage" ELSE sum]

\* The next inode of the group that s is at, and the history after it
Take(s, m) ==
    /\ got' = Result(s)
    /\ scan' = [s EXCEPT !.ptr = Tail(@), !.left = @ - 1, !.ino = @ + 1]
    /\ met' = [m EXCEPT !.inodes = Append(@, s.ino + 1)]

\* The buffer is empty and the next blocks are read, or cannot be: the scan then
\* stays where it is.
ReadAndTake(s, m) ==
    LET b == BeforeRead(s)
    IN  \/ /\ b.s.badBlk \/ b.s.block # OutOfDevice
           /\ Take(get_next_blocks(b.s, b.num), m)
        \/ /\ ~b.s.badBlk
           /\ got' = Nothing("not read") /\ scan' = b.s /\ met' = m

InGroup(s, m) == IF s.ptr = <<>> THEN ReadAndTake(s, m) ELSE Take(s, m)

\* done_group is called for the group that ends and for each that is skipped.
Skips(g) ==
    LET behind == {x \in g + 1 .. ScanGroups - 1 :
                      HasInodes(AtGroup(scan, x)) \/ x \in image.outside}
        to == IF behind = {} THEN ScanGroups ELSE LeastOf(behind)
    IN  [k \in 1 .. to - g |-> g + k - 1]

\* The scan comes to group g, which has inodes or whose table cannot be.
Enter(g, m) ==
    IF g \in image.outside
    THEN /\ got' = Nothing("bad table") /\ scan' = AtGroup(scan, g) /\ met' = m
    ELSE InGroup(AtGroup(scan, g), m)

ext2fs_get_next_inode ==
    /\ scan.open
    /\ IF HasInodes(scan) THEN InGroup(scan, met)
       ELSE LET done == Skips(scan.group)
                next == scan.group + Len(done)
                m == [met EXCEPT !.groups = @ \o done]
            IN  IF next < ScanGroups THEN Enter(next, m)
                ELSE got' = NothingMet /\ scan' = [scan EXCEPT !.open = FALSE] /\ met' = m
    /\ UNCHANGED image

ext2fs_open_inode_scan ==
    AtGroup([group |-> 0, ino |-> 0, ptr |-> <<>>, left |-> 0, blocksLeft |-> 0, block |-> 0,
             open |-> TRUE, chk |-> image.bad # <<>>, badBlk |-> FALSE, badPtr |-> 1,
             status |-> [b \in 0 .. BufferBlocks - 1 |-> "unknown"]], 0)

MetFrom(g, unchecked) ==
    [from |-> g, inodes |-> <<>>, groups |-> <<>>, unchecked |-> unchecked]

\* At any time.  The bad block list is begun again, but is not looked at again
\* once it has been used up (EXT2_SF_CHK_BADBLOCKS).
ext2fs_inode_scan_goto_blockgroup(g) ==
    /\ scan' = [AtGroup(scan, g) EXCEPT !.badPtr = 1, !.open = TRUE]
    /\ got' = Nothing(IF g \in image.outside THEN "bad table" ELSE "none")
    /\ met' = MetFrom(g, image.bad # <<>> /\ ~scan.chk)
    /\ UNCHANGED image

ScanInit ==
    /\ image \in ScanImages
    /\ scan = ext2fs_open_inode_scan
    /\ got = NothingMet
    /\ met = MetFrom(0, FALSE)

ScanNext ==
    \/ ext2fs_get_next_inode
    \/ \E g \in 0 .. ScanGroups - 1 : ext2fs_inode_scan_goto_blockgroup(g)

-----------------------------------------------------------------------------
\* The inodes that a scan from group `from` on has to return, in order
InUseFrom(from) ==
    {i \in 1 .. ScanGroups * ScanPerGroup :
        LET g == (i - 1) \div ScanPerGroup
        IN  /\ g >= from /\ g \notin image.uninit \cup image.missing \cup image.outside
            /\ (i - 1) % ScanPerGroup < InodesLeft(g)}

InBadBlock(i) ==
    LET g == (i - 1) \div ScanPerGroup
    IN  \E k \in DOMAIN image.bad : image.bad[k] = TableAt[g] + ((i - 1) % ScanPerGroup) \div ScanPerBlock

\* The inode is in a bad block, and the scan has not used the list up before it
\* was sent to where it began.
KnownBad(i) == InBadBlock(i) /\ ~met.unchecked

\* A scan returns the inodes of all groups from the one it was sent to, each once,
\* in order and with its own contents, whatever bad blocks, groups without inodes
\* and missing tables lie on the way, and after blocks that could not be read at
\* first; it returns no contents of a bad block, and says so.  Every group is
\* reported as done once, and no scan ends that met a table outside the device.
ScanMeetsAll ==
    /\ \A i, j \in DOMAIN met.inodes : i < j => met.inodes[i] < met.inodes[j]
    /\ got.ino # 0 => got.held = IF KnownBad(got.ino) THEN 0 ELSE got.ino
    /\ (got.err = "bad block") = (got.ino # 0 /\ KnownBad(got.ino))
    /\ ~scan.open => /\ {met.inodes[i] : i \in DOMAIN met.inodes} = InUseFrom(met.from)
                     /\ met.groups = [k \in 1 .. ScanGroups - met.from |-> met.from + k - 1]
                     /\ \A g \in met.from .. ScanGroups - 1 :
                           g \notin image.outside \/ g \in image.uninit \/ InodesLeft(g) = 0

\* No bad block lies before inode i in the table of its group.
InStep(i) ==
    LET g == (i - 1) \div ScanPerGroup
    IN  \A k \in DOMAIN image.bad :
            image.bad[k] \notin TableAt[g] .. TableAt[g] + ((i - 1) % ScanPerGroup) \div ScanPerBlock

\* An inode with a wrong checksum is never returned without an error, and an
\* inode is called garbage exactly if most of the inodes that are in use in its
\* block, itself or not, make no sense.
ReportsAreRight ==
    got.ino # 0 /\ InStep(got.ino) =>
        LET b == (got.ino - 1) \div ScanPerBlock
            odd == {i \in InUseFrom(0) : (i - 1) \div ScanPerBlock = b /\ i \in image.badSum \cup image.insane}
        IN  /\ got.err = "none" => got.ino \notin image.badSum
            /\ (got.err = "garbage") = (Cardinality(odd) > ScanPerBlock \div 2)

\* Every inode is met once, and reported as what it is.
ScanCorrect == ScanMeetsAll /\ ReportsAreRight
=============================================================================
