------------------------------ MODULE FcExtents ------------------------------
(***************************************************************************)
(* The replay of the ranges of blocks in fast commits (e2fsck/journal.c).  *)
(* The extents of one inode at a time are read into a list, changed there  *)
(* by ADD_RANGE and DEL_RANGE tags, and written back when a tag names      *)
(* another inode or the fast commit ends; the block bitmap is changed at   *)
(* once.  The kernel, external, does not use a freed block again before    *)
(* the next full commit.  Unwritten extents are not told apart, and the    *)
(* blocks that extent trees take for themselves are left out.              *)
(***************************************************************************)
EXTENDS Integers, SequencesExt, FiniteSetsExt

CONSTANTS
    RangeInodes,        \* inode numbers
    LastLogical,        \* logical blocks of a file: 0 .. LastLogical
    LastPhysical,       \* blocks of the device: 1 .. LastPhysical
    AfterEmptied        \* whether tags may follow for a list emptied down to an
                        \* extent without length at logical block 0

ASSUME FcExtentsAssumption ==
    /\ RangeInodes \subseteq Nat \ {0} /\ LastLogical \in Nat /\ LastPhysical \in Nat
    /\ AfterEmptied \in BOOLEAN

VARIABLES
    trees,      \* the extents of each inode on the device
    fcList,     \* fc_extent_list: [ino, extents]; ino is 0 when there is none
    blockMap,   \* fs->block_map
    wanted,     \* the blocks of each file according to the tags
    everUsed    \* blocks used since the last full commit

rangeVars == <<trees, fcList, blockMap, wanted, everUsed>>

EndMod == 2^20      \* 2^64: e_lblk is a blk64_t
LenMod == 2^10      \* 2^32: e_len is a __u32

Extent(l, p, n) == [lblk |-> l, pblk |-> p, len |-> n]
ExEnd(e) == (e.lblk + e.len - 1) % EndMod
NotEmpty(e) == e.len # 0

\* The blocks that the bitmap marks or unmarks for an extent: none when some lie
\* outside the device (ext2fs_mark_block_bitmap_range2).
BlocksIn(e) ==
    IF e.pblk + e.len - 1 > LastPhysical THEN {} ELSE e.pblk .. e.pblk + e.len - 1
BlocksInList(list) == UNION {BlocksIn(list[i]) : i \in DOMAIN list}

\* The list with every extent that continues the one before it made one with it
Joined(list) ==
    LET Joins(d, e) == d.lblk + d.len = e.lblk /\ d.pblk + d.len = e.pblk
        Add(done, e) ==
            IF done # <<>> /\ Joins(Last(done), e)
            THEN [done EXCEPT ![Len(done)].len = @ + e.len] ELSE Append(done, e)
    IN  FoldLeft(Add, <<>>, list)

-----------------------------------------------------------------------------
(* ext4_modify_extent_list                                                 *)

\* What a hole from lblk to end leaves of extent e (Cases 1 to 4).  An extent
\* without length at logical block 0 ends at the largest number there is.
CutOut(e, lblk, end) ==
    LET before == [e EXCEPT !.len = lblk - e.lblk]
        behind == Extent(end + 1, e.pblk + end + 1 - e.lblk, (e.len - (end + 1 - e.lblk)) % LenMod)
    IN  CASE ExEnd(e) < lblk \/ e.lblk > end -> <<e>>
          [] e.lblk < lblk /\ ExEnd(e) > end -> <<before, behind>>
          [] lblk <= e.lblk /\ lblk <= ExEnd(e) /\ e.lblk <= end /\ ExEnd(e) <= end ->
                <<[e EXCEPT !.len = 0]>>
          [] lblk <= e.lblk /\ e.lblk <= end /\ ExEnd(e) > end -> <<behind>>
          [] e.lblk < lblk /\ lblk <= ExEnd(e) /\ ExEnd(e) <= end -> <<before>>

\* A list of one extent stays as it is, without length or not.
ex_sort_and_merge(list) ==
    IF Len(list) < 2 THEN list
    ELSE Joined(SortSeq(SelectSeq(list, NotEmpty), LAMBDA d, e : d.lblk < e.lblk))

Overlapped(list, ex) == {i \in DOMAIN list : ExEnd(list[i]) >= ex.lblk /\ list[i].lblk <= ExEnd(ex)}

ext4_modify_extent_list_KeepsMarks(list, map, ex, del) ==
    LET hole == FlattenSeq([i \in DOMAIN list |-> CutOut(list[i], ex.lblk, ExEnd(ex))])
        new == ex_sort_and_merge(IF del THEN hole ELSE Append(hole, ex))
    IN  [list |-> new, map |-> map \cup BlocksInList(new)]

\* All blocks of the overlapped extents are freed, and what the list then holds
\* is marked again.
ext4_modify_extent_list(list, map, ex, del) ==
    LET hole == FlattenSeq([i \in DOMAIN list |-> CutOut(list[i], ex.lblk, ExEnd(ex))])
        new == ex_sort_and_merge(IF del THEN hole ELSE Append(hole, ex))
        freed == UNION {BlocksIn(list[i]) : i \in Overlapped(list, ex)}
    IN  [list |-> new, map |-> (map \ freed) \cup BlocksInList(new)]

-----------------------------------------------------------------------------
(* The list in memory.                                                     *)

NoList == [ino |-> 0, extents |-> <<>>]

\* e2fsck_rewrite_extent_tree: extents without length are not written.
rewrite_extent_replay(list) == SelectSeq(list, NotEmpty)

\* ext4_fc_flush_extents(ino)
Flushed(ino) ==
    IF fcList.ino \in {0, ino} THEN [trees |-> trees, list |-> fcList]
    ELSE [trees |-> [trees EXCEPT ![fcList.ino] = rewrite_extent_replay(fcList.extents)],
          list |-> NoList]

\* e2fsck_read_extents
load_extents(tree) == Joined(tree)

\* ext4_fc_read_extents
Loaded(f, ino) == IF f.list.ino = ino THEN f.list.extents ELSE load_extents(f.trees[ino])

\* The list of the inode is down to an extent without length at block 0.
Emptied(ino) == fcList.ino = ino /\ \E e \in Range(fcList.extents) : e.lblk = 0 /\ e.len = 0

Modify(ino, ex, del) ==
    LET f == Flushed(ino)
        new == ext4_modify_extent_list(Loaded(f, ino), blockMap, ex, del)
    IN  /\ AfterEmptied \/ ~Emptied(ino)
        /\ trees' = f.trees
        /\ fcList' = [ino |-> ino, extents |-> new.list]
        /\ blockMap' = new.map
        /\ wanted' = [wanted EXCEPT ![ino] =
                        [l \in 0 .. LastLogical |->
                            IF l \notin ex.lblk .. ExEnd(ex) THEN wanted[ino][l]
                            ELSE IF del THEN 0 ELSE ex.pblk + l - ex.lblk]]

Lengths(l) == 1 .. LastLogical + 1 - l

ext4_fc_handle_add_extent ==
    \E ino \in RangeInodes, l \in 0 .. LastLogical, p \in 1 .. LastPhysical : \E n \in Lengths(l) :
        /\ p + n - 1 <= LastPhysical
        /\ BlocksIn(Extent(l, p, n)) \cap everUsed = {}
        /\ Modify(ino, Extent(l, p, n), FALSE)
        /\ everUsed' = everUsed \cup BlocksIn(Extent(l, p, n))

ext4_fc_handle_del_range ==
    \E ino \in RangeInodes, l \in 0 .. LastLogical : \E n \in Lengths(l) :
        Modify(ino, Extent(l, 0, n), TRUE) /\ UNCHANGED everUsed

\* Names and inodes flush the list of other inodes, a tail every list.
OtherTag ==
    \E ino \in RangeInodes \cup {0} :
        /\ trees' = Flushed(ino).trees /\ fcList' = Flushed(ino).list
        /\ UNCHANGED <<blockMap, wanted, everUsed>>

\* A full commit: the blocks freed so far may be used again.
NextFullCommit ==
    /\ fcList.ino = 0
    /\ everUsed' = blockMap
    /\ UNCHANGED <<trees, fcList, blockMap, wanted>>

RangeInit ==
    /\ trees = [i \in RangeInodes |-> <<>>]
    /\ fcList = NoList
    /\ blockMap = {} /\ everUsed = {}
    /\ wanted = [i \in RangeInodes |-> [l \in 0 .. LastLogical |-> 0]]

RangeNext ==
    ext4_fc_handle_add_extent \/ ext4_fc_handle_del_range \/ OtherTag \/ NextFullCommit

-----------------------------------------------------------------------------
(* Properties.                                                             *)

MapOf(list) ==
    [l \in 0 .. LastLogical |->
        LET at == {i \in DOMAIN list : l \in list[i].lblk .. list[i].lblk + list[i].len - 1}
        IN  IF at = {} THEN 0 ELSE LET e == list[CHOOSE i \in at : TRUE] IN e.pblk + l - e.lblk]

\* Every file ends up with the blocks its tags say, in order and without
\* overlaps, in the list or, once another inode has been named, on the device.
\* An extent without length that a lone list keeps maps nothing.
RangesExact ==
    \A ino \in RangeInodes :
        LET list == IF fcList.ino = ino THEN fcList.extents ELSE trees[ino]
        IN  /\ MapOf(list) = wanted[ino]
            /\ \A i \in 1 .. Len(list) - 1 : list[i].lblk + list[i].len <= list[i + 1].lblk

\* The bitmap marks exactly the blocks of the files: replaying a range neither
\* loses a block nor leaves one in use that a file has given up.
RangesMarked ==
    blockMap = UNION {{wanted[ino][l] : l \in 0 .. LastLogical} : ino \in RangeInodes} \ {0}

\* Files and bitmap follow the tags of the fast commits.
RangesCorrect == RangesExact /\ RangesMarked
=============================================================================
