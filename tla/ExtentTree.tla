----------------------------- MODULE ExtentTree -----------------------------
(* lib/ext2fs/extent.c and the extent part of punch.c: the tree of the extents
   of an inode, changed through a handle that keeps a position in it.  A tree
   is a function from node to its entries: node 0 is the root in the inode, the
   others are blocks.  A handle is the tree with the path to a current entry
   (ids, at and visit_num by level) and the result of the last call.

   One inode without clusters; blocks of the tree can be read and written, and
   run out: a call finds as many free blocks as the other files have left.  A
   handle is opened for a call and freed after it. *)
EXTENDS Integers, SequencesExt, FiniteSetsExt

CONSTANTS
    LastLblk,       \* logical blocks 0 .. LastLblk
    Mappings,       \* logical block l may be mapped to s + l, initialised or not
    RootMax,        \* entries of the root: 4
    NodeMax,        \* entries of a block: 340 in 4096 bytes
    MaxLen,         \* EXT_INIT_MAX_LEN, EXT_UNINIT_MAX_LEN: 32768, 32767
    TreeBlocks,     \* blocks there are for the tree
    EndBlk,         \* i_size in blocks
    Distant         \* whether remapped blocks merge with the next or previous leaf

ASSUME ExtentAssumption ==
    /\ LastLblk \in Nat /\ Mappings \subseteq (Nat \ {0}) \X BOOLEAN /\ EndBlk \in Nat
    /\ RootMax \in Nat /\ NodeMax \in Nat /\ RootMax > 1 /\ NodeMax > 1
    /\ MaxLen \in Nat /\ TreeBlocks \in Nat /\ Distant \in BOOLEAN

VARIABLES
    etree,      \* [depth, node, used: blocks allocated for the tree,
                \*  data: blocks allocated for the file's data, iblocks: i_blocks]
    mapped      \* what each logical block was last mapped to, {} when unmapped

etreeVars == <<etree, mapped>>

Levels == 0 .. TreeBlocks
Lblks == 0 .. LastLblk
Huge == 2^20       \* 2^32: e_len is a __u32

\* A handle for a call that finds n blocks free
ext2fs_extent_open2(t, n) ==
    [depth |-> t.depth, node |-> t.node, used |-> t.used, free |-> n, level |-> 0,
     iblocks |-> t.iblocks, freed |-> {},
     ids |-> [l \in Levels |-> 0], at |-> [l \in Levels |-> 0],
     visit |-> [l \in Levels |-> IF l = 0 THEN 1 ELSE 0],
     end |-> [l \in Levels |-> EndBlk], ret |-> "ok"]

Here(h) == h.node[h.ids[h.level]]
At(h) == h.at[h.level]
AtLeft(h) == Len(Here(h)) - At(h)
IsLeaf(h) == h.level = h.depth
Ok(h) == [h EXCEPT !.ret = "ok"]
Err(h, error) == [h EXCEPT !.ret = error]
Then(h, Op(_)) == IF h.ret = "ok" THEN Op(h) ELSE h

\* What ext2fs_extent_get says of entry i: an index reaches to the next one.
ExtentAt(h, i) ==
    LET e == Here(h)[i]
        end == IF i < Len(Here(h)) THEN Here(h)[i + 1].lblk ELSE h.end[h.level]
    IN  IF IsLeaf(h) THEN e ELSE e @@ [len |-> (end - e.lblk) % Huge]

Current(h) == ExtentAt(h, At(h))
-----------------------------------------------------------------------------
(* ext2fs_extent_get *)

Place(h, i, visit) == [h EXCEPT !.at[h.level] = i, !.visit[h.level] = visit, !.ret = "ok"]

FirstSib(h) == IF Here(h) = <<>> THEN Err([h EXCEPT !.at[h.level] = 0], "no next") ELSE Place(h, 1, 0)
NextSib(h) == IF AtLeft(h) = 0 THEN Err(h, "no next") ELSE Place(h, At(h) + 1, 0)
PrevSib(h) == IF At(h) <= 1 THEN Err(h, "no prev")
              ELSE Place(h, At(h) - 1, IF IsLeaf(h) THEN h.visit[h.level] ELSE 1)
Up(h) == IF h.level = 0 THEN Err(h, "no up") ELSE Ok([h EXCEPT !.level = @ - 1])

Descended(h) ==
    LET l == h.level
    IN  [h EXCEPT !.level = l + 1,
                  !.ids[l + 1] = Here(h)[At(h)].child,
                  !.end[l + 1] = IF AtLeft(h) > 0 THEN Here(h)[At(h) + 1].lblk ELSE h.end[l]]

Down(h) == Place(Descended(h), 1, 0)
DownAndLast(h) ==
    LET d == Descended(h) IN Place(d, Len(Here(d)), IF IsLeaf(d) THEN d.visit[d.level] ELSE 1)

RECURSIVE NextLeaf(_)
NextLeaf(h) ==
    LET next == CASE ~IsLeaf(h) /\ h.visit[h.level] = 0 -> Down([h EXCEPT !.visit[h.level] = 1])
                  [] AtLeft(h) > 0 -> NextSib(h)
                  [] h.level > 0 -> Up(h)
                  [] OTHER -> Err(h, "no next")
    IN  IF next.ret = "ok" /\ ~IsLeaf(next) THEN NextLeaf(next) ELSE next

RECURSIVE PrevLeaf(_)
PrevLeaf(h) ==
    LET prev == CASE ~IsLeaf(h) /\ h.visit[h.level] > 0 -> DownAndLast(h)
                  [] At(h) > 1 -> PrevSib(h)
                  [] h.level > 0 -> LET up == Up(h) IN [up EXCEPT !.visit[up.level] = 0]
                  [] OTHER -> Err(h, "no prev")
    IN  IF prev.ret = "ok" /\ ~IsLeaf(prev) THEN PrevLeaf(prev) ELSE prev

\* ext2fs_extent_goto2: down by the last index that does not begin after blk.
\* A step back from the index behind it leaves visit_num at 1.
RECURSIVE Seek(_, _, _)
Seek(h, height, blk) ==
    LET n == Len(Here(h))
        i == Max({1} \cup {k \in 1..n : Here(h)[k].lblk <= blk})
        visit == IF i < n /\ ~(i > 1 /\ Here(h)[i].lblk = blk) THEN 1 ELSE 0
        stops == {k \in 1..n : LET e == ExtentAt(h, k) IN blk < e.lblk \/ blk < e.lblk + e.len}
        k == Min(stops)
    IN  CASE h.depth - h.level > height -> Seek(Down(Place(h, i, visit)), height, blk)
          [] stops = {} -> Err(Place(h, n, 0), "not found")
          [] ExtentAt(h, k).lblk <= blk -> Place(h, k, 0)
          [] OTHER -> Err(PrevSib(Place(h, k, 0)), "not found")

ext2fs_extent_goto2(h, height, blk) ==
    LET root == FirstSib([h EXCEPT !.level = 0])
    IN  CASE root.ret # "ok" -> Err(root, "not found")
          [] height > h.depth -> Err(root, "not supported")
          [] OTHER -> Seek(root, height, blk)

Goto(h, blk) == ext2fs_extent_goto2(h, 0, blk)
-----------------------------------------------------------------------------
Entries2(h, entries) == [h EXCEPT !.node[h.ids[h.level]] = entries]

\* Only a leaf entry has a length.
Entry(h, e) == IF IsLeaf(h) THEN e ELSE [lblk |-> e.lblk, child |-> e.child]

ext2fs_extent_replace(h, e) ==
    IF At(h) = 0 THEN Err(h, "no current")
    ELSE Ok(Entries2(h, [Here(h) EXCEPT ![At(h)] = Entry(h, e)]))

\* Up as long as the first entry of a node begins elsewhere than its index.
RECURSIVE FixUp(_, _)
FixUp(h, start) ==
    LET up == Up(h)
    IN  IF h.level = 0 \/ At(h) # 1 \/ Current(up).lblk = start THEN h
        ELSE FixUp(ext2fs_extent_replace(up, [Current(up) EXCEPT !.lblk = start]), start)

ext2fs_extent_fix_parents(h) ==
    IF At(h) = 0 THEN Err(h, "no current")
    ELSE ext2fs_extent_goto2(FixUp(h, Current(h).lblk), h.depth - h.level, Current(h).lblk)

splitting_at_eof(h) ==
    h.level > 0 /\ \A l \in 0 .. h.level : Len(h.node[h.ids[l]]) = h.at[l]

InsertHere(h, after, e) ==
    LET i == IF At(h) = 0 THEN 1 ELSE IF after THEN At(h) + 1 ELSE At(h)
    IN  Ok(Entries2([h EXCEPT !.at[h.level] = i], InsertAt(Here(h), i, Entry(h, e))))

IsFull(h, level) == Len(h.node[h.ids[level]]) >= (IF level = 0 THEN RootMax ELSE NodeMax)

\* The last entries go to a new block, all of them when it is the root, and the
\* index of the block is put after the index of the old one.
MoveOut(h, tocopy, new) ==
    LET n == Len(Here(h))
        moved == SubSeq(Here(h), n - tocopy + 1, n)
        index == [lblk |-> moved[1].lblk, child |-> new]
        out == [h EXCEPT !.node[new] = moved, !.used = @ \cup {new},
                      !.free = @ - 1, !.iblocks = @ + 1]
    IN  IF h.level = 0
        THEN FirstSib([Entries2(out, <<index>>) EXCEPT !.depth = @ + 1])
        ELSE InsertHere(Up(Entries2(out, SubSeq(Here(h), 1, n - tocopy))), TRUE, index)

\* The split itself, once the node above has room for one more index
SplitBelow(room, height, lblk, expand) ==
    LET tocopy == CASE room.level = 0 -> Len(Here(room))
                    [] expand /\ splitting_at_eof(room) -> 1
                    [] OTHER -> Len(Here(room)) \div 2
    IN  IF room.free = 0 THEN Err(room, "no space")
        ELSE ext2fs_extent_goto2(MoveOut(room, tocopy, Min((1 .. TreeBlocks) \ room.used)),
                                 height, lblk)

RECURSIVE extent_node_split(_, _)
extent_node_split(h, expand) ==
    LET height == h.depth - h.level
        lblk == Current(h).lblk
    IN  IF At(h) = 0 THEN Err(h, "no current")
        ELSE Then(IF h.level > 0 /\ IsFull(h, h.level - 1)
                  THEN Then(extent_node_split(Up(h), expand),
                            LAMBDA s : ext2fs_extent_goto2(s, height, lblk))
                  ELSE h,
                  LAMBDA s : SplitBelow(s, height, lblk, expand))

ext2fs_extent_insert(h, after, e) ==
    Then(IF IsFull(h, h.level) THEN extent_node_split(h, TRUE) ELSE h,
         LAMBDA s : InsertHere(s, after, e))

\* An empty node goes with its index and its block; an empty root is a leaf again.
RECURSIVE ext2fs_extent_delete(_)
ext2fs_extent_delete(h) ==
    LET n == Len(Here(h))
        less == Entries2([h EXCEPT !.at[h.level] = IF AtLeft(h) > 0 THEN @ ELSE @ - 1],
                         RemoveAt(Here(h), At(h)))
    IN  CASE At(h) = 0 -> Err(h, "no current")
          [] n = 1 /\ h.level > 0 ->
                [Ok(ext2fs_extent_delete(Up(less))) EXCEPT !.used = @ \ {h.ids[h.level]},
                                                           !.free = @ + 1, !.iblocks = @ - 1]
          [] n = 1 -> Ok([less EXCEPT !.depth = 0])
          [] OTHER -> Ok(less)
-----------------------------------------------------------------------------
(* ext2fs_extent_set_bmap; physical is 0 to unmap *)

Longer(e) == [e EXCEPT !.len = @ + 1]
Earlier(e) == [e EXCEPT !.len = @ + 1, !.lblk = @ - 1, !.pblk = @ - 1]
Shorter(e) == [e EXCEPT !.len = @ - 1]
Later(e) == [e EXCEPT !.len = @ - 1, !.lblk = @ + 1, !.pblk = @ + 1]

\* The new block continues the extent, or comes right before it.
Follows(new, e) ==
    /\ new.lblk = e.lblk + e.len /\ new.pblk = e.pblk + e.len
    /\ new.uninit = e.uninit /\ e.len < MaxLen - 1
Precedes(new, e) ==
    /\ new.lblk = e.lblk - 1 /\ new.pblk = e.pblk - 1
    /\ new.uninit = e.uninit /\ e.len < MaxLen - 1

\* The block joins a neighbour, the extent at next or at prev, or is inserted.
JoinsNext(next, h, after, new) ==
    IF next.ret = "ok" /\ Precedes(new, Current(next))
    THEN ext2fs_extent_replace(next, Earlier(Current(next)))
    ELSE ext2fs_extent_insert(h, after, new)
JoinsPrev(prev, h, new) ==
    IF prev.ret = "ok" /\ Follows(new, Current(prev))
    THEN ext2fs_extent_replace(prev, Longer(Current(prev)))
    ELSE ext2fs_extent_insert(h, FALSE, new)

MapUnmapped(h, e, new) ==
    Then(CASE Follows(new, e) -> ext2fs_extent_replace(h, Longer(e))
           [] ~Follows(new, e) /\ Precedes(new, e) -> ext2fs_extent_replace(h, Earlier(e))
           [] OTHER -> JoinsNext(NextLeaf(h), h, new.lblk >= e.lblk, new),
         ext2fs_extent_fix_parents)

RemapOnly(h, new) ==
    IF new.pblk # 0 THEN ext2fs_extent_replace(h, new)
    ELSE Then(ext2fs_extent_delete(h),
              LAMBDA s : LET f == ext2fs_extent_fix_parents(s)
                         IN  IF f.ret = "no current" THEN Ok(f) ELSE f)

RemapLast(h, e, new) ==
    IF new.pblk = 0 THEN ext2fs_extent_replace(h, Shorter(e))
    ELSE Then(Then(Then(JoinsNext(NextLeaf(h), h, TRUE, new), ext2fs_extent_fix_parents),
                   LAMBDA s : Goto(s, new.lblk)),
              LAMBDA s : ext2fs_extent_replace(s, Shorter(Current(s))))

RemapFirst(h, e, new) ==
    Then(Then(IF new.pblk = 0 THEN h
              ELSE Then(Then(JoinsPrev(PrevLeaf(h), h, new), ext2fs_extent_fix_parents), NextLeaf),
              LAMBDA s : ext2fs_extent_replace(s, Later(Current(s)))),
         ext2fs_extent_fix_parents)

\* Fault: the extent stays cut short.
Restored_StaysShort(h, e, error) == Err(h, error)

\* Best effort: when a part cannot be inserted the extent is put back.
Restored(h, e, error) ==
    Err(Then(Goto(h, e.lblk), LAMBDA s : ext2fs_extent_replace(s, e)), error)

\* The part behind the block could not be inserted: the block goes again too.
PutBehind(split, e, new) ==
    IF split.ret = "ok" THEN split
    ELSE Restored(IF new.pblk = 0 THEN split ELSE Then(Goto(split, new.lblk), ext2fs_extent_delete),
                  e, split.ret)

PutMiddle(placed, e, behind, new) ==
    IF placed.ret # "ok" THEN Restored(placed, e, placed.ret)
    ELSE PutBehind(ext2fs_extent_insert(placed, TRUE, behind), e, new)

RemapMiddle(h, e, new) ==
    LET before == [e EXCEPT !.len = new.lblk - e.lblk]
        behind == [e EXCEPT !.len = e.len - before.len - 1,
                            !.lblk = @ + before.len + 1, !.pblk = @ + before.len + 1]
        short == ext2fs_extent_replace(h, before)
    IN  PutMiddle(IF new.pblk = 0 THEN short ELSE ext2fs_extent_insert(short, TRUE, new),
                  e, behind, new)

\* The cases, for the handle h that a search for the block has left at extent e
SetAt(h, e, found, new) ==
    CASE ~found /\ new.pblk = 0 -> h
      [] ~found /\ new.pblk # 0 -> MapUnmapped(h, e, new)
      [] found /\ new.uninit = e.uninit /\ e.pblk + (new.lblk - e.lblk) = new.pblk -> h
      [] OTHER -> CASE e.len = 1 -> RemapOnly(h, new)
                    [] e.len > 1 /\ new.lblk = e.lblk + e.len - 1 -> RemapLast(h, e, new)
                    [] e.len > 1 /\ new.lblk = e.lblk -> RemapFirst(h, e, new)
                    [] OTHER -> RemapMiddle(h, e, new)

SetFound(h, new) == SetAt(Ok(h), Current(h), h.ret = "ok", new)

ext2fs_extent_set_bmap(open, logical, physical, uninit) ==
    LET new == [lblk |-> logical, pblk |-> physical, len |-> 1, uninit |-> uninit]
    IN  IF open.node[0] = <<>> THEN ext2fs_extent_insert(open, FALSE, new)
        ELSE SetFound(Goto(open, logical), new)
-----------------------------------------------------------------------------
(* ext2fs_punch_extent: start .. end is unmapped *)

\* The extent that is cut, and what is left of it
Cut(e, start, end) ==
    LET next == e.lblk + e.len
        n == IF next > end THEN end - e.lblk + 1 ELSE e.len
    IN  IF start <= e.lblk
        THEN [e EXCEPT !.len = @ - n, !.lblk = @ + n, !.pblk = @ + n]
        ELSE [e EXCEPT !.len = start - e.lblk]

\* A hole inside the extent: what is behind it becomes an extent of its own.
SplitOff(h, e, end) ==
    LET rest == [e EXCEPT !.lblk = end + 1, !.pblk = @ + (end + 1 - e.lblk),
                          !.len = e.lblk + e.len - end - 1]
    IN  Then(Then(ext2fs_extent_insert(h, TRUE, rest), ext2fs_extent_fix_parents),
             LAMBDA s : Goto(s, e.lblk))

\* On to the extent behind the one that goes, which is found again by its block.
Refound(h, to) == IF h.ret \in {"ok", "no current"} THEN Ok(Goto(h, to)) ELSE h
DeleteBefore(next, old) ==
    Refound(Then(Then(Goto(next, old), ext2fs_extent_delete), ext2fs_extent_fix_parents),
            IF next.ret = "no next" THEN old ELSE Current(next).lblk)
DeleteWhole(h) == DeleteBefore(NextLeaf(h), Current(h).lblk)

\* punch_extent_blocks: the blocks that are cut off are free.
Freeing(h, e, start, end) ==
    [h EXCEPT !.freed = @ \cup
        {e.pblk + (l - e.lblk) : l \in (e.lblk .. e.lblk + e.len - 1) \cap (start .. end)}]

\* The extent at h is cut; the next one to look at
CutHere(h, e, start, end) ==
    IF Cut(e, start, end).len = 0
    THEN Then(DeleteWhole(h), LAMBDA s : Freeing(s, e, start, end))
    ELSE Then(Then(Then(h, LAMBDA s : ext2fs_extent_replace(s, Cut(e, start, end))),
                   ext2fs_extent_fix_parents),
              LAMBDA s : NextLeaf(Freeing(s, e, start, end)))

RECURSIVE Punch(_, _, _)
Punch(h, start, end) ==
    LET e == Current(h)
        next == e.lblk + e.len
        inside == start > e.lblk /\ end < next - 1
        Onward(s) == CASE s.ret = "ok" -> Punch(s, start, end)
                       [] s.ret = "no next" -> Ok(s)
                       [] OTHER -> s
    IN  IF At(h) = 0 THEN Ok(h)
        ELSE IF start <= e.lblk /\ end < e.lblk THEN h
        ELSE Onward(IF start >= next THEN NextLeaf(h)
                    ELSE CutHere(IF inside THEN SplitOff(h, e, end) ELSE h, e, start, end))

\* What was freed is taken off i_blocks at the end of a call that succeeds.
ext2fs_punch_extent(open, start, end) ==
    Then(Punch(Ok(Goto(open, start)), start, end),
         LAMBDA h : [h EXCEPT !.iblocks = @ - Cardinality(h.freed)])
-----------------------------------------------------------------------------
ExtentInit ==
    /\ etree = [depth |-> 0, node |-> [b \in 0 .. TreeBlocks |-> <<>>], used |-> {},
                data |-> {}, iblocks |-> 0]
    /\ mapped = [l \in Lblks |-> {}]

\* A call that moves the first or the last block of a longer extent to an
\* extent in another leaf: h is at the extent, next and prev behind and before it.
LeavesLeaf(h, next, prev, new) ==
    LET e == Current(h)
        Elsewhere(s) == s.ret = "ok" /\ s.ids[s.level] # h.ids[h.level]
    IN  /\ h.ret = "ok" /\ e.len > 1
        /\ \/ new.lblk = e.lblk + e.len - 1 /\ Elsewhere(next) /\ Precedes(new, Current(next))
           \/ new.lblk = e.lblk /\ Elsewhere(prev) /\ Follows(new, Current(prev))
MovesAway(h, new) == LeavesLeaf(h, NextLeaf(h), PrevLeaf(h), new)
MergesAcross(open, new) == MovesAway(Goto(open, new.lblk), new)

Places(m) == {place[1] : place \in m}

\* A call has ended with handle h, which is freed: mapped is m if it succeeded,
\* and then its caller has given the blocks of gone back and taken those of new.
\* The blocks outside the tree hold nothing of it.
Ended(h, m, gone, new) ==
    LET done == h.ret = "ok"
    IN  /\ etree' = [depth |-> h.depth, used |-> h.used,
                     node |-> [b \in DOMAIN h.node |->
                                  IF b = 0 \/ b \in h.used THEN h.node[b] ELSE <<>>],
                     data |-> (IF done THEN (etree.data \ gone) \cup new ELSE etree.data) \ h.freed,
                     iblocks |-> h.iblocks
                                 + (IF done THEN Cardinality(new) - Cardinality(gone) ELSE 0)]
        /\ mapped' = IF done THEN m ELSE mapped

SetBmap(open, l) ==
    \E <<s, uninit>> \in Mappings :
        /\ Distant \/ ~MergesAcross(open, [lblk |-> l, pblk |-> s + l, len |-> 1, uninit |-> uninit])
        /\ Ended(ext2fs_extent_set_bmap(open, l, s + l, uninit),
                 [mapped EXCEPT ![l] = {<<s + l, uninit>>}], Places(mapped[l]), {s + l})

Unmap(open, l) ==
    /\ etree.node[0] # <<>>
    /\ Ended(ext2fs_extent_set_bmap(open, l, 0, FALSE), [mapped EXCEPT ![l] = {}],
             Places(mapped[l]), {})

PunchOut(open, start, end) ==
    Ended(ext2fs_punch_extent(open, start, end),
          [l \in Lblks |-> IF l \in start .. end THEN {} ELSE mapped[l]], {}, {})

ExtentNext ==
    \E free \in 0 .. TreeBlocks - Cardinality(etree.used) :
        LET open == ext2fs_extent_open2(etree, free)
        IN  \/ \E l \in Lblks : SetBmap(open, l) \/ Unmap(open, l)
            \/ \E start, end \in Lblks : start <= end /\ PunchOut(open, start, end)
-----------------------------------------------------------------------------
\* What a lookup finds (ext2fs_bmap2)
Lookup(t, l) ==
    LET h == Goto(ext2fs_extent_open2(t, 0), l)
    IN  IF h.ret = "ok" THEN LET e == Current(h) IN {<<e.pblk + l - e.lblk, e.uninit>>} ELSE {}

\* After any sequence of calls every logical block is found where it was last
\* mapped, and nowhere after it was unmapped; a call that ran out of blocks has
\* changed no mapping.
ExtentsExact == \A l \in Lblks : Lookup(etree, l) = mapped[l]

Children(t, b) == {e.child : e \in {x \in Range(t.node[b]) : "child" \in DOMAIN x}}

\* What e2fsck asks of a tree, after any sequence of calls: every allocated
\* block is a node of the tree and under one index only, no node is over full
\* and none but the root is empty, the entries of a node are in order without
\* an overlap, and an index begins where its node does.
TreeSound ==
    LET t == etree
        nodes == {0} \cup t.used
    IN  /\ t.used = UNION {Children(t, b) : b \in nodes}
        /\ \A b \in nodes :
              LET n == t.node[b]
              IN  /\ Len(n) <= (IF b = 0 THEN RootMax ELSE NodeMax) /\ (b # 0 => n # <<>>)
                  /\ \A i \in 1 .. Len(n) - 1 :
                        n[i].lblk + (IF "len" \in DOMAIN n[i] THEN n[i].len ELSE 1) <= n[i + 1].lblk
                  /\ \A i \in DOMAIN n : "child" \in DOMAIN n[i] =>
                        /\ t.node[n[i].child][1].lblk = n[i].lblk
                        /\ \A c \in nodes \ {b} : n[i].child \notin Children(t, c)

\* The blocks that are allocated are those the file maps, a punch having freed
\* what it unmapped and no more, and i_blocks counts them and the tree's.
BlocksCounted ==
    /\ etree.data = UNION {Places(mapped[l]) : l \in Lblks}
    /\ etree.iblocks = Cardinality(etree.data) + Cardinality(etree.used)

\* The tree maps what it was told to, whether or not the calls found the blocks
\* they needed, and e2fsck would find nothing to repair.
ExtentTreeCorrect == ExtentsExact /\ TreeSound /\ BlocksCounted
=============================================================================
