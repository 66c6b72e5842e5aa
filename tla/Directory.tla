----------------------------- MODULE Directory -----------------------------
(***************************************************************************)
(* The entries of a directory: ext2fs_link (lib/ext2fs/link.c), which puts *)
(* a name into free room of a block of a linear directory, or into the     *)
(* leaf of a hash tree where it belongs and makes the tree grow;           *)
(* ext2fs_unlink (unlink.c), ext2fs_expand_dir (expanddir.c) and the walk  *)
(* through the entries of a block (dir_iterate.c).                         *)
(*                                                                         *)
(* A name is a pair of its hash and the room it needs; two names with the  *)
(* same pair are not told apart.  Hashes are even, the lowest bit in an    *)
(* index entry says that the leaf continues the one before.  Blocks are    *)
(* read and written without errors, and run out.                           *)
(***************************************************************************)
EXTENDS Integers, SequencesExt, FiniteSetsExt

CONSTANTS
    NameKinds,      \* pairs of hash and room
    BlockLen,       \* room of a block
    RootLimit,      \* index entries of the root
    NodeLimit,      \* index entries of a node
    HtreeLevels,    \* ext2_dir_htree_level
    MostBlocks,     \* blocks there are for the directory
    MostNames

ASSUME DirectoryAssumption ==
    /\ \A k \in NameKinds : k[1] \in Nat /\ k[1] % 2 = 0 /\ k[2] \in Nat \ {0}
    /\ BlockLen \in Nat /\ RootLimit \in Nat \ {0} /\ NodeLimit \in Nat /\ NodeLimit > RootLimit
    /\ \A k \in NameKinds : 4 * k[2] - 3 < BlockLen     \* true of 2048 bytes and more
    /\ HtreeLevels \in Nat /\ MostBlocks \in Nat \ {0} /\ MostNames \in Nat

VARIABLES
    dir,        \* [indexed, levels, root: index entries, blocks: of leaf entries or of index entries]
    linked      \* how many names of each kind there are in it

dirVars == <<dir, linked>>

Unused == <<0, 0>>
Dots == <<0, 2>>                            \* "." and ".."
Hash(k) == k[1]
Room(k) == k[2]
Dirent(k, len) == [name |-> k, len |-> len]
Index(hash, block) == [hash |-> hash, block |-> block]
IsUsed(e) == e.name # Unused
IsLeafBlock(b) == \A i \in DOMAIN b : "name" \in DOMAIN b[i]
NewDirBlock == <<Dirent(Unused, BlockLen)>>
-----------------------------------------------------------------------------
(* link_proc, called by ext2fs_process_dir_block for every entry of a block *)

\* An unused entry behind entry i becomes part of it.
Absorbed(blk, i) ==
    IF i < Len(blk) /\ ~IsUsed(blk[i + 1])
    THEN RemoveAt([blk EXCEPT ![i].len = @ + blk[i + 1].len], i + 1) ELSE blk

\* Fault: the rest of a split entry is taken for as long as the new name.
link_proc(s, name) ==
    LET blk == Absorbed(s.blk, s.i)
        e == blk[s.i]
        rest == e.len - Room(e.name)
    IN  CASE s.done \/ s.i > Len(s.blk) -> s
          [] IsUsed(e) /\ rest >= Room(name) ->
                [s EXCEPT !.blk = InsertAt([blk EXCEPT ![s.i].len = Room(e.name)],
                                           s.i + 1, Dirent(Unused, rest)), !.i = @ + 1]
          [] ~IsUsed(e) /\ e.len >= Room(name) ->
                [s EXCEPT !.blk = [blk EXCEPT ![s.i].name = name], !.done = TRUE]
          [] OTHER -> [s EXCEPT !.blk = blk, !.i = @ + 1]

\* The block afterwards, and whether it has taken the name
add_dirent_to_buf(blk, name) ==
    FoldLeft(LAMBDA s, n : link_proc(s, name), [blk |-> blk, i |-> 1, done |-> FALSE],
             [n \in 1 .. BlockLen + 1 |-> n])

\* unlink_proc: the entry becomes part of the one before it, or unused when it
\* is the first.
UnlinkedFrom(blk, i) ==
    IF i > 1 THEN RemoveAt([blk EXCEPT ![i - 1].len = @ + blk[i].len], i)
    ELSE [blk EXCEPT ![1].name = Unused]
-----------------------------------------------------------------------------
(* The hash tree *)

dx_search_entry(entries, hash) ==
    Max({1} \cup {i \in 2 .. Len(entries) : entries[i].hash <= hash})

\* The positions in the root and, with two levels, in a node; and the leaf
dx_lookup(d, hash) ==
    LET r == dx_search_entry(d.root, hash)
        n == d.blocks[d.root[r].block]
        i == dx_search_entry(n, hash)
    IN  IF d.levels = 1 THEN [at |-> <<r>>, node |-> 0, leaf |-> d.root[r].block]
        ELSE [at |-> <<r, i>>, node |-> d.root[r].block, leaf |-> n[i].block]

dx_insert_entry(d, info, level, hash, block) ==
    LET new == Index(hash, block)
    IN  IF level = 1 THEN [d EXCEPT !.root = InsertAt(@, info.at[1] + 1, new)]
        ELSE [d EXCEPT !.blocks[info.node] = InsertAt(@, info.at[2] + 1, new)]

\* The entries as short as they may be, the last one to the end of the block
dx_move_dirents(map) ==
    LET lens == [i \in DOMAIN map |-> Room(map[i].name)]
        before == FoldLeft(+, 0, SubSeq(lens, 1, Len(lens) - 1))
    IN  [i \in DOMAIN map |-> Dirent(map[i].name, IF i < Len(map) THEN lens[i] ELSE BlockLen - before)]

\* The last entries in the order of the hashes, up to half a block, counted with
\* the room that is unused behind them
FirstToMove(map) ==
    LET Moved(i) == FoldLeft(+, 0, [j \in 1 .. Len(map) - i |-> map[i + j].len])
    IN  Max({0} \cup {i \in DOMAIN map : 2 * Moved(i) + map[i].len > BlockLen}) + 1

ByHash(a, b) == Hash(a.name) < Hash(b.name)

\* Fault: a leaf that continues the one before is not marked.
dx_split_leaf_NotContinued(d, info, new) ==
    LET map == SortSeq(SelectSeq(d.blocks[info.leaf], IsUsed), ByHash)
        i == FirstToMove(map)
        split == [d EXCEPT !.blocks[new] = dx_move_dirents(SubSeq(map, i, Len(map))),
                           !.blocks[info.leaf] = dx_move_dirents(SubSeq(map, 1, i - 1))]
    IN  dx_insert_entry(split, info, d.levels, Hash(map[i].name), new)

dx_split_leaf(d, info, new) ==
    LET map == SortSeq(SelectSeq(d.blocks[info.leaf], IsUsed), ByHash)
        i == FirstToMove(map)
        continued == IF Hash(map[i].name) = Hash(map[i - 1].name) THEN 1 ELSE 0
        split == [d EXCEPT !.blocks[new] = dx_move_dirents(SubSeq(map, i, Len(map))),
                           !.blocks[info.leaf] = dx_move_dirents(SubSeq(map, 1, i - 1))]
    IN  dx_insert_entry(split, info, d.levels, Hash(map[i].name) + continued, new)

\* The root's entries go to a node of their own.
GrowDepth(d, new) ==
    [d EXCEPT !.blocks[new] = d.root, !.root = <<Index(0, new)>>, !.levels = 2]

SplitNode(d, info, new) ==
    LET n == d.blocks[info.node]
        half == Len(n) \div 2
    IN  dx_insert_entry([d EXCEPT !.blocks[new] = SubSeq(n, half + 1, Len(n)),
                                  !.blocks[info.node] = SubSeq(n, 1, half)],
                        info, 1, n[half + 1].hash, new)

IsFullIndex(d, info, level) ==
    IF level = 1 THEN Len(d.root) >= RootLimit ELSE Len(d.blocks[info.node]) >= NodeLimit

dx_grow_tree(d, info) ==
    LET roomy == {l \in 1 .. d.levels : ~IsFullIndex(d, info, l)}
        new == Len(d.blocks) + 1
        longer == [d EXCEPT !.blocks = Append(@, <<>>)]
    IN  CASE roomy = {} /\ d.levels >= HtreeLevels -> [d |-> d, ret |-> "no space"]
          [] Len(d.blocks) >= MostBlocks -> [d |-> d, ret |-> "no block"]
          [] d.levels \in roomy -> [d |-> dx_split_leaf(longer, info, new), ret |-> "ok"]
          [] roomy = {} -> [d |-> GrowDepth(longer, new), ret |-> "ok"]
          [] OTHER -> [d |-> SplitNode(longer, info, new), ret |-> "ok"]

\* Fault: the tree may grow once only.
\* One try: the name goes into its leaf, or the tree grows for the next try, of
\* which there are as many as the tree has levels.
dx_try(s, name) ==
    LET info == dx_lookup(s.d, Hash(name))
        added == add_dirent_to_buf(s.d.blocks[info.leaf], name)
        there == [s.d EXCEPT !.blocks[info.leaf] = added.blk]
        grown == dx_grow_tree(there, info)
    IN  CASE s.ret # "again" -> s
          [] added.done -> [s EXCEPT !.d = there, !.ret = "ok"]
          [] s.restart >= s.d.levels -> [s EXCEPT !.d = there, !.ret = "no space"]
          [] grown.ret # "ok" -> [s EXCEPT !.d = there, !.ret = grown.ret]
          [] OTHER -> [s EXCEPT !.d = grown.d, !.restart = @ + 1]

dx_link(d, name) ==
    FoldLeft(LAMBDA s, n : dx_try(s, name), [d |-> d, restart |-> 0, ret |-> "again"],
             [n \in 1 .. HtreeLevels + 1 |-> n])

\* The first block that takes it; those before have absorbed unused entries.
LinearLink(d, name) ==
    LET tried == [b \in DOMAIN d.blocks |-> add_dirent_to_buf(d.blocks[b], name)]
        takers == {b \in DOMAIN tried : tried[b].done}
        last == IF takers = {} THEN Len(d.blocks) ELSE Min(takers)
    IN  [d |-> [d EXCEPT !.blocks = [b \in DOMAIN @ |-> IF b <= last THEN tried[b].blk ELSE @[b]]],
         ret |-> IF takers = {} THEN "no space" ELSE "ok"]

LinkIn(d, name) == IF d.indexed THEN dx_link(d, name) ELSE LinearLink(d, name)
-----------------------------------------------------------------------------
DirInit ==
    /\ \E indexed \in BOOLEAN :
          dir = [indexed |-> indexed, levels |-> 1, root |-> <<Index(0, 1)>>,
                 blocks |-> IF indexed THEN <<NewDirBlock>> ELSE <<<<Dirent(Dots, BlockLen)>>>>]
    /\ linked = [k \in NameKinds |-> 0]

ext2fs_link(k) ==
    LET l == LinkIn(dir, k)
    IN  /\ FoldFunction(+, 0, linked) < MostNames
        /\ dir' = l.d
        /\ linked' = IF l.ret = "ok" THEN [linked EXCEPT ![k] = @ + 1] ELSE linked

\* The first entry of this name, wherever it is
ext2fs_unlink(k) ==
    LET with == {b \in DOMAIN dir.blocks : IsLeafBlock(dir.blocks[b])
                                           /\ \E i \in DOMAIN dir.blocks[b] : dir.blocks[b][i].name = k}
        b == Min(with)
        i == Min({j \in DOMAIN dir.blocks[b] : dir.blocks[b][j].name = k})
    IN  /\ with # {}
        /\ dir' = [dir EXCEPT !.blocks[b] = UnlinkedFrom(@, i)]
        /\ linked' = [linked EXCEPT ![k] = @ - 1]

\* Called when a linear directory has no room for a name
ExpandDir ==
    /\ ~dir.indexed /\ Len(dir.blocks) < MostBlocks
    /\ \E k \in NameKinds : LinkIn(dir, k).ret = "no space"
    /\ dir' = [dir EXCEPT !.blocks = Append(@, NewDirBlock)]
    /\ UNCHANGED linked

DirNext == ExpandDir \/ \E k \in NameKinds : ext2fs_link(k) \/ ext2fs_unlink(k)
-----------------------------------------------------------------------------
Leaves == {b \in DOMAIN dir.blocks : IsLeafBlock(dir.blocks[b])}

\* Every block is covered by entries that are long enough for their names, and
\* the blocks together hold the names that were linked and not unlinked, each
\* as often as it was: no split of a leaf loses or doubles one.
EntriesExact ==
    /\ \A b \in Leaves :
          /\ FoldLeft(+, 0, [i \in DOMAIN dir.blocks[b] |-> dir.blocks[b][i].len]) = BlockLen
          /\ \A i \in DOMAIN dir.blocks[b] : dir.blocks[b][i].len >= Room(dir.blocks[b][i].name)
    /\ \A k \in NameKinds :
          linked[k] = Cardinality({<<b, i>> \in Leaves \X (1 .. BlockLen) :
                                      i <= Len(dir.blocks[b]) /\ dir.blocks[b][i].name = k})

\* The leaves in the order of the tree, each with the hash it begins at; the
\* first entry of a node begins where the entry above says.
LeafOrder ==
    IF dir.levels = 1 THEN dir.root
    ELSE FlattenSeq([r \in DOMAIN dir.root |->
            LET n == dir.blocks[dir.root[r].block] IN [n EXCEPT ![1].hash = dir.root[r].hash]])

\* The kernel finds every name of a hash tree: the leaf its hash leads to or
\* those that continue it hold it, whatever splits of leaves and nodes there were.
KernelFinds ==
    dir.indexed =>
        \A b \in Leaves : \A i \in DOMAIN dir.blocks[b] :
            LET hash == Hash(dir.blocks[b][i].name)
                start == dx_search_entry(LeafOrder, hash)
            IN  IsUsed(dir.blocks[b][i]) =>
                    \E j \in start .. Len(LeafOrder) :
                        LeafOrder[j].block = b /\ \A c \in start + 1 .. j : LeafOrder[c].hash = hash + 1

\* A linear directory refuses a name only when no block has room for it between
\* its entries, and a hash tree only when it is full: the tries that dx_link
\* makes are always enough.
RefusesOnlyWhenFull ==
    \A k \in NameKinds :
        LinkIn(dir, k).ret = "no space" =>
            IF dir.indexed
            THEN /\ dir.levels = HtreeLevels
                 /\ \A l \in 1 .. dir.levels : IsFullIndex(dir, dx_lookup(dir, Hash(k)), l)
            ELSE \A b \in DOMAIN dir.blocks : \A i \in DOMAIN dir.blocks[b] :
                    LET behind == {j \in i + 1 .. Len(dir.blocks[b]) :
                                      \A c \in i + 1 .. j : ~IsUsed(dir.blocks[b][c])}
                    IN  dir.blocks[b][i].len - Room(dir.blocks[b][i].name)
                          + MapThenSumSet(LAMBDA j : dir.blocks[b][j].len, behind) < Room(k)

\* No name is lost, none is out of the kernel's reach, none is refused too early.
DirectoryCorrect == EntriesExact /\ KernelFinds /\ RefusesOnlyWhenFull
=============================================================================
