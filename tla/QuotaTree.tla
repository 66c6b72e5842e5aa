------------------------------ MODULE QuotaTree -----------------------------
(***************************************************************************)
(* A quota file (lib/support/quotaio_tree.c, quotaio_v2.c): a radix tree   *)
(* of blocks from a user's number to the data block that holds its entry,  *)
(* a list of free blocks, and a doubly linked list of data blocks that     *)
(* have room for another entry.  The file grows block by block and may     *)
(* find no room to.                                                        *)
(***************************************************************************)
EXTENDS Integers, FiniteSets, SequencesExt

CONSTANTS
    Radix,              \* references in a tree block; 256 in the code
    TreeDepth,          \* QT_TREEDEPTH
    EntriesInBlock,     \* qtree_dqstr_in_blk
    MostQuotaBlocks,    \* blocks that the file system has room for
    QuotaIds,           \* the users' numbers
    Usages              \* what an entry can hold, 0 apart

ASSUME QuotaAssumption ==
    /\ Radix \in Nat \ {0, 1} /\ TreeDepth \in Nat \ {0} /\ EntriesInBlock \in Nat \ {0, 1}
    /\ MostQuotaBlocks \in Nat \ {0, 1} /\ Usages \subseteq Nat \ {0}
    /\ QuotaIds \subseteq 0 .. Radix ^ TreeDepth - 1

VARIABLES
    qfile,      \* [blocks, freeBlk, freeEntry: struct qtree_mem_dqinfo; blk: the
                \*  blocks of the file; header: is the header still there?]
    usage       \* history: what was last committed for each number, 0 for nothing

quotaVars == <<qfile, usage>>

TREEOFF == 1                        \* QT_TREEOFF, the root; block 0 is the header
Depths == [d \in 1 .. TreeDepth |-> d - 1]      \* from the root down

get_index(id, depth) == (id \div Radix ^ (TreeDepth - depth - 1)) % Radix

UnusedEntry == [id |-> 0, use |-> 0]
NoRefs == [i \in 0 .. Radix - 1 |-> 0]
TreeBlock(refs) == [kind |-> "tree", refs |-> refs]
FreeBlockTo(next) == [kind |-> "free", next |-> next]
EmptyData == [kind |-> "data", next |-> 0, prev |-> 0, entries |-> 0,
              entry |-> [k \in 1 .. EntriesInBlock |-> UnusedEntry]]

-----------------------------------------------------------------------------
(* Free blocks                                                             *)

\* A block from the free list, or a new one at the end; block 0 for ENOSPC.
get_free_dqblk(q) ==
    IF q.freeBlk # 0
    THEN [q |-> [q EXCEPT !.freeBlk = q.blk[q.freeBlk].next], blk |-> q.freeBlk]
    ELSE IF q.blocks = MostQuotaBlocks THEN [q |-> q, blk |-> 0]
    ELSE [q |-> [q EXCEPT !.blocks = @ + 1, !.blk[q.blocks] = TreeBlock(NoRefs)], blk |-> q.blocks]

put_free_dqblk(q, b) == [q EXCEPT !.blk[b] = FreeBlockTo(q.freeBlk), !.freeBlk = b]

-----------------------------------------------------------------------------
(* Data blocks with free entries                                           *)

remove_free_dqentry_OneWay(q, b, buf) ==
    LET q1 == IF buf.prev # 0 THEN [q EXCEPT !.blk[buf.prev].next = buf.next]
              ELSE [q EXCEPT !.freeEntry = buf.next]
    IN  [q |-> q1, buf |-> [buf EXCEPT !.next = 0, !.prev = 0]]

\* Block b, whose contents are buf, leaves the list.
remove_free_dqentry(q, b, buf) ==
    LET q1 == IF buf.next # 0 THEN [q EXCEPT !.blk[buf.next].prev = buf.prev] ELSE q
        q2 == IF buf.prev # 0 THEN [q1 EXCEPT !.blk[buf.prev].next = buf.next]
              ELSE [q1 EXCEPT !.freeEntry = buf.next]
    IN  [q |-> q2, buf |-> [buf EXCEPT !.next = 0, !.prev = 0]]

insert_free_dqentry(q, b, buf) ==
    LET q1 == [q EXCEPT !.blk[b] = [buf EXCEPT !.next = q.freeEntry, !.prev = 0]]
        q2 == IF q.freeEntry # 0 THEN [q1 EXCEPT !.blk[q.freeEntry].prev = b] ELSE q1
    IN  [q2 EXCEPT !.freeEntry = b]

\* The block and the place in it for a new entry; block 0 if there is none.
find_free_dqentry(q) ==
    LET g == IF q.freeEntry # 0 THEN [q |-> q, blk |-> q.freeEntry] ELSE get_free_dqblk(q)
        q1 == [g.q EXCEPT !.freeEntry = g.blk]
        buf == IF q.freeEntry # 0 THEN q.blk[g.blk] ELSE EmptyData
        r == IF buf.entries + 1 >= EntriesInBlock THEN remove_free_dqentry(q1, g.blk, buf)
             ELSE [q |-> q1, buf |-> buf]
        place == CHOOSE k \in 1 .. EntriesInBlock :
                    /\ buf.entry[k] = UnusedEntry
                    /\ \A j \in 1 .. k - 1 : buf.entry[j] # UnusedEntry
    IN  IF g.blk = 0 THEN [q |-> q, blk |-> 0, place |-> 0]
        ELSE [q |-> [r.q EXCEPT !.blk[g.blk] = [r.buf EXCEPT !.entries = @ + 1]],
              blk |-> g.blk, place |-> place]

-----------------------------------------------------------------------------
(* The tree                                                                *)

\* The blocks from the root to the data block of id, as far as there are any
PathOf(q, id) ==
    FoldLeft(LAMBDA path, d :
                IF Len(path) # d + 1 \/ q.blk[path[d + 1]].refs[get_index(id, d)] = 0 THEN path
                ELSE Append(path, q.blk[path[d + 1]].refs[get_index(id, d)]),
             <<TREEOFF>>, Depths)

find_block_dqentry(q, id, b) ==
    CHOOSE k \in 0 .. EntriesInBlock :
        IF \E j \in 1 .. EntriesInBlock : q.blk[b].entry[j] # UnusedEntry /\ q.blk[b].entry[j].id = id
        THEN /\ k # 0 /\ q.blk[b].entry[k] # UnusedEntry /\ q.blk[b].entry[k].id = id
             /\ \A j \in 1 .. k - 1 : q.blk[b].entry[j] = UnusedEntry \/ q.blk[b].entry[j].id # id
        ELSE k = 0

\* Where the entry of id stands; block 0 if it has none.
find_dqentry(q, id) ==
    LET path == PathOf(q, id)
        b == path[TreeDepth + 1]
    IN  IF Len(path) = TreeDepth + 1 THEN [blk |-> b, place |-> find_block_dqentry(q, id, b)]
        ELSE [blk |-> 0, place |-> 0]

\* do_insert_tree on its way down: the blocks that are missing on the path of id
\* are taken, as long as there are any.
GrownPath(q, id) ==
    FoldLeft(LAMBDA a, d :
                LET g == get_free_dqblk(a.q)
                IN  IF d < Len(a.path) \/ ~a.ok THEN a
                    ELSE IF g.blk = 0 THEN [a EXCEPT !.ok = FALSE]
                    ELSE [a EXCEPT !.q = g.q, !.path = Append(@, g.blk)],
             [q |-> q, path |-> PathOf(q, id), ok |-> TRUE], Depths)

\* do_insert_tree on its way back after a failure: the new blocks are freed.
Withdrawn(q, path, had) ==
    FoldRight(LAMBDA b, r : put_free_dqblk(r, b), SubSeq(path, had + 1, Len(path)), q)

\* On its way back after success: the new blocks, and the last that was there,
\* are written with the reference to the one below.
Linked(q, id, path, had) ==
    FoldRight(LAMBDA d, r :
                 IF d + 1 < had THEN r
                 ELSE [r EXCEPT !.blk[path[d + 1]] =
                          TreeBlock([(IF d + 1 = had THEN q.blk[path[had]].refs ELSE NoRefs)
                                        EXCEPT ![get_index(id, d)] = path[d + 2]])],
              Depths, q)

\* The file, and the place of the new entry
do_insert_tree(q, id) ==
    LET had == Len(PathOf(q, id))
        a == GrownPath(q, id)
        e == find_free_dqentry(a.q)
    IN  IF a.ok /\ e.blk # 0
        THEN [q |-> Linked(e.q, id, Append(a.path, e.blk), had), blk |-> e.blk, place |-> e.place]
        ELSE [q |-> Withdrawn(a.q, a.path, had), blk |-> 0, place |-> 0]

\* An entry that found no room has the offset 0, and is written there, over the
\* header.
qtree_write_dquot(q, id, use) ==
    LET at == find_dqentry(q, id)
        e == IF at.blk # 0 THEN [q |-> q, blk |-> at.blk, place |-> at.place] ELSE do_insert_tree(q, id)
    IN  IF e.blk = 0 THEN [q |-> [e.q EXCEPT !.header = FALSE], ok |-> FALSE]
        ELSE [q |-> [e.q EXCEPT !.blk[e.blk].entry[e.place] = [id |-> id, use |-> use]], ok |-> TRUE]

free_dqentry(q, b, place) ==
    LET buf == [q.blk[b] EXCEPT !.entries = @ - 1]
        cleared == [buf EXCEPT !.entry[place] = UnusedEntry]
    IN  IF buf.entries = 0 THEN put_free_dqblk(remove_free_dqentry(q, b, buf).q, b)
        ELSE IF buf.entries = EntriesInBlock - 1 THEN insert_free_dqentry(q, b, cleared)
        ELSE [q EXCEPT !.blk[b] = cleared]

\* Block b, at depth d, loses its reference to a block that is gone, and goes
\* itself if it has no other.
Unlinked(a, id, b, d) ==
    LET refs == [a.q.blk[b].refs EXCEPT ![get_index(id, d)] = 0]
    IN  IF refs = NoRefs /\ b # TREEOFF THEN [q |-> put_free_dqblk(a.q, b), gone |-> TRUE]
        ELSE [q |-> [a.q EXCEPT !.blk[b] = TreeBlock(refs)], gone |-> FALSE]

remove_tree(q, id) ==
    LET path == PathOf(q, id)
        freed == free_dqentry(q, path[TreeDepth + 1], find_dqentry(q, id).place)
    IN  FoldRight(LAMBDA d, a : IF a.gone THEN Unlinked(a, id, path[d + 1], d) ELSE a,
                  Depths, [q |-> freed, gone |-> TRUE]).q

qtree_delete_dquot(q, id) == IF find_dqentry(q, id).blk = 0 THEN q ELSE remove_tree(q, id)

-----------------------------------------------------------------------------
\* A dquot is read, which finds its place, changed and committed; one that is all
\* zeroes is deleted.
v2_commit_dquot(id, use) ==
    LET w == qtree_write_dquot(qfile, id, use)
    IN  /\ qfile.blocks # 0
        /\ IF use = 0
           THEN qfile' = qtree_delete_dquot(qfile, id) /\ usage' = [usage EXCEPT ![id] = 0]
           ELSE qfile' = w.q /\ usage' = IF w.ok THEN [usage EXCEPT ![id] = use] ELSE usage

\* Before the file is made, and after
QuotaFile(blocks, header) ==
    [blocks |-> blocks, freeBlk |-> 0, freeEntry |-> 0, header |-> header,
     blk |-> [b \in 1 .. MostQuotaBlocks - 1 |-> TreeBlock(NoRefs)]]

v2_new_io ==
    /\ qfile.blocks = 0
    /\ qfile' = QuotaFile(TREEOFF + 1, TRUE)
    /\ UNCHANGED usage

QuotaInit == qfile = QuotaFile(0, FALSE) /\ usage = [id \in QuotaIds |-> 0]

QuotaNext ==
    \/ v2_new_io
    \/ \E id \in QuotaIds, use \in Usages \cup {0} : v2_commit_dquot(id, use)

-----------------------------------------------------------------------------
\* The blocks that refs lead to, level by level: the tree and the data blocks
Level(d) ==
    FoldLeft(LAMBDA S, k : UNION {{qfile.blk[b].refs[i] : i \in 0 .. Radix - 1} \ {0} : b \in S},
             {TREEOFF}, [k \in 1 .. d |-> k])
DataBlocks == Level(TreeDepth)
TreeBlocksInUse == UNION {Level(d) : d \in 0 .. TreeDepth - 1}

\* The blocks of a list from b on, at most as many as there are
ListFrom(b) ==
    FoldLeft(LAMBDA l, k : IF l = <<>> \/ qfile.blk[Last(l)].next = 0 THEN l
                           ELSE Append(l, qfile.blk[Last(l)].next),
             IF b = 0 THEN <<>> ELSE <<b>>, [k \in 1 .. MostQuotaBlocks |-> k])

qtree_scan_dquots ==
    UNION {{qfile.blk[b].entry[k] : k \in 1 .. EntriesInBlock} \ {UnusedEntry} : b \in DataBlocks}

\* Whatever was committed before, deleted again, and found no room, every number
\* reads as what was last committed for it, and a scan of the file meets exactly
\* these entries.
QuotasExact ==
    qfile.blocks # 0 =>
        /\ \A id \in QuotaIds :
              LET at == find_dqentry(qfile, id)
              IN  IF usage[id] = 0 THEN at.blk = 0
                  ELSE /\ at.blk # 0 /\ at.place # 0
                       /\ qfile.blk[at.blk].entry[at.place].use = usage[id]
        /\ qtree_scan_dquots = {[id |-> id, use |-> usage[id]] : id \in {i \in QuotaIds : usage[i] # 0}}

\* Every block of the file is in the tree, holds entries, or is in the free list,
\* and in one of them only; the data blocks with room, and no others, are in the
\* list of blocks with free entries, which is linked the same way forwards and
\* backwards; and blocks count their entries.
QuotaFileSound ==
    LET free == ListFrom(qfile.freeBlk)
        room == ListFrom(qfile.freeEntry)
        used(b) == {k \in 1 .. EntriesInBlock : qfile.blk[b].entry[k] # UnusedEntry}
    IN  qfile.blocks # 0 =>
        /\ IsInjective(free) /\ IsInjective(room)
        /\ TreeBlocksInUse \cap DataBlocks = {}
        /\ ToSet(free) = (1 .. qfile.blocks - 1) \ (TreeBlocksInUse \cup DataBlocks)
        /\ ToSet(room) = {b \in DataBlocks : qfile.blk[b].entries < EntriesInBlock}
        /\ \A i \in DOMAIN room : qfile.blk[room[i]].prev = IF i = 1 THEN 0 ELSE room[i - 1]
        /\ \A b \in DataBlocks : qfile.blk[b].entries = Cardinality(used(b)) /\ used(b) # {}

\* The quotas are what was committed, in a file that is sound.
QuotaCorrect == QuotasExact /\ QuotaFileSound
=============================================================================
