---------------------------- MODULE EaRefcount ----------------------------
(***************************************************************************)
(* How e2fsck's pass 1 puts the reference counts of shared extended        *)
(* attribute blocks right: check_ext_attr() counts down, for every inode,  *)
(* what the block's header promises, and adjust_extattr_refcount() settles *)
(* what is left over or went beyond (e2fsck/pass1.c).  The counts are kept *)
(* in the sorted list of e2fsck/ea_refcount.c, whose entries of value zero *)
(* stay until the list is full and is collapsed.  All questions are        *)
(* answered yes, the blocks can be read and written, and there is memory.  *)
(***************************************************************************)
EXTENDS SortedTable, FiniteSetsExt

CONSTANTS
    EaBlocks,       \* numbers of extended attribute blocks
    EaInodes,       \* how many inodes there are, numbered from 1
    HeaderCounts,   \* what a header may say
    Modulus,        \* 2^32: h_refcount and the counts are unsigned
    RefcountRooms   \* how many entries the lists may be created for (500)

ASSUME EaRefcountAssumption ==
    /\ EaBlocks \subseteq Nat \ {0}
    /\ EaInodes \in Nat /\ Modulus \in Nat \ {0} /\ EaInodes < Modulus
    /\ HeaderCounts \subseteq 0 .. Modulus - 1
    /\ RefcountRooms \subseteq Nat \ {0}

VARIABLES
    file_acl,   \* the block of each inode, 0 for none
    header,     \* h_refcount of each block
    damaged,    \* blocks whose header or entries are wrong
    ea          \* [at: inode checked next (0: not begun) or phase; block_ea_map;
                \*  refcount, refcount_extra: the lists]

refcountVars == <<file_acl, header, damaged, ea>>

-----------------------------------------------------------------------------
(* cursor counts from 0 as in the code; 0 for a position is "no element".   *)

\* The entries of the list that still count something, in order.
WithRefs(list) ==
    LET kept[n \in 0 .. Len(list)] ==
            IF n = 0 THEN <<>>
            ELSE IF list[n].val # 0 THEN Append(kept[n - 1], list[n]) ELSE kept[n - 1]
    IN  kept[Len(list)]

refcount_collapse(r) == [r EXCEPT !.list = WithRefs(@)]

insert_refcount_el(r, key, pos) ==
    [r |-> [r EXCEPT !.list = Inserted(@, pos, key),
                     !.size = IF Len(r.list) >= @ THEN @ + 100 ELSE @],
     at |-> pos]

\* The new key is the largest.
AppendRefcount(r, key) ==
    LET d == IF Len(r.list) >= r.size THEN refcount_collapse(r) ELSE r
    IN  insert_refcount_el(d, key, Len(d.list) + 1)

Largest(r, key) == r.list = <<>> \/ key > Last(r.list).key

LookUp(r, key) ==
    LET here == IF r.cursor >= Len(r.list) THEN 0 ELSE r.cursor
        found == Bsearch(r.list, key)
        pos == IF r.list[here + 1].key = key THEN here + 1 ELSE found[1]
        hit == r.list[here + 1].key = key \/ found[2]
    IN  [r |-> [r EXCEPT !.cursor = IF hit THEN pos ELSE here], pos |-> pos, hit |-> hit]

CreateRefcount_NoRetry(r, key, pos) ==
    LET d == IF Len(r.list) >= r.size THEN refcount_collapse(r) ELSE r
    IN  insert_refcount_el(d, key, Min({pos, Len(d.list) + 1}))

\* The key is not in the list and would be inserted at pos.  A collapse that
\* makes room is followed by a new search ("goto retry").
CreateRefcount(r, key, pos) ==
    LET d == IF Len(r.list) >= r.size THEN refcount_collapse(r) ELSE r
        again == LookUp(d, key)
    IN  IF Len(r.list) < r.size \/ Len(d.list) >= d.size
        THEN insert_refcount_el(d, key, pos)
        ELSE IF Largest(d, key) THEN AppendRefcount(d, key)
        ELSE insert_refcount_el(again.r, key, again.pos)

get_refcount_el(r, key, create) ==
    LET looked == LookUp(r, key)
    IN  IF create /\ Largest(r, key) THEN AppendRefcount(r, key)
        ELSE IF r.list = <<>> THEN [r |-> r, at |-> 0]
        ELSE IF looked.hit THEN [r |-> looked.r, at |-> looked.pos]
        ELSE IF create THEN CreateRefcount(looked.r, key, looked.pos)
        ELSE [r |-> looked.r, at |-> 0]

\* The operations return the list; decrement also tells whether it succeeded.
ea_refcount_create(room) == [list |-> <<>>, size |-> room, cursor |-> 0]

ea_refcount_store(r, key, n) ==
    LET g == get_refcount_el(r, key, n # 0)
    IN  IF g.at = 0 THEN g.r ELSE [g.r EXCEPT !.list[g.at].val = n]

ea_refcount_increment(r, key) ==
    LET g == get_refcount_el(r, key, TRUE)
    IN  [g.r EXCEPT !.list[g.at].val = @ + 1]

ea_refcount_decrement(r, key) ==
    LET g == get_refcount_el(r, key, FALSE)
    IN  IF g.at = 0 \/ g.r.list[g.at].val = 0 THEN [r |-> g.r, ok |-> FALSE]
        ELSE [r |-> [g.r EXCEPT !.list[g.at].val = @ - 1], ok |-> TRUE]

\* ea_refcount_intr_begin, and intr_next until it returns 0: the keys and values.
Iterated(r) == WithRefs(r.list)

-----------------------------------------------------------------------------
EaInit ==
    /\ file_acl = [i \in 1 .. EaInodes |-> 0]
    /\ header = [b \in EaBlocks |-> 1]
    /\ damaged = {}
    /\ ea = [at |-> 0, block_ea_map |-> {},
             refcount |-> ea_refcount_create(1), refcount_extra |-> ea_refcount_create(1)]

\* The file system that pass 1 meets.
Found ==
    /\ ea.at = 0
    /\ file_acl' \in [1 .. EaInodes -> EaBlocks \cup {0}]
    /\ header' \in [EaBlocks -> HeaderCounts]
    /\ damaged' \in {{}} \cup {{b} : b \in EaBlocks}
    /\ \E room \in RefcountRooms :
          ea' = [ea EXCEPT !.at = 1, !.refcount = ea_refcount_create(room),
                           !.refcount_extra = ea_refcount_create(room)]

Checks(blk) == ea.at \in 1 .. EaInodes /\ file_acl[ea.at] = blk

NoBlock ==
    /\ Checks(0)
    /\ ea' = [ea EXCEPT !.at = @ + 1]
    /\ UNCHANGED <<file_acl, header, damaged>>

SeenBefore(blk) ==
    LET less == ea_refcount_decrement(ea.refcount, blk)
    IN  /\ Checks(blk) /\ blk \in ea.block_ea_map
        /\ ea' = [ea EXCEPT !.at = @ + 1, !.refcount = less.r,
                            !.refcount_extra = IF less.ok THEN @ ELSE ea_refcount_increment(@, blk)]
        /\ UNCHANGED <<file_acl, header, damaged>>

\* h_refcount - 1 is unsigned: a header that says 0 promises 2^32 - 1 others.
FirstSeen(blk) ==
    /\ Checks(blk) /\ blk \notin ea.block_ea_map /\ blk \notin damaged
    /\ ea' = [ea EXCEPT !.at = @ + 1, !.block_ea_map = @ \cup {blk},
                        !.refcount = ea_refcount_store(@, blk, (header[blk] - 1) % Modulus)]
    /\ UNCHANGED <<file_acl, header, damaged>>

\* clear_extattr
EaCleared(blk) ==
    /\ Checks(blk) /\ blk \in damaged
    /\ file_acl' = [file_acl EXCEPT ![ea.at] = 0]
    /\ ea' = [ea EXCEPT !.at = @ + 1]
    /\ UNCHANGED <<header, damaged>>

check_ext_attr == NoBlock \/ \E blk \in EaBlocks : SeenBefore(blk) \/ FirstSeen(blk) \/ EaCleared(blk)

\* The value is taken as a signed int; adding it wraps around.
adjust_extattr_refcount(r, sign) ==
    LET Change(blk) ==
            LET found == {i \in 1 .. Len(Iterated(r)) : Iterated(r)[i].key = blk}
            IN  IF found = {} THEN 0 ELSE Iterated(r)[CHOOSE i \in found : TRUE].val
    IN  [blk \in EaBlocks |-> (header[blk] + sign * Change(blk)) % Modulus]

\* The end of e2fsck_pass1: first what is left over, then what went beyond.
SubtractRest ==
    /\ ea.at = EaInodes + 1
    /\ header' = adjust_extattr_refcount(ea.refcount, -1)
    /\ ea' = [ea EXCEPT !.at = @ + 1]
    /\ UNCHANGED <<file_acl, damaged>>

AddExtra ==
    /\ ea.at = EaInodes + 2
    /\ header' = adjust_extattr_refcount(ea.refcount_extra, 1)
    /\ ea' = [ea EXCEPT !.at = @ + 1]
    /\ UNCHANGED <<file_acl, damaged>>

EaNext == Found \/ check_ext_attr \/ SubtractRest \/ AddExtra

EaSpec == EaInit /\ [][EaNext]_refcountVars

-----------------------------------------------------------------------------
(* Properties.                                                             *)

\* Once pass 1 has adjusted the blocks, every extended attribute block that
\* inodes refer to counts exactly those inodes, whatever its header said before.
RefcountsRepaired ==
    ea.at = EaInodes + 3 =>
        \A blk \in ea.block_ea_map :
            header[blk] = Cardinality({i \in 1 .. EaInodes : file_acl[i] = blk})

\* ea_refcount_validate(): the lists stay sorted without duplicates, through
\* collapses and the searches started again after them; and a block is never
\* in both lists with references.
ListsValid ==
    /\ Sorted(ea.refcount.list) /\ Sorted(ea.refcount_extra.list)
    /\ ~ \E i \in 1 .. Len(Iterated(ea.refcount)), j \in 1 .. Len(Iterated(ea.refcount_extra)) :
            Iterated(ea.refcount)[i].key = Iterated(ea.refcount_extra)[j].key

\* Pass 1 repairs the reference counts, with lists that stay valid on the way.
RefcountsCorrect == RefcountsRepaired /\ ListsValid
=============================================================================
