------------------------------ MODULE RbBitmap ------------------------------
(***************************************************************************)
(* The bitmap kept as a red-black tree of extents                          *)
(* (lib/ext2fs/blkmap64_rb.c), with the three cursors it caches: wcursor,  *)
(* the extent inserted last, rcursor, the extent a test found, and         *)
(* rcursor_next, the one behind it.  The tree is a function from node      *)
(* numbers, which stand for addresses, to extents.  A search that finds    *)
(* nothing ends at the neighbour on one side or the other; every loop that *)
(* starts there passes over the extents in front, so the model starts it   *)
(* at the first extent behind.                                             *)
(***************************************************************************)
EXTENDS Integers, FiniteSetsExt

CONSTANT LastBit    \* bits are numbered 0 .. LastBit

ASSUME RbAssumption == LastBit \in Nat

VARIABLES
    bmap,       \* struct ext2fs_rb_private, with the end and real_end of the bitmap
    marked      \* the bits that are to be set

rbVars == <<bmap, marked>>

Bits == 0 .. LastBit
Null == 0
NodeNumbers == 1 .. LastBit + 2     \* one more than there can be extents

EmptyRb(end, realEnd) ==
    [ext |-> [n \in {} |-> [start |-> 0, count |-> 0]],
     wcursor |-> Null, rcursor |-> Null, rcursor_next |-> Null,
     end |-> end, real_end |-> realEnd]

Nodes(bp) == DOMAIN bp.ext
StartOf(bp, n) == bp.ext[n].start
EndOf(bp, n) == bp.ext[n].start + bp.ext[n].count
BitsOf(bp, n) == StartOf(bp, n) .. EndOf(bp, n) - 1
Holding(bp, bit) == {n \in Nodes(bp) : bit \in BitsOf(bp, n)}

\* ext2fs_rb_next, ext2fs_rb_first: the extent that starts first in ns.
Leftmost(bp, ns) ==
    IF ns = {} THEN Null
    ELSE CHOOSE n \in ns : \A m \in ns : StartOf(bp, n) <= StartOf(bp, m)
Behind(bp, n) == Leftmost(bp, {m \in Nodes(bp) : StartOf(bp, m) > StartOf(bp, n)})

rb_free_extent_CursorStays(bp, ns) ==
    [bp EXCEPT !.ext = [n \in Nodes(bp) \ ns |-> bp.ext[n]],
               !.rcursor = IF @ \in ns THEN Null ELSE @,
               !.rcursor_next = IF @ \in ns THEN Null ELSE @]

\* ext2fs_rb_erase and rb_free_extent of the nodes ns.
rb_free_extent(bp, ns) ==
    [bp EXCEPT !.ext = [n \in Nodes(bp) \ ns |-> bp.ext[n]],
               !.wcursor = IF @ \in ns THEN Null ELSE @,
               !.rcursor = IF @ \in ns THEN Null ELSE @,
               !.rcursor_next = IF @ \in ns THEN Null ELSE @]

Put(bp, n, from, to) ==
    [bp EXCEPT !.ext = [m \in Nodes(bp) \cup {n} |->
        IF m = n THEN [start |-> from, count |-> to - from] ELSE bp.ext[m]]]

-----------------------------------------------------------------------------
(* Operations: each returns the structure and its return value.            *)

rb_test_bit(bp, bit) ==
    LET next == IF bp.rcursor_next # Null THEN bp.rcursor_next ELSE Behind(bp, bp.rcursor)
        gap == next # Null /\ bit >= EndOf(bp, bp.rcursor) /\ bit < StartOf(bp, next)
        forgot == [bp EXCEPT !.rcursor = Null, !.rcursor_next = Null]
        start == IF bp.rcursor = Null THEN bp ELSE forgot
        found == Holding(bp, bit)
    IN  IF bp.rcursor # Null /\ bit \in BitsOf(bp, bp.rcursor) THEN [bp |-> bp, ret |-> 1]
        ELSE IF bp.rcursor # Null /\ gap
        THEN [bp |-> [bp EXCEPT !.rcursor_next = next], ret |-> 0]
        ELSE IF bp.rcursor # Null /\ bp.wcursor # Null /\ bit \in BitsOf(bp, bp.wcursor)
        THEN [bp |-> forgot, ret |-> 1]
        ELSE IF found = {} THEN [bp |-> start, ret |-> 0]
        ELSE [bp |-> [start EXCEPT !.rcursor = CHOOSE n \in found : TRUE, !.rcursor_next = Null],
              ret |-> 1]

\* skip_insert: node n, which holds from .. to-1, takes in the extents it meets.
MergeRight(bp, n, from, to) ==
    LET met == {m \in Nodes(bp) \ {n} : EndOf(bp, m) > from /\ StartOf(bp, m) <= to}
        stop == Max({to} \cup {EndOf(bp, m) : m \in met})
    IN  Put(rb_free_extent(bp, met), n, from, stop)

\* The search takes an extent that ends where the new one starts, so that the
\* merge with the extent on the left (rb_prev) never happens.
InsertRun(bp, start, count) ==
    LET stop == start + count
        Meets(n) == start \in StartOf(bp, n) .. EndOf(bp, n)
        met == IF bp.wcursor # Null /\ Meets(bp.wcursor) THEN {bp.wcursor}
               ELSE {n \in Nodes(bp) : Meets(n)}
        ext == CHOOSE n \in met : TRUE
        new == Min(NodeNumbers \ Nodes(bp))
    IN  IF met = {}
        THEN [bp |-> MergeRight([Put(bp, new, start, stop) EXCEPT !.wcursor = new],
                                new, start, stop), ret |-> 0]
        ELSE IF stop <= EndOf(bp, ext) THEN [bp |-> bp, ret |-> 1]
        ELSE [bp |-> MergeRight(bp, ext, StartOf(bp, ext), stop),
              ret |-> IF EndOf(bp, ext) = start THEN 0 ELSE 1]

rb_insert_extent(bp, start, count) ==
    IF count = 0 THEN [bp |-> bp, ret |-> 0]
    ELSE InsertRun([bp EXCEPT !.rcursor_next = Null], start, count)

\* The loop at the end of rb_remove_extent.  An extent that starts exactly
\* where the removed bits stop is "modified" by nothing, and counts as removed.
RemoveRight(bp, start, stop, ret) ==
    LET met == {n \in Nodes(bp) : EndOf(bp, n) > start /\ StartOf(bp, n) <= stop}
        whole == {n \in met : EndOf(bp, n) <= stop}
        rest == met \ whole
        b == rb_free_extent(bp, whole)
    IN  [bp |-> IF rest = {} THEN b
                ELSE LET n == CHOOSE n \in rest : TRUE IN Put(b, n, stop, EndOf(bp, n)),
         ret |-> IF met = {} THEN ret ELSE 1]

rb_remove_extent(bp, start, count) ==
    LET found == Holding(bp, start)
        n == CHOOSE n \in found : TRUE
        from == StartOf(bp, n)
        to == EndOf(bp, n)
        stop == start + count
    IN  IF Nodes(bp) = {} THEN [bp |-> bp, ret |-> 0]
        ELSE IF found = {} THEN RemoveRight(bp, start, stop, 0)
        ELSE IF start > from /\ stop < to
        THEN [bp |-> rb_insert_extent(Put(bp, n, from, start), stop, to - stop).bp, ret |-> 1]
        ELSE IF stop >= to
        THEN RemoveRight(IF start = from THEN rb_free_extent(bp, {n}) ELSE Put(bp, n, from, start),
                         start, stop, 1)
        ELSE [bp |-> Put(bp, n, stop, to), ret |-> 1]

rb_test_clear_bmap_extent(bp, start, len) ==
    \/ len = 0
    \/ /\ Holding(bp, start) = {}
       /\ LET next == Leftmost(bp, {n \in Nodes(bp) : EndOf(bp, n) > start})
          IN  next = Null \/ start + len <= StartOf(bp, next)

\* rb_set_bmap_range: one insertion for every run of ones in the buffer.  The
\* zeros of the buffer clear nothing.
rb_set_bmap_range(bp, ones) ==
    LET firsts == {b \in ones : b - 1 \notin ones}
        Nth(k) == CHOOSE b \in firsts : Cardinality({c \in firsts : c <= b}) = k
        RunOf(b) == Min({c \in b .. LastBit + 1 : c \notin ones}) - b
        put[k \in 0 .. Cardinality(firsts)] ==
            IF k = 0 THEN bp ELSE rb_insert_extent(put[k - 1], Nth(k), RunOf(Nth(k))).bp
    IN  put[Cardinality(firsts)]

\* The ones of the buffer that held the ones "before"; an empty tree leaves it alone.
rb_get_bmap_range(bp, start, num, before) ==
    LET from == {n \in Nodes(bp) : EndOf(bp, n) >= start /\ StartOf(bp, n) < start + num}
    IN  IF Nodes(bp) = {} THEN before
        ELSE (UNION {BitsOf(bp, n) : n \in from}) \cap (start .. start + num - 1)

ENOENT == -1

\* Both return the bit found, or ENOENT.
rb_find_first_zero(bp, start, end) ==
    LET found == Holding(bp, start)
        to == EndOf(bp, CHOOSE n \in found : TRUE)
    IN  IF Nodes(bp) = {} THEN ENOENT
        ELSE IF found = {} THEN start
        ELSE IF to <= end THEN to ELSE ENOENT

rb_find_first_set(bp, start, end) ==
    LET next == Leftmost(bp, {n \in Nodes(bp) : StartOf(bp, n) >= start})
    IN  IF Holding(bp, start) # {} THEN start
        ELSE IF next # Null /\ StartOf(bp, next) <= end THEN StartOf(bp, next)
        ELSE ENOENT

\* Everything above newMax is cut off; freed nodes are not looked for in the cursors.
rb_truncate(bp, newMax) ==
    LET kept == {n \in Nodes(bp) : StartOf(bp, n) <= newMax}
    IN  [bp EXCEPT !.ext = [n \in kept |->
            [start |-> StartOf(bp, n),
             count |-> Min({EndOf(bp, n), newMax + 1}) - StartOf(bp, n)]]]

rb_resize_bmap(bp, newEnd, newRealEnd) ==
    LET cut == rb_truncate([bp EXCEPT !.rcursor = Null, !.wcursor = Null],
                           IF newEnd < bp.end THEN newEnd ELSE bp.end)
        sized == [cut EXCEPT !.end = newEnd, !.real_end = newRealEnd]
    IN  IF newEnd < newRealEnd
        THEN rb_insert_extent(sized, newEnd + 1, newRealEnd - newEnd).bp
        ELSE sized

\* rb_copy_bmap: what becomes of the source; the copy has no cursors at all.
rb_copy_bmap_source(bp) == [bp EXCEPT !.rcursor = Null]
rb_copy_bmap_dest(bp) == [EmptyRb(bp.end, bp.real_end) EXCEPT !.ext = bp.ext]

rb_clear_bmap(bp) == EmptyRb(bp.end, bp.real_end)

-----------------------------------------------------------------------------
(* A caller's sequence of calls, through gen_bitmap64.c, which lets through *)
(* only bits up to "end".                                                   *)

RbInit == bmap = EmptyRb(LastBit, LastBit) /\ marked = {}

Runs == {run \in Bits \X (0 .. LastBit + 1) : run[1] + run[2] - 1 <= bmap.end}
RunBits(run) == run[1] .. run[1] + run[2] - 1

RbMark ==
    \E run \in Runs :
        /\ bmap' = rb_insert_extent(bmap, run[1], run[2]).bp
        /\ marked' = marked \cup RunBits(run)

RbUnmark ==
    \E run \in Runs :
        /\ bmap' = rb_remove_extent(bmap, run[1], run[2]).bp
        /\ marked' = marked \ RunBits(run)

RbTest ==
    \E bit \in 0 .. bmap.end :
        /\ bmap' = rb_test_bit(bmap, bit).bp
        /\ UNCHANGED marked

RbSetRange ==
    \E ones \in SUBSET (0 .. bmap.end) :
        /\ bmap' = rb_set_bmap_range(bmap, ones)
        /\ marked' = marked \cup ones

RbResize ==
    \E newEnd \in Bits : \E newRealEnd \in newEnd .. LastBit :
        /\ bmap' = rb_resize_bmap(bmap, newEnd, newRealEnd)
        /\ marked' = (marked \cap (0 .. Min({newEnd, bmap.end}))) \cup (newEnd + 1 .. newRealEnd)

RbCopy ==
    /\ bmap' \in {rb_copy_bmap_source(bmap), rb_copy_bmap_dest(bmap)}
    /\ UNCHANGED marked

RbClear == bmap' = rb_clear_bmap(bmap) /\ marked' = {}

RbNext == RbMark \/ RbUnmark \/ RbTest \/ RbSetRange \/ RbResize \/ RbCopy \/ RbClear

RbSpec == RbInit /\ [][RbNext]_rbVars

-----------------------------------------------------------------------------
(* Properties.                                                             *)

\* What check_tree() demands after every call: extents are not empty, neither
\* meet nor overlap, and hold exactly the bits that are set; and no cursor that
\* a later call follows points to a freed extent.
RbTreeSound ==
    /\ \A n \in Nodes(bmap) : bmap.ext[n].count > 0
    /\ \A m, n \in Nodes(bmap) :
          StartOf(bmap, m) < StartOf(bmap, n) => EndOf(bmap, m) < StartOf(bmap, n)
    /\ UNION {BitsOf(bmap, n) : n \in Nodes(bmap)} = marked
    /\ bmap.wcursor \in Nodes(bmap) \cup {Null}
    /\ bmap.rcursor \in Nodes(bmap) \cup {Null}
    /\ bmap.rcursor # Null => bmap.rcursor_next \in Nodes(bmap) \cup {Null}

\* A bit reads as it was last written, whatever the cursors remember of earlier
\* calls, and marking a bit tells whether it was set before.
RbTestsExact ==
    \A bit \in 0 .. bmap.end :
        /\ (rb_test_bit(bmap, bit).ret = 1) = (bit \in marked)
        /\ (rb_insert_extent(bmap, bit, 1).ret = 1) = (bit \in marked)

\* Searches and ranges report what the bits say, in a tree that is not empty.
RbSearchesExact ==
    marked # {} =>
        \A start \in 0 .. bmap.end : \A end \in start .. bmap.end :
            LET zeros == (start .. end) \ marked
                ones == (start .. end) \cap marked
            IN  /\ rb_find_first_zero(bmap, start, end) = IF zeros = {} THEN ENOENT ELSE Min(zeros)
                /\ rb_find_first_set(bmap, start, end) = IF ones = {} THEN ENOENT ELSE Min(ones)
                /\ rb_test_clear_bmap_extent(bmap, start, end - start + 1) = (ones = {})
                /\ rb_get_bmap_range(bmap, start, end - start + 1, {}) = ones

\* The tree stays sound, and every test and search of it gives what a plain array
\* of bits would.
RbBitmapCorrect == RbTreeSound /\ RbTestsExact /\ RbSearchesExact
=============================================================================
