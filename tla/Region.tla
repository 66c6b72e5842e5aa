------------------------------- MODULE Region -------------------------------
(***************************************************************************)
(* The map of used bytes with which e2fsck checks that the entries and     *)
(* values of an attribute block do not overlap (e2fsck/region.c): a linked *)
(* list of ranges in order, and a pointer to its last element that lets an *)
(* allocation at the end skip the search.                                  *)
(***************************************************************************)
EXTENDS SequencesExt, Integers

CONSTANTS RegionMin, RegionMax      \* region_create's arguments

ASSUME RegionAssumption == RegionMin \in Nat /\ RegionMax \in Nat

VARIABLES
    region,     \* [allocated: the list; last: the position of the element that
                \*  region->last points to, 0 for NULL]
    inUse       \* the addresses handed out

regionVars == <<region, inUse>>

Addresses == RegionMin .. RegionMax - 1

\* The new element at position pos of the list.  Without memory for it the call
\* returns -1 and leaves the list alone: a stuttering step of RegionAllocate.
AppendToList(r, pos, start, end) ==
    [allocated |-> InsertAt(r.allocated, pos, [start |-> start, end |-> end]),
     last |-> IF pos > Len(r.allocated) THEN pos
              ELSE IF r.last >= pos THEN r.last + 1 ELSE r.last]

\* Element k takes in the one behind it, which is freed.
MergeWithNext(r, k) ==
    [allocated |-> RemoveAt([r.allocated EXCEPT ![k].end = r.allocated[k + 1].end], k + 1),
     last |-> IF k + 1 = Len(r.allocated) THEN k
              ELSE IF r.last > k + 1 THEN r.last - 1 ELSE r.last]

Conflicts(el, start, end) ==
    \/ (start >= el.start /\ start < el.end)
    \/ (end > el.start /\ end <= el.end)
    \/ (start <= el.start /\ end >= el.end)

\* The search through the list stops at the first such element.
StopsAt(el, start, end) ==
    Conflicts(el, start, end) \/ end = el.start \/ start = el.end \/ start < el.start

AtElement_NextUnseen(r, k, start, end) ==
    LET el == r.allocated[k]
        next == r.allocated[k + 1]
    IN  IF Conflicts(el, start, end) THEN [r |-> r, ret |-> 1]
        ELSE IF end = el.start THEN [r |-> [r EXCEPT !.allocated[k].start = start], ret |-> 0]
        ELSE IF start = el.end
        THEN IF k < Len(r.allocated) /\ end = next.start
             THEN [r |-> MergeWithNext(r, k), ret |-> 0]
             ELSE [r |-> [r EXCEPT !.allocated[k].end = end], ret |-> 0]
        ELSE [r |-> AppendToList(r, k, start, end), ret |-> 0]

AtElement(r, k, start, end) ==
    LET el == r.allocated[k]
        next == r.allocated[k + 1]
    IN  IF Conflicts(el, start, end) THEN [r |-> r, ret |-> 1]
        ELSE IF end = el.start THEN [r |-> [r EXCEPT !.allocated[k].start = start], ret |-> 0]
        ELSE IF start = el.end
        THEN IF k < Len(r.allocated) /\ end > next.start THEN [r |-> r, ret |-> 1]
             ELSE IF k < Len(r.allocated) /\ end = next.start
             THEN [r |-> MergeWithNext(r, k), ret |-> 0]
             ELSE [r |-> [r EXCEPT !.allocated[k].end = end], ret |-> 0]
        ELSE [r |-> AppendToList(r, k, start, end), ret |-> 0]

\* 0: allocated, 1: conflict, -1: outside the region.
region_allocate(r, start, n) ==
    LET end == start + n
        tail == r.last # 0 /\ r.last = Len(r.allocated)
        stops == {k \in 1 .. Len(r.allocated) : StopsAt(r.allocated[k], start, end)}
        first == CHOOSE k \in stops : \A j \in stops : k <= j
    IN  IF start < RegionMin \/ end > RegionMax THEN [r |-> r, ret |-> -1]
        ELSE IF n = 0 THEN [r |-> r, ret |-> 1]
        ELSE IF tail /\ r.allocated[r.last].end = start
        THEN [r |-> [r EXCEPT !.allocated[r.last].end = end], ret |-> 0]
        ELSE IF (tail /\ start > r.allocated[r.last].end) \/ stops = {}
        THEN [r |-> AppendToList(r, Len(r.allocated) + 1, start, end), ret |-> 0]
        ELSE AtElement(r, first, start, end)

-----------------------------------------------------------------------------
\* region_create
RegionInit == region = [allocated |-> <<>>, last |-> 0] /\ inUse = {}

RegionAllocate ==
    \E start \in RegionMin - 1 .. RegionMax, n \in 0 .. RegionMax - RegionMin :
        LET got == region_allocate(region, start, n)
        IN  /\ region' = got.r
            /\ inUse' = IF got.ret = 0 THEN inUse \cup (start .. start + n - 1) ELSE inUse

\* region_free, and region_create for the next block
RegionRestart == region' = [allocated |-> <<>>, last |-> 0] /\ inUse' = {}

RegionNext == RegionAllocate \/ RegionRestart

RegionSpec == RegionInit /\ [][RegionNext]_regionVars

-----------------------------------------------------------------------------
(* Properties.                                                             *)

\* Once something has been handed out, and while there is memory for a new
\* element, a range is accepted exactly when it is in the region and none of its
\* bytes is in use, however earlier ranges were merged.
AcceptsFreeRanges ==
    inUse # {} => \A start \in Addresses, n \in 1 .. RegionMax - RegionMin :
        (region_allocate(region, start, n).ret = 0)
            <=> (start + n <= RegionMax /\ (start .. start + n - 1) \cap inUse = {})

\* The list holds exactly the bytes handed out, in order and without two ranges
\* that touch, and region->last points to its last element, never to a freed one.
RegionListSound ==
    LET list == region.allocated
    IN  /\ UNION {list[k].start .. list[k].end - 1 : k \in 1 .. Len(list)} = inUse
        /\ \A k \in 1 .. Len(list) - 1 : list[k].end < list[k + 1].start
        /\ region.last = Len(list)

\* region_allocate accepts the free ranges and no others, and keeps its list.
RegionCorrect == AcceptsFreeRanges /\ RegionListSound
=============================================================================
