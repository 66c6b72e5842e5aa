-------------------------- MODULE LibraryProofs --------------------------
(***************************************************************************)
(* Proofs about four of the library's data structures, for every size.     *)
(*                                                                         *)
(*   region.c          the bytes of a block that are spoken for, as a      *)
(*                     sorted list of ranges (module Region);              *)
(*   blkmap64_rb.c     a bitmap as a tree of extents with three cursors    *)
(*                     into it (module RbBitmap);                          *)
(*   inode.c           the cache of inodes and the buffered block of the   *)
(*                     inode table (module InodeCache);                    *)
(*   fileio.c          a file read and written through a handle with one   *)
(*                     block of buffer (module FileIO).                    *)
(*                                                                         *)
(* The first two keep a compressed form of a plain set.  The inductive     *)
(* invariant says that the compressed form is canonical and stands for     *)
(* exactly that set, and for the bitmap also what the cursors are trusted  *)
(* for.  The third keeps copies: the invariant says that none is older     *)
(* than the last write, as long as no inode with a wrong checksum is read  *)
(* over a cached one and a failing read leaves the buffer alone.  The      *)
(* fourth keeps a copy that may be newer than the disk: the invariant says *)
(* what is expected of the disk wherever the buffer is not ahead of it,    *)
(* and of the buffer.                                                      *)
(***************************************************************************)
EXTENDS Region, RbBitmap, InodeCache, FileIO, FiniteSetTheorems, WellFoundedInduction,
        NaturalsInduction, TLAPS

-----------------------------------------------------------------------------
(* Regions of a block.  *)

\* The elements of region->allocated, and the region itself, as types.
Ranges == [start : Int, end : Int]
RegionRecords == [allocated : Seq(Ranges), last : Nat]

\* Not empty, in the region, in order and apart.
Spread(list) ==
    /\ list \in Seq(Ranges)
    /\ \A k \in 1 .. Len(list) : /\ list[k].start < list[k].end
                                  /\ RegionMin <= list[k].start /\ list[k].end <= RegionMax
    /\ \A k, m \in 1 .. Len(list) : k < m => list[k].end < list[m].start

\* Address a lies in an element of the list.
Holds(list, a) == \E k \in 1 .. Len(list) : list[k].start <= a /\ a < list[k].end

\* lo .. hi - 1 lies in the region, behind the first k elements and before element m.
Gap(list, k, m, lo, hi) ==
    /\ RegionMin <= lo /\ lo < hi /\ hi <= RegionMax
    /\ \A i \in 1 .. k : list[i].end < lo
    /\ \A i \in m .. Len(list) : hi < list[i].start

\* A set of natural numbers that is not empty has a least element. What a loop
\* or a search of the code stops at is such a least element.
LEMMA NatMin == ASSUME NEW T, T \subseteq Nat, T # {} PROVE \E x \in T : \A y \in T : x <= y
<1>1. IsWellFoundedOn(OpToRel(<, Nat), Nat)
  BY NatLessThanWellFounded
<1>2. PICK x \in T : \A y \in T : ~ (<<y, x>> \in OpToRel(<, Nat))
  BY <1>1, WFMin
<1>3. \A y \in T : ~(y < x)
  BY <1>2 DEF OpToRel
<1> QED BY <1>3

\* Induction over the naturals, for the set of numbers that have the property.
LEMMA SetInduction == ASSUME NEW S, 0 \in S, \A n \in Nat : n \in S => n + 1 \in S PROVE Nat \subseteq S
<1> SUFFICES ASSUME Nat \ S # {} PROVE FALSE
  OBVIOUS
<1>2. PICK x \in Nat \ S : \A y \in Nat \ S : x <= y
  BY NatMin
<1>3. x # 0 /\ x - 1 \in Nat /\ x - 1 \in S
  BY <1>2
<1> QED BY <1>3

\* The bounds of the region are integers.
LEMMA RegionConstants == RegionMin \in Int /\ RegionMax \in Int
BY RegionAssumption

\* What \o returns.
LEMMA Joined ==
    ASSUME NEW S, NEW a \in Seq(S), NEW b \in Seq(S)
    PROVE  /\ a \o b \in Seq(S) /\ Len(a \o b) = Len(a) + Len(b) /\ Len(a) \in Nat /\ Len(b) \in Nat
           /\ \A k \in 1 .. Len(a) : (a \o b)[k] = a[k]
           /\ \A k \in Len(a) + 1 .. Len(a) + Len(b) :
                k - Len(a) \in 1 .. Len(b) /\ (a \o b)[k] = b[k - Len(a)]
OBVIOUS

\* What InsertAt returns: the elements behind position k move up by one.
LEMMA Insertion ==
    ASSUME NEW list \in Seq(Ranges), NEW k \in 1 .. Len(list) + 1, NEW e \in Ranges
    PROVE  /\ InsertAt(list, k, e) \in Seq(Ranges)
           /\ Len(InsertAt(list, k, e)) = Len(list) + 1
           /\ \A i \in 1 .. Len(list) + 1 :
                 InsertAt(list, k, e)[i] = IF i < k THEN list[i] ELSE IF i = k THEN e ELSE list[i - 1]
<1> DEFINE front == SubSeq(list, 1, k - 1)
           back == SubSeq(list, k, Len(list))
<1>1. front \in Seq(Ranges) /\ Len(front) = k - 1 /\ \A i \in 1 .. k - 1 : front[i] = list[i]
  OBVIOUS
<1>2. back \in Seq(Ranges) /\ Len(back) = Len(list) - k + 1
      /\ \A i \in 1 .. Len(list) - k + 1 : back[i] = list[k + i - 1]
  OBVIOUS
<1> HIDE DEF front, back
<1> DEFINE half == front \o <<e>>
<1>3. half \in Seq(Ranges) /\ Len(half) = k /\ \A i \in 1 .. k : half[i] = IF i < k THEN list[i] ELSE e
  BY <1>1
<1> HIDE DEF half
<1>4. /\ half \o back \in Seq(Ranges) /\ Len(half \o back) = Len(list) + 1
      /\ \A i \in 1 .. Len(list) + 1 :
            (half \o back)[i] = IF i < k THEN list[i] ELSE IF i = k THEN e ELSE list[i - 1]
  <2>1. /\ half \o back \in Seq(Ranges) /\ Len(half \o back) = Len(list) + 1
        /\ \A i \in 1 .. k : (half \o back)[i] = half[i]
        /\ \A i \in k + 1 .. Len(list) + 1 :
             i - k \in 1 .. Len(list) - k + 1 /\ (half \o back)[i] = back[i - k]
    <3>1. /\ half \o back \in Seq(Ranges) /\ Len(half \o back) = Len(half) + Len(back)
          /\ \A i \in 1 .. Len(half) : (half \o back)[i] = half[i]
          /\ \A i \in Len(half) + 1 .. Len(half) + Len(back) :
               i - Len(half) \in 1 .. Len(back) /\ (half \o back)[i] = back[i - Len(half)]
      BY <1>2, <1>3, Joined, ZenonT(60)
    <3>2. Len(half) = k /\ Len(back) = Len(list) - k + 1 /\ k + (Len(list) - k + 1) = Len(list) + 1
      BY <1>2, <1>3
    <3> QED BY <3>1, <3>2
  <2>2. \A i \in k + 1 .. Len(list) + 1 : back[i - k] = list[i - 1]
    <3> TAKE i \in k + 1 .. Len(list) + 1
    <3>1. i - k \in 1 .. Len(list) - k + 1 /\ k + (i - k) - 1 = i - 1
      OBVIOUS
    <3> QED BY <1>2, <3>1
  <2> QED BY <1>3, <2>1, <2>2
<1>5. InsertAt(list, k, e) = half \o back
  BY DEF InsertAt, half, front, back
<1> QED BY <1>4, <1>5

\* What RemoveAt returns: the elements behind position k move down by one.
LEMMA Removal ==
    ASSUME NEW list \in Seq(Ranges), NEW k \in 1 .. Len(list)
    PROVE  /\ RemoveAt(list, k) \in Seq(Ranges)
           /\ Len(RemoveAt(list, k)) = Len(list) - 1
           /\ \A i \in 1 .. Len(list) - 1 : RemoveAt(list, k)[i] = IF i < k THEN list[i] ELSE list[i + 1]
<1> DEFINE front == SubSeq(list, 1, k - 1)
           back == SubSeq(list, k + 1, Len(list))
<1>1. front \in Seq(Ranges) /\ Len(front) = k - 1 /\ \A i \in 1 .. k - 1 : front[i] = list[i]
  OBVIOUS
<1>2. back \in Seq(Ranges) /\ Len(back) = Len(list) - k
      /\ \A i \in 1 .. Len(list) - k : back[i] = list[k + i]
  OBVIOUS
<1> HIDE DEF front, back
<1>4. /\ front \o back \in Seq(Ranges) /\ Len(front \o back) = Len(list) - 1
      /\ \A i \in 1 .. Len(list) - 1 :
            (front \o back)[i] = IF i < k THEN list[i] ELSE list[i + 1]
  <2>1. /\ front \o back \in Seq(Ranges) /\ Len(front \o back) = Len(list) - 1
        /\ \A i \in 1 .. k - 1 : (front \o back)[i] = front[i]
        /\ \A i \in k .. Len(list) - 1 :
             i - (k - 1) \in 1 .. Len(list) - k /\ (front \o back)[i] = back[i - (k - 1)]
    <3>1. /\ front \o back \in Seq(Ranges) /\ Len(front \o back) = Len(front) + Len(back)
          /\ \A i \in 1 .. Len(front) : (front \o back)[i] = front[i]
          /\ \A i \in Len(front) + 1 .. Len(front) + Len(back) :
               i - Len(front) \in 1 .. Len(back) /\ (front \o back)[i] = back[i - Len(front)]
      BY <1>1, <1>2, Joined, ZenonT(60)
    <3>2. /\ Len(front) = k - 1 /\ Len(back) = Len(list) - k
          /\ k - 1 + 1 = k /\ k - 1 + (Len(list) - k) = Len(list) - 1
      BY <1>1, <1>2
    <3> QED BY <3>1, <3>2
  <2>2. \A i \in k .. Len(list) - 1 : back[i - (k - 1)] = list[i + 1]
    <3> TAKE i \in k .. Len(list) - 1
    <3>1. i - (k - 1) \in 1 .. Len(list) - k /\ k + (i - (k - 1)) = i + 1
      OBVIOUS
    <3> QED BY <1>2, <3>1
  <2> QED BY <1>1, <2>1, <2>2
<1>5. RemoveAt(list, k) = front \o back
  BY DEF RemoveAt, front, back
<1> QED BY <1>4, <1>5

\* What one element of the list is replaced by
LEMMA Replacement ==
    ASSUME NEW list \in Seq(Ranges), NEW k \in 1 .. Len(list), NEW e \in Ranges
    PROVE  /\ [list EXCEPT ![k] = e] \in Seq(Ranges)
           /\ Len([list EXCEPT ![k] = e]) = Len(list)
           /\ \A i \in 1 .. Len(list) : [list EXCEPT ![k] = e][i] = IF i = k THEN e ELSE list[i]
OBVIOUS


\* A list is known by where its elements start and end.
LEMMA Elements ==
    ASSUME NEW list \in Seq(Ranges)
    PROVE  /\ Len(list) \in Nat
           /\ \A i \in 1 .. Len(list) : /\ list[i] = [start |-> list[i].start, end |-> list[i].end]
                                       /\ list[i].start \in Int /\ list[i].end \in Int
<1>1. Len(list) \in Nat /\ \A i \in 1 .. Len(list) : list[i] \in Ranges
  OBVIOUS
<1>2. \A e \in Ranges : e = [start |-> e.start, end |-> e.end] /\ e.start \in Int /\ e.end \in Int
  BY DEF Ranges
<1> QED BY <1>1, <1>2

\* Element k of new is a new one; the others are the elements Kept of list, element
\* i of it at position at[i].
Placed(list, new, k, Kept, at) ==
    /\ new \in Seq(Ranges) /\ k \in 1 .. Len(new)
    /\ Kept \in SUBSET (1 .. Len(list)) /\ at \in [Kept -> 1 .. Len(new)]
    /\ \A i \in Kept : new[at[i]] = list[i] /\ at[i] # k
    /\ \A m \in 1 .. Len(new) : m = k \/ \E i \in Kept : m = at[i]
    /\ \A i, j \in Kept : at[i] < at[j] => i < j

\* The new element is in the region, apart from these, and holds those left out.
Apart(list, new, k, Kept, at) ==
    \A i \in Kept : /\ at[i] < k => list[i].end < new[k].start
                    /\ k < at[i] => new[k].end < list[i].start
InRegion(new, k) ==
    RegionMin <= new[k].start /\ new[k].start < new[k].end /\ new[k].end <= RegionMax
Takes(list, new, k, Kept) ==
    \A i \in (1 .. Len(list)) \ Kept : new[k].start <= list[i].start /\ list[i].end <= new[k].end
Fitting(list, new, k, Kept, at) ==
    Apart(list, new, k, Kept, at) /\ InRegion(new, k) /\ Takes(list, new, k, Kept)

Rebuild(list, new, k, Kept, at) == Placed(list, new, k, Kept, at) /\ Fitting(list, new, k, Kept, at)

\* A rebuilt list is spread out again, and holds what the old one held and the
\* new element.
LEMMA Rebuilt ==
    ASSUME NEW list, Spread(list), NEW new, NEW k, NEW Kept, NEW at, Rebuild(list, new, k, Kept, at)
    PROVE  /\ Spread(new)
           /\ \A a \in Int : Holds(new, a) <=> Holds(list, a) \/ (new[k].start <= a /\ a < new[k].end)
<1>1. list \in Seq(Ranges) /\ new \in Seq(Ranges) /\ k \in 1 .. Len(new)
  BY DEF Spread, Rebuild, Placed
<1>2. /\ Len(list) \in Nat /\ \A i \in 1 .. Len(list) : list[i].start \in Int /\ list[i].end \in Int
      /\ Len(new) \in Nat /\ \A i \in 1 .. Len(new) : new[i].start \in Int /\ new[i].end \in Int
  BY <1>1, Elements
<1>3. /\ \A i \in Kept : i \in 1 .. Len(list) /\ at[i] \in 1 .. Len(new) /\ new[at[i]] = list[i] /\ at[i] # k
      /\ \A m \in 1 .. Len(new) : m = k \/ \E i \in Kept : m = at[i]
  BY DEF Rebuild, Placed, Fitting, Apart, InRegion, Takes
<1>4. /\ RegionMin <= new[k].start /\ new[k].start < new[k].end /\ new[k].end <= RegionMax
      /\ \A i \in (1 .. Len(list)) \ Kept : new[k].start <= list[i].start /\ list[i].end <= new[k].end
  BY DEF Rebuild, Placed, Fitting, Apart, InRegion, Takes
<1>5. Spread(new)
  <2>1. ASSUME NEW m \in 1 .. Len(new)
        PROVE  /\ new[m].start < new[m].end
               /\ RegionMin <= new[m].start /\ new[m].end <= RegionMax
    <3>1. CASE m = k
      BY <1>4, <3>1
    <3>2. ASSUME NEW i \in Kept, m = at[i] PROVE  /\ new[m].start < new[m].end
                 /\ RegionMin <= new[m].start /\ new[m].end <= RegionMax
      BY <3>2, <1>3 DEF Spread
    <3> QED BY <1>3, <3>1, <3>2
  <2>2. ASSUME NEW p \in 1 .. Len(new), NEW m \in 1 .. Len(new), p < m
        PROVE  new[p].end < new[m].start
    <3>1. ASSUME NEW i \in Kept, p = at[i], m = k PROVE new[p].end < new[m].start
      BY <2>2, <3>1, <1>3 DEF Rebuild, Placed, Fitting, Apart, InRegion, Takes
    <3>2. ASSUME NEW i \in Kept, m = at[i], p = k PROVE new[p].end < new[m].start
      BY <2>2, <3>2, <1>1, <1>3 DEF Rebuild, Placed, Fitting, Apart, InRegion, Takes
    <3>3. ASSUME NEW i \in Kept, NEW j \in Kept, p = at[i], m = at[j] PROVE new[p].end < new[m].start
      <4>1. i < j
        BY <2>2, <3>3 DEF Rebuild, Placed
      <4> QED BY <3>3, <4>1, <1>3 DEF Spread
    <3> QED BY <2>2, <1>1, <1>3, <3>1, <3>2, <3>3
  <2> QED BY <1>1, <2>1, <2>2 DEF Spread
<1>6. ASSUME NEW a \in Int
      PROVE  Holds(new, a) <=> Holds(list, a) \/ (new[k].start <= a /\ a < new[k].end)
  <2>1. ASSUME NEW m \in 1 .. Len(new), new[m].start <= a, a < new[m].end, m # k PROVE Holds(list, a)
    <3>1. PICK i \in Kept : m = at[i]
      BY <1>3, <2>1
    <3> QED BY <1>3, <2>1, <3>1 DEF Holds
  <2>2. ASSUME NEW i \in 1 .. Len(list), list[i].start <= a, a < list[i].end PROVE Holds(new, a)
    <3>1. CASE i \in Kept
      BY <1>3, <2>2, <3>1 DEF Holds
    <3>2. CASE i \notin Kept
      BY <1>1, <1>2, <1>4, <2>2, <3>2 DEF Holds
    <3> QED BY <3>1, <3>2
  <2> QED BY <1>1, <2>1, <2>2 DEF Holds
<1> QED BY <1>5, <1>6

\* An element takes in the range next to it,
LEMMA Widens ==
    ASSUME NEW list, Spread(list), NEW k \in 1 .. Len(list), NEW lo \in Int, NEW hi \in Int,
           Gap(list, k - 1, k + 1, lo, hi), lo <= list[k].start, list[k].end <= hi
    PROVE  LET new == [list EXCEPT ![k] = [start |-> lo, end |-> hi]] IN
           /\ Spread(new) /\ Len(new) = Len(list)
           /\ \A a \in Int : Holds(new, a) <=> Holds(list, a) \/ (lo <= a /\ a < hi)
<1> DEFINE new == [list EXCEPT ![k] = [start |-> lo, end |-> hi]]
           e == [start |-> lo, end |-> hi]
           Kept == (1 .. Len(list)) \ {k}
           at == [i \in Kept |-> i]
<1>1. list \in Seq(Ranges) /\ Len(list) \in Nat
  BY DEF Spread
<1>2. e \in Ranges /\ e.start = lo /\ e.end = hi /\ new = [list EXCEPT ![k] = e]
  BY DEF Ranges
<1> HIDE DEF e, new
<1>3. /\ new \in Seq(Ranges) /\ Len(new) = Len(list)
      /\ \A i \in 1 .. Len(list) : new[i] = IF i = k THEN e ELSE list[i]
  BY <1>1, <1>2, Replacement
<1>4. new[k].start = lo /\ new[k].end = hi /\ k \in 1 .. Len(new)
  BY <1>2, <1>3
<1>5. at \in [Kept -> 1 .. Len(new)] /\ \A i \in Kept : at[i] = i /\ i \in 1 .. Len(list) /\ i # k
  BY <1>3
<1>6. Kept \in SUBSET (1 .. Len(list)) /\ (1 .. Len(list)) \ Kept = {k}
  OBVIOUS
<1> HIDE DEF Kept, at
<1>7. \A m \in 1 .. Len(new) : m = k \/ \E i \in Kept : m = at[i]
  BY <1>3, <1>5, <1>6
<1>8. \A i, j \in Kept : at[i] < at[j] => i < j
  BY <1>5
<1>9. \A i \in Kept : /\ at[i] < k => list[i].end < new[k].start
                      /\ k < at[i] => new[k].end < list[i].start
  BY <1>1, <1>4, <1>5 DEF Gap
<1>10. RegionMin <= new[k].start /\ new[k].start < new[k].end /\ new[k].end <= RegionMax
  BY <1>4 DEF Gap
<1>11. \A i \in (1 .. Len(list)) \ Kept : new[k].start <= list[i].start /\ list[i].end <= new[k].end
  BY <1>4, <1>6
<1>12. \A i \in Kept : new[at[i]] = list[i] /\ at[i] # k
  BY <1>3, <1>5
<1>13. Rebuild(list, new, k, Kept, at)
  <2>1. Placed(list, new, k, Kept, at)
    BY <1>3, <1>4, <1>5, <1>6, <1>7, <1>8, <1>11, <1>12 DEF Placed
  <2>2. Fitting(list, new, k, Kept, at)
    <3>1. Apart(list, new, k, Kept, at)
      BY <1>9 DEF Apart
    <3>2. InRegion(new, k)
      BY <1>10 DEF InRegion
    <3>3. Takes(list, new, k, Kept)
      BY <1>11 DEF Takes
    <3> QED BY <3>1, <3>2, <3>3 DEF Fitting
  <2> QED BY <2>1, <2>2 DEF Rebuild
<1>14. /\ Spread(new)
       /\ \A a \in Int : Holds(new, a) <=> Holds(list, a) \/ (new[k].start <= a /\ a < new[k].end)
  BY <1>13, Rebuilt
<1>15. \A a \in Int : Holds(new, a) <=> Holds(list, a) \/ (lo <= a /\ a < hi)
  BY <1>4, <1>14
<1> QED BY <1>3, <1>14, <1>15 DEF new

\* a new element stands between two others, or at an end,
LEMMA Inserts ==
    ASSUME NEW list, Spread(list), NEW k \in 1 .. Len(list) + 1, NEW lo \in Int, NEW hi \in Int,
           Gap(list, k - 1, k, lo, hi)
    PROVE  LET new == InsertAt(list, k, [start |-> lo, end |-> hi]) IN
           /\ Spread(new) /\ Len(new) = Len(list) + 1
           /\ \A a \in Int : Holds(new, a) <=> Holds(list, a) \/ (lo <= a /\ a < hi)
<1> DEFINE new == InsertAt(list, k, [start |-> lo, end |-> hi])
           e == [start |-> lo, end |-> hi]
           Kept == 1 .. Len(list)
           at == [i \in Kept |-> IF i < k THEN i ELSE i + 1]
<1>1. list \in Seq(Ranges) /\ Len(list) \in Nat
  BY DEF Spread
<1>2. e \in Ranges /\ e.start = lo /\ e.end = hi /\ new = InsertAt(list, k, e)
  BY DEF Ranges
<1> HIDE DEF e, new
<1>3. /\ new \in Seq(Ranges) /\ Len(new) = Len(list) + 1
      /\ \A i \in 1 .. Len(list) + 1 : new[i] = IF i < k THEN list[i] ELSE IF i = k THEN e ELSE list[i - 1]
  <2>1. /\ InsertAt(list, k, e) \in Seq(Ranges)
        /\ Len(InsertAt(list, k, e)) = Len(list) + 1
        /\ \A i \in 1 .. Len(list) + 1 :
              InsertAt(list, k, e)[i] = IF i < k THEN list[i] ELSE IF i = k THEN e ELSE list[i - 1]
    BY <1>1, <1>2, Insertion, SMTT(40)
  <2> QED BY <1>2, <2>1
<1>4. new[k].start = lo /\ new[k].end = hi /\ k \in 1 .. Len(new)
  BY <1>1, <1>2, <1>3
<1>5. at \in [Kept -> 1 .. Len(new)] /\ \A i \in Kept : at[i] = IF i < k THEN i ELSE i + 1
  BY <1>1, <1>3
<1>6. \A i \in Kept : new[at[i]] = list[i] /\ at[i] # k
  <2> TAKE i \in Kept
  <2>1. CASE i < k
    <3>1. at[i] = i /\ i \in 1 .. Len(list) + 1 /\ i # k
      BY <1>1, <1>5, <2>1
    <3> QED BY <1>3, <2>1, <3>1
  <2>2. CASE ~(i < k)
    <3>1. at[i] = i + 1 /\ i + 1 \in 1 .. Len(list) + 1 /\ ~(i + 1 < k) /\ i + 1 # k /\ i + 1 - 1 = i
      BY <1>1, <1>5, <2>2
    <3> QED BY <1>3, <3>1
  <2> QED BY <2>1, <2>2
<1> HIDE DEF at
<1>7. \A m \in 1 .. Len(new) : m = k \/ \E i \in Kept : m = at[i]
  <2> TAKE m \in 1 .. Len(new)
  <2>1. CASE m < k
    BY <1>1, <1>3, <1>5, <2>1
  <2>2. CASE m > k
    <3>1. m - 1 \in Kept /\ ~(m - 1 < k) /\ m - 1 + 1 = m
      BY <1>1, <1>3, <2>2
    <3> QED BY <1>5, <3>1
  <2> QED BY <1>3, <2>1, <2>2
<1>8. \A i, j \in Kept : at[i] < at[j] => i < j
  BY <1>1, <1>5
<1>9. \A i \in Kept : /\ at[i] < k => list[i].end < new[k].start
                      /\ k < at[i] => new[k].end < list[i].start
  <2> TAKE i \in Kept
  <2>1. CASE i < k
    <3>1. i \in 1 .. k - 1 /\ at[i] = i
      BY <1>1, <1>5, <2>1
    <3> QED BY <1>4, <3>1, <2>1 DEF Gap
  <2>2. CASE ~(i < k)
    <3>1. i \in k .. Len(list) /\ at[i] = i + 1 /\ ~(i + 1 < k)
      BY <1>1, <1>5, <2>2
    <3> QED BY <1>4, <3>1, <2>2 DEF Gap
  <2> QED BY <2>1, <2>2
<1>10. RegionMin <= new[k].start /\ new[k].start < new[k].end /\ new[k].end <= RegionMax
  BY <1>4 DEF Gap
<1>11. Kept \in SUBSET (1 .. Len(list)) /\ (1 .. Len(list)) \ Kept = {}
  OBVIOUS
<1>12. \A i \in (1 .. Len(list)) \ Kept : new[k].start <= list[i].start /\ list[i].end <= new[k].end
  BY <1>11
<1> HIDE DEF Kept
<1>13. Rebuild(list, new, k, Kept, at)
  <2>1. Placed(list, new, k, Kept, at)
    BY <1>3, <1>4, <1>5, <1>6, <1>7, <1>8, <1>11, <1>12 DEF Placed
  <2>2. Fitting(list, new, k, Kept, at)
    <3>1. Apart(list, new, k, Kept, at)
      BY <1>9 DEF Apart
    <3>2. InRegion(new, k)
      BY <1>10 DEF InRegion
    <3>3. Takes(list, new, k, Kept)
      BY <1>12 DEF Takes
    <3> QED BY <3>1, <3>2, <3>3 DEF Fitting
  <2> QED BY <2>1, <2>2 DEF Rebuild
<1>14. /\ Spread(new)
       /\ \A a \in Int : Holds(new, a) <=> Holds(list, a) \/ (new[k].start <= a /\ a < new[k].end)
  BY <1>13, Rebuilt
<1>15. \A a \in Int : Holds(new, a) <=> Holds(list, a) \/ (lo <= a /\ a < hi)
  BY <1>4, <1>14
<1> QED BY <1>3, <1>14, <1>15 DEF new

\* and an element whose gap to the next is filled takes that one in.
LEMMA Merges ==
    ASSUME NEW list, Spread(list), NEW k \in 1 .. Len(list) - 1
    PROVE  LET new == RemoveAt([list EXCEPT ![k].end = list[k + 1].end], k + 1) IN
           /\ Spread(new) /\ Len(new) = Len(list) - 1
           /\ \A a \in Int : Holds(new, a) <=> Holds(list, a) \/ (list[k].end <= a /\ a < list[k + 1].start)
<1> DEFINE new == RemoveAt([list EXCEPT ![k].end = list[k + 1].end], k + 1)
           e == [start |-> list[k].start, end |-> list[k + 1].end]
           wide == [list EXCEPT ![k] = e]
           Kept == (1 .. Len(list)) \ {k, k + 1}
           at == [i \in Kept |-> IF i < k THEN i ELSE i - 1]
<1>1. /\ list \in Seq(Ranges) /\ list[k] \in Ranges /\ k + 1 \in 1 .. Len(list) /\ k \in 1 .. Len(list)
      /\ Len(list) \in Nat
  BY DEF Spread
<1>2. \A i \in 1 .. Len(list) : list[i].start \in Int /\ list[i].end \in Int
  BY <1>1, Elements
<1>a. [list EXCEPT ![k].end = list[k + 1].end] = wide
  <2>1. [list[k] EXCEPT !.end = list[k + 1].end] = e
    BY <1>1, SMTT(40) DEF Ranges
  <2> QED BY <2>1
<1>b. e \in Ranges /\ e.start = list[k].start /\ e.end = list[k + 1].end
  BY <1>1, <1>2 DEF Ranges
<1> HIDE DEF e
<1>c. /\ wide \in Seq(Ranges) /\ Len(wide) = Len(list)
      /\ \A i \in 1 .. Len(list) : wide[i] = IF i = k THEN e ELSE list[i]
  BY <1>1, <1>b, Replacement
<1> HIDE DEF wide
<1>3. /\ new \in Seq(Ranges) /\ Len(new) = Len(list) - 1
      /\ \A i \in 1 .. Len(list) - 1 : new[i] = IF i < k + 1 THEN wide[i] ELSE wide[i + 1]
  <2> DEFINE r == RemoveAt(wide, k + 1)
  <2>1. /\ r \in Seq(Ranges) /\ Len(r) = Len(wide) - 1
        /\ \A i \in 1 .. Len(wide) - 1 : r[i] = IF i < k + 1 THEN wide[i] ELSE wide[i + 1]
    BY <1>1, <1>c, Removal
  <2>2. new = r
    BY <1>a
  <2> HIDE DEF new, r
  <2> QED BY <1>c, <2>1, <2>2
<1> HIDE DEF new
<1>d. \A x, y \in 1 .. Len(list) : x < y => list[x].end < list[y].start
  BY DEF Spread
<1>e. \A x \in 1 .. Len(list) : /\ list[x].start < list[x].end
                               /\ RegionMin <= list[x].start /\ list[x].end <= RegionMax
  BY DEF Spread
<1>4. new[k].start = list[k].start /\ new[k].end = list[k + 1].end /\ k \in 1 .. Len(new)
  BY <1>1, <1>3, <1>b, <1>c
<1>5. at \in [Kept -> 1 .. Len(new)] /\ \A i \in Kept : at[i] = IF i < k THEN i ELSE i - 1
  BY <1>1, <1>3
<1>6. \A i \in Kept : new[at[i]] = list[i] /\ at[i] # k
  <2> TAKE i \in Kept
  <2>1. CASE i < k
    <3>1. at[i] = i /\ i \in 1 .. Len(list) - 1 /\ i # k /\ i < k + 1 /\ i \in 1 .. Len(list)
      BY <1>1, <1>5, <2>1
    <3> QED BY <1>3, <1>c, <2>1, <3>1
  <2>2. CASE ~(i < k)
    <3>1. /\ at[i] = i - 1 /\ i - 1 \in 1 .. Len(list) - 1 /\ ~(i - 1 < k + 1) /\ i - 1 # k
          /\ i - 1 + 1 = i /\ i # k
      BY <1>1, <1>5, <2>2
    <3> QED BY <1>3, <1>c, <3>1
  <2> QED BY <2>1, <2>2
<1>7. \A m \in 1 .. Len(new) : m = k \/ \E i \in Kept : m = at[i]
  <2> TAKE m \in 1 .. Len(new)
  <2>1. CASE m < k
    <3>1. m \in Kept
      BY <1>1, <1>3, <2>1
    <3> QED BY <1>5, <2>1, <3>1
  <2>2. CASE m > k
    <3>1. m + 1 \in Kept /\ ~(m + 1 < k) /\ m + 1 - 1 = m
      BY <1>1, <1>3, <2>2
    <3> QED BY <1>5, <3>1
  <2> QED BY <1>3, <2>1, <2>2
<1>8. \A i, j \in Kept : at[i] < at[j] => i < j
  BY <1>1, <1>5
<1>9. \A i \in Kept : /\ at[i] < k => list[i].end < new[k].start
                      /\ k < at[i] => new[k].end < list[i].start
  <2> TAKE i \in Kept
  <2>1. i \in 1 .. Len(list) /\ (at[i] < k => i < k) /\ (at[i] > k => i > k + 1)
    BY <1>1, <1>5
  <2> QED BY <1>1, <1>4, <1>d, <2>1
<1>10. RegionMin <= new[k].start /\ new[k].start < new[k].end /\ new[k].end <= RegionMax
  <2>1. list[k].end < list[k + 1].start
    BY <1>1, <1>d
  <2> QED BY <1>1, <1>2, <1>4, <1>e, <2>1, RegionConstants, SMTT(40)
<1>11. Kept \in SUBSET (1 .. Len(list)) /\ (1 .. Len(list)) \ Kept = {k, k + 1}
  BY <1>1
<1>12. \A i \in (1 .. Len(list)) \ Kept : new[k].start <= list[i].start /\ list[i].end <= new[k].end
  <2>1. list[k].end < list[k + 1].start
    BY <1>1, <1>d
  <2> QED BY <1>1, <1>2, <1>4, <1>e, <1>11, <2>1
<1> HIDE DEF at, Kept
<1>13. Rebuild(list, new, k, Kept, at)
  <2>1. Placed(list, new, k, Kept, at)
    BY <1>3, <1>4, <1>5, <1>6, <1>7, <1>8, <1>11, <1>12 DEF Placed
  <2>2. Fitting(list, new, k, Kept, at)
    <3>1. Apart(list, new, k, Kept, at)
      BY <1>9 DEF Apart
    <3>2. InRegion(new, k)
      BY <1>10 DEF InRegion
    <3>3. Takes(list, new, k, Kept)
      BY <1>12 DEF Takes
    <3> QED BY <3>1, <3>2, <3>3 DEF Fitting
  <2> QED BY <2>1, <2>2 DEF Rebuild
<1>14. /\ Spread(new)
       /\ \A a \in Int : Holds(new, a) <=> Holds(list, a) \/ (list[k].start <= a /\ a < list[k + 1].end)
  <2>1. /\ Spread(new)
        /\ \A a \in Int : Holds(new, a) <=> Holds(list, a) \/ (new[k].start <= a /\ a < new[k].end)
    BY <1>13, Rebuilt
  <2> QED BY <1>4, <2>1
<1>15. \A a \in Int : \/ Holds(list, a) 
                     \/ (list[k].end <= a /\ a < list[k + 1].start) 
                     \/ ~(list[k].start <= a /\ a < list[k + 1].end)
  BY <1>1, <1>2 DEF Holds
<1>16. \A a \in Int : list[k].end <= a /\ a < list[k + 1].start => list[k].start <= a /\ a < list[k + 1].end
  BY <1>1, <1>2, <1>e
<1>17. \A a \in Int : Holds(new, a) <=> Holds(list, a) \/ (list[k].end <= a /\ a < list[k + 1].start)
  BY <1>14, <1>15, <1>16
<1> QED BY <1>3, <1>14, <1>17 DEF new

-----------------------------------------------------------------------------
\* The list as region_allocate finds and leaves it.
RegionSound(r) ==
    r \in RegionRecords /\ Spread(r.allocated) /\ r.last = Len(r.allocated)

\* No byte of start .. end - 1 is in the list, and the region has them all.
Free(list, start, end) ==
    /\ RegionMin <= start /\ end <= RegionMax /\ start < end
    /\ \A a \in Int : start <= a /\ a < end => ~Holds(list, a)

Accepted(r, new, start, end) ==
    /\ Free(r.allocated, start, end) /\ RegionSound(new)
    /\ \A a \in Int : Holds(new.allocated, a) <=> Holds(r.allocated, a) \/ (start <= a /\ a < end)

\* What region_allocate may return.
Allocated(r, got, start, end) ==
    \/ got.ret = 0 /\ Accepted(r, got.r, start, end)
    \/ got.ret \in {-1, 1} /\ got.r = r /\ ~Free(r.allocated, start, end)

\* What the assignment r->end = end does to the list.
LEMMA EndEdits ==
    \A r \in RegionRecords : \A k \in 1 .. Len(r.allocated) : \A x \in Int :
        [r EXCEPT !.allocated[k].end = x] =
            [allocated |-> [r.allocated EXCEPT ![k] = [start |-> r.allocated[k].start, end |-> x]], last |-> r.last]
<1> TAKE r \in RegionRecords
<1> TAKE k \in 1 .. Len(r.allocated)
<1> TAKE x \in Int
<1>1. r.allocated \in Seq(Ranges) /\ r.allocated[k] \in Ranges
  BY DEF RegionRecords
<1>2. [r.allocated[k] EXCEPT !.end = x] = [start |-> r.allocated[k].start, end |-> x]
  BY <1>1 DEF Ranges
<1>3. \A l : [r EXCEPT !.allocated = l] = [allocated |-> l, last |-> r.last]
  BY DEF RegionRecords
<1> QED BY <1>2, <1>3

\* What the assignment r->start = start does to the list.
LEMMA StartEdits ==
    \A r \in RegionRecords : \A k \in 1 .. Len(r.allocated) : \A x \in Int :
        [r EXCEPT !.allocated[k].start = x] =
            [allocated |-> [r.allocated EXCEPT ![k] = [start |-> x, end |-> r.allocated[k].end]], last |-> r.last]
<1> TAKE r \in RegionRecords
<1> TAKE k \in 1 .. Len(r.allocated)
<1> TAKE x \in Int
<1>1. r.allocated \in Seq(Ranges) /\ r.allocated[k] \in Ranges
  BY DEF RegionRecords
<1>2. [r.allocated[k] EXCEPT !.start = x] = [start |-> x, end |-> r.allocated[k].end]
  BY <1>1 DEF Ranges
<1>3. \A l : [r EXCEPT !.allocated = l] = [allocated |-> l, last |-> r.last]
  BY DEF RegionRecords
<1> QED BY <1>2, <1>3

\* Where no element meets the range, no byte of it is held.
LEMMA Between ==
    ASSUME NEW list, Spread(list), NEW start \in Int, NEW end \in Int,
           RegionMin <= start, start < end, end <= RegionMax,
           \A i \in 1 .. Len(list) : list[i].end <= start \/ end <= list[i].start
    PROVE  Free(list, start, end)
<1>1. \A i \in 1 .. Len(list) : list[i].start \in Int /\ list[i].end \in Int
  BY Elements DEF Spread
<1> QED BY <1>1 DEF Free, Holds

\* Element k ends where the range starts, and nothing stands in its way.
LEMMA EndMoves ==
    ASSUME NEW r, RegionSound(r), NEW k \in 1 .. Len(r.allocated), NEW start \in Int, NEW end \in Int,
           RegionMin <= start, start < end, end <= RegionMax, r.allocated[k].end = start,
           \A i \in k + 1 .. Len(r.allocated) : end < r.allocated[i].start
    PROVE  Accepted(r, [r EXCEPT !.allocated[k].end = end], start, end)
<1> DEFINE list == r.allocated
           lo == list[k].start
           new == [list EXCEPT ![k] = [start |-> lo, end |-> end]]
<1>1. list \in Seq(Ranges) /\ Spread(list) /\ Len(list) \in Nat
  BY DEF RegionSound, RegionRecords
<1>2. \A i \in 1 .. Len(list) : list[i].start \in Int /\ list[i].end \in Int
  BY <1>1, Elements
<1>3. Gap(list, k - 1, k + 1, lo, end) /\ lo <= list[k].start /\ list[k].end <= end /\ lo \in Int
  BY <1>1, <1>2, RegionConstants DEF Gap, Spread
<1>4. /\ Spread(new) /\ Len(new) = Len(list)
      /\ \A a \in Int : Holds(new, a) <=> Holds(list, a) \/ (lo <= a /\ a < end)
  <2> HIDE DEF list, lo
  <2> QED BY <1>1, <1>3, Widens DEF list
<1>5. [r EXCEPT !.allocated[k].end = end] = [allocated |-> new, last |-> r.last]
  <2>1. r \in RegionRecords
    BY DEF RegionSound
  <2> QED BY <2>1, EndEdits
<1>6. Free(list, start, end)
  <2>1. \A i \in 1 .. Len(list) : list[i].end <= start \/ end <= list[i].start
    <3> TAKE i \in 1 .. Len(list)
    <3>1. i < k \/ i = k \/ i \in k + 1 .. Len(list)
      BY <1>1
    <3>2. (i < k => list[i].end < list[k].start) /\ (k < i => list[k].end < list[i].start)
      BY <1>1 DEF Spread
    <3>3. list[k].start < list[k].end
      BY <1>1 DEF Spread
    <3> HIDE DEF list
    <3> QED BY <1>2, <3>1, <3>2, <3>3 DEF list
  <2> HIDE DEF list
  <2> QED BY <1>1, <2>1, Between
<1>7. \A a \in Int : (lo <= a /\ a < end) <=> (lo <= a /\ a < list[k].end) \/ (start <= a /\ a < end)
  BY <1>1, <1>2 DEF Spread
<1>8. \A a \in Int : (lo <= a /\ a < list[k].end) => Holds(list, a)
  BY DEF Holds
<1> HIDE DEF new, lo
<1>9. \A a \in Int : Holds(new, a) <=> Holds(list, a) \/ (start <= a /\ a < end)
  BY <1>4, <1>7, <1>8
<1>10. RegionSound([allocated |-> new, last |-> r.last])
  BY <1>4 DEF RegionSound, RegionRecords, Spread
<1> QED BY <1>5, <1>6, <1>9, <1>10 DEF Accepted

\* Element k starts where the range ends.
LEMMA StartMoves ==
    ASSUME NEW r, RegionSound(r), NEW k \in 1 .. Len(r.allocated), NEW start \in Int, NEW end \in Int,
           RegionMin <= start, start < end, end <= RegionMax, r.allocated[k].start = end,
           \A i \in 1 .. k - 1 : r.allocated[i].end < start
    PROVE  Accepted(r, [r EXCEPT !.allocated[k].start = start], start, end)
<1> DEFINE list == r.allocated
           hi == list[k].end
           new == [list EXCEPT ![k] = [start |-> start, end |-> hi]]
<1>1. list \in Seq(Ranges) /\ Spread(list) /\ Len(list) \in Nat
  BY DEF RegionSound, RegionRecords
<1>2. \A i \in 1 .. Len(list) : list[i].start \in Int /\ list[i].end \in Int
  BY <1>1, Elements
<1>3. Gap(list, k - 1, k + 1, start, hi) /\ start <= list[k].start /\ list[k].end <= hi /\ hi \in Int
  BY <1>1, <1>2, RegionConstants DEF Gap, Spread
<1>4. /\ Spread(new) /\ Len(new) = Len(list)
      /\ \A a \in Int : Holds(new, a) <=> Holds(list, a) \/ (start <= a /\ a < hi)
  <2> HIDE DEF list, hi
  <2> QED BY <1>1, <1>3, Widens DEF list
<1>5. [r EXCEPT !.allocated[k].start = start] = [allocated |-> new, last |-> r.last]
  <2>2. r \in RegionRecords
    BY DEF RegionSound
  <2> QED BY <2>2, StartEdits
<1>6. Free(list, start, end)
  <2>1. \A i \in 1 .. Len(list) : list[i].end <= start \/ end <= list[i].start
    <3> TAKE i \in 1 .. Len(list)
    <3>1. i < k \/ i = k \/ i \in k + 1 .. Len(list)
      BY <1>1
    <3>2. (i < k => list[i].end < list[k].start) /\ (k < i => list[k].end < list[i].start)
      BY <1>1 DEF Spread
    <3>3. list[k].start < list[k].end
      BY <1>1 DEF Spread
    <3> HIDE DEF list
    <3> QED BY <1>2, <3>1, <3>2, <3>3 DEF list
  <2> HIDE DEF list
  <2> QED BY <1>1, <2>1, Between
<1>7. \A a \in Int : (start <= a /\ a < hi) <=> (list[k].start <= a /\ a < hi) \/ (start <= a /\ a < end)
  BY <1>1, <1>2 DEF Spread
<1>8. \A a \in Int : (list[k].start <= a /\ a < hi) => Holds(list, a)
  BY DEF Holds
<1> HIDE DEF new, hi
<1>9. \A a \in Int : Holds(new, a) <=> Holds(list, a) \/ (start <= a /\ a < end)
  BY <1>4, <1>7, <1>8
<1>10. RegionSound([allocated |-> new, last |-> r.last])
  BY <1>4 DEF RegionSound, RegionRecords, Spread
<1> QED BY <1>5, <1>6, <1>9, <1>10 DEF Accepted

\* A new element at position k, and region->last with it.
LEMMA Appends ==
    ASSUME NEW r, RegionSound(r), NEW k \in 1 .. Len(r.allocated) + 1, NEW start \in Int, NEW end \in Int,
           Gap(r.allocated, k - 1, k, start, end)
    PROVE  Accepted(r, AppendToList(r, k, start, end), start, end)
<1> DEFINE list == r.allocated
           new == InsertAt(list, k, [start |-> start, end |-> end])
           got == AppendToList(r, k, start, end)
<1>1. list \in Seq(Ranges) /\ Spread(list) /\ Len(list) \in Nat /\ r.last = Len(list)
  BY DEF RegionSound, RegionRecords
<1>2. \A i \in 1 .. Len(list) : list[i].start \in Int /\ list[i].end \in Int
  BY <1>1, Elements
<1>3. /\ Spread(new) /\ Len(new) = Len(list) + 1
      /\ \A a \in Int : Holds(new, a) <=> Holds(list, a) \/ (start <= a /\ a < end)
  <2> HIDE DEF list
  <2> QED BY <1>1, Inserts DEF list
<1>4. got.allocated = new /\ got.last = Len(list) + 1 /\ got = [allocated |-> new, last |-> Len(list) + 1]
  BY <1>1 DEF AppendToList
<1>5. Free(list, start, end)
  <2>1. \A i \in 1 .. Len(list) : list[i].end <= start \/ end <= list[i].start
    <3> TAKE i \in 1 .. Len(list)
    <3>1. i \in 1 .. k - 1 \/ i \in k .. Len(list)
      BY <1>1
    <3> QED BY <1>2, <3>1 DEF Gap
  <2>2. RegionMin <= start /\ start < end /\ end <= RegionMax
    BY DEF Gap
  <2> HIDE DEF list
  <2> QED BY <1>1, <2>1, <2>2, Between
<1> HIDE DEF new, got
<1>6. RegionSound(got)
  BY <1>1, <1>3, <1>4 DEF RegionSound, RegionRecords, Spread
<1> QED BY <1>3, <1>4, <1>5, <1>6 DEF Accepted, got

\* The range fills the gap behind element k.
LEMMA Closes ==
    ASSUME NEW r, RegionSound(r), NEW k \in 1 .. Len(r.allocated) - 1, NEW start \in Int, NEW end \in Int,
           r.allocated[k].end = start, r.allocated[k + 1].start = end, start < end
    PROVE  Accepted(r, MergeWithNext(r, k), start, end)
<1> DEFINE list == r.allocated
           new == RemoveAt([list EXCEPT ![k].end = list[k + 1].end], k + 1)
           got == MergeWithNext(r, k)
<1>1. list \in Seq(Ranges) /\ Spread(list) /\ Len(list) \in Nat /\ r.last = Len(list)
  BY DEF RegionSound, RegionRecords
<1>2. \A i \in 1 .. Len(list) : list[i].start \in Int /\ list[i].end \in Int
  BY <1>1, Elements
<1>3. /\ Spread(new) /\ Len(new) = Len(list) - 1
      /\ \A a \in Int : Holds(new, a) <=> Holds(list, a) \/ (list[k].end <= a /\ a < list[k + 1].start)
  <2> HIDE DEF list
  <2> QED BY <1>1, Merges DEF list
<1>4. Len(list) - 1 \in Nat /\ got.allocated = new /\ got.last = Len(list) - 1 /\ got = [allocated |-> new, last |-> Len(list) - 1]
  BY <1>1 DEF MergeWithNext
<1>5. Free(list, start, end)
  <2>1. \A i \in 1 .. Len(list) : list[i].end <= start \/ end <= list[i].start
    <3> TAKE i \in 1 .. Len(list)
    <3>1. i < k \/ i = k \/ i = k + 1 \/ k + 1 < i
      BY <1>1
    <3>2. /\ i < k => list[i].end < list[k].start
          /\ k + 1 < i => list[k + 1].end < list[i].start
          /\ list[k].start < list[k].end /\ list[k + 1].start < list[k + 1].end
          /\ k \in 1 .. Len(list) /\ k + 1 \in 1 .. Len(list)
      BY <1>1 DEF Spread
    <3> HIDE DEF list
    <3> QED BY <1>2, <3>1, <3>2, SMTT(40) DEF list
  <2>2. RegionMin <= start /\ end <= RegionMax
    <3>1. /\ list[k].start < list[k].end /\ list[k + 1].start < list[k + 1].end
          /\ RegionMin <= list[k].start /\ list[k + 1].end <= RegionMax
          /\ k \in 1 .. Len(list) /\ k + 1 \in 1 .. Len(list)
      BY <1>1 DEF Spread
    <3> QED BY <1>2, <3>1, RegionConstants
  <2> HIDE DEF list
  <2> QED BY <1>1, <2>1, <2>2, Between
<1> HIDE DEF new, got
<1>6. RegionSound(got)
  BY <1>1, <1>3, <1>4 DEF RegionSound, RegionRecords, Spread
<1> QED BY <1>3, <1>4, <1>5, <1>6 DEF Accepted, got

\* A byte of the range that an element holds.
LEMMA Taken ==
    ASSUME NEW list, Spread(list), NEW k \in 1 .. Len(list), NEW start \in Int, NEW end \in Int,
           start < end, Conflicts(list[k], start, end)
    PROVE  ~Free(list, start, end)
<1>1. list[k].start \in Int /\ list[k].end \in Int /\ list[k].start < list[k].end
  BY Elements DEF Spread
<1>2. PICK a \in Int : start <= a /\ a < end /\ list[k].start <= a /\ a < list[k].end
  <2>1. CASE start <= list[k].start
    <3>1. list[k].start < end
      BY <1>1, <2>1 DEF Conflicts
    <3> QED BY <1>1, <2>1, <3>1
  <2>2. CASE ~(start <= list[k].start)
    <3>1. start < list[k].end
      BY <1>1, <2>2 DEF Conflicts
    <3> QED BY <1>1, <2>2, <3>1
  <2> QED BY <2>1, <2>2
<1> QED BY <1>2 DEF Free, Holds

\* What happens at the first element at which the search stops.
Reached(r, k, start, end) ==
    /\ RegionMin <= start /\ start < end /\ end <= RegionMax
    /\ k \in 1 .. Len(r.allocated)
    /\ StopsAt(r.allocated[k], start, end)
    /\ \A i \in 1 .. k - 1 : r.allocated[i].end < start

\* A search that stops at element k returns what Allocated says.
LEMMA Stopped ==
    ASSUME NEW r, RegionSound(r), NEW k, NEW start \in Int, NEW end \in Int, Reached(r, k, start, end)
    PROVE  Allocated(r, AtElement(r, k, start, end), start, end)
<1> DEFINE list == r.allocated
           el == list[k]
           next == list[k + 1]
           got == AtElement(r, k, start, end)
<1>1. list \in Seq(Ranges) /\ Spread(list) /\ Len(list) \in Nat
  BY DEF RegionSound, RegionRecords
<1>2. \A i \in 1 .. Len(list) : list[i].start \in Int /\ list[i].end \in Int
  BY <1>1, Elements
<1>3. /\ RegionMin <= start /\ start < end /\ end <= RegionMax /\ k \in 1 .. Len(list)
      /\ \A i \in 1 .. k - 1 : list[i].end < start
  BY DEF Reached
<1>4. StopsAt(el, start, end)
  BY DEF Reached
<1>5. /\ el.start \in Int /\ el.end \in Int /\ el.start < el.end
      /\ \A i \in 1 .. Len(list) : k < i => el.end < list[i].start
  BY <1>1, <1>2, <1>3 DEF Spread
<1>6. ASSUME k < Len(list)
      PROVE  /\ next.start \in Int /\ next.end \in Int /\ next.start < next.end /\ el.end < next.start
             /\ k + 1 \in 1 .. Len(list) /\ \A i \in k + 1 .. Len(list) : next.start <= list[i].start
  <2>1. k + 1 \in 1 .. Len(list) /\ k < k + 1
    BY <1>1, <1>3, <1>6
  <2>2. ASSUME NEW i \in k + 1 .. Len(list) PROVE next.start <= list[i].start
    <3>1. i = k + 1 \/ (k + 1 < i /\ i \in 1 .. Len(list))
      BY <1>1, <1>3
    <3>2. next.start < next.end /\ (k + 1 < i => next.end < list[i].start)
      BY <1>1, <2>1, <3>1 DEF Spread
    <3> QED BY <1>2, <2>1, <3>1, <3>2
  <2> QED BY <1>1, <1>2, <1>5, <2>1, <2>2 DEF Spread
<1>7. CASE Conflicts(el, start, end)
  <2>1. got = [r |-> r, ret |-> 1]
    BY <1>7 DEF AtElement
  <2>2. ~Free(list, start, end)
    <3> HIDE DEF list
    <3> QED BY <1>1, <1>3, <1>7, Taken
  <2> QED BY <2>1, <2>2 DEF Allocated
<1>8. CASE ~Conflicts(el, start, end) /\ end = el.start
  <2>1. got = [r |-> [r EXCEPT !.allocated[k].start = start], ret |-> 0]
    BY <1>8 DEF AtElement
  <2>2. Accepted(r, [r EXCEPT !.allocated[k].start = start], start, end)
    BY <1>3, <1>8, StartMoves
  <2> QED BY <2>1, <2>2 DEF Allocated
<1>9. CASE ~Conflicts(el, start, end) /\ end # el.start /\ start = el.end
  <2>1. CASE k < Len(list) /\ end > next.start
    <3>1. got = [r |-> r, ret |-> 1]
      BY <1>9, <2>1 DEF AtElement
    <3>2. Conflicts(next, start, end)
      BY <1>3, <1>5, <1>6, <1>9, <2>1 DEF Conflicts
    <3>3. ~Free(list, start, end)
      <4> HIDE DEF list
      <4> QED BY <1>1, <1>3, <1>6, <2>1, <3>2, Taken
    <3> QED BY <3>1, <3>3 DEF Allocated
  <2>2. CASE k < Len(list) /\ end = next.start
    <3>1. got = [r |-> MergeWithNext(r, k), ret |-> 0]
      BY <1>6, <1>9, <2>2 DEF AtElement
    <3>2. k \in 1 .. Len(list) - 1
      BY <1>1, <1>3, <2>2
    <3>3. Accepted(r, MergeWithNext(r, k), start, end)
      BY <1>3, <1>9, <2>2, <3>2, Closes
    <3> QED BY <3>1, <3>3 DEF Allocated
  <2>3. CASE ~(k < Len(list) /\ end > next.start) /\ ~(k < Len(list) /\ end = next.start)
    <3>1. got = [r |-> [r EXCEPT !.allocated[k].end = end], ret |-> 0]
      BY <1>9, <2>3 DEF AtElement
    <3>2. \A i \in k + 1 .. Len(list) : end < list[i].start
      <4> TAKE i \in k + 1 .. Len(list)
      <4>1. k < Len(list) /\ i \in 1 .. Len(list)
        BY <1>1, <1>3
      <4>2. end < next.start
        BY <1>6, <2>3, <4>1
      <4> QED BY <1>2, <1>6, <4>1, <4>2
    <3>3. Accepted(r, [r EXCEPT !.allocated[k].end = end], start, end)
      BY <1>3, <1>9, <3>2, EndMoves
    <3> QED BY <3>1, <3>3 DEF Allocated
  <2> QED BY <2>1, <2>2, <2>3
<1>10. CASE ~Conflicts(el, start, end) /\ end # el.start /\ start # el.end
  <2>1. got = [r |-> AppendToList(r, k, start, end), ret |-> 0]
    BY <1>10 DEF AtElement
  <2>2. start < el.start
    BY <1>4, <1>10 DEF StopsAt
  <2>3. end < el.start
    BY <1>3, <1>5, <1>10, <2>2 DEF Conflicts
  <2>4. \A i \in k .. Len(list) : end < list[i].start
    <3> TAKE i \in k .. Len(list)
    <3>1. i = k \/ (k < i /\ i \in 1 .. Len(list))
      BY <1>1, <1>3
    <3> QED BY <1>2, <1>5, <2>3, <3>1
  <2>5. Gap(list, k - 1, k, start, end)
    BY <1>3, <2>4 DEF Gap
  <2>6. Accepted(r, AppendToList(r, k, start, end), start, end)
    <3>1. k \in 1 .. Len(list) + 1
      BY <1>1, <1>3
    <3> QED BY <2>5, <3>1, Appends
  <2> QED BY <2>1, <2>6 DEF Allocated
<1> QED BY <1>7, <1>8, <1>9, <1>10

\* region_allocate: it fails, changing nothing, exactly when the range leaves the
\* region, is longer than zero bytes and meets a held one; else the list holds
\* the range as well.
LEMMA Allocation ==
    ASSUME NEW r, RegionSound(r), NEW start \in Int, NEW n \in Nat
    PROVE  Allocated(r, region_allocate(r, start, n), start, start + n)
<1> DEFINE list == r.allocated
           end == start + n
           got == region_allocate(r, start, n)
           stops == {k \in 1 .. Len(list) : StopsAt(list[k], start, end)}
           first == CHOOSE k \in stops : \A j \in stops : k <= j
           tail == r.last # 0 /\ r.last = Len(list)
           behind == tail /\ start > list[r.last].end
<1>1. list \in Seq(Ranges) /\ Spread(list) /\ Len(list) \in Nat /\ r.last = Len(list) /\ end \in Int
  BY DEF RegionSound, RegionRecords
<1>2. \A i \in 1 .. Len(list) : list[i].start \in Int /\ list[i].end \in Int
  BY <1>1, Elements
<1>3. CASE start < RegionMin \/ end > RegionMax
  <2>1. got = [r |-> r, ret |-> -1]
    BY <1>3 DEF region_allocate
  <2>2. ~Free(list, start, end)
    BY <1>1, <1>3, RegionConstants DEF Free
  <2> QED BY <2>1, <2>2 DEF Allocated
<1>4. CASE ~(start < RegionMin \/ end > RegionMax) /\ n = 0
  <2>1. got = [r |-> r, ret |-> 1]
    BY <1>4 DEF region_allocate
  <2>2. ~Free(list, start, end)
    BY <1>1, <1>4 DEF Free
  <2> QED BY <2>1, <2>2 DEF Allocated
<1>5. CASE ~(start < RegionMin \/ end > RegionMax) /\ n # 0
  <2>1. RegionMin <= start /\ start < end /\ end <= RegionMax
    BY <1>1, <1>5, RegionConstants
  <2>2. CASE tail /\ list[r.last].end = start
    <3>1. got = [r |-> [r EXCEPT !.allocated[r.last].end = end], ret |-> 0]
      BY <1>5, <2>2 DEF region_allocate
    <3>2. r.last \in 1 .. Len(list) /\ \A i \in r.last + 1 .. Len(list) : end < list[i].start
      BY <1>1, <2>2
    <3>3. Accepted(r, [r EXCEPT !.allocated[r.last].end = end], start, end)
      <4> HIDE DEF end
      <4> QED BY <1>1, <2>1, <2>2, <3>2, EndMoves
    <3> QED BY <3>1, <3>3 DEF Allocated
  <2>3. CASE ~(tail /\ list[r.last].end = start) /\ (behind \/ stops = {})
    <3>1. got = [r |-> AppendToList(r, Len(list) + 1, start, end), ret |-> 0]
      BY <1>5, <2>3 DEF region_allocate
    <3>2. \A i \in 1 .. Len(list) : list[i].end < start
      <4> TAKE i \in 1 .. Len(list)
      <4>1. CASE behind
        <5>1. r.last \in 1 .. Len(list) /\ list[r.last].end < start
          BY <1>1, <1>2, <4>1
        <5>2. list[i].end <= list[r.last].end
          <6>1. i = r.last \/ i < r.last
            BY <1>1
          <6>2. i < r.last => list[i].end < list[r.last].start /\ list[r.last].start < list[r.last].end
            BY <1>1, <5>1 DEF Spread
          <6> QED BY <1>2, <5>1, <6>1, <6>2
        <5> QED BY <1>2, <5>1, <5>2
      <4>2. CASE stops = {}
        <5>1. ~StopsAt(list[i], start, end)
          BY <4>2
        <5> QED BY <1>1, <1>2, <5>1 DEF StopsAt, Conflicts
      <4> QED BY <2>3, <4>1, <4>2
    <3>3. Gap(list, Len(list) + 1 - 1, Len(list) + 1, start, end)
      BY <1>1, <2>1, <3>2 DEF Gap
    <3>4. Accepted(r, AppendToList(r, Len(list) + 1, start, end), start, end)
      <4>1. Len(list) + 1 \in 1 .. Len(list) + 1
        BY <1>1
      <4> HIDE DEF end
      <4> QED BY <1>1, <3>3, <4>1, Appends
    <3> QED BY <3>1, <3>4 DEF Allocated
  <2>4. CASE ~(tail /\ list[r.last].end = start) /\ ~(behind \/ stops = {})
    <3>1. got = AtElement(r, first, start, end)
      BY <1>5, <2>4 DEF region_allocate
    <3>2. first \in stops /\ \A j \in stops : first <= j
      <4>1. stops \subseteq Nat /\ stops # {}
        BY <1>1, <2>4
      <4> HIDE DEF stops
      <4>2. \E k \in stops : \A j \in stops : k <= j
        BY <4>1, NatMin
      <4> QED BY <4>2
    <3> HIDE DEF first
    <3>3. first \in 1 .. Len(list) /\ StopsAt(list[first], start, end)
      BY <3>2
    <3>4. \A i \in 1 .. first - 1 : list[i].end < start
      <4> TAKE i \in 1 .. first - 1
      <4>1. i \in 1 .. Len(list) /\ ~(first <= i)
        BY <1>1, <3>3
      <4>2. ~StopsAt(list[i], start, end)
        BY <3>2, <4>1
      <4> QED BY <1>1, <1>2, <4>1, <4>2 DEF StopsAt, Conflicts
    <3>5. Reached(r, first, start, end)
      BY <2>1, <3>3, <3>4 DEF Reached
    <3>6. Allocated(r, AtElement(r, first, start, end), start, end)
      <4> HIDE DEF end
      <4> QED BY <1>1, <3>5, Stopped
    <3> QED BY <3>1, <3>6
  <2> QED BY <2>2, <2>3, <2>4
<1> QED BY <1>3, <1>4, <1>5

-----------------------------------------------------------------------------
\* The list is sound and holds the bytes handed out.
RegionIInv ==
    /\ RegionSound(region)
    /\ inUse \in SUBSET Int
    /\ \A a \in Int : a \in inUse <=> Holds(region.allocated, a)

\* region_create hands out nothing.
LEMMA EmptyRegion ==
    RegionSound([allocated |-> <<>>, last |-> 0]) /\ \A a \in Int : ~Holds(<<>>, a)
<1>1. <<>> \in Seq(Ranges) /\ Len(<<>>) = 0 /\ 1 .. 0 = {}
  OBVIOUS
<1> QED BY <1>1 DEF RegionSound, RegionRecords, Spread, Holds

\* Every call keeps the invariant.
LEMMA RegionStep ==
    RegionIInv /\ [RegionNext]_regionVars => RegionIInv'
<1> SUFFICES ASSUME RegionIInv, [RegionNext]_regionVars PROVE RegionIInv'
  OBVIOUS
<1>1. CASE RegionAllocate
  <2>1. PICK start \in RegionMin - 1 .. RegionMax, n \in 0 .. RegionMax - RegionMin :
          LET got == region_allocate(region, start, n)
          IN  /\ region' = got.r
              /\ inUse' = IF got.ret = 0 THEN inUse \cup (start .. start + n - 1) ELSE inUse
    BY <1>1 DEF RegionAllocate
  <2> DEFINE got == region_allocate(region, start, n)
  <2>2. start \in Int /\ n \in Nat /\ start + n \in Int
    BY RegionConstants
  <2>3. Allocated(region, got, start, start + n)
    BY <2>2, Allocation DEF RegionIInv
  <2>4. region' = got.r /\ inUse' = IF got.ret = 0 THEN inUse \cup (start .. start + n - 1) ELSE inUse
    BY <2>1
  <2> HIDE DEF got
  <2>5. CASE got.ret = 0
    <3>1. /\ RegionSound(got.r)
          /\ \A a \in Int : Holds(got.r.allocated, a) <=>
                               Holds(region.allocated, a) \/ (start <= a /\ a < start + n)
      BY <2>3, <2>5 DEF Allocated, Accepted
    <3>2. inUse' = inUse \cup (start .. start + n - 1)
      BY <2>4, <2>5
    <3>3. \A a \in Int : a \in start .. start + n - 1 <=> start <= a /\ a < start + n
      BY <2>2
    <3>4. inUse' \in SUBSET Int
      BY <2>2, <3>2 DEF RegionIInv
    <3>5. \A a \in Int : a \in inUse' <=> Holds(got.r.allocated, a)
      BY <3>1, <3>2, <3>3 DEF RegionIInv
    <3> QED BY <2>4, <3>1, <3>4, <3>5 DEF RegionIInv
  <2>6. CASE got.ret # 0
    <3>1. region' = region /\ inUse' = inUse
      BY <2>3, <2>4, <2>6 DEF Allocated
    <3> QED BY <3>1 DEF RegionIInv
  <2> QED BY <2>5, <2>6
<1>2. CASE RegionRestart
  <2>1. region' = [allocated |-> <<>>, last |-> 0] /\ inUse' = {}
    BY <1>2 DEF RegionRestart
  <2> QED BY <2>1, EmptyRegion DEF RegionIInv
<1>3. CASE UNCHANGED regionVars
  BY <1>3 DEF RegionIInv, regionVars
<1> QED BY <1>1, <1>2, <1>3 DEF RegionNext

\* The invariant implies that the next region_allocate answers exactly whether
\* the range is free.
LEMMA RegionIsCorrect == RegionIInv => RegionCorrect
<1> SUFFICES ASSUME RegionIInv PROVE RegionCorrect
  OBVIOUS
<1> DEFINE list == region.allocated
<1>1. list \in Seq(Ranges) /\ Spread(list) /\ Len(list) \in Nat /\ region.last = Len(list)
  BY DEF RegionIInv, RegionSound, RegionRecords
<1>2. \A i \in 1 .. Len(list) : list[i].start \in Int /\ list[i].end \in Int
  BY <1>1, Elements
<1>3. inUse \in SUBSET Int /\ \A a \in Int : a \in inUse <=> Holds(list, a)
  BY DEF RegionIInv
<1>4. ASSUME NEW start \in Addresses, NEW n \in 1 .. RegionMax - RegionMin
      PROVE  (region_allocate(region, start, n).ret = 0)
                <=> (start + n <= RegionMax /\ (start .. start + n - 1) \cap inUse = {})
  <2> DEFINE got == region_allocate(region, start, n)
  <2>1. start \in Int /\ n \in Nat /\ start + n \in Int /\ RegionMin <= start /\ start < start + n
    BY RegionConstants DEF Addresses
  <2>2. Allocated(region, got, start, start + n)
    BY <2>1, Allocation DEF RegionIInv
  <2>3. got.ret = 0 <=> Free(list, start, start + n)
    <3> HIDE DEF got
    <3> QED BY <2>2 DEF Allocated, Accepted
  <2>4. (\A a \in Int : start <= a /\ a < start + n => ~Holds(list, a))
          <=> (start .. start + n - 1) \cap inUse = {}
    <3> HIDE DEF list
    <3>1. \A a \in Int : a \in start .. start + n - 1 <=> start <= a /\ a < start + n
      BY <2>1
    <3> QED BY <1>3, <3>1
  <2> HIDE DEF got, list
  <2> QED BY <2>1, <2>3, <2>4 DEF Free, got
<1>5. AcceptsFreeRanges
  BY <1>4 DEF AcceptsFreeRanges
<1>6. UNION {list[k].start .. list[k].end - 1 : k \in 1 .. Len(list)} = inUse
  <2> HIDE DEF list
  <2>1. \A k \in 1 .. Len(list) : \A a : a \in list[k].start .. list[k].end - 1 <=>
            a \in Int /\ list[k].start <= a /\ a < list[k].end
    BY <1>2
  <2>2. \A a : a \in UNION {list[k].start .. list[k].end - 1 : k \in 1 .. Len(list)} <=>
            a \in Int /\ Holds(list, a)
    BY <2>1 DEF Holds
  <2> QED BY <1>3, <2>2
<1>7. \A k \in 1 .. Len(list) - 1 : list[k].end < list[k + 1].start
  <2> TAKE k \in 1 .. Len(list) - 1
  <2>1. k \in 1 .. Len(list) /\ k + 1 \in 1 .. Len(list) /\ k < k + 1
    BY <1>1
  <2> QED BY <1>1, <2>1 DEF Spread
<1>8. RegionListSound
  BY <1>1, <1>6, <1>7 DEF RegionListSound
<1> QED BY <1>5, <1>8 DEF RegionCorrect

\* Whatever the region and the calls, region_allocate refuses a range exactly when
\* a byte of it was handed out before or lies outside the region, and its list
\* holds exactly the bytes handed out, sorted, merged and apart.
THEOREM RegionIsExact == RegionSpec => []RegionCorrect
<1>1. RegionInit => RegionIInv
  BY EmptyRegion DEF RegionInit, RegionIInv
<1> QED BY <1>1, RegionStep, RegionIsCorrect, PTL DEF RegionSpec

-----------------------------------------------------------------------------
(* Bitmaps as trees of extents.  *)

\* Min of a set of naturals.
LEMMA MinIs ==
    ASSUME NEW S, S \subseteq Nat, S # {}
    PROVE  Min(S) \in S /\ \A y \in S : Min(S) <= y
<1>1. \E x \in S : \A y \in S : x <= y
  BY NatMin
<1> QED BY <1>1 DEF Min

\* Max of a set of integers with an upper bound.
LEMMA MaxIs ==
    ASSUME NEW S, S \subseteq Int, S # {}, NEW top \in Int, \A x \in S : x <= top
    PROVE  Max(S) \in S /\ \A y \in S : y <= Max(S)
<1> DEFINE below == {top - x : x \in S}
<1>1. below \subseteq Nat /\ below # {}
  <2>1. \A x \in S : top - x \in Nat
    OBVIOUS
  <2> QED BY <2>1
<1> HIDE DEF below
<1>2. PICK d \in below : \A y \in below : d <= y
  BY <1>1, NatMin
<1>3. PICK x \in S : d = top - x
  BY <1>2 DEF below
<1>4. \A y \in S : top - y \in below
  BY DEF below
<1>5. \A y \in S : x >= y
  BY <1>2, <1>3, <1>4
<1>6. \E z \in S : \A y \in S : z >= y
  BY <1>5
<1>7. Max(S) \in S /\ \A y \in S : Max(S) >= y
  <2> DEFINE m == CHOOSE z \in S : \A y \in S : z >= y
  <2>1. m \in S /\ \A y \in S : m >= y
    BY <1>6
  <2>2. Max(S) = m
    BY DEF Max
  <2> HIDE DEF m
  <2> QED BY <2>1, <2>2
<1> QED BY <1>7

-----------------------------------------------------------------------------

\* The nodes of the tree, and the private data of a bitmap, as types.
Extents == [start : Int, count : Int]
ExtMaps == UNION {[S -> Extents] : S \in SUBSET NodeNumbers}
RbRecords == [ext : ExtMaps, wcursor : Int, rcursor : Int, rcursor_next : Int, end : Bits, real_end : Bits]

\* A tree is a function from node numbers to extents.
LEMMA ExtMapsAre ==
    /\ \A f \in ExtMaps : DOMAIN f \subseteq NodeNumbers /\ \A n \in DOMAIN f : f[n] \in Extents
    /\ \A S \in SUBSET NodeNumbers : \A f \in [S -> Extents] : f \in ExtMaps
BY DEF ExtMaps

\* Where the nodes start and end, and where the bitmap ends, are integers.
LEMMA RbIntegers ==
    ASSUME NEW bp \in RbRecords
    PROVE  /\ Nodes(bp) \subseteq NodeNumbers
           /\ \A n \in Nodes(bp) : n \in Nat /\ n # Null /\ StartOf(bp, n) \in Int /\ EndOf(bp, n) \in Int
<1>1. bp.ext \in ExtMaps
  BY DEF RbRecords
<1>2. DOMAIN bp.ext \subseteq NodeNumbers /\ \A n \in DOMAIN bp.ext : bp.ext[n] \in Extents
  BY <1>1, ExtMapsAre
<1>3. \A e \in Extents : e.start \in Int /\ e.start + e.count \in Int
  BY DEF Extents
<1>4. \A n \in NodeNumbers : n \in Nat /\ n # Null
  BY RbAssumption DEF NodeNumbers, Null
<1> QED BY <1>2, <1>3, <1>4 DEF Nodes, StartOf, EndOf

\* Two bitmaps with the same cursors, or with the same ends.
SameCursors(bp, new) ==
    new.wcursor = bp.wcursor /\ new.rcursor = bp.rcursor /\ new.rcursor_next = bp.rcursor_next

SameEnds(bp, new) == new.end = bp.end /\ new.real_end = bp.real_end

\* What writing a node changes.
LEMMA PutIs ==
    ASSUME NEW bp \in RbRecords, NEW n \in NodeNumbers, NEW from \in Int, NEW to \in Int
    PROVE  LET new == Put(bp, n, from, to) IN
           /\ new \in RbRecords /\ Nodes(new) = Nodes(bp) \cup {n}
           /\ StartOf(new, n) = from /\ EndOf(new, n) = to
           /\ \A m \in Nodes(bp) \ {n} : StartOf(new, m) = StartOf(bp, m) /\ EndOf(new, m) = EndOf(bp, m)
           /\ SameCursors(bp, new) /\ SameEnds(bp, new)
<1> DEFINE new == Put(bp, n, from, to)
           e == [start |-> from, count |-> to - from]
           f == [m \in Nodes(bp) \cup {n} |-> IF m = n THEN e ELSE bp.ext[m]]
<1>1. bp.ext \in ExtMaps
  BY DEF RbRecords
<1>2. Nodes(bp) \subseteq NodeNumbers /\ \A m \in Nodes(bp) : bp.ext[m] \in Extents
  BY <1>1, ExtMapsAre DEF Nodes
<1>3. e \in Extents /\ e.start = from /\ e.start + e.count = to
  BY DEF Extents
<1> HIDE DEF e
<1>4. f \in [Nodes(bp) \cup {n} -> Extents] /\ DOMAIN f = Nodes(bp) \cup {n} /\ f[n] = e
      /\ \A m \in Nodes(bp) \ {n} : f[m] = bp.ext[m]
  BY <1>2, <1>3
<1>5. f \in ExtMaps
  BY <1>2, <1>4, ExtMapsAre
<1>6. new = [bp EXCEPT !.ext = f]
  BY DEF Put, e
<1> HIDE DEF f, new
<1>7. new.ext = f /\ new \in RbRecords /\ SameCursors(bp, new) /\ SameEnds(bp, new)
  BY <1>5, <1>6 DEF RbRecords, SameCursors, SameEnds
<1>8. /\ Nodes(new) = Nodes(bp) \cup {n} /\ StartOf(new, n) = from /\ EndOf(new, n) = to
      /\ \A m \in Nodes(bp) \ {n} : StartOf(new, m) = StartOf(bp, m) /\ EndOf(new, m) = EndOf(bp, m)
  BY <1>3, <1>4, <1>7 DEF Nodes, StartOf, EndOf
<1> QED BY <1>7, <1>8 DEF new

\* The cursors of new are those of bp, but for the ones to the nodes ns.
ClearedCursors(bp, new, ns) ==
    /\ new.wcursor = IF bp.wcursor \in ns THEN Null ELSE bp.wcursor
    /\ new.rcursor = IF bp.rcursor \in ns THEN Null ELSE bp.rcursor
    /\ new.rcursor_next = IF bp.rcursor_next \in ns THEN Null ELSE bp.rcursor_next

\* What ext2fs_rb_erase and rb_free_extent change: the node, and a cursor to it.
LEMMA FreeIs ==
    ASSUME NEW bp \in RbRecords, NEW ns
    PROVE  LET new == rb_free_extent(bp, ns) IN
           /\ new \in RbRecords /\ Nodes(new) = Nodes(bp) \ ns
           /\ \A m \in Nodes(new) : StartOf(new, m) = StartOf(bp, m) /\ EndOf(new, m) = EndOf(bp, m)
           /\ ClearedCursors(bp, new, ns) /\ SameEnds(bp, new)
<1> DEFINE new == rb_free_extent(bp, ns)
           f == [m \in Nodes(bp) \ ns |-> bp.ext[m]]
           w == IF bp.wcursor \in ns THEN Null ELSE bp.wcursor
           r == IF bp.rcursor \in ns THEN Null ELSE bp.rcursor
           x == IF bp.rcursor_next \in ns THEN Null ELSE bp.rcursor_next
<1>1. bp.ext \in ExtMaps /\ bp.wcursor \in Int /\ bp.rcursor \in Int /\ bp.rcursor_next \in Int
  BY DEF RbRecords
<1>2. Nodes(bp) \subseteq NodeNumbers /\ \A m \in Nodes(bp) : bp.ext[m] \in Extents
  BY <1>1, ExtMapsAre DEF Nodes
<1>4. f \in [Nodes(bp) \ ns -> Extents] /\ DOMAIN f = Nodes(bp) \ ns
      /\ \A m \in Nodes(bp) \ ns : f[m] = bp.ext[m]
  BY <1>2
<1>5. f \in ExtMaps
  BY <1>2, <1>4, ExtMapsAre
<1>6. new = [bp EXCEPT !.ext = f, !.wcursor = w, !.rcursor = r, !.rcursor_next = x]
  BY DEF rb_free_extent
<1>7. w \in Int /\ r \in Int /\ x \in Int
  BY <1>1 DEF Null
<1> HIDE DEF f, new, w, r, x
<1>8. /\ new.ext = f /\ new \in RbRecords /\ SameEnds(bp, new)
      /\ new.wcursor = w /\ new.rcursor = r /\ new.rcursor_next = x
  BY <1>5, <1>6, <1>7 DEF RbRecords, SameEnds
<1>9. /\ Nodes(new) = Nodes(bp) \ ns
      /\ \A m \in Nodes(new) : StartOf(new, m) = StartOf(bp, m) /\ EndOf(new, m) = EndOf(bp, m)
  BY <1>4, <1>8 DEF Nodes, StartOf, EndOf
<1>10. ClearedCursors(bp, new, ns)
  BY <1>8 DEF ClearedCursors, w, r, x
<1> QED BY <1>8, <1>9, <1>10 DEF new

-----------------------------------------------------------------------------

\* Bit b is in an extent.
Held(bp, b) == \E n \in Nodes(bp) : StartOf(bp, n) <= b /\ b < EndOf(bp, n)

\* An extent is not empty and lies in 0 .. LastBit.
Sized(bp, S) == \A n \in S : 0 <= StartOf(bp, n) /\ StartOf(bp, n) < EndOf(bp, n) /\ EndOf(bp, n) <= LastBit + 1

\* Two extents neither overlap nor touch: those that would are merged.
ApartIn(bp, S) == \A m, n \in S : m # n => EndOf(bp, m) < StartOf(bp, n) \/ EndOf(bp, n) < StartOf(bp, m)

\* The tree of extents is well formed.
Tree(bp) == bp \in RbRecords /\ Sized(bp, Nodes(bp)) /\ ApartIn(bp, Nodes(bp))

\* A cursor is null or a node of the tree.
CursorsIn(bp) ==
    /\ bp.wcursor \in Nodes(bp) \cup {Null} /\ bp.rcursor \in Nodes(bp) \cup {Null}
    /\ bp.rcursor # Null => bp.rcursor_next \in Nodes(bp) \cup {Null}

\* The node in rcursor_next is the one behind rcursor: rb_test_bit answers 0 for
\* a bit between the two without looking at the tree.
NothingBetween(bp) ==
    bp.rcursor # Null /\ bp.rcursor_next # Null =>
        \A b \in Int : EndOf(bp, bp.rcursor) <= b /\ b < StartOf(bp, bp.rcursor_next) => ~Held(bp, b)

Cursors(bp) == CursorsIn(bp) /\ NothingBetween(bp)

\* Node n can become from .. to - 1: none of the others ends at from or holds it.
Mergeable(bp, n, from, to) ==
    /\ bp \in RbRecords /\ n \in NodeNumbers
    /\ 0 <= from /\ from < to /\ to <= LastBit + 1
    /\ Sized(bp, Nodes(bp) \ {n}) /\ ApartIn(bp, Nodes(bp) \ {n})
    /\ \A m \in Nodes(bp) \ {n} : EndOf(bp, m) < from \/ from < StartOf(bp, m)

Merged(bp, n, from, to, new) ==
    /\ Tree(new) /\ n \in Nodes(new) /\ Nodes(new) \subseteq Nodes(bp) \cup {n}
    /\ \A b \in Int : Held(new, b) <=>
          \/ from <= b /\ b < to
          \/ \E m \in Nodes(bp) \ {n} : StartOf(bp, m) <= b /\ b < EndOf(bp, m)
    /\ \A c : c \in Nodes(bp) \cup {n, Null} =>
          (IF c \in Nodes(bp) \ Nodes(new) THEN Null ELSE c) \in Nodes(new) \cup {Null}
    /\ ClearedCursors(bp, new, Nodes(bp) \ Nodes(new))
    /\ SameEnds(bp, new)

\* The loop of rb_insert_extent that merges to the right takes in the extents it
\* reaches, and drops the cursors to them.
LEMMA MergeRightIs ==
    ASSUME NEW bp, NEW n, NEW from \in Int, NEW to \in Int, Mergeable(bp, n, from, to)
    PROVE  Merged(bp, n, from, to, MergeRight(bp, n, from, to))
<1> DEFINE met == {m \in Nodes(bp) \ {n} : EndOf(bp, m) > from /\ StartOf(bp, m) <= to}
           ends == {to} \cup {EndOf(bp, m) : m \in met}
           stop == Max(ends)
           mid == rb_free_extent(bp, met)
           new == Put(mid, n, from, stop)
<1>1. /\ bp \in RbRecords /\ n \in NodeNumbers /\ 0 <= from /\ from < to /\ to <= LastBit + 1
      /\ \A m \in Nodes(bp) \ {n} : EndOf(bp, m) < from \/ from < StartOf(bp, m)
  BY DEF Mergeable
<1>2. /\ Nodes(bp) \subseteq NodeNumbers
      /\ \A m \in Nodes(bp) : m # Null /\ StartOf(bp, m) \in Int /\ EndOf(bp, m) \in Int
  BY <1>1, RbIntegers
<1>3. \A m \in Nodes(bp) \ {n} : /\ 0 <= StartOf(bp, m) /\ StartOf(bp, m) < EndOf(bp, m)
                                 /\ EndOf(bp, m) <= LastBit + 1
  BY DEF Mergeable, Sized
<1>4. \A m, x \in Nodes(bp) \ {n} : m # x => EndOf(bp, m) < StartOf(bp, x) \/ EndOf(bp, x) < StartOf(bp, m)
  BY DEF Mergeable, ApartIn
<1>5. \A m \in met : m \in Nodes(bp) \ {n} /\ EndOf(bp, m) > from /\ StartOf(bp, m) <= to
  OBVIOUS
<1>6. \A m \in Nodes(bp) \ {n} : m \notin met => EndOf(bp, m) < from \/ to < StartOf(bp, m)
  BY <1>1, <1>2, <1>3
<1>7. n \notin met /\ met \subseteq Nodes(bp)
  OBVIOUS
<1> HIDE DEF met
<1>8. stop \in ends /\ \A y \in ends : y <= stop
  <2>1. ends \subseteq Int /\ ends # {} /\ LastBit + 1 \in Int /\ \A y \in ends : y <= LastBit + 1
    BY <1>1, <1>2, <1>3, <1>5, RbAssumption
  <2> HIDE DEF ends
  <2> QED BY <2>1, MaxIs
<1>9. /\ stop \in Int /\ to <= stop /\ stop <= LastBit + 1
      /\ \A m \in met : EndOf(bp, m) <= stop
      /\ stop = to \/ \E m \in met : stop = EndOf(bp, m)
  <2>1. /\ to <= stop /\ \A m \in met : EndOf(bp, m) <= stop
        /\ stop = to \/ \E m \in met : stop = EndOf(bp, m)
    <3> HIDE DEF stop
    <3> QED BY <1>8
  <2> HIDE DEF stop
  <2> QED BY <1>1, <1>2, <1>3, <1>5, <2>1
<1> HIDE DEF ends, stop
<1>10. /\ mid \in RbRecords /\ Nodes(mid) = Nodes(bp) \ met
       /\ \A m \in Nodes(mid) : StartOf(mid, m) = StartOf(bp, m) /\ EndOf(mid, m) = EndOf(bp, m)
       /\ ClearedCursors(bp, mid, met) /\ SameEnds(bp, mid)
  BY <1>1, FreeIs
<1> HIDE DEF mid
<1>11. /\ new \in RbRecords /\ Nodes(new) = Nodes(mid) \cup {n}
       /\ StartOf(new, n) = from /\ EndOf(new, n) = stop
       /\ \A m \in Nodes(mid) \ {n} : StartOf(new, m) = StartOf(mid, m) /\ EndOf(new, m) = EndOf(mid, m)
       /\ SameCursors(mid, new) /\ SameEnds(mid, new)
  BY <1>1, <1>9, <1>10, PutIs
<1>12. MergeRight(bp, n, from, to) = new
  BY DEF MergeRight, mid, stop, ends, met
<1> HIDE DEF new
<1>13. /\ Nodes(new) = (Nodes(bp) \ met) \cup {n}
       /\ \A m \in Nodes(new) \ {n} : /\ m \in Nodes(bp) \ {n} /\ m \notin met
                                      /\ StartOf(new, m) = StartOf(bp, m) /\ EndOf(new, m) = EndOf(bp, m)
  BY <1>10, <1>11
<1>14. \A m \in Nodes(new) \ {n} : EndOf(new, m) < from \/ stop < StartOf(new, m)
  <2> TAKE m \in Nodes(new) \ {n}
  <2>1. m \in Nodes(bp) \ {n} /\ m \notin met /\ StartOf(new, m) = StartOf(bp, m) /\ EndOf(new, m) = EndOf(bp, m)
    BY <1>13
  <2>2. CASE EndOf(bp, m) < from
    BY <2>1, <2>2
  <2>3. CASE to < StartOf(bp, m)
    <3>1. CASE stop = to
      BY <2>1, <2>3, <3>1
    <3>2. ASSUME NEW x \in met, stop = EndOf(bp, x) PROVE stop < StartOf(bp, m)
      <4>1. x \in Nodes(bp) \ {n} /\ StartOf(bp, x) <= to /\ x # m
        BY <1>5, <2>1
      <4>2. EndOf(bp, m) < StartOf(bp, x) \/ EndOf(bp, x) < StartOf(bp, m)
        BY <1>4, <2>1, <4>1
      <4>3. StartOf(bp, m) < EndOf(bp, m) /\ StartOf(bp, m) \in Int /\ EndOf(bp, m) \in Int /\ StartOf(bp, x) \in Int
        BY <1>2, <1>3, <2>1, <4>1
      <4> QED BY <2>3, <3>2, <4>1, <4>2, <4>3
    <3> QED BY <1>9, <2>1, <3>1, <3>2
  <2> QED BY <1>6, <2>1, <2>2, <2>3
<1>15. Sized(new, Nodes(new))
  BY <1>1, <1>3, <1>9, <1>11, <1>13 DEF Sized
<1>16. ApartIn(new, Nodes(new))
  <2> SUFFICES ASSUME NEW m \in Nodes(new), NEW x \in Nodes(new), m # x
               PROVE  EndOf(new, m) < StartOf(new, x) \/ EndOf(new, x) < StartOf(new, m)
    BY DEF ApartIn
  <2>1. CASE m = n
    BY <1>11, <1>14, <2>1
  <2>2. CASE x = n
    BY <1>11, <1>14, <2>2
  <2>3. CASE m # n /\ x # n
    BY <1>4, <1>13, <2>3
  <2> QED BY <2>1, <2>2, <2>3
<1>17. ASSUME NEW b \in Int
       PROVE  Held(new, b) <=>
                 \/ from <= b /\ b < to
                 \/ \E m \in Nodes(bp) \ {n} : StartOf(bp, m) <= b /\ b < EndOf(bp, m)
  <2>1. ASSUME from <= b, b < to PROVE Held(new, b)
    BY <1>9, <1>11, <2>1 DEF Held
  <2>2. ASSUME NEW m \in Nodes(bp) \ {n}, StartOf(bp, m) <= b, b < EndOf(bp, m) PROVE Held(new, b)
    <3>1. CASE m \in met
      <4>1. from < StartOf(bp, m) /\ EndOf(bp, m) <= stop
        BY <1>1, <1>2, <1>5, <1>9, <3>1
      <4>2. from <= b /\ b < stop
        BY <1>2, <1>9, <2>2, <4>1
      <4> QED BY <1>11, <4>2 DEF Held
    <3>2. CASE m \notin met
      <4>1. m \in Nodes(new) /\ StartOf(new, m) = StartOf(bp, m) /\ EndOf(new, m) = EndOf(bp, m)
        BY <1>13, <3>2
      <4> QED BY <2>2, <4>1 DEF Held
    <3> QED BY <3>1, <3>2
  <2>3. ASSUME NEW m \in Nodes(new), StartOf(new, m) <= b, b < EndOf(new, m)
        PROVE  \/ from <= b /\ b < to
               \/ \E x \in Nodes(bp) \ {n} : StartOf(bp, x) <= b /\ b < EndOf(bp, x)
    <3>1. CASE m # n
      BY <1>13, <2>3, <3>1
    <3>2. CASE m = n /\ ~(b < to)
      <4>1. from <= b /\ b < stop /\ to <= b
        BY <1>11, <2>3, <3>2
      <4>2. PICK x \in met : stop = EndOf(bp, x)
        BY <1>9, <4>1
      <4>3. StartOf(bp, x) <= b /\ b < EndOf(bp, x)
        BY <1>2, <1>5, <4>1, <4>2
      <4> QED BY <1>5, <4>3
    <3> QED BY <1>11, <2>3, <3>1, <3>2
  <2> QED BY <2>1, <2>2, <2>3 DEF Held
<1>18. Nodes(bp) \ Nodes(new) = met
  BY <1>7, <1>13
<1>19. ClearedCursors(bp, new, Nodes(bp) \ Nodes(new)) /\ SameEnds(bp, new)
  BY <1>10, <1>11, <1>18 DEF ClearedCursors, SameCursors, SameEnds
<1>20. \A c : c \in Nodes(bp) \cup {n, Null} =>
          (IF c \in Nodes(bp) \ Nodes(new) THEN Null ELSE c) \in Nodes(new) \cup {Null}
  BY <1>13
<1>21. Tree(new) /\ n \in Nodes(new) /\ Nodes(new) \subseteq Nodes(bp) \cup {n}
  BY <1>11, <1>13, <1>15, <1>16 DEF Tree
<1> HIDE DEF new
<1> QED BY <1>12, <1>17, <1>19, <1>20, <1>21 DEF Merged

\* rb_get_new_extent finds a node number that is not in use.
LEMMA SpareNode ==
    ASSUME NEW bp, Tree(bp)
    PROVE  Min(NodeNumbers \ Nodes(bp)) \in NodeNumbers \ Nodes(bp)
<1>1. bp \in RbRecords /\ Nodes(bp) \subseteq NodeNumbers
      /\ \A m \in Nodes(bp) : m # Null /\ StartOf(bp, m) \in Int /\ EndOf(bp, m) \in Int
  BY RbIntegers DEF Tree
<1>2. NodeNumbers \ Nodes(bp) # {}
  <2> SUFFICES ASSUME Nodes(bp) = NodeNumbers PROVE FALSE
    BY <1>1
  <2> DEFINE f == [n \in NodeNumbers |-> StartOf(bp, n)]
  <2>1. IsFiniteSet(NodeNumbers) /\ Cardinality(NodeNumbers) = LastBit + 2
    <3>1. 1 \in Int /\ LastBit + 2 \in Int /\ ~(1 > LastBit + 2) /\ LastBit + 2 - 1 + 1 = LastBit + 2
      BY RbAssumption
    <3> QED BY <3>1, FS_Interval DEF NodeNumbers
  <2>2. IsFiniteSet(Bits) /\ Cardinality(Bits) = LastBit + 1
    <3>1. 0 \in Int /\ LastBit \in Int /\ ~(0 > LastBit) /\ LastBit - 0 + 1 = LastBit + 1
      BY RbAssumption
    <3> QED BY <3>1, FS_Interval DEF Bits
  <2>3. f \in [NodeNumbers -> Bits]
    <3>1. \A n \in NodeNumbers : StartOf(bp, n) \in Bits
      BY <1>1, RbAssumption DEF Tree, Sized, Bits
    <3> QED BY <3>1
  <2> HIDE DEF f
  <2>4. PICK x, y \in NodeNumbers : x # y /\ f[x] = f[y]
    <3>1. Cardinality(Bits) < Cardinality(NodeNumbers)
      BY <2>1, <2>2, RbAssumption
    <3> QED BY <2>1, <2>2, <2>3, <3>1, FS_PigeonHole
  <2>5. StartOf(bp, x) = StartOf(bp, y)
    BY <2>4 DEF f
  <2>6. /\ EndOf(bp, x) < StartOf(bp, y) \/ EndOf(bp, y) < StartOf(bp, x)
        /\ StartOf(bp, x) < EndOf(bp, x) /\ StartOf(bp, y) < EndOf(bp, y)
    BY <2>4 DEF Tree, ApartIn, Sized
  <2> QED BY <1>1, <2>5, <2>6
<1>3. NodeNumbers \ Nodes(bp) \subseteq Nat
  BY RbAssumption DEF NodeNumbers
<1> QED BY <1>2, <1>3, MinIs

\* A record with other cursors has the same tree.
SameTree(bp, new) ==
    /\ new \in RbRecords /\ Nodes(new) = Nodes(bp) /\ SameEnds(bp, new)
    /\ \A m : StartOf(new, m) = StartOf(bp, m) /\ EndOf(new, m) = EndOf(bp, m)

\* Assigning a cursor leaves the tree alone.
LEMMA CursorEdits ==
    ASSUME NEW bp \in RbRecords, NEW c \in Int
    PROVE  /\ LET new == [bp EXCEPT !.wcursor = c] IN
              SameTree(bp, new) /\ new.wcursor = c /\ new.rcursor = bp.rcursor /\ new.rcursor_next = bp.rcursor_next
           /\ LET new == [bp EXCEPT !.rcursor_next = c] IN
              SameTree(bp, new) /\ new.wcursor = bp.wcursor /\ new.rcursor = bp.rcursor /\ new.rcursor_next = c
BY DEF RbRecords, SameTree, SameEnds, Nodes, StartOf, EndOf

\* rb_test_bit moves both of the read cursors.
ReadCursors(bp, c, d) == [bp EXCEPT !.rcursor = c, !.rcursor_next = d]

\* What moving the read cursors changes.
LEMMA TwoCursors ==
    ASSUME NEW bp \in RbRecords, NEW c \in Int, NEW d \in Int
    PROVE  LET new == ReadCursors(bp, c, d) IN
           SameTree(bp, new) /\ new.wcursor = bp.wcursor /\ new.rcursor = c /\ new.rcursor_next = d
BY DEF ReadCursors, RbRecords, SameTree, SameEnds, Nodes, StartOf, EndOf

\* rb_truncate drops the read and the write cursor.
NoCursors(bp) == [bp EXCEPT !.rcursor = Null, !.wcursor = Null]

\* What dropping them changes.
LEMMA NoCursorsIs ==
    ASSUME NEW bp \in RbRecords
    PROVE  LET new == NoCursors(bp) IN
           SameTree(bp, new) /\ new.wcursor = Null /\ new.rcursor = Null
<1>1. Null \in Int
  BY DEF Null
<1> QED BY <1>1 DEF NoCursors, RbRecords, SameTree, SameEnds, Nodes, StartOf, EndOf

\* Two bitmaps with the same tree hold the same bits.
LEMMA SameTreeIs ==
    ASSUME NEW bp, NEW new, SameTree(bp, new), bp \in RbRecords
    PROVE  /\ Tree(bp) => Tree(new)
           /\ \A b \in Int : Held(new, b) <=> Held(bp, b)
BY DEF SameTree, Tree, Sized, ApartIn, Held

\* The arguments of rb_insert_extent, and what it returns: the bits are held, the
\* value says whether the first one already was.
Insertable(bp, start, count) ==
    /\ Tree(bp) /\ CursorsIn(bp) /\ bp.rcursor_next = Null
    /\ start \in Int /\ count \in Int /\ 0 <= start /\ 1 <= count /\ start + count <= LastBit + 1

Inserted(bp, got, start, count) ==
    /\ Tree(got.bp) /\ CursorsIn(got.bp) /\ got.bp.rcursor_next = Null /\ SameEnds(bp, got.bp)
    /\ \A b \in Int : Held(got.bp, b) <=> Held(bp, b) \/ (start <= b /\ b < start + count)
    /\ count = 1 => (got.ret = 1 <=> Held(bp, start))

\* rb_insert_extent where it does not find the bits in a node already.
LEMMA InsertRunIs ==
    ASSUME NEW bp, NEW start, NEW count, Insertable(bp, start, count)
    PROVE  Inserted(bp, InsertRun(bp, start, count), start, count)
<1> DEFINE stop == start + count
           Meets(n) == start \in StartOf(bp, n) .. EndOf(bp, n)
           met == IF bp.wcursor # Null /\ Meets(bp.wcursor) THEN {bp.wcursor}
                  ELSE {n \in Nodes(bp) : Meets(n)}
           ext == CHOOSE n \in met : TRUE
           new == Min(NodeNumbers \ Nodes(bp))
           got == InsertRun(bp, start, count)
<1>1. /\ start \in Int /\ stop \in Int /\ 0 <= start /\ start < stop /\ stop <= LastBit + 1
      /\ count = 1 => stop = start + 1
  BY RbAssumption DEF Insertable
<1>2. /\ bp \in RbRecords /\ bp.rcursor_next = Null
      /\ bp.wcursor \in Nodes(bp) \cup {Null} /\ bp.rcursor \in Nodes(bp) \cup {Null}
      /\ Tree(bp) /\ Sized(bp, Nodes(bp)) /\ ApartIn(bp, Nodes(bp))
  BY DEF Insertable, Tree, CursorsIn
<1>3. /\ Nodes(bp) \subseteq NodeNumbers
      /\ \A m \in Nodes(bp) : m \in Nat /\ m # Null /\ StartOf(bp, m) \in Int /\ EndOf(bp, m) \in Int
  BY <1>2, RbIntegers
<1>4. \A m \in Nodes(bp) : 0 <= StartOf(bp, m) /\ StartOf(bp, m) < EndOf(bp, m) /\ EndOf(bp, m) <= LastBit + 1
  BY <1>2 DEF Sized
<1>5. \A m, x \in Nodes(bp) : m # x => EndOf(bp, m) < StartOf(bp, x) \/ EndOf(bp, x) < StartOf(bp, m)
  BY <1>2 DEF ApartIn
<1>6. met = {} => \A m \in Nodes(bp) : EndOf(bp, m) < start \/ start < StartOf(bp, m)
  <2> SUFFICES ASSUME met = {}, NEW m \in Nodes(bp) PROVE EndOf(bp, m) < start \/ start < StartOf(bp, m)
    OBVIOUS
  <2>1. ~Meets(m)
    OBVIOUS
  <2> QED BY <1>1, <1>3, <2>1
<1>7. met # {} => ext \in Nodes(bp) /\ StartOf(bp, ext) <= start /\ start <= EndOf(bp, ext)
  <2> SUFFICES ASSUME met # {} PROVE ext \in Nodes(bp) /\ StartOf(bp, ext) <= start /\ start <= EndOf(bp, ext)
    OBVIOUS
  <2>1. ext \in met
    <3> HIDE DEF met
    <3> QED OBVIOUS
  <2>2. \A n \in met : n \in Nodes(bp) /\ Meets(n)
    BY <1>2
  <2> HIDE DEF ext, met
  <2> QED BY <1>1, <1>3, <2>1, <2>2
<1>8. /\ met = {} => got = [bp |-> MergeRight([Put(bp, new, start, stop) EXCEPT !.wcursor = new], new, start, stop),
                            ret |-> 0]
      /\ met # {} /\ stop <= EndOf(bp, ext) => got = [bp |-> bp, ret |-> 1]
      /\ met # {} /\ ~(stop <= EndOf(bp, ext)) =>
            got = [bp |-> MergeRight(bp, ext, StartOf(bp, ext), stop), ret |-> IF EndOf(bp, ext) = start THEN 0 ELSE 1]
  BY DEF InsertRun
<1>9. new \in NodeNumbers \ Nodes(bp)
  BY <1>2, SpareNode
<1> HIDE DEF met, ext, new, got
<1> SUFFICES Inserted(bp, got, start, count)
  BY DEF got
<1>10. CASE met = {}
  <2> DEFINE one == Put(bp, new, start, stop)
             mid == [one EXCEPT !.wcursor = new]
             end == MergeRight(mid, new, start, stop)
  <2>1. /\ one \in RbRecords /\ Nodes(one) = Nodes(bp) \cup {new}
        /\ \A m \in Nodes(bp) \ {new} : StartOf(one, m) = StartOf(bp, m) /\ EndOf(one, m) = EndOf(bp, m)
        /\ SameCursors(bp, one) /\ SameEnds(bp, one)
    <3> HIDE DEF stop
    <3> QED BY <1>1, <1>2, <1>9, PutIs
  <2> HIDE DEF one
  <2>2. SameTree(one, mid) /\ mid.wcursor = new /\ mid.rcursor = one.rcursor /\ mid.rcursor_next = one.rcursor_next
    <3>1. new \in Int
      BY <1>9, RbAssumption DEF NodeNumbers
    <3> QED BY <2>1, <3>1, CursorEdits
  <2> HIDE DEF mid
  <2>3. /\ mid \in RbRecords /\ Nodes(mid) \ {new} = Nodes(bp) /\ Nodes(mid) = Nodes(bp) \cup {new}
        /\ SameEnds(bp, mid)
        /\ \A m \in Nodes(bp) : StartOf(mid, m) = StartOf(bp, m) /\ EndOf(mid, m) = EndOf(bp, m)
        /\ mid.wcursor = new /\ mid.rcursor = bp.rcursor /\ mid.rcursor_next = Null
    BY <1>2, <1>9, <2>1, <2>2 DEF SameTree, SameEnds, SameCursors
  <2>4. Mergeable(mid, new, start, stop)
    <3>1. Sized(mid, Nodes(mid) \ {new}) /\ ApartIn(mid, Nodes(mid) \ {new})
      BY <1>4, <1>5, <2>3 DEF Sized, ApartIn
    <3> QED BY <1>1, <1>6, <1>9, <1>10, <2>3, <3>1 DEF Mergeable
  <2>5. Merged(mid, new, start, stop, end)
    <3> HIDE DEF stop
    <3> QED BY <1>1, <2>4, MergeRightIs
  <2> HIDE DEF end
  <2>6. \A b \in Int : Held(end, b) <=> Held(bp, b) \/ (start <= b /\ b < stop)
    BY <2>3, <2>5 DEF Merged, Held
  <2>7. CursorsIn(end) /\ end.rcursor_next = Null
    <3>1. /\ \A c : c \in Nodes(mid) \cup {new, Null} =>
                (IF c \in Nodes(mid) \ Nodes(end) THEN Null ELSE c) \in Nodes(end) \cup {Null}
          /\ ClearedCursors(mid, end, Nodes(mid) \ Nodes(end))
      BY <2>5 DEF Merged
    <3>2. mid.wcursor \in Nodes(mid) \cup {new, Null} /\ mid.rcursor \in Nodes(mid) \cup {new, Null}
      BY <1>2, <2>3
    <3>3. end.rcursor_next = Null
      BY <2>3, <3>1 DEF ClearedCursors
    <3>4. end.wcursor \in Nodes(end) \cup {Null}
      BY <3>1, <3>2 DEF ClearedCursors
    <3>5. end.rcursor \in Nodes(end) \cup {Null}
      BY <3>1, <3>2 DEF ClearedCursors
    <3> QED BY <3>3, <3>4, <3>5 DEF CursorsIn
  <2>8. Tree(end) /\ SameEnds(bp, end)
    BY <2>3, <2>5 DEF Merged, SameEnds
  <2>9. ~Held(bp, start)
    BY <1>1, <1>3, <1>4, <1>6, <1>10 DEF Held
  <2>10. got = [bp |-> end, ret |-> 0]
    BY <1>8, <1>10 DEF end, mid, one
  <2> QED BY <2>6, <2>7, <2>8, <2>9, <2>10 DEF Inserted
<1>11. CASE met # {} /\ stop <= EndOf(bp, ext)
  <2>1. got.bp = bp /\ got.ret = 1
    BY <1>8, <1>11
  <2>2. \A b \in Int : start <= b /\ b < stop => Held(bp, b)
    BY <1>1, <1>3, <1>7, <1>11 DEF Held
  <2>3. Held(bp, start)
    BY <1>1, <2>2
  <2> QED BY <2>1, <2>2, <2>3 DEF Inserted, Insertable, SameEnds
<1>12. CASE met # {} /\ ~(stop <= EndOf(bp, ext))
  <2> DEFINE from == StartOf(bp, ext)
             end == MergeRight(bp, ext, from, stop)
  <2>1. ext \in Nodes(bp) /\ from \in Int /\ from <= start /\ start <= EndOf(bp, ext) /\ EndOf(bp, ext) < stop
        /\ 0 <= from /\ from < EndOf(bp, ext) /\ EndOf(bp, ext) \in Int
    BY <1>1, <1>3, <1>4, <1>7, <1>12
  <2>2. Mergeable(bp, ext, from, stop)
    <3>1. \A m \in Nodes(bp) \ {ext} : EndOf(bp, m) < from \/ from < StartOf(bp, m)
      BY <1>3, <1>5, <2>1
    <3>2. Sized(bp, Nodes(bp) \ {ext}) /\ ApartIn(bp, Nodes(bp) \ {ext})
      BY <1>4, <1>5 DEF Sized, ApartIn
    <3> QED BY <1>1, <1>2, <1>3, <2>1, <3>1, <3>2 DEF Mergeable
  <2> HIDE DEF from
  <2>3. Merged(bp, ext, from, stop, end)
    <3> HIDE DEF stop
    <3> QED BY <1>1, <2>1, <2>2, MergeRightIs
  <2> HIDE DEF end
  <2>4. \A b \in Int : Held(end, b) <=> Held(bp, b) \/ (start <= b /\ b < stop)
    <3> TAKE b \in Int
    <3>1. Held(bp, b) <=> \/ from <= b /\ b < EndOf(bp, ext)
                          \/ \E m \in Nodes(bp) \ {ext} : StartOf(bp, m) <= b /\ b < EndOf(bp, m)
      BY <2>1 DEF Held, from
    <3>2. (from <= b /\ b < stop) <=> (from <= b /\ b < EndOf(bp, ext)) \/ (start <= b /\ b < stop)
      BY <1>1, <2>1
    <3>3. Held(end, b) <=> \/ from <= b /\ b < stop
                           \/ \E m \in Nodes(bp) \ {ext} : StartOf(bp, m) <= b /\ b < EndOf(bp, m)
      BY <2>3 DEF Merged
    <3> QED BY <3>1, <3>2, <3>3
  <2>5. CursorsIn(end) /\ end.rcursor_next = Null
    <3>1. /\ \A c : c \in Nodes(bp) \cup {ext, Null} =>
                (IF c \in Nodes(bp) \ Nodes(end) THEN Null ELSE c) \in Nodes(end) \cup {Null}
          /\ ClearedCursors(bp, end, Nodes(bp) \ Nodes(end))
      BY <2>3 DEF Merged
    <3>2. bp.wcursor \in Nodes(bp) \cup {ext, Null} /\ bp.rcursor \in Nodes(bp) \cup {ext, Null}
      BY <1>2
    <3> QED BY <1>2, <3>1, <3>2 DEF ClearedCursors, CursorsIn
  <2>6. Tree(end) /\ SameEnds(bp, end)
    BY <2>3 DEF Merged
  <2>7. got.bp = end /\ got.ret = IF EndOf(bp, ext) = start THEN 0 ELSE 1
    BY <1>8, <1>12 DEF end, from
  <2>8. count = 1 => EndOf(bp, ext) = start /\ ~Held(bp, start)
    <3> SUFFICES ASSUME count = 1 PROVE EndOf(bp, ext) = start /\ ~Held(bp, start)
      OBVIOUS
    <3>1. EndOf(bp, ext) = start
      BY <1>1, <2>1
    <3>2. ASSUME NEW m \in Nodes(bp), StartOf(bp, m) <= start, start < EndOf(bp, m) PROVE FALSE
      BY <1>3, <1>4, <1>5, <2>1, <3>1, <3>2 DEF from
    <3> QED BY <3>1, <3>2 DEF Held
  <2> QED BY <2>4, <2>5, <2>6, <2>7, <2>8 DEF Inserted
<1> QED BY <1>10, <1>11, <1>12

\* The tree is well formed, and so are the cursors into it.
RbSound(bp) == Tree(bp) /\ Cursors(bp)

\* rb_insert_extent sets the bits and keeps the bitmap sound.
LEMMA InsertIs ==
    ASSUME NEW bp, RbSound(bp), NEW start \in Int, NEW count \in Int,
           0 <= start, 0 <= count, start + count <= LastBit + 1
    PROVE  LET got == rb_insert_extent(bp, start, count) IN
           /\ RbSound(got.bp) /\ SameEnds(bp, got.bp)
           /\ \A b \in Int : Held(got.bp, b) <=> Held(bp, b) \/ (start <= b /\ b < start + count)
           /\ count = 1 => (got.ret = 1 <=> Held(bp, start))
<1> DEFINE got == rb_insert_extent(bp, start, count)
           mid == [bp EXCEPT !.rcursor_next = Null]
           run == InsertRun(mid, start, count)
<1>1. Tree(bp) /\ bp \in RbRecords /\ CursorsIn(bp)
  BY DEF RbSound, Tree, Cursors
<1>2. CASE count = 0
  <2>1. got = [bp |-> bp, ret |-> 0]
    BY <1>2 DEF rb_insert_extent
  <2>2. \A b \in Int : ~(start <= b /\ b < start + count)
    BY <1>2
  <2> HIDE DEF got
  <2>3. got.bp = bp
    BY <2>1
  <2>4. SameEnds(bp, got.bp)
    BY <2>3 DEF SameEnds
  <2> QED BY <1>2, <2>2, <2>3, <2>4 DEF got
<1>3. CASE count # 0
  <2>1. SameTree(bp, mid) /\ mid.wcursor = bp.wcursor /\ mid.rcursor = bp.rcursor /\ mid.rcursor_next = Null
    <3>1. Null \in Int
      BY DEF Null
    <3> QED BY <1>1, <3>1, CursorEdits
  <2>2. got = run
    BY <1>3 DEF rb_insert_extent
  <2> HIDE DEF mid
  <2>3. /\ Tree(mid) /\ SameEnds(bp, mid) /\ CursorsIn(mid)
        /\ \A b \in Int : Held(mid, b) <=> Held(bp, b)
    BY <1>1, <2>1, SameTreeIs DEF SameTree, CursorsIn
  <2>4. Insertable(mid, start, count)
    BY <1>3, <2>1, <2>3 DEF Insertable
  <2>5. Inserted(mid, run, start, count)
    BY <2>4, InsertRunIs
  <2> HIDE DEF got, run
  <2>6. RbSound(run.bp)
    BY <2>5 DEF RbSound, Inserted, Cursors, NothingBetween
  <2>7. SameEnds(bp, run.bp)
    BY <2>3, <2>5 DEF Inserted, SameEnds
  <2>8. \A b \in Int : Held(run.bp, b) <=> Held(bp, b) \/ (start <= b /\ b < start + count)
    BY <2>3, <2>5 DEF Inserted
  <2>9. count = 1 => (run.ret = 1 <=> Held(bp, start))
    BY <2>3, <2>5 DEF Inserted
  <2> QED BY <2>2, <2>6, <2>7, <2>8, <2>9 DEF got
<1> QED BY <1>2, <1>3

\* The extents of new are parts of extents of bp.
Trims(bp, new) ==
    /\ new \in RbRecords /\ Nodes(new) \subseteq Nodes(bp)
    /\ \A n \in Nodes(new) : /\ StartOf(bp, n) <= StartOf(new, n) /\ EndOf(new, n) <= EndOf(bp, n)
                             /\ StartOf(new, n) < EndOf(new, n)
    /\ CursorsIn(new)
    /\ new.rcursor # Null => /\ new.rcursor = bp.rcursor
                             /\ new.rcursor_next \in {bp.rcursor_next, Null}

\* Trimming extents keeps a tree sound.
LEMMA TrimIs ==
    ASSUME NEW bp, RbSound(bp), NEW new, Trims(bp, new)
    PROVE  RbSound(new)
<1>1. /\ bp \in RbRecords /\ new \in RbRecords /\ Nodes(new) \subseteq Nodes(bp)
      /\ Sized(bp, Nodes(bp)) /\ ApartIn(bp, Nodes(bp))
  BY DEF RbSound, Tree, Trims
<1>2. /\ \A m \in Nodes(bp) : StartOf(bp, m) \in Int /\ EndOf(bp, m) \in Int
      /\ \A m \in Nodes(new) : StartOf(new, m) \in Int /\ EndOf(new, m) \in Int
  BY <1>1, RbIntegers
<1>3. \A n \in Nodes(new) : /\ StartOf(bp, n) <= StartOf(new, n) /\ EndOf(new, n) <= EndOf(bp, n)
                            /\ StartOf(new, n) < EndOf(new, n)
  BY DEF Trims
<1>4. \A m \in Nodes(bp) : 0 <= StartOf(bp, m) /\ StartOf(bp, m) < EndOf(bp, m) /\ EndOf(bp, m) <= LastBit + 1
  BY <1>1 DEF Sized
<1>5. \A m, x \in Nodes(bp) : m # x => EndOf(bp, m) < StartOf(bp, x) \/ EndOf(bp, x) < StartOf(bp, m)
  BY <1>1 DEF ApartIn
<1>6. Sized(new, Nodes(new))
  BY <1>1, <1>2, <1>3, <1>4, RbAssumption DEF Sized
<1>7. ApartIn(new, Nodes(new))
  <2> SUFFICES ASSUME NEW m \in Nodes(new), NEW x \in Nodes(new), m # x
               PROVE  EndOf(new, m) < StartOf(new, x) \/ EndOf(new, x) < StartOf(new, m)
    BY DEF ApartIn
  <2>1. m \in Nodes(bp) /\ x \in Nodes(bp)
    BY <1>1
  <2>2. EndOf(bp, m) < StartOf(bp, x) \/ EndOf(bp, x) < StartOf(bp, m)
    BY <1>5, <2>1
  <2> QED BY <1>2, <1>3, <2>1, <2>2
<1>8. NothingBetween(new)
  <2> DEFINE r == bp.rcursor
             q == bp.rcursor_next
  <2> SUFFICES ASSUME new.rcursor # Null, new.rcursor_next # Null, NEW b \in Int,
                      EndOf(new, new.rcursor) <= b, b < StartOf(new, new.rcursor_next), Held(new, b)
               PROVE  FALSE
    BY DEF NothingBetween
  <2>1. new.rcursor = r /\ new.rcursor_next = q /\ r # Null /\ q # Null /\ r \in Nodes(new) /\ q \in Nodes(new)
    BY DEF Trims, CursorsIn
  <2>2. PICK m \in Nodes(new) : StartOf(new, m) <= b /\ b < EndOf(new, m)
    BY DEF Held
  <2> HIDE DEF r, q
  <2>3. EndOf(new, r) <= b /\ b < StartOf(new, q)
    BY <2>1
  <2>4. m # r /\ m # q /\ m \in Nodes(bp) /\ r \in Nodes(bp) /\ q \in Nodes(bp)
    BY <1>1, <1>2, <2>1, <2>2, <2>3
  <2>5. StartOf(bp, m) <= b /\ b < EndOf(bp, m)
    BY <1>2, <1>3, <2>2, <2>4
  <2>6. EndOf(bp, r) <= b
    <3>1. EndOf(bp, m) < StartOf(bp, r) \/ EndOf(bp, r) < StartOf(bp, m)
      BY <1>5, <2>4
    <3>2. StartOf(bp, r) <= StartOf(new, r) /\ StartOf(new, r) < EndOf(new, r)
      BY <1>3, <2>1
    <3> QED BY <1>2, <2>1, <2>3, <2>4, <2>5, <3>1, <3>2
  <2>7. b < StartOf(bp, q)
    <3>1. EndOf(bp, m) < StartOf(bp, q) \/ EndOf(bp, q) < StartOf(bp, m)
      BY <1>5, <2>4
    <3>2. EndOf(new, q) <= EndOf(bp, q) /\ StartOf(new, q) < EndOf(new, q)
      BY <1>3, <2>1
    <3> QED BY <1>2, <2>1, <2>3, <2>4, <2>5, <3>1, <3>2
  <2>8. Held(bp, b)
    BY <2>4, <2>5 DEF Held
  <2> QED BY <2>1, <2>6, <2>7, <2>8 DEF RbSound, Cursors, NothingBetween, r, q
<1> QED BY <1>1, <1>6, <1>7, <1>8 DEF RbSound, Tree, Cursors, Trims

\* Shortening a node is trimming,
LEMMA PutTrims ==
    ASSUME NEW bp, RbSound(bp), NEW n \in Nodes(bp), NEW from \in Int, NEW to \in Int,
           StartOf(bp, n) <= from, from < to, to <= EndOf(bp, n)
    PROVE  LET new == Put(bp, n, from, to) IN
           /\ RbSound(new) /\ SameEnds(bp, new) /\ Nodes(new) = Nodes(bp)
           /\ \A b \in Int : Held(new, b) <=>
                 Held(bp, b) /\ ~(StartOf(bp, n) <= b /\ b < from) /\ ~(to <= b /\ b < EndOf(bp, n))
<1> DEFINE new == Put(bp, n, from, to)
<1>1. bp \in RbRecords /\ CursorsIn(bp)
  BY DEF RbSound, Tree, Cursors
<1>2. \A m \in Nodes(bp) : StartOf(bp, m) \in Int /\ EndOf(bp, m) \in Int /\ m \in NodeNumbers
  BY <1>1, RbIntegers
<1>3. /\ new \in RbRecords /\ Nodes(new) = Nodes(bp)
      /\ StartOf(new, n) = from /\ EndOf(new, n) = to
      /\ \A m \in Nodes(bp) \ {n} : StartOf(new, m) = StartOf(bp, m) /\ EndOf(new, m) = EndOf(bp, m)
      /\ SameCursors(bp, new) /\ SameEnds(bp, new)
  <2>1. /\ new \in RbRecords /\ Nodes(new) = Nodes(bp) \cup {n}
        /\ StartOf(new, n) = from /\ EndOf(new, n) = to
        /\ \A m \in Nodes(bp) \ {n} : StartOf(new, m) = StartOf(bp, m) /\ EndOf(new, m) = EndOf(bp, m)
        /\ SameCursors(bp, new) /\ SameEnds(bp, new)
    BY <1>1, <1>2, PutIs
  <2> HIDE DEF new
  <2> QED BY <2>1
<1> HIDE DEF new
<1>4. \A m, x \in Nodes(bp) : m # x => EndOf(bp, m) < StartOf(bp, x) \/ EndOf(bp, x) < StartOf(bp, m)
  BY DEF RbSound, Tree, ApartIn
<1>5. \A m \in Nodes(bp) : StartOf(bp, m) < EndOf(bp, m)
  BY DEF RbSound, Tree, Sized
<1>6. RbSound(new)
  <2>1. \A m \in Nodes(new) : /\ StartOf(bp, m) <= StartOf(new, m) /\ EndOf(new, m) <= EndOf(bp, m)
                              /\ StartOf(new, m) < EndOf(new, m)
    <3> TAKE m \in Nodes(new)
    <3>1. CASE m = n
      BY <1>3, <3>1
    <3>2. CASE m # n
      BY <1>2, <1>3, <1>5, <3>2
    <3> QED BY <3>1, <3>2
  <2>2. CursorsIn(new) /\ new.rcursor = bp.rcursor /\ new.rcursor_next = bp.rcursor_next
    BY <1>1, <1>3 DEF CursorsIn, SameCursors
  <2>3. Trims(bp, new)
    BY <1>3, <2>1, <2>2 DEF Trims
  <2> QED BY <2>3, TrimIs
<1>7. ASSUME NEW b \in Int
      PROVE  Held(new, b) <=> Held(bp, b) /\ ~(StartOf(bp, n) <= b /\ b < from) /\ ~(to <= b /\ b < EndOf(bp, n))
  <2>1. ASSUME NEW m \in Nodes(new), StartOf(new, m) <= b, b < EndOf(new, m)
        PROVE  Held(bp, b) /\ ~(StartOf(bp, n) <= b /\ b < from) /\ ~(to <= b /\ b < EndOf(bp, n))
    <3>1. CASE m = n
      BY <1>2, <1>3, <2>1, <3>1 DEF Held
    <3>2. CASE m # n
      <4>1. StartOf(bp, m) <= b /\ b < EndOf(bp, m) /\ m \in Nodes(bp)
        BY <1>3, <2>1, <3>2
      <4>2. EndOf(bp, m) < StartOf(bp, n) \/ EndOf(bp, n) < StartOf(bp, m)
        BY <1>4, <3>2, <4>1
      <4> QED BY <1>2, <4>1, <4>2 DEF Held
    <3> QED BY <3>1, <3>2
  <2>2. ASSUME NEW m \in Nodes(bp), StartOf(bp, m) <= b, b < EndOf(bp, m),
               ~(StartOf(bp, n) <= b /\ b < from), ~(to <= b /\ b < EndOf(bp, n))
        PROVE  Held(new, b)
    <3>1. CASE m = n
      BY <1>2, <1>3, <2>2, <3>1 DEF Held
    <3>2. CASE m # n
      BY <1>3, <2>2, <3>2 DEF Held
    <3> QED BY <3>1, <3>2
  <2> QED BY <2>1, <2>2 DEF Held
<1> QED BY <1>3, <1>6, <1>7 DEF new

\* and so is freeing one.
LEMMA FreeTrims ==
    ASSUME NEW bp, RbSound(bp), NEW ns, ns \subseteq Nodes(bp)
    PROVE  LET new == rb_free_extent(bp, ns) IN
           /\ RbSound(new) /\ SameEnds(bp, new) /\ Nodes(new) = Nodes(bp) \ ns
           /\ \A m \in Nodes(new) : StartOf(new, m) = StartOf(bp, m) /\ EndOf(new, m) = EndOf(bp, m)
           /\ \A b \in Int : Held(new, b) <=>
                 Held(bp, b) /\ ~\E n \in ns : StartOf(bp, n) <= b /\ b < EndOf(bp, n)
<1> DEFINE new == rb_free_extent(bp, ns)
<1>1. bp \in RbRecords /\ CursorsIn(bp)
  BY DEF RbSound, Tree, Cursors
<1>2. \A m \in Nodes(bp) : StartOf(bp, m) \in Int /\ EndOf(bp, m) \in Int /\ m # Null
  BY <1>1, RbIntegers
<1>3. /\ new \in RbRecords /\ Nodes(new) = Nodes(bp) \ ns
      /\ \A m \in Nodes(new) : StartOf(new, m) = StartOf(bp, m) /\ EndOf(new, m) = EndOf(bp, m)
      /\ ClearedCursors(bp, new, ns) /\ SameEnds(bp, new)
  BY <1>1, FreeIs
<1> HIDE DEF new
<1>4. \A m, x \in Nodes(bp) : m # x => EndOf(bp, m) < StartOf(bp, x) \/ EndOf(bp, x) < StartOf(bp, m)
  BY DEF RbSound, Tree, ApartIn
<1>5. \A m \in Nodes(bp) : StartOf(bp, m) < EndOf(bp, m)
  BY DEF RbSound, Tree, Sized
<1>6. RbSound(new)
  <2>1. CursorsIn(new)
    <3>1. \A c \in Nodes(bp) \cup {Null} : (IF c \in ns THEN Null ELSE c) \in Nodes(new) \cup {Null}
      BY <1>3
    <3>2. new.wcursor \in Nodes(new) \cup {Null} /\ new.rcursor \in Nodes(new) \cup {Null}
      BY <1>1, <1>3, <3>1 DEF CursorsIn, ClearedCursors
    <3>3. new.rcursor # Null => new.rcursor_next \in Nodes(new) \cup {Null}
      BY <1>1, <1>3, <3>1 DEF CursorsIn, ClearedCursors
    <3> QED BY <3>2, <3>3 DEF CursorsIn
  <2>2. new.rcursor # Null => new.rcursor = bp.rcursor /\ new.rcursor_next \in {bp.rcursor_next, Null}
    BY <1>3 DEF ClearedCursors
  <2>3. Trims(bp, new)
    <3>1. \A m \in Nodes(new) : /\ StartOf(bp, m) <= StartOf(new, m) /\ EndOf(new, m) <= EndOf(bp, m)
                                /\ StartOf(new, m) < EndOf(new, m)
      BY <1>2, <1>3, <1>5
    <3> QED BY <1>3, <2>1, <2>2, <3>1 DEF Trims
  <2> QED BY <2>3, TrimIs
<1>7. ASSUME NEW b \in Int
      PROVE  Held(new, b) <=> Held(bp, b) /\ ~\E n \in ns : StartOf(bp, n) <= b /\ b < EndOf(bp, n)
  <2>1. ASSUME NEW m \in Nodes(new), StartOf(new, m) <= b, b < EndOf(new, m),
               NEW n \in ns, StartOf(bp, n) <= b, b < EndOf(bp, n)
        PROVE  FALSE
    <3>1. StartOf(bp, m) <= b /\ b < EndOf(bp, m) /\ m \in Nodes(bp) /\ n \in Nodes(bp) /\ m # n
      BY <1>3, <2>1
    <3>2. EndOf(bp, m) < StartOf(bp, n) \/ EndOf(bp, n) < StartOf(bp, m)
      BY <1>4, <3>1
    <3> QED BY <1>2, <2>1, <3>1, <3>2
  <2> QED BY <1>3, <2>1 DEF Held
<1> QED BY <1>3, <1>6, <1>7 DEF new

\* The loop of rb_remove_extent that runs to the right clears the bits from the
\* node it starts at.
LEMMA RemoveRightIs ==
    ASSUME NEW bp, RbSound(bp), NEW start \in Int, NEW stop \in Int, start <= stop, ~Held(bp, start), NEW ret
    PROVE  LET new == RemoveRight(bp, start, stop, ret).bp IN
           /\ RbSound(new) /\ SameEnds(bp, new)
           /\ \A b \in Int : Held(new, b) <=> Held(bp, b) /\ ~(start <= b /\ b < stop)
<1> DEFINE met == {n \in Nodes(bp) : EndOf(bp, n) > start /\ StartOf(bp, n) <= stop}
           whole == {n \in met : EndOf(bp, n) <= stop}
           rest == met \ whole
           mid == rb_free_extent(bp, whole)
           n == CHOOSE x \in rest : TRUE
           new == IF rest = {} THEN mid ELSE Put(mid, n, stop, EndOf(bp, n))
<1>1. bp \in RbRecords
  BY DEF RbSound, Tree
<1>2. \A m \in Nodes(bp) : StartOf(bp, m) \in Int /\ EndOf(bp, m) \in Int
  BY <1>1, RbIntegers
<1>4. \A m, x \in Nodes(bp) : m # x => EndOf(bp, m) < StartOf(bp, x) \/ EndOf(bp, x) < StartOf(bp, m)
  BY DEF RbSound, Tree, ApartIn
<1>5. \A m \in Nodes(bp) : StartOf(bp, m) < EndOf(bp, m)
  BY DEF RbSound, Tree, Sized
<1>6. RemoveRight(bp, start, stop, ret).bp = new
  BY DEF RemoveRight
<1>7. \A m \in met : start < StartOf(bp, m)
  BY <1>2 DEF Held
<1>8. /\ \A m \in whole : m \in Nodes(bp) /\ start < StartOf(bp, m) /\ EndOf(bp, m) <= stop
      /\ \A m \in rest : /\ m \in Nodes(bp) \ whole /\ start < StartOf(bp, m)
                         /\ StartOf(bp, m) <= stop /\ stop < EndOf(bp, m)
      /\ \A m \in Nodes(bp) : m \notin whole /\ m \notin rest => EndOf(bp, m) <= start \/ stop < StartOf(bp, m)
  BY <1>2, <1>7
<1> HIDE DEF met
<1>9. whole \subseteq Nodes(bp)
  BY <1>8
<1> HIDE DEF whole, rest
<1>10. /\ RbSound(mid) /\ SameEnds(bp, mid) /\ Nodes(mid) = Nodes(bp) \ whole
       /\ \A m \in Nodes(mid) : StartOf(mid, m) = StartOf(bp, m) /\ EndOf(mid, m) = EndOf(bp, m)
       /\ \A b \in Int : Held(mid, b) <=>
             Held(bp, b) /\ ~\E x \in whole : StartOf(bp, x) <= b /\ b < EndOf(bp, x)
  BY <1>9, FreeTrims
<1> HIDE DEF mid
<1>11. CASE rest = {}
  <2>1. new = mid
    BY <1>11
  <2>2. ASSUME NEW b \in Int PROVE Held(mid, b) <=> Held(bp, b) /\ ~(start <= b /\ b < stop)
    <3>1. ASSUME NEW m \in Nodes(bp), StartOf(bp, m) <= b, b < EndOf(bp, m), start <= b, b < stop PROVE m \in whole
      BY <1>2, <1>8, <1>11, <3>1
    <3>2. \A x \in whole : StartOf(bp, x) <= b /\ b < EndOf(bp, x) => start <= b /\ b < stop
      BY <1>2, <1>8
    <3> QED BY <1>10, <3>1, <3>2 DEF Held
  <2> HIDE DEF new
  <2> QED BY <1>6, <1>10, <2>1, <2>2
<1>12. CASE rest # {}
  <2>1. n \in rest
    BY <1>12
  <2>2. new = Put(mid, n, stop, EndOf(bp, n))
    BY <1>12
  <2> HIDE DEF n
  <2>3. /\ n \in Nodes(mid) /\ n \in Nodes(bp) /\ StartOf(mid, n) = StartOf(bp, n) /\ EndOf(mid, n) = EndOf(bp, n)
        /\ start < StartOf(bp, n) /\ StartOf(bp, n) <= stop /\ stop < EndOf(bp, n)
        /\ StartOf(bp, n) \in Int /\ EndOf(bp, n) \in Int
    BY <1>2, <1>8, <1>10, <2>1
  <2> DEFINE end == Put(mid, n, stop, EndOf(bp, n))
  <2>4. /\ RbSound(end) /\ SameEnds(mid, end)
        /\ \A b \in Int : Held(end, b) <=>
              Held(mid, b) /\ ~(StartOf(mid, n) <= b /\ b < stop) /\ ~(EndOf(bp, n) <= b /\ b < EndOf(mid, n))
    <3> DEFINE e == EndOf(bp, n)
    <3>1. e \in Int /\ StartOf(mid, n) <= stop /\ stop < e /\ e <= EndOf(mid, n)
      BY <2>3
    <3> HIDE DEF e
    <3>2. LET z == Put(mid, n, stop, e) IN /\ RbSound(z) /\ SameEnds(mid, z) /\ Nodes(z) = Nodes(mid)
            /\ \A b \in Int : Held(z, b) <=>
                  Held(mid, b) /\ ~(StartOf(mid, n) <= b /\ b < stop) /\ ~(e <= b /\ b < EndOf(mid, n))
      BY <1>10, <2>3, <3>1, PutTrims
    <3> QED BY <3>2 DEF e
  <2> HIDE DEF end
  <2>5. ASSUME NEW b \in Int PROVE Held(end, b) <=> Held(bp, b) /\ ~(start <= b /\ b < stop)
    <3>1. Held(end, b) <=> Held(mid, b) /\ ~(StartOf(bp, n) <= b /\ b < stop)
      BY <2>3, <2>4
    <3>2. ASSUME NEW m \in Nodes(bp), StartOf(bp, m) <= b, b < EndOf(bp, m), start <= b, b < stop
          PROVE  m \in whole \/ m = n
      <4>1. CASE m \in rest
        BY <1>2, <1>4, <1>8, <2>3, <4>1
      <4>2. CASE m \notin rest
        BY <1>2, <1>8, <3>2, <4>2
      <4> QED BY <4>1, <4>2
    <3>3. \A x \in whole : StartOf(bp, x) <= b /\ b < EndOf(bp, x) => start <= b /\ b < stop
      BY <1>2, <1>8
    <3>4. (StartOf(bp, n) <= b /\ b < stop) => start <= b /\ b < stop
      BY <2>3
    <3>5. Held(bp, b) /\ start <= b /\ b < stop => ~Held(end, b)
      BY <1>10, <3>1, <3>2 DEF Held
    <3> QED BY <1>10, <3>1, <3>3, <3>4, <3>5
  <2>6. SameEnds(bp, end)
    BY <1>10, <2>4 DEF SameEnds
  <2>7. new = end
    BY <2>2 DEF end
  <2> HIDE DEF new
  <2> QED BY <1>6, <2>4, <2>5, <2>6, <2>7
<1> QED BY <1>11, <1>12

\* rb_remove_extent clears the bits, keeps the bitmap sound, and says whether one
\* of them was held.
LEMMA RemoveIs ==
    ASSUME NEW bp, RbSound(bp), NEW start \in Int, NEW count \in Int,
           0 <= start, 0 <= count, start + count <= LastBit + 1
    PROVE  LET new == rb_remove_extent(bp, start, count).bp IN
           /\ RbSound(new) /\ SameEnds(bp, new)
           /\ \A b \in Int : Held(new, b) <=> Held(bp, b) /\ ~(start <= b /\ b < start + count)
<1> DEFINE found == Holding(bp, start)
           n == CHOOSE x \in found : TRUE
           from == StartOf(bp, n)
           to == EndOf(bp, n)
           stop == start + count
           new == rb_remove_extent(bp, start, count).bp
<1>1. bp \in RbRecords
  BY DEF RbSound, Tree
<1>2. \A m \in Nodes(bp) : StartOf(bp, m) \in Int /\ EndOf(bp, m) \in Int
  BY <1>1, RbIntegers
<1>3. stop \in Int /\ start <= stop
  OBVIOUS
<1>4. \A m : m \in found <=> m \in Nodes(bp) /\ StartOf(bp, m) <= start /\ start < EndOf(bp, m)
  BY <1>2 DEF Holding, BitsOf
<1>5. found # {} => n \in Nodes(bp) /\ from <= start /\ start < to /\ from \in Int /\ to \in Int /\ to <= LastBit + 1
  <2>1. found # {} => n \in found
    <3> HIDE DEF found
    <3> QED OBVIOUS
  <2> HIDE DEF n, found
  <2> QED BY <1>2, <1>4, <2>1 DEF RbSound, Tree, Sized
<1>6. \A m, x \in Nodes(bp) : m # x => EndOf(bp, m) < StartOf(bp, x) \/ EndOf(bp, x) < StartOf(bp, m)
  BY DEF RbSound, Tree, ApartIn
<1>7. /\ Nodes(bp) = {} => new = bp
      /\ Nodes(bp) # {} /\ found = {} => new = RemoveRight(bp, start, stop, 0).bp
      /\ found # {} /\ start > from /\ stop < to => new = rb_insert_extent(Put(bp, n, from, start), stop, to - stop).bp
      /\ found # {} /\ stop >= to /\ start = from => new = RemoveRight(rb_free_extent(bp, {n}), start, stop, 1).bp
      /\ found # {} /\ stop >= to /\ start > from => new = RemoveRight(Put(bp, n, from, start), start, stop, 1).bp
      /\ found # {} /\ start = from /\ stop < to => new = Put(bp, n, stop, to)
  <2>1. found # {} => Nodes(bp) # {}
    BY DEF Holding
  <2>2. rb_remove_extent(bp, start, count) =
            IF Nodes(bp) = {} THEN [bp |-> bp, ret |-> 0]
            ELSE IF found = {} THEN RemoveRight(bp, start, stop, 0)
            ELSE IF start > from /\ stop < to
            THEN [bp |-> rb_insert_extent(Put(bp, n, from, start), stop, to - stop).bp, ret |-> 1]
            ELSE IF stop >= to
            THEN RemoveRight(IF start = from THEN rb_free_extent(bp, {n}) ELSE Put(bp, n, from, start),
                             start, stop, 1)
            ELSE [bp |-> Put(bp, n, stop, to), ret |-> 1]
    BY DEF rb_remove_extent
  <2> HIDE DEF n, from, to, found, stop
  <2> QED BY <1>3, <1>5, <2>1, <2>2
<1> HIDE DEF new
<1> SUFFICES /\ RbSound(new) /\ SameEnds(bp, new)
             /\ \A b \in Int : Held(new, b) <=> Held(bp, b) /\ ~(start <= b /\ b < stop)
  BY DEF new
<1>8. CASE Nodes(bp) = {}
  BY <1>7, <1>8 DEF SameEnds, Held
<1>9. CASE Nodes(bp) # {} /\ found = {}
  <2>1. ~Held(bp, start)
    <3> HIDE DEF found
    <3> QED BY <1>4, <1>9 DEF Held
  <2> HIDE DEF stop
  <2> QED BY <1>3, <1>7, <1>9, <2>1, RemoveRightIs
<1> HIDE DEF n, from, to, found
<1>10. CASE found # {} /\ start > from /\ stop < to
  <2> DEFINE mid == Put(bp, n, from, start)
  <2>1. /\ RbSound(mid) /\ SameEnds(bp, mid)
        /\ \A b \in Int : Held(mid, b) <=> Held(bp, b) /\ ~(from <= b /\ b < from) /\ ~(start <= b /\ b < to)
    <3>1. from = StartOf(bp, n) /\ to = EndOf(bp, n)
      BY DEF from, to
    <3>2. LET z == Put(bp, n, from, start) IN
          /\ RbSound(z) /\ SameEnds(bp, z) /\ Nodes(z) = Nodes(bp)
          /\ \A b \in Int : Held(z, b) <=>
                Held(bp, b) /\ ~(StartOf(bp, n) <= b /\ b < from) /\ ~(start <= b /\ b < EndOf(bp, n))
      BY <1>5, <1>10, <3>1, PutTrims
    <3> QED BY <3>1, <3>2
  <2> HIDE DEF mid
  <2> DEFINE len == to - stop
             got == rb_insert_extent(mid, stop, len)
  <2>2. len \in Int /\ stop \in Int /\ 0 <= stop /\ 0 <= len /\ stop + len <= LastBit + 1 /\ stop + len = to
    BY <1>3, <1>5, <1>10
  <2> HIDE DEF len
  <2>3. /\ RbSound(got.bp) /\ SameEnds(mid, got.bp)
        /\ \A b \in Int : Held(got.bp, b) <=> Held(mid, b) \/ (stop <= b /\ b < stop + len)
    <3> HIDE DEF stop
    <3> QED BY <2>1, <2>2, InsertIs
  <2>4. new = got.bp
    BY <1>7, <1>10 DEF mid, len
  <2> HIDE DEF got
  <2>5. \A b \in Int : from <= b /\ b < to => Held(bp, b)
    BY <1>5, <1>10 DEF Held, from, to
  <2>6. \A b \in Int : Held(new, b) <=> Held(bp, b) /\ ~(start <= b /\ b < stop)
    BY <1>3, <1>5, <1>10, <2>1, <2>2, <2>3, <2>4, <2>5
  <2>7. SameEnds(bp, new)
    BY <2>1, <2>3, <2>4 DEF SameEnds
  <2> QED BY <2>3, <2>4, <2>6, <2>7
<1>11. CASE found # {} /\ stop >= to /\ start = from
  <2> DEFINE mid == rb_free_extent(bp, {n})
             end == RemoveRight(mid, start, stop, 1).bp
  <2>1. /\ RbSound(mid) /\ SameEnds(bp, mid)
        /\ \A b \in Int : Held(mid, b) <=> Held(bp, b) /\ ~\E x \in {n} : StartOf(bp, x) <= b /\ b < EndOf(bp, x)
    <3>1. {n} \subseteq Nodes(bp)
      BY <1>5, <1>11
    <3> QED BY <3>1, FreeTrims
  <2>2. \A b \in Int : Held(mid, b) <=> Held(bp, b) /\ ~(from <= b /\ b < to)
    <3> HIDE DEF mid
    <3> QED BY <2>1 DEF from, to
  <2> HIDE DEF mid
  <2>3. ~Held(mid, start)
    BY <1>5, <1>11, <2>2
  <2>4. /\ RbSound(end) /\ SameEnds(mid, end)
        /\ \A b \in Int : Held(end, b) <=> Held(mid, b) /\ ~(start <= b /\ b < stop)
    <3> HIDE DEF stop
    <3> QED BY <1>3, <2>1, <2>3, RemoveRightIs
  <2>5. new = end
    BY <1>7, <1>11 DEF mid
  <2> HIDE DEF end
  <2>6. \A b \in Int : Held(new, b) <=> Held(bp, b) /\ ~(start <= b /\ b < stop)
    BY <1>3, <1>5, <1>11, <2>2, <2>4, <2>5
  <2> QED BY <2>1, <2>4, <2>5, <2>6 DEF SameEnds
<1>12. CASE found # {} /\ stop >= to /\ start > from
  <2> DEFINE mid == Put(bp, n, from, start)
             end == RemoveRight(mid, start, stop, 1).bp
  <2>1. /\ RbSound(mid) /\ SameEnds(bp, mid)
        /\ \A b \in Int : Held(mid, b) <=> Held(bp, b) /\ ~(from <= b /\ b < from) /\ ~(start <= b /\ b < to)
    <3>1. from = StartOf(bp, n) /\ to = EndOf(bp, n)
      BY DEF from, to
    <3>2. LET z == Put(bp, n, from, start) IN
          /\ RbSound(z) /\ SameEnds(bp, z) /\ Nodes(z) = Nodes(bp)
          /\ \A b \in Int : Held(z, b) <=>
                Held(bp, b) /\ ~(StartOf(bp, n) <= b /\ b < from) /\ ~(start <= b /\ b < EndOf(bp, n))
      BY <1>5, <1>12, <3>1, PutTrims
    <3> QED BY <3>1, <3>2
  <2> HIDE DEF mid
  <2>3. ~Held(mid, start)
    BY <1>5, <1>12, <2>1
  <2>4. /\ RbSound(end) /\ SameEnds(mid, end)
        /\ \A b \in Int : Held(end, b) <=> Held(mid, b) /\ ~(start <= b /\ b < stop)
    <3> HIDE DEF stop
    <3> QED BY <1>3, <2>1, <2>3, RemoveRightIs
  <2>5. new = end
    BY <1>7, <1>12 DEF mid
  <2> HIDE DEF end
  <2>6. \A b \in Int : Held(new, b) <=> Held(bp, b) /\ ~(start <= b /\ b < stop)
    BY <1>3, <1>5, <1>12, <2>1, <2>4, <2>5
  <2> QED BY <2>1, <2>4, <2>5, <2>6 DEF SameEnds
<1>13. CASE found # {} /\ start = from /\ stop < to
  <2> DEFINE end == Put(bp, n, stop, to)
  <2>1. /\ RbSound(end) /\ SameEnds(bp, end)
        /\ \A b \in Int : Held(end, b) <=> Held(bp, b) /\ ~(from <= b /\ b < stop) /\ ~(to <= b /\ b < to)
    <3>1. from = StartOf(bp, n) /\ to = EndOf(bp, n)
      BY DEF from, to
    <3>2. from <= stop
      BY <1>3, <1>13
    <3> HIDE DEF stop
    <3>3. LET z == Put(bp, n, stop, to) IN
          /\ RbSound(z) /\ SameEnds(bp, z) /\ Nodes(z) = Nodes(bp)
          /\ \A b \in Int : Held(z, b) <=>
                Held(bp, b) /\ ~(StartOf(bp, n) <= b /\ b < stop) /\ ~(to <= b /\ b < EndOf(bp, n))
      BY <1>3, <1>5, <1>13, <3>1, <3>2, PutTrims
    <3> QED BY <3>1, <3>3
  <2>2. new = end
    BY <1>7, <1>13
  <2> HIDE DEF end
  <2> QED BY <1>3, <1>5, <1>13, <2>1, <2>2
<1> QED BY <1>3, <1>5, <1>8, <1>9, <1>10, <1>11, <1>12, <1>13

-----------------------------------------------------------------------------

\* The first node behind a bit.
LEMMA LeftmostIs ==
    ASSUME NEW bp, Tree(bp), NEW ns, ns \subseteq Nodes(bp)
    PROVE  /\ ns = {} => Leftmost(bp, ns) = Null
           /\ ns # {} => /\ Leftmost(bp, ns) \in ns /\ Leftmost(bp, ns) # Null
                         /\ \A m \in ns : StartOf(bp, Leftmost(bp, ns)) <= StartOf(bp, m)
<1>1. \A m \in Nodes(bp) : StartOf(bp, m) \in Nat /\ m # Null
  BY RbIntegers DEF Tree, Sized
<1>2. ns = {} => Leftmost(bp, ns) = Null
  BY DEF Leftmost
<1>3. ASSUME ns # {}
      PROVE  Leftmost(bp, ns) \in ns /\ \A m \in ns : StartOf(bp, Leftmost(bp, ns)) <= StartOf(bp, m)
  <2> DEFINE starts == {StartOf(bp, m) : m \in ns}
  <2>1. starts \subseteq Nat /\ starts # {}
    BY <1>1, <1>3
  <2> HIDE DEF starts
  <2>2. PICK s \in starts : \A y \in starts : s <= y
    BY <2>1, NatMin
  <2>3. \E n \in ns : \A m \in ns : StartOf(bp, n) <= StartOf(bp, m)
    BY <2>2 DEF starts
  <2> DEFINE l == CHOOSE n \in ns : \A m \in ns : StartOf(bp, n) <= StartOf(bp, m)
  <2>4. l \in ns /\ \A m \in ns : StartOf(bp, l) <= StartOf(bp, m)
    BY <2>3
  <2>5. Leftmost(bp, ns) = l
    BY <1>3 DEF Leftmost
  <2> HIDE DEF l
  <2> QED BY <2>4, <2>5
<1> QED BY <1>1, <1>2, <1>3

\* What soundness gives, node by node.
LEMMA SoundNodes ==
    ASSUME NEW bp, RbSound(bp)
    PROVE  /\ bp \in RbRecords /\ Tree(bp)
           /\ \A m \in Nodes(bp) : /\ StartOf(bp, m) \in Int /\ EndOf(bp, m) \in Int /\ m \in Int /\ m # Null
                                   /\ 0 <= StartOf(bp, m) /\ StartOf(bp, m) < EndOf(bp, m)
                                   /\ EndOf(bp, m) <= LastBit + 1
           /\ \A m, x \in Nodes(bp) : m # x => EndOf(bp, m) < StartOf(bp, x) \/ EndOf(bp, x) < StartOf(bp, m)
<1>1. bp \in RbRecords /\ Tree(bp)
  BY DEF RbSound, Tree
<1>2. \A m \in Nodes(bp) : StartOf(bp, m) \in Int /\ EndOf(bp, m) \in Int /\ m \in Int /\ m # Null
  BY <1>1, RbIntegers
<1> QED BY <1>1, <1>2 DEF Tree, Sized, ApartIn

\* A bit that is held is held by one node.
LEMMA HoldingIs ==
    ASSUME NEW bp, RbSound(bp), NEW bit \in Int
    PROVE  /\ \A m : m \in Holding(bp, bit) <=> m \in Nodes(bp) /\ StartOf(bp, m) <= bit /\ bit < EndOf(bp, m)
           /\ Holding(bp, bit) # {} <=> Held(bp, bit)
<1>1. \A m : m \in Holding(bp, bit) <=> m \in Nodes(bp) /\ StartOf(bp, m) <= bit /\ bit < EndOf(bp, m)
  BY SoundNodes DEF Holding, BitsOf
<1> QED BY <1>1 DEF Held

\* Nothing stands between an extent and the one behind it.
LEMMA BehindIs ==
    ASSUME NEW bp, RbSound(bp), NEW r \in Nodes(bp), Behind(bp, r) # Null
    PROVE  /\ Behind(bp, r) \in Nodes(bp)
           /\ \A b \in Int : EndOf(bp, r) <= b /\ b < StartOf(bp, Behind(bp, r)) => ~Held(bp, b)
<1> DEFINE ns == {m \in Nodes(bp) : StartOf(bp, m) > StartOf(bp, r)}
           q == Behind(bp, r)
<1>1. q = Leftmost(bp, ns)
  BY DEF Behind
<1>2. ns \subseteq Nodes(bp) /\ \A m \in Nodes(bp) : StartOf(bp, m) > StartOf(bp, r) => m \in ns
  OBVIOUS
<1> HIDE DEF ns
<1>3. q \in ns /\ q \in Nodes(bp) /\ \A m \in ns : StartOf(bp, q) <= StartOf(bp, m)
  <2>1. Tree(bp)
    BY DEF RbSound
  <2> QED BY <1>1, <1>2, <2>1, LeftmostIs
<1> HIDE DEF q
<1>4. ASSUME NEW b \in Int, EndOf(bp, r) <= b, b < StartOf(bp, q), NEW m \in Nodes(bp),
             StartOf(bp, m) <= b, b < EndOf(bp, m)
      PROVE  FALSE
  <2>1. m # r
    BY <1>4, SoundNodes
  <2>2. StartOf(bp, m) > StartOf(bp, r)
    BY <1>4, <2>1, SoundNodes
  <2>3. StartOf(bp, q) <= StartOf(bp, m)
    BY <1>2, <1>3, <2>2
  <2> QED BY <1>3, <1>4, <2>3, SoundNodes
<1> QED BY <1>3, <1>4 DEF Held, q

\* rb_test_bit answers whether the bit is held, through each of its short cuts,
\* and leaves cursors that are sound.
LEMMA TestIs ==
    ASSUME NEW bp, RbSound(bp), NEW bit \in Int
    PROVE  LET got == rb_test_bit(bp, bit) IN
           /\ RbSound(got.bp) /\ SameEnds(bp, got.bp)
           /\ \A b \in Int : Held(got.bp, b) <=> Held(bp, b)
           /\ got.ret = 1 <=> Held(bp, bit)
<1> DEFINE next == IF bp.rcursor_next # Null THEN bp.rcursor_next ELSE Behind(bp, bp.rcursor)
           gap == next # Null /\ bit >= EndOf(bp, bp.rcursor) /\ bit < StartOf(bp, next)
           forgot == [bp EXCEPT !.rcursor = Null, !.rcursor_next = Null]
           start == IF bp.rcursor = Null THEN bp ELSE forgot
           found == Holding(bp, bit)
           n == CHOOSE m \in found : TRUE
           got == rb_test_bit(bp, bit)
<1>1. bp \in RbRecords /\ Tree(bp) /\ CursorsIn(bp) /\ NothingBetween(bp)
  BY DEF RbSound, Tree, Cursors
<1>2. /\ bp.wcursor \in Nodes(bp) \cup {Null} /\ bp.rcursor \in Nodes(bp) \cup {Null}
      /\ bp.rcursor # Null => bp.rcursor_next \in Nodes(bp) \cup {Null}
  BY <1>1 DEF CursorsIn
<1>3. Null \in Int
  BY DEF Null
<1>4. got = IF bp.rcursor # Null /\ bit \in BitsOf(bp, bp.rcursor) THEN [bp |-> bp, ret |-> 1]
            ELSE IF bp.rcursor # Null /\ gap
            THEN [bp |-> [bp EXCEPT !.rcursor_next = next], ret |-> 0]
            ELSE IF bp.rcursor # Null /\ bp.wcursor # Null /\ bit \in BitsOf(bp, bp.wcursor)
            THEN [bp |-> forgot, ret |-> 1]
            ELSE IF found = {} THEN [bp |-> start, ret |-> 0]
            ELSE [bp |-> [start EXCEPT !.rcursor = n, !.rcursor_next = Null], ret |-> 1]
  BY DEF rb_test_bit
<1>5. /\ SameTree(bp, forgot) /\ forgot.wcursor = bp.wcursor /\ forgot.rcursor = Null /\ forgot.rcursor_next = Null
      /\ RbSound(forgot)
  <2>1. SameTree(bp, forgot) /\ forgot.wcursor = bp.wcursor /\ forgot.rcursor = Null /\ forgot.rcursor_next = Null
    <3>1. forgot = ReadCursors(bp, Null, Null)
      BY DEF ReadCursors
    <3> HIDE DEF forgot
    <3> QED BY <1>1, <1>3, <3>1, TwoCursors
  <2> HIDE DEF forgot
  <2>2. Tree(forgot)
    BY <1>1, <2>1, SameTreeIs
  <2> QED BY <1>2, <2>1, <2>2 DEF RbSound, Cursors, CursorsIn, NothingBetween, SameTree
<1>6. \A m \in Nodes(bp) : bit \in BitsOf(bp, m) => Held(bp, bit)
  BY SoundNodes DEF BitsOf, Held
<1>7. \A new : SameTree(bp, new) => SameEnds(bp, new) /\ \A b \in Int : Held(new, b) <=> Held(bp, b)
  BY <1>1, SameTreeIs DEF SameTree
<1>8. SameTree(bp, bp)
  BY <1>1 DEF SameTree, SameEnds
<1> HIDE DEF next, got, forgot
<1> SUFFICES /\ RbSound(got.bp) /\ SameTree(bp, got.bp)
             /\ got.ret = 1 <=> Held(bp, bit)
  BY <1>7 DEF got
<1>9. CASE bp.rcursor # Null /\ bit \in BitsOf(bp, bp.rcursor)
  <2>1. got = [bp |-> bp, ret |-> 1]
    BY <1>4, <1>9
  <2> QED BY <1>2, <1>6, <1>8, <1>9, <2>1
<1>10. CASE ~(bp.rcursor # Null /\ bit \in BitsOf(bp, bp.rcursor)) /\ bp.rcursor # Null /\ gap
  <2> DEFINE new == [bp EXCEPT !.rcursor_next = next]
  <2>1. got = [bp |-> new, ret |-> 0]
    BY <1>4, <1>10
  <2>2. /\ next \in Nodes(bp)
        /\ \A b \in Int : EndOf(bp, bp.rcursor) <= b /\ b < StartOf(bp, next) => ~Held(bp, b)
    <3>1. CASE bp.rcursor_next # Null
      BY <1>1, <1>2, <1>10, <3>1 DEF next, NothingBetween
    <3>2. CASE bp.rcursor_next = Null
      <4>1. next = Behind(bp, bp.rcursor) /\ bp.rcursor \in Nodes(bp) /\ next # Null
        BY <1>2, <1>10, <3>2 DEF next
      <4> QED BY <4>1, BehindIs
    <3> QED BY <3>1, <3>2
  <2>3. ~Held(bp, bit)
    BY <1>10, <2>2, SoundNodes, <1>2
  <2>4. SameTree(bp, new) /\ new.wcursor = bp.wcursor /\ new.rcursor = bp.rcursor /\ new.rcursor_next = next
    <3>1. next \in Int
      BY <2>2, SoundNodes
    <3> QED BY <1>1, <3>1, CursorEdits
  <2> HIDE DEF new
  <2>5. Tree(new) /\ \A b \in Int : Held(new, b) <=> Held(bp, b)
    BY <1>1, <2>4, SameTreeIs
  <2>6. CursorsIn(new)
    BY <1>2, <2>2, <2>4 DEF CursorsIn, SameTree
  <2>7. NothingBetween(new)
    BY <2>2, <2>4, <2>5 DEF NothingBetween, SameTree
  <2> QED BY <2>1, <2>3, <2>4, <2>5, <2>6, <2>7 DEF RbSound, Cursors
<1>11. CASE /\ ~(bp.rcursor # Null /\ bit \in BitsOf(bp, bp.rcursor)) /\ ~(bp.rcursor # Null /\ gap)
            /\ bp.rcursor # Null /\ bp.wcursor # Null /\ bit \in BitsOf(bp, bp.wcursor)
  <2>1. got = [bp |-> forgot, ret |-> 1]
    BY <1>4, <1>11
  <2>2. Held(bp, bit)
    BY <1>2, <1>6, <1>11
  <2> QED BY <1>5, <2>1, <2>2
<1>12. RbSound(start) /\ SameTree(bp, start)
  BY <1>5, <1>8
<1>13. CASE /\ ~(bp.rcursor # Null /\ bit \in BitsOf(bp, bp.rcursor)) /\ ~(bp.rcursor # Null /\ gap)
            /\ ~(bp.rcursor # Null /\ bp.wcursor # Null /\ bit \in BitsOf(bp, bp.wcursor))
            /\ found = {}
  <2>1. got = [bp |-> start, ret |-> 0]
    BY <1>4, <1>13
  <2>2. ~Held(bp, bit)
    BY <1>13, HoldingIs
  <2> HIDE DEF start
  <2> QED BY <1>12, <2>1, <2>2
<1>14. CASE /\ ~(bp.rcursor # Null /\ bit \in BitsOf(bp, bp.rcursor)) /\ ~(bp.rcursor # Null /\ gap)
            /\ ~(bp.rcursor # Null /\ bp.wcursor # Null /\ bit \in BitsOf(bp, bp.wcursor))
            /\ found # {}
  <2> DEFINE new == [start EXCEPT !.rcursor = n, !.rcursor_next = Null]
  <2>1. got = [bp |-> new, ret |-> 1]
    BY <1>4, <1>14
  <2>2. Held(bp, bit)
    BY <1>14, HoldingIs
  <2>3. n \in Nodes(bp) /\ n \in Int
    <3>1. n \in found
      <4> HIDE DEF found
      <4> QED BY <1>14
    <3> HIDE DEF n
    <3> QED BY <3>1, HoldingIs, SoundNodes
  <2> HIDE DEF start, n
  <2>4. SameTree(start, new) /\ new.wcursor = start.wcursor /\ new.rcursor = n /\ new.rcursor_next = Null
    <3>1. start \in RbRecords
      BY <1>12 DEF SameTree
    <3>2. new = ReadCursors(start, n, Null)
      BY DEF ReadCursors
    <3> HIDE DEF new
    <3> QED BY <1>3, <2>3, <3>1, <3>2, TwoCursors
  <2> HIDE DEF new
  <2>5. Tree(new) /\ SameTree(bp, new)
    <3>1. Tree(start) /\ start \in RbRecords
      BY <1>12 DEF SameTree, RbSound
    <3>2. Tree(new)
      BY <2>4, <3>1, SameTreeIs
    <3> QED BY <1>12, <2>4, <3>2 DEF SameTree, SameEnds
  <2>6. new.wcursor \in Nodes(new) \cup {Null}
    BY <1>12, <2>4, <2>5 DEF RbSound, Cursors, CursorsIn, SameTree
  <2>7. CursorsIn(new) /\ NothingBetween(new)
    BY <2>3, <2>4, <2>5, <2>6 DEF CursorsIn, NothingBetween, SameTree
  <2> QED BY <2>1, <2>2, <2>5, <2>7 DEF RbSound, Cursors
<1> QED BY <1>9, <1>10, <1>11, <1>13, <1>14

\* rb_find_first_zero finds the first clear bit of the range.
LEMMA FirstZeroIs ==
    ASSUME NEW bp, RbSound(bp), Nodes(bp) # {}, NEW start \in Nat, NEW end \in Nat, start <= end
    PROVE  LET z == rb_find_first_zero(bp, start, end) IN
           \/ z = ENOENT /\ \A b \in start .. end : Held(bp, b)
           \/ z \in start .. end /\ ~Held(bp, z) /\ \A b \in start .. end : b < z => Held(bp, b)
<1> DEFINE found == Holding(bp, start)
           n == CHOOSE m \in found : TRUE
           to == EndOf(bp, n)
           z == rb_find_first_zero(bp, start, end)
<1>1. z = IF found = {} THEN start ELSE IF to <= end THEN to ELSE ENOENT
  BY DEF rb_find_first_zero
<1>2. CASE found = {}
  <2>1. ~Held(bp, start)
    BY <1>2, HoldingIs
  <2> HIDE DEF z, found
  <2>2. z = start
    BY <1>1, <1>2
  <2> QED BY <2>1, <2>2 DEF z
<1>3. CASE found # {}
  <2>1. n \in found
    <3> HIDE DEF found
    <3> QED BY <1>3
  <2> HIDE DEF n
  <2>2. n \in Nodes(bp) /\ StartOf(bp, n) <= start /\ start < to /\ StartOf(bp, n) \in Int /\ to \in Int
    BY <2>1, HoldingIs, SoundNodes
  <2>3. \A b \in Int : start <= b /\ b < to => Held(bp, b)
    BY <2>2 DEF Held
  <2>4. ~Held(bp, to)
    <3> SUFFICES ASSUME NEW m \in Nodes(bp), StartOf(bp, m) <= to, to < EndOf(bp, m) PROVE FALSE
      BY DEF Held
    <3>1. m # n
      BY <2>2
    <3> QED BY <2>2, <3>1, SoundNodes
  <2>5. z = IF to <= end THEN to ELSE ENOENT
    BY <1>1, <1>3
  <2> HIDE DEF to, z
  <2>6. CASE to <= end
    <3>1. z = to
      BY <2>5, <2>6
    <3> QED BY <2>2, <2>3, <2>4, <2>6, <3>1 DEF z
  <2>7. CASE ~(to <= end)
    <3>1. z = ENOENT
      BY <2>5, <2>7
    <3>2. \A b \in start .. end : Held(bp, b)
      BY <2>2, <2>3, <2>7
    <3> QED BY <3>1, <3>2 DEF z
  <2> QED BY <2>6, <2>7
<1> QED BY <1>2, <1>3

\* rb_find_first_set finds the first set one.
LEMMA FirstSetIs ==
    ASSUME NEW bp, RbSound(bp), NEW start \in Nat, NEW end \in Nat, start <= end
    PROVE  LET z == rb_find_first_set(bp, start, end) IN
           \/ z = ENOENT /\ \A b \in start .. end : ~Held(bp, b)
           \/ z \in start .. end /\ Held(bp, z) /\ \A b \in start .. end : b < z => ~Held(bp, b)
<1> DEFINE found == Holding(bp, start)
           ns == {n \in Nodes(bp) : StartOf(bp, n) >= start}
           next == Leftmost(bp, ns)
           z == rb_find_first_set(bp, start, end)
<1>1. z = IF found # {} THEN start
          ELSE IF next # Null /\ StartOf(bp, next) <= end THEN StartOf(bp, next)
          ELSE ENOENT
  BY DEF rb_find_first_set
<1>2. CASE found # {}
  <2>1. Held(bp, start)
    BY <1>2, HoldingIs
  <2> HIDE DEF z, found
  <2>2. z = start
    BY <1>1, <1>2
  <2> QED BY <2>1, <2>2 DEF z
<1>3. CASE found = {}
  <2>1. ~Held(bp, start)
    BY <1>3, HoldingIs
  <2>2. ns \subseteq Nodes(bp) /\ \A m \in Nodes(bp) : StartOf(bp, m) >= start <=> m \in ns
    OBVIOUS
  <2> HIDE DEF ns
  <2>3. /\ ns = {} => next = Null
        /\ ns # {} => next \in ns /\ next # Null /\ \A m \in ns : StartOf(bp, next) <= StartOf(bp, m)
    <3>1. Tree(bp)
      BY DEF RbSound
    <3> QED BY <2>2, <3>1, LeftmostIs
  <2> HIDE DEF next
  <2>4. ASSUME NEW b \in start .. end, Held(bp, b) PROVE next # Null /\ StartOf(bp, next) <= b
    <3>1. PICK m \in Nodes(bp) : StartOf(bp, m) <= b /\ b < EndOf(bp, m)
      BY <2>4 DEF Held
    <3>2. StartOf(bp, m) >= start
      <4> SUFFICES ASSUME StartOf(bp, m) < start PROVE FALSE
        BY SoundNodes
      <4>1. start < EndOf(bp, m)
        BY <3>1, SoundNodes
      <4> QED BY <2>1, <4>1, SoundNodes DEF Held
    <3>3. m \in ns
      BY <2>2, <3>2
    <3> QED BY <2>2, <2>3, <3>1, <3>3, SoundNodes
  <2>5. CASE next # Null /\ StartOf(bp, next) <= end
    <3>1. next \in Nodes(bp) /\ start <= StartOf(bp, next) /\ StartOf(bp, next) \in Int
          /\ StartOf(bp, next) < EndOf(bp, next)
      BY <2>2, <2>3, <2>5, SoundNodes
    <3>2. z = StartOf(bp, next)
      BY <1>1, <1>3, <2>5
    <3> HIDE DEF z
    <3>3. Held(bp, z)
      BY <3>1, <3>2 DEF Held
    <3>4. z \in start .. end
      BY <2>5, <3>1, <3>2
    <3>5. \A b \in start .. end : b < z => ~Held(bp, b)
      BY <2>4, <3>1, <3>2
    <3> QED BY <3>3, <3>4, <3>5 DEF z
  <2>6. CASE ~(next # Null /\ StartOf(bp, next) <= end)
    <3>1. z = ENOENT
      BY <1>1, <1>3, <2>6
    <3>2. \A b \in start .. end : ~Held(bp, b)
      <4> SUFFICES ASSUME NEW b \in start .. end, Held(bp, b) PROVE FALSE
        OBVIOUS
      <4>1. next # Null /\ StartOf(bp, next) <= b
        BY <2>4
      <4>2. StartOf(bp, next) \in Int
        BY <2>2, <2>3, <4>1, SoundNodes
      <4> QED BY <2>6, <4>1, <4>2
    <3> QED BY <3>1, <3>2
  <2> QED BY <2>5, <2>6
<1> QED BY <1>2, <1>3

\* rb_test_clear_bmap_extent tells whether the whole range is clear.
LEMMA TestClearIs ==
    ASSUME NEW bp, RbSound(bp), NEW start \in Nat, NEW len \in Nat, len # 0
    PROVE  rb_test_clear_bmap_extent(bp, start, len) <=> \A b \in start .. start + len - 1 : ~Held(bp, b)
<1> DEFINE ns == {n \in Nodes(bp) : EndOf(bp, n) > start}
           next == Leftmost(bp, ns)
           clear == rb_test_clear_bmap_extent(bp, start, len)
<1>1. clear <=> Holding(bp, start) = {} /\ (next = Null \/ start + len <= StartOf(bp, next))
  BY DEF rb_test_clear_bmap_extent
<1>2. (Holding(bp, start) # {}) <=> Held(bp, start)
  BY HoldingIs
<1>3. ns \subseteq Nodes(bp) /\ \A m \in Nodes(bp) : EndOf(bp, m) > start <=> m \in ns
  OBVIOUS
<1> HIDE DEF ns, clear
<1>4. /\ ns = {} => next = Null
      /\ ns # {} => next \in ns /\ next # Null /\ \A m \in ns : StartOf(bp, next) <= StartOf(bp, m)
  <2>1. Tree(bp)
    BY DEF RbSound
  <2> QED BY <1>3, <2>1, LeftmostIs
<1> HIDE DEF next
<1>5. ASSUME clear, NEW b \in start .. start + len - 1, Held(bp, b) PROVE FALSE
  <2>1. PICK m \in Nodes(bp) : StartOf(bp, m) <= b /\ b < EndOf(bp, m)
    BY <1>5 DEF Held
  <2>2. m \in ns
    BY <1>3, <2>1, SoundNodes
  <2>3. next \in Nodes(bp) /\ StartOf(bp, next) <= StartOf(bp, m) /\ next # Null
    BY <1>3, <1>4, <2>2
  <2>4. start + len <= StartOf(bp, next)
    BY <1>1, <1>5, <2>3
  <2> QED BY <2>1, <2>3, <2>4, SoundNodes
<1>6. ASSUME \A b \in start .. start + len - 1 : ~Held(bp, b) PROVE clear
  <2>1. ~Held(bp, start)
    BY <1>6
  <2>2. ASSUME next # Null PROVE start + len <= StartOf(bp, next)
    <3>1. /\ next \in Nodes(bp) /\ EndOf(bp, next) > start
          /\ StartOf(bp, next) \in Int /\ EndOf(bp, next) \in Int /\ StartOf(bp, next) < EndOf(bp, next)
      BY <1>3, <1>4, <2>2, SoundNodes
    <3>2. start < StartOf(bp, next)
      BY <2>1, <3>1 DEF Held
    <3>3. Held(bp, StartOf(bp, next))
      BY <3>1 DEF Held
    <3> QED BY <1>6, <3>1, <3>2, <3>3
  <2> QED BY <1>1, <1>2, <2>1, <2>2
<1> QED BY <1>5, <1>6 DEF clear

\* rb_get_bmap_range reports the bits that are set.
LEMMA GetRangeIs ==
    ASSUME NEW bp, RbSound(bp), Nodes(bp) # {}, NEW start \in Nat, NEW num \in Nat, NEW before
    PROVE  rb_get_bmap_range(bp, start, num, before) = {b \in start .. start + num - 1 : Held(bp, b)}
<1> DEFINE from == {n \in Nodes(bp) : EndOf(bp, n) >= start /\ StartOf(bp, n) < start + num}
           all == UNION {BitsOf(bp, n) : n \in from}
           range == start .. start + num - 1
<1>1. rb_get_bmap_range(bp, start, num, before) = all \cap range
  BY DEF rb_get_bmap_range
<1>2. ASSUME NEW b \in range, NEW n \in from, b \in BitsOf(bp, n) PROVE Held(bp, b)
  <2>1. n \in Nodes(bp)
    OBVIOUS
  <2> HIDE DEF from
  <2> QED BY <1>2, <2>1, SoundNodes DEF BitsOf, Held
<1>3. ASSUME NEW b \in range, NEW n \in Nodes(bp), StartOf(bp, n) <= b, b < EndOf(bp, n)
      PROVE  n \in from /\ b \in BitsOf(bp, n)
  <2>1. StartOf(bp, n) \in Int /\ EndOf(bp, n) \in Int
    BY SoundNodes
  <2> QED BY <1>3, <2>1 DEF BitsOf
<1> HIDE DEF from, range
<1>4. \A b \in range : b \in all <=> Held(bp, b)
  BY <1>2, <1>3 DEF Held
<1> HIDE DEF all
<1>5. all \cap range = {b \in range : Held(bp, b)}
  BY <1>4
<1> QED BY <1>1, <1>5 DEF range

-----------------------------------------------------------------------------

\* rb_truncate drops the bits behind the new end, and the cursors.
LEMMA TruncateIs ==
    ASSUME NEW bp, RbSound(bp), bp.rcursor = Null, bp.wcursor = Null, NEW newMax \in Nat
    PROVE  LET new == rb_truncate(bp, newMax) IN
           /\ RbSound(new) /\ SameEnds(bp, new)
           /\ \A b \in Int : Held(new, b) <=> Held(bp, b) /\ b <= newMax
<1> DEFINE kept == {n \in Nodes(bp) : StartOf(bp, n) <= newMax}
           to(n) == Min({EndOf(bp, n), newMax + 1})
           f == [n \in kept |-> [start |-> StartOf(bp, n), count |-> to(n) - StartOf(bp, n)]]
           new == [bp EXCEPT !.ext = f]
<1>1. rb_truncate(bp, newMax) = new
  BY DEF rb_truncate
<1>2. \A n \in Nodes(bp) : to(n) \in Int /\ to(n) <= EndOf(bp, n) /\ to(n) <= newMax + 1
                           /\ (to(n) = EndOf(bp, n) \/ to(n) = newMax + 1)
  <2> SUFFICES ASSUME NEW n \in Nodes(bp)
               PROVE  to(n) \in Int /\ to(n) <= EndOf(bp, n) /\ to(n) <= newMax + 1
                      /\ (to(n) = EndOf(bp, n) \/ to(n) = newMax + 1)
    OBVIOUS
  <2> DEFINE S == {EndOf(bp, n), newMax + 1}
  <2>1. S \subseteq Nat /\ S # {} /\ EndOf(bp, n) \in S /\ newMax + 1 \in S
    BY SoundNodes
  <2>2. Min(S) \in S /\ \A y \in S : Min(S) <= y
    <3> HIDE DEF S
    <3> QED BY <2>1, MinIs
  <2> QED BY <2>1, <2>2
<1> HIDE DEF to
<1>3. /\ kept \subseteq Nodes(bp) /\ f \in [kept -> Extents] /\ DOMAIN f = kept
      /\ \A n \in kept : f[n].start = StartOf(bp, n) /\ f[n].start + f[n].count = to(n)
  <2>1. \A n \in kept : StartOf(bp, n) \in Int /\ to(n) \in Int
    BY <1>2, SoundNodes
  <2>2. kept \subseteq Nodes(bp)
    OBVIOUS
  <2> HIDE DEF kept
  <2>3. \A n \in kept : [start |-> StartOf(bp, n), count |-> to(n) - StartOf(bp, n)] \in Extents
    BY <2>1 DEF Extents
  <2>4. \A n \in kept : StartOf(bp, n) + (to(n) - StartOf(bp, n)) = to(n)
    BY <2>1
  <2> QED BY <2>2, <2>3, <2>4
<1>4. \A n \in Nodes(bp) : n \in kept <=> StartOf(bp, n) <= newMax
  OBVIOUS
<1> HIDE DEF kept, f
<1>5. bp \in RbRecords /\ f \in ExtMaps
  <2>1. bp \in RbRecords /\ Nodes(bp) \subseteq NodeNumbers
    BY SoundNodes, RbIntegers
  <2> QED BY <1>3, <2>1, ExtMapsAre
<1>6. /\ new \in RbRecords /\ new.ext = f /\ SameEnds(bp, new)
      /\ new.wcursor = Null /\ new.rcursor = Null
  BY <1>5 DEF RbRecords, SameEnds
<1> HIDE DEF new
<1>7. Nodes(new) = kept /\ \A n \in kept : StartOf(new, n) = StartOf(bp, n) /\ EndOf(new, n) = to(n)
  BY <1>3, <1>6 DEF Nodes, StartOf, EndOf
<1>8. RbSound(new)
  <2>1. \A n \in Nodes(new) : /\ StartOf(bp, n) <= StartOf(new, n) /\ EndOf(new, n) <= EndOf(bp, n)
                              /\ StartOf(new, n) < EndOf(new, n)
    BY <1>2, <1>3, <1>4, <1>7, SoundNodes
  <2>2. CursorsIn(new)
    BY <1>6 DEF CursorsIn
  <2>3. Trims(bp, new)
    BY <1>3, <1>6, <1>7, <2>1, <2>2 DEF Trims
  <2> QED BY <2>3, TrimIs
<1>9. ASSUME NEW b \in Int PROVE Held(new, b) <=> Held(bp, b) /\ b <= newMax
  <2>1. ASSUME NEW m \in Nodes(new), StartOf(new, m) <= b, b < EndOf(new, m) PROVE Held(bp, b) /\ b <= newMax
    <3>1. m \in Nodes(bp) /\ StartOf(bp, m) <= b /\ b < to(m)
      BY <1>3, <1>7, <2>1
    <3> QED BY <1>2, <3>1, SoundNodes DEF Held
  <2>2. ASSUME NEW m \in Nodes(bp), StartOf(bp, m) <= b, b < EndOf(bp, m), b <= newMax PROVE Held(new, b)
    <3>1. m \in kept /\ b < to(m)
      BY <1>2, <1>4, <2>2, SoundNodes
    <3> QED BY <1>7, <2>2, <3>1 DEF Held
  <2> QED BY <2>1, <2>2 DEF Held
<1> QED BY <1>1, <1>6, <1>8, <1>9

\* rb_resize_bmap assigns both ends.
WithEnds(bp, e, r) == [bp EXCEPT !.end = e, !.real_end = r]

\* What assigning the ends changes.
LEMMA WithEndsIs ==
    ASSUME NEW bp, RbSound(bp), NEW e \in Bits, NEW r \in Bits
    PROVE  LET new == WithEnds(bp, e, r) IN
           RbSound(new) /\ new.end = e /\ new.real_end = r /\ \A b \in Int : Held(new, b) <=> Held(bp, b)
<1> DEFINE new == WithEnds(bp, e, r)
<1>1. bp \in RbRecords
  BY SoundNodes
<1>2. /\ new \in RbRecords /\ new.end = e /\ new.real_end = r /\ SameCursors(bp, new)
      /\ Nodes(new) = Nodes(bp) /\ \A n : StartOf(new, n) = StartOf(bp, n) /\ EndOf(new, n) = EndOf(bp, n)
  BY <1>1 DEF WithEnds, RbRecords, SameCursors, Nodes, StartOf, EndOf
<1> HIDE DEF new
<1>3. \A b \in Int : Held(new, b) <=> Held(bp, b)
  BY <1>2 DEF Held
<1>4. Tree(new)
  BY <1>2 DEF RbSound, Tree, Sized, ApartIn
<1>5. CursorsIn(new)
  BY <1>2 DEF RbSound, Cursors, CursorsIn, SameCursors
<1>6. NothingBetween(new)
  BY <1>2, <1>3 DEF RbSound, Cursors, NothingBetween, SameCursors
<1> QED BY <1>2, <1>3, <1>4, <1>5, <1>6 DEF RbSound, Cursors, new

\* rb_resize_bmap keeps the bits up to the new end, and clears the rest.
LEMMA ResizeIs ==
    ASSUME NEW bp, RbSound(bp), NEW newEnd \in Bits, NEW newRealEnd \in newEnd .. LastBit
    PROVE  LET new == rb_resize_bmap(bp, newEnd, newRealEnd) IN
           /\ RbSound(new)
           /\ \A b \in Int : Held(new, b) <=> \/ Held(bp, b) /\ b <= newEnd /\ b <= bp.end
                                              \/ newEnd < b /\ b <= newRealEnd
<1> DEFINE none == NoCursors(bp)
           max == IF newEnd < bp.end THEN newEnd ELSE bp.end
           cut == rb_truncate(none, max)
           sized == WithEnds(cut, newEnd, newRealEnd)
           new == rb_resize_bmap(bp, newEnd, newRealEnd)
           len == newRealEnd - newEnd
<1>1. bp \in RbRecords /\ Tree(bp) /\ bp.end \in Bits
  BY SoundNodes DEF RbRecords
<1>2. /\ newEnd \in Nat /\ bp.end \in Nat /\ newRealEnd \in Nat /\ newRealEnd \in Bits /\ newEnd <= newRealEnd
      /\ newRealEnd <= LastBit /\ max \in Nat /\ len \in Int /\ 0 <= len /\ newEnd + 1 + len = newRealEnd + 1
      /\ \A b \in Int : b <= max <=> b <= newEnd /\ b <= bp.end
  BY <1>1, RbAssumption DEF Bits
<1>3. SameTree(bp, none) /\ none.wcursor = Null /\ none.rcursor = Null
  BY <1>1, NoCursorsIs
<1> HIDE DEF none, max
<1>4. RbSound(none) /\ \A b \in Int : Held(none, b) <=> Held(bp, b)
  <2>1. Tree(none) /\ \A b \in Int : Held(none, b) <=> Held(bp, b)
    BY <1>1, <1>3, SameTreeIs
  <2> QED BY <1>3, <2>1 DEF RbSound, Cursors, CursorsIn, NothingBetween
<1>5. /\ RbSound(cut)
      /\ \A b \in Int : Held(cut, b) <=> Held(none, b) /\ b <= max
  BY <1>2, <1>3, <1>4, TruncateIs
<1> HIDE DEF cut
<1>6. RbSound(sized) /\ \A b \in Int : Held(sized, b) <=> Held(cut, b)
  BY <1>2, <1>5, WithEndsIs
<1>7. /\ newEnd < newRealEnd => new = rb_insert_extent(sized, newEnd + 1, len).bp
      /\ ~(newEnd < newRealEnd) => new = sized
  BY DEF rb_resize_bmap, WithEnds, NoCursors, cut, none, max
<1> HIDE DEF sized, new
<1>8. \A b \in Int : Held(sized, b) <=> Held(bp, b) /\ b <= newEnd /\ b <= bp.end
  BY <1>2, <1>4, <1>5, <1>6
<1>9. CASE newEnd < newRealEnd
  <2> DEFINE got == rb_insert_extent(sized, newEnd + 1, len)
             at == newEnd + 1
  <2>1. at \in Int /\ 0 <= at /\ len \in Int /\ 0 <= len /\ at + len <= LastBit + 1 /\ at + len = newRealEnd + 1
    BY <1>2, RbAssumption
  <2> HIDE DEF len, at
  <2>2. LET g == rb_insert_extent(sized, at, len) IN
        /\ RbSound(g.bp)
        /\ \A b \in Int : Held(g.bp, b) <=> Held(sized, b) \/ (at <= b /\ b < at + len)
    BY <1>6, <2>1, InsertIs
  <2>3. new = rb_insert_extent(sized, at, len).bp
    BY <1>7, <1>9 DEF at
  <2>4. RbSound(new) /\ \A b \in Int : Held(new, b) <=> Held(sized, b) \/ (at <= b /\ b < newRealEnd + 1)
    BY <2>1, <2>2, <2>3
  <2>5. \A b \in Int : (at <= b /\ b < newRealEnd + 1) <=> (newEnd < b /\ b <= newRealEnd)
    BY <1>2 DEF at
  <2> QED BY <1>8, <2>4, <2>5 DEF new
<1>10. CASE ~(newEnd < newRealEnd)
  <2>1. \A b \in Int : ~(newEnd < b /\ b <= newRealEnd)
    BY <1>2, <1>10
  <2>2. new = sized
    BY <1>7, <1>10
  <2>3. /\ RbSound(new)
        /\ \A b \in Int : Held(new, b) <=> \/ Held(bp, b) /\ b <= newEnd /\ b <= bp.end
                                           \/ newEnd < b /\ b <= newRealEnd
    BY <1>6, <1>8, <2>1, <2>2
  <2> QED BY <2>3 DEF new
<1> QED BY <1>9, <1>10

-----------------------------------------------------------------------------

\* rb_set_bmap_range inserts the runs of ones of the buffer one after the other:
\* where they start, the k-th of them, how long it is, and one round of the loop.
Firsts(ones) == {b \in ones : b - 1 \notin ones}
NthOf(ones, k) == CHOOSE b \in Firsts(ones) : Cardinality({c \in Firsts(ones) : c <= b}) = k
RunFrom(ones, b) == Min({c \in b .. LastBit + 1 : c \notin ones}) - b
NextPut(ones, bp, k) == rb_insert_extent(bp, NthOf(ones, k), RunFrom(ones, NthOf(ones, k))).bp

\* The bitmaps f[0], f[1] ... that the rounds of the loop leave.
IsPut(f, bp, ones, n) ==
    f = [k \in 0 .. n |-> IF k = 0 THEN bp ELSE NextPut(ones, f[k - 1], k)]

\* There is such a sequence of bitmaps, of every length.
LEMMA PutExists ==
    ASSUME NEW bp, NEW ones, NEW n \in Nat
    PROVE  \E f : IsPut(f, bp, ones, n)
<1> DEFINE Good == {m \in Nat : \E f : IsPut(f, bp, ones, m)}
<1>1. 0 \in Good
  <2> DEFINE f == [k \in 0 .. 0 |-> bp]
  <2>1. f = [k \in 0 .. 0 |-> IF k = 0 THEN bp ELSE NextPut(ones, f[k - 1], k)]
    OBVIOUS
  <2>2. IsPut(f, bp, ones, 0)
    BY <2>1 DEF IsPut
  <2> QED BY <2>2
<1>2. ASSUME NEW m \in Nat, m \in Good PROVE m + 1 \in Good
  <2>1. PICK f : IsPut(f, bp, ones, m)
    BY <1>2
  <2> DEFINE g == [k \in 0 .. m + 1 |-> IF k = 0 THEN bp ELSE NextPut(ones, f[k - 1], k)]
             h == [k \in 0 .. m + 1 |-> IF k = 0 THEN bp ELSE NextPut(ones, g[k - 1], k)]
  <2>2. \A k \in 0 .. m : g[k] = f[k]
    <3>1. \A k \in 0 .. m : f[k] = IF k = 0 THEN bp ELSE NextPut(ones, f[k - 1], k)
      BY <2>1 DEF IsPut
    <3>2. \A k \in 0 .. m : g[k] = IF k = 0 THEN bp ELSE NextPut(ones, f[k - 1], k)
      OBVIOUS
    <3> QED BY <3>1, <3>2
  <2>3. \A k \in 0 .. m + 1 : k # 0 => g[k - 1] = f[k - 1]
    <3> TAKE k \in 0 .. m + 1
    <3>1. k # 0 => k - 1 \in 0 .. m
      OBVIOUS
    <3> HIDE DEF g
    <3> QED BY <2>2, <3>1
  <2>4. \A k \in 0 .. m + 1 : g[k] = h[k]
    <3> TAKE k \in 0 .. m + 1
    <3>1. g[k] = IF k = 0 THEN bp ELSE NextPut(ones, f[k - 1], k)
      OBVIOUS
    <3>2. h[k] = IF k = 0 THEN bp ELSE NextPut(ones, g[k - 1], k)
      OBVIOUS
    <3> HIDE DEF g, h
    <3> QED BY <2>3, <3>1, <3>2
  <2>5. g = h
    <3>1. g = [k \in 0 .. m + 1 |-> g[k]] /\ h = [k \in 0 .. m + 1 |-> h[k]]
      OBVIOUS
    <3> HIDE DEF g, h
    <3> QED BY <2>4, <3>1
  <2>6. IsPut(g, bp, ones, m + 1)
    <3> HIDE DEF g
    <3> QED BY <2>5 DEF IsPut
  <2> QED BY <2>6
<1> HIDE DEF Good
<1>3. Nat \subseteq Good
  BY <1>1, <1>2, SetInduction
<1> QED BY <1>3 DEF Good

\* rb_set_bmap_range returns the last one of it.
LEMMA SetRangeIsPut ==
    ASSUME NEW bp, NEW ones, Cardinality(Firsts(ones)) \in Nat
    PROVE  LET n == Cardinality(Firsts(ones)) IN
           \E f : IsPut(f, bp, ones, n) /\ rb_set_bmap_range(bp, ones) = f[n]
<1> DEFINE n == Cardinality(Firsts(ones))
           put == CHOOSE f : IsPut(f, bp, ones, n)
<1>1. rb_set_bmap_range(bp, ones) = put[n]
  BY DEF rb_set_bmap_range, Firsts, NthOf, RunFrom, NextPut, IsPut
<1>2. IsPut(put, bp, ones, n)
  <2>1. \E f : IsPut(f, bp, ones, n)
    BY PutExists
  <2> QED BY <2>1
<1> HIDE DEF put
<1> QED BY <1>1, <1>2

\* The rank of a first bit of a run.
Rank(ones, b) == Cardinality({c \in Firsts(ones) : c <= b})

\* The first bits of the runs are numbered from 1 on without a gap.
LEMMA Ranks ==
    ASSUME NEW ones, ones \subseteq Bits
    PROVE  LET n == Cardinality(Firsts(ones)) IN
           /\ n \in Nat
           /\ \A k \in 1 .. n : NthOf(ones, k) \in Firsts(ones)
           /\ \A b \in Firsts(ones) : Rank(ones, b) \in 1 .. n /\ NthOf(ones, Rank(ones, b)) = b
<1> DEFINE F == Firsts(ones)
           n == Cardinality(F)
           Upto(b) == {c \in F : c <= b}
           rank == [b \in F |-> Rank(ones, b)]
<1>1. F \subseteq Bits /\ F \subseteq Int
  <2>1. F \subseteq Bits
    BY DEF Firsts
  <2>2. Bits \subseteq Int
    BY RbAssumption DEF Bits
  <2> QED BY <2>1, <2>2
<1>2. IsFiniteSet(F) /\ n \in Nat
  <2>1. IsFiniteSet(Bits)
    BY FS_Interval, RbAssumption DEF Bits
  <2> HIDE DEF F
  <2>2. IsFiniteSet(F)
    BY <1>1, <2>1, FS_Subset
  <2> QED BY <2>2, FS_CardinalityType
<1> HIDE DEF F
<1>3. ASSUME NEW b \in F PROVE /\ IsFiniteSet(Upto(b)) /\ Rank(ones, b) = Cardinality(Upto(b))
                               /\ Rank(ones, b) \in 1 .. n
  <2>1. Upto(b) \in SUBSET F /\ b \in Upto(b)
    BY <1>1
  <2>2. Rank(ones, b) = Cardinality(Upto(b))
    BY DEF Rank, F
  <2> HIDE DEF Upto
  <2>3. IsFiniteSet(Upto(b)) /\ Cardinality(Upto(b)) <= n
    BY <1>2, <2>1, FS_Subset
  <2>4. Cardinality(Upto(b)) \in Nat
    BY <2>3, FS_CardinalityType
  <2>5. Cardinality(Upto(b)) # 0
    BY <2>1, <2>3, FS_EmptySet
  <2> QED BY <1>2, <2>2, <2>3, <2>4, <2>5
<1>4. ASSUME NEW b \in F, NEW c \in F, b < c PROVE Rank(ones, b) # Rank(ones, c)
  <2>1. Upto(b) \in SUBSET Upto(c) /\ c \in Upto(c) /\ c \notin Upto(b)
    <3>1. b \in Int /\ c \in Int
      BY <1>1
    <3>2. \A x \in F : x <= b => x <= c
      BY <1>1, <1>4, <3>1
    <3>3. Upto(b) \in SUBSET Upto(c)
      BY <3>2
    <3>4. c \in Upto(c)
      BY <3>1
    <3>5. ~(c <= b)
      BY <1>4, <3>1
    <3>6. c \notin Upto(b)
      BY <3>5
    <3> QED BY <3>3, <3>4, <3>6
  <2>2. Cardinality(Upto(c)) = Cardinality(Upto(b)) => Upto(c) = Upto(b)
    <3> HIDE DEF Upto
    <3> QED BY <1>3, <2>1, FS_Subset
  <2> HIDE DEF Upto
  <2> QED BY <1>3, <2>1, <2>2
<1>5. \A b, c \in F : Rank(ones, b) = Rank(ones, c) => b = c
  BY <1>1, <1>4
<1>6. \A k \in 1 .. n : \E b \in F : Rank(ones, b) = k
  <2>1. rank \in [F -> 1 .. n] /\ \A b \in F : rank[b] = Rank(ones, b)
    BY <1>3
  <2> HIDE DEF rank
  <2>2. rank \in Injection(F, 1 .. n)
    BY <1>5, <2>1 DEF Injection, IsInjective
  <2>3. IsFiniteSet(1 .. n) /\ Cardinality(1 .. n) = n
    <3>1. IsFiniteSet(1 .. n) /\ Cardinality(1 .. n) = IF 1 > n THEN 0 ELSE n - 1 + 1
      BY <1>2, FS_Interval
    <3> QED BY <1>2, <3>1
  <2>4. Cardinality(F) = Cardinality(1 .. n) <=> rank \in Surjection(F, 1 .. n)
    BY <2>2, <2>3, FS_Injection
  <2>5. rank \in Surjection(F, 1 .. n)
    BY <2>3, <2>4
  <2> QED BY <2>1, <2>5 DEF Surjection
<1>7. \A k \in 1 .. n : NthOf(ones, k) \in F /\ Rank(ones, NthOf(ones, k)) = k
  <2> TAKE k \in 1 .. n
  <2>1. NthOf(ones, k) = CHOOSE b \in F : Rank(ones, b) = k
    BY DEF NthOf, F, Rank
  <2> QED BY <1>6, <2>1
<1>8. \A b \in F : NthOf(ones, Rank(ones, b)) = b
  BY <1>3, <1>5, <1>7
<1> QED BY <1>2, <1>3, <1>7, <1>8 DEF F

\* The run of ones that starts at b.
LEMMA RunIs ==
    ASSUME NEW ones, ones \subseteq Bits, NEW b \in ones
    PROVE  LET len == RunFrom(ones, b) IN
           /\ b \in Nat /\ len \in Nat /\ 1 <= len /\ b + len <= LastBit + 1
           /\ \A c \in Int : b <= c /\ c < b + len => c \in ones
           /\ \A c \in Int : b + len <= c /\ c \in ones => \E z \in b .. c : z \notin ones
<1> DEFINE S == {c \in b .. LastBit + 1 : c \notin ones}
           m == Min(S)
           len == RunFrom(ones, b)
<1>1. b \in Nat /\ b <= LastBit /\ LastBit + 1 \notin ones
  BY RbAssumption DEF Bits
<1>2. S \subseteq Nat /\ LastBit + 1 \in S
  BY <1>1, RbAssumption
<1>3. m \in S /\ \A y \in S : m <= y
  <2> HIDE DEF S
  <2> QED BY <1>2, MinIs
<1>4. len = m - b
  BY DEF RunFrom
<1> HIDE DEF m, len
<1>5. m \in Nat /\ b <= m /\ m <= LastBit + 1 /\ m \notin ones /\ m # b
  BY <1>1, <1>3, RbAssumption
<1>6. len \in Nat /\ 1 <= len /\ b + len = m
  BY <1>1, <1>4, <1>5
<1>7. \A c \in Int : b <= c /\ c < m => c \in ones
  <2> SUFFICES ASSUME NEW c \in Int, b <= c, c < m, c \notin ones PROVE FALSE
    OBVIOUS
  <2>1. c \in S
    BY <1>1, <1>5, RbAssumption
  <2> QED BY <1>3, <1>5, <2>1
<1>8. \A c \in Int : m <= c => m \in b .. c
  BY <1>1, <1>5
<1> QED BY <1>1, <1>5, <1>6, <1>7, <1>8 DEF len

\* Every one is in the run of a first bit.
LEMMA RunsCover ==
    ASSUME NEW ones, ones \subseteq Bits, NEW b \in ones
    PROVE  \E c \in Firsts(ones) : c <= b /\ b < c + RunFrom(ones, c)
<1> DEFINE S == {c \in 0 .. b : \A z \in c .. b : z \in ones}
<1>1. b \in Nat
  BY RbAssumption DEF Bits
<1>2. S \subseteq Nat /\ b \in S
  BY <1>1
<1>3. PICK c \in S : \A y \in S : c <= y
  <2> HIDE DEF S
  <2> QED BY <1>2, NatMin
<1>4. c \in Nat /\ c <= b /\ \A z \in c .. b : z \in ones
  BY <1>1, <1>3
<1>5. c \in ones
  BY <1>1, <1>4
<1>6. c - 1 \notin ones
  <2> SUFFICES ASSUME c - 1 \in ones PROVE FALSE
    OBVIOUS
  <2>1. c - 1 \in 0 .. b
    BY <1>1, <1>4, RbAssumption DEF Bits
  <2>2. \A z \in c - 1 .. b : z = c - 1 \/ z \in c .. b
    BY <1>1, <1>4
  <2>3. c - 1 \in S
    BY <1>4, <2>1, <2>2
  <2> QED BY <1>3, <1>4, <2>3
<1>7. b < c + RunFrom(ones, c)
  <2>1. /\ RunFrom(ones, c) \in Nat
        /\ \A x \in Int : c + RunFrom(ones, c) <= x /\ x \in ones => \E z \in c .. x : z \notin ones
    BY <1>5, RunIs
  <2> QED BY <1>1, <1>4, <2>1
<1> QED BY <1>4, <1>5, <1>6, <1>7 DEF Firsts

\* rb_set_bmap_range sets the ones of the buffer and keeps the bitmap sound.
LEMMA SetRangeIs ==
    ASSUME NEW bp, RbSound(bp), NEW ones, ones \subseteq Bits
    PROVE  LET new == rb_set_bmap_range(bp, ones) IN
           /\ RbSound(new) /\ SameEnds(bp, new)
           /\ \A b \in Int : Held(new, b) <=> Held(bp, b) \/ b \in ones
<1> DEFINE n == Cardinality(Firsts(ones))
           At(j) == NthOf(ones, j)
           Size(j) == RunFrom(ones, NthOf(ones, j))
           In(j, b) == At(j) <= b /\ b < At(j) + Size(j)
<1>1. /\ n \in Nat /\ \A k \in 1 .. n : At(k) \in Firsts(ones)
      /\ \A b \in Firsts(ones) : Rank(ones, b) \in 1 .. n /\ At(Rank(ones, b)) = b
  BY Ranks
<1>2. PICK f : IsPut(f, bp, ones, n) /\ rb_set_bmap_range(bp, ones) = f[n]
  BY <1>1, SetRangeIsPut
<1>3. f[0] = bp /\ \A k \in 1 .. n : f[k] = rb_insert_extent(f[k - 1], At(k), Size(k)).bp
  <2>1. f = [k \in 0 .. n |-> IF k = 0 THEN bp ELSE NextPut(ones, f[k - 1], k)]
    BY <1>2 DEF IsPut
  <2>2. \A k \in 0 .. n : f[k] = IF k = 0 THEN bp ELSE NextPut(ones, f[k - 1], k)
    BY <2>1
  <2> HIDE DEF n
  <2>3. f[0] = bp /\ \A k \in 1 .. n : f[k] = NextPut(ones, f[k - 1], k)
    BY <1>1, <2>2
  <2> QED BY <2>3 DEF NextPut
<1>4. \A k \in 1 .. n : /\ At(k) \in Int /\ Size(k) \in Int /\ 0 <= At(k) /\ 1 <= Size(k)
                        /\ At(k) + Size(k) <= LastBit + 1
                        /\ \A b \in Int : In(k, b) => b \in ones
  <2> TAKE k \in 1 .. n
  <2>1. At(k) \in ones
    BY <1>1 DEF Firsts
  <2>2. /\ At(k) \in Nat /\ Size(k) \in Nat /\ 1 <= Size(k) /\ At(k) + Size(k) <= LastBit + 1
        /\ \A c \in Int : At(k) <= c /\ c < At(k) + Size(k) => c \in ones
    BY <2>1, RunIs
  <2> QED BY <2>2
<1>5. \A b \in ones : \E k \in 1 .. n : In(k, b)
  <2> TAKE b \in ones
  <2>1. PICK c \in Firsts(ones) : c <= b /\ b < c + RunFrom(ones, c)
    BY RunsCover
  <2> QED BY <1>1, <2>1
<1> HIDE DEF At, Size, n
<1> DEFINE P(k) == /\ RbSound(f[k]) /\ SameEnds(bp, f[k])
                   /\ \A b \in Int : Held(f[k], b) <=> Held(bp, b) \/ \E j \in 1 .. k : In(j, b)
           Good == {k \in Nat : k <= n => P(k)}
<1>6. 0 \in Good
  BY <1>3 DEF SameEnds
<1>7. ASSUME NEW k \in Nat, k \in Good PROVE k + 1 \in Good
  <2> SUFFICES ASSUME k + 1 <= n PROVE P(k + 1)
    OBVIOUS
  <2>1. k + 1 \in 1 .. n /\ k <= n /\ k + 1 - 1 = k
    BY <1>1
  <2>2. P(k)
    BY <1>7, <2>1
  <2> DEFINE got == rb_insert_extent(f[k], At(k + 1), Size(k + 1))
  <2>3. f[k + 1] = got.bp
    BY <1>3, <2>1
  <2>4. /\ RbSound(got.bp) /\ SameEnds(f[k], got.bp)
        /\ \A b \in Int : Held(got.bp, b) <=> Held(f[k], b) \/ In(k + 1, b)
    <3> DEFINE a == At(k + 1)
               l == Size(k + 1)
               g == f[k]
    <3>1. a \in Int /\ l \in Int /\ 0 <= a /\ 0 <= l /\ a + l <= LastBit + 1
      BY <1>4, <2>1
    <3>2. RbSound(g)
      BY <2>2
    <3> HIDE DEF a, l, g
    <3>3. LET z == rb_insert_extent(g, a, l) IN
          /\ RbSound(z.bp) /\ SameEnds(g, z.bp)
          /\ \A b \in Int : Held(z.bp, b) <=> Held(g, b) \/ (a <= b /\ b < a + l)
      BY <3>1, <3>2, InsertIs
    <3> QED BY <3>3 DEF a, l, g
  <2> HIDE DEF got, In
  <2>5. \A b : (\E j \in 1 .. k + 1 : In(j, b)) <=> (\E j \in 1 .. k : In(j, b)) \/ In(k + 1, b)
    <3>1. \A j : j \in 1 .. k + 1 <=> j \in 1 .. k \/ j = k + 1
      OBVIOUS
    <3> QED BY <3>1
  <2>6. SameEnds(bp, f[k + 1])
    BY <2>2, <2>3, <2>4 DEF SameEnds
  <2>7. \A b \in Int : Held(f[k + 1], b) <=> Held(bp, b) \/ \E j \in 1 .. k + 1 : In(j, b)
    BY <2>2, <2>3, <2>4, <2>5
  <2> QED BY <2>3, <2>4, <2>6, <2>7
<1>8. P(n)
  <2> HIDE DEF P
  <2>1. Nat \subseteq Good
    <3> HIDE DEF Good
    <3> QED BY <1>6, <1>7, SetInduction
  <2> QED BY <1>1, <2>1
<1> HIDE DEF In
<1>9. \A b \in Int : b \in ones <=> \E j \in 1 .. n : In(j, b)
  BY <1>4, <1>5
<1> QED BY <1>2, <1>8, <1>9

-----------------------------------------------------------------------------
\* The tree is sound and holds the bits that are set.
RbIInv ==
    /\ RbSound(bmap)
    /\ marked \in SUBSET Int
    /\ \A b \in Int : b \in marked <=> Held(bmap, b)

\* rb_new_bmap makes a sound bitmap that holds nothing.
LEMMA EmptyRbIs ==
    ASSUME NEW e \in Bits, NEW r \in Bits
    PROVE  RbSound(EmptyRb(e, r)) /\ \A b \in Int : ~Held(EmptyRb(e, r), b)
<1> DEFINE new == EmptyRb(e, r)
           f == [n \in {} |-> [start |-> 0, count |-> 0]]
<1>1. f \in [{} -> Extents] /\ DOMAIN f = {}
  OBVIOUS
<1>2. f \in ExtMaps
  BY <1>1, ExtMapsAre
<1>3. /\ new = [ext |-> f, wcursor |-> Null, rcursor |-> Null, rcursor_next |-> Null, end |-> e, real_end |-> r]
      /\ Null \in Int
  BY DEF EmptyRb, Null
<1> HIDE DEF f, new
<1>4. new \in RbRecords /\ Nodes(new) = {} /\ new.wcursor = Null /\ new.rcursor = Null
  BY <1>1, <1>2, <1>3 DEF RbRecords, Nodes
<1>5. RbSound(new) /\ \A b \in Int : ~Held(new, b)
  BY <1>4 DEF RbSound, Tree, Sized, ApartIn, Cursors, CursorsIn, NothingBetween, Held
<1> QED BY <1>5 DEF new

\* rb_copy_bmap makes a sound bitmap with the same bits.
LEMMA CopyIs ==
    ASSUME NEW bp, RbSound(bp)
    PROVE  \A new \in {rb_copy_bmap_source(bp), rb_copy_bmap_dest(bp)} :
              RbSound(new) /\ \A b \in Int : Held(new, b) <=> Held(bp, b)
<1>1. bp \in RbRecords /\ Tree(bp)
  BY SoundNodes
<1>2. ASSUME NEW new, SameTree(bp, new), new.wcursor \in Nodes(bp) \cup {Null}, new.rcursor = Null
      PROVE  RbSound(new) /\ \A b \in Int : Held(new, b) <=> Held(bp, b)
  <2>1. Tree(new) /\ \A b \in Int : Held(new, b) <=> Held(bp, b)
    BY <1>1, <1>2, SameTreeIs
  <2> QED BY <1>2, <2>1 DEF RbSound, Cursors, CursorsIn, NothingBetween, SameTree
<1>3. RbSound(rb_copy_bmap_source(bp)) /\ \A b \in Int : Held(rb_copy_bmap_source(bp), b) <=> Held(bp, b)
  <2> DEFINE new == rb_copy_bmap_source(bp)
  <2>1. Null \in Int /\ new = [bp EXCEPT !.rcursor = Null]
    BY DEF Null, rb_copy_bmap_source
  <2> HIDE DEF new
  <2>2. SameTree(bp, new) /\ new.wcursor = bp.wcursor /\ new.rcursor = Null
    BY <1>1, <2>1 DEF RbRecords, SameTree, SameEnds, Nodes, StartOf, EndOf
  <2> HIDE DEF new
  <2>3. bp.wcursor \in Nodes(bp) \cup {Null}
    BY DEF RbSound, Cursors, CursorsIn
  <2> QED BY <1>2, <2>2, <2>3 DEF new
<1>4. RbSound(rb_copy_bmap_dest(bp)) /\ \A b \in Int : Held(rb_copy_bmap_dest(bp), b) <=> Held(bp, b)
  <2> DEFINE new == rb_copy_bmap_dest(bp)
             rec == [ext |-> bp.ext, wcursor |-> Null, rcursor |-> Null, rcursor_next |-> Null,
                     end |-> bp.end, real_end |-> bp.real_end]
  <2>1. new = rec /\ Null \in Int
    BY DEF rb_copy_bmap_dest, EmptyRb, Null
  <2> HIDE DEF new
  <2>2. new \in RbRecords /\ new.ext = bp.ext /\ SameEnds(bp, new) /\ new.wcursor = Null /\ new.rcursor = Null
    BY <1>1, <2>1 DEF RbRecords, SameEnds
  <2>3. SameTree(bp, new)
    BY <2>2 DEF SameTree, Nodes, StartOf, EndOf
  <2> QED BY <1>2, <2>2, <2>3 DEF new
<1> QED BY <1>3, <1>4

\* Every operation keeps the invariant.
LEMMA RbStep == RbIInv /\ [RbNext]_rbVars => RbIInv'
<1> SUFFICES ASSUME RbIInv, [RbNext]_rbVars PROVE RbIInv'
  OBVIOUS
<1>1. RbSound(bmap) /\ marked \in SUBSET Int /\ \A b \in Int : b \in marked <=> Held(bmap, b)
  BY DEF RbIInv
<1>2. bmap.end \in Bits /\ bmap.real_end \in Bits
  BY <1>1, SoundNodes DEF RbRecords
<1>3. \A run \in Runs : /\ run[1] \in Int /\ run[2] \in Int /\ 0 <= run[1] /\ 0 <= run[2]
                        /\ run[1] + run[2] <= LastBit + 1 /\ RunBits(run) \in SUBSET Int
                        /\ \A b \in Int : b \in RunBits(run) <=> run[1] <= b /\ b < run[1] + run[2]
  <2> TAKE run \in Runs
  <2>1. run[1] \in Bits /\ run[2] \in 0 .. LastBit + 1 /\ run[1] + run[2] - 1 <= bmap.end
    BY DEF Runs
  <2>2. /\ run[1] \in Int /\ run[2] \in Int /\ 0 <= run[1] /\ 0 <= run[2] /\ run[1] + run[2] <= LastBit + 1
    BY <1>2, <2>1, RbAssumption DEF Bits
  <2> QED BY <2>2 DEF RunBits
<1>4. CASE RbMark
  <2>1. PICK run \in Runs : /\ bmap' = rb_insert_extent(bmap, run[1], run[2]).bp
                            /\ marked' = marked \cup RunBits(run)
    BY <1>4 DEF RbMark
  <2> DEFINE s == run[1]
             c == run[2]
             got == rb_insert_extent(bmap, s, c)
  <2>2. /\ s \in Int /\ c \in Int /\ 0 <= s /\ 0 <= c /\ s + c <= LastBit + 1 /\ RunBits(run) \in SUBSET Int
        /\ \A b \in Int : b \in RunBits(run) <=> s <= b /\ b < s + c
    BY <1>3
  <2>3. bmap' = got.bp
    BY <2>1
  <2> HIDE DEF s, c
  <2>4. RbSound(got.bp) /\ \A b \in Int : Held(got.bp, b) <=> Held(bmap, b) \/ (s <= b /\ b < s + c)
    BY <1>1, <2>2, InsertIs
  <2> HIDE DEF got
  <2>5. marked' \in SUBSET Int /\ \A b \in Int : b \in marked' <=> Held(got.bp, b)
    BY <1>1, <2>1, <2>2, <2>4
  <2> QED BY <2>3, <2>4, <2>5 DEF RbIInv
<1>5. CASE RbUnmark
  <2>1. PICK run \in Runs : /\ bmap' = rb_remove_extent(bmap, run[1], run[2]).bp
                            /\ marked' = marked \ RunBits(run)
    BY <1>5 DEF RbUnmark
  <2> DEFINE s == run[1]
             c == run[2]
             new == rb_remove_extent(bmap, s, c).bp
  <2>2. /\ s \in Int /\ c \in Int /\ 0 <= s /\ 0 <= c /\ s + c <= LastBit + 1
        /\ \A b \in Int : b \in RunBits(run) <=> s <= b /\ b < s + c
    BY <1>3
  <2>3. bmap' = new
    BY <2>1
  <2> HIDE DEF s, c
  <2>4. RbSound(new) /\ \A b \in Int : Held(new, b) <=> Held(bmap, b) /\ ~(s <= b /\ b < s + c)
    BY <1>1, <2>2, RemoveIs
  <2> HIDE DEF new
  <2>5. marked' \in SUBSET Int /\ \A b \in Int : b \in marked' <=> Held(new, b)
    BY <1>1, <2>1, <2>2, <2>4
  <2> QED BY <2>3, <2>4, <2>5 DEF RbIInv
<1>6. CASE RbTest
  <2>1. PICK bit \in 0 .. bmap.end : bmap' = rb_test_bit(bmap, bit).bp /\ marked' = marked
    BY <1>6 DEF RbTest
  <2> DEFINE got == rb_test_bit(bmap, bit)
  <2>2. bit \in Int
    BY <1>2, RbAssumption DEF Bits
  <2>3. RbSound(got.bp) /\ \A b \in Int : Held(got.bp, b) <=> Held(bmap, b)
    BY <1>1, <2>2, TestIs
  <2> HIDE DEF got
  <2>4. bmap' = got.bp
    BY <2>1 DEF got
  <2>5. \A b \in Int : b \in marked' <=> Held(got.bp, b)
    BY <1>1, <2>1, <2>3
  <2> QED BY <1>1, <2>1, <2>3, <2>4, <2>5 DEF RbIInv
<1>7. CASE RbSetRange
  <2>1. PICK ones \in SUBSET (0 .. bmap.end) : bmap' = rb_set_bmap_range(bmap, ones) /\ marked' = marked \cup ones
    BY <1>7 DEF RbSetRange
  <2> DEFINE new == rb_set_bmap_range(bmap, ones)
  <2>2. ones \subseteq Bits /\ ones \subseteq Int
    BY <1>2, RbAssumption DEF Bits
  <2>3. RbSound(new) /\ \A b \in Int : Held(new, b) <=> Held(bmap, b) \/ b \in ones
    BY <1>1, <2>2, SetRangeIs
  <2> HIDE DEF new
  <2>4. bmap' = new
    BY <2>1 DEF new
  <2>5. marked' \in SUBSET Int /\ \A b \in Int : b \in marked' <=> Held(new, b)
    BY <1>1, <2>1, <2>2, <2>3
  <2> QED BY <2>3, <2>4, <2>5 DEF RbIInv
<1>8. CASE RbResize
  <2>1. PICK newEnd \in Bits : \E newRealEnd \in newEnd .. LastBit :
          /\ bmap' = rb_resize_bmap(bmap, newEnd, newRealEnd)
          /\ marked' = (marked \cap (0 .. Min({newEnd, bmap.end}))) \cup (newEnd + 1 .. newRealEnd)
    BY <1>8 DEF RbResize
  <2>2. PICK newRealEnd \in newEnd .. LastBit :
          /\ bmap' = rb_resize_bmap(bmap, newEnd, newRealEnd)
          /\ marked' = (marked \cap (0 .. Min({newEnd, bmap.end}))) \cup (newEnd + 1 .. newRealEnd)
    BY <2>1
  <2> DEFINE new == rb_resize_bmap(bmap, newEnd, newRealEnd)
             least == Min({newEnd, bmap.end})
  <2>3. /\ RbSound(new)
        /\ \A b \in Int : Held(new, b) <=> \/ Held(bmap, b) /\ b <= newEnd /\ b <= bmap.end
                                           \/ newEnd < b /\ b <= newRealEnd
    BY <1>1, ResizeIs
  <2> HIDE DEF new
  <2>4. newEnd \in Nat /\ newRealEnd \in Nat /\ bmap.end \in Nat
    BY <1>2, RbAssumption DEF Bits
  <2>5. least \in {newEnd, bmap.end} /\ least <= newEnd /\ least <= bmap.end
    <3> DEFINE S == {newEnd, bmap.end}
    <3>1. S \subseteq Nat /\ S # {} /\ newEnd \in S /\ bmap.end \in S
      BY <2>4
    <3>2. Min(S) \in S /\ \A y \in S : Min(S) <= y
      <4> HIDE DEF S
      <4> QED BY <3>1, MinIs
    <3> QED BY <3>1, <3>2
  <2>6. bmap' = new /\ marked' = (marked \cap (0 .. least)) \cup (newEnd + 1 .. newRealEnd)
    BY <2>2 DEF new
  <2> HIDE DEF least
  <2>7. \A b \in Int : Held(bmap, b) => 0 <= b
    BY <1>1, SoundNodes DEF Held
  <2>8. marked' \in SUBSET Int
    BY <2>4, <2>5, <2>6
  <2>9. \A b \in Int : b \in marked' <=> Held(new, b)
    <3> TAKE b \in Int
    <3>1. b \in newEnd + 1 .. newRealEnd <=> newEnd < b /\ b <= newRealEnd
      BY <2>4
    <3>2. b \in 0 .. least <=> 0 <= b /\ b <= newEnd /\ b <= bmap.end
      BY <2>4, <2>5
    <3> QED BY <1>1, <2>3, <2>6, <2>7, <3>1, <3>2
  <2> QED BY <2>3, <2>6, <2>8, <2>9 DEF RbIInv
<1>9. CASE RbCopy
  <2>1. bmap' \in {rb_copy_bmap_source(bmap), rb_copy_bmap_dest(bmap)} /\ marked' = marked
    BY <1>9 DEF RbCopy
  <2>2. RbSound(bmap') /\ \A b \in Int : Held(bmap', b) <=> Held(bmap, b)
    BY <1>1, <2>1, CopyIs
  <2> QED BY <1>1, <2>1, <2>2 DEF RbIInv
<1>10. CASE RbClear
  <2>1. bmap' = EmptyRb(bmap.end, bmap.real_end) /\ marked' = {}
    BY <1>10 DEF RbClear, rb_clear_bmap
  <2> DEFINE new == EmptyRb(bmap.end, bmap.real_end)
  <2>2. RbSound(new) /\ \A b \in Int : ~Held(new, b)
    BY <1>2, EmptyRbIs
  <2> HIDE DEF new
  <2>3. bmap' = new
    BY <2>1 DEF new
  <2> QED BY <2>1, <2>2, <2>3 DEF RbIInv
<1>11. CASE UNCHANGED rbVars
  BY <1>11 DEF rbVars, RbIInv
<1> QED BY <1>4, <1>5, <1>6, <1>7, <1>8, <1>9, <1>10, <1>11 DEF RbNext

\* Two sets of naturals with the same members in range have the same minimum.
LEMMA MinOf ==
    ASSUME NEW S, S \subseteq Nat, NEW x \in S, \A y \in S : x <= y
    PROVE  Min(S) = x
<1> DEFINE m == Min(S)
<1>1. m \in S /\ \A y \in S : m <= y
  BY MinIs
<1> HIDE DEF m
<1>2. m \in Int /\ x \in Int /\ m <= x /\ x <= m
  BY <1>1
<1>3. m = x
  BY <1>2
<1> QED BY <1>3 DEF m

\* The invariant implies that the next query answers what a plain set of bits would.
LEMMA RbIsCorrect == RbIInv => RbBitmapCorrect
<1> SUFFICES ASSUME RbIInv PROVE RbBitmapCorrect
  OBVIOUS
<1>1. RbSound(bmap) /\ marked \in SUBSET Int /\ \A b \in Int : b \in marked <=> Held(bmap, b)
  BY DEF RbIInv
<1>2. bmap \in RbRecords /\ bmap.end \in Nat /\ bmap.end <= LastBit
  BY <1>1, SoundNodes, RbAssumption DEF RbRecords, Bits
<1>3. RbTreeSound
  <2>1. \A n \in Nodes(bmap) : bmap.ext[n].count > 0
    <3> TAKE n \in Nodes(bmap)
    <3>1. StartOf(bmap, n) < EndOf(bmap, n)
      BY <1>1, SoundNodes
    <3>2. bmap.ext[n] \in Extents
      <4>1. bmap.ext \in ExtMaps
        BY <1>2 DEF RbRecords
      <4> QED BY <4>1, ExtMapsAre DEF Nodes
    <3> QED BY <3>1, <3>2 DEF StartOf, EndOf, Extents
  <2>2. \A m, n \in Nodes(bmap) : StartOf(bmap, m) < StartOf(bmap, n) => EndOf(bmap, m) < StartOf(bmap, n)
    BY <1>1, SoundNodes
  <2>3. UNION {BitsOf(bmap, n) : n \in Nodes(bmap)} = marked
    <3>1. \A n \in Nodes(bmap) : \A b : b \in BitsOf(bmap, n) <=>
              b \in Int /\ StartOf(bmap, n) <= b /\ b < EndOf(bmap, n)
      BY <1>1, SoundNodes DEF BitsOf
    <3>2. \A b : b \in UNION {BitsOf(bmap, n) : n \in Nodes(bmap)} <=> b \in Int /\ Held(bmap, b)
      BY <3>1 DEF Held
    <3> QED BY <1>1, <3>2
  <2>4. /\ bmap.wcursor \in Nodes(bmap) \cup {Null} /\ bmap.rcursor \in Nodes(bmap) \cup {Null}
        /\ bmap.rcursor # Null => bmap.rcursor_next \in Nodes(bmap) \cup {Null}
    BY <1>1 DEF RbSound, Cursors, CursorsIn
  <2> QED BY <2>1, <2>2, <2>3, <2>4 DEF RbTreeSound
<1>4. RbTestsExact
  <2> SUFFICES ASSUME NEW bit \in 0 .. bmap.end
               PROVE  /\ (rb_test_bit(bmap, bit).ret = 1) = (bit \in marked)
                      /\ (rb_insert_extent(bmap, bit, 1).ret = 1) = (bit \in marked)
    BY DEF RbTestsExact
  <2>1. bit \in Int /\ 0 <= bit /\ bit + 1 <= LastBit + 1 /\ 1 \in Int
    BY <1>2, RbAssumption
  <2>2. rb_test_bit(bmap, bit).ret = 1 <=> Held(bmap, bit)
    BY <1>1, <2>1, TestIs
  <2>3. rb_insert_extent(bmap, bit, 1).ret = 1 <=> Held(bmap, bit)
    BY <1>1, <2>1, InsertIs
  <2> QED BY <1>1, <2>1, <2>2, <2>3
<1>5. RbSearchesExact
  <2> SUFFICES ASSUME marked # {}, NEW start \in 0 .. bmap.end, NEW end \in start .. bmap.end
      PROVE  LET zeros == (start .. end) \ marked
                 ones == (start .. end) \cap marked
             IN  /\ rb_find_first_zero(bmap, start, end) = IF zeros = {} THEN ENOENT ELSE Min(zeros)
                 /\ rb_find_first_set(bmap, start, end) = IF ones = {} THEN ENOENT ELSE Min(ones)
                 /\ rb_test_clear_bmap_extent(bmap, start, end - start + 1) = (ones = {})
                 /\ rb_get_bmap_range(bmap, start, end - start + 1, {}) = ones
    BY DEF RbSearchesExact
  <2> DEFINE zeros == (start .. end) \ marked
             ones == (start .. end) \cap marked
             len == end - start + 1
  <2>1. /\ start \in Nat /\ end \in Nat /\ start <= end /\ len \in Nat /\ len # 0
        /\ start + len - 1 = end /\ start .. end \subseteq Nat /\ start .. end \subseteq Int
    BY <1>2
  <2>2. Nodes(bmap) # {}
    BY <1>1 DEF Held
  <2>3. \A b \in start .. end : (b \in zeros <=> ~Held(bmap, b)) /\ (b \in ones <=> Held(bmap, b))
    BY <1>1, <2>1
  <2>4. zeros \subseteq start .. end /\ ones \subseteq start .. end /\ zeros \subseteq Nat /\ ones \subseteq Nat
    BY <2>1
  <2> HIDE DEF zeros, ones, len
  <2>5. rb_find_first_zero(bmap, start, end) = IF zeros = {} THEN ENOENT ELSE Min(zeros)
    <3> DEFINE z == rb_find_first_zero(bmap, start, end)
    <3>1. \/ z = ENOENT /\ \A b \in start .. end : Held(bmap, b)
          \/ z \in start .. end /\ ~Held(bmap, z) /\ \A b \in start .. end : b < z => Held(bmap, b)
      BY <1>1, <2>1, <2>2, FirstZeroIs
    <3> HIDE DEF z
    <3>2. CASE z = ENOENT /\ \A b \in start .. end : Held(bmap, b)
      <4>1. zeros = {}
        BY <2>3, <2>4, <3>2
      <4> QED BY <3>2, <4>1 DEF z
    <3>3. CASE z \in start .. end /\ ~Held(bmap, z) /\ \A b \in start .. end : b < z => Held(bmap, b)
      <4>1. z \in zeros /\ \A y \in zeros : z <= y
        BY <2>1, <2>3, <2>4, <3>3
      <4>2. Min(zeros) = z
        BY <2>4, <4>1, MinOf
      <4> QED BY <4>1, <4>2 DEF z
    <3> QED BY <3>1, <3>2, <3>3
  <2>6. rb_find_first_set(bmap, start, end) = IF ones = {} THEN ENOENT ELSE Min(ones)
    <3> DEFINE z == rb_find_first_set(bmap, start, end)
    <3>1. \/ z = ENOENT /\ \A b \in start .. end : ~Held(bmap, b)
          \/ z \in start .. end /\ Held(bmap, z) /\ \A b \in start .. end : b < z => ~Held(bmap, b)
      BY <1>1, <2>1, FirstSetIs
    <3> HIDE DEF z
    <3>2. CASE z = ENOENT /\ \A b \in start .. end : ~Held(bmap, b)
      <4>1. ones = {}
        BY <2>3, <2>4, <3>2
      <4> QED BY <3>2, <4>1 DEF z
    <3>3. CASE z \in start .. end /\ Held(bmap, z) /\ \A b \in start .. end : b < z => ~Held(bmap, b)
      <4>1. z \in ones /\ \A y \in ones : z <= y
        BY <2>1, <2>3, <2>4, <3>3
      <4>2. Min(ones) = z
        BY <2>4, <4>1, MinOf
      <4> QED BY <4>1, <4>2 DEF z
    <3> QED BY <3>1, <3>2, <3>3
  <2>7. rb_test_clear_bmap_extent(bmap, start, len) = (ones = {})
    <3>1. rb_test_clear_bmap_extent(bmap, start, len) <=> \A b \in start .. start + len - 1 : ~Held(bmap, b)
      BY <1>1, <2>1, TestClearIs
    <3>2. (\A b \in start .. end : ~Held(bmap, b)) <=> ones = {}
      BY <2>3, <2>4
    <3>3. rb_test_clear_bmap_extent(bmap, start, len) \in BOOLEAN
      BY DEF rb_test_clear_bmap_extent
    <3> QED BY <2>1, <3>1, <3>2, <3>3
  <2>8. rb_get_bmap_range(bmap, start, len, {}) = ones
    <3>1. rb_get_bmap_range(bmap, start, len, {}) = {b \in start .. start + len - 1 : Held(bmap, b)}
      BY <1>1, <2>1, <2>2, GetRangeIs
    <3>2. {b \in start .. end : Held(bmap, b)} = ones
      BY <2>3, <2>4
    <3> QED BY <2>1, <3>1, <3>2
  <2> QED BY <2>5, <2>6, <2>7, <2>8 DEF zeros, ones, len
<1> QED BY <1>3, <1>4, <1>5 DEF RbBitmapCorrect

\* Whatever the size of the bitmap and the order of the operations, a red-black
\* bitmap answers every query as a plain set of bits would. The read cursor, its
\* successor and the write cursor, which the queries leave behind in the bitmap,
\* never make an answer stale.
THEOREM BitmapIsExact == RbSpec => []RbBitmapCorrect
<1>1. RbInit => RbIInv
  <2>1. LastBit \in Bits
    BY RbAssumption DEF Bits
  <2> QED BY <2>1, EmptyRbIs DEF RbInit, RbIInv
<1> QED BY <1>1, RbStep, RbIsCorrect, PTL DEF RbSpec

-----------------------------------------------------------------------------
(* The cache of inodes. *)

Inodes == [main : {0, 1}, extra : TableInodes, sound : BOOLEAN]
SlotContents == [ino : TableInodes \cup {0}, inode : Inodes \cup {ZeroInode}]
Buffers == UNION {[S -> Inodes] : S \in SUBSET TableInodes}
Caches == [slots : [1 .. IcacheSize -> SlotContents], last : 0 .. IcacheSize, blk : Nat,
           buf : Buffers]

\* What the history may hold: the extra part is never another inode's.
Histories == [TableInodes -> SUBSET Inodes]
OwnExtra(L) == \A i \in TableInodes : \A v \in L[i] : v.extra = i

\* The buffer is the block it stands for, and no part of it or of the slots is
\* older than L.
BufferHolds(c, L) ==
    /\ DOMAIN c.buf = InBlock(c.blk)
    /\ \A i \in InBlock(c.blk) : c.buf[i] \in L[i]

SlotsHold(c, L) ==
    \A k \in 1 .. IcacheSize : c.slots[k].ino # 0 => c.slots[k].inode \in L[c.slots[k].ino]

\* An inode is in one slot at most.
SlotsDiffer(c) ==
    \A j, k \in 1 .. IcacheSize : c.slots[j].ino # 0 /\ c.slots[j].ino = c.slots[k].ino => j = k

CacheHolds(c, L) == c \in Caches /\ BufferHolds(c, L) /\ SlotsHold(c, L) /\ SlotsDiffer(c)

TableHolds(L) == \A i \in TableInodes : table[i] \in L[i]

InodeCacheInv ==
    /\ latest \in Histories /\ OwnExtra(latest)
    /\ table \in [TableInodes -> Inodes] /\ TableHolds(latest)
    /\ CacheHolds(icache, latest)

-----------------------------------------------------------------------------
(* The operators of the cache                                              *)

LEMMA BlocksHaveNumbers ==
    /\ \A i \in TableInodes : TableBlockOf(i) \in Nat \ {0} /\ i \in InBlock(TableBlockOf(i))
    /\ InBlock(0) = {}
    /\ \A blk : InBlock(blk) \subseteq TableInodes
<1>1. ASSUME NEW i \in TableInodes PROVE TableBlockOf(i) \in Nat \ {0}
  <2>1. i - 1 \in Nat /\ InodesPerTableBlock \in Nat \ {0}
    BY InodeCacheAssumption
  <2>2. (i - 1) \div InodesPerTableBlock \in Nat
    BY <2>1
  <2> QED BY <2>2 DEF TableBlockOf
<1> QED
  BY <1>1 DEF InBlock

\* The block of ino in the buffer: the slots stay as they are.
LEMMA BufferedHolds ==
    ASSUME NEW ino \in TableInodes, NEW c \in Caches, DOMAIN c.buf = InBlock(c.blk),
           table \in [TableInodes -> Inodes]
    PROVE  LET b == Buffered(c, ino) IN
           /\ b \in Caches /\ b.slots = c.slots /\ b.last = c.last
           /\ b.blk = TableBlockOf(ino) /\ DOMAIN b.buf = InBlock(b.blk)
           /\ \A i \in InBlock(b.blk) : b.buf[i] = IF c.blk = TableBlockOf(ino) THEN c.buf[i] ELSE table[i]
<1>1. CASE c.blk = TableBlockOf(ino)
  BY <1>1 DEF Buffered
<1>2. CASE c.blk # TableBlockOf(ino)
  <2> DEFINE blk == TableBlockOf(ino)
             buf == [i \in InBlock(blk) |-> table[i]]
  <2>1. buf \in [InBlock(blk) -> Inodes] /\ InBlock(blk) \in SUBSET TableInodes
    BY BlocksHaveNumbers
  <2>2. buf \in Buffers
    BY <2>1 DEF Buffers
  <2>3. blk \in Nat /\ DOMAIN buf = InBlock(blk) /\ \A i \in InBlock(blk) : buf[i] = table[i]
    BY BlocksHaveNumbers
  <2>4. Buffered(c, ino) = [c EXCEPT !.blk = blk, !.buf = buf]
    BY <1>2 DEF Buffered
  <2> HIDE DEF buf, blk
  <2>5. /\ Buffered(c, ino) \in Caches /\ Buffered(c, ino).slots = c.slots
        /\ Buffered(c, ino).last = c.last /\ Buffered(c, ino).blk = blk /\ Buffered(c, ino).buf = buf
    BY <2>2, <2>3, <2>4 DEF Caches
  <2> QED BY <1>2, <2>3, <2>5 DEF blk
<1> QED BY <1>1, <1>2

LEMMA SlotsOfCache ==
    ASSUME NEW c \in Caches, NEW ino
    PROVE  SlotsOf(c, ino) = {k \in 1 .. IcacheSize : c.slots[k].ino = ino}
BY DEF SlotsOf, Caches

LEMMA NextSlotType ==
    ASSUME NEW c \in Caches
    PROVE  NextSlot(c) \in 1 .. IcacheSize
<1>1. c.last \in Nat /\ IcacheSize \in Nat \ {0}
  BY InodeCacheAssumption DEF Caches
<1>2. c.last % IcacheSize \in 0 .. IcacheSize - 1
  BY <1>1
<1> QED
  BY <1>1, <1>2 DEF NextSlot

\* A slot is overwritten.
Overwritten(c, k, ino, inode) ==
    [c EXCEPT !.slots[k] = [ino |-> ino, inode |-> inode], !.last = k]

LEMMA SlotWritten ==
    ASSUME NEW c \in Caches, NEW L, SlotsHold(c, L), SlotsDiffer(c), NEW k \in 1 .. IcacheSize,
           NEW ino \in TableInodes, SlotsOf(c, ino) = {}, NEW inode \in Inodes, inode \in L[ino]
    PROVE  LET d == Overwritten(c, k, ino, inode) IN
           /\ d \in Caches /\ SlotsHold(d, L) /\ SlotsDiffer(d) /\ d.blk = c.blk /\ d.buf = c.buf
<1> DEFINE slot == [ino |-> ino, inode |-> inode]
           slots == [c.slots EXCEPT ![k] = slot]
           d == Overwritten(c, k, ino, inode)
<1>1. slot \in SlotContents /\ slot.ino = ino /\ slot.inode = inode
  BY DEF SlotContents
<1>0. d = [c EXCEPT !.slots[k] = slot, !.last = k]
  BY DEF Overwritten
<1>2. c.slots \in [1 .. IcacheSize -> SlotContents] /\ k \in 0 .. IcacheSize
  BY InodeCacheAssumption DEF Caches
<1> HIDE DEF slot
<1>3. /\ slots \in [1 .. IcacheSize -> SlotContents] /\ slots[k] = slot
      /\ \A j \in 1 .. IcacheSize : j # k => slots[j] = c.slots[j]
  BY <1>1, <1>2
<1>4. d = [c EXCEPT !.slots = slots, !.last = k]
  BY <1>0 DEF Caches
<1> HIDE DEF slots, d
<1>5. d \in Caches /\ d.slots = slots /\ d.blk = c.blk /\ d.buf = c.buf
  BY <1>2, <1>3, <1>4 DEF Caches
<1>6. SlotsHold(d, L)
  BY <1>1, <1>3, <1>5 DEF SlotsHold
<1>7. \A j \in 1 .. IcacheSize : c.slots[j].ino # ino
  BY SlotsOfCache
<1>8. SlotsDiffer(d)
  BY <1>1, <1>3, <1>5, <1>7 DEF SlotsDiffer
<1> QED
  BY <1>5, <1>6, <1>8 DEF d

\* ext2fs_read_inode2 returns what may be there and leaves nothing old behind.
LEMMA ReadHolds ==
    ASSUME InodeCacheInv, ~UnsoundEvicts, NEW ino \in TableInodes, MayRead(icache, ino)
    PROVE  CacheHolds(ext2fs_read_inode2(icache, ino).c, latest)
<1>1. CASE SlotsOf(icache, ino) # {}
  BY <1>1 DEF ext2fs_read_inode2, InodeCacheInv
<1>2. CASE SlotsOf(icache, ino) = {}
  <2> DEFINE b == Buffered(icache, ino)
             k == NextSlot(b)
  <2>1. /\ icache \in Caches /\ table \in [TableInodes -> Inodes] /\ BufferHolds(icache, latest)
        /\ SlotsHold(icache, latest) /\ SlotsDiffer(icache) /\ TableHolds(latest)
    BY DEF InodeCacheInv, CacheHolds
  <2>2. /\ b \in Caches /\ b.slots = icache.slots /\ b.last = icache.last
        /\ b.blk = TableBlockOf(ino) /\ DOMAIN b.buf = InBlock(b.blk)
        /\ \A i \in InBlock(b.blk) :
              b.buf[i] = IF icache.blk = TableBlockOf(ino) THEN icache.buf[i] ELSE table[i]
    BY <2>1, BufferedHolds DEF BufferHolds
  <2>3. ext2fs_read_inode2(icache, ino).c = FillSlot(icache, ino)
    BY <1>2 DEF ext2fs_read_inode2
  <2>4. k = NextSlot(icache)
    BY <2>2 DEF NextSlot
  <2>5. FillSlot(icache, ino) =
          IF b.buf[ino].sound
          THEN [b EXCEPT !.slots[k] = [ino |-> ino, inode |-> b.buf[ino]], !.last = k]
          ELSE IF b.slots[k].ino = 0 THEN b
          ELSE [b EXCEPT !.slots[k].inode = b.buf[ino]]
    BY DEF FillSlot
  <2>6. b.buf[ino].sound \/ b.slots[k].ino = 0
    BY <1>2, <2>2, <2>4 DEF MayRead
  <2>7. k \in 1 .. IcacheSize
    BY <2>2, NextSlotType
  <2> HIDE DEF b, k
  <2>8. BufferHolds(b, latest)
    BY <2>1, <2>2, BlocksHaveNumbers DEF BufferHolds, TableHolds
  <2>9. SlotsHold(b, latest) /\ SlotsDiffer(b)
    BY <2>1, <2>2 DEF SlotsHold, SlotsDiffer
  <2>10. CASE ~b.buf[ino].sound
    BY <2>2, <2>3, <2>5, <2>6, <2>8, <2>9, <2>10 DEF CacheHolds
  <2>11. CASE b.buf[ino].sound
    <3> DEFINE v == b.buf[ino]
               d == Overwritten(b, k, ino, v)
    <3>1. SlotsOf(b, ino) = {}
      BY <1>2, <2>2 DEF SlotsOf
    <3>2. b.buf[ino] \in latest[ino] /\ b.buf[ino] \in Inodes
      BY <2>2, <2>8, BlocksHaveNumbers DEF BufferHolds, InodeCacheInv, Histories
    <3>3. ext2fs_read_inode2(icache, ino).c = d
      BY <2>3, <2>5, <2>11 DEF Overwritten
    <3> HIDE DEF v
    <3>4. d \in Caches /\ SlotsHold(d, latest) /\ SlotsDiffer(d) /\ d.blk = b.blk /\ d.buf = b.buf
      <4>1. b \in Caches /\ v \in Inodes /\ v \in latest[ino]
        BY <2>2, <3>2 DEF v
      <4> QED BY <2>7, <2>9, <3>1, <4>1, SlotWritten
    <3> HIDE DEF d
    <3> QED BY <2>8, <3>3, <3>4 DEF CacheHolds, BufferHolds
  <2> QED BY <2>10, <2>11
<1> QED BY <1>1, <1>2

LEMMA ReadsLatest ==
    ASSUME InodeCacheInv, NEW ino \in TableInodes
    PROVE  ext2fs_read_inode2(icache, ino).inode \in latest[ino]
<1>1. /\ icache \in Caches /\ table \in [TableInodes -> Inodes] /\ BufferHolds(icache, latest)
      /\ SlotsHold(icache, latest) /\ SlotsDiffer(icache) /\ TableHolds(latest)
  BY DEF InodeCacheInv, CacheHolds
<1>2. CASE SlotsOf(icache, ino) # {}
  <2> DEFINE k == CHOOSE k \in SlotsOf(icache, ino) : \A j \in SlotsOf(icache, ino) : k <= j
  <2>1. PICK l \in SlotsOf(icache, ino) : TRUE
    BY <1>2
  <2>2. \A j \in SlotsOf(icache, ino) : l <= j
    BY <1>1, <2>1, SlotsOfCache, InodeCacheAssumption DEF SlotsDiffer
  <2>3. k \in SlotsOf(icache, ino)
    BY <2>1, <2>2
  <2>4. ext2fs_read_inode2(icache, ino).inode = icache.slots[k].inode
    BY <1>2 DEF ext2fs_read_inode2
  <2> HIDE DEF k
  <2>5. k \in 1 .. IcacheSize /\ icache.slots[k].ino = ino /\ ino # 0
    BY <1>1, <2>3, SlotsOfCache, InodeCacheAssumption
  <2> QED BY <1>1, <2>4, <2>5 DEF SlotsHold
<1>3. CASE SlotsOf(icache, ino) = {}
  <2> DEFINE b == Buffered(icache, ino)
  <2>1. /\ b.blk = TableBlockOf(ino)
        /\ \A i \in InBlock(b.blk) :
              b.buf[i] = IF icache.blk = TableBlockOf(ino) THEN icache.buf[i] ELSE table[i]
    BY <1>1, BufferedHolds DEF BufferHolds
  <2>2. ext2fs_read_inode2(icache, ino).inode = b.buf[ino]
    BY <1>3 DEF ext2fs_read_inode2
  <2> HIDE DEF b
  <2> QED BY <1>1, <2>1, <2>2, BlocksHaveNumbers DEF BufferHolds, TableHolds
<1> QED BY <1>2, <1>3

-----------------------------------------------------------------------------
(* Writing                                                                 *)

\* M is L after inode ino was written.
Newer(L, M, ino, new) == new \in M[ino] /\ \A i \in TableInodes : i # ino => M[i] = L[i]

\* The slots of ino hold what is written; the buffer is as it was.
LEMMA InCacheHolds ==
    ASSUME NEW c \in Caches, NEW L, NEW M, NEW ino \in TableInodes, NEW new \in Inodes,
           SlotsHold(c, L), SlotsDiffer(c), Newer(L, M, ino, new)
    PROVE  LET d == InCache(c, ino, new) IN
           /\ d \in Caches /\ SlotsHold(d, M) /\ SlotsDiffer(d)
           /\ d.blk = c.blk /\ d.buf = c.buf
<1> DEFINE slots == [k \in 1 .. IcacheSize |->
                       IF c.slots[k].ino = ino THEN [c.slots[k] EXCEPT !.inode = new] ELSE c.slots[k]]
           d == InCache(c, ino, new)
<1>1. c.slots \in [1 .. IcacheSize -> SlotContents]
  BY DEF Caches
<1>2. ASSUME NEW k \in 1 .. IcacheSize
      PROVE  /\ slots[k] \in SlotContents /\ slots[k].ino = c.slots[k].ino
             /\ slots[k].inode = IF c.slots[k].ino = ino THEN new ELSE c.slots[k].inode
  <2>1. c.slots[k] \in SlotContents
    BY <1>1
  <2> QED BY <2>1 DEF SlotContents
<1>3. slots \in [1 .. IcacheSize -> SlotContents]
  BY <1>2
<1>4. d = [c EXCEPT !.slots = slots]
  <2>1. /\ DOMAIN c.slots = 1 .. IcacheSize
        /\ \A k \in 1 .. IcacheSize : k \in SlotsOf(c, ino) <=> c.slots[k].ino = ino
    BY <1>1, SlotsOfCache
  <2>2. slots = [k \in DOMAIN c.slots |->
                   IF k \in SlotsOf(c, ino) THEN [c.slots[k] EXCEPT !.inode = new] ELSE c.slots[k]]
    BY <2>1
  <2> QED BY <2>2 DEF InCache
<1> HIDE DEF slots, d
<1>5. d \in Caches /\ d.slots = slots /\ d.blk = c.blk /\ d.buf = c.buf
  BY <1>3, <1>4 DEF Caches
<1>6. ASSUME NEW k \in 1 .. IcacheSize, d.slots[k].ino # 0
      PROVE  d.slots[k].inode \in M[d.slots[k].ino]
  <2>1. c.slots[k].ino \in TableInodes
    BY <1>1, <1>2, <1>5, <1>6 DEF SlotContents
  <2>2. c.slots[k].inode \in L[c.slots[k].ino]
    BY <1>2, <1>5, <1>6 DEF SlotsHold
  <2> QED BY <1>2, <1>5, <2>1, <2>2 DEF Newer
<1>7. SlotsHold(d, M)
  BY <1>6 DEF SlotsHold
<1>8. SlotsDiffer(d)
  BY <1>2, <1>5 DEF SlotsDiffer
<1> QED
  BY <1>5, <1>7, <1>8 DEF d

\* The block of ino in the buffer, with what is written
LEMMA InBufferHolds ==
    ASSUME NEW c \in Caches, NEW L, NEW M, NEW ino \in TableInodes, NEW new \in Inodes,
           BufferHolds(c, L), table \in [TableInodes -> Inodes], TableHolds(L),
           Newer(L, M, ino, new)
    PROVE  LET d == InBuffer(c, ino, new) IN
           /\ d \in Caches /\ BufferHolds(d, M) /\ d.slots = c.slots
           /\ d.blk = TableBlockOf(ino) /\ d.buf[ino] = new
<1> DEFINE b == Buffered(c, ino)
           buf == [b.buf EXCEPT ![ino] = new]
           d == InBuffer(c, ino, new)
<1>1. /\ b \in Caches /\ b.slots = c.slots
      /\ b.blk = TableBlockOf(ino) /\ DOMAIN b.buf = InBlock(b.blk)
      /\ \A i \in InBlock(b.blk) : b.buf[i] = IF c.blk = TableBlockOf(ino) THEN c.buf[i] ELSE table[i]
  BY BufferedHolds DEF BufferHolds
<1>2. d = [b EXCEPT !.buf[ino] = new]
  BY DEF InBuffer
<1> HIDE DEF b, d
<1>3. InBlock(b.blk) \in SUBSET TableInodes /\ ino \in InBlock(b.blk)
  BY <1>1, BlocksHaveNumbers
<1>4. b.buf \in [InBlock(b.blk) -> Inodes]
  BY <1>1 DEF Caches, Buffers
<1>5. /\ buf \in [InBlock(b.blk) -> Inodes] /\ DOMAIN buf = InBlock(b.blk) /\ buf[ino] = new
      /\ \A i \in InBlock(b.blk) : i # ino => buf[i] = b.buf[i]
  BY <1>3, <1>4
<1>6. buf \in Buffers
  BY <1>3, <1>5 DEF Buffers
<1>7. d = [b EXCEPT !.buf = buf]
  BY <1>1, <1>2 DEF Caches
<1> HIDE DEF buf
<1>8. d \in Caches /\ d.slots = b.slots /\ d.blk = b.blk /\ d.buf = buf
  BY <1>1, <1>6, <1>7 DEF Caches
<1>9. BufferHolds(d, M)
  <2>1. ASSUME NEW i \in InBlock(d.blk) PROVE d.buf[i] \in M[i]
    <3>1. CASE i = ino
      BY <1>5, <1>8, <3>1 DEF Newer
    <3>2. CASE i # ino
      <4>1. i \in TableInodes /\ b.buf[i] \in L[i]
        BY <1>1, <1>3, <1>8, <2>1 DEF BufferHolds, TableHolds
      <4> QED BY <1>5, <1>8, <3>2, <4>1 DEF Newer
    <3> QED BY <3>1, <3>2
  <2> QED BY <1>5, <1>8, <2>1 DEF BufferHolds
<1> QED
  BY <1>1, <1>5, <1>8, <1>9 DEF d

\* The cache c, left by reading the inode first or as it was, and the device,
\* whatever becomes of the write
LEMMA WriteHolds ==
    ASSUME InodeCacheInv, ~ErrorsClobber, NEW ino \in TableInodes, NEW main \in {0, 1},
           NEW outcome \in Outcomes, NEW c, CacheHolds(c, latest),
           WriteInode(c, ino, Meant(ino, main), outcome)
    PROVE  InodeCacheInv'
<1> DEFINE new == Meant(ino, main)
           cached == InCache(c, ino, new)
           filled == InBuffer(cached, ino, new)
<1>1. new \in Inodes /\ new.extra = ino /\ new.main = main
  BY DEF Meant, Inodes
<1>2. Meant(ino, new.main) = new
  BY <1>1
<1>3. /\ IF outcome # "early" THEN icache' = filled
         ELSE IF c.blk = TableBlockOf(ino) THEN icache' = cached ELSE icache' \in Clobbered(cached)
      /\ table' = IF outcome = "done" THEN TableWith(filled) ELSE table
      /\ latest' = [latest EXCEPT ![ino] = {new} \cup IF outcome = "done" THEN {} ELSE @]
  BY <1>2 DEF WriteInode
<1>4. Clobbered(cached) = {cached}
  BY DEF Clobbered
<1> HIDE DEF new
<1>5. /\ c \in Caches /\ table \in [TableInodes -> Inodes] /\ BufferHolds(c, latest)
      /\ SlotsHold(c, latest) /\ SlotsDiffer(c) /\ TableHolds(latest)
      /\ latest \in Histories /\ OwnExtra(latest)
  BY DEF InodeCacheInv, CacheHolds
<1>6. /\ latest' \in Histories /\ Newer(latest, latest', ino, new) /\ new \in latest'[ino]
      /\ \A i \in TableInodes : i # ino => latest'[i] = latest[i]
      /\ outcome # "done" => latest'[ino] = {new} \cup latest[ino]
      /\ outcome = "done" => latest'[ino] = {new}
  BY <1>1, <1>3, <1>5 DEF Histories, Newer
<1>7. OwnExtra(latest)'
  <2>1. ASSUME NEW i \in TableInodes, NEW v \in latest'[i] PROVE v.extra = i
    <3>1. (v = new /\ i = ino) \/ v \in latest[i]
      BY <1>6, <2>1
    <3> QED BY <1>1, <1>5, <3>1 DEF OwnExtra
  <2> QED BY <2>1 DEF OwnExtra
<1>8. /\ cached \in Caches /\ SlotsHold(cached, latest') /\ SlotsDiffer(cached)
      /\ cached.blk = c.blk /\ cached.buf = c.buf
  BY <1>1, <1>5, <1>6, InCacheHolds
<1>9. BufferHolds(cached, latest)
  BY <1>5, <1>8 DEF BufferHolds
<1> HIDE DEF cached
<1>10. /\ filled \in Caches /\ BufferHolds(filled, latest') /\ filled.slots = cached.slots
       /\ filled.blk = TableBlockOf(ino) /\ filled.buf[ino] = new
  BY <1>1, <1>5, <1>6, <1>8, <1>9, InBufferHolds
<1> HIDE DEF filled
<1>11. CacheHolds(filled, latest')
  BY <1>8, <1>10 DEF CacheHolds, SlotsHold, SlotsDiffer
<1>12. CASE outcome = "early"
  <2>1. icache' = cached /\ table' = table
    BY <1>3, <1>4, <1>12
  <2>2. BufferHolds(cached, latest')
    <3>1. ASSUME NEW i \in InBlock(cached.blk) PROVE cached.buf[i] \in latest'[i]
      <4>1. i \in TableInodes /\ cached.buf[i] \in latest[i]
        BY <1>9, <3>1, BlocksHaveNumbers DEF BufferHolds
      <4> QED BY <1>6, <1>12, <4>1
    <3> QED BY <1>9, <3>1 DEF BufferHolds
  <2>3. TableHolds(latest)'
    BY <1>5, <1>6, <1>12, <2>1 DEF TableHolds
  <2>4. CacheHolds(icache', latest')
    BY <1>8, <2>1, <2>2 DEF CacheHolds
  <2> QED BY <1>5, <1>6, <1>7, <2>1, <2>3, <2>4 DEF InodeCacheInv
<1>13. CASE outcome = "late"
  <2>1. icache' = filled /\ table' = table
    BY <1>3, <1>13
  <2>2. TableHolds(latest)'
    BY <1>5, <1>6, <1>13, <2>1 DEF TableHolds
  <2> QED BY <1>5, <1>6, <1>7, <1>11, <2>1, <2>2 DEF InodeCacheInv
<1>14. CASE outcome = "done"
  <2>1. icache' = filled /\ table' = TableWith(filled)
    BY <1>3, <1>14
  <2>2. DOMAIN filled.buf = InBlock(filled.blk) /\ ino \in InBlock(filled.blk)
    BY <1>10, BlocksHaveNumbers DEF BufferHolds
  <2>3. ASSUME NEW i \in TableInodes
        PROVE  table'[i] = (IF i \in InBlock(filled.blk) THEN filled.buf[i] ELSE table[i])
               /\ table'[i] \in latest'[i] /\ table'[i] \in Inodes
    <3>1. table'[i] = IF i \in InBlock(filled.blk) THEN filled.buf[i] ELSE table[i]
      BY <2>1, <2>2 DEF TableWith
    <3>2. table'[i] \in latest'[i]
      BY <1>5, <1>6, <1>10, <2>2, <3>1 DEF BufferHolds, TableHolds
    <3> QED BY <1>6, <3>1, <3>2 DEF Histories
  <2>4. table' \in [TableInodes -> Inodes]
    BY <2>1, <2>3 DEF TableWith
  <2>5. TableHolds(latest)'
    BY <2>3 DEF TableHolds
  <2> QED BY <1>6, <1>7, <1>11, <2>1, <2>4, <2>5 DEF InodeCacheInv
<1> QED
  BY <1>12, <1>13, <1>14 DEF Outcomes

-----------------------------------------------------------------------------
(* The specification                                                       *)

LEMMA EmptyHolds ==
    ASSUME NEW c, NEW L, c.slots = [k \in 1 .. IcacheSize |-> EmptySlot], c.last \in 0 .. IcacheSize,
           c.blk = 0, c.buf = <<>>,
           c = [slots |-> c.slots, last |-> c.last, blk |-> c.blk, buf |-> c.buf]
    PROVE  CacheHolds(c, L)
<1>1. EmptySlot \in SlotContents /\ EmptySlot.ino = 0
  BY DEF EmptySlot, SlotContents
<1>2. c.slots \in [1 .. IcacheSize -> SlotContents] /\ \A k \in 1 .. IcacheSize : c.slots[k].ino = 0
  BY <1>1
<1>3. DOMAIN c.buf = {} /\ c.buf \in [{} -> Inodes]
  OBVIOUS
<1>4. c.buf \in Buffers
  BY <1>3 DEF Buffers
<1>5. c \in Caches
  BY <1>2, <1>4 DEF Caches
<1>6. BufferHolds(c, L)
  BY <1>3, BlocksHaveNumbers DEF BufferHolds
<1> QED
  BY <1>2, <1>5, <1>6 DEF CacheHolds, SlotsHold, SlotsDiffer

LEMMA InitHolds == InodeCacheInit => InodeCacheInv
<1> SUFFICES ASSUME InodeCacheInit PROVE InodeCacheInv
  OBVIOUS
<1>1. PICK unsound \in SUBSET TableInodes :
        table = [i \in TableInodes |-> [ZeroInode EXCEPT !.extra = i, !.sound = i \notin unsound]]
  BY DEF InodeCacheInit
<1>2. ASSUME NEW i \in TableInodes
      PROVE  table[i] \in Inodes /\ table[i].extra = i
  <2> DEFINE sound == i \notin unsound
  <2>1. sound \in BOOLEAN
    OBVIOUS
  <2>2. table[i] = [ZeroInode EXCEPT !.extra = i, !.sound = sound]
    BY <1>1
  <2> HIDE DEF sound
  <2> QED BY <2>1, <2>2 DEF ZeroInode, Inodes
<1>3. table \in [TableInodes -> Inodes]
  BY <1>1, <1>2
<1>4. latest = [i \in TableInodes |-> {table[i]}]
  BY DEF InodeCacheInit
<1>5. latest \in Histories /\ OwnExtra(latest) /\ TableHolds(latest)
  BY <1>2, <1>4 DEF Histories, OwnExtra, TableHolds
<1>6. CacheHolds(icache, latest)
  <2>1. icache = NoIcache
    BY DEF InodeCacheInit
  <2>2. 0 \in 0 .. IcacheSize
    BY InodeCacheAssumption
  <2>3. /\ icache.slots = [k \in 1 .. IcacheSize |-> EmptySlot] /\ icache.last \in 0 .. IcacheSize
        /\ icache.blk = 0 /\ icache.buf = <<>>
        /\ icache = [slots |-> icache.slots, last |-> icache.last, blk |-> icache.blk,
                     buf |-> icache.buf]
    BY <2>1, <2>2 DEF NoIcache
  <2> QED BY <2>3, EmptyHolds
<1> QED
  BY <1>3, <1>5, <1>6 DEF InodeCacheInv

LEMMA FlushHolds ==
    ASSUME InodeCacheInv, ext2fs_flush_icache
    PROVE  InodeCacheInv'
<1>1. icache \in Caches
  BY DEF InodeCacheInv, CacheHolds
<1>2. /\ icache'.slots = [k \in 1 .. IcacheSize |-> EmptySlot] /\ icache'.last = icache.last
      /\ icache'.blk = 0 /\ icache'.buf = <<>>
      /\ icache' = [slots |-> icache'.slots, last |-> icache'.last, blk |-> icache'.blk,
                    buf |-> icache'.buf]
  BY <1>1 DEF ext2fs_flush_icache, Caches
<1>3. icache'.last \in 0 .. IcacheSize
  BY <1>1, <1>2 DEF Caches
<1>4. CacheHolds(icache', latest)
  BY <1>2, <1>3, EmptyHolds
<1> QED
  BY <1>4 DEF InodeCacheInv, ext2fs_flush_icache, TableHolds

\* The part a caller with the old struct does not know is the inode's own.
LEMMA ShadowMeans ==
    ASSUME InodeCacheInv, NEW ino \in TableInodes, NEW main \in {0, 1}
    PROVE  Shadow(icache, ino, main) = Meant(ino, main)
<1> DEFINE inode == ext2fs_read_inode2(icache, ino).inode
<1>1. inode \in latest[ino]
  BY ReadsLatest
<1>2. Shadow(icache, ino, main) = [inode EXCEPT !.main = main, !.sound = TRUE]
  BY DEF Shadow
<1> HIDE DEF inode
<1>3. inode \in Inodes /\ inode.extra = ino
  BY <1>1 DEF InodeCacheInv, Histories, OwnExtra
<1> QED
  BY <1>2, <1>3 DEF Inodes, Meant

LEMMA StepHolds ==
    ASSUME ~UnsoundEvicts, ~ErrorsClobber, InodeCacheInv, [InodeCacheNext]_inodeCacheVars
    PROVE  InodeCacheInv'
<1>1. ASSUME NEW ino \in TableInodes, ReadInode(ino) PROVE InodeCacheInv'
  <2>1. CacheHolds(icache', latest) /\ table' = table /\ latest' = latest
    BY <1>1, ReadHolds DEF ReadInode
  <2> QED BY <2>1 DEF InodeCacheInv, TableHolds
<1>2. ASSUME NEW ino \in TableInodes, ReadFails(ino) PROVE InodeCacheInv'
  <2>1. icache' = icache /\ table' = table /\ latest' = latest
    BY <1>2 DEF ReadFails, Clobbered
  <2> QED BY <2>1 DEF InodeCacheInv, TableHolds
<1>3. ASSUME NEW ino \in TableInodes, NEW main \in {0, 1}, NEW outcome \in Outcomes,
             WriteSmall(ino, main, outcome)
      PROVE  InodeCacheInv'
  <2>1. CacheHolds(AfterShadow(icache, ino), latest)
    BY <1>3, ReadHolds DEF WriteSmall, AfterShadow
  <2>2. WriteInode(AfterShadow(icache, ino), ino, Meant(ino, main), outcome)
    BY <1>3, ShadowMeans DEF WriteSmall
  <2> QED BY <2>1, <2>2, WriteHolds
<1>4. ASSUME NEW ino \in TableInodes, NEW main \in {0, 1}, NEW outcome \in Outcomes,
             WriteFull(ino, main, outcome)
      PROVE  InodeCacheInv'
  <2>1. CacheHolds(icache, latest)
    BY DEF InodeCacheInv
  <2> QED BY <1>4, <2>1, WriteHolds DEF WriteFull
<1>5. CASE ext2fs_flush_icache
  BY <1>5, FlushHolds
<1>6. CASE UNCHANGED inodeCacheVars
  BY <1>6 DEF inodeCacheVars, InodeCacheInv, TableHolds
<1> QED
  BY <1>1, <1>2, <1>3, <1>4, <1>5, <1>6 DEF InodeCacheNext

\* ext2fs_read_inode returns what was last written to an inode, or one of the
\* writes that reported an error since, wherever it takes it from, and writing
\* one inode leaves the others of its block and its own extra part alone: for
\* every set of inodes, size of the cache, layout of the table and number of
\* faults.  The two hypotheses exclude the calls the code gets wrong: a bad
\* checksum read over a cached inode, and a failing read that changes the
\* buffer.
THEOREM CachedInodesAreLatest ==
    ASSUME ~UnsoundEvicts, ~ErrorsClobber
    PROVE  InodeCacheSpec => []InodesAreLatest
<1>1. InodeCacheInv => InodesAreLatest
  BY ReadsLatest DEF InodesAreLatest, InodeCacheInv, TableHolds
<1>2. InodeCacheInv /\ [InodeCacheNext]_inodeCacheVars => InodeCacheInv'
  BY StepHolds
<1> QED
  BY <1>1, <1>2, InitHolds, PTL DEF InodeCacheSpec

-----------------------------------------------------------------------------
(* Files read and written through a handle.  *)

\* The types of a handle with its file and disk.
CellSet == Nat \cup {Stale}
Logical == 0 .. FileBlocks - 1
Physical == 1 .. DiskBlocks
FileInodes == [size : 0 .. MaxSize, map : [Logical -> Physical \cup {0}], uninit : SUBSET Logical]
FileStates ==
    [open : BOOLEAN, pos : Nat, blockno : Nat, physblock : Physical \cup {0}, buf : [Offsets -> CellSet],
     valid : BOOLEAN, dirty : BOOLEAN, ret : {"ok", "no space"}, inode : FileInodes,
     disk : [Physical -> [Offsets -> CellSet]], free : SUBSET Physical]

\* No block is in two places of the file, or in the file and free.
Mapped(f) ==
    /\ \A b, c \in Logical : f.inode.map[b] # 0 /\ f.inode.map[b] = f.inode.map[c] => b = c
    /\ \A b \in Logical : f.inode.map[b] \notin f.free
    /\ \A b \in f.inode.uninit : f.inode.map[b] # 0

\* A valid buffer knows the block of the disk behind it; only a valid one is dirty.
AtItsBlock(f) ==
    /\ f.valid => f.blockno \in Logical /\ f.physblock = f.inode.map[f.blockno]
    /\ f.dirty => f.valid

\* The cell as the disk has it, and whether the buffer is newer and has a block to go to.
OnDisk(f, i) ==
    LET b == i \div Cells
    IN  IF f.inode.map[b] # 0 /\ b \notin f.inode.uninit THEN f.disk[f.inode.map[b]][i % Cells] ELSE 0
Ahead(f, b) == f.dirty /\ f.physblock # 0 /\ f.blockno = b

\* The disk has what the callers were told, where the buffer is not newer, and so
\* does the buffer.
Shows(f, C) ==
    /\ \A i \in FileCells : Ahead(f, i \div Cells) \/ OnDisk(f, i) \in C[i]
    /\ f.valid => \A i \in FileCells : i \div Cells = f.blockno => f.buf[i % Cells] \in C[i]

FileSound(f, C) == f \in FileStates /\ Mapped(f) /\ AtItsBlock(f) /\ Shows(f, C)

\* The inductive invariant.  Cells behind the end, which a file that grows will show,
\* may be zero.
FileIInv ==
    /\ FileSound(file, content) /\ file.ret = "ok" /\ (file.valid => file.open)
    /\ \A i \in FileCells : i >= file.inode.size => 0 \in content[i]

\* The constants, and the place of a cell in its block.
LEMMA FileConstants ==
    /\ FileBlocks \in Nat /\ Cells \in Nat /\ Cells > 0 /\ FileBlocks > 0 /\ DiskBlocks \in Nat
    /\ MaxSize \in Nat /\ \A i : i \in FileCells <=> i \in Nat /\ i < MaxSize
<1>1. FileBlocks \in Nat /\ Cells \in Nat /\ Cells > 0 /\ FileBlocks > 0 /\ DiskBlocks \in Nat
  BY FileIOAssumption
<1> DEFINE m == FileBlocks * Cells
<1>2. m \in Nat
  BY <1>1
<1>3. FileCells = 0 .. m - 1 /\ MaxSize = m
  BY DEF FileCells, MaxSize
<1> HIDE DEF m
<1> QED BY <1>1, <1>2, <1>3

\* Division by the number of cells.
LEMMA Divided ==
    ASSUME NEW i \in Nat
    PROVE  i \div Cells \in Nat /\ i % Cells \in Offsets /\ i = Cells * (i \div Cells) + (i % Cells)
<1>1. Cells \in Nat \ {0}
  BY FileConstants
<1>2. ASSUME NEW d \in Nat \ {0}
      PROVE  i \div d \in Nat /\ i % d \in 0 .. d - 1 /\ i = d * (i \div d) + (i % d)
  OBVIOUS
<1> QED BY <1>1, <1>2 DEF Offsets

\* Cells of the same block lie as far apart as their offsets, and a later block has
\* later cells.
LEMMA SameBlock ==
    ASSUME NEW i \in Nat, NEW j \in Nat
    PROVE  /\ i \div Cells = j \div Cells => i - j = (i % Cells) - (j % Cells)
           /\ i \div Cells < j \div Cells => i + Cells - (i % Cells) + (j % Cells) <= j
           /\ j <= i /\ i < j + Cells - (j % Cells) => i \div Cells = j \div Cells
<1>1. Cells \in Nat /\ Cells > 0
  BY FileConstants
<1> DEFINE a == i \div Cells
           b == j \div Cells
           r == i % Cells
           s == j % Cells
<1>2. /\ a \in Nat /\ r \in 0 .. Cells - 1 /\ i = Cells * a + r
      /\ b \in Nat /\ s \in 0 .. Cells - 1 /\ j = Cells * b + s
  <2>1. /\ a \in Nat /\ r \in Offsets /\ i = Cells * a + r
        /\ b \in Nat /\ s \in Offsets /\ j = Cells * b + s
    BY Divided
  <2> HIDE DEF a, b, r, s
  <2> QED BY <2>1 DEF Offsets
<1> HIDE DEF a, b, r, s
<1>3. a = b => i - j = r - s
  <2> SUFFICES ASSUME a = b PROVE i - j = r - s
    OBVIOUS
  <2> DEFINE m == Cells * a
  <2>1. m \in Nat /\ i = m + r /\ j = m + s
    BY <1>1, <1>2
  <2> HIDE DEF m
  <2> QED BY <1>1, <1>2, <2>1
<1>4. ASSUME NEW x \in Nat, NEW y \in Nat, x < y PROVE Cells * x + Cells <= Cells * y
  <2>1. y - x - 1 \in Nat /\ y = x + 1 + (y - x - 1)
    BY <1>4
  <2> DEFINE d == y - x - 1
  <2>2. Cells * y = Cells * x + Cells + Cells * d
    BY <1>1, <2>1
  <2>3. Cells * d \in Nat /\ Cells * x \in Nat
    BY <1>1, <2>1
  <2> HIDE DEF d
  <2> QED BY <1>1, <2>2, <2>3
<1> DEFINE m == Cells * a
           n == Cells * b
<1>5. m \in Nat /\ n \in Nat /\ i = m + r /\ j = n + s
  BY <1>1, <1>2
<1>6. (a < b => m + Cells <= n) /\ (b < a => n + Cells <= m)
  BY <1>2, <1>4
<1> HIDE DEF m, n
<1>7. a < b => i + Cells - r + s <= j
  BY <1>1, <1>2, <1>5, <1>6
<1>8. j <= i /\ i < j + Cells - s => a = b
  BY <1>1, <1>2, <1>5, <1>6
<1> QED BY <1>3, <1>7, <1>8 DEF a, b, r, s

\* A cell of the file lies in a block of the file.
LEMMA CellBlock ==
    ASSUME NEW i \in FileCells
    PROVE  i \in Nat /\ i \div Cells \in Logical /\ i % Cells \in Offsets
<1>1. i \in Nat /\ i < FileBlocks * Cells /\ FileBlocks \in Nat /\ Cells \in Nat /\ Cells > 0
  BY FileConstants DEF MaxSize
<1> DEFINE a == i \div Cells
<1>2. a \in Nat /\ i % Cells \in Offsets /\ i = Cells * a + (i % Cells)
  BY <1>1, Divided
<1> HIDE DEF a
<1>3. a < FileBlocks
  <2> SUFFICES ASSUME ~(a < FileBlocks) PROVE FALSE
    OBVIOUS
  <2> DEFINE d == a - FileBlocks
  <2>1. d \in Nat /\ a = FileBlocks + d
    BY <1>1, <1>2
  <2>2. Cells * a = FileBlocks * Cells + Cells * d /\ Cells * d \in Nat
    BY <1>1, <2>1
  <2> DEFINE x == FileBlocks * Cells
             y == Cells * d
             z == Cells * a
             q == i % Cells
  <2>3. x \in Nat /\ y \in Nat /\ z \in Nat /\ z = x + y
    BY <1>1, <1>2, <2>2
  <2>4. i = z + q /\ q \in Offsets /\ i < x
    BY <1>1, <1>2
  <2> HIDE DEF x, y, z, d, q
  <2> QED BY <1>1, <2>3, <2>4 DEF Offsets
<1> QED BY <1>1, <1>2, <1>3 DEF a, Logical

\* The fields of a handle.
LEMMA FileFields ==
    ASSUME NEW f \in FileStates
    PROVE  /\ f.open \in BOOLEAN /\ f.pos \in Nat /\ f.blockno \in Nat /\ f.physblock \in Physical \cup {0}
           /\ f.buf \in [Offsets -> CellSet] /\ f.valid \in BOOLEAN /\ f.dirty \in BOOLEAN
           /\ f.ret \in {"ok", "no space"} /\ f.disk \in [Physical -> [Offsets -> CellSet]]
           /\ f.free \subseteq Physical /\ f.inode \in FileInodes
           /\ f.inode.size \in 0 .. MaxSize /\ f.inode.map \in [Logical -> Physical \cup {0}]
           /\ f.inode.uninit \subseteq Logical
BY DEF FileStates, FileInodes

\* What stays: the handle but for its block of the disk and its marks, and the size.
SamePlace(f, g) ==
    /\ g.open = f.open /\ g.pos = f.pos /\ g.blockno = f.blockno /\ g.inode.size = f.inode.size

\* ext2fs_bmap2 with BMAP_ALLOC when a block is free.
LEMMA AllocIs ==
    ASSUME NEW f \in FileStates, f.free # {}, NEW b \in Logical
    PROVE  LET g == BmapAlloc(f, b) IN
           /\ g \in FileStates /\ g.physblock \in f.free
           /\ SamePlace(f, g) /\ g.buf = f.buf /\ g.valid = f.valid /\ g.dirty = f.dirty /\ g.ret = f.ret
           /\ g.inode.uninit = f.inode.uninit /\ g.inode.map = [f.inode.map EXCEPT ![b] = g.physblock]
           /\ g.free = f.free \ {g.physblock} /\ g.disk = [f.disk EXCEPT ![g.physblock] = Zeros]
<1> DEFINE p == Min(f.free)
           node == [f.inode EXCEPT !.map = [f.inode.map EXCEPT ![b] = p]]
           g == [f EXCEPT !.inode = node, !.free = f.free \ {p}, !.disk = [f.disk EXCEPT ![p] = Zeros], !.physblock = p]
<1>a. Physical \subseteq Nat
  BY FileConstants DEF Physical
<1>b. f.free \subseteq Physical
  BY FileFields
<1>1. f.free \subseteq Nat /\ f.free \subseteq Physical
  BY <1>a, <1>b
<1>2. p \in f.free /\ p \in Physical
  BY <1>1, MinIs
<1>3. BmapAlloc(f, b) = g
  BY DEF BmapAlloc
<1> HIDE DEF p
<1>4. node \in FileInodes /\ node.size = f.inode.size /\ node.uninit = f.inode.uninit /\ node.map = [f.inode.map EXCEPT ![b] = p]
  BY <1>2, FileFields DEF FileInodes
<1>5. Zeros \in [Offsets -> CellSet]
  BY DEF Zeros, CellSet
<1>6. [f.disk EXCEPT ![p] = Zeros] \in [Physical -> [Offsets -> CellSet]] /\ f.free \ {p} \subseteq Physical
  BY <1>1, <1>2, <1>5, FileFields
<1> HIDE DEF node
<1>7. g \in FileStates /\ g.inode = node
  BY <1>2, <1>4, <1>6 DEF FileStates
<1>8. /\ g.open = f.open /\ g.pos = f.pos /\ g.blockno = f.blockno /\ g.buf = f.buf /\ g.valid = f.valid
      /\ g.dirty = f.dirty /\ g.ret = f.ret /\ g.physblock = p
      /\ g.free = f.free \ {p} /\ g.disk = [f.disk EXCEPT ![p] = Zeros]
  BY DEF FileStates
<1> HIDE DEF g
<1> QED BY <1>2, <1>3, <1>4, <1>7, <1>8 DEF SamePlace

\* A new block changes no other, and is found where it was put.
LEMMA AllocKeeps ==
    ASSUME NEW f \in FileStates, Mapped(f), f.free # {}, NEW b \in Logical, f.inode.map[b] = 0
    PROVE  LET g == BmapAlloc(f, b) IN
           /\ Mapped(g) /\ g.physblock \in Physical /\ g.physblock # 0 /\ g.inode.map[b] = g.physblock
           /\ \A i \in FileCells : i \div Cells # b => OnDisk(g, i) = OnDisk(f, i)
<1> DEFINE g == BmapAlloc(f, b)
<1>1. /\ g \in FileStates /\ g.physblock \in f.free
      /\ g.inode.uninit = f.inode.uninit /\ g.inode.map = [f.inode.map EXCEPT ![b] = g.physblock]
      /\ g.free = f.free \ {g.physblock} /\ g.disk = [f.disk EXCEPT ![g.physblock] = Zeros]
  BY AllocIs
<1> HIDE DEF g
<1>2. /\ f.inode.map \in [Logical -> Physical \cup {0}] /\ f.free \subseteq Physical
      /\ f.disk \in [Physical -> [Offsets -> CellSet]]
  BY FileFields
<1>3. g.physblock \in Physical /\ g.physblock # 0
  <2>1. 0 \notin Physical
    BY DEF Physical
  <2> QED BY <1>1, <1>2, <2>1
<1>4. g.inode.map[b] = g.physblock /\ \A c \in Logical : c # b => g.inode.map[c] = f.inode.map[c]
  BY <1>1, <1>2
<1>5. Mapped(g)
  BY <1>1, <1>2, <1>3, <1>4 DEF Mapped
<1>6. ASSUME NEW i \in FileCells, i \div Cells # b PROVE OnDisk(g, i) = OnDisk(f, i)
  <2> DEFINE c == i \div Cells
  <2>1. c \in Logical /\ c # b
    BY <1>6, CellBlock
  <2>2. g.inode.map[c] = f.inode.map[c] /\ f.inode.map[c] # g.physblock /\ f.inode.map[c] \in Physical \cup {0}
    BY <1>1, <1>2, <1>4, <2>1 DEF Mapped
  <2>3. f.inode.map[c] # 0 => g.disk[f.inode.map[c]] = f.disk[f.inode.map[c]]
    BY <1>1, <1>2, <2>2
  <2> QED BY <1>1, <2>2, <2>3 DEF OnDisk
<1> QED BY <1>3, <1>4, <1>5, <1>6 DEF g

\* The failure of it.
LEMMA NoSpaceIs ==
    ASSUME NEW f \in FileStates, f.free = {}, NEW b
    PROVE  LET g == BmapAlloc(f, b) IN
           /\ g \in FileStates /\ SamePlace(f, g) /\ g.buf = f.buf /\ g.valid = f.valid /\ g.dirty = f.dirty
           /\ g.physblock = f.physblock /\ g.inode = f.inode /\ g.free = f.free /\ g.disk = f.disk /\ Failed(g)
BY DEF BmapAlloc, FileStates, SamePlace, Failed

\* The position, the size and the error code may change, and what is expected may grow.
LEMMA SoundSame ==
    ASSUME NEW f, NEW C, FileSound(f, C), NEW g \in FileStates, g.blockno = f.blockno,
           g.physblock = f.physblock, g.buf = f.buf, g.valid = f.valid, g.dirty = f.dirty,
           g.inode.map = f.inode.map, g.inode.uninit = f.inode.uninit, g.free = f.free, g.disk = f.disk,
           NEW D, \A i \in FileCells : C[i] \subseteq D[i]
    PROVE  FileSound(g, D)
<1>1. Mapped(g) /\ AtItsBlock(g)
  BY DEF FileSound, Mapped, AtItsBlock
<1>2. \A i \in FileCells : OnDisk(g, i) = OnDisk(f, i)
  BY DEF OnDisk
<1>3. \A b : Ahead(g, b) <=> Ahead(f, b)
  BY DEF Ahead
<1>4. Shows(g, D)
  BY <1>2, <1>3 DEF Shows, FileSound
<1> QED BY <1>1, <1>4 DEF FileSound

\* The buffer reaches its block of the disk.
LEMMA BufferWritten ==
    ASSUME NEW f, NEW C, f \in FileStates, Mapped(f), f.valid, f.blockno \in Logical,
           f.physblock # 0, f.physblock = f.inode.map[f.blockno],
           \A i \in FileCells : i \div Cells = f.blockno \/ OnDisk(f, i) \in C[i],
           \A i \in FileCells : i \div Cells = f.blockno => f.buf[i % Cells] \in C[i],
           NEW g \in FileStates, SamePlace(f, g), g.physblock = f.physblock, g.buf = f.buf, g.valid = f.valid,
           ~g.dirty, g.inode.map = f.inode.map, g.free = f.free,
           g.inode.uninit = f.inode.uninit \ {f.blockno},
           g.disk = [f.disk EXCEPT ![f.physblock] = f.buf]
    PROVE  FileSound(g, C)
<1>1. f.physblock \in Physical /\ f.disk \in [Physical -> [Offsets -> CellSet]] /\ f.inode.map \in [Logical -> Physical \cup {0}]
  BY FileFields
<1>2. Mapped(g)
  BY DEF Mapped
<1>3. AtItsBlock(g)
  BY DEF AtItsBlock, SamePlace
<1>4. ASSUME NEW i \in FileCells PROVE OnDisk(g, i) \in C[i]
  <2> DEFINE b == i \div Cells
  <2>0. b \in Logical
    BY CellBlock
  <2>1. CASE b = f.blockno
    <3>1. OnDisk(g, i) = f.buf[i % Cells]
      BY <1>1, <2>1 DEF OnDisk
    <3> QED BY <2>1, <3>1
  <2>2. CASE b # f.blockno
    <3>1. f.inode.map[b] # 0 => f.inode.map[b] # f.physblock /\ f.inode.map[b] \in Physical
      BY <1>1, <2>0, <2>2 DEF Mapped
    <3>2. b \in g.inode.uninit <=> b \in f.inode.uninit
      BY <2>2
    <3>3. OnDisk(g, i) = OnDisk(f, i)
      BY <1>1, <3>1, <3>2 DEF OnDisk
    <3> QED BY <2>2, <3>3
  <2> QED BY <2>1, <2>2
<1>5. Shows(g, C)
  BY <1>4 DEF Shows, SamePlace
<1> QED BY <1>2, <1>3, <1>5 DEF FileSound

\* ext2fs_file_flush changes nothing a reader sees; if it succeeds nothing is dirty.
LEMMA FlushIs ==
    ASSUME NEW f, NEW C, FileSound(f, C), f.ret = "ok"
    PROVE  LET g == ext2fs_file_flush(f) IN
           /\ FileSound(g, C) /\ SamePlace(f, g) /\ g.buf = f.buf /\ g.valid = f.valid
           /\ ~Failed(g) => ~g.dirty
           /\ \A b : ~Ahead(g, b)
           /\ ~f.dirty => g = f
<1> DEFINE g == ext2fs_file_flush(f)
<1>0. f \in FileStates /\ Mapped(f) /\ AtItsBlock(f) /\ Shows(f, C)
  BY DEF FileSound
<1>1. CASE ~f.valid \/ ~f.dirty
  <2>1. g = f
    BY <1>1 DEF ext2fs_file_flush
  <2> QED BY <1>0, <1>1, <2>1 DEF AtItsBlock, SamePlace, Ahead
<1>2. CASE f.valid /\ f.dirty /\ f.physblock # 0
  <2> DEFINE node == [f.inode EXCEPT !.uninit = f.inode.uninit \ {f.blockno}]
             h == [f EXCEPT !.inode = node, !.disk = [f.disk EXCEPT ![f.physblock] = f.buf], !.dirty = FALSE]
  <2>1. g = h
    <3>1. CASE f.blockno \in f.inode.uninit
      <4> DEFINE f1 == BmapSet(f, f.blockno)
      <4>1. f1 = [f EXCEPT !.inode = node]
        BY DEF BmapSet
      <4>2. f1.physblock = f.physblock /\ f1.ret = f.ret /\ f1.buf = f.buf /\ f1.disk = f.disk
        BY <1>0, <4>1 DEF FileStates
      <4>3. g = [f1 EXCEPT !.disk[f1.physblock] = f1.buf, !.dirty = FALSE]
        BY <1>2, <3>1, <4>2 DEF ext2fs_file_flush, WithBlock, Failed
      <4> HIDE DEF node
      <4> QED BY <1>0, <4>1, <4>2, <4>3 DEF FileStates
    <3>2. CASE f.blockno \notin f.inode.uninit
      <4>1. g = [f EXCEPT !.disk[f.physblock] = f.buf, !.dirty = FALSE]
        BY <1>2, <3>2 DEF ext2fs_file_flush, WithBlock, Failed
      <4>2. f.inode.uninit \ {f.blockno} = f.inode.uninit
        BY <3>2
      <4>3. node = f.inode
        BY <1>0, <4>2, FileFields DEF FileInodes
      <4> HIDE DEF node
      <4> QED BY <1>0, <4>1, <4>3 DEF FileStates
    <3> QED BY <3>1, <3>2
  <2>2. f.physblock \in Physical /\ f.buf \in [Offsets -> CellSet] /\ f.disk \in [Physical -> [Offsets -> CellSet]]
    BY <1>0, <1>2, FileFields
  <2>3. node \in FileInodes /\ node.size = f.inode.size /\ node.map = f.inode.map /\ node.uninit = f.inode.uninit \ {f.blockno}
    BY <1>0, FileFields DEF FileInodes
  <2> HIDE DEF node
  <2>4. /\ h \in FileStates /\ h.inode = node /\ h.disk = [f.disk EXCEPT ![f.physblock] = f.buf] /\ ~h.dirty
        /\ h.open = f.open /\ h.pos = f.pos /\ h.blockno = f.blockno /\ h.physblock = f.physblock /\ h.buf = f.buf
        /\ h.valid = f.valid /\ h.free = f.free
    BY <1>0, <2>2, <2>3 DEF FileStates
  <2> HIDE DEF h, g
  <2>5. SamePlace(f, h)
    BY <2>3, <2>4 DEF SamePlace
  <2>6. f.blockno \in Logical /\ f.physblock = f.inode.map[f.blockno]
    BY <1>0, <1>2 DEF AtItsBlock
  <2>7. /\ \A i \in FileCells : i \div Cells = f.blockno \/ OnDisk(f, i) \in C[i]
        /\ \A i \in FileCells : i \div Cells = f.blockno => f.buf[i % Cells] \in C[i]
    BY <1>0, <1>2 DEF Shows, Ahead
  <2>8. FileSound(h, C)
    BY <1>0, <1>2, <2>3, <2>4, <2>5, <2>6, <2>7, BufferWritten
  <2> QED BY <1>2, <2>1, <2>4, <2>5, <2>8 DEF g, Ahead
<1>3. CASE f.valid /\ f.dirty /\ f.physblock = 0
  <2>0. f.blockno \in Logical /\ f.inode.map[f.blockno] = 0
    BY <1>0, <1>3 DEF AtItsBlock
  <2> DEFINE h == BmapAlloc(f, f.blockno)
  <2>1. g = IF Failed(h) THEN h ELSE [h EXCEPT !.disk[h.physblock] = h.buf, !.dirty = FALSE]
    BY <1>3 DEF ext2fs_file_flush, WithBlock
  <2> HIDE DEF g
  <2>2. CASE f.free = {}
    <3>1. /\ h \in FileStates /\ SamePlace(f, h) /\ h.buf = f.buf /\ h.valid = f.valid /\ h.dirty = f.dirty
          /\ h.physblock = f.physblock /\ h.inode = f.inode /\ h.free = f.free /\ h.disk = f.disk /\ Failed(h)
      BY <1>0, <2>2, NoSpaceIs
    <3> HIDE DEF h
    <3>2. FileSound(h, C)
      BY <3>1, SoundSame DEF SamePlace
    <3> QED BY <1>3, <2>1, <3>1, <3>2 DEF g, Ahead
  <2>3. CASE f.free # {}
    <3>1. /\ h \in FileStates /\ h.physblock \in f.free
          /\ SamePlace(f, h) /\ h.buf = f.buf /\ h.valid = f.valid /\ h.dirty = f.dirty /\ h.ret = f.ret
          /\ h.inode.uninit = f.inode.uninit /\ h.inode.map = [f.inode.map EXCEPT ![f.blockno] = h.physblock]
          /\ h.free = f.free \ {h.physblock} /\ h.disk = [f.disk EXCEPT ![h.physblock] = Zeros]
      BY <1>0, <2>0, <2>3, AllocIs
    <3>a. /\ Mapped(h) /\ h.physblock \in Physical /\ h.physblock # 0 /\ h.inode.map[f.blockno] = h.physblock
          /\ \A i \in FileCells : i \div Cells # f.blockno => OnDisk(h, i) = OnDisk(f, i)
      BY <1>0, <2>0, <2>3, AllocKeeps
    <3> HIDE DEF h
    <3> DEFINE k == [h EXCEPT !.disk = [h.disk EXCEPT ![h.physblock] = h.buf], !.dirty = FALSE]
    <3>2. g = k
      BY <2>1, <3>1 DEF Failed
    <3>3. h.buf \in [Offsets -> CellSet] /\ h.disk \in [Physical -> [Offsets -> CellSet]]
      BY <3>1, FileFields
    <3>4. /\ k \in FileStates /\ k.inode = h.inode /\ k.disk = [h.disk EXCEPT ![h.physblock] = h.buf] /\ ~k.dirty
          /\ k.open = h.open /\ k.pos = h.pos /\ k.blockno = h.blockno /\ k.physblock = h.physblock /\ k.buf = h.buf
          /\ k.valid = h.valid /\ k.free = h.free
      BY <3>1, <3>a, <3>3 DEF FileStates
    <3> HIDE DEF k
    <3>5. SamePlace(h, k) /\ SamePlace(f, k)
      BY <3>1, <3>4 DEF SamePlace
    <3>6. h.blockno = f.blockno
      BY <3>1 DEF SamePlace
    <3>9. \A i \in FileCells : i \div Cells = f.blockno \/ OnDisk(h, i) \in C[i]
      BY <1>0, <1>3, <3>a DEF Shows, Ahead
    <3>10. \A i \in FileCells : i \div Cells = h.blockno => h.buf[i % Cells] \in C[i]
      BY <1>0, <1>3, <3>1, <3>6 DEF Shows
    <3>11. f.blockno \notin h.inode.uninit
      BY <1>0, <2>0, <3>1 DEF Mapped
    <3>12. h.inode.uninit \ {h.blockno} = h.inode.uninit
      BY <3>6, <3>11
    <3>13. FileSound(k, C)
      <4>1. h.valid /\ h.blockno \in Logical /\ h.physblock = h.inode.map[h.blockno]
        BY <1>3, <2>0, <3>1, <3>a, <3>6
      <4>2. \A i \in FileCells : i \div Cells = h.blockno \/ OnDisk(h, i) \in C[i]
        BY <3>6, <3>9
      <4>3. /\ k.inode.map = h.inode.map /\ k.inode.uninit = h.inode.uninit \ {h.blockno}
            /\ k.disk = [h.disk EXCEPT ![h.physblock] = h.buf]
        BY <3>4, <3>12
      <4> QED BY <3>1, <3>a, <3>4, <3>5, <3>10, <4>1, <4>2, <4>3, BufferWritten
    <3> QED BY <1>3, <3>1, <3>2, <3>4, <3>5, <3>13 DEF g, Ahead
  <2> QED BY <2>2, <2>3
<1>4. f.physblock = 0 \/ f.physblock # 0
  OBVIOUS
<1> QED BY <1>1, <1>2, <1>3, <1>4

\* The buffer is dropped when nothing in it is newer than the disk.
LEMMA Dropped ==
    ASSUME NEW f, NEW C, FileSound(f, C), \A b : ~Ahead(f, b), NEW g \in FileStates,
           ~g.valid, ~g.dirty, g.inode.map = f.inode.map, g.inode.uninit = f.inode.uninit,
           g.free = f.free, g.disk = f.disk
    PROVE  FileSound(g, C)
<1>1. Mapped(g) /\ AtItsBlock(g)
  BY DEF FileSound, Mapped, AtItsBlock
<1>2. \A i \in FileCells : OnDisk(g, i) = OnDisk(f, i)
  BY DEF OnDisk
<1>3. Shows(g, C)
  BY <1>2 DEF Shows, FileSound
<1> QED BY <1>1, <1>3 DEF FileSound

\* sync_buffer_position brings the buffer to the block of the position.
LEMMA SyncIs ==
    ASSUME NEW f, NEW C, FileSound(f, C), f.ret = "ok"
    PROVE  LET g == sync_buffer_position(f) IN
           /\ FileSound(g, C) /\ g.open = f.open /\ g.pos = f.pos /\ g.inode.size = f.inode.size
           /\ ~Failed(g) => g.blockno = f.pos \div Cells
           /\ ~f.dirty => ~Failed(g)
           /\ ~f.valid => ~g.valid
<1> DEFINE g == sync_buffer_position(f)
           h == ext2fs_file_flush(f)
           b == f.pos \div Cells
           k == [Invalid(h) EXCEPT !.blockno = b]
<1>1. /\ FileSound(h, C) /\ SamePlace(f, h) /\ h.buf = f.buf /\ h.valid = f.valid
      /\ ~Failed(h) => ~h.dirty
      /\ \A c : ~Ahead(h, c)
      /\ ~f.dirty => h = f
  BY FlushIs
<1>2. g = IF b = f.blockno THEN f ELSE IF Failed(h) THEN h ELSE k
  BY DEF sync_buffer_position
<1>3. b \in Nat
  BY FileFields, Divided DEF FileSound
<1> HIDE DEF g, b, h
<1>4. CASE b = f.blockno
  <2>1. g = f
    BY <1>2, <1>4
  <2> QED BY <1>4, <2>1 DEF b, g, Failed
<1>5. CASE b # f.blockno /\ Failed(h)
  <2>1. g = h
    BY <1>2, <1>5
  <2>2. f.dirty
    BY <1>1, <1>5 DEF Failed
  <2>3. f.valid
    BY <2>2 DEF FileSound, AtItsBlock
  <2> QED BY <1>1, <1>5, <2>1, <2>2, <2>3 DEF g, SamePlace
<1>6. CASE b # f.blockno /\ ~Failed(h)
  <2>1. g = k /\ h \in FileStates /\ ~h.dirty /\ h.ret = "ok"
    BY <1>1, <1>2, <1>6 DEF FileSound, Failed
  <2>2. Zeros \in [Offsets -> CellSet]
    BY DEF Zeros, CellSet
  <2>3. /\ k \in FileStates /\ ~k.valid /\ ~k.dirty /\ k.inode = h.inode /\ k.free = h.free /\ k.disk = h.disk
        /\ k.open = h.open /\ k.pos = h.pos /\ k.blockno = b /\ k.ret = h.ret
    BY <1>3, <2>1, <2>2 DEF FileStates, Invalid
  <2> HIDE DEF k
  <2>4. FileSound(k, C)
    BY <1>1, <2>3, Dropped
  <2> QED BY <1>1, <2>1, <2>3, <2>4 DEF g, b, SamePlace, Failed
<1> QED BY <1>4, <1>5, <1>6

\* load_buffer, when it is not told to leave the buffer as it is.
LEMMA LoadIs ==
    ASSUME NEW f, NEW C, FileSound(f, C), f.blockno \in Logical
    PROVE  LET g == load_buffer(f, FALSE) IN
           /\ FileSound(g, C) /\ SamePlace(f, g) /\ g.valid /\ g.ret = f.ret
           /\ g.inode = f.inode /\ g.free = f.free /\ g.disk = f.disk
<1> DEFINE g == load_buffer(f, FALSE)
           p == f.inode.map[f.blockno]
           read == IF p # 0 /\ f.blockno \notin f.inode.uninit THEN f.disk[p] ELSE Zeros
           h == [f EXCEPT !.physblock = p, !.valid = TRUE, !.buf = read]
<1>0. f \in FileStates /\ Mapped(f) /\ AtItsBlock(f) /\ Shows(f, C)
  BY DEF FileSound
<1>1. CASE f.valid
  <2>1. g = f
    BY <1>1 DEF load_buffer
  <2> QED BY <1>1, <2>1 DEF g, SamePlace
<1>2. CASE ~f.valid
  <2>1. g = h
    BY <1>2 DEF load_buffer, FileBmap
  <2>2. p \in Physical \cup {0} /\ f.disk \in [Physical -> [Offsets -> CellSet]]
    BY <1>0, FileFields
  <2>3. read \in [Offsets -> CellSet] /\ Zeros \in [Offsets -> CellSet]
    <3>1. Zeros \in [Offsets -> CellSet]
      BY DEF Zeros, CellSet
    <3> QED BY <2>2, <3>1
  <2>4. ~f.dirty
    BY <1>0, <1>2 DEF AtItsBlock
  <2>5. ASSUME NEW i \in FileCells, i \div Cells = f.blockno PROVE read[i % Cells] = OnDisk(f, i)
    <3>1. i % Cells \in Offsets
      BY CellBlock
    <3>2. Zeros[i % Cells] = 0
      BY <3>1 DEF Zeros
    <3> QED BY <2>5, <3>2 DEF OnDisk
  <2> HIDE DEF g, p, read
  <2>6. /\ h \in FileStates /\ h.physblock = p /\ h.valid /\ h.buf = read /\ ~h.dirty /\ h.inode = f.inode
        /\ h.free = f.free /\ h.disk = f.disk /\ h.open = f.open /\ h.pos = f.pos /\ h.blockno = f.blockno /\ h.ret = f.ret
    BY <1>0, <2>2, <2>3, <2>4 DEF FileStates
  <2> HIDE DEF h
  <2>7. Mapped(h) /\ AtItsBlock(h)
    BY <1>0, <2>6 DEF Mapped, AtItsBlock, p
  <2>8. \A i \in FileCells : OnDisk(h, i) = OnDisk(f, i) /\ OnDisk(f, i) \in C[i]
    BY <1>0, <2>4, <2>6 DEF OnDisk, Shows, Ahead
  <2>9. Shows(h, C)
    BY <2>5, <2>6, <2>8 DEF Shows
  <2> QED BY <2>1, <2>6, <2>7, <2>9 DEF FileSound, SamePlace, g
<1> QED BY <1>1, <1>2

\* One round of a read.
LEMMA ReadBlockIs ==
    ASSUME NEW f, NEW C, FileSound(f, C), f.ret = "ok", NEW wanted \in Nat, f.pos < f.inode.size
    PROVE  LET g == ReadBlock(f, wanted) IN
           FileSound(g, C) /\ g.open = f.open /\ g.inode.size = f.inode.size
<1> DEFINE g == ReadBlock(f, wanted)
           h == sync_buffer_position(f)
           k == load_buffer(h, FALSE)
           T == {Cells - (f.pos % Cells), wanted, f.inode.size - f.pos}
           c == Min(T)
<1>0. f.pos \in Nat /\ f.inode.size \in Nat /\ f.inode.size <= MaxSize /\ MaxSize \in Nat /\ Cells \in Nat
  <2>1. f \in FileStates /\ MaxSize \in Nat /\ Cells \in Nat
    BY FileConstants DEF FileSound
  <2>2. f.pos \in Nat /\ f.inode.size \in 0 .. MaxSize
    BY <2>1, FileFields
  <2> QED BY <2>1, <2>2
<1>1. /\ FileSound(h, C) /\ h.open = f.open /\ h.pos = f.pos /\ h.inode.size = f.inode.size
      /\ ~Failed(h) => h.blockno = f.pos \div Cells
  BY SyncIs
<1>2. g = IF Failed(h) THEN h ELSE [k EXCEPT !.pos = @ + c]
  BY DEF ReadBlock
<1>3. c \in Nat
  <2>1. f.pos % Cells \in Offsets
    BY <1>0, Divided
  <2>2. T \subseteq Nat
    BY <1>0, <2>1 DEF Offsets
  <2> HIDE DEF T
  <2>3. T # {}
    BY DEF T
  <2> QED BY <2>2, <2>3, MinIs
<1> HIDE DEF g, h, c
<1>4. CASE Failed(h)
  BY <1>1, <1>2, <1>4 DEF g
<1>5. CASE ~Failed(h)
  <2>1. f.pos \in FileCells
    BY <1>0, FileConstants
  <2>2. h.blockno \in Logical
    BY <1>1, <1>5, <2>1, CellBlock
  <2>3. FileSound(k, C) /\ SamePlace(h, k)
    BY <1>1, <2>2, LoadIs
  <2> HIDE DEF k
  <2> DEFINE q == k.pos + c
             m == [k EXCEPT !.pos = q]
  <2>4. k \in FileStates /\ q \in Nat
    <3>1. k \in FileStates
      BY <2>3 DEF FileSound
    <3>2. k.pos \in Nat
      BY <3>1, FileFields
    <3> QED BY <1>3, <3>1, <3>2
  <2>7. g = m
    BY <1>2, <1>5 DEF m
  <2> HIDE DEF q
  <2>5. /\ m \in FileStates /\ m.open = k.open /\ m.inode = k.inode /\ m.blockno = k.blockno /\ m.physblock = k.physblock
        /\ m.buf = k.buf /\ m.valid = k.valid /\ m.dirty = k.dirty /\ m.free = k.free /\ m.disk = k.disk
    BY <2>4 DEF FileStates
  <2> HIDE DEF m
  <2>6. FileSound(m, C)
    BY <2>3, <2>5, SoundSame
  <2> QED BY <1>1, <2>3, <2>5, <2>6, <2>7 DEF g, SamePlace
<1> QED BY <1>4, <1>5

\* A loop of N rounds from x, each of which stays in S.
Rounds(h, S, x, step, N) ==
    h \in [0 .. N -> S] /\ h[0] = x /\ \A n \in 1 .. N : h[n] = step[h[n - 1]]

LEMMA LoopExists ==
    ASSUME NEW S, NEW x \in S, NEW step \in [S -> S], NEW N \in Nat
    PROVE  \E h : Rounds(h, S, x, step, N)
<1> DEFINE Goes(h, m) == h[0] = x /\ \A n \in 1 .. m : h[n] = step[h[n - 1]]
           good == {m \in Nat : \E h \in [0 .. m -> S] : Goes(h, m)}
<1>1. 0 \in good
  <2> DEFINE h == [n \in 0 .. 0 |-> x]
  <2>1. h \in [0 .. 0 -> S] /\ Goes(h, 0)
    OBVIOUS
  <2> HIDE DEF h, Goes
  <2> QED BY <2>1
<1>2. ASSUME NEW m \in Nat, m \in good PROVE m + 1 \in good
  <2>1. PICK h \in [0 .. m -> S] : Goes(h, m)
    BY <1>2
  <2> DEFINE k == [n \in 0 .. m + 1 |-> IF n = m + 1 THEN step[h[m]] ELSE h[n]]
  <2>2. k \in [0 .. m + 1 -> S]
    OBVIOUS
  <2>3. k[0] = x
    BY <2>1
  <2>4. ASSUME NEW n \in 1 .. m + 1 PROVE k[n] = step[k[n - 1]]
    <3>1. k[n - 1] = h[n - 1]
      OBVIOUS
    <3>2. CASE n = m + 1
      BY <3>1, <3>2
    <3>3. CASE n # m + 1
      <4>1. n \in 1 .. m
        BY <3>3
      <4> QED BY <2>1, <3>1, <3>3, <4>1
    <3> QED BY <3>2, <3>3
  <2>5. Goes(k, m + 1)
    BY <2>3, <2>4
  <2> HIDE DEF k, Goes
  <2> QED BY <2>2, <2>5
<1> HIDE DEF good
<1>3. Nat \subseteq good
  BY <1>1, <1>2, SetInduction
<1> QED BY <1>3 DEF good, Rounds

\* What every round keeps holds at the end.
LEMMA LoopKeeps ==
    ASSUME NEW S, NEW N \in Nat, NEW h, h[0] \in S, \A n \in 1 .. N : h[n - 1] \in S => h[n] \in S
    PROVE  h[N] \in S
<1> DEFINE good == {m \in Nat : m <= N => h[m] \in S}
<1>1. 0 \in good
  OBVIOUS
<1>2. ASSUME NEW m \in Nat, m \in good PROVE m + 1 \in good
  <2> SUFFICES ASSUME m + 1 <= N PROVE h[m + 1] \in S
    OBVIOUS
  <2>1. m + 1 \in 1 .. N /\ (m + 1) - 1 = m /\ m <= N
    OBVIOUS
  <2> QED BY <1>2, <2>1
<1> HIDE DEF good
<1>3. Nat \subseteq good
  BY <1>1, <1>2, SetInduction
<1> QED BY <1>3 DEF good

\* The loop of ext2fs_file_read.
ReadRound(g, end) == IF Failed(g) \/ g.pos >= end THEN g ELSE ReadBlock(g, end - g.pos)
IsReading(a, f, end) ==
    a = [n \in 0 .. FileBlocks + 1 |-> IF n = 0 THEN f ELSE ReadRound(a[n - 1], end)]

\* ext2fs_file_read changes nothing that a reader sees.
LEMMA ReadIs ==
    ASSUME NEW f, NEW C, FileSound(f, C), f.ret = "ok", NEW wanted \in Nat
    PROVE  LET g == ext2fs_file_read(f, wanted) IN
           FileSound(g, C) /\ g.open = f.open /\ g.inode.size = f.inode.size
<1> DEFINE end == Min({f.pos + wanted, f.inode.size})
           N == FileBlocks + 1
           S == {g \in FileStates : FileSound(g, C) /\ g.open = f.open /\ g.inode.size = f.inode.size}
           a == CHOOSE h : IsReading(h, f, end)
<1>0. f \in FileStates /\ N \in Nat /\ f.pos \in Nat /\ f.inode.size \in Nat
  <2>1. f \in FileStates /\ FileBlocks \in Nat /\ MaxSize \in Nat
    BY FileConstants DEF FileSound
  <2>2. f.pos \in Nat /\ f.inode.size \in 0 .. MaxSize
    BY <2>1, FileFields
  <2> QED BY <2>1, <2>2
<1>1. ext2fs_file_read(f, wanted) = a[N]
  BY DEF ext2fs_file_read, IsReading, ReadRound
<1>2. end \in Nat /\ end <= f.inode.size
  <2> DEFINE T == {f.pos + wanted, f.inode.size}
  <2>1. T \subseteq Nat /\ f.inode.size \in T
    BY <1>0
  <2> HIDE DEF T
  <2>2. Min(T) \in Nat /\ Min(T) <= f.inode.size
    BY <2>1, MinIs
  <2> QED BY <2>2 DEF T
<1> HIDE DEF end
<1>3. ASSUME NEW g \in S PROVE ReadRound(g, end) \in S
  <2>1. CASE Failed(g) \/ g.pos >= end
    BY <2>1 DEF ReadRound
  <2>2. CASE ~(Failed(g) \/ g.pos >= end)
    <3>1. g.ret = "ok" /\ g.pos \in Nat /\ FileSound(g, C) /\ g.inode.size = f.inode.size /\ g.open = f.open
      BY <2>2, FileFields DEF Failed
    <3>2. end - g.pos \in Nat /\ g.pos < g.inode.size
      BY <1>0, <1>2, <2>2, <3>1
    <3> DEFINE k == ReadBlock(g, end - g.pos)
    <3>3. FileSound(k, C) /\ k.open = g.open /\ k.inode.size = g.inode.size
      BY <3>1, <3>2, ReadBlockIs
    <3>4. ReadRound(g, end) = k
      BY <2>2 DEF ReadRound
    <3> HIDE DEF k
    <3> QED BY <3>1, <3>3, <3>4 DEF FileSound
  <2> QED BY <2>1, <2>2
<1> DEFINE step == [g \in S |-> ReadRound(g, end)]
<1>4. step \in [S -> S] /\ \A g \in S : step[g] = ReadRound(g, end)
  BY <1>3
<1>5. f \in S
  BY <1>0
<1> HIDE DEF S, step, N
<1>a. PICK h : Rounds(h, S, f, step, N)
  <2>1. N \in Nat /\ step \in [S -> S]
    BY <1>0, <1>4
  <2> QED BY <1>5, <2>1, LoopExists
<1>6. h \in [0 .. N -> S] /\ h[0] = f /\ \A n \in 1 .. N : h[n] = step[h[n - 1]]
  BY <1>a DEF Rounds
<1>7. IsReading(h, f, end)
  <2> DEFINE B(n) == IF n = 0 THEN f ELSE ReadRound(h[n - 1], end)
  <2>1. ASSUME NEW n \in 0 .. N PROVE h[n] = B(n)
    <3>1. CASE n = 0
      BY <1>6, <3>1
    <3>2. CASE n # 0
      <4>1. n \in 1 .. N /\ n - 1 \in 0 .. N
        BY <1>0, <3>2
      <4>2. h[n - 1] \in S
        BY <1>6, <4>1
      <4> QED BY <1>4, <1>6, <3>2, <4>1, <4>2
    <3> QED BY <3>1, <3>2
  <2> HIDE DEF B
  <2>2. h = [n \in 0 .. N |-> B(n)]
    BY <1>6, <2>1
  <2> QED BY <2>2 DEF B, IsReading, N
<1>8. IsReading(a, f, end)
  <2>1. \E x : IsReading(x, f, end)
    BY <1>7
  <2> QED BY <2>1, Zenon
<1> HIDE DEF a
<1>9. a[0] = f /\ \A n \in 1 .. N : a[n] = ReadRound(a[n - 1], end)
  <2> DEFINE B(n) == IF n = 0 THEN f ELSE ReadRound(a[n - 1], end)
  <2>1. a = [n \in 0 .. N |-> B(n)]
    BY <1>8 DEF IsReading, N
  <2> HIDE DEF B
  <2>2. \A n \in 0 .. N : a[n] = B(n)
    BY <2>1
  <2>3. 0 \in 0 .. N /\ \A n \in 1 .. N : n \in 0 .. N /\ n # 0
    BY <1>0
  <2>4. B(0) = f /\ \A n \in 1 .. N : B(n) = ReadRound(a[n - 1], end)
    BY <2>3 DEF B
  <2> QED BY <2>2, <2>3, <2>4
<1>10. a[N] \in S
  BY <1>0, <1>3, <1>5, <1>9, LoopKeeps
<1> QED BY <1>1, <1>10 DEF S

\* Division by the number of cells, once more: it is monotonic, and the next block.
LEMMA DivGrows ==
    ASSUME NEW i \in Nat, NEW j \in Nat, i <= j
    PROVE  i \div Cells <= j \div Cells
<1> DEFINE a == i \div Cells
           b == j \div Cells
           r == i % Cells
           s == j % Cells
<1>1. Cells \in Nat /\ a \in Nat /\ b \in Nat /\ r \in Offsets /\ s \in Offsets
  BY Divided, FileConstants
<1>2. b < a => j + Cells - s + r <= i
  BY SameBlock
<1> HIDE DEF a, b, r, s
<1>3. a <= b
  BY <1>1, <1>2 DEF Offsets
<1> QED BY <1>3 DEF a, b

LEMMA NextBlock ==
    ASSUME NEW i \in Nat
    PROVE  (i + Cells) \div Cells = (i \div Cells) + 1
<1>1. Cells \in Nat \ {0}
  BY FileConstants
<1>2. ASSUME NEW d \in Nat \ {0} PROVE (i + d) \div d = (i \div d) + 1
  OBVIOUS
<1> QED BY <1>1, <1>2

\* The blocks of a file of that size: all of its cells, and behind its end only those of
\* its last block.
LEMMA BlocksForIs ==
    ASSUME NEW size \in Nat
    PROVE  /\ BlocksFor(size) \in Nat
           /\ \A i \in Nat : i < size => i \div Cells < BlocksFor(size)
           /\ \A i \in Nat : i >= size =>
                 \/ i \div Cells >= BlocksFor(size)
                 \/ size % Cells # 0 /\ i \div Cells = size \div Cells
           /\ \A old \in Nat : old <= size => BlocksFor(old) <= BlocksFor(size)
<1>0. Cells \in Nat /\ Cells > 0
  BY FileConstants
<1>1. ASSUME NEW n \in Nat PROVE n + Cells - 1 \in Nat /\ BlocksFor(n) \in Nat
  <2>1. n + Cells - 1 \in Nat
    BY <1>0
  <2> QED BY <2>1, Divided DEF BlocksFor
<1>2. ASSUME NEW i \in Nat, i < size PROVE i \div Cells < BlocksFor(size)
  <2>1. i + Cells \in Nat /\ size + Cells - 1 \in Nat /\ i + Cells <= size + Cells - 1
    BY <1>0, <1>2
  <2>2. (i + Cells) \div Cells <= BlocksFor(size)
    BY <2>1, DivGrows DEF BlocksFor
  <2>3. (i \div Cells) + 1 <= BlocksFor(size) /\ i \div Cells \in Nat /\ BlocksFor(size) \in Nat
    BY <1>1, <2>2, NextBlock, Divided
  <2> QED BY <2>3
<1>3. ASSUME NEW i \in Nat, i >= size, ~(i \div Cells >= BlocksFor(size))
      PROVE  size % Cells # 0 /\ i \div Cells = size \div Cells
  <2> DEFINE a == i \div Cells
             b == BlocksFor(size)
             q == size \div Cells
             r == size % Cells
  <2>1. a \in Nat /\ b \in Nat /\ q \in Nat /\ r \in Offsets /\ a < b
    BY <1>1, <1>3, Divided
  <2>2. q <= a
    BY <1>3, DivGrows
  <2>3. r # 0
    <3> SUFFICES ASSUME r = 0 PROVE FALSE
      OBVIOUS
    <3>1. size + Cells - 1 \in Nat /\ size <= size + Cells - 1 /\ size + Cells - 1 < size + Cells - 0
      BY <1>0
    <3>2. (size + Cells - 1) \div Cells = q
      BY <3>1, SameBlock
    <3>3. b = q
      BY <3>2 DEF BlocksFor
    <3> HIDE DEF a, b, q
    <3> QED BY <2>1, <2>2, <3>3
  <2>4. size - 1 \in Nat
    <3>1. CASE size = 0
      <4>1. 0 % Cells = 0
        BY <1>0
      <4> QED BY <2>3, <3>1, <4>1
    <3> QED BY <3>1
  <2> DEFINE p == (size - 1) \div Cells
             t == (size - 1) % Cells
  <2>5. p \in Nat /\ t \in Offsets /\ p <= q
    BY <2>4, Divided, DivGrows
  <2>6. p < q => (size - 1) + Cells - t + r <= size
    BY <2>4, SameBlock
  <2>7. b = p + 1
    <3>1. (size - 1) + Cells = size + Cells - 1
      BY <1>0
    <3> QED BY <2>4, <3>1, NextBlock DEF BlocksFor
  <2> HIDE DEF a, b, q, r, p, t
  <2>8. p = q
    BY <1>0, <2>1, <2>3, <2>5, <2>6 DEF Offsets
  <2>9. a = q /\ r # 0
    BY <2>1, <2>2, <2>3, <2>7, <2>8
  <2> QED BY <2>9 DEF a, q, r
<1>4. ASSUME NEW old \in Nat, old <= size PROVE BlocksFor(old) <= BlocksFor(size)
  <2>1. old + Cells - 1 \in Nat /\ size + Cells - 1 \in Nat /\ old + Cells - 1 <= size + Cells - 1
    BY <1>0, <1>4
  <2> QED BY <2>1, DivGrows DEF BlocksFor
<1> QED BY <1>1, <1>2, <1>3, <1>4

\* ext2fs_file_zero_past_offset leaves zeros behind the offset in its block, and
\* changes nothing else on the disk.
LEMMA ZeroPastIs ==
    ASSUME NEW f, NEW C, FileSound(f, C), f.ret = "ok", NEW offset \in 0 .. MaxSize,
           \A i \in FileCells : i >= offset => 0 \in C[i]
    PROVE  LET g == ext2fs_file_zero_past_offset(f, offset) IN
           /\ FileSound(g, C) /\ g.open = f.open /\ g.pos = f.pos /\ g.inode.size = f.inode.size
           /\ ~f.dirty => ~Failed(g)
           /\ ~f.valid => ~g.valid
           /\ offset % Cells # 0 /\ ~Failed(g) =>
                \A i \in FileCells : i \div Cells = offset \div Cells /\ i >= offset => OnDisk(g, i) = 0
<1> DEFINE g == ext2fs_file_zero_past_offset(f, offset)
           h == sync_buffer_position(f)
           b == offset \div Cells
           off == offset % Cells
           p == h.inode.map[b]
<1>0. offset \in Nat /\ offset <= MaxSize
  BY FileConstants
<1>1. /\ FileSound(h, C) /\ h.open = f.open /\ h.pos = f.pos /\ h.inode.size = f.inode.size
      /\ ~f.dirty => ~Failed(h)
      /\ ~f.valid => ~h.valid
  BY SyncIs
<1>2. b \in Nat /\ off \in Offsets
  BY <1>0, Divided
<1>3. g = IF off = 0 THEN f
          ELSE IF Failed(h) \/ p = 0 \/ b \in h.inode.uninit THEN h
          ELSE [h EXCEPT !.disk[p] = [o \in Offsets |-> IF o >= off THEN 0 ELSE h.disk[p][o]]]
  BY DEF ext2fs_file_zero_past_offset, FileBmap
<1> HIDE DEF g, h
<1>4. CASE off = 0
  <2>1. g = f
    BY <1>3, <1>4
  <2> QED BY <1>4, <2>1 DEF g, Failed
<1>5. CASE off # 0 /\ (Failed(h) \/ p = 0 \/ b \in h.inode.uninit)
  <2>1. g = h
    BY <1>3, <1>5
  <2>2. ASSUME ~Failed(h), NEW i \in FileCells, i \div Cells = b PROVE OnDisk(h, i) = 0
    BY <1>5, <2>2 DEF OnDisk
  <2> QED BY <1>1, <2>1, <2>2 DEF g
<1>6. CASE off # 0 /\ ~(Failed(h) \/ p = 0 \/ b \in h.inode.uninit)
  <2> DEFINE tail == [o \in Offsets |-> IF o >= off THEN 0 ELSE h.disk[p][o]]
             k == [h EXCEPT !.disk = [h.disk EXCEPT ![p] = tail]]
  <2>0. h \in FileStates /\ Mapped(h) /\ AtItsBlock(h) /\ Shows(h, C)
    BY <1>1 DEF FileSound
  <2>1. g = k
    BY <1>3, <1>6
  <2>2. h.inode.map \in [Logical -> Physical \cup {0}] /\ h.disk \in [Physical -> [Offsets -> CellSet]]
    BY <2>0, FileFields
  <2>3. b \in Logical
    <3>1. offset # MaxSize
      <4> SUFFICES ASSUME offset = MaxSize PROVE FALSE
        OBVIOUS
      <4>1. ASSUME NEW d \in Nat \ {0}, NEW n \in Nat PROVE (n * d) % d = 0
        OBVIOUS
      <4>2. Cells \in Nat \ {0} /\ FileBlocks \in Nat
        BY FileConstants
      <4>3. MaxSize % Cells = 0
        BY <4>1, <4>2 DEF MaxSize
      <4> QED BY <1>6, <4>3
    <3>2. offset \in FileCells
      BY <1>0, <3>1, FileConstants
    <3> QED BY <3>2, CellBlock
  <2>4. p \in Physical
    BY <1>6, <2>2, <2>3
  <2>5. tail \in [Offsets -> CellSet]
    BY <2>2, <2>4 DEF CellSet
  <2>6. \A o \in Offsets : tail[o] = IF o >= off THEN 0 ELSE h.disk[p][o]
    OBVIOUS
  <2> HIDE DEF tail, p, b, off
  <2>7. /\ k \in FileStates /\ k.inode = h.inode /\ k.disk = [h.disk EXCEPT ![p] = tail] /\ k.free = h.free
        /\ k.open = h.open /\ k.pos = h.pos /\ k.blockno = h.blockno /\ k.physblock = h.physblock /\ k.buf = h.buf
        /\ k.valid = h.valid /\ k.dirty = h.dirty /\ k.ret = h.ret
    BY <2>0, <2>2, <2>4, <2>5 DEF FileStates
  <2> HIDE DEF k
  <2>8. Mapped(k) /\ AtItsBlock(k)
    BY <2>0, <2>7 DEF Mapped, AtItsBlock
  <2>9. ASSUME NEW i \in FileCells
        PROVE  \/ OnDisk(k, i) = OnDisk(h, i) /\ ~(i \div Cells = b /\ i >= offset)
               \/ OnDisk(k, i) = 0 /\ i >= offset
    <3> DEFINE c == i \div Cells
    <3>1. i \in Nat /\ c \in Logical /\ i % Cells \in Offsets
      BY CellBlock
    <3>2. CASE c # b
      <4>1. h.inode.map[c] # 0 => h.inode.map[c] # p /\ h.inode.map[c] \in Physical
        BY <1>6, <2>0, <2>2, <2>3, <3>1, <3>2 DEF Mapped, p
      <4>2. OnDisk(k, i) = OnDisk(h, i)
        BY <2>2, <2>7, <4>1 DEF OnDisk
      <4> QED BY <3>2, <4>2
    <3>3. CASE c = b
      <4>1. i - offset = (i % Cells) - off
        BY <1>0, <3>1, <3>3, SameBlock DEF b, off
      <4>2. OnDisk(k, i) = tail[i % Cells] /\ OnDisk(h, i) = h.disk[p][i % Cells]
        BY <1>6, <2>2, <2>4, <2>7, <3>3 DEF OnDisk, p
      <4>3. i >= offset <=> i % Cells >= off
        <5> DEFINE x == i % Cells
        <5>1. x \in Int /\ off \in Int /\ i - offset = x - off
          BY <1>2, <3>1, <4>1 DEF Offsets
        <5> HIDE DEF x
        <5>2. i >= offset <=> x >= off
          BY <1>0, <3>1, <5>1
        <5> QED BY <5>2 DEF x
      <4> QED BY <2>6, <3>1, <4>2, <4>3
    <3> QED BY <3>2, <3>3
  <2>10. \A c : Ahead(k, c) <=> Ahead(h, c)
    BY <2>7 DEF Ahead
  <2>11. Shows(k, C)
    BY <2>0, <2>7, <2>9, <2>10 DEF Shows
  <2>12. FileSound(k, C)
    BY <2>7, <2>8, <2>11 DEF FileSound
  <2>13. \A i \in FileCells : i \div Cells = b /\ i >= offset => OnDisk(k, i) = 0
    BY <2>9
  <2> QED BY <1>1, <2>1, <2>7, <2>12, <2>13 DEF g, b, off, Failed
<1> QED BY <1>4, <1>5, <1>6

\* ext2fs_punch without a buffer: the blocks given back read as zeros.
LEMMA PunchIs ==
    ASSUME NEW f, NEW C, FileSound(f, C), ~f.valid, NEW b \in Nat,
           \A i \in FileCells : i \div Cells >= b => 0 \in C[i]
    PROVE  LET g == PunchFrom(f, b) IN
           /\ FileSound(g, C) /\ g.open = f.open /\ g.pos = f.pos /\ g.ret = f.ret /\ ~g.valid
           /\ g.inode.size = f.inode.size
           /\ \A i \in FileCells : OnDisk(g, i) = IF i \div Cells >= b THEN 0 ELSE OnDisk(f, i)
<1> DEFINE gone == {l \in b .. FileBlocks - 1 : f.inode.map[l] # 0}
           map == [l \in DOMAIN f.inode.map |-> IF l \in gone THEN 0 ELSE f.inode.map[l]]
           back == {f.inode.map[l] : l \in gone}
           disk == [p \in DOMAIN f.disk |-> IF \E l \in gone : f.inode.map[l] = p
                                            THEN [o \in Offsets |-> Stale] ELSE f.disk[p]]
           node == [f.inode EXCEPT !.map = map, !.uninit = f.inode.uninit \ gone]
           g == [f EXCEPT !.inode = node, !.free = f.free \cup back, !.disk = disk]
<1>0. f \in FileStates /\ Mapped(f) /\ AtItsBlock(f) /\ Shows(f, C)
  BY DEF FileSound
<1>1. /\ f.inode.map \in [Logical -> Physical \cup {0}] /\ f.disk \in [Physical -> [Offsets -> CellSet]]
      /\ f.free \subseteq Physical /\ f.inode.uninit \subseteq Logical /\ f.inode \in FileInodes
  BY <1>0, FileFields
<1>2. PunchFrom(f, b) = g
  BY <1>0, <1>1 DEF PunchFrom, FileStates, FileInodes
<1>3. /\ gone \subseteq Logical /\ \A l \in Logical : l \in gone <=> l >= b /\ f.inode.map[l] # 0
      /\ \A l \in gone : f.inode.map[l] \in Physical
  <2>1. FileBlocks \in Nat
    BY FileConstants
  <2>2. gone \subseteq Logical /\ \A l \in Logical : l \in gone <=> l >= b /\ f.inode.map[l] # 0
    BY <2>1 DEF Logical
  <2> QED BY <1>1, <2>2
<1>4. map \in [Logical -> Physical \cup {0}] /\ \A l \in Logical : map[l] = IF l \in gone THEN 0 ELSE f.inode.map[l]
  BY <1>1
<1>5. back \subseteq Physical /\ \A p : p \in back <=> \E l \in gone : f.inode.map[l] = p
  BY <1>3
<1>6. disk \in [Physical -> [Offsets -> CellSet]] /\ \A p \in Physical : p \notin back => disk[p] = f.disk[p]
  <2>1. [o \in Offsets |-> Stale] \in [Offsets -> CellSet]
    BY DEF CellSet
  <2> QED BY <1>1, <1>5, <2>1
<1> HIDE DEF gone, map, back, disk
<1>7. node \in FileInodes /\ node.size = f.inode.size /\ node.map = map /\ node.uninit = f.inode.uninit \ gone
  BY <1>1, <1>4 DEF FileInodes
<1> HIDE DEF node
<1>8. /\ g \in FileStates /\ g.inode = node /\ g.free = f.free \cup back /\ g.disk = disk
      /\ g.open = f.open /\ g.pos = f.pos /\ g.ret = f.ret /\ g.valid = f.valid /\ g.dirty = f.dirty
  <2>1. f.free \cup back \in SUBSET Physical
    BY <1>1, <1>5
  <2> QED BY <1>0, <1>6, <1>7, <2>1 DEF FileStates
<1> HIDE DEF g
<1>9. 0 \notin g.free
  <2>1. 0 \notin Physical
    BY DEF Physical
  <2> QED BY <1>1, <1>5, <1>8, <2>1
<1>10. \A l \in Logical : l \notin gone => f.inode.map[l] \notin back
  BY <1>0, <1>3, <1>5, <1>9, <1>8 DEF Mapped
<1>11. Mapped(g)
  <2>1. \A c, d \in Logical : map[c] # 0 /\ map[c] = map[d] => c = d
    BY <1>0, <1>4 DEF Mapped
  <2>2. \A c \in Logical : map[c] \notin g.free
    BY <1>0, <1>4, <1>8, <1>9, <1>10 DEF Mapped
  <2>3. \A c \in f.inode.uninit \ gone : map[c] # 0
    BY <1>0, <1>1, <1>4 DEF Mapped
  <2> QED BY <1>7, <1>8, <2>1, <2>2, <2>3 DEF Mapped
<1>12. ~f.dirty /\ AtItsBlock(g)
  BY <1>0, <1>8 DEF AtItsBlock
<1>13. ASSUME NEW i \in FileCells PROVE OnDisk(g, i) = IF i \div Cells >= b THEN 0 ELSE OnDisk(f, i)
  <2> DEFINE c == i \div Cells
  <2>1. c \in Logical
    BY CellBlock
  <2>2. CASE c >= b
    <3>1. g.inode.map[c] = 0
      BY <1>3, <1>4, <1>7, <1>8, <2>1, <2>2
    <3> QED BY <2>2, <3>1 DEF OnDisk
  <2>3. CASE ~(c >= b)
    <3>1. c \notin gone /\ f.inode.map[c] \notin back /\ g.inode.map[c] = f.inode.map[c]
      BY <1>3, <1>4, <1>7, <1>8, <1>10, <2>1, <2>3
    <3>2. c \in g.inode.uninit <=> c \in f.inode.uninit
      BY <1>7, <1>8, <3>1
    <3>3. f.inode.map[c] # 0 => g.disk[f.inode.map[c]] = f.disk[f.inode.map[c]]
      BY <1>1, <1>6, <1>8, <2>1, <3>1
    <3>4. OnDisk(g, i) = OnDisk(f, i)
      BY <3>1, <3>2, <3>3 DEF OnDisk
    <3> QED BY <2>3, <3>4
  <2> QED BY <2>2, <2>3
<1>14. Shows(g, C)
  BY <1>0, <1>8, <1>12, <1>13 DEF Shows, Ahead
<1>15. FileSound(g, C)
  BY <1>8, <1>11, <1>12, <1>14 DEF FileSound
<1> QED BY <1>2, <1>7, <1>8, <1>13, <1>15

\* The handle with another size in its inode.
LEMMA SizeIs ==
    ASSUME NEW f, NEW C, FileSound(f, C), f.ret = "ok", NEW size \in 0 .. MaxSize,
           NEW D, \A i \in FileCells : C[i] \subseteq D[i]
    PROVE  LET g == [f EXCEPT !.inode.size = size] IN
           /\ FileSound(g, D) /\ g.open = f.open /\ g.pos = f.pos /\ g.ret = "ok" /\ g.inode.size = size
           /\ g.valid = f.valid /\ g.dirty = f.dirty
<1> DEFINE node == [f.inode EXCEPT !.size = size]
           g == [f EXCEPT !.inode = node]
<1>0. f \in FileStates
  BY DEF FileSound
<1>1. node \in FileInodes /\ node.size = size /\ node.map = f.inode.map /\ node.uninit = f.inode.uninit
  BY <1>0, FileFields DEF FileInodes
<1>2. g = [f EXCEPT !.inode.size = size]
  OBVIOUS
<1> HIDE DEF node
<1>3. /\ g \in FileStates /\ g.inode = node /\ g.free = f.free /\ g.disk = f.disk /\ g.buf = f.buf
      /\ g.blockno = f.blockno /\ g.physblock = f.physblock
      /\ g.open = f.open /\ g.pos = f.pos /\ g.ret = f.ret /\ g.valid = f.valid /\ g.dirty = f.dirty
  BY <1>0, <1>1 DEF FileStates
<1> HIDE DEF g
<1>4. FileSound(g, D)
  BY <1>1, <1>3, SoundSame
<1>5. g.ret = "ok" /\ g.inode.size = size
  BY <1>1, <1>3
<1> QED BY <1>2, <1>3, <1>4, <1>5

\* ext2fs_file_set_size2 of a file that does not shrink: what it gains may be zero.
LEMMA GrowIs ==
    ASSUME NEW f, NEW C, FileSound(f, C), f.ret = "ok", NEW size \in 0 .. MaxSize, size >= f.inode.size,
           \A i \in FileCells : i >= size => 0 \in C[i]
    PROVE  LET g == ext2fs_file_set_size2(f, size) IN
           FileSound(g, C) /\ g.open = f.open /\ g.pos = f.pos /\ g.inode.size = size
<1> DEFINE g == ext2fs_file_set_size2(f, size)
           h == [f EXCEPT !.inode.size = size]
           z == ext2fs_file_zero_past_offset(h, size)
<1>1. FileSound(h, C) /\ h.open = f.open /\ h.pos = f.pos /\ h.ret = "ok" /\ h.inode.size = size
  BY SizeIs
<1> HIDE DEF h
<1>2. FileSound(z, C) /\ z.open = h.open /\ z.pos = h.pos /\ z.inode.size = h.inode.size
  BY <1>1, ZeroPastIs
<1>3. BlocksFor(size) >= BlocksFor(f.inode.size)
  <2>1. f.inode.size \in Nat /\ size \in Nat
    <3>1. f.inode.size \in 0 .. MaxSize /\ MaxSize \in Nat
      BY FileFields, FileConstants DEF FileSound
    <3> QED BY <3>1
  <2> QED BY <2>1, BlocksForIs
<1>4. g = z
  BY <1>3 DEF ext2fs_file_set_size2, h
<1> HIDE DEF g, z
<1> QED BY <1>1, <1>2, <1>4 DEF g

\* What a file is expected to hold when it was cut at that size.
Cut(C, size, old) == [i \in FileCells |-> IF i \in size .. old - 1 THEN {0} ELSE C[i]]

\* ext2fs_file_set_size2 of a file that shrinks, without a buffer: the cells cut off are
\* zero if the file grows again.
LEMMA ShrinkIs ==
    ASSUME NEW f, NEW C, FileSound(f, C), f.ret = "ok", ~f.valid, NEW size \in 0 .. MaxSize,
           size < f.inode.size, \A i \in FileCells : i >= f.inode.size => 0 \in C[i]
    PROVE  LET g == ext2fs_file_set_size2(f, size) IN
           /\ FileSound(g, Cut(C, size, f.inode.size)) /\ g.open = f.open /\ g.pos = f.pos
           /\ ~g.valid /\ g.inode.size = size
<1> DEFINE g == ext2fs_file_set_size2(f, size)
           h == [f EXCEPT !.inode.size = size]
           z == ext2fs_file_zero_past_offset(h, size)
           old == f.inode.size
           E == [i \in FileCells |-> IF i >= size THEN C[i] \cup {0} ELSE C[i]]
           D == Cut(C, size, old)
<1>0. old \in Nat /\ size \in Nat /\ ~f.dirty
  <2>1. old \in 0 .. MaxSize /\ MaxSize \in Nat
    BY FileFields, FileConstants DEF FileSound
  <2>2. ~f.dirty
    BY DEF FileSound, AtItsBlock
  <2> QED BY <2>1, <2>2
<1>1. \A i \in FileCells : C[i] \subseteq E[i] /\ (i >= size => 0 \in E[i])
  OBVIOUS
<1>2. \A i \in FileCells : i \in Nat /\ (i < size => E[i] = D[i]) /\ (i >= size => 0 \in D[i])
  <2>1. ASSUME NEW i \in FileCells PROVE i \in Nat
    BY FileConstants
  <2> QED BY <1>0, <2>1 DEF Cut
<1> HIDE DEF E, D, old
<1>3. /\ FileSound(h, E) /\ h.open = f.open /\ h.pos = f.pos /\ h.ret = "ok" /\ h.inode.size = size
      /\ h.valid = f.valid /\ h.dirty = f.dirty
  BY <1>1, SizeIs
<1> HIDE DEF h
<1>4. /\ FileSound(z, E) /\ z.open = h.open /\ z.pos = h.pos /\ z.inode.size = h.inode.size /\ ~Failed(z) /\ ~z.valid
      /\ size % Cells # 0 =>
            \A i \in FileCells : i \div Cells = size \div Cells /\ i >= size => OnDisk(z, i) = 0
  BY <1>0, <1>1, <1>3, ZeroPastIs
<1> DEFINE B == BlocksFor(size)
           p == PunchFrom(z, B)
<1>5. /\ B \in Nat
      /\ \A i \in FileCells : i < old => i \div Cells < BlocksFor(old)
      /\ \A i \in FileCells : i >= size => i \div Cells >= B \/ (size % Cells # 0 /\ i \div Cells = size \div Cells)
      /\ \A i \in FileCells : i < size => i \div Cells < B
      /\ BlocksFor(old) \in Nat /\ \A i \in FileCells : i \div Cells \in Nat
  BY <1>0, <1>2, BlocksForIs, Divided
<1>6. g = IF Failed(z) \/ B >= BlocksFor(old) THEN z ELSE p
  BY DEF ext2fs_file_set_size2, h, old
<1> HIDE DEF g, z, B
<1>7. CASE B >= BlocksFor(old)
  <2>1. g = z
    BY <1>6, <1>7
  <2>2. ASSUME NEW i \in FileCells, i >= size PROVE OnDisk(z, i) \in D[i]
    <3>1. CASE i < old
      <4>1. ~(i \div Cells >= B)
        BY <1>5, <1>7, <3>1
      <4>2. OnDisk(z, i) = 0
        BY <1>4, <1>5, <2>2, <4>1
      <4> QED BY <1>2, <2>2, <4>2
    <3>2. CASE ~(i < old)
      <4>1. E[i] = C[i] \cup {0} /\ D[i] = C[i] /\ 0 \in C[i]
        <5>1. i >= old /\ i \notin size .. old - 1
          BY <1>0, <1>2, <3>2
        <5> QED BY <2>2, <5>1 DEF E, D, Cut, old
      <4>2. OnDisk(z, i) \in E[i]
        BY <1>4 DEF FileSound, Shows, Ahead, AtItsBlock
      <4> QED BY <4>1, <4>2
    <3> QED BY <3>1, <3>2
  <2>3. ASSUME NEW i \in FileCells PROVE OnDisk(z, i) \in D[i]
    <3>1. OnDisk(z, i) \in E[i]
      BY <1>4 DEF FileSound, Shows, Ahead, AtItsBlock
    <3>2. i < size \/ i >= size
      BY <1>0, <1>2
    <3> QED BY <1>2, <2>2, <3>1, <3>2
  <2>4. FileSound(z, D)
    BY <1>4, <2>3 DEF FileSound, Shows
  <2> QED BY <1>3, <1>4, <2>1, <2>4 DEF g, D, old
<1>8. CASE ~(B >= BlocksFor(old))
  <2>1. g = p
    BY <1>4, <1>6, <1>8
  <2>2. \A i \in FileCells : i \div Cells >= B => 0 \in E[i]
    <3>1. ASSUME NEW i \in FileCells, i \div Cells >= B PROVE i >= size
      BY <1>0, <1>2, <1>5, <3>1
    <3> QED BY <1>1, <3>1
  <2>3. /\ FileSound(p, E) /\ p.open = z.open /\ p.pos = z.pos /\ p.ret = z.ret /\ ~p.valid
        /\ p.inode.size = z.inode.size
        /\ \A i \in FileCells : OnDisk(p, i) = IF i \div Cells >= B THEN 0 ELSE OnDisk(z, i)
    BY <1>4, <1>5, <2>2, PunchIs
  <2> HIDE DEF p
  <2>4. ASSUME NEW i \in FileCells PROVE OnDisk(p, i) \in D[i]
    <3>1. OnDisk(p, i) \in E[i]
      BY <2>3 DEF FileSound, Shows, Ahead, AtItsBlock
    <3>2. i >= size => OnDisk(p, i) = 0
      BY <1>4, <1>5, <2>3
    <3>3. i < size \/ i >= size
      BY <1>0, <1>2
    <3> QED BY <1>2, <3>1, <3>2, <3>3
  <2>5. FileSound(p, D)
    BY <2>3, <2>4 DEF FileSound, Shows
  <2> QED BY <1>3, <1>4, <2>1, <2>3, <2>5 DEF g, D, old
<1> QED BY <1>7, <1>8

\* What is expected after value went to the cells a .. b - 1, and after it may have.
Over(C, a, b, value) == [i \in FileCells |-> IF i \in a .. b - 1 THEN {value} ELSE C[i]]
Perhaps(C, a, b, value) == [i \in FileCells |-> IF i \in a .. b - 1 THEN C[i] \cup {value} ELSE C[i]]

\* The cells one round of a write takes: the rest of the block or of the data.
Chunk(pos, n) == Min({Cells - (pos % Cells), n})

LEMMA ChunkIs ==
    ASSUME NEW pos \in Nat, NEW n \in Nat \ {0}
    PROVE  /\ Chunk(pos, n) \in 1 .. n
           /\ (pos % Cells) + Chunk(pos, n) <= Cells
           /\ \A i \in Nat : i \in pos .. (pos + Chunk(pos, n)) - 1 => i \div Cells = pos \div Cells
           /\ \A i \in Nat : i \div Cells = pos \div Cells =>
                 (i \in pos .. (pos + Chunk(pos, n)) - 1
                    <=> i % Cells \in (pos % Cells) .. (pos % Cells) + Chunk(pos, n) - 1)
           /\ Chunk(pos, n) = Cells => pos % Cells = 0
<1> DEFINE s == pos % Cells
           T == {Cells - s, n}
           c == Min(T)
<1>1. Cells \in Nat /\ Cells > 0 /\ s \in Offsets
  BY FileConstants, Divided
<1> HIDE DEF s
<1>2. T \subseteq Nat \ {0} /\ Cells - s \in T /\ n \in T
  BY <1>1 DEF Offsets
<1> HIDE DEF T
<1>3. c \in T /\ c <= Cells - s /\ c <= n
  BY <1>2, MinIs
<1>a. c \in Nat \ {0}
  BY <1>2, <1>3
<1>4. c = Chunk(pos, n)
  BY DEF Chunk, T, s
<1> HIDE DEF c
<1>5. c \in 1 .. n /\ s + c <= Cells /\ s \in Nat /\ (c = Cells => s = 0)
  BY <1>1, <1>3, <1>a DEF Offsets
<1>6. ASSUME NEW i \in Nat, i \in pos .. (pos + c) - 1 PROVE i \div Cells = pos \div Cells
  <2>1. pos <= i /\ i < pos + Cells - s
    BY <1>1, <1>5, <1>6
  <2> QED BY <2>1, SameBlock DEF s
<1>7. ASSUME NEW i \in Nat, i \div Cells = pos \div Cells
      PROVE  i \in pos .. (pos + c) - 1 <=> i % Cells \in s .. s + c - 1
  <2> DEFINE o == i % Cells
  <2>1. i - pos = o - s
    BY <1>7, SameBlock DEF s
  <2>2. o \in Offsets
    BY Divided
  <2> HIDE DEF o
  <2>3. o \in Int
    BY <1>1, <2>2 DEF Offsets
  <2>4. i \in pos .. (pos + c) - 1 <=> o \in s .. s + c - 1
    BY <1>5, <2>1, <2>3
  <2> QED BY <2>4 DEF o
<1> QED BY <1>4, <1>5, <1>6, <1>7 DEF s

\* A buffer with its block, in which the cells a .. b - 1 need not be there yet.
Loaded(f, C, a, b) ==
    /\ f \in FileStates /\ Mapped(f) /\ AtItsBlock(f) /\ f.valid
    /\ \A i \in FileCells : Ahead(f, i \div Cells) \/ OnDisk(f, i) \in C[i]
    /\ \A i \in FileCells : i \div Cells = f.blockno /\ i \notin a .. b - 1 => f.buf[i % Cells] \in C[i]

\* load_buffer before a write, which fills the buffer unless all of it is written.
LEMMA LoadForIs ==
    ASSUME NEW f, NEW C, FileSound(f, C), f.pos \in FileCells, f.blockno = f.pos \div Cells,
           NEW n \in Nat \ {0}
    PROVE  LET c == Chunk(f.pos, n)
               g == load_buffer(f, c = Cells)
           IN  /\ Loaded(g, C, f.pos, f.pos + c) /\ SamePlace(f, g) /\ g.ret = f.ret
<1> DEFINE c == Chunk(f.pos, n)
           g == load_buffer(f, c = Cells)
           p == f.inode.map[f.blockno]
           h == [f EXCEPT !.physblock = p, !.valid = TRUE]
<1>0. f \in FileStates /\ Mapped(f) /\ AtItsBlock(f) /\ Shows(f, C)
  BY DEF FileSound
<1>1. f.pos \in Nat /\ f.blockno \in Logical
  BY CellBlock
<1>2. CASE c # Cells
  <2>1. (c = Cells) = FALSE
    BY <1>2
  <2>2. g = load_buffer(f, FALSE)
    BY <2>1
  <2>3. FileSound(g, C) /\ SamePlace(f, g) /\ g.valid /\ g.ret = f.ret
    BY <1>1, <2>2, LoadIs
  <2> HIDE DEF g
  <2>4. Loaded(g, C, f.pos, f.pos + c)
    BY <2>3 DEF FileSound, Shows, Loaded
  <2> QED BY <2>3, <2>4 DEF g
<1>3. CASE c = Cells /\ f.valid
  <2>1. g = f
    BY <1>3 DEF load_buffer
  <2> HIDE DEF g
  <2> QED BY <1>0, <1>3, <2>1 DEF Loaded, SamePlace, Shows, g
<1>4. CASE c = Cells /\ ~f.valid
  <2>1. g = h
    <3>1. (c = Cells) = TRUE
      BY <1>4
    <3>2. g = load_buffer(f, TRUE)
      BY <3>1
    <3>3. g = [f EXCEPT !.physblock = p, !.valid = TRUE, !.buf = f.buf]
      BY <1>4, <3>2 DEF load_buffer, FileBmap
    <3> QED BY <1>0, <3>3 DEF FileStates
  <2>2. p \in Physical \cup {0} /\ ~f.dirty
    BY <1>0, <1>1, <1>4, FileFields DEF AtItsBlock
  <2> HIDE DEF g, p
  <2>3. /\ h \in FileStates /\ h.physblock = p /\ h.valid /\ ~h.dirty /\ h.inode = f.inode
        /\ h.free = f.free /\ h.disk = f.disk /\ h.open = f.open /\ h.pos = f.pos /\ h.blockno = f.blockno /\ h.ret = f.ret
    BY <1>0, <2>2 DEF FileStates
  <2> HIDE DEF h
  <2>4. Mapped(h) /\ AtItsBlock(h)
    BY <1>0, <1>1, <2>3 DEF Mapped, AtItsBlock, p
  <2>5. \A i \in FileCells : OnDisk(h, i) \in C[i]
    BY <1>0, <2>2, <2>3 DEF OnDisk, Shows, Ahead
  <2>6. ASSUME NEW i \in FileCells, i \div Cells = f.blockno PROVE i \in f.pos .. (f.pos + c) - 1
    <3>1. i \in Nat /\ i % Cells \in Offsets /\ i \div Cells = f.pos \div Cells
      BY <2>6, CellBlock
    <3>2. f.pos % Cells = 0 /\ (i \in f.pos .. (f.pos + c) - 1 <=> i % Cells \in (f.pos % Cells) .. (f.pos % Cells) + c - 1)
      BY <1>1, <1>4, <3>1, ChunkIs
    <3> DEFINE s == f.pos % Cells
    <3>a. s = 0 /\ Cells \in Nat /\ (i \in f.pos .. (f.pos + c) - 1 <=> i % Cells \in s .. s + c - 1)
      BY <3>2, FileConstants
    <3> HIDE DEF s
    <3>b. s .. s + c - 1 = 0 .. Cells - 1
      BY <1>4, <3>a
    <3>3. i \in f.pos .. (f.pos + c) - 1 <=> i % Cells \in 0 .. Cells - 1
      BY <3>a, <3>b
    <3> QED BY <3>1, <3>3 DEF Offsets
  <2> HIDE DEF c
  <2>7. \A i \in FileCells : i \div Cells = h.blockno /\ i \notin f.pos .. (f.pos + c) - 1 => h.buf[i % Cells] \in C[i]
    BY <2>3, <2>6
  <2>8. Loaded(h, C, f.pos, f.pos + c)
    BY <2>3, <2>4, <2>5, <2>7 DEF Loaded
  <2> QED BY <2>1, <2>3, <2>8 DEF g, SamePlace, c
<1> QED BY <1>2, <1>3, <1>4

\* The buffer with value in the cells a .. b - 1.
LEMMA FilledIs ==
    ASSUME NEW f, NEW C, NEW n \in Nat \ {0}, NEW value \in Nat, f.pos \in FileCells,
           f.blockno = f.pos \div Cells, Loaded(f, C, f.pos, f.pos + Chunk(f.pos, n)),
           NEW g \in FileStates, SamePlace(f, g), g.dirty, g.valid = f.valid, g.physblock = f.physblock,
           g.inode = f.inode, g.disk = f.disk, g.free = f.free,
           \A o \in Offsets : g.buf[o] = IF o \in (f.pos % Cells) .. (f.pos % Cells) + Chunk(f.pos, n) - 1
                                         THEN value ELSE f.buf[o]
    PROVE  /\ Mapped(g) /\ AtItsBlock(g)
           /\ \A i \in FileCells : i \div Cells # g.blockno =>
                 OnDisk(g, i) \in C[i] /\ i \notin f.pos .. (f.pos + Chunk(f.pos, n)) - 1
           /\ g.physblock = 0 => \A i \in FileCells : OnDisk(g, i) \in C[i]
           /\ \A i \in FileCells : i \div Cells = g.blockno =>
                 \/ g.buf[i % Cells] = value /\ i \in f.pos .. (f.pos + Chunk(f.pos, n)) - 1
                 \/ g.buf[i % Cells] \in C[i] /\ i \notin f.pos .. (f.pos + Chunk(f.pos, n)) - 1
<1> DEFINE c == Chunk(f.pos, n)
           s == f.pos % Cells
<1>0. /\ f \in FileStates /\ Mapped(f) /\ AtItsBlock(f) /\ f.valid
      /\ \A i \in FileCells : Ahead(f, i \div Cells) \/ OnDisk(f, i) \in C[i]
      /\ \A i \in FileCells : i \div Cells = f.blockno /\ i \notin f.pos .. (f.pos + c) - 1 => f.buf[i % Cells] \in C[i]
  BY DEF Loaded
<1>1. g.blockno = f.blockno /\ g.pos = f.pos
  BY DEF SamePlace
<1>2. f.pos \in Nat
  BY <1>0, FileFields
<1>5. Mapped(g) /\ AtItsBlock(g)
  BY <1>0, <1>1 DEF Mapped, AtItsBlock
<1>6. \A i \in FileCells : OnDisk(g, i) = OnDisk(f, i)
  BY <1>1 DEF OnDisk
<1>7. ASSUME NEW i \in FileCells, i \div Cells # g.blockno
      PROVE  OnDisk(g, i) \in C[i] /\ i \notin f.pos .. (f.pos + c) - 1
  <2>1. i \div Cells # f.pos \div Cells /\ i \in Nat
    BY <1>1, <1>7, CellBlock
  <2>2. i \notin f.pos .. (f.pos + c) - 1
    BY <1>2, <2>1, ChunkIs
  <2>3. ~Ahead(f, i \div Cells)
    BY <2>1 DEF Ahead
  <2> QED BY <1>0, <1>6, <2>2, <2>3
<1>8. ASSUME g.physblock = 0, NEW i \in FileCells PROVE OnDisk(g, i) \in C[i]
  <2>1. ~Ahead(f, i \div Cells)
    BY <1>1, <1>8 DEF Ahead
  <2> QED BY <1>0, <1>6, <2>1
<1>9. ASSUME NEW i \in FileCells, i \div Cells = g.blockno
      PROVE  \/ g.buf[i % Cells] = value /\ i \in f.pos .. (f.pos + c) - 1
             \/ g.buf[i % Cells] \in C[i] /\ i \notin f.pos .. (f.pos + c) - 1
  <2>1. i \div Cells = f.pos \div Cells /\ i \div Cells = f.blockno /\ i \in Nat /\ i % Cells \in Offsets
    BY <1>1, <1>9, CellBlock
  <2>2. i \in f.pos .. (f.pos + c) - 1 <=> i % Cells \in s .. s + c - 1
    BY <1>2, <2>1, ChunkIs
  <2>3. g.buf[i % Cells] = IF i % Cells \in s .. s + c - 1 THEN value ELSE f.buf[i % Cells]
    BY <2>1
  <2> HIDE DEF c, s
  <2> QED BY <1>0, <2>1, <2>2, <2>3
<1> HIDE DEF c
<1>11. /\ \A i \in FileCells : i \div Cells # g.blockno => OnDisk(g, i) \in C[i] /\ i \notin f.pos .. (f.pos + c) - 1
       /\ g.physblock = 0 => \A i \in FileCells : OnDisk(g, i) \in C[i]
  BY <1>7, <1>8
<1>12. \A i \in FileCells : i \div Cells = g.blockno =>
          \/ g.buf[i % Cells] = value /\ i \in f.pos .. (f.pos + c) - 1
          \/ g.buf[i % Cells] \in C[i] /\ i \notin f.pos .. (f.pos + c) - 1
  BY <1>9
<1> QED BY <1>5, <1>11, <1>12 DEF c

\* One round of a write: it goes on by a chunk, or fails and may have left the chunk in
\* the buffer.
LEMMA WriteBlockIs ==
    ASSUME NEW f, NEW C, FileSound(f, C), f.ret = "ok", f.pos \in FileCells,
           NEW n \in Nat \ {0}, NEW value \in Nat
    PROVE  LET g == WriteBlock(f, n, value)
               e == f.pos + Chunk(f.pos, n)
           IN  /\ g.open = f.open /\ g.inode.size = f.inode.size
               /\ \/ ~Failed(g) /\ g.pos = e /\ FileSound(g, Over(C, f.pos, e, value))
                  \/ Failed(g) /\ g.pos = f.pos /\ FileSound(g, Perhaps(C, f.pos, e, value))
<1> DEFINE g == WriteBlock(f, n, value)
           c == Chunk(f.pos, n)
           e == f.pos + c
           h == sync_buffer_position(f)
           k == load_buffer(h, c = Cells)
           m == [k EXCEPT !.dirty = TRUE,
                          !.buf = [o \in Offsets |-> IF o \in (f.pos % Cells) .. (f.pos % Cells) + c - 1
                                                     THEN value ELSE @[o]]]
           q == IF m.physblock = 0 THEN BmapAlloc(m, m.blockno) ELSE m
           O == Over(C, f.pos, e, value)
           P == Perhaps(C, f.pos, e, value)
<1>1. g = IF Failed(h) THEN h ELSE IF Failed(q) THEN q ELSE [q EXCEPT !.pos = @ + c]
  BY DEF WriteBlock, WithBlock, Chunk
<1>2. f.pos \in Nat /\ f.pos \div Cells \in Logical
  BY CellBlock
<1>3. c \in Nat /\ e \in Nat
  <2>1. c \in 1 .. n
    BY <1>2, ChunkIs
  <2> HIDE DEF c
  <2> QED BY <1>2, <2>1
<1>4. /\ FileSound(h, C) /\ h.open = f.open /\ h.pos = f.pos /\ h.inode.size = f.inode.size
      /\ ~Failed(h) => h.blockno = f.pos \div Cells
  BY SyncIs
<1>5. /\ \A i \in FileCells : C[i] \subseteq P[i]
      /\ \A i \in FileCells : i \in f.pos .. e - 1 => O[i] = {value} /\ value \in P[i]
      /\ \A i \in FileCells : i \notin f.pos .. e - 1 => O[i] = C[i] /\ P[i] = C[i]
  BY DEF Over, Perhaps
<1> HIDE DEF g, h, O, P
<1>6. CASE Failed(h)
  <2>1. g = h
    BY <1>1, <1>6
  <2>2. h \in FileStates
    BY <1>4 DEF FileSound
  <2>3. FileSound(h, P)
    BY <1>4, <1>5, <2>2, SoundSame
  <2> QED BY <1>4, <1>6, <2>1, <2>3 DEF g, P
<1>7. CASE ~Failed(h)
  <2>1. h.blockno = f.pos \div Cells /\ h.ret = "ok" /\ h.pos \in FileCells /\ h.blockno = h.pos \div Cells
    BY <1>4, <1>7 DEF Failed
  <2>2. Loaded(k, C, f.pos, e) /\ SamePlace(h, k) /\ k.ret = h.ret
    BY <1>4, <2>1, LoadForIs
  <2> HIDE DEF k
  <2>3. k.pos = f.pos /\ k.blockno = f.pos \div Cells /\ k.open = f.open /\ k.inode.size = f.inode.size /\ k.ret = "ok"
    BY <1>4, <2>1, <2>2 DEF SamePlace
  <2>4. /\ m \in FileStates /\ Mapped(m) /\ AtItsBlock(m) /\ m.valid /\ m.dirty /\ SamePlace(k, m) /\ m.ret = k.ret
        /\ \A i \in FileCells : i \div Cells # m.blockno => OnDisk(m, i) \in C[i] /\ i \notin f.pos .. e - 1
        /\ m.physblock = 0 => \A i \in FileCells : OnDisk(m, i) \in C[i]
        /\ \A i \in FileCells : i \div Cells = m.blockno =>
              \/ m.buf[i % Cells] = value /\ i \in f.pos .. e - 1
              \/ m.buf[i % Cells] \in C[i] /\ i \notin f.pos .. e - 1
    <3> DEFINE s == f.pos % Cells
               buf == [o \in Offsets |-> IF o \in s .. s + c - 1 THEN value ELSE k.buf[o]]
    <3>a. k \in FileStates /\ k.valid
      BY <2>2 DEF Loaded
    <3>b. m = [k EXCEPT !.dirty = TRUE, !.buf = buf]
      OBVIOUS
    <3>c. buf \in [Offsets -> CellSet] /\ \A o \in Offsets : buf[o] = IF o \in s .. s + c - 1 THEN value ELSE k.buf[o]
      <4>1. k.buf \in [Offsets -> CellSet]
        BY <3>a, FileFields
      <4> QED BY <4>1 DEF CellSet
    <3> HIDE DEF buf
    <3>1. /\ m \in FileStates /\ m.buf = buf /\ m.dirty /\ m.valid = k.valid /\ m.open = k.open /\ m.pos = k.pos
          /\ m.blockno = k.blockno /\ m.physblock = k.physblock /\ m.ret = k.ret /\ m.inode = k.inode
          /\ m.disk = k.disk /\ m.free = k.free
      BY <3>a, <3>b, <3>c DEF FileStates
    <3>2. k.pos \in FileCells /\ k.blockno = k.pos \div Cells /\ Loaded(k, C, k.pos, k.pos + Chunk(k.pos, n))
      BY <2>2, <2>3
    <3>3. e = k.pos + Chunk(k.pos, n)
      BY <2>3
    <3> HIDE DEF m, e
    <3>4. SamePlace(k, m)
      BY <3>1 DEF SamePlace
    <3>5. \A o \in Offsets : m.buf[o] = IF o \in (k.pos % Cells) .. (k.pos % Cells) + Chunk(k.pos, n) - 1
                                        THEN value ELSE k.buf[o]
      BY <2>3, <3>1, <3>c
    <3>6. /\ Mapped(m) /\ AtItsBlock(m)
          /\ \A i \in FileCells : i \div Cells # m.blockno =>
                OnDisk(m, i) \in C[i] /\ i \notin k.pos .. (k.pos + Chunk(k.pos, n)) - 1
          /\ m.physblock = 0 => \A i \in FileCells : OnDisk(m, i) \in C[i]
          /\ \A i \in FileCells : i \div Cells = m.blockno =>
                \/ m.buf[i % Cells] = value /\ i \in k.pos .. (k.pos + Chunk(k.pos, n)) - 1
                \/ m.buf[i % Cells] \in C[i] /\ i \notin k.pos .. (k.pos + Chunk(k.pos, n)) - 1
      BY <3>1, <3>2, <3>4, <3>5, FilledIs
    <3> QED BY <2>3, <3>a, <3>1, <3>3, <3>4, <3>6
  <2> HIDE DEF m, e
  <2>5. m.pos = f.pos /\ m.blockno = f.pos \div Cells /\ m.open = f.open /\ m.inode.size = f.inode.size /\ m.ret = "ok"
    BY <2>3, <2>4 DEF SamePlace
  <2>6. ASSUME NEW x \in FileStates, Mapped(x), AtItsBlock(x), x.physblock # 0, SamePlace(m, x), x.buf = m.buf,
               x.valid, x.dirty, x.ret = "ok",
               \A i \in FileCells : i \div Cells # m.blockno => OnDisk(x, i) = OnDisk(m, i), q = x
        PROVE  /\ g.open = f.open /\ g.inode.size = f.inode.size /\ ~Failed(g) /\ g.pos = e /\ FileSound(g, O)
    <3>1. x.blockno = m.blockno
      BY <2>6 DEF SamePlace
    <3>2. \A i \in FileCells : i \div Cells = m.blockno => Ahead(x, i \div Cells)
      BY <2>6, <3>1 DEF Ahead
    <3>3. \A i \in FileCells : Ahead(x, i \div Cells) \/ OnDisk(x, i) \in O[i]
      BY <1>5, <2>4, <2>6, <3>2
    <3>4. \A i \in FileCells : i \div Cells = x.blockno => x.buf[i % Cells] \in O[i]
      BY <1>5, <2>4, <2>6, <3>1
    <3>5. FileSound(x, O)
      BY <2>6, <3>3, <3>4 DEF FileSound, Shows
    <3> DEFINE y == [x EXCEPT !.pos = e]
    <3>6. g = y
      BY <1>1, <1>7, <2>5, <2>6 DEF Failed, SamePlace, e
    <3>7. /\ y \in FileStates /\ y.pos = e /\ y.open = x.open /\ y.inode = x.inode /\ y.ret = x.ret
          /\ y.blockno = x.blockno /\ y.physblock = x.physblock /\ y.buf = x.buf /\ y.valid = x.valid
          /\ y.dirty = x.dirty /\ y.free = x.free /\ y.disk = x.disk
      BY <1>3, <2>6 DEF FileStates
    <3> HIDE DEF y
    <3>8. FileSound(y, O)
      BY <3>5, <3>7, SoundSame
    <3> QED BY <2>5, <2>6, <3>6, <3>7, <3>8 DEF Failed, SamePlace
  <2>7. CASE m.physblock # 0
    <3>1. q = m
      BY <2>7
    <3>2. SamePlace(m, m)
      BY DEF SamePlace
    <3> HIDE DEF q
    <3>3. g.open = f.open /\ g.inode.size = f.inode.size /\ ~Failed(g) /\ g.pos = e /\ FileSound(g, O)
      BY <2>4, <2>5, <2>6, <2>7, <3>1, <3>2
    <3> QED BY <3>3 DEF g, O, e
  <2> DEFINE x == BmapAlloc(m, m.blockno)
  <2>8. CASE m.physblock = 0 /\ m.free # {}
    <3>1. q = x
      BY <2>8
    <3> HIDE DEF q
    <3>2. m.blockno \in Logical /\ m.inode.map[m.blockno] = 0
      BY <2>4, <2>8 DEF AtItsBlock
    <3>3. /\ x \in FileStates /\ SamePlace(m, x) /\ x.buf = m.buf /\ x.valid = m.valid /\ x.dirty = m.dirty /\ x.ret = m.ret
      BY <2>4, <2>8, <3>2, AllocIs
    <3>4. /\ Mapped(x) /\ x.physblock # 0 /\ x.inode.map[m.blockno] = x.physblock
          /\ \A i \in FileCells : i \div Cells # m.blockno => OnDisk(x, i) = OnDisk(m, i)
      BY <2>4, <2>8, <3>2, AllocKeeps
    <3> HIDE DEF x
    <3>5. AtItsBlock(x)
      BY <2>4, <3>2, <3>3, <3>4 DEF AtItsBlock, SamePlace
    <3>6. g.open = f.open /\ g.inode.size = f.inode.size /\ ~Failed(g) /\ g.pos = e /\ FileSound(g, O)
      BY <2>4, <2>5, <2>6, <3>1, <3>3, <3>4, <3>5
    <3> QED BY <3>6 DEF g, O, e
  <2>9. CASE m.physblock = 0 /\ m.free = {}
    <3>1. q = x
      BY <2>9
    <3> HIDE DEF q
    <3>2. /\ x \in FileStates /\ SamePlace(m, x) /\ x.buf = m.buf /\ x.valid = m.valid /\ x.dirty = m.dirty
          /\ x.physblock = m.physblock /\ x.inode = m.inode /\ x.free = m.free /\ x.disk = m.disk /\ Failed(x)
      BY <2>4, <2>9, NoSpaceIs
    <3> HIDE DEF x
    <3>3. g = x
      BY <1>1, <1>7, <3>1, <3>2
    <3>4. FileSound(m, P)
      <4>1. \A i \in FileCells : OnDisk(m, i) \in P[i]
        BY <1>5, <2>4, <2>9
      <4>2. \A i \in FileCells : i \div Cells = m.blockno => m.buf[i % Cells] \in P[i]
        BY <1>5, <2>4
      <4> QED BY <2>4, <4>1, <4>2 DEF FileSound, Shows
    <3>5. FileSound(x, P)
      BY <3>2, <3>4, SoundSame DEF SamePlace
    <3>6. g.open = f.open /\ g.inode.size = f.inode.size /\ Failed(g) /\ g.pos = f.pos /\ FileSound(g, P)
      BY <2>5, <3>2, <3>3, <3>5 DEF SamePlace
    <3> QED BY <3>6 DEF g, P, e
  <2> QED BY <2>7, <2>8, <2>9
<1> QED BY <1>6, <1>7

\* What is expected after a write that got to a place and tried to get further.
Written(C, from, to, tried, value) ==
    [i \in FileCells |-> IF i \in from .. to - 1 THEN {value}
                         ELSE IF i \in to .. tried - 1 THEN C[i] \cup {value} ELSE C[i]]

\* How far the round that fails tries to get.
LEMMA TriedIs ==
    ASSUME NEW to \in Nat, NEW end \in Nat, to < end
    PROVE  Min({end, (to \div Cells + 1) * Cells}) = to + Chunk(to, end - to)
<1> DEFINE q == to \div Cells
           s == to % Cells
           X == (q + 1) * Cells
           T == {end, X}
           U == {Cells - s, end - to}
<1>1. Cells \in Nat /\ q \in Nat /\ s \in Offsets /\ to = Cells * q + s
  BY Divided, FileConstants
<1>2. Chunk(to, end - to) = Min(U)
  BY DEF Chunk
<1> HIDE DEF q, s
<1>3. X = (Cells * q) + Cells
  BY <1>1
<1>4. X = to + (Cells - s) /\ X \in Nat /\ Cells - s \in Nat
  <2> DEFINE z == Cells * q
  <2>1. z \in Nat /\ to = z + s /\ X = z + Cells
    BY <1>1, <1>3
  <2> HIDE DEF z, X
  <2> QED BY <1>1, <2>1 DEF Offsets
<1> HIDE DEF X
<1>5. T \subseteq Nat /\ T # {} /\ U \subseteq Nat /\ U # {}
  BY <1>4
<1>6. Min(T) \in T /\ Min(T) <= end /\ Min(T) <= X
  <2>1. end \in T /\ X \in T
    OBVIOUS
  <2> HIDE DEF T
  <2> QED BY <1>5, <2>1, MinIs
<1>7. Min(U) \in U /\ Min(U) <= Cells - s /\ Min(U) <= end - to
  <2>1. Cells - s \in U /\ end - to \in U
    OBVIOUS
  <2> HIDE DEF U
  <2> QED BY <1>5, <2>1, MinIs
<1> DEFINE x == Min(T)
           y == Min(U)
<1>8. (x = end \/ x = X) /\ x <= end /\ x <= X /\ (y = Cells - s \/ y = end - to) /\ y <= Cells - s /\ y <= end - to
  BY <1>6, <1>7
<1> HIDE DEF x, y
<1>9. x = to + y
  BY <1>4, <1>8
<1> QED BY <1>2, <1>9 DEF x, y, T, X, q

\* The loop of ext2fs_file_write.
WriteRound(g, end, value) == IF Failed(g) \/ g.pos >= end THEN g ELSE WriteBlock(g, end - g.pos, value)
IsWriting(a, f, end, value) ==
    a = [n \in 0 .. FileBlocks + 1 |-> IF n = 0 THEN f ELSE WriteRound(a[n - 1], end, value)]

\* The states it goes through, from the handle f.
WriteStates(f, C, end, value) ==
    {g \in FileStates :
        /\ g.open = f.open /\ g.inode.size = f.inode.size /\ f.pos <= g.pos /\ g.pos <= end
        /\ ~Failed(g) => FileSound(g, Over(C, f.pos, g.pos, value))
        /\ Failed(g) => /\ g.pos < end
                        /\ FileSound(g, Written(C, f.pos, g.pos, g.pos + Chunk(g.pos, end - g.pos), value))}

LEMMA WriteRoundIs ==
    ASSUME NEW f \in FileStates, NEW C, NEW end \in 0 .. MaxSize, NEW value \in Nat,
           NEW g \in WriteStates(f, C, end, value)
    PROVE  WriteRound(g, end, value) \in WriteStates(f, C, end, value)
<1>1. CASE Failed(g) \/ g.pos >= end
  BY <1>1 DEF WriteRound
<1>2. CASE ~(Failed(g) \/ g.pos >= end)
  <2> DEFINE n == end - g.pos
             k == WriteBlock(g, n, value)
             c == Chunk(g.pos, n)
             e == g.pos + c
             from == f.pos
             p == g.pos
             D == Over(C, from, p, value)
  <2>0. WriteRound(g, end, value) = k
    BY <1>2 DEF WriteRound
  <2>1. g \in FileStates /\ g.open = f.open /\ g.inode.size = f.inode.size /\ from <= p /\ p <= end /\ FileSound(g, D) /\ g.ret = "ok"
    BY <1>2 DEF WriteStates, Failed
  <2>2. p \in Nat /\ from \in Nat /\ end \in Nat /\ end <= MaxSize /\ MaxSize \in Nat
    <3>1. p \in Nat /\ from \in Nat /\ MaxSize \in Nat
      BY <2>1, FileFields, FileConstants
    <3> QED BY <3>1
  <2>3. p < end /\ n \in Nat \ {0}
    BY <1>2, <2>2
  <2>4. p \in FileCells
    BY <2>2, <2>3, FileConstants
  <2>5. c \in 1 .. n
    BY <2>2, <2>3, ChunkIs
  <2>6. /\ k.open = g.open /\ k.inode.size = g.inode.size
        /\ \/ ~Failed(k) /\ k.pos = e /\ FileSound(k, Over(D, p, e, value))
           \/ Failed(k) /\ k.pos = p /\ FileSound(k, Perhaps(D, p, e, value))
    BY <2>1, <2>3, <2>4, WriteBlockIs
  <2> HIDE DEF k, D, c
  <2>7. e \in Nat /\ p < e /\ e <= end
    BY <2>2, <2>3, <2>5
  <2> HIDE DEF e, p, from
  <2>8. k \in FileStates
    BY <2>6 DEF FileSound
  <2>9. CASE ~Failed(k) /\ k.pos = e /\ FileSound(k, Over(D, p, e, value))
    <3>1. \A i \in FileCells : Over(D, p, e, value)[i] \subseteq Over(C, from, e, value)[i]
      <4> SUFFICES ASSUME NEW i \in FileCells PROVE Over(D, p, e, value)[i] \subseteq Over(C, from, e, value)[i]
        OBVIOUS
      <4>1. i \in Nat
        BY FileConstants
      <4>2. i \in from .. e - 1 <=> i \in from .. p - 1 \/ i \in p .. e - 1
        BY <2>1, <2>2, <2>7, <4>1
      <4> QED BY <4>2 DEF Over, D
    <3>2. FileSound(k, Over(C, from, e, value))
      BY <2>8, <2>9, <3>1, SoundSame
    <3>3. from <= e
      BY <2>1, <2>2, <2>7
    <3> QED BY <2>0, <2>1, <2>6, <2>7, <2>8, <2>9, <3>2, <3>3 DEF WriteStates, from
  <2>10. CASE Failed(k) /\ k.pos = p /\ FileSound(k, Perhaps(D, p, e, value))
    <3> DEFINE W == Written(C, from, p, e, value)
    <3>1. \A i \in FileCells : Perhaps(D, p, e, value)[i] \subseteq W[i]
      <4> SUFFICES ASSUME NEW i \in FileCells PROVE Perhaps(D, p, e, value)[i] \subseteq W[i]
        OBVIOUS
      <4>1. ~(i \in from .. p - 1 /\ i \in p .. e - 1)
        BY <2>2, <2>7
      <4> QED BY <4>1 DEF Perhaps, Over, D, Written
    <3> HIDE DEF W
    <3>2. FileSound(k, W)
      BY <2>8, <2>10, <3>1, SoundSame
    <3>3. W = Written(C, f.pos, k.pos, k.pos + Chunk(k.pos, end - k.pos), value)
      BY <2>10 DEF W, from, p, e, c
    <3> QED BY <2>0, <2>1, <2>3, <2>6, <2>8, <2>10, <3>2, <3>3 DEF WriteStates, from
  <2> QED BY <2>6, <2>9, <2>10
<1> QED BY <1>1, <1>2

\* The loop keeps to those states.
LEMMA WriteLoopIs ==
    ASSUME NEW f, NEW C, FileSound(f, C), f.ret = "ok", NEW end \in 0 .. MaxSize, f.pos <= end, NEW value \in Nat
    PROVE  LET after == CHOOSE a : IsWriting(a, f, end, value)
           IN  after[FileBlocks + 1] \in WriteStates(f, C, end, value)
<1> DEFINE N == FileBlocks + 1
           S == WriteStates(f, C, end, value)
           a == CHOOSE h : IsWriting(h, f, end, value)
<1>0. f \in FileStates /\ N \in Nat
  BY FileConstants DEF FileSound
<1>3. ASSUME NEW g \in S PROVE WriteRound(g, end, value) \in S
  BY <1>0, WriteRoundIs
<1> DEFINE step == [g \in S |-> WriteRound(g, end, value)]
<1>4. step \in [S -> S] /\ \A g \in S : step[g] = WriteRound(g, end, value)
  BY <1>3
<1>5. f \in S
  <2>1. f.pos \in Nat
    BY <1>0, FileFields
  <2>2. \A i \in FileCells : C[i] \subseteq Over(C, f.pos, f.pos, value)[i]
    <3>1. f.pos .. f.pos - 1 = {}
      BY <2>1
    <3> QED BY <3>1 DEF Over
  <2>3. FileSound(f, Over(C, f.pos, f.pos, value))
    BY <1>0, <2>2, SoundSame
  <2> QED BY <1>0, <2>1, <2>3 DEF WriteStates, Failed
<1> HIDE DEF S, step, N
<1>a. PICK h : Rounds(h, S, f, step, N)
  <2>1. N \in Nat /\ step \in [S -> S]
    BY <1>0, <1>4
  <2> QED BY <1>5, <2>1, LoopExists
<1>6. h \in [0 .. N -> S] /\ h[0] = f /\ \A n \in 1 .. N : h[n] = step[h[n - 1]]
  BY <1>a DEF Rounds
<1>7. IsWriting(h, f, end, value)
  <2> DEFINE B(n) == IF n = 0 THEN f ELSE WriteRound(h[n - 1], end, value)
  <2>1. ASSUME NEW n \in 0 .. N PROVE h[n] = B(n)
    <3>1. CASE n = 0
      BY <1>6, <3>1
    <3>2. CASE n # 0
      <4>1. n \in 1 .. N /\ n - 1 \in 0 .. N
        BY <1>0, <3>2
      <4>2. h[n - 1] \in S
        BY <1>6, <4>1
      <4> QED BY <1>4, <1>6, <3>2, <4>1, <4>2
    <3> QED BY <3>1, <3>2
  <2> HIDE DEF B
  <2>2. h = [n \in 0 .. N |-> B(n)]
    BY <1>6, <2>1
  <2> QED BY <2>2 DEF B, IsWriting, N
<1>8. IsWriting(a, f, end, value)
  <2>1. \E x : IsWriting(x, f, end, value)
    BY <1>7
  <2> QED BY <2>1, Zenon
<1> HIDE DEF a
<1>9. a[0] = f /\ \A n \in 1 .. N : a[n] = WriteRound(a[n - 1], end, value)
  <2> DEFINE B(n) == IF n = 0 THEN f ELSE WriteRound(a[n - 1], end, value)
  <2>1. a = [n \in 0 .. N |-> B(n)]
    BY <1>8 DEF IsWriting, N
  <2> HIDE DEF B
  <2>2. \A n \in 0 .. N : a[n] = B(n)
    BY <2>1
  <2>3. 0 \in 0 .. N /\ \A n \in 1 .. N : n \in 0 .. N /\ n # 0
    BY <1>0
  <2>4. B(0) = f /\ \A n \in 1 .. N : B(n) = WriteRound(a[n - 1], end, value)
    BY <2>3 DEF B
  <2> QED BY <2>2, <2>3, <2>4
<1>10. a[N] \in S
  BY <1>0, <1>3, <1>5, <1>9, LoopKeeps
<1> QED BY <1>10 DEF S, N, a

\* The handle with another error code.
LEMMA RetIs ==
    ASSUME NEW f, NEW C, FileSound(f, C), NEW r \in {"ok", "no space"}
    PROVE  LET g == [f EXCEPT !.ret = r] IN
           /\ FileSound(g, C) /\ g.open = f.open /\ g.pos = f.pos /\ g.inode = f.inode /\ g.ret = r /\ g.valid = f.valid
<1> DEFINE g == [f EXCEPT !.ret = r]
<1>0. f \in FileStates
  BY DEF FileSound
<1>1. /\ g \in FileStates /\ g.ret = r /\ g.open = f.open /\ g.pos = f.pos /\ g.inode = f.inode
      /\ g.blockno = f.blockno /\ g.physblock = f.physblock /\ g.buf = f.buf /\ g.valid = f.valid
      /\ g.dirty = f.dirty /\ g.free = f.free /\ g.disk = f.disk
  BY <1>0 DEF FileStates
<1> HIDE DEF g
<1>2. FileSound(g, C)
  BY <1>1, SoundSame
<1> QED BY <1>1, <1>2 DEF g

\* ext2fs_file_write: the cells up to where it got hold the value, and those it tried
\* may; what the file gains behind them may be zero.
LEMMA WriteIs ==
    ASSUME NEW f, NEW C, FileSound(f, C), f.ret = "ok", NEW n \in Nat \ {0}, f.pos + n <= MaxSize,
           NEW value \in Nat, \A i \in FileCells : i >= f.inode.size => 0 \in C[i]
    PROVE  LET g == ext2fs_file_write(f, n, value)
               D == Written(C, f.pos, g.pos, Min({f.pos + n, (g.pos \div Cells + 1) * Cells}), value)
           IN  /\ g.open = f.open /\ FileSound(g, D)
               /\ \A i \in FileCells : i >= g.inode.size => 0 \in D[i]
<1> DEFINE g == ext2fs_file_write(f, n, value)
           D == Written(C, f.pos, g.pos, Min({f.pos + n, (g.pos \div Cells + 1) * Cells}), value)
           from == f.pos
           end == f.pos + n
           after == CHOOSE a : IsWriting(a, f, end, value)
           w == after[FileBlocks + 1]
           tried == Min({end, (w.pos \div Cells + 1) * Cells})
           W == Written(C, from, w.pos, tried, value)
           v == Done(w)
           sized == ext2fs_file_set_size2(v, w.pos)
<1>0. f \in FileStates /\ from \in Nat /\ end \in Nat /\ end \in 0 .. MaxSize /\ from <= end /\ f.inode.size \in Nat
      /\ f.inode.size <= MaxSize /\ MaxSize \in Nat
  <2>1. f \in FileStates /\ MaxSize \in Nat
    BY FileConstants DEF FileSound
  <2>2. f.pos \in Nat /\ f.inode.size \in 0 .. MaxSize
    BY <2>1, FileFields
  <2> QED BY <2>1, <2>2
<1>1. g = IF w.pos > from /\ w.inode.size < w.pos
          THEN [sized EXCEPT !.ret = IF w.ret = "ok" THEN sized.ret ELSE w.ret]
          ELSE w
  BY DEF ext2fs_file_write, IsWriting, WriteRound
<1>2. w \in WriteStates(f, C, end, value)
  BY <1>0, WriteLoopIs
<1> HIDE DEF after, w, g, D
<1>3. /\ w \in FileStates /\ w.open = f.open /\ w.inode.size = f.inode.size /\ from <= w.pos /\ w.pos <= end /\ w.pos \in Nat
      /\ w.ret \in {"ok", "no space"}
  BY <1>2, FileFields DEF WriteStates
<1>4. FileSound(w, W)
  <2>1. CASE ~Failed(w)
    <3>1. FileSound(w, Over(C, from, w.pos, value))
      BY <1>2, <2>1 DEF WriteStates
    <3>2. \A i \in FileCells : Over(C, from, w.pos, value)[i] \subseteq W[i]
      BY DEF Over, Written
    <3> HIDE DEF W
    <3> QED BY <1>3, <3>1, <3>2, SoundSame
  <2>2. CASE Failed(w)
    <3>1. w.pos < end /\ FileSound(w, Written(C, from, w.pos, w.pos + Chunk(w.pos, end - w.pos), value))
      BY <1>2, <2>2 DEF WriteStates
    <3> HIDE DEF end
    <3>2. tried = w.pos + Chunk(w.pos, end - w.pos)
      BY <1>0, <1>3, <3>1, TriedIs
    <3> QED BY <3>1, <3>2
  <2> QED BY <2>1, <2>2
<1> HIDE DEF tried
<1> DEFINE to == w.pos
           size == w.inode.size
<1>p. from \in Nat /\ to \in Nat /\ size \in Nat /\ size = f.inode.size /\ from <= to /\ to \in 0 .. MaxSize
  <2>1. from \in Nat /\ to \in Nat /\ size \in Nat /\ from <= to /\ to <= end /\ size = f.inode.size
    BY <1>0, <1>3
  <2> HIDE DEF from, end, to
  <2>2. to \in 0 .. MaxSize
    BY <1>0, <2>1
  <2> QED BY <2>1, <2>2
<1>q. W = Written(C, from, to, tried, value)
  OBVIOUS
<1> HIDE DEF from, end, to, size, W
<1>5. /\ \A i \in FileCells : i \in Nat
      /\ \A i \in FileCells : i >= to => C[i] \subseteq W[i]
      /\ \A i \in FileCells : to <= from => C[i] \subseteq W[i]
  <2>1. \A i \in FileCells : i \in Nat
    BY FileConstants
  <2>2. ASSUME NEW i \in FileCells, i >= to \/ to <= from PROVE i \notin from .. to - 1
    BY <1>p, <2>1, <2>2
  <2>3. ASSUME NEW i \in FileCells, i \notin from .. to - 1 PROVE C[i] \subseteq W[i]
    BY <1>q, <2>3 DEF Written
  <2> QED BY <2>1, <2>2, <2>3
<1>6. CASE to > from /\ size < to
  <2>1. /\ FileSound(v, W) /\ v.open = w.open /\ v.pos = to /\ v.inode.size = size /\ v.ret = "ok"
    BY <1>4, RetIs DEF Done, to, size
  <2> HIDE DEF v
  <2>2. to >= v.inode.size
    BY <1>p, <1>6, <2>1
  <2>3. \A i \in FileCells : i >= to => 0 \in W[i]
    <3> SUFFICES ASSUME NEW i \in FileCells, i >= to PROVE 0 \in W[i]
      OBVIOUS
    <3>1. i >= size
      BY <1>p, <1>5, <1>6
    <3> QED BY <1>p, <1>5, <3>1
  <2>4. FileSound(sized, W) /\ sized.open = v.open /\ sized.pos = v.pos /\ sized.inode.size = to
    BY <1>p, <2>1, <2>2, <2>3, GrowIs DEF to
  <2> HIDE DEF sized
  <2> DEFINE r == IF w.ret = "ok" THEN sized.ret ELSE w.ret
  <2>5. r \in {"ok", "no space"}
    BY <1>3, <2>4, FileFields DEF FileSound
  <2>6. g = [sized EXCEPT !.ret = r]
    BY <1>1, <1>6 DEF to, size
  <2> HIDE DEF r
  <2>7. FileSound(g, W) /\ g.open = sized.open /\ g.pos = sized.pos /\ g.inode = sized.inode
    BY <2>4, <2>5, <2>6, RetIs
  <2>8. D = W
    BY <2>1, <2>4, <2>7 DEF W, tried, D, to, from, end
  <2> QED BY <1>3, <2>1, <2>3, <2>4, <2>7, <2>8 DEF g, D
<1>7. CASE ~(to > from /\ size < to)
  <2>1. g = w
    BY <1>1, <1>7 DEF to, size
  <2>2. D = W
    BY <2>1 DEF tried, D, W, from, end
  <2>3. ASSUME NEW i \in FileCells, i >= size PROVE 0 \in W[i]
    <3>1. i >= to \/ to <= from
      BY <1>p, <1>5, <1>7, <2>3
    <3>2. 0 \in C[i]
      BY <1>p, <2>3
    <3> QED BY <1>5, <3>1, <3>2
  <2> QED BY <1>3, <1>4, <2>1, <2>2, <2>3 DEF g, D, size
<1> QED BY <1>6, <1>7

\* ext2fs_file_open2 and ext2fs_file_close: a new handle has no buffer.
LEMMA HandleIs ==
    ASSUME NEW f, NEW C, FileSound(f, C), \A b : ~Ahead(f, b), NEW open \in BOOLEAN
    PROVE  LET g == Handle(f, open) IN
           FileSound(g, C) /\ ~g.valid /\ g.ret = "ok" /\ g.inode.size = f.inode.size
<1> DEFINE g == Handle(f, open)
<1>0. f \in FileStates /\ Zeros \in [Offsets -> CellSet]
  BY DEF FileSound, Zeros, CellSet
<1>1. /\ g \in FileStates /\ ~g.valid /\ ~g.dirty /\ g.ret = "ok" /\ g.inode = f.inode
      /\ g.free = f.free /\ g.disk = f.disk
  BY <1>0 DEF FileStates, Handle
<1> HIDE DEF g
<1>2. FileSound(g, C)
  BY <1>1, Dropped
<1> QED BY <1>1, <1>2 DEF g

LEMMA FileStarts == FileInit => FileIInv
<1> SUFFICES ASSUME FileInit PROVE FileIInv
  OBVIOUS
<1>1. FileBlocks \in Nat /\ MaxSize \in Nat
  BY FileConstants
<1> DEFINE stale == [p \in 1 .. DiskBlocks |-> [o \in Offsets |-> Stale]]
           node == [size |-> 0, map |-> [b \in 0 .. FileBlocks - 1 |-> 0], uninit |-> {}]
<1>2. Zeros \in [Offsets -> CellSet] /\ stale \in [Physical -> [Offsets -> CellSet]]
  BY DEF Zeros, CellSet, Physical
<1>3. node \in FileInodes /\ node.size = 0 /\ node.uninit = {} /\ \A b \in Logical : node.map[b] = 0
  BY <1>1 DEF FileInodes, Logical
<1> HIDE DEF stale, node
<1>4. file = [open |-> FALSE, pos |-> 0, blockno |-> 0, physblock |-> 0, buf |-> Zeros,
               valid |-> FALSE, dirty |-> FALSE, ret |-> "ok", inode |-> node, disk |-> stale, free |-> 1 .. DiskBlocks]
  BY DEF FileInit, stale, node
<1>5. /\ file \in FileStates /\ file.inode = node /\ ~file.valid /\ ~file.dirty /\ file.ret = "ok"
      /\ file.free = Physical
  BY <1>2, <1>3, <1>4 DEF FileStates, Physical
<1>6. 0 \notin Physical
  BY DEF Physical
<1>7. Mapped(file) /\ AtItsBlock(file)
  BY <1>3, <1>5, <1>6 DEF Mapped, AtItsBlock
<1>8. \A i \in FileCells : OnDisk(file, i) = 0
  BY <1>3, <1>5, CellBlock DEF OnDisk
<1>9. \A i \in FileCells : content[i] = {0}
  BY DEF FileInit
<1>10. FileSound(file, content)
  BY <1>5, <1>7, <1>8, <1>9 DEF FileSound, Shows
<1> QED BY <1>5, <1>9, <1>10 DEF FileIInv

\* The end of a step: the call's error code is cleared.
LEMMA DoneIs ==
    ASSUME NEW g, NEW D, FileSound(g, D), g.open, \A i \in FileCells : i >= g.inode.size => 0 \in D[i],
           file' = Done(g), content' = D
    PROVE  FileIInv'
<1>1. /\ FileSound(Done(g), D) /\ Done(g).open = g.open /\ Done(g).inode = g.inode /\ Done(g).ret = "ok"
  BY RetIs DEF Done
<1>2. FileSound(file', content') /\ file'.ret = "ok" /\ file'.open /\ file'.inode = g.inode
  BY <1>1
<1> HIDE DEF Done
<1>3. FileSound(file, content)' /\ (file.ret = "ok")' /\ (file.open)'
  BY <1>2 DEF FileSound, Mapped, AtItsBlock, Shows, OnDisk, Ahead
<1> QED BY <1>2, <1>3 DEF FileIInv

LEMMA FileOpenKeeps == FileIInv /\ FileOpen => FileIInv'
<1> SUFFICES ASSUME FileIInv, FileOpen PROVE FileIInv'
  OBVIOUS
<1>1. FileSound(file, content) /\ ~file.open /\ ~file.valid /\ file' = Handle(file, TRUE) /\ content' = content
  BY DEF FileIInv, FileOpen
<1>2. \A b : ~Ahead(file, b)
  BY <1>1 DEF FileSound, AtItsBlock, Ahead
<1>3. /\ FileSound(file', content') /\ ~file'.valid /\ file'.ret = "ok" /\ file'.inode.size = file.inode.size
  BY <1>1, <1>2, HandleIs
<1> QED BY <1>1, <1>3 DEF FileIInv

LEMMA FileCloseKeeps == FileIInv /\ FileClose => FileIInv'
<1> SUFFICES ASSUME FileIInv, FileClose PROVE FileIInv'
  OBVIOUS
<1> DEFINE g == ext2fs_file_flush(file)
<1>1. FileSound(file, content) /\ file.ret = "ok" /\ file' = Handle(g, FALSE) /\ content' = content
  BY DEF FileIInv, FileClose
<1>2. FileSound(g, content) /\ g.inode.size = file.inode.size /\ \A b : ~Ahead(g, b)
  BY <1>1, FlushIs DEF SamePlace
<1> HIDE DEF g
<1>3. /\ FileSound(file', content') /\ ~file'.valid /\ file'.ret = "ok" /\ file'.inode.size = g.inode.size
  BY <1>1, <1>2, HandleIs
<1> QED BY <1>1, <1>2, <1>3 DEF FileIInv

LEMMA FileFlushKeeps == FileIInv /\ FileFlush => FileIInv'
<1> SUFFICES ASSUME FileIInv, FileFlush PROVE FileIInv'
  OBVIOUS
<1> DEFINE g == ext2fs_file_flush(file)
<1>1. FileSound(file, content) /\ file.ret = "ok" /\ file.open /\ file' = Done(g) /\ content' = content
  BY DEF FileIInv, FileFlush
<1>2. FileSound(g, content) /\ g.inode.size = file.inode.size /\ g.open
  BY <1>1, FlushIs DEF SamePlace
<1> HIDE DEF g
<1>3. \A i \in FileCells : i >= g.inode.size => 0 \in content[i]
  BY <1>2 DEF FileIInv
<1> QED BY <1>1, <1>2, <1>3, DoneIs

LEMMA FileReadKeeps == ASSUME NEW n \in Nat PROVE FileIInv /\ FileRead(n) => FileIInv'
<1> SUFFICES ASSUME FileIInv, FileRead(n) PROVE FileIInv'
  OBVIOUS
<1> DEFINE g == ext2fs_file_read(file, n)
<1>1. FileSound(file, content) /\ file.ret = "ok" /\ file.open /\ file' = Done(g) /\ content' = content
  BY DEF FileIInv, FileRead
<1>2. FileSound(g, content) /\ g.inode.size = file.inode.size /\ g.open
  BY <1>1, ReadIs
<1> HIDE DEF g
<1>3. \A i \in FileCells : i >= g.inode.size => 0 \in content[i]
  BY <1>2 DEF FileIInv
<1> QED BY <1>1, <1>2, <1>3, DoneIs

LEMMA FileWriteKeeps ==
    ASSUME NEW n \in Nat \ {0}, NEW value \in Nat PROVE FileIInv /\ FileWrite(n, value) => FileIInv'
<1> SUFFICES ASSUME FileIInv, FileWrite(n, value) PROVE FileIInv'
  OBVIOUS
<1> DEFINE g == ext2fs_file_write(file, n, value)
           D == Written(content, file.pos, g.pos, Min({file.pos + n, (g.pos \div Cells + 1) * Cells}), value)
<1>1. /\ FileSound(file, content) /\ file.ret = "ok" /\ file.open /\ file' = Done(g) /\ file.pos + n <= MaxSize
      /\ \A i \in FileCells : i >= file.inode.size => 0 \in content[i]
  BY DEF FileIInv, FileWrite
<1>2. /\ g.open = file.open /\ FileSound(g, D)
      /\ \A i \in FileCells : i >= g.inode.size => 0 \in D[i]
  BY <1>1, WriteIs
<1>3. file'.pos = g.pos
  <2> HIDE DEF g, D
  <2> QED BY <1>1, <1>2, RetIs DEF Done
<1>4. content' = D
  BY <1>3 DEF FileWrite, Written
<1> HIDE DEF g, D
<1> QED BY <1>1, <1>2, <1>4, DoneIs

LEMMA FileSetSizeKeeps ==
    ASSUME ~TruncatesUsed, NEW size \in 0 .. MaxSize PROVE FileIInv /\ FileSetSize(size) => FileIInv'
<1> SUFFICES ASSUME FileIInv, FileSetSize(size) PROVE FileIInv'
  OBVIOUS
<1> DEFINE g == ext2fs_file_set_size2(file, size)
           old == file.inode.size
<1>1. /\ FileSound(file, content) /\ file.ret = "ok" /\ file.open /\ file' = Done(g)
      /\ size >= old \/ ~file.valid
      /\ content' = Cut(content, size, old)
      /\ \A i \in FileCells : i >= old => 0 \in content[i]
  BY DEF FileIInv, FileSetSize, Cut
<1>2. old \in Nat /\ size \in Nat /\ \A i \in FileCells : i \in Nat
  <2>1. old \in 0 .. MaxSize /\ MaxSize \in Nat /\ \A i \in FileCells : i \in Nat
    BY <1>1, FileFields, FileConstants DEF FileSound
  <2> QED BY <2>1
<1>3. CASE size >= old
  <2>1. \A i \in FileCells : i >= size => 0 \in content[i]
    BY <1>1, <1>2, <1>3
  <2>2. FileSound(g, content) /\ g.open = file.open /\ g.inode.size = size
    BY <1>1, <1>3, <2>1, GrowIs
  <2>3. \A i \in FileCells : content[i] \subseteq content'[i] /\ (i >= size => 0 \in content'[i])
    <3>1. size .. old - 1 = {}
      BY <1>2, <1>3
    <3> QED BY <1>1, <2>1, <3>1 DEF Cut
  <2> HIDE DEF g
  <2>4. FileSound(g, content')
    BY <2>2, <2>3, SoundSame DEF FileSound
  <2> QED BY <1>1, <2>2, <2>3, <2>4, DoneIs
<1>4. CASE ~(size >= old)
  <2>1. size < old /\ ~file.valid
    BY <1>1, <1>2, <1>4
  <2>2. FileSound(g, content') /\ g.open = file.open /\ g.inode.size = size
    BY <1>1, <2>1, ShrinkIs
  <2> HIDE DEF g
  <2>3. \A i \in FileCells : i >= size => 0 \in content'[i]
    <3> SUFFICES ASSUME NEW i \in FileCells, i >= size PROVE 0 \in content'[i]
      OBVIOUS
    <3>1. i \in size .. old - 1 \/ i >= old
      BY <1>2
    <3> QED BY <1>1, <3>1 DEF Cut
  <2> QED BY <1>1, <2>2, <2>3, DoneIs
<1> QED BY <1>3, <1>4

LEMMA FileSeekKeeps == ASSUME NEW pos \in Nat PROVE FileIInv /\ FileSeek(pos) => FileIInv'
<1> SUFFICES ASSUME FileIInv, FileSeek(pos) PROVE FileIInv'
  OBVIOUS
<1> DEFINE g == [file EXCEPT !.pos = pos]
<1>1. FileSound(file, content) /\ file \in FileStates /\ file.ret = "ok" /\ file.open /\ file' = g /\ content' = content
  BY DEF FileIInv, FileSeek, FileSound
<1>2. /\ g \in FileStates /\ g.ret = file.ret /\ g.open = file.open /\ g.inode = file.inode
      /\ g.blockno = file.blockno /\ g.physblock = file.physblock /\ g.buf = file.buf /\ g.valid = file.valid
      /\ g.dirty = file.dirty /\ g.free = file.free /\ g.disk = file.disk
  BY <1>1 DEF FileStates
<1> HIDE DEF g
<1>3. FileSound(g, content)
  BY <1>1, <1>2, SoundSame
<1>4. FileSound(file', content')
  BY <1>1, <1>3
<1> QED BY <1>1, <1>2, <1>4 DEF FileIInv

LEMMA PreallocKeeps == ASSUME NEW b \in Logical PROVE FileIInv /\ Prealloc(b) => FileIInv'
<1> SUFFICES ASSUME FileIInv, Prealloc(b) PROVE FileIInv'
  OBVIOUS
<1> DEFINE p == Min(file.free)
           node == [file.inode EXCEPT !.map = [file.inode.map EXCEPT ![b] = p], !.uninit = file.inode.uninit \cup {b}]
           g == [file EXCEPT !.inode = node, !.free = file.free \ {p}]
<1>1. /\ file \in FileStates /\ Mapped(file) /\ AtItsBlock(file) /\ Shows(file, content)
      /\ ~file.open /\ ~file.valid /\ file.ret = "ok" /\ file.inode.map[b] = 0 /\ file.free # {} /\ content' = content
  BY DEF FileIInv, Prealloc, FileSound
<1>2. file' = g
  BY <1>1 DEF Prealloc, FileStates, FileInodes
<1>3. /\ file.inode.map \in [Logical -> Physical \cup {0}] /\ file.inode.uninit \subseteq Logical
      /\ file.free \subseteq Physical /\ file.inode \in FileInodes
  BY <1>1, FileFields
<1>4. p \in file.free /\ p \in Physical /\ p # 0
  <2>1. Physical \subseteq Nat \ {0}
    BY FileConstants DEF Physical
  <2>2. file.free \subseteq Nat
    BY <1>3, <2>1
  <2>3. p \in file.free
    BY <1>1, <2>2, MinIs
  <2> QED BY <1>3, <2>1, <2>3
<1> HIDE DEF p
<1>5. /\ node \in FileInodes /\ node.size = file.inode.size /\ node.map = [file.inode.map EXCEPT ![b] = p]
      /\ node.uninit = file.inode.uninit \cup {b}
  BY <1>3, <1>4 DEF FileInodes
<1> HIDE DEF node
<1>6. /\ g \in FileStates /\ g.inode = node /\ g.free = file.free \ {p} /\ g.disk = file.disk
      /\ g.valid = file.valid /\ g.dirty = file.dirty /\ g.open = file.open /\ g.ret = file.ret
  <2>1. file.free \ {p} \in SUBSET Physical
    BY <1>3
  <2> QED BY <1>1, <1>5, <2>1 DEF FileStates
<1> HIDE DEF g
<1>7. g.inode.map[b] = p /\ \A c \in Logical : c # b => g.inode.map[c] = file.inode.map[c]
  BY <1>3, <1>5, <1>6
<1>8. Mapped(g)
  BY <1>1, <1>3, <1>4, <1>5, <1>6, <1>7 DEF Mapped
<1>9. ~file.dirty /\ AtItsBlock(g)
  BY <1>1, <1>6 DEF AtItsBlock
<1>10. ASSUME NEW i \in FileCells PROVE OnDisk(g, i) = OnDisk(file, i)
  <2> DEFINE c == i \div Cells
  <2>1. c \in Logical
    BY CellBlock
  <2>2. CASE c = b
    BY <1>1, <1>5, <1>6, <2>2 DEF OnDisk
  <2>3. CASE c # b
    BY <1>5, <1>6, <1>7, <2>1, <2>3 DEF OnDisk
  <2> QED BY <2>2, <2>3
<1>11. Shows(g, content)
  BY <1>1, <1>6, <1>9, <1>10 DEF Shows, Ahead
<1>12. FileSound(g, content)
  BY <1>6, <1>8, <1>9, <1>11 DEF FileSound
<1>13. FileSound(file', content')
  BY <1>1, <1>2, <1>12
<1>14. file'.ret = "ok" /\ ~file'.valid /\ file'.inode.size = file.inode.size
  BY <1>1, <1>2, <1>5, <1>6
<1> QED BY <1>1, <1>13, <1>14 DEF FileIInv

LEMMA OthersAllocateKeeps == FileIInv /\ OthersAllocate => FileIInv'
<1> SUFFICES ASSUME FileIInv, OthersAllocate PROVE FileIInv'
  OBVIOUS
<1> DEFINE free == IF file.free = {} THEN 1 .. DiskBlocks \ Owned(file) ELSE {}
           g == [file EXCEPT !.free = free]
<1>1. /\ file \in FileStates /\ Mapped(file) /\ AtItsBlock(file) /\ Shows(file, content)
      /\ file.ret = "ok" /\ file' = g /\ content' = content
  BY DEF FileIInv, OthersAllocate, FileSound
<1>2. file.inode.map \in [Logical -> Physical \cup {0}]
  BY <1>1, FileFields
<1>3. free \in SUBSET Physical /\ \A b \in Logical : file.inode.map[b] \notin free
  <2>1. 0 \notin Physical
    BY DEF Physical
  <2> QED BY <1>2, <2>1 DEF Owned, Physical, Logical
<1> HIDE DEF free
<1>4. /\ g \in FileStates /\ g.free = free /\ g.inode = file.inode /\ g.disk = file.disk /\ g.ret = file.ret
      /\ g.valid = file.valid /\ g.dirty = file.dirty /\ g.open = file.open /\ g.blockno = file.blockno
      /\ g.physblock = file.physblock /\ g.buf = file.buf
  BY <1>1, <1>3 DEF FileStates
<1> HIDE DEF g
<1>5. Mapped(g) /\ AtItsBlock(g)
  BY <1>1, <1>3, <1>4 DEF Mapped, AtItsBlock
<1>6. Shows(g, content)
  BY <1>1, <1>4 DEF Shows, Ahead, OnDisk
<1>7. FileSound(file', content')
  BY <1>1, <1>4, <1>5, <1>6 DEF FileSound
<1> QED BY <1>1, <1>4, <1>7 DEF FileIInv

LEMMA FileKeeps == ASSUME ~TruncatesUsed PROVE FileIInv /\ [FileNext]_fileVars => FileIInv'
<1> SUFFICES ASSUME FileIInv, [FileNext]_fileVars PROVE FileIInv'
  OBVIOUS
<1>1. SeekTo \subseteq Nat /\ CellValues \subseteq Nat /\ \A n \in {1, Cells + 1} : n \in Nat \ {0} /\ n \in Nat
  BY FileIOAssumption
<1>2. CASE UNCHANGED fileVars
  <2>1. file' = file /\ content' = content
    BY <1>2 DEF fileVars
  <2> QED BY <2>1 DEF FileIInv
<1>3. CASE FileOpen \/ FileFlush \/ FileClose \/ OthersAllocate
  BY <1>3, FileOpenKeeps, FileFlushKeeps, FileCloseKeeps, OthersAllocateKeeps
<1>4. ASSUME NEW b \in 0 .. FileBlocks - 1, Prealloc(b) PROVE FileIInv'
  BY <1>4, PreallocKeeps DEF Logical
<1>5. ASSUME NEW pos \in SeekTo, FileSeek(pos) PROVE FileIInv'
  BY <1>1, <1>5, FileSeekKeeps
<1>6. ASSUME NEW size \in 0 .. MaxSize, FileSetSize(size) PROVE FileIInv'
  BY <1>6, FileSetSizeKeeps
<1>7. ASSUME NEW n \in {1, Cells + 1}, FileRead(n) PROVE FileIInv'
  BY <1>1, <1>7, FileReadKeeps
<1>8. ASSUME NEW n \in {1, Cells + 1}, NEW value \in CellValues, FileWrite(n, value) PROVE FileIInv'
  BY <1>1, <1>8, FileWriteKeeps
<1> QED BY <1>2, <1>3, <1>4, <1>5, <1>6, <1>7, <1>8 DEF FileNext

\* A read gets from the buffer or the disk what the invariant says is there.
LEMMA FileReads == FileIInv => FileIOCorrect
<1> SUFFICES ASSUME FileIInv PROVE FileIOCorrect
  OBVIOUS
<1>1. file \in FileStates /\ Mapped(file) /\ AtItsBlock(file) /\ Shows(file, content)
  BY DEF FileIInv, FileSound
<1>2. BufferHasItsBlock
  BY <1>1 DEF BufferHasItsBlock, AtItsBlock
<1>3. ASSUME NEW i \in FileCells PROVE CellAt(file, i) \in content[i]
  <2> DEFINE b == i \div Cells
             o == i % Cells
             h == IF b = file.blockno THEN file ELSE [file EXCEPT !.valid = FALSE, !.blockno = b]
             g == load_buffer(h, FALSE)
  <2>1. b \in Logical /\ o \in Offsets /\ CellAt(file, i) = g.buf[o]
    BY CellBlock DEF CellAt
  <2>2. CASE b = file.blockno /\ file.valid
    <3>1. g = file
      BY <2>2 DEF load_buffer
    <3> QED BY <1>1, <2>1, <2>2, <3>1 DEF Shows
  <2>3. CASE ~(b = file.blockno /\ file.valid)
    <3>1. /\ h \in FileStates /\ ~h.valid /\ h.blockno = b /\ h.inode = file.inode /\ h.disk = file.disk
      <4>1. b \in Nat
        BY <2>1, FileConstants DEF Logical
      <4> HIDE DEF b
      <4> QED BY <1>1, <2>3, <4>1 DEF FileStates
    <3> HIDE DEF h
    <3>2. g.buf = IF h.inode.map[b] # 0 /\ b \notin h.inode.uninit THEN h.disk[h.inode.map[b]] ELSE Zeros
      BY <3>1 DEF load_buffer, FileBmap, FileStates
    <3>3. g.buf[o] = OnDisk(file, i)
      BY <2>1, <3>1, <3>2 DEF OnDisk, Zeros
    <3>4. ~Ahead(file, b)
      BY <1>1, <2>3 DEF Ahead, AtItsBlock
    <3> QED BY <1>1, <2>1, <3>3, <3>4 DEF Shows
  <2> QED BY <2>2, <2>3
<1> QED BY <1>2, <1>3 DEF FileIOCorrect, ReadsWhatWasWritten

\* Whatever is written through a handle is read back, by that handle and later ones, and
\* what was not written reads as zero and never as old data of another file, through
\* holes, preallocated blocks, writes and flushes that find no space, and files that grow
\* and shrink; the buffer keeps to the block of the file it was read from.  The hypothesis
\* leaves out one order of calls, shortening a file while its buffer is in use, for which
\* it is not true.
THEOREM FilesReadBack == ASSUME ~TruncatesUsed PROVE FileSpec => []FileIOCorrect
<1>1. FileInit => FileIInv
  BY FileStarts
<1>2. FileIInv /\ [FileNext]_fileVars => FileIInv'
  BY FileKeeps
<1>3. FileIInv => FileIOCorrect
  BY FileReads
<1> QED BY <1>1, <1>2, <1>3, PTL DEF FileSpec

=============================================================================
