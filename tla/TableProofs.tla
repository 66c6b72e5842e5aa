---------------------------- MODULE TableProofs ----------------------------
(***************************************************************************)
(* The sorted tables of lib/ext2fs/icount.c and e2fsck/ea_refcount.c, and  *)
(* what is counted in them.  First what the binary search and the          *)
(* insertion of SortedTable do; then that the link counts of inodes are    *)
(* exact, and that pass 1 puts the reference counts of extended attribute  *)
(* blocks right, each from an inductive invariant (Counts, EaSound).       *)
(***************************************************************************)
EXTENDS Icount, EaRefcount, FiniteSetTheorems, WellFoundedInduction, NaturalsInduction, TLAPS

\* A set of natural numbers that is not empty has a least element: what replaces
\* induction over the steps of the search and of the collapse.
LEMMA NatMin == ASSUME NEW T, T \subseteq Nat, T # {} PROVE \E x \in T : \A y \in T : x <= y
<1>1. IsWellFoundedOn(OpToRel(<, Nat), Nat)
  BY NatLessThanWellFounded
<1>2. PICK x \in T : \A y \in T : ~ (<<y, x>> \in OpToRel(<, Nat))
  BY <1>1, WFMin
<1>3. \A y \in T : ~(y < x)
  BY <1>2 DEF OpToRel
<1> QED BY <1>3

\* Entries, and a sorted list of them.
Entries(K) == [key : K, val : Nat]
Table(list, K) == K \subseteq Nat /\ list \in Seq(Entries(K)) /\ Sorted(list)

\* The entries of a sorted table: their keys determine their places.
LEMMA TableFields ==
  ASSUME NEW K, NEW list, Table(list, K)
  PROVE  /\ Len(list) \in Nat
         /\ \A i \in 1 .. Len(list) : list[i] \in Entries(K) /\ list[i].key \in K /\ list[i].key \in Nat /\ list[i].val \in Nat
         /\ \A i, j \in 1 .. Len(list) : i < j => list[i].key < list[j].key
         /\ \A i, j \in 1 .. Len(list) : list[i].key = list[j].key => i = j
<1>1. Len(list) \in Nat /\ \A i \in 1 .. Len(list) : list[i] \in Entries(K)
  BY DEF Table
<1>2. \A i \in 1 .. Len(list) : list[i].key \in K /\ list[i].key \in Nat /\ list[i].val \in Nat
  BY <1>1 DEF Table, Entries
<1>3. \A i, j \in 1 .. Len(list) : i < j => list[i].key < list[j].key
  BY DEF Table, Sorted
<1>4. \A i, j \in 1 .. Len(list) : list[i].key = list[j].key => i = j
  BY <1>1, <1>2, <1>3
<1> QED BY <1>1, <1>2, <1>3, <1>4

\* The ranges of the search, its body, and what it looks for.
SearchRanges(list) == (1 .. Len(list) + 1) \X (0 .. Len(list))
Probe(list, key, look, range) ==
  LET low == range[1]
      high == range[2]
      mid == (low + high) \div 2
  IN  IF low > high THEN <<low, FALSE>>
      ELSE IF key = list[mid].key THEN <<mid, TRUE>>
      ELSE IF key < list[mid].key THEN look[<<low, mid - 1>>]
      ELSE look[<<mid + 1, high>>]
IsSearch(look, list, key) == look = [range \in SearchRanges(list) |-> Probe(list, key, look, range)]

\* p is the place of the key, or where it belongs, among low .. high.
Ends(list, key, low, high, p, hit) ==
  IF hit THEN p \in low .. high /\ list[p].key = key
  ELSE /\ p \in low .. high + 1
       /\ \A i \in low .. p - 1 : list[i].key < key
       /\ \A i \in p .. high : key < list[i].key

\* The middle of a range is in it.
LEMMA Middle ==
  ASSUME NEW low \in Nat, NEW high \in Nat, low <= high
  PROVE  (low + high) \div 2 \in low .. high
OBVIOUS

\* Where the search has to end, without a search.
Goal(list, key, low, high) ==
  IF low > high THEN <<low, FALSE>>
  ELSE IF \E i \in low .. high : list[i].key = key
  THEN <<CHOOSE i \in low .. high : list[i].key = key, TRUE>>
  ELSE <<CHOOSE p \in low .. high + 1 : Ends(list, key, low, high, p, FALSE), FALSE>>

\* Of a key there is at most one entry, or else one place where it belongs.
LEMMA PlaceIsOne ==
  ASSUME NEW K, NEW list, Table(list, K), NEW key \in Nat, NEW low \in Nat \ {0},
         NEW high \in Nat, high <= Len(list), low <= high
  PROVE  /\ \A i, j \in low .. high : list[i].key = key /\ list[j].key = key => i = j
         /\ \A p, q \in low .. high + 1 : Ends(list, key, low, high, p, FALSE) /\ Ends(list, key, low, high, q, FALSE) => p = q
         /\ \A p \in low .. high + 1 : Ends(list, key, low, high, p, FALSE) => \A i \in low .. high : list[i].key # key
<1>1. \A i \in low .. high : i \in 1 .. Len(list) /\ list[i].key \in Nat
  BY TableFields
<1>2. \A i, j \in low .. high : list[i].key = key /\ list[j].key = key => i = j
  BY <1>1, TableFields
<1>3. ASSUME NEW p \in low .. high + 1, NEW q \in low .. high + 1,
             Ends(list, key, low, high, p, FALSE), Ends(list, key, low, high, q, FALSE), p < q
      PROVE  FALSE
  <2>1. p \in low .. q - 1 /\ p \in p .. high /\ p \in low .. high
    BY <1>3
  <2>2. list[p].key < key /\ key < list[p].key
    BY <1>3, <2>1 DEF Ends
  <2> QED BY <1>1, <2>1, <2>2
<1>4. ASSUME NEW p \in low .. high + 1, Ends(list, key, low, high, p, FALSE), NEW i \in low .. high PROVE list[i].key # key
  <2>1. i \in low .. p - 1 \/ i \in p .. high
    BY <1>4
  <2>2. list[i].key < key \/ key < list[i].key
    BY <1>4, <2>1 DEF Ends
  <2> QED BY <1>1, <2>2
<1>5. ASSUME NEW p \in low .. high + 1, NEW q \in low .. high + 1,
             Ends(list, key, low, high, p, FALSE), Ends(list, key, low, high, q, FALSE)
      PROVE  p = q
  <2>1. ~(p < q) /\ ~(q < p)
    BY <1>3, <1>5
  <2> QED BY <2>1
<1> QED BY <1>2, <1>4, <1>5

\* One of the two there is.
LEMMA EndsExist ==
  ASSUME NEW K, NEW list, Table(list, K), NEW key \in Nat, NEW low \in Nat \ {0},
         NEW high \in Nat, high <= Len(list), low <= high + 1,
         \A i \in low .. high : list[i].key # key
  PROVE  \E p \in low .. high + 1 : Ends(list, key, low, high, p, FALSE)
<1> DEFINE T == {p \in low .. high + 1 : p = high + 1 \/ key < list[p].key}
<1>1. T \subseteq Nat /\ high + 1 \in T
  OBVIOUS
<1>2. PICK p \in T : \A y \in T : p <= y
  BY <1>1, NatMin
<1>3. \A i \in low .. high : i \in 1 .. Len(list) /\ list[i].key \in Nat
  BY TableFields
<1>4. ASSUME NEW i \in low .. p - 1 PROVE list[i].key < key
  <2>1. i \in low .. high /\ i \notin T
    BY <1>2
  <2> QED BY <1>3, <2>1
<1>5. ASSUME NEW i \in p .. high PROVE key < list[i].key
  <2>1. p # high + 1 /\ p \in low .. high /\ key < list[p].key /\ i \in low .. high
    BY <1>2
  <2>2. i = p \/ list[p].key < list[i].key
    BY <1>3, <2>1, TableFields
  <2> QED BY <1>3, <2>1, <2>2
<1> QED BY <1>2, <1>4, <1>5 DEF Ends

\* The search ends with r.
EndsWith(r, list, key, low, high) ==
  r = <<r[1], r[2]>> /\ r[1] \in Nat /\ r[2] \in BOOLEAN /\ Ends(list, key, low, high, r[1], r[2])

\* Such a pair ends the search.
LEMMA EndsAt ==
  ASSUME NEW list, NEW key, NEW low, NEW high, NEW p \in Nat, NEW hit \in BOOLEAN, Ends(list, key, low, high, p, hit)
  PROVE  EndsWith(<<p, hit>>, list, key, low, high)
BY DEF EndsWith

\* The goal is where the key is, or belongs.
LEMMA GoalIs ==
  ASSUME NEW K, NEW list, Table(list, K), NEW key \in Nat, NEW low \in Nat \ {0},
         NEW high \in Nat, high <= Len(list), low <= high + 1
  PROVE  EndsWith(Goal(list, key, low, high), list, key, low, high)
<1>1. CASE low > high
  <2>1. Goal(list, key, low, high) = <<low, FALSE>>
    BY <1>1 DEF Goal
  <2>2. Ends(list, key, low, high, low, FALSE)
    BY <1>1 DEF Ends
  <2> QED BY <2>1, <2>2, EndsAt
<1>2. CASE ~(low > high) /\ \E i \in low .. high : list[i].key = key
  <2> DEFINE p == CHOOSE i \in low .. high : list[i].key = key
  <2>1. p \in low .. high /\ list[p].key = key
    BY <1>2
  <2>2. Goal(list, key, low, high) = <<p, TRUE>>
    BY <1>2 DEF Goal
  <2> HIDE DEF p
  <2>3. Ends(list, key, low, high, p, TRUE) /\ p \in Nat
    BY <2>1 DEF Ends
  <2> QED BY <2>2, <2>3, EndsAt
<1>3. CASE ~(low > high) /\ \A i \in low .. high : list[i].key # key
  <2> DEFINE p == CHOOSE p \in low .. high + 1 : Ends(list, key, low, high, p, FALSE)
  <2>1. Ends(list, key, low, high, p, FALSE) /\ p \in low .. high + 1
    BY <1>3, EndsExist
  <2>2. Goal(list, key, low, high) = <<p, FALSE>>
    BY <1>3 DEF Goal
  <2> HIDE DEF p
  <2>3. p \in Nat
    BY <2>1
  <2> QED BY <2>1, <2>2, <2>3, EndsAt
<1> QED BY <1>1, <1>2, <1>3

\* Two ways to end at the same place.
LEMMA EndsOnce ==
  ASSUME NEW K, NEW list, Table(list, K), NEW key \in Nat, NEW low \in Nat \ {0},
         NEW high \in Nat, high <= Len(list), low <= high + 1,
         NEW r, NEW s, EndsWith(r, list, key, low, high), EndsWith(s, list, key, low, high)
  PROVE  r = s
<1>1. /\ r = <<r[1], r[2]>> /\ r[1] \in Nat /\ r[2] \in BOOLEAN /\ Ends(list, key, low, high, r[1], r[2])
      /\ s = <<s[1], s[2]>> /\ s[1] \in Nat /\ s[2] \in BOOLEAN /\ Ends(list, key, low, high, s[1], s[2])
  BY DEF EndsWith
<1> DEFINE p == r[1]
           q == s[1]
<1>2. r[2] = s[2] /\ p = q
  <2>1. CASE low > high
    <3>1. low .. high = {} /\ low .. high + 1 = {low}
      BY <2>1
    <3> QED BY <1>1, <3>1 DEF Ends
  <2>2. CASE low <= high
    <3>0. /\ \A i, j \in low .. high : list[i].key = key /\ list[j].key = key => i = j
          /\ \A x, y \in low .. high + 1 : Ends(list, key, low, high, x, FALSE) /\ Ends(list, key, low, high, y, FALSE) => x = y
          /\ \A x \in low .. high + 1 : Ends(list, key, low, high, x, FALSE) => \A i \in low .. high : list[i].key # key
      BY <2>2, PlaceIsOne
    <3>1. CASE r[2] = TRUE /\ s[2] = TRUE
      BY <3>0, <3>1, <1>1 DEF Ends
    <3>2. CASE r[2] = FALSE /\ s[2] = FALSE
      <4>1. p \in low .. high + 1 /\ q \in low .. high + 1 /\ Ends(list, key, low, high, p, FALSE) /\ Ends(list, key, low, high, q, FALSE)
        BY <1>1, <3>2 DEF Ends
      <4> QED BY <4>1, <3>0, <3>2
    <3>3. CASE r[2] = TRUE /\ s[2] = FALSE
      <4>1. q \in low .. high + 1 /\ Ends(list, key, low, high, q, FALSE) /\ p \in low .. high /\ list[p].key = key
        BY <1>1, <3>3 DEF Ends
      <4> QED BY <4>1, <3>0
    <3>4. CASE r[2] = FALSE /\ s[2] = TRUE
      <4>1. p \in low .. high + 1 /\ Ends(list, key, low, high, p, FALSE) /\ q \in low .. high /\ list[q].key = key
        BY <1>1, <3>4 DEF Ends
      <4> QED BY <4>1, <3>0
    <3> QED BY <1>1, <3>1, <3>2, <3>3, <3>4
  <2> QED BY <2>1, <2>2
<1> QED BY <1>1, <1>2

\* A half in which the key may be decides the whole.
LEMMA HalfDecides ==
  ASSUME NEW K, NEW list, Table(list, K), NEW key \in Nat, NEW low \in Nat \ {0},
         NEW high \in Nat, high <= Len(list), low <= high,
         NEW mid \in low .. high, NEW r
  PROVE  /\ key = list[mid].key => EndsWith(<<mid, TRUE>>, list, key, low, high)
         /\ key < list[mid].key /\ EndsWith(r, list, key, low, mid - 1) => EndsWith(r, list, key, low, high)
         /\ list[mid].key < key /\ EndsWith(r, list, key, mid + 1, high) => EndsWith(r, list, key, low, high)
<1>1. \A i \in low .. high : i \in 1 .. Len(list) /\ list[i].key \in Nat
  BY TableFields
<1>2. ASSUME key = list[mid].key PROVE EndsWith(<<mid, TRUE>>, list, key, low, high)
  <2>1. Ends(list, key, low, high, mid, TRUE) /\ mid \in Nat
    BY <1>2 DEF Ends
  <2> QED BY <2>1, EndsAt
<1>3. ASSUME key < list[mid].key, EndsWith(r, list, key, low, mid - 1) PROVE EndsWith(r, list, key, low, high)
  <2>0. /\ r = <<r[1], r[2]>> /\ r[1] \in Nat /\ r[2] \in BOOLEAN /\ Ends(list, key, low, mid - 1, r[1], r[2])
    BY <1>3 DEF EndsWith
  <2>1. \A i \in mid .. high : key < list[i].key
    <3> TAKE i \in mid .. high
    <3>1. i = mid \/ list[mid].key < list[i].key
      BY <1>1, TableFields
    <3> QED BY <3>1, <1>1, <1>3
  <2>2. Ends(list, key, low, high, r[1], r[2])
    BY <2>0, <2>1 DEF Ends
  <2> QED BY <2>0, <2>2 DEF EndsWith
<1>4. ASSUME list[mid].key < key, EndsWith(r, list, key, mid + 1, high) PROVE EndsWith(r, list, key, low, high)
  <2>0. /\ r = <<r[1], r[2]>> /\ r[1] \in Nat /\ r[2] \in BOOLEAN /\ Ends(list, key, mid + 1, high, r[1], r[2])
    BY <1>4 DEF EndsWith
  <2>1. \A i \in low .. mid : list[i].key < key
    <3> TAKE i \in low .. mid
    <3>1. i = mid \/ list[i].key < list[mid].key
      BY <1>1, TableFields
    <3> QED BY <3>1, <1>1, <1>4
  <2>2. Ends(list, key, low, high, r[1], r[2])
    BY <2>0, <2>1 DEF Ends
  <2> QED BY <2>0, <2>2 DEF EndsWith
<1> QED BY <1>2, <1>3, <1>4

\* One probe, if both halves are searched right.
LEMMA ProbeIs ==
  ASSUME NEW K, NEW list, Table(list, K), NEW key \in Nat, NEW low \in 1 .. Len(list) + 1,
         NEW high \in 0 .. Len(list),
         low <= high, NEW look,
         \A l \in 1 .. Len(list) + 1, h \in 0 .. Len(list) :
            l <= h + 1 /\ h - l < high - low => EndsWith(look[<<l, h>>], list, key, l, h)
  PROVE  EndsWith(Probe(list, key, look, <<low, high>>), list, key, low, high)
<1> DEFINE mid == (low + high) \div 2
<1>0. Len(list) \in Nat /\ \A i \in 1 .. Len(list) : list[i].key \in Nat
  BY TableFields
<1>1. mid \in low .. high
  BY <1>0, Middle
<1>2. Probe(list, key, look, <<low, high>>) =
        IF key = list[mid].key THEN <<mid, TRUE>>
        ELSE IF key < list[mid].key THEN look[<<low, mid - 1>>]
        ELSE look[<<mid + 1, high>>]
  BY <1>0 DEF Probe
<1> HIDE DEF mid
<1>3. /\ low \in Nat \ {0} /\ high \in Nat /\ high <= Len(list)
      /\ mid - 1 \in 0 .. Len(list) /\ low <= (mid - 1) + 1 /\ (mid - 1) - low < high - low
      /\ mid + 1 \in 1 .. Len(list) + 1 /\ mid + 1 <= high + 1 /\ high - (mid + 1) < high - low
      /\ list[mid].key \in Nat
  BY <1>0, <1>1, SMTT(40)
<1>4. EndsWith(look[<<low, mid - 1>>], list, key, low, mid - 1) /\ EndsWith(look[<<mid + 1, high>>], list, key, mid + 1, high)
  BY <1>3
<1>5. CASE key = list[mid].key
  <2>1. EndsWith(<<mid, TRUE>>, list, key, low, high)
    BY <1>1, <1>3, <1>5, HalfDecides
  <2> QED BY <2>1, <1>2, <1>5
<1>6. CASE key < list[mid].key
  <2>1. EndsWith(look[<<low, mid - 1>>], list, key, low, high)
    BY <1>1, <1>3, <1>4, <1>6, HalfDecides
  <2>2. key # list[mid].key
    BY <1>3, <1>6, SMTT(40)
  <2>3. Probe(list, key, look, <<low, high>>) = look[<<low, mid - 1>>]
    BY <2>2, <1>2, <1>6
  <2> QED BY <2>1, <2>3
<1>7. CASE list[mid].key < key
  <2>1. EndsWith(look[<<mid + 1, high>>], list, key, low, high)
    BY <1>1, <1>3, <1>4, <1>7, HalfDecides
  <2>2. key # list[mid].key /\ ~(key < list[mid].key)
    BY <1>3, <1>7, SMTT(40)
  <2>3. Probe(list, key, look, <<low, high>>) = look[<<mid + 1, high>>]
    BY <2>2, <1>2
  <2> QED BY <2>1, <2>3
<1>8. key = list[mid].key \/ key < list[mid].key \/ list[mid].key < key
  <2>1. list[mid].key \in Nat
    BY <1>3
  <2> DEFINE x == list[mid].key
  <2> HIDE DEF x
  <2>2. x \in Nat
    BY <2>1 DEF x
  <2>3. key = x \/ key < x \/ x < key
    BY <2>2
  <2> QED BY <2>3 DEF x
<1> QED BY <1>5, <1>6, <1>7, <1>8

\* The recursion of Bsearch has a solution, the goals;
LEMMA SearchExists ==
  ASSUME NEW K, NEW list, Table(list, K), NEW key \in Nat
  PROVE  \E look : IsSearch(look, list, key)
<1> DEFINE f == [range \in SearchRanges(list) |-> Goal(list, key, range[1], range[2])]
<1>0. Len(list) \in Nat
  BY TableFields
<1>1. ASSUME NEW low \in 1 .. Len(list) + 1, NEW high \in 0 .. Len(list)
      PROVE  /\ <<low, high>> \in SearchRanges(list) /\ f[<<low, high>>] = Goal(list, key, low, high)
             /\ low <= high + 1 => EndsWith(f[<<low, high>>], list, key, low, high)
  <2>1. <<low, high>> \in SearchRanges(list) /\ f[<<low, high>>] = Goal(list, key, low, high)
    BY DEF SearchRanges
  <2>2. low \in Nat \ {0} /\ high \in Nat /\ high <= Len(list)
    BY <1>0
  <2> QED BY <2>1, <2>2, GoalIs
<1>2. ASSUME NEW low \in 1 .. Len(list) + 1, NEW high \in 0 .. Len(list)
      PROVE  f[<<low, high>>] = Probe(list, key, f, <<low, high>>)
  <2>1. CASE low > high
    <3>1. Probe(list, key, f, <<low, high>>) = <<low, FALSE>>
      BY <2>1 DEF Probe
    <3>2. f[<<low, high>>] = <<low, FALSE>>
      BY <2>1, <1>1 DEF Goal
    <3> QED BY <3>1, <3>2
  <2>2. CASE low <= high
    <3> HIDE DEF f
    <3>1. EndsWith(Probe(list, key, f, <<low, high>>), list, key, low, high)
      BY <2>2, <1>1, ProbeIs
    <3>2. EndsWith(f[<<low, high>>], list, key, low, high)
      BY <1>0, <1>1, <2>2
    <3>3. low \in Nat \ {0} /\ high \in Nat /\ high <= Len(list) /\ low <= high + 1
      BY <1>0, <2>2
    <3> DEFINE r == f[<<low, high>>]
               t == Probe(list, key, f, <<low, high>>)
    <3> HIDE DEF r, t
    <3>4. EndsWith(r, list, key, low, high) /\ EndsWith(t, list, key, low, high)
      BY <3>1, <3>2 DEF r, t
    <3>5. r = t
      BY <3>3, <3>4, EndsOnce
    <3> QED BY <3>5 DEF r, t
  <2> QED BY <2>1, <2>2, <1>0
<1>3. \A range \in SearchRanges(list) : f[range] = Probe(list, key, f, range)
  <2> HIDE DEF f
  <2> TAKE range \in SearchRanges(list)
  <2>1. range = <<range[1], range[2]>> /\ range[1] \in 1 .. Len(list) + 1 /\ range[2] \in 0 .. Len(list)
    BY DEF SearchRanges
  <2>2. f[<<range[1], range[2]>>] = Probe(list, key, f, <<range[1], range[2]>>)
    BY <2>1, <1>2
  <2> QED BY <2>1, <2>2
<1>4. f = [range \in SearchRanges(list) |-> f[range]]
  OBVIOUS
<1> HIDE DEF f
<1>5. [range \in SearchRanges(list) |-> f[range]] = [range \in SearchRanges(list) |-> Probe(list, key, f, range)]
  BY <1>3
<1>6. IsSearch(f, list, key)
  BY <1>4, <1>5 DEF IsSearch
<1> QED BY <1>6

\* and whatever solves it ends where the key is or belongs, by the length of the range.
LEMMA SearchEnds ==
  ASSUME NEW K, NEW list, Table(list, K), NEW key \in Nat, NEW look, IsSearch(look, list, key)
  PROVE  \A low \in 1 .. Len(list) + 1, high \in 0 .. Len(list) :
            low <= high + 1 => EndsWith(look[<<low, high>>], list, key, low, high)
<1>0. Len(list) \in Nat
  BY TableFields
<1> DEFINE Bad == {n \in Nat : \E low \in 1 .. Len(list) + 1, high \in 0 .. Len(list) :
                      low <= high + 1 /\ high + 1 - low = n /\ ~EndsWith(look[<<low, high>>], list, key, low, high)}
<1>1. ASSUME NEW low \in 1 .. Len(list) + 1, NEW high \in 0 .. Len(list)
      PROVE  look[<<low, high>>] = Probe(list, key, look, <<low, high>>)
  <2>1. <<low, high>> \in SearchRanges(list)
    BY DEF SearchRanges
  <2>2. look = [range \in SearchRanges(list) |-> Probe(list, key, look, range)]
    BY DEF IsSearch
  <2> DEFINE B(range) == Probe(list, key, look, range)
  <2> HIDE DEF B
  <2>3. look = [range \in SearchRanges(list) |-> B(range)]
    BY <2>2 DEF B
  <2>4. look[<<low, high>>] = B(<<low, high>>)
    BY <2>1, <2>3
  <2> QED BY <2>4 DEF B
<1>2. Bad = {}
  <2> SUFFICES ASSUME Bad # {} PROVE FALSE
    OBVIOUS
  <2>1. PICK n \in Bad : \A m \in Bad : n <= m
    BY NatMin
  <2>2. PICK low \in 1 .. Len(list) + 1, high \in 0 .. Len(list) :
           low <= high + 1 /\ high + 1 - low = n /\ ~EndsWith(look[<<low, high>>], list, key, low, high)
    BY <2>1
  <2>3. CASE low = high + 1
    <3>1. look[<<low, high>>] = <<low, FALSE>>
      <4>1. look[<<low, high>>] = Probe(list, key, look, <<low, high>>)
        BY <1>1
      <4>2. low > high
        BY <1>0, <2>3
      <4>3. Probe(list, key, look, <<low, high>>) = <<low, FALSE>>
        BY <4>2 DEF Probe
      <4> QED BY <4>1, <4>3
    <3>2. Ends(list, key, low, high, low, FALSE) /\ low \in Nat
      BY <1>0, <2>3 DEF Ends
    <3> QED BY <3>1, <3>2, <2>2, EndsAt
  <2>4. CASE low <= high
    <3>1. ASSUME NEW l \in 1 .. Len(list) + 1, NEW h \in 0 .. Len(list), l <= h + 1, h - l < high - low
          PROVE  EndsWith(look[<<l, h>>], list, key, l, h)
      <4>1. h + 1 - l \in Nat /\ ~(n <= h + 1 - l)
        BY <1>0, <2>2, <3>1, SMTT(40)
      <4>2. h + 1 - l \notin Bad
        BY <4>1, <2>1
      <4> QED BY <4>1, <4>2, <3>1
    <3>2. EndsWith(Probe(list, key, look, <<low, high>>), list, key, low, high)
      BY <2>4, <3>1, ProbeIs
    <3> QED BY <3>2, <1>1, <2>2
  <2> QED BY <1>0, <2>2, <2>3, <2>4
<1>3. ASSUME NEW low \in 1 .. Len(list) + 1, NEW high \in 0 .. Len(list), low <= high + 1
      PROVE  EndsWith(look[<<low, high>>], list, key, low, high)
  <2>1. high + 1 - low \in Nat
    BY <1>0, <1>3
  <2> QED BY <2>1, <1>2, <1>3
<1> QED BY <1>3

\* The binary search finds the key, or where it belongs.
LEMMA BsearchIs ==
  ASSUME NEW K, NEW list, Table(list, K), NEW key \in Nat
  PROVE  EndsWith(Bsearch(list, key), list, key, 1, Len(list))
<1>1. PICK f : IsSearch(f, list, key)
  BY SearchExists
<1> DEFINE look == CHOOSE g : IsSearch(g, list, key)
<1>2. IsSearch(look, list, key)
  BY <1>1
<1>3. Bsearch(list, key) = look[<<1, Len(list)>>]
  BY DEF Bsearch, IsSearch, SearchRanges, Probe
<1> HIDE DEF look
<1>4. Len(list) \in Nat
  BY TableFields
<1>5. 1 \in 1 .. Len(list) + 1 /\ Len(list) \in 0 .. Len(list) /\ 1 <= Len(list) + 1
  BY <1>4
<1>6. EndsWith(look[<<1, Len(list)>>], list, key, 1, Len(list))
  BY <1>2, <1>5, SearchEnds
<1> QED BY <1>3, <1>6

\* Two sequences, one behind the other.
LEMMA Joined ==
    ASSUME NEW S, NEW a \in Seq(S), NEW b \in Seq(S)
    PROVE  /\ a \o b \in Seq(S) /\ Len(a \o b) = Len(a) + Len(b) /\ Len(a) \in Nat /\ Len(b) \in Nat
           /\ \A k \in 1 .. Len(a) : (a \o b)[k] = a[k]
           /\ \A k \in Len(a) + 1 .. Len(a) + Len(b) :
                k - Len(a) \in 1 .. Len(b) /\ (a \o b)[k] = b[k - Len(a)]
OBVIOUS

\* What an insertion moves.
LEMMA Insertion ==
    ASSUME NEW S, NEW list \in Seq(S), NEW k \in 1 .. Len(list) + 1, NEW e \in S
    PROVE  /\ InsertAt(list, k, e) \in Seq(S)
           /\ Len(InsertAt(list, k, e)) = Len(list) + 1
           /\ \A i \in 1 .. Len(list) + 1 :
                 InsertAt(list, k, e)[i] = IF i < k THEN list[i] ELSE IF i = k THEN e ELSE list[i - 1]
<1> DEFINE front == SubSeq(list, 1, k - 1)
           back == SubSeq(list, k, Len(list))
<1>1. front \in Seq(S) /\ Len(front) = k - 1 /\ \A i \in 1 .. k - 1 : front[i] = list[i]
  OBVIOUS
<1>2. back \in Seq(S) /\ Len(back) = Len(list) - k + 1
      /\ \A i \in 1 .. Len(list) - k + 1 : back[i] = list[k + i - 1]
  OBVIOUS
<1> HIDE DEF front, back
<1> DEFINE half == front \o <<e>>
<1>3. half \in Seq(S) /\ Len(half) = k /\ \A i \in 1 .. k : half[i] = IF i < k THEN list[i] ELSE e
  BY <1>1
<1> HIDE DEF half
<1>4. /\ half \o back \in Seq(S) /\ Len(half \o back) = Len(list) + 1
      /\ \A i \in 1 .. Len(list) + 1 :
            (half \o back)[i] = IF i < k THEN list[i] ELSE IF i = k THEN e ELSE list[i - 1]
  <2>1. /\ half \o back \in Seq(S) /\ Len(half \o back) = Len(list) + 1
        /\ \A i \in 1 .. k : (half \o back)[i] = half[i]
        /\ \A i \in k + 1 .. Len(list) + 1 :
             i - k \in 1 .. Len(list) - k + 1 /\ (half \o back)[i] = back[i - k]
    <3>1. /\ half \o back \in Seq(S) /\ Len(half \o back) = Len(half) + Len(back)
          /\ \A i \in 1 .. Len(half) : (half \o back)[i] = half[i]
          /\ \A i \in Len(half) + 1 .. Len(half) + Len(back) :
               i - Len(half) \in 1 .. Len(back) /\ (half \o back)[i] = back[i - Len(half)]
      <4>1. half \in Seq(S) /\ back \in Seq(S)
        BY <1>2, <1>3
      <4> QED BY <4>1, Joined, ZenonT(60)
    <3>2. Len(half) = k /\ Len(back) = Len(list) - k + 1 /\ k + (Len(list) - k + 1) = Len(list) + 1
      BY <1>2, <1>3
    <3> QED BY <3>1, <3>2
  <2>2. \A i \in k + 1 .. Len(list) + 1 : back[i - k] = list[i - 1]
    <3> TAKE i \in k + 1 .. Len(list) + 1
    <3>1. i - k \in 1 .. Len(list) - k + 1 /\ k + (i - k) - 1 = i - 1
      OBVIOUS
    <3> QED BY <1>2, <3>1
  <2> QED BY <1>3, <2>1, <2>2
<1>5. InsertAt(list, k, e) = half \o back
  BY DEF InsertAt, half, front, back
<1> QED BY <1>4, <1>5

\* Is there an entry of the key, and what does it say? A missing one says zero.
HasKey(list, key) == \E i \in 1 .. Len(list) : list[i].key = key
Val(list, key) == IF HasKey(list, key) THEN list[CHOOSE i \in 1 .. Len(list) : list[i].key = key].val ELSE 0

\* An entry says what the table says of its key.
LEMMA ValIs ==
  ASSUME NEW K, NEW list, Table(list, K)
  PROVE  /\ \A i \in 1 .. Len(list) : Val(list, list[i].key) = list[i].val /\ HasKey(list, list[i].key)
         /\ \A key : ~HasKey(list, key) => Val(list, key) = 0
         /\ \A key : Val(list, key) \in Nat
         /\ \A key : HasKey(list, key) => key \in K
<1>1. ASSUME NEW i \in 1 .. Len(list) PROVE Val(list, list[i].key) = list[i].val /\ HasKey(list, list[i].key)
  <2> DEFINE j == CHOOSE m \in 1 .. Len(list) : list[m].key = list[i].key
  <2>1. HasKey(list, list[i].key)
    BY DEF HasKey
  <2>2. j \in 1 .. Len(list) /\ list[j].key = list[i].key
    OBVIOUS
  <2>3. Val(list, list[i].key) = list[j].val
    BY <2>1 DEF Val
  <2> HIDE DEF j
  <2>4. j = i
    BY <2>2, TableFields
  <2> QED BY <2>1, <2>3, <2>4
<1>2. \A key : ~HasKey(list, key) => Val(list, key) = 0
  BY DEF Val
<1>3. ASSUME NEW key PROVE Val(list, key) \in Nat /\ (HasKey(list, key) => key \in K)
  <2>1. CASE HasKey(list, key)
    <3>1. PICK i \in 1 .. Len(list) : list[i].key = key
      BY <2>1 DEF HasKey
    <3>2. Val(list, key) = list[i].val
      BY <1>1, <3>1
    <3> QED BY <3>1, <3>2, TableFields
  <2>2. CASE ~HasKey(list, key)
    BY <1>2, <2>2
  <2> QED BY <2>1, <2>2
<1> QED BY <1>1, <1>2, <1>3

\* The same entry in two tables.
LEMMA SameKeys ==
  ASSUME NEW K, NEW list, NEW new, Table(list, K), Table(new, K), NEW key, NEW i \in 1 .. Len(list),
         NEW j \in 1 .. Len(new),
         list[i].key = key, new[j] = list[i]
  PROVE  Val(new, key) = Val(list, key)
<1>1. Val(list, list[i].key) = list[i].val /\ Val(new, new[j].key) = new[j].val
  BY ValIs
<1> QED BY <1>1

\* Where the key belongs.
Belongs(list, key, pos) ==
  /\ pos \in 1 .. Len(list) + 1
  /\ \A i \in 1 .. pos - 1 : list[i].key < key
  /\ \A i \in pos .. Len(list) : key < list[i].key

\* An entry of zero where it belongs keeps the table sorted and changes no value.
LEMMA InsertedIs ==
  ASSUME NEW K, NEW list, Table(list, K), NEW key \in K, NEW pos, Belongs(list, key, pos),
         NEW new, new = Inserted(list, pos, key)
  PROVE  /\ Table(new, K) /\ Len(new) = Len(list) + 1 /\ new[pos].key = key
         /\ \A k : Val(new, k) = Val(list, k)
<1>b. /\ pos \in 1 .. Len(list) + 1 /\ \A i \in 1 .. pos - 1 : list[i].key < key
      /\ \A i \in pos .. Len(list) : key < list[i].key
  BY DEF Belongs
<1> USE <1>b
<1> DEFINE e == [key |-> key, val |-> 0]
<1>0. /\ Len(list) \in Nat /\ list \in Seq(Entries(K)) /\ key \in Nat
      /\ \A i \in 1 .. Len(list) : list[i].key \in Nat
      /\ \A i, j \in 1 .. Len(list) : i < j => list[i].key < list[j].key
  BY TableFields DEF Table
<1>1. e \in Entries(K) /\ e.key = key /\ e.val = 0
  BY DEF Entries
<1> HIDE DEF e
<1>2. /\ new \in Seq(Entries(K)) /\ Len(new) = Len(list) + 1
      /\ \A i \in 1 .. Len(list) + 1 : new[i] = IF i < pos THEN list[i] ELSE IF i = pos THEN e ELSE list[i - 1]
  <2>1. new = InsertAt(list, pos, e)
    BY DEF Inserted, e
  <2>2. /\ InsertAt(list, pos, e) \in Seq(Entries(K)) /\ Len(InsertAt(list, pos, e)) = Len(list) + 1
        /\ \A i \in 1 .. Len(list) + 1 :
              InsertAt(list, pos, e)[i] = IF i < pos THEN list[i] ELSE IF i = pos THEN e ELSE list[i - 1]
    BY <1>0, <1>1, Insertion
  <2> QED BY <2>1, <2>2
<1>3. pos \in 1 .. Len(new) /\ new[pos] = e
  BY <1>0, <1>2
<1>4. /\ \A i \in 1 .. Len(list) : i < pos => i \in 1 .. Len(new) /\ new[i] = list[i]
      /\ \A i \in 1 .. Len(list) : ~(i < pos) => i + 1 \in 1 .. Len(new) /\ new[i + 1] = list[i]
  <2>1. \A i \in 1 .. Len(list) : i < pos => i \in 1 .. Len(new) /\ new[i] = list[i]
    BY <1>0, <1>2
  <2>2. ASSUME NEW i \in 1 .. Len(list), ~(i < pos) PROVE i + 1 \in 1 .. Len(new) /\ new[i + 1] = list[i]
    <3>1. i + 1 \in 1 .. Len(list) + 1 /\ ~(i + 1 < pos) /\ i + 1 # pos /\ (i + 1) - 1 = i
      BY <1>0, <2>2
    <3> QED BY <3>1, <1>2
  <2> QED BY <2>1, <2>2
<1>5. ASSUME NEW j \in 1 .. Len(new)
      PROVE  \/ j = pos
             \/ j < pos /\ j \in 1 .. Len(list) /\ new[j] = list[j]
             \/ j > pos /\ j - 1 \in 1 .. Len(list) /\ new[j] = list[j - 1]
  BY <1>0, <1>2
<1>6. Sorted(new)
  <2> SUFFICES ASSUME NEW i \in 1 .. Len(new), NEW j \in 1 .. Len(new), i < j PROVE new[i].key < new[j].key
    BY DEF Sorted
  <2>1. CASE j < pos
    BY <2>1, <1>0, <1>5
  <2>2. CASE j = pos
    <3>1. i \in 1 .. pos - 1 /\ new[i] = list[i]
      BY <2>2, <1>0, <1>5
    <3> QED BY <3>1, <2>2, <1>1, <1>3
  <2>3. CASE j > pos
    <3>1. j - 1 \in 1 .. Len(list) /\ new[j] = list[j - 1] /\ j - 1 \in pos .. Len(list)
      BY <2>3, <1>0, <1>5
    <3>2. key < list[j - 1].key
      BY <3>1
    <3>3. CASE i = pos
      BY <3>1, <3>2, <3>3, <1>1, <1>3
    <3>4. CASE i < pos
      <4>1. i \in 1 .. pos - 1 /\ new[i] = list[i] /\ i \in 1 .. Len(list)
        BY <3>4, <1>0, <1>5
      <4>2. list[i].key < key
        BY <4>1
      <4> QED BY <3>1, <3>2, <4>1, <4>2, <1>0
    <3>5. CASE i > pos
      <4>1. i - 1 \in 1 .. Len(list) /\ new[i] = list[i - 1] /\ i - 1 < j - 1
        BY <3>5, <1>0, <1>5
      <4> QED BY <3>1, <4>1, <1>0
    <3> QED BY <3>3, <3>4, <3>5, <1>0, <1>2
  <2> QED BY <2>1, <2>2, <2>3, <1>0, <1>2
<1>7. Table(new, K)
  BY <1>2, <1>6 DEF Table
<1>8. ASSUME NEW k PROVE Val(new, k) = Val(list, k)
  <2>1. CASE HasKey(list, k)
    <3>1. PICK i \in 1 .. Len(list) : list[i].key = k
      BY <2>1 DEF HasKey
    <3>2. PICK j \in 1 .. Len(new) : new[j] = list[i]
      BY <1>4
    <3> QED BY <3>1, <3>2, <1>7, SameKeys
  <2>2. CASE ~HasKey(list, k) /\ k = key
    <3>1. Val(new, new[pos].key) = new[pos].val
      BY <1>3, <1>7, ValIs
    <3>2. Val(list, k) = 0
      BY <2>2, ValIs
    <3> QED BY <3>1, <3>2, <1>1, <1>3, <2>2
  <2>3. CASE ~HasKey(list, k) /\ k # key
    <3>1. ~HasKey(new, k)
      <4> SUFFICES ASSUME NEW j \in 1 .. Len(new) PROVE new[j].key # k
        BY DEF HasKey
      <4> QED BY <1>1, <1>3, <1>5, <2>3 DEF HasKey
    <3> QED BY <3>1, <2>3, <1>7, ValIs
  <2> QED BY <2>1, <2>2, <2>3
<1> QED BY <1>1, <1>2, <1>3, <1>7, <1>8

\* Changing the value of one entry changes what the table says of its key only.
LEMMA ChangedVal ==
  ASSUME NEW K, NEW list, NEW new, Table(list, K), Table(new, K), NEW i \in 1 .. Len(list), NEW v,
         Len(new) = Len(list), \A j \in 1 .. Len(list) : new[j].key = list[j].key,
         new[i].val = v, \A j \in 1 .. Len(list) : j # i => new[j] = list[j], NEW k
  PROVE  Val(new, k) = IF k = list[i].key THEN v ELSE Val(list, k)
<1>1. \A j \in 1 .. Len(new) : Val(new, new[j].key) = new[j].val
  BY ValIs
<1>2. CASE k = list[i].key
  BY <1>1, <1>2
<1>3. CASE k # list[i].key /\ HasKey(list, k)
  <2>1. PICK j \in 1 .. Len(list) : list[j].key = k
    BY <1>3 DEF HasKey
  <2>2. Val(list, list[j].key) = list[j].val
    BY <2>1, ValIs
  <2> QED BY <1>1, <1>3, <2>1, <2>2
<1>4. CASE k # list[i].key /\ ~HasKey(list, k)
  <2>1. ~HasKey(new, k)
    BY <1>4 DEF HasKey
  <2> QED BY <1>4, <2>1, ValIs
<1> QED BY <1>2, <1>3, <1>4

\* new is list with the value of its entry i changed.
SetTo(new, list, i, v, K) ==
  /\ Table(new, K) /\ Len(new) = Len(list)
  /\ \A j \in 1 .. Len(list) : new[j].key = list[j].key
  /\ \A k : Val(new, k) = IF k = list[i].key THEN v ELSE Val(list, k)

\* Assigning to the value of an entry is such a change.
LEMMA SetVal ==
  ASSUME NEW K, NEW list, Table(list, K), NEW i \in 1 .. Len(list), NEW v \in Nat
  PROVE  SetTo([list EXCEPT ![i].val = v], list, i, v, K)
<1> DEFINE new == [list EXCEPT ![i].val = v]
<1>0. /\ Len(list) \in Nat /\ list \in Seq(Entries(K)) /\ \A j \in 1 .. Len(list) : list[j] \in Entries(K)
      /\ \A j, k \in 1 .. Len(list) : j < k => list[j].key < list[k].key
  BY TableFields DEF Table
<1> DEFINE e == [list[i] EXCEPT !.val = v]
<1>1. e \in Entries(K) /\ e.key = list[i].key /\ e.val = v
  BY <1>0 DEF Entries
<1> HIDE DEF e
<1>2. new = [list EXCEPT ![i] = e]
  BY DEF e
<1>3. new \in Seq(Entries(K)) /\ Len(new) = Len(list) /\ \A j \in 1 .. Len(list) : new[j] = IF j = i THEN e ELSE list[j]
  <2> HIDE DEF Entries
  <2> QED BY <1>0, <1>1, <1>2
<1> HIDE DEF new
<1>4. \A j \in 1 .. Len(list) : new[j].key = list[j].key
  BY <1>1, <1>3
<1>5. Sorted(new)
  BY <1>0, <1>3, <1>4 DEF Sorted
<1>6. Table(new, K)
  BY <1>3, <1>5 DEF Table
<1>7. ASSUME NEW k PROVE Val(new, k) = IF k = list[i].key THEN v ELSE Val(list, k)
  <2>1. new[i].val = v /\ \A j \in 1 .. Len(list) : j # i => new[j] = list[j]
    BY <1>1, <1>3
  <2> QED BY <2>1, <1>3, <1>4, <1>6, ChangedVal
<1>8. SetTo(new, list, i, v, K)
  BY <1>3, <1>4, <1>6, <1>7 DEF SetTo
<1> QED BY <1>8 DEF new

-----------------------------------------------------------------------------
(* The link counts of inodes (Icount).                                    *)

\* struct ext2_icount, as a type.
Structs == [kind : {"none", "plain", "increment", "fullmap"}, single : SUBSET CountedInodes,
            multiple : SUBSET CountedInodes, list : Seq(Entries(CountedInodes)), size : Nat,
            cursor : Nat, last : Nat, full : [CountedInodes -> Nat]]

\* The structure is one that ext2fs_icount_validate accepts.
Sound(c) ==
  /\ c \in Structs /\ Table(c.list, CountedInodes)
  /\ Len(c.list) <= c.size /\ c.cursor <= Len(c.list) /\ c.last <= Len(c.list)

\* What that says of its fields.
LEMMA SoundFields ==
  ASSUME NEW c, Sound(c)
  PROVE  /\ c \in Structs /\ Table(c.list, CountedInodes) /\ Len(c.list) \in Nat
         /\ c.size \in Nat /\ c.cursor \in Nat /\ c.last \in Nat
         /\ Len(c.list) <= c.size /\ c.cursor <= Len(c.list) /\ c.last <= Len(c.list)
         /\ c.list \in Seq(Entries(CountedInodes)) /\ c.full \in [CountedInodes -> Nat]
         /\ c.single \in SUBSET CountedInodes /\ c.multiple \in SUBSET CountedInodes
<1>1. Len(c.list) \in Nat
  BY TableFields DEF Sound
<1> QED BY <1>1 DEF Sound, Structs

\* Marking and unmarking in a bitmap.
LEMMA MarkedIs ==
  ASSUME NEW c, Sound(c), NEW ino \in CountedInodes
  PROVE  /\ Marked(c, "single", ino) = [c EXCEPT !.single = @ \cup {ino}]
         /\ Marked(c, "multiple", ino) = [c EXCEPT !.multiple = @ \cup {ino}]
         /\ Unmarked(c, "single", ino) = [c EXCEPT !.single = @ \ {ino}]
         /\ Unmarked(c, "multiple", ino) = [c EXCEPT !.multiple = @ \ {ino}]
BY DEF Marked, Unmarked, Sound, Structs

\* c and d differ in the place of the cursor, in last_lookup and in entries of zero.
SameCounts(c, d) ==
  /\ Sound(d) /\ d.kind = c.kind /\ d.single = c.single /\ d.multiple = c.multiple /\ d.full = c.full
  /\ \A k : Val(d.list, k) = Val(c.list, k)

\* The cursor may move.
LEMMA MovedCursor ==
  ASSUME NEW c, Sound(c), NEW n \in Nat, n <= Len(c.list)
  PROVE  /\ SameCounts(c, [c EXCEPT !.cursor = n]) /\ [c EXCEPT !.cursor = n].list = c.list
         /\ [c EXCEPT !.cursor = n].size = c.size /\ [c EXCEPT !.cursor = n].last = c.last
<1> DEFINE d == [c EXCEPT !.cursor = n]
<1>1. c \in Structs
  BY DEF Sound
<1>2. /\ d \in Structs /\ d.list = c.list /\ d.size = c.size /\ d.last = c.last /\ d.cursor = n
      /\ d.kind = c.kind /\ d.single = c.single /\ d.multiple = c.multiple /\ d.full = c.full
  BY <1>1 DEF Structs
<1> HIDE DEF d
<1>3. SameCounts(c, d)
  BY <1>2 DEF SameCounts, Sound
<1> QED BY <1>2, <1>3 DEF d

\* What a search that may create gives back.
Got(c, r, ino) ==
  /\ SameCounts(c, r.c)
  /\ r.at = 0 => ~HasKey(c.list, ino)
  /\ r.at # 0 => r.at \in 1 .. Len(r.c.list) /\ r.c.list[r.at].key = ino

\* Nothing has changed.
LEMMA SoundSame == ASSUME NEW c, Sound(c) PROVE SameCounts(c, c)
BY DEF SameCounts

\* insert_icount_el: with the last lookup, without memory, with and without growth.
LEMMA InsertIs ==
  ASSUME IcountAssumption, NEW c, Sound(c), NEW ino \in CountedInodes, NEW pos \in 1 .. Len(c.list) + 1,
         NEW grows \in BOOLEAN,
         \A i \in 1 .. pos - 1 : c.list[i].key < ino, \A i \in pos .. Len(c.list) : ino < c.list[i].key
  PROVE  Got(c, insert_icount_el(c, ino, pos, grows), ino)
<1> DEFINE r == insert_icount_el(c, ino, pos, grows)
<1>1. CASE c.last # 0 /\ c.list[c.last].key = ino
  <2>1. r = [c |-> c, at |-> c.last]
    BY <1>1 DEF insert_icount_el
  <2>2. c.last \in 1 .. Len(c.list)
    BY <1>1, SoundFields
  <2> HIDE DEF r
  <2> QED BY <1>1, <2>1, <2>2, SoundSame DEF Got, r
<1>2. ~HasKey(c.list, ino)
  <2> SUFFICES ASSUME NEW i \in 1 .. Len(c.list) PROVE c.list[i].key # ino
    BY DEF HasKey
  <2>1. i \in 1 .. pos - 1 \/ i \in pos .. Len(c.list)
    BY SoundFields
  <2>2. c.list[i].key \in Nat /\ ino \in Nat
    BY SoundFields, TableFields DEF IcountAssumption
  <2> QED BY <2>1, <2>2
<1>3. CASE ~(c.last # 0 /\ c.list[c.last].key = ino) /\ Len(c.list) >= c.size /\ ~grows
  <2>1. r = [c |-> c, at |-> 0]
    BY <1>3 DEF insert_icount_el
  <2> HIDE DEF r
  <2> QED BY <1>2, <2>1, SoundSame DEF Got, r
<1>4. CASE ~(c.last # 0 /\ c.list[c.last].key = ino) /\ ~(Len(c.list) >= c.size /\ ~grows)
  <2> DEFINE new == Inserted(c.list, pos, ino)
             size == IF Len(c.list) >= c.size THEN c.size + 100 ELSE c.size
             d == [c EXCEPT !.list = new, !.last = pos, !.size = size]
  <2>1. r = [c |-> d, at |-> pos]
    BY <1>4 DEF insert_icount_el
  <2>2. /\ Table(new, CountedInodes) /\ Len(new) = Len(c.list) + 1 /\ new[pos].key = ino
        /\ \A k : Val(new, k) = Val(c.list, k)
    <3>1. Table(c.list, CountedInodes)
      BY SoundFields
    <3>2. Belongs(c.list, ino, pos)
      BY DEF Belongs
    <3> DEFINE list == c.list
    <3> HIDE DEF list, new
    <3> QED BY <3>1, <3>2, InsertedIs DEF new, list
  <2>3. new \in Seq(Entries(CountedInodes))
    BY <2>2 DEF Table
  <2>4. size \in Nat /\ Len(c.list) + 1 <= size
    BY SoundFields
  <2> HIDE DEF new, size
  <2>5. c \in Structs /\ pos \in Nat
    BY DEF Sound
  <2>6. /\ d \in Structs /\ d.list = new /\ d.last = pos /\ d.size = size /\ d.cursor = c.cursor
        /\ d.kind = c.kind /\ d.single = c.single /\ d.multiple = c.multiple /\ d.full = c.full
    BY <2>3, <2>4, <2>5 DEF Structs
  <2> HIDE DEF d, r
  <2>7. Sound(d)
    BY <2>2, <2>4, <2>6, SoundFields DEF Sound
  <2>8. SameCounts(c, d)
    BY <2>2, <2>6, <2>7 DEF SameCounts
  <2>9. pos # 0 /\ pos \in 1 .. Len(d.list) /\ d.list[pos].key = ino
    BY <2>2, <2>6, SoundFields
  <2> QED BY <2>1, <2>8, <2>9 DEF Got, r
<1> QED BY <1>1, <1>3, <1>4

\* get_icount_el: appended, found at the cursor, found by the search, inserted, or
\* not there; no count has changed.
LEMMA GetIs ==
  ASSUME IcountAssumption, NEW c, Sound(c), NEW ino \in CountedInodes, NEW create \in BOOLEAN, NEW grows \in BOOLEAN
  PROVE  Got(c, get_icount_el(c, ino, create, grows), ino)
<1> DEFINE list == c.list
           n == Len(list)
           here == IF c.cursor >= n THEN 0 ELSE c.cursor
           found == Bsearch(list, ino)
           d == [c EXCEPT !.cursor = here]
           r == get_icount_el(c, ino, create, grows)
           R == IF create /\ (n = 0 \/ ino > list[n].key) THEN insert_icount_el(c, ino, n + 1, grows)
                ELSE IF n = 0 THEN [c |-> c, at |-> 0]
                ELSE IF list[here + 1].key = ino
                THEN [c |-> [c EXCEPT !.cursor = here + 1], at |-> here + 1]
                ELSE IF found[2] THEN [c |-> [c EXCEPT !.cursor = found[1]], at |-> found[1]]
                ELSE IF create THEN insert_icount_el(d, ino, found[1], grows)
                ELSE [c |-> d, at |-> 0]
<1>1. r = R
  BY DEF get_icount_el
<1>2. Table(list, CountedInodes) /\ n \in Nat /\ c.cursor \in Nat /\ c.cursor <= n /\ ino \in Nat
  BY SoundFields DEF IcountAssumption
<1>3. EndsWith(found, list, ino, 1, Len(list))
  BY <1>2, BsearchIs
<1>4. here \in Nat /\ here <= n /\ (n # 0 => here + 1 \in 1 .. n)
  BY <1>2
<1>5. /\ \A i \in 1 .. n : list[i].key \in Nat
      /\ \A i, j \in 1 .. n : i < j => list[i].key < list[j].key
  BY <1>2, TableFields
<1> HIDE DEF found, r, here
<1>6. CASE create /\ (n = 0 \/ ino > list[n].key)
  <2>1. \A i \in 1 .. (n + 1) - 1 : list[i].key < ino
    <3> TAKE i \in 1 .. (n + 1) - 1
    <3>1. i \in 1 .. n /\ n \in 1 .. n /\ ino > list[n].key
      BY <1>2, <1>6
    <3>2. CASE i = n
      BY <3>1, <3>2, <1>5
    <3>3. CASE i < n
      BY <3>1, <3>3, <1>2, <1>5
    <3> QED BY <3>1, <3>2, <3>3, <1>2
  <2>2. \A i \in n + 1 .. Len(list) : ino < list[i].key
    BY <1>2
  <2>3. n + 1 \in 1 .. Len(list) + 1
    BY <1>2
  <2>4. Got(c, insert_icount_el(c, ino, n + 1, grows), ino)
    BY <2>1, <2>2, <2>3, InsertIs
  <2> QED BY <1>1, <1>6, <2>4 DEF r
<1>7. CASE ~(create /\ (n = 0 \/ ino > list[n].key)) /\ n = 0
  <2>1. R = [c |-> c, at |-> 0]
    BY <1>7
  <2>2. ~HasKey(c.list, ino)
    BY <1>7 DEF HasKey
  <2>3. Got(c, [c |-> c, at |-> 0], ino)
    BY <2>2, SoundSame DEF Got
  <2> QED BY <1>1, <2>1, <2>3 DEF r
<1>8. ASSUME NEW p \in 1 .. n, list[p].key = ino PROVE Got(c, [c |-> [c EXCEPT !.cursor = p], at |-> p], ino)
  <2> DEFINE e == [c EXCEPT !.cursor = p]
  <2>1. SameCounts(c, e) /\ e.list = list
    BY <1>2, <1>8, MovedCursor
  <2> HIDE DEF e
  <2>2. p # 0 /\ p \in 1 .. Len(e.list) /\ e.list[p].key = ino
    BY <2>1, <1>2, <1>8
  <2>3. Got(c, [c |-> e, at |-> p], ino)
    BY <2>1, <2>2 DEF Got
  <2> QED BY <2>3 DEF e
<1>9. CASE ~(create /\ (n = 0 \/ ino > list[n].key)) /\ n # 0 /\ list[here + 1].key = ino
  <2>1. R = [c |-> [c EXCEPT !.cursor = here + 1], at |-> here + 1]
    BY <1>9
  <2> QED BY <1>1, <1>4, <1>8, <1>9, <2>1 DEF r
<1>10. CASE ~(create /\ (n = 0 \/ ino > list[n].key)) /\ n # 0 /\ list[here + 1].key # ino /\ found[2]
  <2>1. R = [c |-> [c EXCEPT !.cursor = found[1]], at |-> found[1]]
    BY <1>10
  <2>2. found[1] \in 1 .. n /\ list[found[1]].key = ino
    BY <1>3, <1>10 DEF EndsWith, Ends
  <2> QED BY <1>1, <1>8, <2>1, <2>2 DEF r
<1>11. CASE ~(create /\ (n = 0 \/ ino > list[n].key)) /\ n # 0 /\ list[here + 1].key # ino /\ ~found[2]
  <2> DEFINE p == found[1]
  <2>1. /\ p \in 1 .. Len(list) + 1 /\ (\A i \in 1 .. p - 1 : list[i].key < ino)
        /\ \A i \in p .. Len(list) : ino < list[i].key
    BY <1>3, <1>11 DEF EndsWith, Ends
  <2> HIDE DEF p
  <2>2. SameCounts(c, d) /\ d.list = list
    BY <1>2, <1>4, MovedCursor
  <2> HIDE DEF d
  <2>3. Sound(d)
    BY <2>2 DEF SameCounts
  <2>4. ~HasKey(list, ino)
    <3> SUFFICES ASSUME NEW i \in 1 .. Len(list) PROVE list[i].key # ino
      BY DEF HasKey
    <3>1. i \in 1 .. p - 1 \/ i \in p .. Len(list)
      BY <1>2, <2>1
    <3>2. list[i].key \in Nat
      BY <1>5
    <3> QED BY <1>2, <2>1, <3>1, <3>2
  <2>5. CASE create
    <3>1. R = insert_icount_el(d, ino, p, grows)
      BY <1>11, <2>5 DEF p
    <3> DEFINE s == insert_icount_el(d, ino, p, grows)
    <3>2. Got(d, s, ino)
      BY <2>1, <2>2, <2>3, InsertIs
    <3> HIDE DEF s
    <3>3. Got(c, s, ino)
      BY <2>2, <2>4, <3>2 DEF Got, SameCounts
    <3> QED BY <1>1, <3>1, <3>3 DEF r, s
  <2>6. CASE ~create
    <3>1. R = [c |-> d, at |-> 0]
      BY <1>11, <2>6
    <3>2. Got(c, [c |-> d, at |-> 0], ino)
      BY <2>2, <2>4 DEF Got
    <3> QED BY <1>1, <3>1, <3>2 DEF r
  <2> QED BY <2>5, <2>6
<1> QED BY <1>6, <1>7, <1>9, <1>10, <1>11, <1>3 DEF EndsWith

\* c has become d: the bitmaps are S and M, and the list says v of ino.
Became(c, d, S, M, ino, v) ==
  /\ Sound(d) /\ d.kind = c.kind /\ d.single = S /\ d.multiple = M
  /\ \A k : Val(d.list, k) = IF k = ino THEN v ELSE Val(c.list, k)

\* Setting a count succeeds, or memory could not be had for an entry there is not.
SetGot(c, r, ino, n) ==
  IF r.ok THEN Became(c, r.c, c.single, c.multiple, ino, n)
  ELSE r.ok = FALSE /\ ~HasKey(c.list, ino) /\ Became(c, r.c, c.single, c.multiple, ino, Val(c.list, ino))

\* set_inode_count on a list.
LEMMA SetIs ==
  ASSUME IcountAssumption, NEW c, Sound(c), c.kind # "fullmap", NEW ino \in CountedInodes, NEW n \in Nat,
         NEW grows \in BOOLEAN
  PROVE  SetGot(c, set_inode_count(c, ino, n, grows), ino, n)
<1> DEFINE r == get_icount_el(c, ino, TRUE, grows)
           R == set_inode_count(c, ino, n, grows)
<1>1. R = IF r.at = 0 THEN [c |-> r.c, ok |-> FALSE] ELSE [c |-> [r.c EXCEPT !.list[r.at].val = n], ok |-> TRUE]
  BY DEF set_inode_count
<1>2. Got(c, r, ino)
  BY GetIs
<1> HIDE DEF r, R
<1> DEFINE d == r.c
<1>3. SameCounts(c, d) /\ Sound(d)
  BY <1>2 DEF Got, SameCounts
<1>4. CASE r.at = 0
  <2>1. ~HasKey(c.list, ino)
    BY <1>2, <1>4 DEF Got
  <2>2. Became(c, d, c.single, c.multiple, ino, Val(c.list, ino))
    BY <1>3 DEF SameCounts, Became
  <2> HIDE DEF d
  <2>3. R.c = d /\ R.ok = FALSE
    BY <1>1, <1>4 DEF d
  <2> QED BY <2>1, <2>2, <2>3 DEF SetGot, R
<1>5. CASE r.at # 0
  <2> DEFINE i == r.at
             list == d.list
             new == [list EXCEPT ![i].val = n]
             e == [d EXCEPT !.list = new]
  <2>1. i \in 1 .. Len(list) /\ list[i].key = ino
    BY <1>2, <1>5 DEF Got
  <2>2. [d EXCEPT !.list[i].val = n] = e
    OBVIOUS
  <2>3. R.c = e /\ R.ok = TRUE
    <3> HIDE DEF e
    <3> QED BY <1>1, <1>5, <2>2
  <2> HIDE DEF i, d
  <2>4. Table(list, CountedInodes) /\ d \in Structs
    BY <1>3, SoundFields
  <2>5. SetTo(new, list, i, n, CountedInodes)
    BY <2>1, <2>4, SetVal
  <2> HIDE DEF new
  <2>6. new \in Seq(Entries(CountedInodes)) /\ Len(new) = Len(list) /\ Table(new, CountedInodes)
    BY <2>5 DEF SetTo, Table
  <2>7. /\ e \in Structs /\ e.list = new /\ e.size = d.size /\ e.cursor = d.cursor /\ e.last = d.last
        /\ e.kind = d.kind /\ e.single = d.single /\ e.multiple = d.multiple
    BY <2>4, <2>6 DEF Structs
  <2> HIDE DEF e
  <2>8. Sound(e)
    BY <1>3, <2>6, <2>7 DEF Sound
  <2>9. \A k : Val(new, k) = IF k = ino THEN n ELSE Val(c.list, k)
    BY <1>3, <2>1, <2>5 DEF SetTo, SameCounts
  <2>10. Became(c, e, c.single, c.multiple, ino, n)
    BY <1>3, <2>7, <2>8, <2>9 DEF Became, SameCounts
  <2> QED BY <2>3, <2>10 DEF SetGot, R
<1> QED BY <1>4, <1>5

\* get_inode_count on a list.
LEMMA GetCountIs ==
  ASSUME IcountAssumption, NEW c, Sound(c), c.kind # "fullmap", NEW ino \in CountedInodes
  PROVE  /\ SameCounts(c, get_inode_count(c, ino).c)
         /\ get_inode_count(c, ino).n = Val(c.list, ino) /\ Val(c.list, ino) \in Nat
<1> DEFINE r == get_icount_el(c, ino, FALSE, FALSE)
           R == get_inode_count(c, ino)
<1>1. R = [c |-> r.c, n |-> IF r.at = 0 THEN 0 ELSE r.c.list[r.at].val]
  BY DEF get_inode_count
<1>2. Got(c, r, ino)
  BY GetIs
<1>3. Table(c.list, CountedInodes)
  BY SoundFields
<1> HIDE DEF r, R
<1>4. SameCounts(c, r.c) /\ Table(r.c.list, CountedInodes)
  BY <1>2, SoundFields DEF Got, SameCounts
<1>5. CASE r.at = 0
  <2>1. Val(c.list, ino) = 0
    BY <1>2, <1>3, <1>5, ValIs DEF Got
  <2> QED BY <1>1, <1>4, <1>5, <2>1 DEF R
<1>6. CASE r.at # 0
  <2> DEFINE list == r.c.list
             i == r.at
  <2>1. i \in 1 .. Len(list) /\ list[i].key = ino
    BY <1>2, <1>6 DEF Got
  <2>2. Val(list, ino) = Val(c.list, ino)
    BY <1>4 DEF SameCounts
  <2> HIDE DEF list, i
  <2>3. Val(list, list[i].key) = list[i].val /\ Val(list, ino) \in Nat
    BY <1>4, <2>1, ValIs DEF list
  <2>4. R.c = r.c /\ R.n = list[i].val
    BY <1>1, <1>6 DEF list, i
  <2> QED BY <1>4, <2>1, <2>2, <2>3, <2>4 DEF R
<1> QED BY <1>5, <1>6

\* The count that the structure stands for, without its full map.
Count(c, ino) ==
  IF ino \in c.single THEN 1 ELSE IF c.kind = "increment" /\ ino \notin c.multiple THEN 0 ELSE Val(c.list, ino)

\* Changing a bit of one inode.
LEMMA Bits ==
  ASSUME NEW c, Sound(c), NEW ino \in CountedInodes
  PROVE  /\ Became(c, Marked(c, "single", ino), c.single \cup {ino}, c.multiple, ino, Val(c.list, ino))
         /\ Became(c, Unmarked(c, "single", ino), c.single \ {ino}, c.multiple, ino, Val(c.list, ino))
         /\ Became(c, Marked(c, "multiple", ino), c.single, c.multiple \cup {ino}, ino, Val(c.list, ino))
         /\ Became(c, Unmarked(c, "multiple", ino), c.single, c.multiple \ {ino}, ino, Val(c.list, ino))
<1>1. ASSUME NEW S \in SUBSET CountedInodes, NEW M \in SUBSET CountedInodes, NEW d, d.list = c.list, d \in Structs,
             d.kind = c.kind, d.size = c.size, d.cursor = c.cursor, d.last = c.last, d.single = S, d.multiple = M
      PROVE  Became(c, d, S, M, ino, Val(c.list, ino))
  <2>1. Sound(d)
    BY <1>1 DEF Sound
  <2> QED BY <1>1, <2>1 DEF Became
<1>2. c \in Structs /\ c.single \in SUBSET CountedInodes /\ c.multiple \in SUBSET CountedInodes
  BY SoundFields
<1> DEFINE Changed(d, S, M) ==
       /\ d \in Structs /\ d.list = c.list /\ d.kind = c.kind /\ d.size = c.size /\ d.cursor = c.cursor
       /\ d.last = c.last /\ d.single = S /\ d.multiple = M
<1>3. /\ Changed([c EXCEPT !.single = @ \cup {ino}], c.single \cup {ino}, c.multiple)
      /\ Changed([c EXCEPT !.single = @ \ {ino}], c.single \ {ino}, c.multiple)
      /\ Changed([c EXCEPT !.multiple = @ \cup {ino}], c.single, c.multiple \cup {ino})
      /\ Changed([c EXCEPT !.multiple = @ \ {ino}], c.single, c.multiple \ {ino})
  BY <1>2 DEF Structs
<1>4. /\ c.single \cup {ino} \in SUBSET CountedInodes /\ c.single \ {ino} \in SUBSET CountedInodes
      /\ c.multiple \cup {ino} \in SUBSET CountedInodes /\ c.multiple \ {ino} \in SUBSET CountedInodes
  BY <1>2
<1>5. ASSUME NEW S \in SUBSET CountedInodes, NEW M \in SUBSET CountedInodes, NEW d, Changed(d, S, M)
      PROVE  Became(c, d, S, M, ino, Val(c.list, ino))
  BY <1>1, <1>5
<1> HIDE DEF Changed
<1>6. Became(c, Marked(c, "single", ino), c.single \cup {ino}, c.multiple, ino, Val(c.list, ino))
  <2> DEFINE d == [c EXCEPT !.single = @ \cup {ino}]
  <2>1. Changed(d, c.single \cup {ino}, c.multiple)
    BY <1>3
  <2>2. Marked(c, "single", ino) = d
    BY MarkedIs
  <2> HIDE DEF d
  <2>3. Became(c, d, c.single \cup {ino}, c.multiple, ino, Val(c.list, ino))
    BY <1>2, <1>4, <1>5, <2>1
  <2> QED BY <2>2, <2>3
<1>7. Became(c, Unmarked(c, "single", ino), c.single \ {ino}, c.multiple, ino, Val(c.list, ino))
  <2> DEFINE d == [c EXCEPT !.single = @ \ {ino}]
  <2>1. Changed(d, c.single \ {ino}, c.multiple)
    BY <1>3
  <2>2. Unmarked(c, "single", ino) = d
    BY MarkedIs
  <2> HIDE DEF d
  <2>3. Became(c, d, c.single \ {ino}, c.multiple, ino, Val(c.list, ino))
    BY <1>2, <1>4, <1>5, <2>1
  <2> QED BY <2>2, <2>3
<1>8. Became(c, Marked(c, "multiple", ino), c.single, c.multiple \cup {ino}, ino, Val(c.list, ino))
  <2> DEFINE d == [c EXCEPT !.multiple = @ \cup {ino}]
  <2>1. Changed(d, c.single, c.multiple \cup {ino})
    BY <1>3
  <2>2. Marked(c, "multiple", ino) = d
    BY MarkedIs
  <2> HIDE DEF d
  <2>3. Became(c, d, c.single, c.multiple \cup {ino}, ino, Val(c.list, ino))
    BY <1>2, <1>4, <1>5, <2>1
  <2> QED BY <2>2, <2>3
<1>9. Became(c, Unmarked(c, "multiple", ino), c.single, c.multiple \ {ino}, ino, Val(c.list, ino))
  <2> DEFINE d == [c EXCEPT !.multiple = @ \ {ino}]
  <2>1. Changed(d, c.single, c.multiple \ {ino})
    BY <1>3
  <2>2. Unmarked(c, "multiple", ino) = d
    BY MarkedIs
  <2> HIDE DEF d
  <2>3. Became(c, d, c.single, c.multiple \ {ino}, ino, Val(c.list, ino))
    BY <1>2, <1>4, <1>5, <2>1
  <2> QED BY <2>2, <2>3
<1> QED BY <1>6, <1>7, <1>8, <1>9

\* One change after another.
LEMMA BecameThen ==
  ASSUME NEW c, NEW d, NEW e, NEW S, NEW M, NEW T, NEW N, NEW ino, NEW v, NEW w,
         Became(c, d, S, M, ino, v), Became(d, e, T, N, ino, w)
  PROVE  Became(c, e, T, N, ino, w)
BY DEF Became

\* d counts v for ino, and what c counts for the others.
Done(c, d, ino, v) ==
  /\ Sound(d) /\ d.kind = c.kind
  /\ \A k \in CountedInodes : Count(d, k) = IF k = ino THEN v ELSE Count(c, k)

\* What the structure counts after a change of one inode.
LEMMA BecameDone ==
  ASSUME NEW c, NEW d, NEW S, NEW M, NEW ino, NEW v, NEW n, Became(c, d, S, M, ino, v),
         \A k : k # ino => (k \in S <=> k \in c.single) /\ (k \in M <=> k \in c.multiple),
         n = IF ino \in S THEN 1 ELSE IF c.kind = "increment" /\ ino \notin M THEN 0 ELSE v
  PROVE  Done(c, d, ino, n)
<1>1. Sound(d) /\ d.kind = c.kind /\ d.single = S /\ d.multiple = M
  BY DEF Became
<1>2. \A k : Val(d.list, k) = IF k = ino THEN v ELSE Val(c.list, k)
  BY DEF Became
<1>3. ASSUME NEW k \in CountedInodes PROVE Count(d, k) = IF k = ino THEN n ELSE Count(c, k)
  <2>1. CASE k = ino
    <3>1. Count(d, ino) = IF ino \in S THEN 1 ELSE IF c.kind = "increment" /\ ino \notin M THEN 0 ELSE v
      BY <1>1, <1>2 DEF Count
    <3> QED BY <2>1, <3>1
  <2>2. CASE k # ino
    BY <1>1, <1>2, <2>2 DEF Count
  <2> QED BY <2>1, <2>2
<1> QED BY <1>1, <1>3 DEF Done

\* A structure that counts the same.
LEMMA StillSame ==
  ASSUME NEW c, NEW d, NEW ino, SameCounts(c, d)
  PROVE  Became(c, d, c.single, c.multiple, ino, Val(c.list, ino)) /\ Sound(d) /\ Val(d.list, ino) = Val(c.list, ino)
BY DEF SameCounts, Became

\* What setting a count to n leaves: c has become r.c, or memory could not be
\* had and the list, which has no entry for ino, says what it said.
Afterwards(c, r, S, M, ino, n, v) ==
  IF r.ok THEN Became(c, r.c, S, M, ino, n)
  ELSE r.ok = FALSE /\ v = 0 /\ Became(c, r.c, S, M, ino, v)

\* Setting the count after a change that left the bitmaps of ino's neighbours alone.
LEMMA SetAfter ==
  ASSUME IcountAssumption, NEW c, NEW d, NEW S, NEW M, NEW ino \in CountedInodes, NEW v, NEW n \in Nat,
         NEW grows \in BOOLEAN,
         Became(c, d, S, M, ino, v), c.kind # "fullmap"
  PROVE  Afterwards(c, set_inode_count(d, ino, n, grows), S, M, ino, n, v)
<1>1. Sound(d) /\ d.kind # "fullmap" /\ d.single = S /\ d.multiple = M /\ Val(d.list, ino) = v
  BY DEF Became
<1> DEFINE s == set_inode_count(d, ino, n, grows)
<1>2. SetGot(d, s, ino, n)
  BY <1>1, SetIs
<1>3. ~HasKey(d.list, ino) => v = 0
  BY <1>1, SoundFields, ValIs
<1> HIDE DEF s
<1>4. CASE s.ok
  <2>1. Became(d, s.c, S, M, ino, n)
    BY <1>1, <1>2, <1>4 DEF SetGot
  <2>2. Became(c, s.c, S, M, ino, n)
    BY <2>1, BecameThen
  <2> QED BY <1>4, <2>2 DEF Afterwards, s
<1>5. CASE ~s.ok
  <2>1. s.ok = FALSE /\ ~HasKey(d.list, ino) /\ Became(d, s.c, S, M, ino, v)
    BY <1>1, <1>2, <1>5 DEF SetGot
  <2>2. Became(c, s.c, S, M, ino, v)
    BY <2>1, BecameThen
  <2> QED BY <1>3, <1>5, <2>1, <2>2 DEF Afterwards, s
<1> QED BY <1>4, <1>5

\* The end of ext2fs_icount_increment.
LEMMA ManyIs ==
  ASSUME NEW c, NEW d, NEW S, NEW M, NEW ino \in CountedInodes, NEW v, Became(c, d, S, M, ino, v)
  PROVE  Became(c, Many(d, ino), S, IF c.kind = "increment" THEN M \cup {ino} ELSE M, ino, v)
<1>1. Sound(d) /\ d.kind = c.kind /\ d.single = S /\ d.multiple = M /\ Val(d.list, ino) = v
  BY DEF Became
<1>2. CASE c.kind = "increment"
  <2>1. Became(d, Marked(d, "multiple", ino), S, M \cup {ino}, ino, v)
    BY <1>1, Bits
  <2>2. Many(d, ino) = Marked(d, "multiple", ino)
    BY <1>1, <1>2 DEF Many, HasMultiple
  <2> QED BY <1>2, <2>1, <2>2, BecameThen
<1>3. CASE c.kind # "increment"
  BY <1>1, <1>3 DEF Many, HasMultiple
<1> QED BY <1>2, <1>3

\* Changing a bit after a change.
LEMMA BitsAfter ==
  ASSUME NEW c, NEW d, NEW S, NEW M, NEW ino \in CountedInodes, NEW v, Became(c, d, S, M, ino, v)
  PROVE  /\ Became(c, Marked(d, "single", ino), S \cup {ino}, M, ino, v)
         /\ Became(c, Unmarked(d, "single", ino), S \ {ino}, M, ino, v)
         /\ Became(c, Marked(d, "multiple", ino), S, M \cup {ino}, ino, v)
         /\ Became(c, Unmarked(d, "multiple", ino), S, M \ {ino}, ino, v)
<1>1. Sound(d) /\ d.kind = c.kind /\ d.single = S /\ d.multiple = M /\ Val(d.list, ino) = v
  BY DEF Became
<1>2. /\ Became(d, Marked(d, "single", ino), S \cup {ino}, M, ino, v)
      /\ Became(d, Unmarked(d, "single", ino), S \ {ino}, M, ino, v)
      /\ Became(d, Marked(d, "multiple", ino), S, M \cup {ino}, ino, v)
      /\ Became(d, Unmarked(d, "multiple", ino), S, M \ {ino}, ino, v)
  BY <1>1, Bits
<1> QED BY <1>2, BecameThen

\* No change.
LEMMA Itself ==
  ASSUME NEW c, Sound(c), NEW ino
  PROVE  Became(c, c, c.single, c.multiple, ino, Val(c.list, ino))
BY DEF Became

\* ext2fs_icount_increment on a list counts one more, or nothing changes.
LEMMA IncrementIs ==
  ASSUME IcountAssumption, NEW c, Sound(c), c.kind # "fullmap", NEW ino \in CountedInodes, NEW grows \in BOOLEAN
  PROVE  LET r == ext2fs_icount_increment(c, ino, grows)
         IN  IF r.ok THEN Done(c, r.c, ino, Count(c, ino) + 1) ELSE Done(c, r.c, ino, Count(c, ino))
<1> DEFINE S == c.single
           M == c.multiple
           two == set_inode_count(c, ino, 2, grows)
           old == get_inode_count(c, ino)
           more == set_inode_count(old.c, ino, old.n + 1, grows)
           r == ext2fs_icount_increment(c, ino, grows)
           R == IF ino \in c.single
                THEN [c |-> IF two.ok THEN Many(Unmarked(two.c, "single", ino), ino) ELSE two.c, ok |-> two.ok]
                ELSE IF HasMultiple(c) /\ ino \notin c.multiple
                THEN [c |-> Marked(c, "single", ino), ok |-> TRUE]
                ELSE [c |-> IF more.ok THEN Many(more.c, ino) ELSE more.c, ok |-> more.ok]
<1>1. r = R
  BY DEF ext2fs_icount_increment
<1> HIDE DEF r
<1>2. CASE ino \in S
  <2>0. Count(c, ino) = 1
    BY <1>2 DEF Count
  <2>1. Afterwards(c, two, S, M, ino, 2, Val(c.list, ino))
    BY Itself, SetAfter
  <2> HIDE DEF two
  <2>2. CASE two.ok
    <3>1. Became(c, Unmarked(two.c, "single", ino), S \ {ino}, M, ino, 2)
      BY <2>1, <2>2, BitsAfter DEF Afterwards
    <3> DEFINE d == Many(Unmarked(two.c, "single", ino), ino)
               N == IF c.kind = "increment" THEN M \cup {ino} ELSE M
    <3>2. Became(c, d, S \ {ino}, N, ino, 2)
      BY <3>1, ManyIs
    <3>3. r.c = d /\ r.ok
      BY <1>1, <1>2, <2>2
    <3> HIDE DEF d
    <3>4. /\ \A k : k # ino => (k \in S \ {ino} <=> k \in c.single) /\ (k \in N <=> k \in c.multiple)
          /\ 2 = IF ino \in S \ {ino} THEN 1 ELSE IF c.kind = "increment" /\ ino \notin N THEN 0 ELSE 2
      OBVIOUS
    <3> HIDE DEF N
    <3>5. Done(c, d, ino, 2)
      BY <3>2, <3>4, BecameDone
    <3> QED BY <2>0, <3>3, <3>5 DEF r
  <2>3. CASE ~two.ok
    <3> DEFINE d == two.c
    <3>1. Became(c, d, S, M, ino, Val(c.list, ino))
      BY <2>1, <2>3 DEF Afterwards
    <3>2. r.c = d /\ ~r.ok
      BY <1>1, <1>2, <2>3, <2>1 DEF Afterwards
    <3> HIDE DEF d
    <3>3. Done(c, d, ino, Count(c, ino))
      BY <3>1, BecameDone DEF Count
    <3> QED BY <3>2, <3>3 DEF r
  <2> QED BY <2>2, <2>3
<1>3. CASE ino \notin S /\ HasMultiple(c) /\ ino \notin M
  <2>0. Count(c, ino) = 0
    BY <1>3 DEF Count, HasMultiple
  <2> DEFINE d == Marked(c, "single", ino)
  <2>1. Became(c, d, S \cup {ino}, M, ino, Val(c.list, ino))
    BY Bits
  <2>2. r.c = d /\ r.ok
    BY <1>1, <1>3
  <2> HIDE DEF d
  <2>3. \A k : k # ino => (k \in S \cup {ino} <=> k \in c.single) /\ (k \in M <=> k \in c.multiple)
    OBVIOUS
  <2>4. Done(c, d, ino, 1)
    BY <2>1, <2>3, BecameDone
  <2> QED BY <2>0, <2>2, <2>4 DEF r
<1>4. CASE ino \notin S /\ ~(HasMultiple(c) /\ ino \notin M)
  <2>0. Count(c, ino) = Val(c.list, ino) /\ Val(c.list, ino) \in Nat /\ old.n = Val(c.list, ino) /\ SameCounts(c, old.c)
    BY <1>4, GetCountIs DEF Count, HasMultiple
  <2> HIDE DEF old
  <2>1. Became(c, old.c, S, M, ino, Val(c.list, ino)) /\ old.n + 1 \in Nat
    BY <2>0, StillSame
  <2>2. Afterwards(c, more, S, M, ino, old.n + 1, Val(c.list, ino))
    BY <2>1, SetAfter
  <2> HIDE DEF more
  <2>3. CASE more.ok
    <3> DEFINE d == Many(more.c, ino)
               N == IF c.kind = "increment" THEN M \cup {ino} ELSE M
               n == old.n + 1
    <3>1. Became(c, d, S, N, ino, n)
      BY <2>2, <2>3, ManyIs DEF Afterwards
    <3>2. r.c = d /\ r.ok
      BY <1>1, <1>4, <2>3
    <3> HIDE DEF d
    <3>3. /\ \A k : k # ino => (k \in S <=> k \in c.single) /\ (k \in N <=> k \in c.multiple)
          /\ n = IF ino \in S THEN 1 ELSE IF c.kind = "increment" /\ ino \notin N THEN 0 ELSE n
      BY <1>4
    <3> HIDE DEF N, n
    <3>4. Done(c, d, ino, n)
      BY <3>1, <3>3, BecameDone
    <3>5. n = Count(c, ino) + 1
      BY <2>0 DEF n
    <3> QED BY <3>2, <3>4, <3>5 DEF r
  <2>4. CASE ~more.ok
    <3> DEFINE d == more.c
    <3>1. Became(c, d, S, M, ino, Val(c.list, ino))
      BY <2>2, <2>4 DEF Afterwards
    <3>2. r.c = d /\ ~r.ok
      BY <1>1, <1>4, <2>4, <2>2 DEF Afterwards
    <3> HIDE DEF d
    <3>3. Done(c, d, ino, Count(c, ino))
      BY <3>1, BecameDone DEF Count
    <3> QED BY <3>2, <3>3 DEF r
  <2> QED BY <2>3, <2>4
<1> QED BY <1>2, <1>3, <1>4

\* Clearing the count of ino: its bits go, and without a "multiple" bitmap a
\* zero goes to the list, unless there is no room and no entry for it either.
LEMMA ClearedIs ==
  ASSUME IcountAssumption, NEW c, NEW d, NEW S, NEW M, NEW ino \in CountedInodes, NEW v, NEW grows \in BOOLEAN,
         Became(c, d, S, M, ino, v), c.kind # "fullmap", c.kind # "increment", ino \notin S,
         \A k : k # ino => (k \in S <=> k \in c.single) /\ (k \in M <=> k \in c.multiple)
  PROVE  Done(c, set_inode_count(d, ino, 0, grows).c, ino, 0)
<1> DEFINE r == set_inode_count(d, ino, 0, grows)
<1>1. Afterwards(c, r, S, M, ino, 0, v)
  BY SetAfter
<1> HIDE DEF r
<1>2. Became(c, r.c, S, M, ino, 0)
  BY <1>1 DEF Afterwards
<1>3. Done(c, r.c, ino, 0)
  BY <1>2, BecameDone
<1> QED BY <1>3 DEF r

\* A single link is taken away, be there memory for a zero or not.
LEMMA DecrementSingleIs ==
  ASSUME IcountAssumption, NEW c, Sound(c), c.kind # "fullmap", NEW ino \in CountedInodes, NEW grows \in BOOLEAN
  PROVE  Done(c, DecrementSingle(c, ino, grows), ino, 0)
<1> DEFINE S == c.single \ {ino}
           M == c.multiple
           d == Unmarked(c, "single", ino)
<1>1. Became(c, d, S, M, ino, Val(c.list, ino))
  BY Bits
<1>2. CASE c.kind = "increment"
  <2> DEFINE e == Unmarked(d, "multiple", ino)
             N == M \ {ino}
  <2>1. Became(c, e, S, N, ino, Val(c.list, ino))
    BY <1>1, BitsAfter
  <2>2. DecrementSingle(c, ino, grows) = e
    BY <1>2 DEF DecrementSingle, HasMultiple
  <2>3. ino \notin S /\ ino \notin N /\ \A k : k # ino => (k \in S <=> k \in c.single) /\ (k \in N <=> k \in c.multiple)
    OBVIOUS
  <2> HIDE DEF e, S, N
  <2>4. Done(c, e, ino, 0)
    BY <1>2, <2>1, <2>3, BecameDone
  <2> QED BY <2>2, <2>4
<1>3. CASE c.kind # "increment"
  <2>1. DecrementSingle(c, ino, grows) = set_inode_count(d, ino, 0, grows).c
    BY <1>3 DEF DecrementSingle, HasMultiple
  <2>2. ino \notin S /\ \A k : k # ino => (k \in S <=> k \in c.single) /\ (k \in M <=> k \in c.multiple)
    OBVIOUS
  <2> HIDE DEF d, S
  <2>3. Done(c, set_inode_count(d, ino, 0, grows).c, ino, 0)
    BY <1>1, <1>3, <2>2, ClearedIs
  <2> QED BY <2>1, <2>3
<1> QED BY <1>2, <1>3

\* What a call leaves that sets the count of ino to n when it succeeds.
Outcome(c, r, ino, n) ==
  IF r.ok THEN Done(c, r.c, ino, n) ELSE Done(c, r.c, ino, Count(c, ino))

\* A call that fails changes no count.
LEMMA NothingDone ==
  ASSUME NEW c, NEW d, NEW ino, Became(c, d, c.single, c.multiple, ino, Val(c.list, ino))
  PROVE  Done(c, d, ino, Count(c, ino))
BY BecameDone DEF Count

\* ext2fs_icount_decrement on a list counts one less, and only what was counted.
LEMMA DecrementIs ==
  ASSUME IcountAssumption, NEW c, Sound(c), c.kind # "fullmap", NEW ino \in CountedInodes, NEW grows \in BOOLEAN
  PROVE  LET r == ext2fs_icount_decrement(c, ino, grows)
         IN  Outcome(c, r, ino, Count(c, ino) - 1) /\ (r.ok => Count(c, ino) \in Nat \ {0})
<1> DEFINE S == c.single
           M == c.multiple
           old == get_inode_count(c, ino)
           less == set_inode_count(old.c, ino, old.n - 1, grows)
           one == IF old.n = 2 THEN Marked(less.c, "single", ino) ELSE less.c
           none == IF old.n = 1 /\ HasMultiple(c) THEN Unmarked(one, "multiple", ino) ELSE one
           r == ext2fs_icount_decrement(c, ino, grows)
           R == IF ino \in c.single THEN [c |-> DecrementSingle(c, ino, grows), ok |-> TRUE]
                ELSE IF HasMultiple(c) /\ ino \notin c.multiple THEN [c |-> c, ok |-> FALSE]
                ELSE IF old.n = 0 THEN [c |-> old.c, ok |-> FALSE]
                ELSE IF ~less.ok THEN [c |-> less.c, ok |-> FALSE]
                ELSE [c |-> none, ok |-> TRUE]
           Good == Outcome(c, r, ino, Count(c, ino) - 1) /\ (r.ok => Count(c, ino) \in Nat \ {0})
<1>1. r = R
  BY DEF ext2fs_icount_decrement
<1> HIDE DEF r
<1>2. CASE ino \in S
  <2>0. Count(c, ino) = 1 /\ Count(c, ino) - 1 = 0
    BY <1>2 DEF Count
  <2> DEFINE d == DecrementSingle(c, ino, grows)
  <2>1. Done(c, d, ino, 0)
    BY DecrementSingleIs
  <2>2. r.c = d /\ r.ok
    BY <1>1, <1>2
  <2> HIDE DEF d
  <2>3. Good
    BY <2>0, <2>1, <2>2 DEF Outcome
  <2> QED BY <2>3 DEF r
<1>3. CASE ino \notin S /\ HasMultiple(c) /\ ino \notin M
  <2>1. r.c = c /\ ~r.ok
    BY <1>1, <1>3
  <2>2. Done(c, c, ino, Count(c, ino))
    BY Itself, NothingDone
  <2>3. Good
    BY <2>1, <2>2 DEF Outcome
  <2> QED BY <2>3 DEF r
<1>4. CASE ino \notin S /\ ~(HasMultiple(c) /\ ino \notin M)
  <2>0. Count(c, ino) = Val(c.list, ino) /\ Val(c.list, ino) \in Nat /\ old.n = Val(c.list, ino) /\ SameCounts(c, old.c)
    BY <1>4, GetCountIs DEF Count, HasMultiple
  <2> HIDE DEF old
  <2>1. Became(c, old.c, S, M, ino, Val(c.list, ino))
    BY <2>0, StillSame
  <2>2. CASE old.n = 0
    <3> DEFINE d == old.c
    <3>1. r.c = d /\ ~r.ok
      BY <1>1, <1>4, <2>2
    <3> HIDE DEF d
    <3>2. Done(c, d, ino, Count(c, ino))
      BY <2>1, NothingDone DEF d
    <3>3. Good
      BY <3>1, <3>2 DEF Outcome
    <3> QED BY <3>3 DEF r
  <2>3. CASE old.n # 0
    <3> DEFINE n == old.n - 1
    <3>0. n \in Nat /\ Count(c, ino) \in Nat \ {0} /\ n = Count(c, ino) - 1
      BY <2>0, <2>3
    <3>1. Afterwards(c, less, S, M, ino, n, Val(c.list, ino))
      BY <2>1, <3>0, SetAfter
    <3> HIDE DEF less, n
    <3>2. CASE ~less.ok
      <4> DEFINE d == less.c
      <4>1. r.c = d /\ ~r.ok
        BY <1>1, <1>4, <2>3, <3>2
      <4> HIDE DEF d
      <4>2. Done(c, d, ino, Count(c, ino))
        BY <3>1, <3>2, NothingDone DEF d, Afterwards
      <4>3. Good
        BY <4>1, <4>2 DEF Outcome
      <4> QED BY <4>3 DEF r
    <3>3. CASE less.ok
      <4>1. r.c = none /\ r.ok
        BY <1>1, <1>4, <2>3, <3>3
      <4>2. Became(c, less.c, S, M, ino, n)
        BY <3>1, <3>3 DEF Afterwards
      <4> DEFINE T == IF old.n = 2 THEN S \cup {ino} ELSE S
                 N == IF old.n = 1 /\ HasMultiple(c) THEN M \ {ino} ELSE M
      <4>3. Became(c, one, T, M, ino, n)
        <5>1. Became(c, Marked(less.c, "single", ino), S \cup {ino}, M, ino, n)
          BY <4>2, BitsAfter
        <5> QED BY <4>2, <5>1
      <4> HIDE DEF one
      <4>4. Became(c, none, T, N, ino, n)
        <5>1. Became(c, Unmarked(one, "multiple", ino), T, M \ {ino}, ino, n)
          BY <4>3, BitsAfter
        <5> QED BY <4>3, <5>1
      <4> HIDE DEF none
      <4>5. old.n \in Nat /\ n = old.n - 1
        BY <2>0 DEF n
      <4>6. n = IF ino \in T THEN 1 ELSE IF c.kind = "increment" /\ ino \notin N THEN 0 ELSE n
        <5>1. CASE old.n = 2
          BY <5>1, <4>5
        <5>2. CASE old.n = 1
          BY <5>2, <4>5, <1>4
        <5>3. CASE old.n # 1 /\ old.n # 2
          BY <5>3, <1>4 DEF HasMultiple
        <5> QED BY <5>1, <5>2, <5>3
      <4>7. \A k : k # ino => (k \in T <=> k \in c.single) /\ (k \in N <=> k \in c.multiple)
        OBVIOUS
      <4> HIDE DEF T, N
      <4>8. Done(c, none, ino, n)
        BY <4>4, <4>6, <4>7, BecameDone
      <4>9. Good
        BY <3>0, <4>1, <4>8 DEF Outcome
      <4> QED BY <4>9 DEF r
    <3> QED BY <3>2, <3>3
  <2> QED BY <2>2, <2>3
<1> QED BY <1>2, <1>3, <1>4

\* ext2fs_icount_store on a list.
LEMMA StoreIs ==
  ASSUME IcountAssumption, NEW c, Sound(c), c.kind # "fullmap", NEW ino \in CountedInodes, NEW n \in Nat,
         NEW grows \in BOOLEAN
  PROVE  Outcome(c, ext2fs_icount_store(c, ino, n, grows), ino, n)
<1> DEFINE S == c.single
           M == c.multiple
           clear == Unmarked(Unmarked(c, "single", ino), "multiple", ino)
           stored == set_inode_count(c, ino, n, grows)
           r == ext2fs_icount_store(c, ino, n, grows)
           R == IF n = 1
                THEN [c |-> Marked(Unmarked(c, "multiple", ino), "single", ino), ok |-> TRUE]
                ELSE IF n = 0
                THEN [c |-> IF HasMultiple(c) THEN clear ELSE set_inode_count(clear, ino, 0, grows).c, ok |-> TRUE]
                ELSE IF ~stored.ok THEN stored
                ELSE [c |-> Many(Unmarked(stored.c, "single", ino), ino), ok |-> TRUE]
<1>1. r = R
  BY DEF ext2fs_icount_store
<1> HIDE DEF r
<1>2. CASE n = 1
  <2> DEFINE d == Marked(Unmarked(c, "multiple", ino), "single", ino)
  <2>1. Became(c, d, S \cup {ino}, M \ {ino}, ino, Val(c.list, ino))
    BY Bits, BitsAfter
  <2>2. r.c = d /\ r.ok
    BY <1>1, <1>2
  <2> HIDE DEF d
  <2>3. \A k : k # ino => (k \in S \cup {ino} <=> k \in c.single) /\ (k \in M \ {ino} <=> k \in c.multiple)
    OBVIOUS
  <2>4. Done(c, d, ino, n)
    BY <1>2, <2>1, <2>3, BecameDone
  <2> QED BY <2>2, <2>4 DEF Outcome, r
<1>3. CASE n = 0
  <2> DEFINE T == S \ {ino}
             N == M \ {ino}
  <2>1. Became(c, clear, T, N, ino, Val(c.list, ino))
    BY Bits, BitsAfter
  <2> HIDE DEF clear
  <2>2. ino \notin T /\ ino \notin N /\ \A k : k # ino => (k \in T <=> k \in c.single) /\ (k \in N <=> k \in c.multiple)
    OBVIOUS
  <2> HIDE DEF T, N
  <2>3. CASE c.kind = "increment"
    <3>1. r.c = clear /\ r.ok
      BY <1>1, <1>3, <2>3 DEF HasMultiple
    <3>2. Done(c, clear, ino, n)
      BY <1>3, <2>1, <2>2, <2>3, BecameDone
    <3> QED BY <3>1, <3>2 DEF Outcome, r
  <2>4. CASE c.kind # "increment"
    <3> DEFINE d == set_inode_count(clear, ino, 0, grows).c
    <3>1. r.c = d /\ r.ok
      BY <1>1, <1>3, <2>4 DEF HasMultiple
    <3>2. Done(c, d, ino, 0)
      BY <2>1, <2>2, <2>4, ClearedIs
    <3> HIDE DEF d
    <3> QED BY <1>3, <3>1, <3>2 DEF Outcome, r
  <2> QED BY <2>3, <2>4
<1>4. CASE n # 0 /\ n # 1
  <2>1. Afterwards(c, stored, S, M, ino, n, Val(c.list, ino))
    BY Itself, SetAfter
  <2> HIDE DEF stored
  <2>2. CASE ~stored.ok
    <3> DEFINE d == stored.c
    <3>1. r.c = d /\ ~r.ok
      BY <1>1, <1>4, <2>2
    <3>2. Done(c, d, ino, Count(c, ino))
      BY <2>1, <2>2, NothingDone DEF Afterwards
    <3> HIDE DEF d
    <3> QED BY <3>1, <3>2 DEF Outcome, r
  <2>3. CASE stored.ok
    <3> DEFINE d == Many(Unmarked(stored.c, "single", ino), ino)
               T == S \ {ino}
               N == IF c.kind = "increment" THEN M \cup {ino} ELSE M
    <3>1. r.c = d /\ r.ok
      BY <1>1, <1>4, <2>3
    <3>2. Became(c, Unmarked(stored.c, "single", ino), T, M, ino, n)
      BY <2>1, <2>3, BitsAfter DEF Afterwards
    <3>3. Became(c, d, T, N, ino, n)
      BY <3>2, ManyIs
    <3> HIDE DEF d
    <3>4. /\ \A k : k # ino => (k \in T <=> k \in c.single) /\ (k \in N <=> k \in c.multiple)
          /\ n = IF ino \in T THEN 1 ELSE IF c.kind = "increment" /\ ino \notin N THEN 0 ELSE n
      OBVIOUS
    <3> HIDE DEF T, N
    <3>5. Done(c, d, ino, n)
      BY <3>3, <3>4, BecameDone
    <3> QED BY <3>1, <3>5 DEF Outcome, r
  <2> QED BY <2>2, <2>3
<1> QED BY <1>2, <1>3, <1>4

\* ext2fs_icount_fetch on a list returns the count and changes none.
LEMMA FetchIs ==
  ASSUME IcountAssumption, NEW c, Sound(c), c.kind # "fullmap", NEW ino \in CountedInodes
  PROVE  /\ SameCounts(c, ext2fs_icount_fetch(c, ino).c)
         /\ ext2fs_icount_fetch(c, ino).n = icount_16_xlate(Count(c, ino))
<1> DEFINE r == get_inode_count(c, ino)
           R == ext2fs_icount_fetch(c, ino)
<1>1. R = IF ino \in c.single THEN [c |-> c, n |-> 1]
          ELSE IF HasMultiple(c) /\ ino \notin c.multiple THEN [c |-> c, n |-> 0]
          ELSE [c |-> r.c, n |-> icount_16_xlate(r.n)]
  BY DEF ext2fs_icount_fetch
<1>2. icount_16_xlate(1) = 1 /\ icount_16_xlate(0) = 0
  BY DEF icount_16_xlate, IcountAssumption
<1>3. SameCounts(c, r.c) /\ r.n = Val(c.list, ino) /\ SameCounts(c, c)
  BY GetCountIs, SoundSame
<1> HIDE DEF r, R
<1>4. CASE ino \in c.single
  <2>1. Count(c, ino) = 1
    BY <1>4 DEF Count
  <2> QED BY <1>1, <1>2, <1>3, <1>4, <2>1 DEF R
<1>5. CASE ino \notin c.single /\ HasMultiple(c) /\ ino \notin c.multiple
  <2>1. Count(c, ino) = 0
    BY <1>5 DEF Count, HasMultiple
  <2> QED BY <1>1, <1>2, <1>3, <1>5, <2>1 DEF R
<1>6. CASE ino \notin c.single /\ ~(HasMultiple(c) /\ ino \notin c.multiple)
  <2>1. Count(c, ino) = Val(c.list, ino)
    BY <1>6 DEF Count, HasMultiple
  <2> QED BY <1>1, <1>3, <1>6, <2>1 DEF R
<1> QED BY <1>4, <1>5, <1>6

\* The inductive invariant of the counts, of a structure c, the links l the
\* calls have added up to, and the counts o that met the cutoff.
Counts(c, l, o) ==
  /\ Sound(c) /\ l \in [CountedInodes -> Nat]
  /\ c.kind = "none" => c = NoCounts /\ l = [i \in CountedInodes |-> 0] /\ o = {}
  /\ c.kind \in {"plain", "increment"} => o = {} /\ \A k \in CountedInodes : l[k] = Count(c, k)
  /\ c.kind = "fullmap" => \A k \in CountedInodes : c.full[k] <= Cutoff /\ (k \notin o => c.full[k] = l[k])

\* It holds of the state.
IcountIInv == Counts(icount, links, cutOff)

\* The structure before it is created, and a full map.
LEMMA EmptyTable ==
  ASSUME IcountAssumption
  PROVE  /\ Sound(NoCounts) /\ Sound([NoCounts EXCEPT !.kind = "fullmap"])
         /\ \A k : Val(<<>>, k) = 0
<1>1. Table(<<>>, CountedInodes)
  BY DEF Table, Sorted, IcountAssumption
<1>2. NoCounts \in Structs /\ [NoCounts EXCEPT !.kind = "fullmap"] \in Structs
  <2>1. <<>> \in Seq(Entries(CountedInodes)) /\ [i \in CountedInodes |-> 0] \in [CountedInodes -> Nat]
    OBVIOUS
  <2> DEFINE none == <<>>
             zero == [i \in CountedInodes |-> 0]
  <2>2. NoCounts = [kind |-> "none", single |-> {}, multiple |-> {}, list |-> none, size |-> 0,
                    cursor |-> 0, last |-> 0, full |-> zero]
    BY DEF NoCounts
  <2> HIDE DEF none, zero
  <2>3. none \in Seq(Entries(CountedInodes)) /\ zero \in [CountedInodes -> Nat]
    BY <2>1 DEF none, zero
  <2> QED BY <2>2, <2>3 DEF Structs
<1>3. Sound(NoCounts) /\ Sound([NoCounts EXCEPT !.kind = "fullmap"])
  <2>1. ASSUME NEW c \in Structs, c.list = <<>>, c.size = 0, c.cursor = 0, c.last = 0 PROVE Sound(c)
    BY <1>1, <2>1 DEF Sound
  <2> DEFINE d == [NoCounts EXCEPT !.kind = "fullmap"]
  <2>2. NoCounts.list = <<>> /\ NoCounts.size = 0 /\ NoCounts.cursor = 0 /\ NoCounts.last = 0
    BY DEF NoCounts
  <2>3. d.list = <<>> /\ d.size = 0 /\ d.cursor = 0 /\ d.last = 0
    BY DEF NoCounts
  <2> QED BY <1>2, <2>1, <2>2, <2>3
<1>4. \A k : ~HasKey(<<>>, k)
  BY DEF HasKey
<1> QED BY <1>1, <1>3, <1>4, ValIs

\* A hint gives entries of zero.
LEMMA HintIs ==
  ASSUME IcountAssumption, NEW h \in Hints
  PROVE  Table(h, CountedInodes) /\ \A k : Val(h, k) = 0
<1>1. PICK n \in 0 .. 2 : h \in [1 .. n -> [key : CountedInodes, val : {0}]]
  BY DEF Hints
<1>2. h \in Seq(Entries(CountedInodes)) /\ Len(h) = n /\ \A i \in 1 .. Len(h) : h[i].val = 0
  <2>1. \A i \in 1 .. n : h[i] \in Entries(CountedInodes) /\ h[i].val = 0
    BY <1>1 DEF Entries
  <2>2. h \in Seq(Entries(CountedInodes)) /\ Len(h) = n
    BY <1>1, <2>1
  <2> QED BY <2>1, <2>2
<1>3. Table(h, CountedInodes)
  BY <1>2 DEF Table, Hints, IcountAssumption
<1>4. ASSUME NEW k PROVE Val(h, k) = 0
  <2>1. CASE HasKey(h, k)
    <3>1. PICK i \in 1 .. Len(h) : h[i].key = k
      BY <2>1 DEF HasKey
    <3>2. Val(h, h[i].key) = h[i].val
      BY <1>3, ValIs
    <3> QED BY <1>2, <3>1, <3>2
  <2>2. CASE ~HasKey(h, k)
    BY <1>3, <2>2, ValIs
  <2> QED BY <2>1, <2>2
<1> QED BY <1>3, <1>4

\* ext2fs_create_icount2 preserves the invariant.
LEMMA CreateIs ==
  ASSUME IcountAssumption, IcountIInv, NEW kind \in {"plain", "increment", "fullmap"}, NEW h \in Hints,
         ext2fs_create_icount2(kind, h)
  PROVE  IcountIInv'
<1> USE DEF IcountIInv
<1>1. icount = NoCounts /\ links = [i \in CountedInodes |-> 0] /\ cutOff = {} /\ links' = links /\ cutOff' = cutOff
  BY DEF ext2fs_create_icount2, Counts
<1>2. CASE kind = "fullmap"
  <2> DEFINE c == [NoCounts EXCEPT !.kind = "fullmap"]
  <2>1. icount' = c
    BY <1>2 DEF ext2fs_create_icount2
  <2>2. Sound(c)
    BY EmptyTable
  <2>3. c.kind = "fullmap" /\ \A k \in CountedInodes : c.full[k] = 0
    BY DEF NoCounts
  <2> HIDE DEF c
  <2>4. Counts(c, links, cutOff)
    BY <1>1, <2>2, <2>3 DEF Counts, IcountAssumption
  <2> QED BY <1>1, <2>1, <2>4
<1>3. CASE kind # "fullmap"
  <2> DEFINE size == IF Len(h) > ListRoom THEN Len(h) ELSE ListRoom
             c == [NoCounts EXCEPT !.kind = kind, !.size = size, !.list = h]
  <2>1. icount' = c
    BY <1>3 DEF ext2fs_create_icount2
  <2>2. Table(h, CountedInodes) /\ (\A k : Val(h, k) = 0) /\ h \in Seq(Entries(CountedInodes)) /\ Len(h) \in Nat
    BY HintIs DEF Table
  <2>3. size \in Nat /\ Len(h) <= size
    BY <2>2 DEF IcountAssumption
  <2> HIDE DEF size
  <2>4. c \in Structs /\ c.kind = kind /\ c.list = h /\ c.size = size /\ c.cursor = 0 /\ c.last = 0 /\ c.single = {} /\ c.multiple = {}
    BY <2>2, <2>3 DEF NoCounts, Structs
  <2> HIDE DEF c
  <2>5. Sound(c)
    BY <2>2, <2>3, <2>4 DEF Sound
  <2>6. \A k : Count(c, k) = 0
    BY <2>2, <2>4 DEF Count
  <2>7. Counts(c, links, cutOff)
    BY <1>1, <1>3, <2>4, <2>5, <2>6 DEF Counts
  <2> QED BY <1>1, <2>1, <2>7
<1> QED BY <1>2, <1>3

\* A step that leaves the count of ino at n, in a list.
LEMMA ListStep ==
  ASSUME NEW c, NEW l, NEW o, Counts(c, l, o), c.kind \in {"plain", "increment"},
         NEW d, NEW ino \in CountedInodes, NEW n \in Nat, Done(c, d, ino, n)
  PROVE  Counts(d, [l EXCEPT ![ino] = n], {}) /\ (n = l[ino] => Counts(d, l, {}))
<1> DEFINE m == [l EXCEPT ![ino] = n]
<1>1. l \in [CountedInodes -> Nat] /\ \A k \in CountedInodes : l[k] = Count(c, k)
  BY DEF Counts
<1>2. m \in [CountedInodes -> Nat] /\ \A k \in CountedInodes : m[k] = IF k = ino THEN n ELSE l[k]
  BY <1>1
<1>3. n = l[ino] => m = l
  BY <1>1
<1> HIDE DEF m
<1>4. d.kind \in {"plain", "increment"} /\ Sound(d) /\ \A k \in CountedInodes : Count(d, k) = m[k]
  BY <1>1, <1>2 DEF Done
<1>5. Counts(d, m, {})
  BY <1>2, <1>4 DEF Counts
<1> QED BY <1>3, <1>5 DEF m

\* A step that leaves the count of ino at n, in the full map.
LEMMA MapStep ==
  ASSUME NEW c, NEW l, NEW o, Counts(c, l, o), c.kind = "fullmap",
         NEW ino \in CountedInodes, NEW n \in Nat, n <= Cutoff, NEW m, m \in [CountedInodes -> Nat], NEW p,
         \A k \in CountedInodes : k # ino => m[k] = l[k] /\ (k \in p <=> k \in o),
         ino \notin p => m[ino] = n
  PROVE  Counts([c EXCEPT !.full[ino] = n], m, p)
<1> DEFINE d == [c EXCEPT !.full[ino] = n]
<1>1. c \in Structs /\ c.full \in [CountedInodes -> Nat] /\ Sound(c)
  BY SoundFields DEF Counts
<1>2. /\ d \in Structs /\ d.kind = "fullmap" /\ d.list = c.list /\ d.size = c.size /\ d.cursor = c.cursor /\ d.last = c.last
      /\ \A k \in CountedInodes : d.full[k] = IF k = ino THEN n ELSE c.full[k]
  BY <1>1 DEF Structs
<1> HIDE DEF d
<1>3. Sound(d)
  BY <1>1, <1>2 DEF Sound
<1>4. \A k \in CountedInodes : d.full[k] <= Cutoff /\ (k \notin p => d.full[k] = m[k])
  BY <1>2 DEF Counts
<1>5. Counts(d, m, p)
  BY <1>2, <1>3, <1>4 DEF Counts
<1> QED BY <1>5 DEF d

\* The invariant implies what is to be shown.
LEMMA IsCorrect ==
  ASSUME IcountAssumption, IcountIInv PROVE IcountCorrect
<1> USE DEF IcountIInv
<1>1. Sound(icount)
  BY DEF Counts
<1>2. IcountValid
  BY <1>1, SoundFields DEF IcountValid, Table
<1>3. CountsAreExact
  <2> SUFFICES ASSUME icount.kind # "none", NEW ino \in CountedInodes \ cutOff
               PROVE  ext2fs_icount_fetch(icount, ino).n = icount_16_xlate(links[ino])
    BY DEF CountsAreExact
  <2>1. CASE icount.kind = "fullmap"
    <3>1. icount.full[ino] = links[ino] /\ links[ino] \in Nat /\ links[ino] <= Cutoff
      BY <2>1 DEF Counts
    <3>2. ext2fs_icount_fetch(icount, ino).n = icount_16_xlate(icount.full[ino])
      BY <2>1 DEF ext2fs_icount_fetch, get_inode_count, HasMultiple
    <3> QED BY <3>1, <3>2
  <2>2. CASE icount.kind # "fullmap"
    <3>1. icount.kind \in {"plain", "increment"}
      BY <1>1, <2>2 DEF Sound, Structs
    <3>2. links[ino] = Count(icount, ino)
      BY <3>1 DEF Counts
    <3>3. ext2fs_icount_fetch(icount, ino).n = icount_16_xlate(Count(icount, ino))
      BY <1>1, <2>2, FetchIs
    <3> QED BY <3>2, <3>3
  <2> QED BY <2>1, <2>2
<1> QED BY <1>2, <1>3 DEF IcountCorrect

\* The steps preserve it: ext2fs_icount_fetch,
LEMMA FetchStep ==
  ASSUME IcountAssumption, IcountIInv, NEW ino \in CountedInodes, IcountFetch(ino) PROVE IcountIInv'
<1> USE DEF IcountIInv
<1> DEFINE d == ext2fs_icount_fetch(icount, ino).c
<1>1. icount.kind # "none" /\ icount' = d /\ links' = links /\ cutOff' = cutOff /\ Sound(icount)
  BY DEF IcountFetch, Counts
<1>2. CASE icount.kind = "fullmap"
  <2>1. d = icount
    BY <1>2 DEF ext2fs_icount_fetch, get_inode_count, HasMultiple
  <2> QED BY <1>1, <2>1
<1>3. CASE icount.kind # "fullmap"
  <2>1. SameCounts(icount, d)
    BY <1>1, <1>3, FetchIs
  <2> HIDE DEF d
  <2>2. icount.kind \in {"plain", "increment"}
    BY <1>1, <1>3 DEF Sound, Structs
  <2>3. Done(icount, d, ino, Count(icount, ino))
    BY <2>1, StillSame, NothingDone
  <2>4. links[ino] = Count(icount, ino) /\ links[ino] \in Nat /\ cutOff = {}
    BY <2>2 DEF Counts
  <2>5. Counts(d, links, {})
    BY <2>2, <2>3, <2>4, ListStep
  <2> QED BY <1>1, <2>4, <2>5
<1> QED BY <1>2, <1>3

\* ext2fs_icount_increment,
LEMMA IncrementStep ==
  ASSUME IcountAssumption, IcountIInv, NEW ino \in CountedInodes, IcountIncrement(ino) PROVE IcountIInv'
<1> USE DEF IcountIInv
<1>0. icount.kind # "none" /\ Sound(icount) /\ links \in [CountedInodes -> Nat] /\ Cutoff \in Nat \ {0}
  BY DEF IcountIncrement, Counts, IcountAssumption
<1>1. PICK grows \in BOOLEAN :
        LET r == ext2fs_icount_increment(icount, ino, grows)
        IN  /\ icount' = r.c
            /\ links' = IF r.ok THEN [links EXCEPT ![ino] = @ + 1] ELSE links
            /\ cutOff' = IF icount.kind = "fullmap" /\ icount.full[ino] = Cutoff
                         THEN cutOff \cup {ino} ELSE cutOff
  BY DEF IcountIncrement
<1> DEFINE r == ext2fs_icount_increment(icount, ino, grows)
<1>2. CASE icount.kind = "fullmap"
  <2> DEFINE f == icount.full[ino]
             n == icount_16_xlate(f + 1)
             m == [links EXCEPT ![ino] = links[ino] + 1]
             p == IF f = Cutoff THEN cutOff \cup {ino} ELSE cutOff
  <2>1. r = [c |-> [icount EXCEPT !.full[ino] = n], ok |-> TRUE]
    BY <1>2 DEF ext2fs_icount_increment
  <2>2. icount' = [icount EXCEPT !.full[ino] = n] /\ links' = m /\ cutOff' = p
    <3>1. r.c = [icount EXCEPT !.full[ino] = n] /\ r.ok
      BY <2>1
    <3> HIDE DEF r, n
    <3> QED BY <1>1, <1>2, <3>1 DEF r
  <2>3. f \in Nat /\ f <= Cutoff /\ (ino \notin cutOff => f = links[ino])
    BY <1>0, <1>2, SoundFields DEF Counts
  <2> HIDE DEF f
  <2>4. n \in Nat /\ n <= Cutoff /\ (f # Cutoff => n = f + 1)
    BY <1>0, <2>3 DEF icount_16_xlate
  <2>5. m \in [CountedInodes -> Nat] /\ \A k \in CountedInodes : m[k] = IF k = ino THEN links[ino] + 1 ELSE links[k]
    BY <1>0
  <2> HIDE DEF n, m
  <2>6. ino \notin p => m[ino] = n
    BY <2>3, <2>4, <2>5
  <2>7. \A k \in CountedInodes : k # ino => m[k] = links[k] /\ (k \in p <=> k \in cutOff)
    BY <2>5
  <2> HIDE DEF p
  <2>8. Counts([icount EXCEPT !.full[ino] = n], m, p)
    BY <1>2, <2>4, <2>5, <2>6, <2>7, MapStep
  <2> QED BY <2>2, <2>8
<1>3. CASE icount.kind # "fullmap"
  <2>1. IF r.ok THEN Done(icount, r.c, ino, Count(icount, ino) + 1) ELSE Done(icount, r.c, ino, Count(icount, ino))
    BY <1>0, <1>3, IncrementIs
  <2>2. /\ icount' = r.c /\ cutOff' = cutOff
        /\ links' = IF r.ok THEN [links EXCEPT ![ino] = links[ino] + 1] ELSE links
    BY <1>1, <1>3
  <2> HIDE DEF r
  <2>3. icount.kind \in {"plain", "increment"}
    BY <1>0, <1>3 DEF Sound, Structs
  <2>4. links[ino] = Count(icount, ino) /\ links[ino] \in Nat /\ cutOff = {}
    BY <1>0, <2>3 DEF Counts
  <2>5. CASE r.ok
    <3>1. Done(icount, r.c, ino, links[ino] + 1) /\ links[ino] + 1 \in Nat
      BY <2>1, <2>4, <2>5
    <3>2. Counts(r.c, [links EXCEPT ![ino] = links[ino] + 1], {})
      BY <2>3, <3>1, ListStep
    <3> QED BY <2>2, <2>4, <2>5, <3>2
  <2>6. CASE ~r.ok
    <3>1. Done(icount, r.c, ino, links[ino])
      BY <2>1, <2>4, <2>6
    <3>2. Counts(r.c, links, {})
      BY <2>3, <2>4, <3>1, ListStep
    <3> QED BY <2>2, <2>4, <2>6, <3>2
  <2> QED BY <2>5, <2>6
<1> QED BY <1>2, <1>3

\* ext2fs_icount_decrement,
LEMMA DecrementStep ==
  ASSUME IcountAssumption, IcountIInv, NEW ino \in CountedInodes, IcountDecrement(ino) PROVE IcountIInv'
<1> USE DEF IcountIInv
<1>0. icount.kind # "none" /\ Sound(icount) /\ links \in [CountedInodes -> Nat] /\ cutOff' = cutOff
  BY DEF IcountDecrement, Counts
<1>1. PICK grows \in BOOLEAN :
        LET r == ext2fs_icount_decrement(icount, ino, grows)
        IN  /\ icount' = r.c
            /\ links' = IF r.ok /\ links[ino] > 0 THEN [links EXCEPT ![ino] = @ - 1] ELSE links
  BY DEF IcountDecrement
<1> DEFINE r == ext2fs_icount_decrement(icount, ino, grows)
<1>2. CASE icount.kind = "fullmap" /\ icount.full[ino] = 0
  <2>1. r.c = icount /\ r.ok = FALSE
    BY <1>2 DEF ext2fs_icount_decrement
  <2> HIDE DEF r
  <2>2. icount' = icount /\ links' = links
    BY <1>1, <2>1 DEF r
  <2> QED BY <1>0, <2>2
<1>3. CASE icount.kind = "fullmap" /\ icount.full[ino] # 0
  <2> DEFINE f == icount.full[ino]
             n == f - 1
             m == IF links[ino] > 0 THEN [links EXCEPT ![ino] = links[ino] - 1] ELSE links
  <2>1. r = [c |-> [icount EXCEPT !.full[ino] = n], ok |-> TRUE]
    BY <1>3 DEF ext2fs_icount_decrement
  <2>2. icount' = [icount EXCEPT !.full[ino] = n] /\ links' = m
    <3>1. r.c = [icount EXCEPT !.full[ino] = n] /\ r.ok
      BY <2>1
    <3> HIDE DEF r, n
    <3> QED BY <1>1, <3>1 DEF r
  <2>3. f \in Nat /\ f <= Cutoff /\ (ino \notin cutOff => f = links[ino])
    BY <1>0, <1>3, SoundFields DEF Counts
  <2>4. n \in Nat /\ n <= Cutoff
    BY <1>3, <2>3 DEF IcountAssumption
  <2>5. /\ m \in [CountedInodes -> Nat]
        /\ \A k \in CountedInodes : m[k] = IF k = ino /\ links[ino] > 0 THEN links[ino] - 1 ELSE links[k]
    BY <1>0
  <2> HIDE DEF m
  <2>6. ino \notin cutOff => m[ino] = n
    BY <1>3, <2>3, <2>5
  <2>7. \A k \in CountedInodes : k # ino => m[k] = links[k]
    BY <2>5
  <2> HIDE DEF n
  <2>8. Counts([icount EXCEPT !.full[ino] = n], m, cutOff)
    BY <1>3, <2>4, <2>5, <2>6, <2>7, MapStep
  <2> QED BY <1>0, <2>2, <2>8
<1>4. CASE icount.kind # "fullmap"
  <2>1. Outcome(icount, r, ino, Count(icount, ino) - 1) /\ (r.ok => Count(icount, ino) \in Nat \ {0})
    BY <1>0, <1>4, DecrementIs
  <2>2. /\ icount' = r.c
        /\ links' = IF r.ok /\ links[ino] > 0 THEN [links EXCEPT ![ino] = links[ino] - 1] ELSE links
    BY <1>1
  <2> HIDE DEF r
  <2>3. icount.kind \in {"plain", "increment"}
    BY <1>0, <1>4 DEF Sound, Structs
  <2>4. links[ino] = Count(icount, ino) /\ links[ino] \in Nat /\ cutOff = {}
    BY <1>0, <2>3 DEF Counts
  <2>5. CASE r.ok
    <3>1. Done(icount, r.c, ino, links[ino] - 1) /\ links[ino] - 1 \in Nat /\ links[ino] > 0
      BY <2>1, <2>4, <2>5 DEF Outcome
    <3>2. Counts(r.c, [links EXCEPT ![ino] = links[ino] - 1], {})
      BY <2>3, <3>1, ListStep
    <3> QED BY <1>0, <2>2, <2>4, <2>5, <3>1, <3>2
  <2>6. CASE ~r.ok
    <3>1. Done(icount, r.c, ino, links[ino])
      BY <2>1, <2>4, <2>6 DEF Outcome
    <3>2. Counts(r.c, links, {})
      BY <2>3, <2>4, <3>1, ListStep
    <3> QED BY <1>0, <2>2, <2>4, <2>6, <3>2
  <2> QED BY <2>5, <2>6
<1> QED BY <1>2, <1>3, <1>4

\* and ext2fs_icount_store.
LEMMA StoreStep ==
  ASSUME IcountAssumption, IcountIInv, NEW ino \in CountedInodes, IcountStore(ino) PROVE IcountIInv'
<1> USE DEF IcountIInv
<1>0. icount.kind # "none" /\ Sound(icount) /\ links \in [CountedInodes -> Nat] /\ Cutoff \in Nat \ {0} /\ MostLinks \in Nat
  BY DEF IcountStore, Counts, IcountAssumption
<1>1. PICK grows \in BOOLEAN, n \in 0 .. MostLinks :
        LET r == ext2fs_icount_store(icount, ino, n, grows)
        IN  /\ icount' = r.c
            /\ links' = IF r.ok THEN [links EXCEPT ![ino] = n] ELSE links
            /\ cutOff' = IF icount.kind = "fullmap" /\ n > Cutoff
                         THEN cutOff \cup {ino} ELSE cutOff \ {ino}
  BY DEF IcountStore
<1>n. n \in Nat
  BY <1>0, <1>1
<1> DEFINE r == ext2fs_icount_store(icount, ino, n, grows)
<1>2. CASE icount.kind = "fullmap"
  <2> DEFINE f == icount_16_xlate(n)
             m == [links EXCEPT ![ino] = n]
             p == IF n > Cutoff THEN cutOff \cup {ino} ELSE cutOff \ {ino}
  <2>1. r = [c |-> [icount EXCEPT !.full[ino] = f], ok |-> TRUE]
    BY <1>2 DEF ext2fs_icount_store, set_inode_count
  <2>2. icount' = [icount EXCEPT !.full[ino] = f] /\ links' = m /\ cutOff' = p
    <3>1. r.c = [icount EXCEPT !.full[ino] = f] /\ r.ok
      BY <2>1
    <3> HIDE DEF r, f
    <3> QED BY <1>1, <1>2, <3>1 DEF r
  <2>4. f \in Nat /\ f <= Cutoff /\ (~(n > Cutoff) => f = n)
    BY <1>0, <1>n DEF icount_16_xlate
  <2>5. m \in [CountedInodes -> Nat] /\ \A k \in CountedInodes : m[k] = IF k = ino THEN n ELSE links[k]
    BY <1>0, <1>n
  <2> HIDE DEF f, m
  <2>6. ino \notin p => m[ino] = f
    BY <2>4, <2>5
  <2>7. \A k \in CountedInodes : k # ino => m[k] = links[k] /\ (k \in p <=> k \in cutOff)
    BY <2>5
  <2> HIDE DEF p
  <2>8. Counts([icount EXCEPT !.full[ino] = f], m, p)
    BY <1>2, <2>4, <2>5, <2>6, <2>7, MapStep
  <2> QED BY <2>2, <2>8
<1>3. CASE icount.kind # "fullmap"
  <2>1. Outcome(icount, r, ino, n)
    BY <1>0, <1>3, <1>n, StoreIs
  <2>2. /\ icount' = r.c /\ cutOff' = cutOff \ {ino}
        /\ links' = IF r.ok THEN [links EXCEPT ![ino] = n] ELSE links
    BY <1>1, <1>3
  <2> HIDE DEF r
  <2>3. icount.kind \in {"plain", "increment"}
    BY <1>0, <1>3 DEF Sound, Structs
  <2>4. links[ino] = Count(icount, ino) /\ links[ino] \in Nat /\ cutOff = {} /\ cutOff \ {ino} = {}
    BY <1>0, <2>3 DEF Counts
  <2>5. CASE r.ok
    <3>1. Done(icount, r.c, ino, n)
      BY <2>1, <2>5 DEF Outcome
    <3>2. Counts(r.c, [links EXCEPT ![ino] = n], {})
      BY <1>n, <2>3, <3>1, ListStep
    <3> QED BY <2>2, <2>4, <2>5, <3>2
  <2>6. CASE ~r.ok
    <3>1. Done(icount, r.c, ino, links[ino])
      BY <2>1, <2>4, <2>6 DEF Outcome
    <3>2. Counts(r.c, links, {})
      BY <2>3, <2>4, <3>1, ListStep
    <3> QED BY <2>2, <2>4, <2>6, <3>2
  <2> QED BY <2>5, <2>6
<1> QED BY <1>2, <1>3

\* Whatever calls have been made, in which order, with which of the three kinds of
\* icount and however many of their allocations failed, ext2fs_icount_fetch returns the
\* count they add up to (cut off at 65500, and inexact only in a full map whose count met
\* the cutoff), and the list is sorted, within its room, its cursor and last_lookup inside
\* it, for every set of inodes, every cutoff and every size of the list.
THEOREM CountsStayExact == IcountSpec => []IcountCorrect
<1>1. IcountInit => IcountIInv
  <2> SUFFICES ASSUME IcountInit PROVE IcountIInv
    OBVIOUS
  <2>1. NoCounts.kind = "none" /\ Sound(NoCounts)
    BY IcountAssumption, EmptyTable DEF NoCounts
  <2> QED BY <2>1 DEF IcountInit, IcountIInv, Counts
<1>2. IcountIInv /\ [IcountNext]_icountVars => IcountIInv'
  <2> SUFFICES ASSUME IcountIInv, [IcountNext]_icountVars PROVE IcountIInv'
    OBVIOUS
  <2>1. ASSUME NEW kind \in {"plain", "increment", "fullmap"}, NEW h \in Hints, ext2fs_create_icount2(kind, h)
        PROVE  IcountIInv'
    BY <2>1, IcountAssumption, CreateIs
  <2>2. ASSUME NEW ino \in CountedInodes, IcountFetch(ino) PROVE IcountIInv'
    BY <2>2, IcountAssumption, FetchStep
  <2>3. ASSUME NEW ino \in CountedInodes, IcountIncrement(ino) PROVE IcountIInv'
    BY <2>3, IcountAssumption, IncrementStep
  <2>4. ASSUME NEW ino \in CountedInodes, IcountDecrement(ino) PROVE IcountIInv'
    BY <2>4, IcountAssumption, DecrementStep
  <2>5. ASSUME NEW ino \in CountedInodes, IcountStore(ino) PROVE IcountIInv'
    BY <2>5, IcountAssumption, StoreStep
  <2>6. CASE UNCHANGED icountVars
    BY <2>6 DEF icountVars, IcountIInv
  <2> QED BY <2>1, <2>2, <2>3, <2>4, <2>5, <2>6 DEF IcountNext
<1>3. IcountIInv => IcountCorrect
  BY IcountAssumption, IsCorrect
<1> QED BY <1>1, <1>2, <1>3, PTL DEF IcountSpec

-----------------------------------------------------------------------------
(* The reference counts of extended attribute blocks (EaRefcount).         *)

\* What the function of WithRefs is at m.
Keep(f, list, m) ==
  IF m = 0 THEN <<>> ELSE IF list[m].val # 0 THEN Append(f[m - 1], list[m]) ELSE f[m - 1]

\* f follows that recursion up to n.
IsKeep(f, list, n) == f = [m \in 0 .. n |-> Keep(f, list, m)]

\* The values of such a function.
LEMMA KeepFields ==
  ASSUME NEW f, NEW list, NEW n, IsKeep(f, list, n)
  PROVE  DOMAIN f = 0 .. n /\ \A m \in 0 .. n : f[m] = Keep(f, list, m)
<1> DEFINE B(m) == Keep(f, list, m)
<1>1. f = [m \in 0 .. n |-> B(m)]
  BY DEF IsKeep
<1> HIDE DEF B
<1>2. DOMAIN f = 0 .. n /\ \A m \in 0 .. n : f[m] = B(m)
  BY <1>1
<1> QED BY <1>2 DEF B

\* A solution of the recursion can be extended,
LEMMA KeepExtends ==
  ASSUME NEW n \in Nat, NEW f, NEW list, IsKeep(f, list, n)
  PROVE  \E g : IsKeep(g, list, n + 1)
<1> DEFINE g == [m \in 0 .. n + 1 |-> IF m = n + 1 THEN Keep(f, list, m) ELSE f[m]]
<1>1. \A m \in 0 .. n : f[m] = Keep(f, list, m)
  BY KeepFields
<1>2. ASSUME NEW m \in 0 .. n + 1 PROVE g[m] = Keep(g, list, m)
  <2>1. g[m] = Keep(f, list, m)
    BY <1>1
  <2>2. CASE m = 0
    BY <2>1, <2>2 DEF Keep
  <2>3. CASE m # 0
    <3>1. m - 1 \in 0 .. n + 1 /\ m - 1 # n + 1
      BY <2>3
    <3>2. g[m - 1] = f[m - 1]
      BY <3>1
    <3> HIDE DEF g
    <3> QED BY <2>1, <3>2 DEF Keep
  <2> QED BY <2>2, <2>3
<1> DEFINE h == [m \in 0 .. n + 1 |-> Keep(g, list, m)]
<1>3. g = h
  <2>1. g = [m \in 0 .. n + 1 |-> g[m]]
    OBVIOUS
  <2> DEFINE A(m) == g[m]
             B(m) == Keep(g, list, m)
  <2>2. \A m \in 0 .. n + 1 : A(m) = B(m)
    BY <1>2
  <2>3. g = [m \in 0 .. n + 1 |-> A(m)]
    BY <2>1
  <2> HIDE DEF A, B, g
  <2>4. g = [m \in 0 .. n + 1 |-> B(m)]
    BY <2>2, <2>3
  <2> QED BY <2>4 DEF B
<1> HIDE DEF g
<1>4. IsKeep(g, list, n + 1)
  BY <1>3 DEF IsKeep
<1> QED BY <1>4

\* so there is one for every length.
LEMMA KeepExists ==
  ASSUME NEW list, NEW n \in Nat
  PROVE  \E f : IsKeep(f, list, n)
<1> DEFINE Bad == {m \in Nat : ~ \E f : IsKeep(f, list, m)}
<1> SUFFICES ASSUME Bad # {} PROVE FALSE
  OBVIOUS
<1>1. PICK b \in Bad : \A y \in Bad : b <= y
  <2>1. Bad \subseteq Nat
    OBVIOUS
  <2> HIDE DEF Bad
  <2> QED BY <2>1, NatMin
<1>2. b \in Nat /\ ~ \E f : IsKeep(f, list, b)
  OBVIOUS
<1>3. CASE b = 0
  <2> DEFINE f == [m \in 0 .. 0 |-> <<>>]
  <2>1. f = [m \in 0 .. 0 |-> Keep(f, list, m)]
    <3> DEFINE A(m) == <<>>
               B(m) == Keep(f, list, m)
    <3>1. \A m \in 0 .. 0 : A(m) = B(m)
      BY DEF Keep
    <3>2. f = [m \in 0 .. 0 |-> A(m)]
      OBVIOUS
    <3> HIDE DEF A, B, f
    <3>3. f = [m \in 0 .. 0 |-> B(m)]
      BY <3>1, <3>2
    <3> QED BY <3>3 DEF B
  <2> HIDE DEF f
  <2>2. IsKeep(f, list, b)
    BY <1>3, <2>1 DEF IsKeep
  <2> QED BY <1>2, <2>2
<1>4. CASE b # 0
  <2>1. b - 1 \in Nat /\ b = (b - 1) + 1
    BY <1>2, <1>4
  <2>2. b - 1 \notin Bad
    BY <1>1, <1>2, <2>1
  <2>3. PICK f : IsKeep(f, list, b - 1)
    BY <2>1, <2>2
  <2>4. \E g : IsKeep(g, list, (b - 1) + 1)
    BY <2>1, <2>3, KeepExtends
  <2> QED BY <1>2, <2>1, <2>4
<1> QED BY <1>3, <1>4

\* s holds the entries among the first m of list that count something.
Kept(s, list, m, K) ==
  /\ s \in Seq(Entries(K)) /\ Len(s) <= m /\ Sorted(s)
  /\ \A i \in 1 .. Len(s) : \E j \in 1 .. m : s[i] = list[j] /\ list[j].val # 0
  /\ \A j \in 1 .. m : list[j].val # 0 => \E i \in 1 .. Len(s) : s[i] = list[j]
  /\ Len(s) = m => \A i \in 1 .. m : s[i] = list[i]

\* One more entry, kept or not.
LEMMA KeptNext ==
  ASSUME NEW K, NEW list, Table(list, K), NEW m \in 1 .. Len(list), NEW s, Kept(s, list, m - 1, K)
  PROVE  Kept(IF list[m].val # 0 THEN Append(s, list[m]) ELSE s, list, m, K)
<1>0. /\ Len(list) \in Nat /\ m \in Nat /\ m - 1 \in Nat /\ \A j \in 1 .. m - 1 : j \in 1 .. m /\ j < m /\ j \in 1 .. Len(list)
      /\ s \in Seq(Entries(K)) /\ Len(s) \in Nat /\ Len(s) <= m - 1
      /\ list[m] \in Entries(K) /\ \A j \in 1 .. Len(list) : list[j].key \in Nat
  BY TableFields DEF Kept
<1>1. CASE list[m].val # 0
  <2> DEFINE e == list[m]
             t == Append(s, e)
  <2>1. /\ t \in Seq(Entries(K)) /\ Len(t) = Len(s) + 1 /\ t[Len(s) + 1] = e
        /\ \A i \in 1 .. Len(s) : t[i] = s[i]
    <3> HIDE DEF e, Entries
    <3> QED BY <1>0 DEF e
  <2> HIDE DEF t
  <2>2. \A i \in 1 .. Len(t) : i \in 1 .. Len(s) \/ i = Len(s) + 1
    BY <1>0, <2>1
  <2>3. \A i \in 1 .. Len(s) : \E j \in 1 .. m - 1 : s[i] = list[j] /\ list[j].val # 0
    BY DEF Kept
  <2>4. ASSUME NEW i \in 1 .. Len(t) PROVE \E j \in 1 .. m : t[i] = list[j] /\ list[j].val # 0
    <3>1. CASE i = Len(s) + 1
      BY <1>0, <1>1, <2>1, <3>1
    <3>2. CASE i \in 1 .. Len(s)
      BY <1>0, <2>1, <2>3, <3>2
    <3> QED BY <2>2, <3>1, <3>2
  <2>5. ASSUME NEW j \in 1 .. m, list[j].val # 0 PROVE \E i \in 1 .. Len(t) : t[i] = list[j]
    <3>1. CASE j = m
      <4>1. Len(s) + 1 \in 1 .. Len(t)
        BY <1>0, <2>1
      <4> QED BY <2>1, <3>1, <4>1
    <3>2. CASE j # m
      <4>1. j \in 1 .. m - 1
        BY <1>0, <3>2
      <4>2. PICK i \in 1 .. Len(s) : s[i] = list[j]
        BY <2>5, <4>1 DEF Kept
      <4>3. i \in 1 .. Len(t) /\ t[i] = list[j]
        BY <1>0, <2>1, <4>2
      <4> QED BY <4>3
    <3> QED BY <3>1, <3>2
  <2>6. ASSUME NEW i \in 1 .. Len(t), NEW k \in 1 .. Len(t), i < k PROVE t[i].key < t[k].key
    <3>1. i \in 1 .. Len(s) /\ t[i] = s[i]
      BY <1>0, <2>1, <2>2, <2>6
    <3>2. CASE k \in 1 .. Len(s)
      BY <2>1, <2>6, <3>1, <3>2 DEF Kept, Sorted
    <3>3. CASE k = Len(s) + 1
      <4>1. PICK j \in 1 .. m - 1 : s[i] = list[j]
        BY <2>3, <3>1
      <4>2. j \in 1 .. Len(list) /\ j < m
        BY <1>0, <4>1
      <4>3. list[j].key < list[m].key
        BY <4>2, TableFields
      <4> QED BY <2>1, <3>1, <3>3, <4>1, <4>3
    <3> QED BY <2>2, <3>2, <3>3
  <2>7. ASSUME Len(t) = m, NEW i \in 1 .. m PROVE t[i] = list[i]
    <3>1. Len(s) = m - 1
      BY <1>0, <2>1, <2>7
    <3>2. CASE i = m
      BY <1>0, <2>1, <3>1, <3>2
    <3>3. CASE i # m
      <4>1. i \in 1 .. m - 1
        BY <1>0, <3>3
      <4>2. s[i] = list[i]
        BY <3>1, <4>1 DEF Kept
      <4> QED BY <2>1, <3>1, <4>1, <4>2
    <3> QED BY <3>2, <3>3
  <2>8. Kept(t, list, m, K)
    BY <1>0, <2>1, <2>4, <2>5, <2>6, <2>7 DEF Kept, Sorted
  <2> QED BY <1>1, <2>8 DEF t
<1>2. CASE ~(list[m].val # 0)
  <2>1. \A j \in 1 .. m : j = m \/ j \in 1 .. m - 1
    BY <1>0
  <2>2. Len(s) # m
    BY <1>0
  <2>3. \A i \in 1 .. Len(s) : \E j \in 1 .. m : s[i] = list[j] /\ list[j].val # 0
    BY <1>0 DEF Kept
  <2>4. \A j \in 1 .. m : list[j].val # 0 => \E i \in 1 .. Len(s) : s[i] = list[j]
    BY <1>2, <2>1 DEF Kept
  <2>5. Sorted(s)
    BY DEF Kept
  <2>6. Kept(s, list, m, K)
    BY <1>0, <2>2, <2>3, <2>4, <2>5 DEF Kept
  <2> QED BY <1>2, <2>6
<1> QED BY <1>1, <1>2

\* Every solution keeps what counts something.
LEMMA KeptAll ==
  ASSUME NEW K, NEW list, Table(list, K), NEW f, IsKeep(f, list, Len(list))
  PROVE  \A m \in 0 .. Len(list) : Kept(f[m], list, m, K)
<1>0. Len(list) \in Nat
  BY TableFields
<1> DEFINE Bad == {m \in 0 .. Len(list) : ~ Kept(f[m], list, m, K)}
<1> SUFFICES ASSUME Bad # {} PROVE FALSE
  OBVIOUS
<1>1. PICK b \in Bad : \A y \in Bad : b <= y
  <2>1. Bad \subseteq Nat
    BY <1>0
  <2> HIDE DEF Bad
  <2> QED BY <2>1, NatMin
<1>2. b \in 0 .. Len(list) /\ ~ Kept(f[b], list, b, K) /\ f[b] = Keep(f, list, b)
  BY KeepFields
<1>3. CASE b = 0
  <2>1. f[b] = <<>>
    BY <1>2, <1>3 DEF Keep
  <2>2. Kept(<<>>, list, 0, K)
    BY DEF Kept, Sorted
  <2> QED BY <1>2, <1>3, <2>1, <2>2
<1>4. CASE b # 0
  <2>1. b \in 1 .. Len(list) /\ b - 1 \in 0 .. Len(list) /\ ~(b <= b - 1)
    BY <1>0, <1>2, <1>4
  <2>2. Kept(f[b - 1], list, b - 1, K)
    BY <1>1, <2>1
  <2> DEFINE s == f[b - 1]
  <2>3. f[b] = IF list[b].val # 0 THEN Append(s, list[b]) ELSE s
    BY <1>2, <1>4 DEF Keep
  <2> HIDE DEF s
  <2>4. Kept(IF list[b].val # 0 THEN Append(s, list[b]) ELSE s, list, b, K)
    BY <2>1, <2>2, KeptNext DEF s
  <2> QED BY <1>2, <2>3, <2>4
<1> QED BY <1>3, <1>4

\* refcount_collapse keeps the entries that count something, in order.
LEMMA WithRefsIs ==
  ASSUME NEW K, NEW list, Table(list, K)
  PROVE  Kept(WithRefs(list), list, Len(list), K)
<1>0. Len(list) \in Nat
  BY TableFields
<1> DEFINE g == CHOOSE f : IsKeep(f, list, Len(list))
<1>1. IsKeep(g, list, Len(list))
  BY <1>0, KeepExists
<1>2. WithRefs(list) = g[Len(list)]
  BY DEF WithRefs, IsKeep, Keep
<1> HIDE DEF g
<1>3. Kept(g[Len(list)], list, Len(list), K)
  BY <1>0, <1>1, KeptAll
<1> QED BY <1>2, <1>3

\* What is left after a collapse says the same of every key.
LEMMA CollapseIs ==
  ASSUME NEW K, NEW list, Table(list, K)
  PROVE  /\ Table(WithRefs(list), K) /\ Len(WithRefs(list)) <= Len(list)
         /\ \A k : Val(WithRefs(list), k) = Val(list, k)
         /\ \A k : HasKey(WithRefs(list), k) <=> HasKey(list, k) /\ Val(list, k) # 0
         /\ Len(WithRefs(list)) = Len(list) => WithRefs(list) = list
<1> DEFINE s == WithRefs(list)
<1>1. Kept(s, list, Len(list), K)
  BY WithRefsIs
<1> HIDE DEF s
<1>2. Table(s, K) /\ Len(s) <= Len(list) /\ list \in Seq(Entries(K)) /\ s \in Seq(Entries(K)) /\ Len(s) \in Nat /\ Len(list) \in Nat
  BY <1>1, TableFields DEF Kept, Table
<1>3. Len(s) = Len(list) => s = list
  <2> SUFFICES ASSUME Len(s) = Len(list) PROVE s = list
    OBVIOUS
  <2>1. \A i \in 1 .. Len(list) : s[i] = list[i]
    BY <1>1 DEF Kept
  <2> HIDE DEF Entries
  <2> QED BY <1>2, <2>1
<1>4. ASSUME NEW k, HasKey(s, k) PROVE HasKey(list, k) /\ Val(list, k) # 0 /\ Val(s, k) = Val(list, k)
  <2>1. PICK i \in 1 .. Len(s) : s[i].key = k
    BY <1>4 DEF HasKey
  <2>2. PICK j \in 1 .. Len(list) : s[i] = list[j] /\ list[j].val # 0
    BY <1>1, <2>1 DEF Kept
  <2>3. Val(list, list[j].key) = list[j].val /\ HasKey(list, list[j].key)
    BY <2>2, ValIs
  <2>4. Val(s, s[i].key) = s[i].val
    BY <1>2, <2>1, ValIs
  <2> QED BY <2>1, <2>2, <2>3, <2>4
<1>5. ASSUME NEW k, ~HasKey(s, k) PROVE Val(list, k) = 0 /\ Val(s, k) = 0
  <2>1. Val(s, k) = 0
    BY <1>2, <1>5, ValIs
  <2>2. CASE HasKey(list, k)
    <3>1. PICK j \in 1 .. Len(list) : list[j].key = k
      BY <2>2 DEF HasKey
    <3>2. CASE list[j].val # 0
      <4>1. PICK i \in 1 .. Len(s) : s[i] = list[j]
        BY <1>1, <3>1, <3>2 DEF Kept
      <4> QED BY <1>5, <3>1, <4>1 DEF HasKey
    <3>3. CASE list[j].val = 0
      <4>1. Val(list, list[j].key) = list[j].val
        BY <3>1, ValIs
      <4> QED BY <2>1, <3>1, <3>3, <4>1
    <3> QED BY <3>2, <3>3
  <2>3. CASE ~HasKey(list, k)
    BY <2>1, <2>3, ValIs
  <2> QED BY <2>2, <2>3
<1>6. ASSUME NEW k PROVE Val(s, k) = Val(list, k) /\ (HasKey(s, k) <=> HasKey(list, k) /\ Val(list, k) # 0)
  BY <1>4, <1>5
<1> QED BY <1>2, <1>3, <1>6 DEF s

\* struct ea_refcount, as a type.
Refs == [list : Seq(Entries(EaBlocks)), size : Nat, cursor : Nat]

\* A list of reference counts as the code keeps it.
Listed(r) == r \in Refs /\ Table(r.list, EaBlocks) /\ Len(r.list) <= r.size

\* d counts what r counts.
SameRefs(r, d) == Listed(d) /\ \A k : Val(d.list, k) = Val(r.list, k)

\* An entry for the key has been found or made.
GotRef(r, g, key) ==
  /\ SameRefs(r, g.r) /\ g.at # 0 /\ g.at \in 1 .. Len(g.r.list) /\ g.r.list[g.at].key = key

\* What Listed says of the fields.
LEMMA ListedFields ==
  ASSUME NEW r, Listed(r)
  PROVE  /\ r \in Refs /\ Table(r.list, EaBlocks) /\ Len(r.list) \in Nat /\ Len(r.list) <= r.size
         /\ r.size \in Nat /\ r.cursor \in Nat /\ r.list \in Seq(Entries(EaBlocks))
<1>1. Len(r.list) \in Nat
  BY TableFields DEF Listed
<1> QED BY <1>1 DEF Listed, Refs

\* insert_refcount_el, where the key belongs.
LEMMA InsertRefIs ==
  ASSUME NEW r, r \in Refs, Table(r.list, EaBlocks), Len(r.list) <= r.size, NEW key \in EaBlocks,
         NEW pos, Belongs(r.list, key, pos)
  PROVE  GotRef(r, insert_refcount_el(r, key, pos), key)
<1> DEFINE list == r.list
           new == Inserted(list, pos, key)
           size == IF Len(list) >= r.size THEN r.size + 100 ELSE r.size
           d == [r EXCEPT !.list = new, !.size = size]
           g == insert_refcount_el(r, key, pos)
<1>0. Len(list) \in Nat /\ r.size \in Nat
  BY TableFields DEF Refs
<1>1. g = [r |-> d, at |-> pos]
  BY DEF insert_refcount_el
<1>2. /\ Table(new, EaBlocks) /\ Len(new) = Len(list) + 1 /\ new[pos].key = key
      /\ \A k : Val(new, k) = Val(list, k)
  <2>1. Belongs(list, key, pos)
    OBVIOUS
  <2>2. Table(list, EaBlocks)
    OBVIOUS
  <2> HIDE DEF list, new
  <2> QED BY <2>1, <2>2, InsertedIs DEF new
<1>3. new \in Seq(Entries(EaBlocks)) /\ size \in Nat /\ Len(list) + 1 <= size
  BY <1>0, <1>2 DEF Table
<1> HIDE DEF new, size
<1>4. d \in Refs /\ d.list = new /\ d.size = size
  BY <1>3 DEF Refs
<1> HIDE DEF d
<1>5. SameRefs(r, d)
  BY <1>2, <1>3, <1>4 DEF SameRefs, Listed
<1>6. g.r = d /\ g.at = pos
  BY <1>1
<1>7. pos \in 1 .. Len(d.list) /\ pos # 0 /\ d.list[pos].key = key
  BY <1>0, <1>2, <1>4 DEF Belongs
<1> QED BY <1>5, <1>6, <1>7 DEF GotRef

\* refcount_collapse changes no count.
LEMMA CollapsedIs ==
  ASSUME NEW r, Listed(r)
  PROVE  /\ SameRefs(r, refcount_collapse(r)) /\ refcount_collapse(r).list = WithRefs(r.list)
         /\ refcount_collapse(r).size = r.size
<1> DEFINE new == WithRefs(r.list)
           d == refcount_collapse(r)
<1>1. /\ Table(new, EaBlocks) /\ Len(new) <= Len(r.list) /\ Len(r.list) \in Nat
      /\ \A k : Val(new, k) = Val(r.list, k)
  BY ListedFields, CollapseIs
<1>2. new \in Seq(Entries(EaBlocks)) /\ Len(new) \in Nat
  BY <1>1, TableFields DEF Table
<1>3. d = [r EXCEPT !.list = new]
  BY DEF refcount_collapse
<1> HIDE DEF new
<1>4. d \in Refs /\ d.list = new /\ d.size = r.size
  BY <1>2, <1>3, ListedFields DEF Refs
<1> HIDE DEF d
<1>5. SameRefs(r, d)
  BY <1>1, <1>2, <1>4, ListedFields DEF SameRefs, Listed
<1> QED BY <1>4, <1>5 DEF new, d

\* Found in a list that counts the same.
LEMMA SameThen ==
  ASSUME NEW r, NEW d, NEW g, NEW key, SameRefs(r, d), GotRef(d, g, key)
  PROVE  GotRef(r, g, key)
BY DEF SameRefs, GotRef

\* A key larger than the last one belongs behind it.
LEMMA LargestBelongs ==
  ASSUME EaRefcountAssumption, NEW r, Listed(r), NEW key \in EaBlocks, Largest(r, key)
  PROVE  Belongs(r.list, key, Len(r.list) + 1) /\ \A i \in 1 .. Len(r.list) : r.list[i].key < key
<1> DEFINE list == r.list
           n == Len(list)
<1>0. n \in Nat /\ Table(list, EaBlocks) /\ list \in Seq(Entries(EaBlocks)) /\ key \in Nat
  BY ListedFields DEF EaRefcountAssumption
<1>1. list = <<>> \/ key > list[n].key
  BY DEF Largest, Last
<1>2. /\ \A i \in 1 .. n : list[i].key \in Nat
      /\ \A i, j \in 1 .. n : i < j => list[i].key < list[j].key
  BY <1>0, TableFields
<1>3. ASSUME NEW i \in 1 .. n PROVE list[i].key < key
  <2>1. list # <<>> /\ n \in 1 .. n
    BY <1>0
  <2>2. CASE i = n
    BY <1>0, <1>1, <1>2, <2>1, <2>2
  <2>3. CASE i < n
    BY <1>0, <1>1, <1>2, <2>1, <2>3
  <2> QED BY <1>0, <2>2, <2>3
<1>4. /\ n + 1 \in 1 .. n + 1 /\ \A i \in 1 .. (n + 1) - 1 : i \in 1 .. n
      /\ \A i \in n + 1 .. n : FALSE
  BY <1>0
<1>5. Belongs(list, key, n + 1)
  BY <1>3, <1>4 DEF Belongs
<1> QED BY <1>3, <1>5

\* Appending, after a collapse if the list is full.
LEMMA AppendIs ==
  ASSUME EaRefcountAssumption, NEW r, Listed(r), NEW key \in EaBlocks, Largest(r, key)
  PROVE  GotRef(r, AppendRefcount(r, key), key)
<1> DEFINE d == IF Len(r.list) >= r.size THEN refcount_collapse(r) ELSE r
<1>1. AppendRefcount(r, key) = insert_refcount_el(d, key, Len(d.list) + 1)
  BY DEF AppendRefcount
<1>2. SameRefs(r, d) /\ (d.list = r.list \/ d.list = WithRefs(r.list))
  BY CollapsedIs DEF SameRefs
<1> HIDE DEF d
<1>3. Listed(d) /\ Len(d.list) \in Nat
  BY <1>2, ListedFields DEF SameRefs
<1>4. \A i \in 1 .. Len(d.list) : d.list[i].key < key
  <2>1. CASE d.list = r.list
    BY <2>1, LargestBelongs
  <2>2. CASE d.list = WithRefs(r.list)
    <3> TAKE i \in 1 .. Len(d.list)
    <3>1. Kept(d.list, r.list, Len(r.list), EaBlocks)
      BY <2>2, ListedFields, WithRefsIs
    <3>2. PICK j \in 1 .. Len(r.list) : d.list[i] = r.list[j]
      BY <3>1 DEF Kept
    <3> QED BY <3>2, LargestBelongs
  <2> QED BY <1>2, <2>1, <2>2
<1>5. Belongs(d.list, key, Len(d.list) + 1)
  BY <1>3, <1>4 DEF Belongs
<1> DEFINE pos == Len(d.list) + 1
<1> HIDE DEF pos
<1>6. GotRef(d, insert_refcount_el(d, key, pos), key)
  BY <1>3, <1>5, ListedFields, InsertRefIs DEF pos
<1>7. GotRef(r, insert_refcount_el(d, key, pos), key)
  BY <1>2, <1>6, SameThen
<1> QED BY <1>1, <1>7 DEF pos

\* What a search gives.
Looked(r, l, key) ==
  /\ SameRefs(r, l.r) /\ l.r.list = r.list /\ l.r.size = r.size
  /\ IF l.hit THEN l.pos \in 1 .. Len(r.list) /\ r.list[l.pos].key = key ELSE Belongs(r.list, key, l.pos)

\* The cursor and the search.
LEMMA LookUpIs ==
  ASSUME EaRefcountAssumption, NEW r, Listed(r), NEW key \in EaBlocks, r.list # <<>>
  PROVE  Looked(r, LookUp(r, key), key)
<1> DEFINE list == r.list
           here == IF r.cursor >= Len(list) THEN 0 ELSE r.cursor
           found == Bsearch(list, key)
           pos == IF list[here + 1].key = key THEN here + 1 ELSE found[1]
           hit == list[here + 1].key = key \/ found[2]
           c == IF hit THEN pos ELSE here
           l == LookUp(r, key)
<1>1. l = [r |-> [r EXCEPT !.cursor = c], pos |-> pos, hit |-> hit]
  BY DEF LookUp
<1>0. Table(list, EaBlocks) /\ Len(list) \in Nat /\ Len(list) # 0 /\ r.cursor \in Nat /\ key \in Nat /\ r \in Refs
  BY ListedFields DEF EaRefcountAssumption
<1>2. EndsWith(found, list, key, 1, Len(list))
  BY <1>0, BsearchIs
<1>3. here \in Nat /\ here + 1 \in 1 .. Len(list)
  BY <1>0
<1>4. found[1] \in Nat /\ found[2] \in BOOLEAN
  BY <1>2 DEF EndsWith
<1> HIDE DEF here, found
<1>5. hit => pos \in 1 .. Len(list) /\ list[pos].key = key
  BY <1>2, <1>3 DEF EndsWith, Ends
<1>6. ~hit => Belongs(list, key, pos)
  BY <1>0, <1>2, <1>4 DEF EndsWith, Ends, Belongs
<1>7. c \in Nat
  BY <1>3, <1>4
<1> HIDE DEF c, pos, hit
<1> DEFINE d == [r EXCEPT !.cursor = c]
<1>8. d \in Refs /\ d.list = list /\ d.size = r.size
  BY <1>0, <1>7 DEF Refs
<1> HIDE DEF d
<1>9. SameRefs(r, d)
  BY <1>8 DEF SameRefs, Listed
<1>10. l.r = d /\ l.pos = pos /\ l.hit = hit
  BY <1>1 DEF d
<1> HIDE DEF l
<1> QED BY <1>5, <1>6, <1>8, <1>9, <1>10 DEF Looked, l

\* A key that belongs somewhere is not in the list.
LEMMA NotThere ==
  ASSUME EaRefcountAssumption, NEW list, Table(list, EaBlocks), NEW key \in EaBlocks, NEW pos, Belongs(list, key, pos)
  PROVE  ~HasKey(list, key)
<1> SUFFICES ASSUME NEW i \in 1 .. Len(list) PROVE list[i].key # key
  BY DEF HasKey
<1>1. i \in 1 .. pos - 1 \/ i \in pos .. Len(list)
  BY TableFields DEF Belongs
<1>2. list[i].key \in Nat /\ key \in Nat
  BY TableFields DEF EaRefcountAssumption
<1> QED BY <1>1, <1>2 DEF Belongs

\* Creating an entry: a collapse that made room starts the search again, one that
\* did not has moved nothing.
LEMMA CreateRefIs ==
  ASSUME EaRefcountAssumption, NEW r, Listed(r), NEW key \in EaBlocks, NEW pos, Belongs(r.list, key, pos)
  PROVE  GotRef(r, CreateRefcount(r, key, pos), key)
<1> DEFINE d == IF Len(r.list) >= r.size THEN refcount_collapse(r) ELSE r
           again == LookUp(d, key)
           g == CreateRefcount(r, key, pos)
<1>1. g = IF Len(r.list) < r.size \/ Len(d.list) >= d.size
          THEN insert_refcount_el(d, key, pos)
          ELSE IF Largest(d, key) THEN AppendRefcount(d, key)
          ELSE insert_refcount_el(again.r, key, again.pos)
  BY DEF CreateRefcount
<1>0. Table(r.list, EaBlocks) /\ Len(r.list) \in Nat /\ r.size \in Nat /\ Len(r.list) <= r.size
  BY ListedFields
<1>2. SameRefs(r, d) /\ d.size = r.size /\ (Len(r.list) < r.size => d = r) /\ (d = r \/ d.list = WithRefs(r.list))
  BY <1>0, CollapsedIs DEF SameRefs
<1> HIDE DEF d, g
<1>3. Listed(d)
  BY <1>2 DEF SameRefs
<1>4. CASE Len(r.list) < r.size \/ Len(d.list) >= d.size
  <2>1. d.list = r.list
    <3>1. CASE d = r
      BY <3>1
    <3>2. CASE d # r
      <4>1. Len(d.list) >= r.size /\ Len(d.list) \in Nat /\ d.list = WithRefs(r.list)
        BY <1>2, <1>3, <1>4, <3>2, ListedFields
      <4>2. Len(WithRefs(r.list)) <= Len(r.list) /\ (Len(WithRefs(r.list)) = Len(r.list) => WithRefs(r.list) = r.list)
        BY <1>0, CollapseIs
      <4> QED BY <1>0, <4>1, <4>2
    <3> QED BY <3>1, <3>2
  <2>2. GotRef(d, insert_refcount_el(d, key, pos), key)
    BY <1>3, <2>1, ListedFields, InsertRefIs
  <2>3. GotRef(r, insert_refcount_el(d, key, pos), key)
    BY <1>2, <2>2, SameThen
  <2> QED BY <1>1, <1>4, <2>3 DEF g
<1>5. CASE ~(Len(r.list) < r.size \/ Len(d.list) >= d.size) /\ Largest(d, key)
  <2>1. GotRef(d, AppendRefcount(d, key), key)
    BY <1>3, <1>5, AppendIs
  <2>2. GotRef(r, AppendRefcount(d, key), key)
    BY <1>2, <2>1, SameThen
  <2> QED BY <1>1, <1>5, <2>2 DEF g
<1>6. CASE ~(Len(r.list) < r.size \/ Len(d.list) >= d.size) /\ ~Largest(d, key)
  <2>1. d.list # <<>>
    BY <1>6 DEF Largest
  <2>2. Looked(d, again, key)
    BY <1>3, <2>1, LookUpIs
  <2> HIDE DEF again
  <2>3. ~HasKey(d.list, key)
    <3>1. ~HasKey(r.list, key)
      BY <1>0, NotThere
    <3> QED BY <1>0, <1>2, <3>1, CollapseIs, ZenonT(60)
  <2>4. ~again.hit
    BY <2>2, <2>3 DEF Looked, HasKey
  <2> DEFINE e == again.r
             p == again.pos
  <2>5. SameRefs(d, e) /\ Belongs(e.list, key, p) /\ Listed(e)
    BY <2>2, <2>4 DEF Looked, SameRefs
  <2> HIDE DEF e, p
  <2>6. GotRef(e, insert_refcount_el(e, key, p), key)
    BY <2>5, ListedFields, InsertRefIs
  <2>7. GotRef(r, insert_refcount_el(e, key, p), key)
    BY <1>2, <2>5, <2>6, SameThen
  <2> QED BY <1>1, <1>6, <2>7 DEF g, e, p
<1> QED BY <1>4, <1>5, <1>6

\* d is the list r with the count of the key set to n.
RefSet(r, d, key, n) ==
  Listed(d) /\ \A k : Val(d.list, k) = IF k = key THEN n ELSE Val(r.list, k)

\* An entry for the key has been found, or there is none.
MaybeRef(r, g, key) ==
  SameRefs(r, g.r) /\ IF g.at = 0 THEN ~HasKey(r.list, key) ELSE GotRef(r, g, key)

\* get_refcount_el finds the entry, and makes one if it is asked to.
LEMMA GetRefIs ==
  ASSUME EaRefcountAssumption, NEW r, Listed(r), NEW key \in EaBlocks, NEW create \in BOOLEAN
  PROVE  MaybeRef(r, get_refcount_el(r, key, create), key) /\ (create => GotRef(r, get_refcount_el(r, key, create), key))
<1> DEFINE l == LookUp(r, key)
           g == get_refcount_el(r, key, create)
<1>1. g = IF create /\ Largest(r, key) THEN AppendRefcount(r, key)
          ELSE IF r.list = <<>> THEN [r |-> r, at |-> 0]
          ELSE IF l.hit THEN [r |-> l.r, at |-> l.pos]
          ELSE IF create THEN CreateRefcount(l.r, key, l.pos)
          ELSE [r |-> l.r, at |-> 0]
  BY DEF get_refcount_el
<1> HIDE DEF g
<1>2. GotRef(r, g, key) => MaybeRef(r, g, key) /\ (create => GotRef(r, g, key))
  BY DEF MaybeRef, GotRef
<1>3. Table(r.list, EaBlocks) /\ SameRefs(r, r)
  BY ListedFields DEF SameRefs
<1>4. CASE create /\ Largest(r, key)
  <2>1. GotRef(r, AppendRefcount(r, key), key)
    BY <1>4, AppendIs
  <2> QED BY <1>1, <1>2, <1>4, <2>1 DEF g
<1>5. CASE ~(create /\ Largest(r, key)) /\ r.list = <<>>
  <2>1. ~create
    BY <1>5 DEF Largest
  <2>2. ~HasKey(r.list, key)
    BY <1>5 DEF HasKey
  <2>3. g.r = r /\ g.at = 0
    BY <1>1, <1>5
  <2>4. MaybeRef(r, g, key)
    BY <1>3, <2>2, <2>3 DEF MaybeRef
  <2> QED BY <2>1, <2>4 DEF g
<1>6. CASE ~(create /\ Largest(r, key)) /\ r.list # <<>>
  <2>1. Looked(r, l, key)
    BY <1>6, LookUpIs
  <2> HIDE DEF l
  <2>2. CASE l.hit
    <3>1. g.r = l.r /\ g.at = l.pos
      BY <1>1, <1>6, <2>2
    <3>2. SameRefs(r, l.r) /\ l.r.list = r.list /\ l.pos \in 1 .. Len(r.list) /\ r.list[l.pos].key = key /\ l.pos # 0
      BY <1>3, <2>1, <2>2, TableFields DEF Looked
    <3>3. GotRef(r, g, key)
      BY <3>1, <3>2 DEF GotRef
    <3> QED BY <1>2, <3>3 DEF g
  <2>3. CASE ~l.hit
    <3> DEFINE d == l.r
               p == l.pos
    <3>1. SameRefs(r, d) /\ d.list = r.list /\ Belongs(d.list, key, p) /\ Listed(d)
      BY <2>1, <2>3 DEF Looked, SameRefs
    <3> HIDE DEF d, p
    <3>2. CASE create
      <4>1. GotRef(d, CreateRefcount(d, key, p), key)
        BY <3>1, CreateRefIs
      <4>2. GotRef(r, CreateRefcount(d, key, p), key)
        BY <3>1, <4>1, SameThen
      <4>3. g = CreateRefcount(d, key, p)
        BY <1>1, <1>6, <2>3, <3>2 DEF d, p
      <4> QED BY <1>2, <4>2, <4>3 DEF g
    <3>3. CASE ~create
      <4>1. g.r = d /\ g.at = 0
        BY <1>1, <1>6, <2>3, <3>3 DEF d
      <4>2. ~HasKey(r.list, key)
        BY <1>3, <3>1, NotThere
      <4>3. MaybeRef(r, g, key)
        BY <3>1, <4>1, <4>2 DEF MaybeRef
      <4> QED BY <3>3, <4>3 DEF g
    <3> QED BY <3>2, <3>3
  <2> QED BY <2>2, <2>3
<1> QED BY <1>4, <1>5, <1>6

\* Setting the count of the entry found.
LEMMA PutVal ==
  ASSUME NEW r, NEW g, NEW key, GotRef(r, g, key), NEW v \in Nat
  PROVE  RefSet(r, [g.r EXCEPT !.list[g.at].val = v], key, v)
<1> DEFINE d == g.r
           i == g.at
           list == d.list
           new == [list EXCEPT ![i].val = v]
           e == [d EXCEPT !.list = new]
<1>1. [g.r EXCEPT !.list[g.at].val = v] = e
  OBVIOUS
<1>2. SameRefs(r, d) /\ i \in 1 .. Len(list) /\ list[i].key = key /\ Listed(d)
  BY DEF GotRef, SameRefs
<1> HIDE DEF d, i
<1>3. Table(list, EaBlocks) /\ d \in Refs
  BY <1>2, ListedFields
<1>4. SetTo(new, list, i, v, EaBlocks)
  BY <1>2, <1>3, SetVal
<1> HIDE DEF new
<1>5. new \in Seq(Entries(EaBlocks)) /\ Len(new) = Len(list) /\ Table(new, EaBlocks)
  BY <1>4 DEF SetTo, Table
<1>6. e \in Refs /\ e.list = new /\ e.size = d.size
  BY <1>3, <1>5 DEF Refs
<1> HIDE DEF e
<1>7. Listed(e)
  BY <1>2, <1>5, <1>6 DEF Listed
<1>8. \A k : Val(new, k) = IF k = key THEN v ELSE Val(r.list, k)
  BY <1>2, <1>4 DEF SetTo, SameRefs
<1>9. RefSet(r, e, key, v)
  BY <1>6, <1>7, <1>8 DEF RefSet
<1> QED BY <1>1, <1>9

\* The count of the entry found.
LEMMA RefVal ==
  ASSUME NEW r, NEW g, NEW key, GotRef(r, g, key)
  PROVE  g.r.list[g.at].val = Val(r.list, key) /\ Val(r.list, key) \in Nat
<1> DEFINE list == g.r.list
           i == g.at
<1>1. Table(list, EaBlocks) /\ i \in 1 .. Len(list) /\ list[i].key = key /\ Val(list, key) = Val(r.list, key)
  BY ListedFields DEF GotRef, SameRefs
<1> HIDE DEF list, i
<1>2. Val(list, list[i].key) = list[i].val /\ Val(list, key) \in Nat
  BY <1>1, ValIs
<1> QED BY <1>1, <1>2 DEF list, i

\* ea_refcount_store,
LEMMA RefStoreIs ==
  ASSUME EaRefcountAssumption, NEW r, Listed(r), NEW key \in EaBlocks, NEW n \in Nat
  PROVE  RefSet(r, ea_refcount_store(r, key, n), key, n)
<1> DEFINE g == get_refcount_el(r, key, n # 0)
           d == ea_refcount_store(r, key, n)
<1>1. d = IF g.at = 0 THEN g.r ELSE [g.r EXCEPT !.list[g.at].val = n]
  BY DEF ea_refcount_store
<1>2. MaybeRef(r, g, key) /\ (n # 0 => GotRef(r, g, key))
  <2> DEFINE create == n # 0
  <2>1. create \in BOOLEAN
    OBVIOUS
  <2> HIDE DEF create
  <2>2. MaybeRef(r, get_refcount_el(r, key, create), key) /\ (create => GotRef(r, get_refcount_el(r, key, create), key))
    BY <2>1, GetRefIs
  <2> QED BY <2>2 DEF create
<1> HIDE DEF g, d
<1>3. CASE g.at = 0
  <2>1. ~HasKey(r.list, key) /\ n = 0 /\ SameRefs(r, g.r)
    BY <1>2, <1>3 DEF MaybeRef, GotRef
  <2>2. Val(r.list, key) = 0
    BY <2>1, ListedFields, ValIs
  <2>3. RefSet(r, g.r, key, n)
    BY <2>1, <2>2 DEF RefSet, SameRefs
  <2> QED BY <1>1, <1>3, <2>3 DEF d
<1>4. CASE g.at # 0
  <2>1. GotRef(r, g, key)
    BY <1>2, <1>4 DEF MaybeRef
  <2>2. RefSet(r, [g.r EXCEPT !.list[g.at].val = n], key, n)
    BY <2>1, PutVal
  <2> QED BY <1>1, <1>4, <2>2 DEF d
<1> QED BY <1>3, <1>4

\* ea_refcount_increment,
LEMMA RefIncrementIs ==
  ASSUME EaRefcountAssumption, NEW r, Listed(r), NEW key \in EaBlocks
  PROVE  RefSet(r, ea_refcount_increment(r, key), key, Val(r.list, key) + 1)
<1> DEFINE g == get_refcount_el(r, key, TRUE)
<1>1. GotRef(r, g, key)
  BY GetRefIs
<1>2. ea_refcount_increment(r, key) = [g.r EXCEPT !.list[g.at].val = g.r.list[g.at].val + 1]
  BY DEF ea_refcount_increment
<1> HIDE DEF g
<1> DEFINE v == g.r.list[g.at].val + 1
<1>3. v \in Nat /\ v = Val(r.list, key) + 1
  BY <1>1, RefVal
<1> HIDE DEF v
<1>4. RefSet(r, [g.r EXCEPT !.list[g.at].val = v], key, v)
  BY <1>1, <1>3, PutVal
<1>5. ea_refcount_increment(r, key) = [g.r EXCEPT !.list[g.at].val = v]
  BY <1>2 DEF v
<1> QED BY <1>3, <1>4, <1>5

\* A count is taken away, or there is none.
RefLess(r, l, key) ==
  IF l.ok THEN Val(r.list, key) # 0 /\ RefSet(r, l.r, key, Val(r.list, key) - 1)
  ELSE Val(r.list, key) = 0 /\ RefSet(r, l.r, key, 0)

\* and ea_refcount_decrement.
LEMMA RefDecrementIs ==
  ASSUME EaRefcountAssumption, NEW r, Listed(r), NEW key \in EaBlocks
  PROVE  RefLess(r, ea_refcount_decrement(r, key), key)
<1> DEFINE g == get_refcount_el(r, key, FALSE)
           l == ea_refcount_decrement(r, key)
           w == g.r.list[g.at].val
           v == w - 1
<1>1. l = IF g.at = 0 \/ w = 0 THEN [r |-> g.r, ok |-> FALSE]
          ELSE [r |-> [g.r EXCEPT !.list[g.at].val = v], ok |-> TRUE]
  BY DEF ea_refcount_decrement
<1>2. MaybeRef(r, g, key)
  BY GetRefIs
<1> HIDE DEF g, l
<1>3. g.at # 0 => GotRef(r, g, key) /\ w = Val(r.list, key) /\ w \in Nat
  BY <1>2, RefVal DEF MaybeRef
<1> HIDE DEF w
<1>4. CASE g.at = 0 \/ w = 0
  <2>1. Val(r.list, key) = 0
    <3>1. CASE g.at = 0
      BY <1>2, <3>1, ListedFields, ValIs DEF MaybeRef
    <3> QED BY <1>3, <1>4, <3>1
  <2>2. RefSet(r, g.r, key, 0)
    BY <1>2, <2>1 DEF MaybeRef, SameRefs, RefSet
  <2>3. l.r = g.r /\ l.ok = FALSE
    BY <1>1, <1>4
  <2> QED BY <2>1, <2>2, <2>3 DEF RefLess, l
<1>5. CASE ~(g.at = 0 \/ w = 0)
  <2>1. GotRef(r, g, key) /\ w = Val(r.list, key) /\ w \in Nat /\ w # 0 /\ v \in Nat
    BY <1>3, <1>5
  <2> HIDE DEF v
  <2> DEFINE e == [g.r EXCEPT !.list[g.at].val = v]
  <2>2. RefSet(r, e, key, v)
    BY <2>1, PutVal
  <2> HIDE DEF e
  <2>3. l.r = e /\ l.ok = TRUE
    BY <1>1, <1>5 DEF e
  <2>4. v = Val(r.list, key) - 1
    BY <2>1 DEF v
  <2> QED BY <2>1, <2>2, <2>3, <2>4 DEF RefLess, l
<1> QED BY <1>4, <1>5

\* The inodes up to n that refer to the block.
Seen(acl, n, blk) == {i \in 1 .. n : acl[i] = blk}

\* How many inodes refer to a block is a number.
LEMMA SeenCounts ==
  ASSUME NEW acl, NEW n \in Nat, NEW blk
  PROVE  /\ IsFiniteSet(Seen(acl, n, blk)) /\ Cardinality(Seen(acl, n, blk)) \in Nat
         /\ Cardinality(Seen(acl, n, blk)) <= n
<1>1. IsFiniteSet(1 .. n) /\ Cardinality(1 .. n) = n
  <2>1. IsFiniteSet(1 .. n) /\ Cardinality(1 .. n) = IF 1 > n THEN 0 ELSE n - 1 + 1
    BY FS_Interval
  <2> QED BY <2>1
<1>2. Seen(acl, n, blk) \in SUBSET (1 .. n)
  BY DEF Seen
<1>3. IsFiniteSet(Seen(acl, n, blk)) /\ Cardinality(Seen(acl, n, blk)) <= Cardinality(1 .. n)
  BY <1>1, <1>2, FS_Subset
<1> QED BY <1>1, <1>3, FS_CardinalityType

\* The first n inodes refer to the same blocks.
Agree(acl, new, n) == \A i \in 1 .. n : new[i] = acl[i]

\* One more inode.
LEMMA SeenNext ==
  ASSUME NEW acl, NEW new, NEW n \in Nat, NEW blk, Agree(acl, new, n)
  PROVE  Cardinality(Seen(new, n + 1, blk)) = Cardinality(Seen(acl, n, blk)) + (IF new[n + 1] = blk THEN 1 ELSE 0)
<1> DEFINE S == Seen(acl, n, blk)
<1>1. IsFiniteSet(S) /\ Cardinality(S) \in Nat /\ n + 1 \notin S
  <2>1. n + 1 \notin S
    BY DEF Seen
  <2> QED BY <2>1, SeenCounts
<1>2. Cardinality(S \cup {n + 1}) = Cardinality(S) + 1
  <2> HIDE DEF S
  <2>1. Cardinality(S \cup {n + 1}) = IF n + 1 \in S THEN Cardinality(S) ELSE Cardinality(S) + 1
    BY <1>1, FS_AddElement
  <2> QED BY <1>1, <2>1
<1>3. Seen(new, n + 1, blk) = IF new[n + 1] = blk THEN S \cup {n + 1} ELSE S
  BY DEF Seen, Agree
<1> HIDE DEF S
<1> QED BY <1>1, <1>2, <1>3 DEF S

\* h is what the header said, R and X what the lists say, n how many inodes
\* have been seen to refer to the block.
Balanced(h, R, X, n) == n # 0 /\ R - X = ((h - 1) % Modulus) - (n - 1)

\* The balance of every block seen so far.
Checked(acl, hdr, dmg, e) ==
  \A blk \in e.block_ea_map :
    Balanced(hdr[blk], Val(e.refcount.list, blk), Val(e.refcount_extra.list, blk), Cardinality(Seen(acl, e.at - 1, blk)))

\* The inductive invariant: lists that are well formed and never both count a
\* block, nothing in them of a block that has not been seen, and for those that
\* have, the balance of each phase.
EaSound(acl, hdr, dmg, e) ==
  /\ e \in [at : Nat, block_ea_map : SUBSET EaBlocks, refcount : Refs, refcount_extra : Refs]
  /\ Listed(e.refcount) /\ Listed(e.refcount_extra)
  /\ acl \in [1 .. EaInodes -> EaBlocks \cup {0}] /\ dmg \subseteq EaBlocks
  /\ e.block_ea_map \cap dmg = {}
  /\ e.at = 0 => e.block_ea_map = {}
  /\ e.at # 0 => hdr \in [EaBlocks -> 0 .. Modulus - 1]
  /\ \A i \in 1 .. EaInodes : i < e.at => acl[i] \in e.block_ea_map \cup {0}
  /\ \A blk \in EaBlocks :
       Val(e.refcount.list, blk) = 0 \/ Val(e.refcount_extra.list, blk) = 0
  /\ \A blk \in EaBlocks \ e.block_ea_map :
       Val(e.refcount.list, blk) = 0 /\ Val(e.refcount_extra.list, blk) = 0
  /\ e.at \in 1 .. EaInodes + 1 => Checked(acl, hdr, dmg, e)
  /\ e.at = EaInodes + 2 =>
       \A blk \in e.block_ea_map :
         hdr[blk] + Val(e.refcount_extra.list, blk) = Cardinality(Seen(acl, EaInodes, blk))
  /\ e.at = EaInodes + 3 =>
       \A blk \in e.block_ea_map : hdr[blk] = Cardinality(Seen(acl, EaInodes, blk))

\* It holds of the state.
EaIInv == EaSound(file_acl, header, damaged, ea)

\* A list that has just been created.
LEMMA FreshList ==
  ASSUME EaRefcountAssumption, NEW room \in Nat
  PROVE  /\ Listed(ea_refcount_create(room)) /\ ea_refcount_create(room) \in Refs
         /\ \A k : Val(ea_refcount_create(room).list, k) = 0
<1> DEFINE r == ea_refcount_create(room)
<1>1. Table(<<>>, EaBlocks) /\ <<>> \in Seq(Entries(EaBlocks))
  BY DEF Table, Sorted, EaRefcountAssumption
<1> DEFINE none == <<>>
<1>2. r = [list |-> none, size |-> room, cursor |-> 0]
  BY DEF ea_refcount_create
<1>3. Len(none) = 0 /\ \A k : ~HasKey(none, k)
  BY DEF HasKey
<1>4. none \in Seq(Entries(EaBlocks)) /\ Table(none, EaBlocks)
  BY <1>1
<1> HIDE DEF none
<1>5. r \in Refs /\ r.list = none /\ r.size = room
  BY <1>2, <1>4 DEF Refs
<1> HIDE DEF r
<1>6. Listed(r)
  BY <1>3, <1>4, <1>5 DEF Listed
<1>7. \A k : Val(none, k) = 0
  BY <1>3, <1>4, ValIs
<1> QED BY <1>5, <1>6, <1>7 DEF r

\* What adjust_extattr_refcount adds to a header or takes from it.
LEMMA AdjustIs ==
  ASSUME NEW r, Listed(r), NEW sign, NEW blk \in EaBlocks
  PROVE  adjust_extattr_refcount(r, sign)[blk] = (header[blk] + sign * Val(r.list, blk)) % Modulus
<1> DEFINE s == Iterated(r)
           found == {i \in 1 .. Len(s) : s[i].key = blk}
           C == IF found = {} THEN 0 ELSE s[CHOOSE i \in found : TRUE].val
<1>1. adjust_extattr_refcount(r, sign)[blk] = (header[blk] + sign * C) % Modulus
  BY DEF adjust_extattr_refcount
<1>2. Table(s, EaBlocks) /\ Val(s, blk) = Val(r.list, blk)
  BY ListedFields, CollapseIs DEF Iterated
<1> HIDE DEF s
<1>3. C = Val(s, blk)
  <2>1. CASE found = {}
    <3>1. ~HasKey(s, blk)
      BY <2>1 DEF HasKey
    <3> QED BY <1>2, <2>1, <3>1, ValIs
  <2>2. CASE found # {}
    <3> DEFINE i == CHOOSE j \in found : TRUE
    <3>1. i \in found
      BY <2>2
    <3>2. C = s[i].val
      BY <2>2
    <3> HIDE DEF i
    <3>3. i \in 1 .. Len(s) /\ s[i].key = blk
      BY <3>1
    <3>4. Val(s, s[i].key) = s[i].val
      BY <1>2, <3>3, ValIs
    <3> QED BY <3>2, <3>3, <3>4
  <2> QED BY <2>1, <2>2
<1> HIDE DEF C
<1> QED BY <1>1, <1>2, <1>3

\* The types of the state and of the lists.
LEMMA EaTypes ==
  ASSUME EaRefcountAssumption, EaIInv
  PROVE  /\ ea \in [at : Nat, block_ea_map : SUBSET EaBlocks, refcount : Refs, refcount_extra : Refs]
         /\ ea.at \in Nat /\ ea.block_ea_map \subseteq EaBlocks
         /\ Listed(ea.refcount) /\ Listed(ea.refcount_extra)
         /\ \A k : Val(ea.refcount.list, k) \in Nat /\ Val(ea.refcount_extra.list, k) \in Nat
         /\ EaBlocks \subseteq Nat \ {0} /\ EaInodes \in Nat /\ Modulus \in Nat \ {0} /\ EaInodes < Modulus
<1>1. /\ ea \in [at : Nat, block_ea_map : SUBSET EaBlocks, refcount : Refs, refcount_extra : Refs]
      /\ Listed(ea.refcount) /\ Listed(ea.refcount_extra)
  BY DEF EaIInv, EaSound
<1>2. \A k : Val(ea.refcount.list, k) \in Nat /\ Val(ea.refcount_extra.list, k) \in Nat
  BY <1>1, ListedFields, ValIs
<1> QED BY <1>1, <1>2 DEF EaRefcountAssumption

\* The steps preserve the invariant: the file system that pass 1 meets,
LEMMA FoundStep ==
  ASSUME EaRefcountAssumption, EaIInv, Found PROVE EaIInv'
<1>1. PICK room \in RefcountRooms :
        ea' = [ea EXCEPT !.at = 1, !.refcount = ea_refcount_create(room), !.refcount_extra = ea_refcount_create(room)]
  BY DEF Found
<1> DEFINE r == ea_refcount_create(room)
<1>2. Listed(r) /\ r \in Refs /\ \A k : Val(r.list, k) = 0
  <2>1. room \in Nat
    BY <1>1 DEF EaRefcountAssumption
  <2> QED BY <2>1, FreshList
<1> HIDE DEF r
<1>3. ea' = [ea EXCEPT !.at = 1, !.refcount = r, !.refcount_extra = r]
  BY <1>1 DEF r
<1>4. ea.at = 0 /\ ea.block_ea_map = {}
  BY DEF Found, EaIInv, EaSound
<1>5. /\ ea' \in [at : Nat, block_ea_map : SUBSET EaBlocks, refcount : Refs, refcount_extra : Refs]
      /\ ea'.at = 1 /\ ea'.block_ea_map = {} /\ ea'.refcount = r /\ ea'.refcount_extra = r
  BY <1>2, <1>3, <1>4, EaTypes
<1>6. /\ file_acl' \in [1 .. EaInodes -> EaBlocks \cup {0}] /\ damaged' \subseteq EaBlocks
      /\ header' \in [EaBlocks -> 0 .. Modulus - 1]
  BY DEF Found, EaRefcountAssumption
<1> DEFINE e == ea'
<1> HIDE DEF e
<1>8. \A i \in 1 .. EaInodes : ~(i < e.at)
  BY <1>5, EaTypes DEF e
<1>7. EaSound(file_acl', header', damaged', e)
  BY <1>8, <1>2, <1>5, <1>6, EaTypes DEF EaSound, Checked, e
<1> QED BY <1>7 DEF EaIInv, e

\* A step to the next inode: the lists may have changed for one block.
NextOk(acl, e) ==
  /\ ea.at \in 1 .. EaInodes /\ acl \in [1 .. EaInodes -> EaBlocks \cup {0}]
  /\ \A i \in 1 .. ea.at - 1 : acl[i] = file_acl[i]
  /\ acl[ea.at] \in e.block_ea_map \cup {0} /\ ea.block_ea_map \subseteq e.block_ea_map
  /\ e \in [at : Nat, block_ea_map : SUBSET EaBlocks, refcount : Refs, refcount_extra : Refs]
  /\ e.at = ea.at + 1 /\ Listed(e.refcount) /\ Listed(e.refcount_extra) /\ e.block_ea_map \cap damaged = {}
  /\ \A blk \in EaBlocks : Val(e.refcount.list, blk) = 0 \/ Val(e.refcount_extra.list, blk) = 0
  /\ \A blk \in EaBlocks \ e.block_ea_map : Val(e.refcount.list, blk) = 0 /\ Val(e.refcount_extra.list, blk) = 0
  /\ \A blk \in e.block_ea_map :
        Balanced(header[blk], Val(e.refcount.list, blk), Val(e.refcount_extra.list, blk),
                 Cardinality(Seen(file_acl, ea.at - 1, blk)) + (IF acl[ea.at] = blk THEN 1 ELSE 0))

\* The invariant after such a step.
LEMMA NextInode ==
  ASSUME EaRefcountAssumption, EaIInv, header' = header, damaged' = damaged, NEW acl, NEW e,
         NextOk(acl, e), file_acl' = acl, ea' = e
  PROVE  EaIInv'
<1> USE DEF NextOk
<1> DEFINE n == ea.at - 1
<1>1. n \in Nat /\ n + 1 = ea.at /\ e.at - 1 = n + 1 /\ e.at # 0 /\ ea.at # 0
  BY EaTypes
<1>2. e.at # EaInodes + 2 /\ e.at # EaInodes + 3 /\ e.at \in 1 .. EaInodes + 1
  BY EaTypes
<1>3. \A blk : Cardinality(Seen(acl, e.at - 1, blk)) = Cardinality(Seen(file_acl, n, blk)) + (IF acl[n + 1] = blk THEN 1 ELSE 0)
  <2> TAKE blk
  <2>1. Agree(file_acl, acl, n)
    BY <1>1 DEF Agree
  <2> HIDE DEF n
  <2>2. Cardinality(Seen(acl, n + 1, blk)) = Cardinality(Seen(file_acl, n, blk)) + (IF acl[n + 1] = blk THEN 1 ELSE 0)
    BY <1>1, <2>1, SeenNext
  <2> QED BY <1>1, <2>2
<1>4. Checked(acl, header, damaged, e)
  BY <1>1, <1>3 DEF Checked
<1>5. header \in [EaBlocks -> 0 .. Modulus - 1] /\ damaged \subseteq EaBlocks
  BY <1>1 DEF EaIInv, EaSound
<1>6. \A i \in 1 .. EaInodes : i < e.at => acl[i] \in e.block_ea_map \cup {0}
  <2> SUFFICES ASSUME NEW i \in 1 .. EaInodes, i < e.at PROVE acl[i] \in e.block_ea_map \cup {0}
    OBVIOUS
  <2>1. CASE i = ea.at
    BY <2>1
  <2>2. CASE i # ea.at
    <3>1. i \in 1 .. ea.at - 1 /\ i < ea.at
      BY <2>2, EaTypes
    <3>2. file_acl[i] \in ea.block_ea_map \cup {0}
      BY <3>1 DEF EaIInv, EaSound
    <3> QED BY <3>1, <3>2
  <2> QED BY <2>1, <2>2
<1>7. EaSound(acl, header, damaged, e)
  BY <1>1, <1>2, <1>4, <1>5, <1>6 DEF EaSound
<1> QED BY <1>7 DEF EaIInv

\* The balance while inodes are checked.
LEMMA CheckedNow ==
  ASSUME EaRefcountAssumption, EaIInv, ea.at \in 1 .. EaInodes
  PROVE  /\ \A blk \in ea.block_ea_map :
              Balanced(header[blk], Val(ea.refcount.list, blk), Val(ea.refcount_extra.list, blk),
                       Cardinality(Seen(file_acl, ea.at - 1, blk)))
         /\ header \in [EaBlocks -> 0 .. Modulus - 1] /\ file_acl \in [1 .. EaInodes -> EaBlocks \cup {0}]
         /\ \A blk : Cardinality(Seen(file_acl, ea.at - 1, blk)) \in Nat
         /\ ea.at - 1 \in Nat
<1>1. ea.at \in 1 .. EaInodes + 1 /\ ea.at # 0 /\ ea.at - 1 \in Nat
  BY EaTypes
<1>2. Checked(file_acl, header, damaged, ea) /\ header \in [EaBlocks -> 0 .. Modulus - 1]
      /\ file_acl \in [1 .. EaInodes -> EaBlocks \cup {0}]
  BY <1>1 DEF EaIInv, EaSound
<1>3. \A blk : Cardinality(Seen(file_acl, ea.at - 1, blk)) \in Nat
  BY <1>1, SeenCounts
<1> QED BY <1>1, <1>2, <1>3 DEF Checked

\* an inode without a block,
LEMMA NoBlockStep ==
  ASSUME EaRefcountAssumption, EaIInv, NoBlock PROVE EaIInv'
<1>1. ea.at \in 1 .. EaInodes /\ file_acl[ea.at] = 0 /\ file_acl' = file_acl /\ header' = header /\ damaged' = damaged
  BY DEF NoBlock, Checks
<1> DEFINE e == [ea EXCEPT !.at = ea.at + 1]
<1>2. ea' = e
  BY DEF NoBlock
<1>3. /\ e \in [at : Nat, block_ea_map : SUBSET EaBlocks, refcount : Refs, refcount_extra : Refs]
      /\ e.at = ea.at + 1 /\ e.block_ea_map = ea.block_ea_map /\ e.refcount = ea.refcount /\ e.refcount_extra = ea.refcount_extra
  BY EaTypes
<1> HIDE DEF e
<1>4. ASSUME NEW blk \in ea.block_ea_map
      PROVE  Cardinality(Seen(file_acl, ea.at - 1, blk)) + (IF file_acl[ea.at] = blk THEN 1 ELSE 0)
             = Cardinality(Seen(file_acl, ea.at - 1, blk))
  <2>1. blk # 0
    BY EaTypes
  <2> QED BY <1>1, <2>1, CheckedNow
<1>5. NextOk(file_acl, e)
  BY <1>1, <1>3, <1>4, CheckedNow DEF NextOk, EaIInv, EaSound
<1> QED BY <1>1, <1>2, <1>5, NextInode

\* one whose block is damaged,
LEMMA ClearedStep ==
  ASSUME EaRefcountAssumption, EaIInv, NEW b \in EaBlocks, EaCleared(b) PROVE EaIInv'
<1> DEFINE acl == [file_acl EXCEPT ![ea.at] = 0]
           e == [ea EXCEPT !.at = ea.at + 1]
<1>1. ea.at \in 1 .. EaInodes /\ file_acl' = acl /\ header' = header /\ damaged' = damaged /\ ea' = e
  BY DEF EaCleared, Checks
<1>2. /\ acl \in [1 .. EaInodes -> EaBlocks \cup {0}] /\ acl[ea.at] = 0
      /\ \A i \in 1 .. ea.at - 1 : acl[i] = file_acl[i]
  BY <1>1, CheckedNow, EaTypes
<1>3. /\ e \in [at : Nat, block_ea_map : SUBSET EaBlocks, refcount : Refs, refcount_extra : Refs]
      /\ e.at = ea.at + 1 /\ e.block_ea_map = ea.block_ea_map /\ e.refcount = ea.refcount /\ e.refcount_extra = ea.refcount_extra
  BY EaTypes
<1> HIDE DEF e, acl
<1>4. ASSUME NEW blk \in ea.block_ea_map
      PROVE  Cardinality(Seen(file_acl, ea.at - 1, blk)) + (IF acl[ea.at] = blk THEN 1 ELSE 0)
             = Cardinality(Seen(file_acl, ea.at - 1, blk))
  <2>1. blk # 0
    BY EaTypes
  <2> QED BY <1>1, <1>2, <2>1, CheckedNow
<1>5. NextOk(acl, e)
  BY <1>1, <1>2, <1>3, <1>4, CheckedNow DEF NextOk, EaIInv, EaSound
<1> QED BY <1>1, <1>5, NextInode

\* one whose block has been seen before,
LEMMA SeenBeforeStep ==
  ASSUME EaRefcountAssumption, EaIInv, NEW b \in EaBlocks, SeenBefore(b) PROVE EaIInv'
<1> DEFINE R == ea.refcount
           X == ea.refcount_extra
           less == ea_refcount_decrement(R, b)
           S == less.r
           Y == IF less.ok THEN X ELSE ea_refcount_increment(X, b)
           e == [ea EXCEPT !.at = ea.at + 1, !.refcount = S, !.refcount_extra = Y]
           n == Cardinality(Seen(file_acl, ea.at - 1, b))
<1>1. /\ ea.at \in 1 .. EaInodes /\ file_acl[ea.at] = b /\ b \in ea.block_ea_map
      /\ file_acl' = file_acl /\ header' = header /\ damaged' = damaged
  BY DEF SeenBefore, Checks
<1>2. ea' = e
  BY DEF SeenBefore
<1>3. RefLess(R, less, b) /\ RefSet(X, ea_refcount_increment(X, b), b, Val(X.list, b) + 1)
  BY EaTypes, RefDecrementIs, RefIncrementIs
<1> HIDE DEF less, n
<1>4. /\ Listed(S) /\ Listed(Y) /\ S \in Refs /\ Y \in Refs
      /\ \A k : k # b => Val(S.list, k) = Val(R.list, k) /\ Val(Y.list, k) = Val(X.list, k)
  <2>1. Listed(S) /\ Listed(Y) /\ \A k : k # b => Val(S.list, k) = Val(R.list, k) /\ Val(Y.list, k) = Val(X.list, k)
    BY <1>3, EaTypes DEF RefLess, RefSet
  <2> QED BY <2>1, ListedFields
<1>5. IF less.ok THEN Val(R.list, b) # 0 /\ Val(S.list, b) = Val(R.list, b) - 1 /\ Val(Y.list, b) = Val(X.list, b)
      ELSE Val(R.list, b) = 0 /\ Val(S.list, b) = 0 /\ Val(Y.list, b) = Val(X.list, b) + 1
  BY <1>3 DEF RefLess, RefSet
<1> HIDE DEF S, Y, R, X
<1>6. /\ e \in [at : Nat, block_ea_map : SUBSET EaBlocks, refcount : Refs, refcount_extra : Refs]
      /\ e.at = ea.at + 1 /\ e.block_ea_map = ea.block_ea_map /\ e.refcount = S /\ e.refcount_extra = Y
  <2>1. /\ ea \in [at : Nat, block_ea_map : SUBSET EaBlocks, refcount : Refs, refcount_extra : Refs]
        /\ ea.at + 1 \in Nat /\ S \in Refs /\ Y \in Refs
    BY <1>4, EaTypes
  <2> QED BY <2>1
<1> HIDE DEF e
<1>7. /\ \A k : Val(R.list, k) \in Nat /\ Val(X.list, k) \in Nat
      /\ \A k \in EaBlocks : Val(R.list, k) = 0 \/ Val(X.list, k) = 0
      /\ \A k \in EaBlocks \ ea.block_ea_map : Val(R.list, k) = 0 /\ Val(X.list, k) = 0
      /\ ea.block_ea_map \cap damaged = {}
  BY EaTypes DEF EaIInv, EaSound, R, X
<1>8. \A k \in EaBlocks : Val(S.list, k) = 0 \/ Val(Y.list, k) = 0
  <2> TAKE k \in EaBlocks
  <2>1. CASE k = b
    BY <1>5, <1>7, <2>1
  <2>2. CASE k # b
    BY <1>4, <1>7, <2>2
  <2> QED BY <2>1, <2>2
<1>9. \A k \in EaBlocks \ ea.block_ea_map : Val(S.list, k) = 0 /\ Val(Y.list, k) = 0
  BY <1>1, <1>4, <1>7
<1>10. \A k \in ea.block_ea_map :
          Balanced(header[k], Val(S.list, k), Val(Y.list, k),
                   Cardinality(Seen(file_acl, ea.at - 1, k)) + (IF file_acl[ea.at] = k THEN 1 ELSE 0))
  <2> TAKE k \in ea.block_ea_map
  <2>1. /\ Balanced(header[k], Val(R.list, k), Val(X.list, k), Cardinality(Seen(file_acl, ea.at - 1, k)))
        /\ Cardinality(Seen(file_acl, ea.at - 1, k)) \in Nat
    BY <1>1, CheckedNow DEF R, X
  <2>2. CASE k = b
    <3> DEFINE h == (header[b] - 1) % Modulus
    <3>0. h \in Int
      <4>1. header[b] \in Int /\ Modulus \in Nat \ {0}
        BY <1>1, CheckedNow, EaTypes
      <4> QED BY <4>1
    <3>1. n \in Nat /\ n # 0 /\ Val(R.list, b) - Val(X.list, b) = h - (n - 1)
      BY <2>1, <2>2 DEF Balanced, n
    <3> HIDE DEF h
    <3>2. n + 1 # 0 /\ Val(S.list, b) - Val(Y.list, b) = h - ((n + 1) - 1)
      <4>1. Val(R.list, b) \in Nat /\ Val(X.list, b) \in Nat
        BY <1>7
      <4> QED BY <1>5, <3>0, <3>1, <4>1
    <3>3. Balanced(header[b], Val(S.list, b), Val(Y.list, b), n + 1)
      BY <3>2 DEF Balanced, h
    <3> QED BY <1>1, <2>2, <3>3 DEF n
  <2>3. CASE k # b
    BY <1>1, <1>4, <2>1, <2>3
  <2> QED BY <2>2, <2>3
<1>11. NextOk(file_acl, e)
  BY <1>1, <1>4, <1>6, <1>7, <1>8, <1>9, <1>10, CheckedNow DEF NextOk
<1> QED BY <1>1, <1>2, <1>11, NextInode

\* one whose block has not,
LEMMA FirstSeenStep ==
  ASSUME EaRefcountAssumption, EaIInv, NEW b \in EaBlocks, FirstSeen(b) PROVE EaIInv'
<1> DEFINE R == ea.refcount
           X == ea.refcount_extra
           h == (header[b] - 1) % Modulus
           S == ea_refcount_store(R, b, h)
           M == ea.block_ea_map \cup {b}
           e == [ea EXCEPT !.at = ea.at + 1, !.block_ea_map = M, !.refcount = S]
<1>1. /\ ea.at \in 1 .. EaInodes /\ file_acl[ea.at] = b /\ b \notin ea.block_ea_map /\ b \notin damaged
      /\ file_acl' = file_acl /\ header' = header /\ damaged' = damaged
  BY DEF FirstSeen, Checks
<1>2. ea' = e
  BY DEF FirstSeen
<1>3. h \in Nat
  <2>1. header[b] \in Int /\ Modulus \in Nat \ {0}
    BY <1>1, CheckedNow, EaTypes
  <2> QED BY <2>1
<1> HIDE DEF h
<1>4. RefSet(R, S, b, h)
  BY <1>3, EaTypes, RefStoreIs
<1> HIDE DEF S
<1>5. Listed(S) /\ S \in Refs /\ \A k : Val(S.list, k) = IF k = b THEN h ELSE Val(R.list, k)
  BY <1>4, ListedFields DEF RefSet
<1> HIDE DEF R, X
<1>6. /\ e \in [at : Nat, block_ea_map : SUBSET EaBlocks, refcount : Refs, refcount_extra : Refs]
      /\ e.at = ea.at + 1 /\ e.block_ea_map = M /\ e.refcount = S /\ e.refcount_extra = X
  <2>1. /\ ea \in [at : Nat, block_ea_map : SUBSET EaBlocks, refcount : Refs, refcount_extra : Refs]
        /\ ea.at + 1 \in Nat /\ S \in Refs /\ M \in SUBSET EaBlocks
    BY <1>5, EaTypes
  <2> HIDE DEF M
  <2> QED BY <2>1 DEF X
<1> HIDE DEF e
<1>7. /\ \A k : Val(R.list, k) \in Nat /\ Val(X.list, k) \in Nat /\ Listed(X)
      /\ \A k \in EaBlocks : Val(R.list, k) = 0 \/ Val(X.list, k) = 0
      /\ \A k \in EaBlocks \ ea.block_ea_map : Val(R.list, k) = 0 /\ Val(X.list, k) = 0
      /\ M \cap damaged = {}
  BY <1>1, EaTypes DEF EaIInv, EaSound, R, X
<1>8. \A k \in EaBlocks : Val(S.list, k) = 0 \/ Val(X.list, k) = 0
  BY <1>1, <1>5, <1>7
<1>9. \A k \in EaBlocks \ M : Val(S.list, k) = 0 /\ Val(X.list, k) = 0
  BY <1>5, <1>7
<1>10. Cardinality(Seen(file_acl, ea.at - 1, b)) = 0
  <2>1. Seen(file_acl, ea.at - 1, b) = {}
    <3> SUFFICES ASSUME NEW i \in 1 .. ea.at - 1 PROVE file_acl[i] # b
      BY DEF Seen
    <3>1. i \in 1 .. EaInodes /\ i < ea.at /\ b # 0
      BY <1>1, EaTypes
    <3>2. file_acl[i] \in ea.block_ea_map \cup {0}
      BY <3>1 DEF EaIInv, EaSound
    <3> QED BY <1>1, <3>1, <3>2
  <2> QED BY <2>1, FS_EmptySet
<1>11. \A k \in M :
          Balanced(header[k], Val(S.list, k), Val(X.list, k),
                   Cardinality(Seen(file_acl, ea.at - 1, k)) + (IF file_acl[ea.at] = k THEN 1 ELSE 0))
  <2> TAKE k \in M
  <2>1. CASE k = b
    <3>1. Val(S.list, b) = h /\ Val(X.list, b) = 0
      BY <1>1, <1>5, <1>7
    <3>2. Balanced(header[b], h, 0, 1)
      <4>1. h - 0 = h - (1 - 1)
        BY <1>3
      <4> QED BY <4>1 DEF Balanced, h
    <3> QED BY <1>1, <1>10, <2>1, <3>1, <3>2
  <2>2. CASE k # b
    <3>1. k \in ea.block_ea_map
      BY <2>2
    <3>2. /\ Balanced(header[k], Val(R.list, k), Val(X.list, k), Cardinality(Seen(file_acl, ea.at - 1, k)))
          /\ Cardinality(Seen(file_acl, ea.at - 1, k)) \in Nat
      BY <1>1, <3>1, CheckedNow DEF R, X
    <3> QED BY <1>1, <1>5, <2>2, <3>2
  <2> QED BY <2>1, <2>2
<1>12. NextOk(file_acl, e)
  BY <1>1, <1>5, <1>6, <1>7, <1>8, <1>9, <1>11, CheckedNow DEF NextOk
<1> QED BY <1>1, <1>2, <1>12, NextInode

\* Subtracting what is left over: the header then lacks only what went beyond.
LEMMA Subtracted ==
  ASSUME NEW M \in Nat \ {0}, NEW h \in 0 .. M - 1, NEW R \in Nat, NEW X \in Nat, NEW n \in Nat, n < M, n # 0,
         R = 0 \/ X = 0, R - X = ((h - 1) % M) - (n - 1)
  PROVE  ((h + (-1) * R) % M) + X = n
<1>1. CASE h = 0
  <2>1. (h - 1) % M = M - 1
    BY <1>1
  <2>2. R = M - n /\ X = 0
    BY <2>1
  <2>3. h + (-1) * R = n - M
    BY <1>1, <2>2
  <2>4. (n - M) % M = n
    OBVIOUS
  <2> QED BY <2>2, <2>3, <2>4
<1>2. CASE h # 0
  <2>1. (h - 1) % M = h - 1
    BY <1>2
  <2>2. R - X = h - n
    BY <2>1
  <2>3. CASE X = 0
    <3>1. h + (-1) * R = n /\ n % M = n
      BY <2>2, <2>3
    <3> QED BY <2>3, <3>1
  <2>4. CASE R = 0
    <3>1. h + (-1) * R = h /\ h % M = h
      BY <2>4
    <3> QED BY <2>2, <2>4, <3>1
  <2> QED BY <2>3, <2>4
<1> QED BY <1>1, <1>2

\* The phases after the inodes change the headers and nothing else.
LEMMA LaterPhase ==
  ASSUME EaRefcountAssumption, EaIInv, NEW hdr \in [EaBlocks -> 0 .. Modulus - 1], NEW e,
         e = [ea EXCEPT !.at = ea.at + 1], ea.at \in {EaInodes + 1, EaInodes + 2},
         ea.at = EaInodes + 1 =>
           \A blk \in ea.block_ea_map :
             hdr[blk] + Val(ea.refcount_extra.list, blk) = Cardinality(Seen(file_acl, EaInodes, blk)),
         ea.at = EaInodes + 2 =>
           \A blk \in ea.block_ea_map : hdr[blk] = Cardinality(Seen(file_acl, EaInodes, blk))
  PROVE  EaSound(file_acl, hdr, damaged, e)
<1>1. /\ e \in [at : Nat, block_ea_map : SUBSET EaBlocks, refcount : Refs, refcount_extra : Refs]
      /\ e.at = ea.at + 1 /\ e.block_ea_map = ea.block_ea_map /\ e.refcount = ea.refcount /\ e.refcount_extra = ea.refcount_extra
  BY EaTypes
<1>2. e.at # 0 /\ ~(e.at \in 1 .. EaInodes + 1) /\ (e.at = EaInodes + 2 <=> ea.at = EaInodes + 1)
      /\ (e.at = EaInodes + 3 <=> ea.at = EaInodes + 2)
  BY <1>1, EaTypes
<1>3. \A i \in 1 .. EaInodes : file_acl[i] \in ea.block_ea_map \cup {0}
  <2> TAKE i \in 1 .. EaInodes
  <2>1. i < ea.at
    BY EaTypes
  <2> QED BY <2>1 DEF EaIInv, EaSound
<1>4. /\ Listed(ea.refcount) /\ Listed(ea.refcount_extra)
      /\ file_acl \in [1 .. EaInodes -> EaBlocks \cup {0}] /\ damaged \subseteq EaBlocks
      /\ ea.block_ea_map \cap damaged = {}
      /\ \A blk \in EaBlocks : Val(ea.refcount.list, blk) = 0 \/ Val(ea.refcount_extra.list, blk) = 0
      /\ \A blk \in EaBlocks \ ea.block_ea_map :
           Val(ea.refcount.list, blk) = 0 /\ Val(ea.refcount_extra.list, blk) = 0
  BY DEF EaIInv, EaSound
<1> QED BY <1>1, <1>2, <1>3, <1>4 DEF EaSound

\* The headers stay 32-bit numbers.
LEMMA AdjustType ==
  ASSUME EaRefcountAssumption, EaIInv, ea.at # 0, NEW r, Listed(r), NEW sign \in {-1, 1}
  PROVE  adjust_extattr_refcount(r, sign) \in [EaBlocks -> 0 .. Modulus - 1]
<1> DEFINE f == adjust_extattr_refcount(r, sign)
<1>1. \A blk \in EaBlocks : f[blk] = (header[blk] + sign * Val(r.list, blk)) % Modulus
  BY AdjustIs
<1>2. DOMAIN f = EaBlocks /\ f = [blk \in EaBlocks |-> f[blk]]
  BY DEF adjust_extattr_refcount
<1> HIDE DEF f
<1>3. ASSUME NEW blk \in EaBlocks PROVE f[blk] \in 0 .. Modulus - 1
  <2> DEFINE x == header[blk] + sign * Val(r.list, blk)
  <2>1. header[blk] \in Int /\ Val(r.list, blk) \in Int
    <3>1. Val(r.list, blk) \in Nat
      BY ListedFields, ValIs
    <3> QED BY <3>1 DEF EaIInv, EaSound
  <2>2. x \in Int /\ Modulus \in Nat \ {0}
    BY <2>1, EaTypes
  <2> HIDE DEF x
  <2>3. x % Modulus \in 0 .. Modulus - 1
    BY <2>2
  <2> QED BY <1>1, <2>3 DEF x
<1>4. f \in [EaBlocks -> 0 .. Modulus - 1]
  BY <1>2, <1>3
<1> QED BY <1>4 DEF f

\* then the subtraction of what is left over,
LEMMA SubtractStep ==
  ASSUME EaRefcountAssumption, EaIInv, SubtractRest PROVE EaIInv'
<1> DEFINE hdr == adjust_extattr_refcount(ea.refcount, -1)
           e == [ea EXCEPT !.at = ea.at + 1]
<1>1. ea.at = EaInodes + 1 /\ header' = hdr /\ ea' = e /\ file_acl' = file_acl /\ damaged' = damaged
  BY DEF SubtractRest
<1>2. ea.at # 0 /\ ea.at \in 1 .. EaInodes + 1 /\ ea.at # EaInodes + 2 /\ ea.at - 1 = EaInodes
  BY <1>1, EaTypes
<1>3. hdr \in [EaBlocks -> 0 .. Modulus - 1]
  BY <1>2, EaTypes, AdjustType
<1>4. ASSUME NEW blk \in ea.block_ea_map
      PROVE  hdr[blk] + Val(ea.refcount_extra.list, blk) = Cardinality(Seen(file_acl, EaInodes, blk))
  <2> DEFINE h == header[blk]
             R == Val(ea.refcount.list, blk)
             X == Val(ea.refcount_extra.list, blk)
             n == Cardinality(Seen(file_acl, EaInodes, blk))
  <2>1. hdr[blk] = (h + (-1) * R) % Modulus
    BY EaTypes, AdjustIs
  <2>2. h \in 0 .. Modulus - 1 /\ (R = 0 \/ X = 0)
    BY <1>2, EaTypes DEF EaIInv, EaSound
  <2>3. Balanced(h, R, X, n)
    BY <1>2 DEF EaIInv, EaSound, Checked
  <2>4. R \in Nat /\ X \in Nat /\ n \in Nat /\ n < Modulus /\ Modulus \in Nat \ {0}
    <3>1. n \in Nat /\ n <= EaInodes
      BY EaTypes, SeenCounts
    <3> HIDE DEF n
    <3> QED BY <3>1, EaTypes
  <2> HIDE DEF h, R, X, n, hdr
  <2>5. ((h + (-1) * R) % Modulus) + X = n
    BY <2>2, <2>3, <2>4, Subtracted DEF Balanced
  <2> QED BY <2>1, <2>5 DEF X, n
<1> HIDE DEF hdr, e
<1>5. EaSound(file_acl, hdr, damaged, e)
  BY <1>1, <1>2, <1>3, <1>4, LaterPhase DEF e
<1> QED BY <1>1, <1>5 DEF EaIInv

\* and the addition of what went beyond.
LEMMA AddStep ==
  ASSUME EaRefcountAssumption, EaIInv, AddExtra PROVE EaIInv'
<1> DEFINE hdr == adjust_extattr_refcount(ea.refcount_extra, 1)
           e == [ea EXCEPT !.at = ea.at + 1]
<1>1. ea.at = EaInodes + 2 /\ header' = hdr /\ ea' = e /\ file_acl' = file_acl /\ damaged' = damaged
  BY DEF AddExtra
<1>2. ea.at # 0 /\ ea.at # EaInodes + 1
  BY <1>1, EaTypes
<1>3. hdr \in [EaBlocks -> 0 .. Modulus - 1]
  BY <1>2, EaTypes, AdjustType
<1>4. ASSUME NEW blk \in ea.block_ea_map
      PROVE  hdr[blk] = Cardinality(Seen(file_acl, EaInodes, blk))
  <2> DEFINE h == header[blk]
             X == Val(ea.refcount_extra.list, blk)
             n == Cardinality(Seen(file_acl, EaInodes, blk))
  <2>1. hdr[blk] = (h + 1 * X) % Modulus
    BY EaTypes, AdjustIs
  <2>2. h \in 0 .. Modulus - 1 /\ h + X = n
    BY <1>1, <1>2, EaTypes DEF EaIInv, EaSound
  <2>4. X \in Nat /\ n \in Nat /\ n < Modulus /\ Modulus \in Nat \ {0}
    <3>1. n \in Nat /\ n <= EaInodes
      BY EaTypes, SeenCounts
    <3> HIDE DEF n
    <3> QED BY <3>1, EaTypes
  <2> HIDE DEF h, X, n, hdr
  <2>5. h + 1 * X = n /\ n % Modulus = n
    BY <2>2, <2>4
  <2> QED BY <2>1, <2>5 DEF n
<1> HIDE DEF hdr, e
<1>5. EaSound(file_acl, hdr, damaged, e)
  BY <1>1, <1>2, <1>3, <1>4, LaterPhase DEF e
<1> QED BY <1>1, <1>5 DEF EaIInv

\* The invariant implies what is to be shown.
LEMMA RefcountsAreCorrect ==
  ASSUME EaRefcountAssumption, EaIInv PROVE RefcountsCorrect
<1>1. RefcountsRepaired
  BY DEF RefcountsRepaired, EaIInv, EaSound, Seen
<1> DEFINE R == ea.refcount.list
           X == ea.refcount_extra.list
           s == Iterated(ea.refcount)
           t == Iterated(ea.refcount_extra)
<1>2. Table(R, EaBlocks) /\ Table(X, EaBlocks)
  BY EaTypes, ListedFields
<1>3. \A k : (HasKey(s, k) => k \in EaBlocks /\ Val(R, k) # 0) /\ (HasKey(t, k) => Val(X, k) # 0)
  <2>1. \A k : (HasKey(WithRefs(R), k) => HasKey(R, k) /\ Val(R, k) # 0) /\ (HasKey(WithRefs(X), k) => Val(X, k) # 0)
    BY <1>2, CollapseIs
  <2>2. \A k : HasKey(R, k) => k \in EaBlocks
    BY <1>2, ValIs
  <2> QED BY <2>1, <2>2 DEF Iterated
<1>4. \A k \in EaBlocks : Val(R, k) = 0 \/ Val(X, k) = 0
  BY DEF EaIInv, EaSound
<1> HIDE DEF s, t, R, X
<1>5. ~ \E i \in 1 .. Len(s), j \in 1 .. Len(t) : s[i].key = t[j].key
  <2> SUFFICES ASSUME NEW i \in 1 .. Len(s), NEW j \in 1 .. Len(t), s[i].key = t[j].key PROVE FALSE
    OBVIOUS
  <2> DEFINE k == s[i].key
  <2>1. HasKey(s, k) /\ HasKey(t, k)
    BY DEF HasKey
  <2> HIDE DEF k
  <2> QED BY <1>3, <1>4, <2>1
<1>6. Sorted(R) /\ Sorted(X)
  BY <1>2 DEF Table
<1>7. ListsValid
  BY <1>5, <1>6 DEF ListsValid, s, t, R, X
<1> QED BY <1>1, <1>7 DEF RefcountsCorrect

\* Whatever the headers of shared extended attribute blocks say, whichever inodes refer
\* to them, which of them are damaged and however small the lists are, pass 1 ends with
\* headers that count exactly the inodes that refer to the block; on the way the lists
\* stay sorted, through every collapse and search started again, and no block is in both
\* with references.  This is for every set of blocks, number of inodes below 2^32 and room.
THEOREM ReferencesAreCounted == EaSpec => []RefcountsCorrect
<1> USE EaRefcountAssumption
<1>1. EaInit => EaIInv
  <2> SUFFICES ASSUME EaInit PROVE EaIInv
    OBVIOUS
  <2> DEFINE r == ea_refcount_create(1)
  <2>1. Listed(r) /\ r \in Refs /\ \A k : Val(r.list, k) = 0
    BY FreshList
  <2> HIDE DEF r
  <2>2. ea = [at |-> 0, block_ea_map |-> {}, refcount |-> r, refcount_extra |-> r]
    BY DEF EaInit, r
  <2>3. /\ ea \in [at : Nat, block_ea_map : SUBSET EaBlocks, refcount : Refs, refcount_extra : Refs]
        /\ ea.at = 0 /\ ea.block_ea_map = {} /\ ea.refcount = r /\ ea.refcount_extra = r
    BY <2>1, <2>2
  <2>4. /\ EaInodes \in Nat /\ \A i \in 1 .. EaInodes : ~(i < 0)
        /\ 0 # EaInodes + 2 /\ 0 # EaInodes + 3 /\ 0 \notin 1 .. EaInodes + 1
    BY DEF EaRefcountAssumption
  <2>5. file_acl \in [1 .. EaInodes -> EaBlocks \cup {0}] /\ damaged = {}
    BY DEF EaInit
  <2> QED BY <2>1, <2>3, <2>4, <2>5 DEF EaIInv, EaSound
<1>2. EaIInv /\ [EaNext]_refcountVars => EaIInv'
  <2> SUFFICES ASSUME EaIInv, [EaNext]_refcountVars PROVE EaIInv'
    OBVIOUS
  <2>1. CASE Found
    BY <2>1, FoundStep
  <2>2. CASE NoBlock
    BY <2>2, NoBlockStep
  <2>3. ASSUME NEW blk \in EaBlocks, SeenBefore(blk) PROVE EaIInv'
    BY <2>3, SeenBeforeStep
  <2>4. ASSUME NEW blk \in EaBlocks, FirstSeen(blk) PROVE EaIInv'
    BY <2>4, FirstSeenStep
  <2>5. ASSUME NEW blk \in EaBlocks, EaCleared(blk) PROVE EaIInv'
    BY <2>5, ClearedStep
  <2>6. CASE SubtractRest
    BY <2>6, SubtractStep
  <2>7. CASE AddExtra
    BY <2>7, AddStep
  <2>8. CASE UNCHANGED refcountVars
    BY <2>8 DEF refcountVars, EaIInv
  <2> QED BY <2>1, <2>2, <2>3, <2>4, <2>5, <2>6, <2>7, <2>8 DEF EaNext, check_ext_attr
<1>3. EaIInv => RefcountsCorrect
  BY RefcountsAreCorrect
<1> QED BY <1>1, <1>2, <1>3, PTL DEF EaSpec
=============================================================================
