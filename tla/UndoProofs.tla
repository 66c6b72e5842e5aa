----------------------------- MODULE UndoProofs -----------------------------
(***************************************************************************)
(* The undo file has what it takes to put every changed block back, and    *)
(* e2undo does: SavedBeforeChanged and UndoWorks for every size of the     *)
(* file system, of a key block and of an extent, every number of sessions, *)
(* writes, kills and failing reads, as long as no undo file is resumed     *)
(* whose last key block is just full (UndoIO's ResumeFull), and apart from *)
(* the blocks that could not be read and those of a torn key.              *)
(*                                                                         *)
(* The invariant looks at the file a kill would leave at this moment, with *)
(* none, some or all of the cached blocks written, the key block before    *)
(* its data if need be: the keys its header counts are sound and cover     *)
(* what changed.  A key is found by walking                                *)
(* over all the keys before it, so a key block that is written over, or a  *)
(* key that is extended, could move every key behind it: most lemmas are   *)
(* about what a write leaves where it was.                                 *)
(***************************************************************************)
EXTENDS UndoIO, WellFoundedInduction, NaturalsInduction, TLAPS

-----------------------------------------------------------------------------
(* The inductive invariant. *)

\* The types of what the undo file and its cache hold.
Keys == [fsblk : Int, crc : Seq(Contents)]
FileBlocks == [keys : Seq(Keys), data : Contents \cup {Nothing}]
CacheWrites == [at : Nat \ {0}, blk : FileBlocks]

\* Block p of the undo file.
At(blks, p) == IF p \in 1 .. Len(blks) THEN blks[p] ELSE DataBlock(Nothing)

\* Where the first k keys of the blocks are: the recursion of KeyPlaces.
Place(blks, k) == KeyPlaces([hdr |-> [num_keys |-> k], blks |-> blks])[k]

\* The key block of key k, the key and the extent it describes.
KeysOf(blks, k) == At(blks, Place(blks, k).key_blk).keys
KeyOf(blks, k) == KeysOf(blks, k)[Slot(k)]
SizeAt(blks, k) == IF Slot(k) \in DOMAIN KeysOf(blks, k) THEN Len(KeyOf(blks, k).crc) ELSE 0
EndOf(blks, k) == Place(blks, k).data_blk + SizeAt(blks, k)
BlocksOf(key) == key.fsblk .. key.fsblk + Len(key.crc) - 1

\* Key k can be read, its extent is within the file and has the contents its checksum
\* stands for, and those are the original ones where they could be read; a torn key may
\* lack its data.
GoodKey(blks, k, u) ==
  /\ Slot(k) \in DOMAIN KeysOf(blks, k)
  /\ KeyOf(blks, k).crc # <<>>
  /\ BlocksOf(KeyOf(blks, k)) \subseteq Blocks
  /\ \A i \in 1 .. Len(KeyOf(blks, k).crc) :
       /\ KeyOf(blks, k).fsblk + i - 1 \notin u.torn =>
            At(blks, Place(blks, k).data_blk + i - 1).data = KeyOf(blks, k).crc[i]
       /\ KeyOf(blks, k).fsblk + i - 1 \notin u.unread => KeyOf(blks, k).crc[i] = Original
  /\ \/ BlocksOf(KeyOf(blks, k)) \subseteq u.torn
     \/ Place(blks, k).data_blk + Len(KeyOf(blks, k).crc) - 1 <= Len(blks)
Good(blks, n, u) == \A k \in 1 .. n : GoodKey(blks, k, u)

\* The blocks the first n keys have.
Covered(blks, n) == UNION {BlocksOf(KeyOf(blks, k)) : k \in 1 .. n}

\* Blocks that changed on the device or will, the ones that could not be read apart.
Changed == {b \in Blocks \ lost.unread : disk[b].v # Original.v \/ dirty[b] # Nothing}

\* The undo file once everything cached is written.
Final == Flushed(file.blks, cached)

\* The first n keys of the undo file are sound and have the changed blocks,
Keeps(blks, n, u, changed) == Good(blks, n, u) /\ changed \subseteq Covered(blks, n)

\* whichever of the cached blocks are written.
Kept(writes, blks, n, u, changed) ==
  \A m \in 0 .. Len(writes) : Keeps(Flushed(blks, SubSeq(writes, 1, m)), n, u, changed)

\* The keys the header counts are sound whenever a kill comes.
KillSafe ==
  /\ Kept(cached, file.blks, file.hdr.num_keys, lost, Changed)
  /\ file.hdr.num_keys > 0 => file.hdr.magic /\ file.hdr.sized

\* The key block at kb begins with keyb.
Begins(blks, kb, keyb) ==
  \A i \in 1 .. Len(keyb) : i \in DOMAIN At(blks, kb).keys /\ At(blks, kb).keys[i] = keyb[i]

\* Key n + 1 goes to place ub, behind the keys keyb of block kb.
AtNext(blks, n, kb, ub, keyb) ==
  /\ kb = Place(blks, n + 1).key_blk /\ ub = Place(blks, n + 1).data_blk
  /\ Len(keyb) = Slot(n + 1) - 1 /\ Begins(blks, kb, keyb)

\* Key n is the last of keyb, and ends before ub.
AtLast(blks, n, kb, ub, keyb) ==
  /\ n # 0 /\ kb = Place(blks, n).key_blk /\ ub = EndOf(blks, n)
  /\ Len(keyb) = Slot(n) /\ Begins(blks, kb, keyb)

\* Where a tool, and e2undo, can be.
Tools == {"open", "save", "header", "super", "close_header", "close_super"}
Undoing == {"replay", "interrupted", "undone"}

\* The types of the variables.
Headers == [magic : BOOLEAN, sized : BOOLEAN, num_keys : Nat,
            sb_crc : Contents \cup {Nothing}, finished : BOOLEAN]
Files == [hdr : Headers, super : Contents \cup {Nothing}, blks : Seq(FileBlocks)]
ToolData == [map : SUBSET Blocks, setup : BOOLEAN, num_keys : Nat, keyb : Seq(Keys),
             key_blk : Nat, undo_blk : Nat, finished : BOOLEAN, warm : BOOLEAN]
Losses == [unread : SUBSET Blocks, torn : SUBSET Blocks]
Writes == [from : Blocks, to : Blocks, with : Contents]
Replays == [keys : SUBSET [fsblk : Int, crc : Seq(Contents), fileblk : Nat],
            force : BOOLEAN, error : BOOLEAN]

Typed ==
  /\ disk \in [Blocks -> Contents \cup {Nothing}] /\ dirty \in [Blocks -> Contents \cup {Nothing}]
  /\ file \in Files /\ cached \in Seq(CacheWrites) /\ Len(cached) <= 2
  /\ data \in ToolData /\ pc \in Tools \cup Stopped \cup Undoing
  /\ todo \in Writes /\ lost \in Losses /\ replay \in Replays

\* The tool knows what the undo file will hold.
Knows(d, blks, u, changed) ==
  /\ Keeps(blks, d.num_keys, u, changed)
  /\ Covered(blks, d.num_keys) \subseteq d.map /\ d.map \ u.unread \subseteq Covered(blks, d.num_keys)
  /\ d.num_keys > 0 => d.setup

\* Its cursors are where the next key goes, or behind the key just added.
GoesOn(d, blks) == AtNext(blks, d.num_keys, d.key_blk, d.undo_blk, d.keyb)
HasAdded(d, blks) == AtLast(blks, d.num_keys, d.key_blk, d.undo_blk, d.keyb)

\* The key block may reach the file before its data: then the blocks of its last key are
\* lost, and nothing else.
AlsoTorn == [lost EXCEPT !.torn = @ \cup Torn]
Tearing ==
  /\ cached[2] \in CacheWrites
  /\ Keeps(Put(file.blks, cached[2]), file.hdr.num_keys, AlsoTorn, Changed)

\* What holds while a tool runs.
ToolSound ==
  /\ Knows(data, Final, lost, Changed)
  /\ pc # "header" => file.hdr.num_keys = data.num_keys
  /\ pc \in {"open", "save", "super", "close_header"} => GoesOn(data, Final)
  /\ pc = "header" => HasAdded(data, Final) /\ Tearing
  /\ pc \in {"save", "header", "super"} => data.setup /\ todo.with.clean
  /\ pc \in {"open", "save", "super", "close_super"} => cached = <<>>
  /\ pc = "close_super" => dirty = Clean /\ file.hdr.sb_crc = disk[SuperBlk] /\ file.hdr.magic

\* No tool writes a superblock that is not clean.
AllClean == disk \in [Blocks -> Contents] /\ \A b \in Blocks : disk[b].clean /\ (dirty[b] # Nothing => dirty[b].clean)

\* The keys e2undo has left to write cover every block that still differs.
UndoingSound ==
  /\ pc = "replay" =>
       /\ replay.keys \subseteq LoadedKeys(file)
       /\ \A b \in Blocks \ (lost.unread \cup lost.torn) :
            disk[b].v # Original.v => \E key \in replay.keys : b \in KeyBlocks(key)
  /\ pc = "undone" => \A b \in Blocks \ (lost.unread \cup lost.torn) : disk[b].v = Original.v

\* The inductive invariant.
UndoIInv ==
  /\ Typed /\ KillSafe
  /\ pc \in Tools => ToolSound
  /\ pc \notin Tools => dirty = Clean /\ cached = <<>>
  /\ pc \notin Undoing => AllClean
  /\ pc \in Undoing => UndoingSound
  /\ pc = "ended" => file.super = disk[SuperBlk] /\ file.hdr.sb_crc = disk[SuperBlk] /\ file.hdr.magic

-----------------------------------------------------------------------------
(* Where the keys of an undo file are. *)

\* A set of natural numbers that is not empty has a least element: the block the
\* loop of undo_write_tdb takes next, and the key e2undo writes next.
LEMMA NatMin == ASSUME NEW T, T \subseteq Nat, T # {} PROVE \E x \in T : \A y \in T : x <= y
<1>1. IsWellFoundedOn(OpToRel(<, Nat), Nat)
  BY NatLessThanWellFounded
<1>2. PICK x \in T : \A y \in T : ~ (<<y, x>> \in OpToRel(<, Nat))
  BY <1>1, WFMin
<1>3. \A y \in T : ~(y < x)
  BY <1>2 DEF OpToRel
<1> QED BY <1>3

\* Induction over the naturals, for the set of numbers that have the property.
LEMMA SetInduction == ASSUME NEW S, 0 \in S, \A n \in Nat : n \in S => n + 1 \in S PROVE Nat \subseteq S
<1> SUFFICES ASSUME Nat \ S # {} PROVE FALSE
  OBVIOUS
<1>2. PICK x \in Nat \ S : \A y \in Nat \ S : x <= y
  BY NatMin
<1>3. x # 0 /\ x - 1 \in Nat /\ x - 1 \in S
  BY <1>2
<1> QED BY <1>3

\* A key has a slot of its key block, the first key the first one.
LEMMA SlotRange == \A k \in Nat \ {0} : Slot(k) \in 1 .. KeysPerBlock /\ Slot(1) = 1
BY UndoAssumption DEF Slot

\* A remainder is determined by its equation.
LEMMA Remainder ==
  ASSUME NEW a \in Nat, NEW c \in Nat \ {0}, NEW q \in Int, NEW r \in 0 .. c - 1, a = c * q + r
  PROVE  a % c = r
<1> DEFINE p == a \div c
           s == a % c
<1>1. p \in Int /\ s \in 0 .. c - 1 /\ a = c * p + s
  OBVIOUS
<1> HIDE DEF p, s
<1> DEFINE d == q - p
<1>2. d \in Int /\ c * d = c * q - c * p
  BY <1>1
<1>3. c * d = s - r
  BY <1>1, <1>2
<1> HIDE DEF d
<1>4. d >= 1 => c * d >= c
  BY <1>2
<1>5. d <= -1 => c * d <= -c
  BY <1>2
<1>6. d = 0
  BY <1>1, <1>2, <1>3, <1>4, <1>5
<1>7. s = r
  BY <1>1, <1>3, <1>6
<1> QED BY <1>7 DEF s

\* The next key has the next slot, or the first one of a new key block.
LEMMA SlotStep == \A k \in Nat \ {0} : Slot(k + 1) = IF Slot(k) = KeysPerBlock THEN 1 ELSE Slot(k) + 1
<1> SUFFICES ASSUME NEW k \in Nat \ {0}
             PROVE  Slot(k + 1) = IF Slot(k) = KeysPerBlock THEN 1 ELSE Slot(k) + 1
  OBVIOUS
<1> DEFINE c == KeysPerBlock
           q == (k - 1) \div c
           r == (k - 1) % c
<1>0. c \in Nat \ {0} /\ k - 1 \in Nat
  BY UndoAssumption
<1>1. q \in Int /\ r \in 0 .. c - 1 /\ k - 1 = c * q + r
  BY <1>0
<1>2. Slot(k) = r + 1 /\ Slot(k + 1) = (k % c) + 1
  BY DEF Slot
<1> HIDE DEF c, q, r
<1>3. CASE r + 1 = c
  <2>1. k = c * (q + 1) + 0 /\ q + 1 \in Int /\ 0 \in 0 .. c - 1
    <3>1. c * (q + 1) = c * q + c
      BY <1>0, <1>1
    <3> QED BY <1>0, <1>1, <1>3, <3>1
  <2>2. k % c = 0
    BY <2>1, <1>0, Remainder
  <2> QED BY <2>2, <1>2, <1>3 DEF c
<1>4. CASE r + 1 # c
  <2>1. k = c * q + (r + 1) /\ r + 1 \in 0 .. c - 1
    BY <1>0, <1>1, <1>4
  <2>2. k % c = r + 1
    BY <2>1, <1>0, <1>1, Remainder
  <2> QED BY <2>2, <1>1, <1>2, <1>4 DEF c
<1> QED BY <1>3, <1>4

\* Where the first key is, and where key k is if the one before it is at prev:
\* the body of the loop over the key blocks.
First == [key_blk |-> 1, data_blk |-> 2]
Following(blks, prev, k) ==
  LET keys == At(blks, prev.key_blk).keys
      next == prev.data_blk + IF Slot(k - 1) \in DOMAIN keys
                              THEN Size(keys[Slot(k - 1)]) ELSE 0
  IN IF Slot(k) = 1 THEN [key_blk |-> next, data_blk |-> next + 1]
     ELSE [key_blk |-> prev.key_blk, data_blk |-> next]

\* P follows that recursion up to key n.
IsPlaces(P, blks, n) == P = [k \in 1 .. n |-> IF k = 1 THEN First ELSE Following(blks, P[k - 1], k)]

\* The recursion has a solution,
LEMMA PlacesExist == ASSUME NEW blks, NEW n \in Nat PROVE \E P : IsPlaces(P, blks, n)
<1> DEFINE S == {m \in Nat : \E P : IsPlaces(P, blks, m)}
<1>1. 0 \in S
  <2>1. IsPlaces([k \in 1 .. 0 |-> First], blks, 0)
    BY DEF IsPlaces
  <2> QED BY <2>1
<1>2. ASSUME NEW m \in Nat, m \in S PROVE m + 1 \in S
  <2>1. PICK P : IsPlaces(P, blks, m)
    BY <1>2
  <2> DEFINE more == IF m + 1 = 1 THEN First ELSE Following(blks, P[m], m + 1)
             Q == [k \in 1 .. m + 1 |-> IF k = m + 1 THEN more ELSE P[k]]
             R(k) == IF k = 1 THEN First ELSE Following(blks, P[k - 1], k)
             T(k) == IF k = 1 THEN First ELSE Following(blks, Q[k - 1], k)
  <2>2. \A k \in 1 .. m : P[k] = R(k)
    BY <2>1 DEF IsPlaces
  <2>3. \A k \in 2 .. m + 1 : Q[k - 1] = P[k - 1]
    OBVIOUS
  <2>4. \A k \in 1 .. m + 1 : R(k) = T(k)
    BY <2>3
  <2>5. \A k \in 1 .. m + 1 : Q[k] = T(k)
    <3> SUFFICES ASSUME NEW k \in 1 .. m + 1 PROVE Q[k] = T(k)
      OBVIOUS
    <3>1. CASE k = m + 1
      <4>1. Q[k] = R(k)
        <5>1. k - 1 = m
          BY <3>1
        <5> QED BY <3>1, <5>1
      <4> QED BY <4>1, <2>4
    <3>2. CASE k # m + 1
      <4>1. k \in 1 .. m
        BY <3>2
      <4> QED BY <4>1, <3>2, <2>2, <2>4
    <3> QED BY <3>1, <3>2
  <2>6. Q = [k \in 1 .. m + 1 |-> T(k)]
    <3> HIDE DEF T, more
    <3> QED BY <2>5
  <2>7. IsPlaces(Q, blks, m + 1)
    BY <2>6 DEF IsPlaces
  <2> HIDE DEF Q
  <2> QED BY <2>7
<1>3. Nat \subseteq S
  BY <1>1, <1>2, SetInduction
<1> QED BY <1>3

\* and only one, however many keys there are;
LEMMA PlacesAgree ==
  ASSUME NEW blks, NEW m \in Nat, NEW n \in Nat, NEW P, NEW Q, IsPlaces(P, blks, m), IsPlaces(Q, blks, n)
  PROVE  \A k \in Nat \ {0} : k <= m /\ k <= n => P[k] = Q[k]
<1> DEFINE S == {k \in Nat : k # 0 /\ k <= m /\ k <= n => P[k] = Q[k]}
<1>0. /\ \A k \in 1 .. m : P[k] = IF k = 1 THEN First ELSE Following(blks, P[k - 1], k)
      /\ \A k \in 1 .. n : Q[k] = IF k = 1 THEN First ELSE Following(blks, Q[k - 1], k)
  BY DEF IsPlaces
<1>1. 0 \in S
  OBVIOUS
<1>2. ASSUME NEW k \in Nat, k \in S PROVE k + 1 \in S
  <2> SUFFICES ASSUME k + 1 <= m, k + 1 <= n PROVE P[k + 1] = Q[k + 1]
    OBVIOUS
  <2>1. CASE k = 0
    BY <1>0, <2>1
  <2>2. CASE k # 0
    <3>1. P[k] = Q[k]
      BY <1>2, <2>2
    <3>2. /\ P[k + 1] = Following(blks, P[(k + 1) - 1], k + 1)
          /\ Q[k + 1] = Following(blks, Q[(k + 1) - 1], k + 1)
      BY <1>0, <2>2
    <3>3. (k + 1) - 1 = k
      OBVIOUS
    <3> QED BY <3>1, <3>2, <3>3
  <2> QED BY <2>1, <2>2
<1>3. Nat \subseteq S
  BY <1>1, <1>2, SetInduction
<1> QED BY <1>3

\* KeyPlaces is that solution.
LEMMA KeyPlacesAre == ASSUME NEW f PROVE \A n \in Nat : f.hdr.num_keys = n => IsPlaces(KeyPlaces(f), f.blks, n)
<1> SUFFICES ASSUME NEW n \in Nat, f.hdr.num_keys = n PROVE IsPlaces(KeyPlaces(f), f.blks, n)
  OBVIOUS
<1>1. PICK P : IsPlaces(P, f.blks, n)
  BY PlacesExist
<1>2. KeyPlaces(f) = CHOOSE place : IsPlaces(place, f.blks, n)
  BY DEF KeyPlaces, IsPlaces, First, Following, BlockAt, At
<1> QED BY <1>1, <1>2

\* The recursion of Place.
LEMMA PlaceIs ==
  ASSUME NEW blks
  PROVE  /\ Place(blks, 1) = First
         /\ \A k \in Nat \ {0} : Place(blks, k + 1) = Following(blks, Place(blks, k), k + 1)
<1> DEFINE f(k) == [hdr |-> [num_keys |-> k], blks |-> blks]
<1>1. \A k \in Nat : IsPlaces(KeyPlaces(f(k)), blks, k)
  <2> SUFFICES ASSUME NEW k \in Nat PROVE IsPlaces(KeyPlaces(f(k)), blks, k)
    OBVIOUS
  <2>1. f(k).hdr.num_keys = k /\ f(k).blks = blks
    OBVIOUS
  <2> HIDE DEF f
  <2> QED BY <2>1, KeyPlacesAre
<1>2. \A k \in Nat : Place(blks, k) = KeyPlaces(f(k))[k]
  BY DEF Place
<1> HIDE DEF f
<1>3. Place(blks, 1) = First
  BY <1>1, <1>2 DEF IsPlaces
<1>4. ASSUME NEW k \in Nat \ {0} PROVE Place(blks, k + 1) = Following(blks, Place(blks, k), k + 1)
  <2> DEFINE P == KeyPlaces(f(k))
             Q == KeyPlaces(f(k + 1))
  <2>1. IsPlaces(P, blks, k) /\ IsPlaces(Q, blks, k + 1)
    BY <1>1
  <2>2. Place(blks, k + 1) = Q[k + 1] /\ Place(blks, k) = P[k]
    BY <1>2
  <2> HIDE DEF P, Q
  <2>3. P[k] = Q[k]
    BY <2>1, PlacesAgree
  <2>4. Q[k + 1] = Following(blks, Q[(k + 1) - 1], k + 1)
    BY <2>1 DEF IsPlaces
  <2>5. (k + 1) - 1 = k
    OBVIOUS
  <2> QED BY <2>2, <2>3, <2>4, <2>5
<1> QED BY <1>3, <1>4

\* KeyPlaces and Place agree: the place of a key does not depend on num_keys.
LEMMA KeyPlacesIs ==
  ASSUME NEW f, f.hdr.num_keys \in Nat
  PROVE  \A k \in 1 .. f.hdr.num_keys : KeyPlaces(f)[k] = Place(f.blks, k)
<1> DEFINE blks == f.blks
           n == f.hdr.num_keys
           g(k) == [hdr |-> [num_keys |-> k], blks |-> blks]
<1> SUFFICES ASSUME NEW k \in 1 .. n PROVE KeyPlaces(f)[k] = Place(blks, k)
  OBVIOUS
<1>1. IsPlaces(KeyPlaces(f), blks, n)
  BY KeyPlacesAre
<1>2. IsPlaces(KeyPlaces(g(k)), blks, k)
  <2>1. g(k).hdr.num_keys = k /\ g(k).blks = blks
    OBVIOUS
  <2> HIDE DEF g
  <2> QED BY <2>1, KeyPlacesAre
<1>3. Place(blks, k) = KeyPlaces(g(k))[k]
  BY DEF Place
<1> HIDE DEF g, blks, n
<1>4. n \in Nat
  BY DEF n
<1> QED BY <1>1, <1>2, <1>3, <1>4, PlacesAgree

\* What the blocks of an undo file hold.
LEMMA BlockTypes ==
  /\ Original \in Contents /\ DataBlock(Nothing) \in FileBlocks
  /\ \A blks \in Seq(FileBlocks) : \A p : /\ At(blks, p) \in FileBlocks
                                          /\ At(blks, p).keys \in Seq(Keys)
  /\ \A key \in Keys : key.fsblk \in Int /\ key.crc \in Seq(Contents) /\ Len(key.crc) \in Nat /\ Size(key) = Len(key.crc)
<1>1. Original \in Contents
  BY UndoAssumption DEF Original, Contents
<1>2. <<>> \in Seq(Keys)
  OBVIOUS
<1>3. DataBlock(Nothing) \in FileBlocks
  BY <1>2 DEF DataBlock, FileBlocks
<1>4. ASSUME NEW blks \in Seq(FileBlocks), NEW p PROVE At(blks, p) \in FileBlocks
  <2> HIDE DEF FileBlocks
  <2> QED BY <1>3 DEF At
<1>5. \A b \in FileBlocks : b.keys \in Seq(Keys)
  BY DEF FileBlocks
<1>6. \A key \in Keys : key.fsblk \in Int /\ key.crc \in Seq(Contents) /\ Len(key.crc) \in Nat /\ Size(key) = Len(key.crc)
  BY DEF Keys, Size
<1> QED BY <1>1, <1>3, <1>4, <1>5, <1>6

\* Places, as a type.
Places == {p \in [key_blk : Nat \ {0}, data_blk : Nat \ {0}] : p.key_blk < p.data_blk}

\* The keys of a key block, and the size of the extent of a key.
LEMMA SizeIs ==
  ASSUME NEW blks \in Seq(FileBlocks)
  PROVE  \A k \in Nat \ {0} :
           /\ KeysOf(blks, k) \in Seq(Keys)
           /\ Slot(k) \in DOMAIN KeysOf(blks, k) => KeyOf(blks, k) \in Keys
           /\ SizeAt(blks, k) \in Nat
<1> SUFFICES ASSUME NEW k \in Nat \ {0}
             PROVE  /\ KeysOf(blks, k) \in Seq(Keys)
                    /\ Slot(k) \in DOMAIN KeysOf(blks, k) => KeyOf(blks, k) \in Keys
                    /\ SizeAt(blks, k) \in Nat
  OBVIOUS
<1>1. KeysOf(blks, k) \in Seq(Keys)
  BY BlockTypes DEF KeysOf
<1>2. Slot(k) \in DOMAIN KeysOf(blks, k) => KeyOf(blks, k) \in Keys
  BY <1>1 DEF KeyOf
<1>3. SizeAt(blks, k) \in Nat
  BY <1>2, BlockTypes DEF SizeAt
<1> QED BY <1>1, <1>2, <1>3

\* Key k + 1 follows the extent of key k, behind a key block of its own if it is
\* the first key of one.
LEMMA PlaceStep ==
  ASSUME NEW blks \in Seq(FileBlocks), NEW k \in Nat \ {0}
  PROVE  Place(blks, k + 1) =
           IF Slot(k + 1) = 1 THEN [key_blk |-> EndOf(blks, k), data_blk |-> EndOf(blks, k) + 1]
           ELSE [key_blk |-> Place(blks, k).key_blk, data_blk |-> EndOf(blks, k)]
<1>1. Place(blks, k + 1) = Following(blks, Place(blks, k), k + 1)
  BY PlaceIs
<1>2. (k + 1) - 1 = k
  OBVIOUS
<1> QED BY <1>1, <1>2 DEF Following, EndOf, SizeAt, KeysOf, KeyOf, Size

\* Every key has a place in the undo file.
LEMMA PlaceTypes ==
  ASSUME NEW blks \in Seq(FileBlocks)
  PROVE  \A k \in Nat \ {0} : /\ Place(blks, k) \in Places
                              /\ EndOf(blks, k) \in Nat /\ Place(blks, k).data_blk <= EndOf(blks, k)
<1> DEFINE S == {k \in Nat : k # 0 => Place(blks, k) \in Places}
<1>1. 0 \in S
  OBVIOUS
<1>2. ASSUME NEW k \in Nat, k \in S PROVE k + 1 \in S
  <2>1. CASE k = 0
    BY <2>1, PlaceIs DEF First, Places
  <2>2. CASE k # 0
    <3>1. Place(blks, k) \in Places /\ SizeAt(blks, k) \in Nat
      BY <1>2, <2>2, SizeIs
    <3>2. EndOf(blks, k) \in Nat \ {0} /\ Place(blks, k).key_blk < EndOf(blks, k) /\ Place(blks, k).key_blk \in Nat \ {0}
      BY <3>1 DEF EndOf, Places
    <3> DEFINE e == EndOf(blks, k)
               kb == Place(blks, k).key_blk
    <3>3. Place(blks, k + 1) = IF Slot(k + 1) = 1 THEN [key_blk |-> e, data_blk |-> e + 1]
                               ELSE [key_blk |-> kb, data_blk |-> e]
      BY <2>2, PlaceStep
    <3> HIDE DEF e, kb
    <3>4. [key_blk |-> e, data_blk |-> e + 1] \in Places /\ [key_blk |-> kb, data_blk |-> e] \in Places
      BY <3>2 DEF Places, e, kb
    <3>5. Place(blks, k + 1) \in Places
      BY <3>3, <3>4
    <3> QED BY <3>5
  <2> QED BY <2>1, <2>2
<1>3. Nat \subseteq S
  BY <1>1, <1>2, SetInduction
<1>4. \A k \in Nat \ {0} : Place(blks, k) \in Places
  BY <1>3
<1>5. ASSUME NEW k \in Nat \ {0} PROVE EndOf(blks, k) \in Nat /\ Place(blks, k).data_blk <= EndOf(blks, k)
  <2>1. Place(blks, k).data_blk \in Nat
    BY <1>4 DEF Places
  <2> QED BY <2>1, SizeIs DEF EndOf
<1> QED BY <1>4, <1>5

\* Key j is before key k
Before(blks, j, k) ==
  /\ EndOf(blks, j) <= Place(blks, k).data_blk
  /\ Place(blks, j).key_blk = Place(blks, k).key_blk \/ EndOf(blks, j) <= Place(blks, k).key_blk

\* The extents and the key blocks follow each other in the order of the keys.
LEMMA PlaceOrder ==
  ASSUME NEW blks \in Seq(FileBlocks)
  PROVE  \A k \in Nat : \A j \in 1 .. k - 1 : Before(blks, j, k)
<1> DEFINE S == {k \in Nat : \A j \in 1 .. k - 1 : Before(blks, j, k)}
<1>1. 0 \in S
  OBVIOUS
<1>2. ASSUME NEW k \in Nat, k \in S PROVE k + 1 \in S
  <2> SUFFICES ASSUME NEW j \in 1 .. k PROVE Before(blks, j, k + 1)
    OBVIOUS
  <2>0. k \in Nat \ {0} /\ j \in Nat \ {0}
    OBVIOUS
  <2> DEFINE pk == Place(blks, k)
             pn == Place(blks, k + 1)
             e == EndOf(blks, k)
             ej == EndOf(blks, j)
             kj == Place(blks, j).key_blk
  <2>1. pk \in Places /\ e \in Nat /\ pk.data_blk <= e /\ ej \in Nat /\ kj \in Nat
    BY <2>0, PlaceTypes DEF Places
  <2>2. \/ pn.key_blk = e /\ pn.data_blk = e + 1
        \/ pn.key_blk = pk.key_blk /\ pn.data_blk = e
    <3>1. pn = IF Slot(k + 1) = 1 THEN [key_blk |-> e, data_blk |-> e + 1]
               ELSE [key_blk |-> pk.key_blk, data_blk |-> e]
      BY <2>0, PlaceStep
    <3> HIDE DEF pk, pn, e
    <3> QED BY <3>1
  <2>3. CASE j = k
    <3>1. e <= pn.data_blk /\ (pk.key_blk = pn.key_blk \/ e <= pn.key_blk)
      BY <2>1, <2>2
    <3> QED BY <3>1, <2>3 DEF Before
  <2>4. CASE j # k
    <3>1. Before(blks, j, k)
      BY <1>2, <2>4
    <3>2. ej <= pk.data_blk /\ (kj = pk.key_blk \/ ej <= pk.key_blk)
      BY <3>1 DEF Before
    <3>3. pk.key_blk \in Nat /\ pk.data_blk \in Nat /\ pk.key_blk < pk.data_blk
      BY <2>1 DEF Places
    <3> HIDE DEF pk, pn, e, ej, kj
    <3>4. ej <= pn.data_blk /\ (kj = pn.key_blk \/ ej <= pn.key_blk)
      BY <2>1, <2>2, <3>2, <3>3
    <3> QED BY <3>4 DEF Before, pk, pn, ej, kj
  <2> QED BY <2>3, <2>4
<1>3. Nat \subseteq S
  BY <1>1, <1>2, SetInduction
<1> QED BY <1>3

\* The same as facts about the two fields of a place.
LEMMA PlaceFields ==
  ASSUME NEW blks \in Seq(FileBlocks), NEW k \in Nat \ {0}
  PROVE  /\ Place(blks, k).key_blk \in Nat \ {0} /\ Place(blks, k).data_blk \in Nat \ {0}
         /\ Place(blks, k).key_blk < Place(blks, k).data_blk
         /\ EndOf(blks, k) \in Nat /\ Place(blks, k).data_blk <= EndOf(blks, k)
         /\ Place(blks, k) = [key_blk |-> Place(blks, k).key_blk, data_blk |-> Place(blks, k).data_blk]
<1>1. Place(blks, k) \in Places /\ EndOf(blks, k) \in Nat /\ Place(blks, k).data_blk <= EndOf(blks, k)
  BY PlaceTypes
<1>2. \A p \in Places : /\ p.key_blk \in Nat \ {0} /\ p.data_blk \in Nat \ {0} /\ p.key_blk < p.data_blk
                        /\ p = [key_blk |-> p.key_blk, data_blk |-> p.data_blk]
  BY DEF Places
<1> QED BY <1>1, <1>2

-----------------------------------------------------------------------------
(* Writes that leave the keys alone. *)

\* new differs from blks in the blocks kb and ub only, where key n + 1 and its
\* data go, and the first m keys are still in kb.
Unmoved(blks, new, n, m, kb, ub) ==
  /\ blks \in Seq(FileBlocks) /\ new \in Seq(FileBlocks) /\ Len(blks) <= Len(new) /\ n \in Nat /\ m \in 0 .. n
  /\ kb = Place(blks, n + 1).key_blk /\ ub = Place(blks, n + 1).data_blk
  /\ \A p \in Nat : p # kb /\ p # ub => At(new, p) = At(blks, p)
  /\ \A k \in 1 .. m : Place(blks, k).key_blk = kb =>
        /\ Slot(k) \in DOMAIN At(new, kb).keys
        /\ At(new, kb).keys[Slot(k)] = At(blks, kb).keys[Slot(k)]

\* Then the extents of the n keys are as before, and so are the key blocks before kb,
LEMMA DataStays ==
  ASSUME NEW blks, NEW new, NEW n, NEW m, NEW kb, NEW ub, Unmoved(blks, new, n, m, kb, ub)
  PROVE  /\ \A k \in 1 .. n : \A p \in Int :
              Place(blks, k).data_blk <= p /\ p < EndOf(blks, k) => p \in Nat /\ At(new, p) = At(blks, p)
         /\ \A k \in 1 .. n : Place(blks, k).key_blk # kb => At(new, Place(blks, k).key_blk) = At(blks, Place(blks, k).key_blk)
<1>0. blks \in Seq(FileBlocks) /\ n \in Nat /\ kb = Place(blks, n + 1).key_blk /\ ub = Place(blks, n + 1).data_blk
  BY DEF Unmoved
<1>1. ASSUME NEW k \in 1 .. n
      PROVE  /\ Place(blks, k).key_blk \in Nat /\ Place(blks, k).data_blk \in Nat /\ EndOf(blks, k) \in Nat
             /\ Place(blks, k).key_blk < Place(blks, k).data_blk /\ Place(blks, k).data_blk <= EndOf(blks, k)
             /\ EndOf(blks, k) <= ub /\ (Place(blks, k).key_blk = kb \/ EndOf(blks, k) <= kb)
  <2>1. k \in Nat \ {0} /\ k \in 1 .. (n + 1) - 1
    BY <1>0
  <2>2. Before(blks, k, n + 1)
    BY <1>0, <2>1, PlaceOrder
  <2>3. Place(blks, k) \in Places /\ EndOf(blks, k) \in Nat /\ Place(blks, k).data_blk <= EndOf(blks, k)
    BY <1>0, <2>1, PlaceTypes
  <2>4. /\ Place(blks, k).key_blk \in Nat /\ Place(blks, k).data_blk \in Nat
        /\ Place(blks, k).key_blk < Place(blks, k).data_blk
    BY <2>3 DEF Places
  <2>5. EndOf(blks, k) <= ub /\ (Place(blks, k).key_blk = kb \/ EndOf(blks, k) <= kb)
    BY <2>2, <1>0 DEF Before
  <2> QED BY <2>3, <2>4, <2>5, Zenon
<1>2. kb \in Nat /\ ub \in Nat
  BY <1>0, PlaceFields
<1>3. ASSUME NEW k \in 1 .. n, NEW p \in Int, Place(blks, k).data_blk <= p, p < EndOf(blks, k)
      PROVE  p \in Nat /\ At(new, p) = At(blks, p)
  <2>1. p \in Nat /\ p # kb /\ p # ub
    BY <1>1, <1>2, <1>3
  <2> QED BY <2>1 DEF Unmoved
<1>4. ASSUME NEW k \in 1 .. n, Place(blks, k).key_blk # kb
      PROVE  At(new, Place(blks, k).key_blk) = At(blks, Place(blks, k).key_blk)
  <2>1. Place(blks, k).key_blk \in Nat /\ Place(blks, k).key_blk # ub
    BY <1>1, <1>2
  <2> QED BY <2>1, <1>4 DEF Unmoved
<1> QED BY <1>3, <1>4

\* the m keys and their places are as before,
LEMMA PlacesStay ==
  ASSUME NEW blks, NEW new, NEW n, NEW m, NEW kb, NEW ub, Unmoved(blks, new, n, m, kb, ub), NEW u, Good(blks, n, u)
  PROVE  /\ \A k \in 1 .. m + 1 : Place(new, k) = Place(blks, k)
         /\ \A k \in 1 .. m : /\ Slot(k) \in DOMAIN KeysOf(new, k) /\ Slot(k) \in DOMAIN KeysOf(blks, k)
                              /\ KeyOf(new, k) = KeyOf(blks, k) /\ EndOf(new, k) = EndOf(blks, k)
<1>0. blks \in Seq(FileBlocks) /\ new \in Seq(FileBlocks) /\ n \in Nat /\ m \in 0 .. n /\ m \in Nat
  BY DEF Unmoved
<1>1. ASSUME NEW k \in 1 .. m, Place(new, k) = Place(blks, k)
      PROVE  /\ Slot(k) \in DOMAIN KeysOf(new, k) /\ Slot(k) \in DOMAIN KeysOf(blks, k)
             /\ KeyOf(new, k) = KeyOf(blks, k) /\ EndOf(new, k) = EndOf(blks, k)
  <2>1. k \in 1 .. n /\ k \in 1 .. m
    BY <1>0
  <2>2. Slot(k) \in DOMAIN KeysOf(blks, k)
    BY <2>1 DEF Good, GoodKey
  <2>3. Slot(k) \in DOMAIN KeysOf(new, k) /\ KeyOf(new, k) = KeyOf(blks, k)
    <3>1. CASE Place(blks, k).key_blk = kb
      BY <2>1, <3>1, <1>1 DEF Unmoved, KeysOf, KeyOf
    <3>2. CASE Place(blks, k).key_blk # kb
      <4>1. At(new, Place(blks, k).key_blk) = At(blks, Place(blks, k).key_blk)
        BY <3>2, <2>1, DataStays
      <4> QED BY <4>1, <2>2, <1>1 DEF KeysOf, KeyOf
    <3> QED BY <3>1, <3>2
  <2> QED BY <2>2, <2>3, <1>1 DEF EndOf, SizeAt
<1> DEFINE S == {k \in Nat : k \in 1 .. m + 1 => Place(new, k) = Place(blks, k)}
<1>2. 0 \in S
  OBVIOUS
<1>3. ASSUME NEW k \in Nat, k \in S PROVE k + 1 \in S
  <2> SUFFICES ASSUME k + 1 \in 1 .. m + 1 PROVE Place(new, k + 1) = Place(blks, k + 1)
    OBVIOUS
  <2>1. CASE k = 0
    BY <2>1, PlaceIs
  <2>2. CASE k # 0
    <3>1. k \in 1 .. m /\ k \in 1 .. m + 1 /\ k \in Nat \ {0}
      BY <2>2, <1>0
    <3>2. Place(new, k) = Place(blks, k)
      BY <3>1, <1>3
    <3>3. EndOf(new, k) = EndOf(blks, k)
      BY <3>1, <3>2, <1>1
    <3>4. /\ Place(blks, k + 1) = IF Slot(k + 1) = 1 THEN [key_blk |-> EndOf(blks, k), data_blk |-> EndOf(blks, k) + 1]
                                  ELSE [key_blk |-> Place(blks, k).key_blk, data_blk |-> EndOf(blks, k)]
          /\ Place(new, k + 1) = IF Slot(k + 1) = 1 THEN [key_blk |-> EndOf(new, k), data_blk |-> EndOf(new, k) + 1]
                                 ELSE [key_blk |-> Place(new, k).key_blk, data_blk |-> EndOf(new, k)]
      BY <3>1, <1>0, PlaceStep
    <3> QED BY <3>2, <3>3, <3>4
  <2> QED BY <2>1, <2>2
<1>4. Nat \subseteq S
  BY <1>2, <1>3, SetInduction
<1>5. \A k \in 1 .. m + 1 : Place(new, k) = Place(blks, k)
  BY <1>4, <1>0
<1>6. \A k \in 1 .. m : Place(new, k) = Place(blks, k)
  BY <1>5, <1>0
<1> QED BY <1>1, <1>5, <1>6

\* and so is what they save.
LEMMA GoodStays ==
  ASSUME NEW blks, NEW new, NEW n, NEW m, NEW kb, NEW ub, Unmoved(blks, new, n, m, kb, ub), NEW u, Good(blks, n, u)
  PROVE  Good(new, m, u) /\ Covered(new, m) = Covered(blks, m)
<1>0. blks \in Seq(FileBlocks) /\ new \in Seq(FileBlocks) /\ n \in Nat /\ m \in 0 .. n /\ m \in Nat
  BY DEF Unmoved
<1>1. ASSUME NEW k \in 1 .. m PROVE GoodKey(new, k, u)
  <2>1. k \in 1 .. n /\ k \in 1 .. m /\ k \in 1 .. m + 1 /\ k \in Nat \ {0}
    BY <1>0
  <2>2. /\ Place(new, k) = Place(blks, k) /\ KeyOf(new, k) = KeyOf(blks, k)
        /\ Slot(k) \in DOMAIN KeysOf(new, k) /\ Slot(k) \in DOMAIN KeysOf(blks, k)
    BY <2>1, PlacesStay
  <2>3. GoodKey(blks, k, u)
    BY <2>1 DEF Good
  <2> DEFINE at == Place(blks, k).data_blk
             key == KeyOf(blks, k)
  <2>4. at \in Nat /\ key \in Keys /\ EndOf(blks, k) = at + Len(key.crc) /\ Len(key.crc) \in Nat
    <3>1. key \in Keys
      BY <2>1, <2>2, <1>0, SizeIs
    <3> QED BY <3>1, <2>1, <2>2, <1>0, PlaceTypes, BlockTypes DEF Places, EndOf, SizeAt
  <2>5. \A i \in 1 .. Len(key.crc) : key.fsblk + i - 1 \notin u.torn => At(new, at + i - 1).data = key.crc[i]
    <3> SUFFICES ASSUME NEW i \in 1 .. Len(key.crc), key.fsblk + i - 1 \notin u.torn PROVE At(new, at + i - 1).data = key.crc[i]
      OBVIOUS
    <3>1. at + i - 1 \in Int /\ at <= at + i - 1 /\ at + i - 1 < EndOf(blks, k)
      BY <2>4
    <3>2. At(new, at + i - 1) = At(blks, at + i - 1)
      BY <3>1, <2>1, DataStays
    <3>3. At(blks, at + i - 1).data = key.crc[i]
      BY <2>3 DEF GoodKey
    <3> QED BY <3>2, <3>3
  <2>6. BlocksOf(key) \subseteq u.torn \/ at + Len(key.crc) - 1 <= Len(new)
    <3>1. BlocksOf(key) \subseteq u.torn \/ at + Len(key.crc) - 1 <= Len(blks)
      BY <2>3 DEF GoodKey
    <3>2. Len(blks) <= Len(new) /\ Len(blks) \in Nat /\ Len(new) \in Nat
      BY <1>0 DEF Unmoved
    <3> QED BY <3>1, <3>2, <2>4
  <2> QED BY <2>2, <2>3, <2>5, <2>6 DEF GoodKey
<1>2. \A k \in 1 .. m : KeyOf(new, k) = KeyOf(blks, k)
  BY PlacesStay
<1> QED BY <1>1, <1>2 DEF Good, Covered

-----------------------------------------------------------------------------
(* Writes to the undo file. *)

\* A longer file reads the same.
LEMMA ExtendIs ==
  ASSUME NEW blks \in Seq(FileBlocks), NEW p \in Nat
  PROVE  /\ Extend(blks, p) \in Seq(FileBlocks) /\ Len(Extend(blks, p)) = IF p > Len(blks) THEN p ELSE Len(blks)
         /\ \A q : At(Extend(blks, p), q) = At(blks, q)
<1> DEFINE n == IF p > Len(blks) THEN p ELSE Len(blks)
           new == [q \in 1 .. n |-> IF q <= Len(blks) THEN blks[q] ELSE DataBlock(Nothing)]
<1>1. n \in Nat /\ Len(blks) \in Nat /\ Len(blks) <= n
  OBVIOUS
<1>2. new = Extend(blks, p)
  BY DEF Extend
<1>3. \A q \in 1 .. n : new[q] \in FileBlocks
  <2> HIDE DEF FileBlocks
  <2> QED BY <1>1, BlockTypes
<1>4. new \in Seq(FileBlocks) /\ Len(new) = n
  <2>1. new \in [1 .. n -> FileBlocks]
    BY <1>3
  <2> HIDE DEF new, n, FileBlocks
  <2> QED BY <2>1, <1>1
<1>5. \A q : At(new, q) = At(blks, q)
  BY <1>1, <1>4 DEF At
<1> QED BY <1>2, <1>4, <1>5

\* What a write of one block changes.
LEMMA PutIs ==
  ASSUME NEW blks \in Seq(FileBlocks), NEW at \in Nat \ {0}, NEW blk \in FileBlocks
  PROVE  /\ Put(blks, [at |-> at, blk |-> blk]) \in Seq(FileBlocks)
         /\ Len(blks) <= Len(Put(blks, [at |-> at, blk |-> blk])) /\ at <= Len(Put(blks, [at |-> at, blk |-> blk]))
         /\ \A q : At(Put(blks, [at |-> at, blk |-> blk]), q) = IF q = at THEN blk ELSE At(blks, q)
<1> DEFINE long == Extend(blks, at)
           new == [long EXCEPT ![at] = blk]
<1>1. long \in Seq(FileBlocks) /\ at \in 1 .. Len(long) /\ Len(blks) <= Len(long) /\ \A q : At(long, q) = At(blks, q)
  BY ExtendIs
<1>2. Put(blks, [at |-> at, blk |-> blk]) = new
  BY DEF Put
<1> HIDE DEF long
<1>3. new \in Seq(FileBlocks) /\ Len(new) = Len(long) /\ \A q \in 1 .. Len(long) : new[q] = IF q = at THEN blk ELSE long[q]
  <2> HIDE DEF FileBlocks
  <2> QED BY <1>1
<1>4. \A q : At(new, q) = IF q = at THEN blk ELSE At(long, q)
  BY <1>1, <1>3 DEF At
<1>5. Len(blks) <= Len(new) /\ at <= Len(new)
  BY <1>1, <1>3
<1> HIDE DEF new
<1> QED BY <1>1, <1>2, <1>3, <1>4, <1>5

\* What writing none, one and two cached blocks gives.
LEMMA FlushedIs ==
  ASSUME NEW blks, NEW a, NEW b
  PROVE  /\ Flushed(blks, <<>>) = blks
         /\ Flushed(blks, <<a>>) = Put(blks, a)
         /\ Flushed(blks, <<a, b>>) = Put(Put(blks, a), b)
BY DEF Flushed

\* The keys of one key block are in the order of their slots.
LEMMA GroupSlots ==
  ASSUME NEW blks \in Seq(FileBlocks)
  PROVE  \A k \in Nat : \A j \in 1 .. k - 1 : Place(blks, j).key_blk = Place(blks, k).key_blk => Slot(j) < Slot(k)
<1> DEFINE S == {k \in Nat : \A j \in 1 .. k - 1 : Place(blks, j).key_blk = Place(blks, k).key_blk => Slot(j) < Slot(k)}
<1>1. 0 \in S
  OBVIOUS
<1>2. ASSUME NEW k \in Nat, k \in S PROVE k + 1 \in S
  <2> SUFFICES ASSUME NEW j \in 1 .. k, Place(blks, j).key_blk = Place(blks, k + 1).key_blk PROVE Slot(j) < Slot(k + 1)
    OBVIOUS
  <2>0. k \in Nat \ {0} /\ j \in Nat \ {0}
    OBVIOUS
  <2>1. Place(blks, k + 1) = IF Slot(k + 1) = 1 THEN [key_blk |-> EndOf(blks, k), data_blk |-> EndOf(blks, k) + 1]
                             ELSE [key_blk |-> Place(blks, k).key_blk, data_blk |-> EndOf(blks, k)]
    BY <2>0, PlaceStep
  <2>2. Slot(k + 1) # 1
    <3> SUFFICES ASSUME Slot(k + 1) = 1 PROVE FALSE
      OBVIOUS
    <3>1. Place(blks, j).key_blk = EndOf(blks, k)
      BY <2>1
    <3>2. j # k => EndOf(blks, j) <= Place(blks, k).data_blk
      BY PlaceOrder DEF Before
    <3>3. /\ Place(blks, j).key_blk \in Nat /\ Place(blks, j).data_blk \in Nat /\ EndOf(blks, j) \in Nat
          /\ Place(blks, j).key_blk < Place(blks, j).data_blk /\ Place(blks, j).data_blk <= EndOf(blks, j)
          /\ Place(blks, k).data_blk \in Nat /\ EndOf(blks, k) \in Nat /\ Place(blks, k).data_blk <= EndOf(blks, k)
      BY <2>0, PlaceFields
    <3> QED BY <3>1, <3>2, <3>3
  <2>3. Place(blks, j).key_blk = Place(blks, k).key_blk /\ Slot(k + 1) = Slot(k) + 1 /\ Slot(k) \in Nat /\ Slot(j) \in Nat
    <3>1. Place(blks, k + 1).key_blk = Place(blks, k).key_blk
      BY <2>1, <2>2
    <3>2. Slot(k) \in 1 .. KeysPerBlock /\ Slot(j) \in 1 .. KeysPerBlock
      BY <2>0, SlotRange
    <3>3. Slot(k + 1) = Slot(k) + 1
      BY <2>0, <2>2, SlotStep
    <3> QED BY <3>1, <3>2, <3>3, UndoAssumption
  <2>4. CASE j = k
    BY <2>3, <2>4
  <2>5. CASE j # k
    <3>1. Slot(j) < Slot(k)
      BY <1>2, <2>3, <2>5
    <3> QED BY <3>1, <2>3
  <2> QED BY <2>4, <2>5
<1>3. Nat \subseteq S
  BY <1>1, <1>2, SetInduction
<1> QED BY <1>3

-----------------------------------------------------------------------------
(* Saving a block. *)

\* What undo_write_tdb starts from.
Saves(blks, n, kb, ub, keyb, b, old, u) ==
  /\ blks \in Seq(FileBlocks) /\ n \in Nat /\ Good(blks, n, u)
  /\ keyb \in Seq(Keys) /\ AtNext(blks, n, kb, ub, keyb)
  /\ b \in Blocks /\ old \in Contents /\ (b \notin u.unread => old = Original)

\* The types of what it handles.
SavesFacts(n, kb, ub, keyb, b, old) ==
  /\ kb \in Nat \ {0} /\ ub \in Nat \ {0} /\ kb < ub
  /\ Key(b, <<old>>) \in Keys /\ Key(b, <<old>>).crc = <<old>> /\ Key(b, <<old>>).fsblk = b
  /\ DataBlock(old) \in FileBlocks /\ DataBlock(old).data = old
  /\ n + 1 \in Nat \ {0} /\ Len(keyb) \in Nat /\ Slot(n + 1) \in Nat /\ Len(keyb) + 1 = Slot(n + 1)
  /\ Slot(n + 1) <= KeysPerBlock /\ KeysPerBlock \in Nat /\ b \in Nat

\* They follow.
LEMMA SavesTypes ==
  ASSUME NEW blks, NEW n, NEW kb, NEW ub, NEW keyb, NEW b, NEW old, NEW u,
         Saves(blks, n, kb, ub, keyb, b, old, u)
  PROVE  SavesFacts(n, kb, ub, keyb, b, old)
<1>0. blks \in Seq(FileBlocks) /\ n \in Nat /\ n + 1 \in Nat \ {0} /\ keyb \in Seq(Keys) /\ old \in Contents /\ b \in Nat /\ KeysPerBlock \in Nat
  BY UndoAssumption DEF Saves, Blocks
<1>1. kb \in Nat \ {0} /\ ub \in Nat \ {0} /\ kb < ub
  BY <1>0, PlaceFields DEF Saves, AtNext
<1>2. Key(b, <<old>>) \in Keys /\ Key(b, <<old>>).crc = <<old>> /\ Key(b, <<old>>).fsblk = b
  BY <1>0 DEF Key, Keys
<1>3. DataBlock(old) \in FileBlocks /\ DataBlock(old).data = old
  <2>1. <<>> \in Seq(Keys)
    OBVIOUS
  <2> QED BY <2>1, <1>0 DEF DataBlock, FileBlocks
<1>5. Slot(n + 1) \in 1 .. KeysPerBlock /\ Len(keyb) = Slot(n + 1) - 1 /\ Len(keyb) \in Nat
  BY <1>0, SlotRange DEF Saves, AtNext
<1> QED BY <1>0, <1>1, <1>2, <1>3, <1>5 DEF SavesFacts

\* A key block that is not overfull holds its keys.
LEMMA KeyBlockIs ==
  ASSUME NEW keys \in Seq(Keys), Len(keys) <= KeysPerBlock
  PROVE  KeyBlockOf(keys) \in FileBlocks /\ KeyBlockOf(keys).keys = keys
<1>1. SubSeq(keys, 1, Len(keys)) = keys
  <2> HIDE DEF Keys
  <2> QED OBVIOUS
<1>2. Len(keys) \in Nat /\ ~(Len(keys) > KeysPerBlock)
  BY UndoAssumption
<1>3. (IF Len(keys) > KeysPerBlock THEN KeysPerBlock ELSE Len(keys)) = Len(keys)
  BY <1>2
<1>4. KeyBlockOf(keys) = KeyBlock(keys)
  BY <1>1, <1>3 DEF KeyBlockOf
<1> QED BY <1>4 DEF KeyBlock, FileBlocks

\* The block with the old contents is written first, and changes nothing.
LEMMA SaveData ==
  ASSUME NEW blks, NEW n, NEW kb, NEW ub, NEW keyb, NEW b, NEW old, NEW u,
         Saves(blks, n, kb, ub, keyb, b, old, u),
         NEW X, X = Put(blks, [at |-> ub, blk |-> DataBlock(old)])
  PROVE  /\ X \in Seq(FileBlocks) /\ \A q : At(X, q) = IF q = ub THEN DataBlock(old) ELSE At(blks, q)
         /\ Len(blks) <= Len(X) /\ ub <= Len(X)
         /\ Good(X, n, u) /\ Covered(X, n) = Covered(blks, n)
<1>0. kb \in Nat \ {0} /\ ub \in Nat \ {0} /\ kb < ub /\ DataBlock(old) \in FileBlocks
  BY SavesTypes DEF SavesFacts
<1>1. blks \in Seq(FileBlocks) /\ n \in Nat /\ Good(blks, n, u)
      /\ kb = Place(blks, n + 1).key_blk /\ ub = Place(blks, n + 1).data_blk
  BY DEF Saves, AtNext
<1>2. /\ X \in Seq(FileBlocks) /\ \A q : At(X, q) = IF q = ub THEN DataBlock(old) ELSE At(blks, q)
      /\ Len(blks) <= Len(X) /\ ub <= Len(X)
  BY <1>0, <1>1, PutIs
<1>3. \A p \in Nat : p # kb /\ p # ub => At(X, p) = At(blks, p)
  BY <1>2
<1>4. At(X, kb) = At(blks, kb)
  BY <1>0, <1>2
<1>5. \A k \in 1 .. n : Place(blks, k).key_blk = kb =>
        /\ Slot(k) \in DOMAIN At(X, kb).keys
        /\ At(X, kb).keys[Slot(k)] = At(blks, kb).keys[Slot(k)]
  BY <1>1, <1>4 DEF Good, GoodKey, KeysOf
<1>6. n \in 0 .. n
  BY <1>1
<1>7. Unmoved(blks, X, n, n, kb, ub)
  BY <1>1, <1>2, <1>3, <1>5, <1>6 DEF Unmoved
<1> QED BY <1>1, <1>2, <1>7, GoodStays

\* What the two writes of undo_write_tdb have done when both are in the file.
SavedKeys(blks, n, more, Y, u, b, kb, ub, keys) ==
  /\ Y \in Seq(FileBlocks) /\ keys \in Seq(Keys)
  /\ Good(Y, n, u) /\ Covered(blks, n) \subseteq Covered(Y, n) /\ Covered(Y, n) \subseteq Covered(blks, n) \cup {b}
  /\ Good(Y, more, u) /\ Covered(Y, more) = Covered(blks, n) \cup {b}
  /\ AtLast(Y, more, kb, ub + 1, keys)

\* One more key covers its blocks as well.
LEMMA CoveredNext ==
  ASSUME NEW blks, NEW n \in Nat
  PROVE  Covered(blks, n + 1) = Covered(blks, n) \cup BlocksOf(KeyOf(blks, n + 1))
<1>1. 1 .. n + 1 = (1 .. n) \cup {n + 1}
  OBVIOUS
<1> QED BY <1>1 DEF Covered

\* The key block is written, and nothing else but its data.
WrittenKeys(blks, Y, kb, ub, keys) ==
  /\ Y \in Seq(FileBlocks) /\ Len(blks) <= Len(Y) /\ At(Y, kb).keys = keys
  /\ \A q : q # kb /\ q # ub => At(Y, q) = At(blks, q)

\* Both blocks are written.
WrittenBoth(blks, Y, kb, ub, keys, old) ==
  WrittenKeys(blks, Y, kb, ub, keys) /\ At(Y, ub).data = old /\ ub <= Len(Y)

\* What the two writes give.
LEMMA TwoWrites ==
  ASSUME NEW blks, NEW n, NEW kb, NEW ub, NEW keyb, NEW b, NEW old, NEW u,
         Saves(blks, n, kb, ub, keyb, b, old, u), NEW keys \in Seq(Keys), Len(keys) <= KeysPerBlock,
         NEW X, X = Put(blks, [at |-> ub, blk |-> DataBlock(old)]),
         NEW Y, Y = Put(X, [at |-> kb, blk |-> KeyBlockOf(keys)])
  PROVE  WrittenBoth(blks, Y, kb, ub, keys, old)
<1>0. kb \in Nat \ {0} /\ ub \in Nat \ {0} /\ kb < ub /\ DataBlock(old).data = old
  <2>1. SavesFacts(n, kb, ub, keyb, b, old)
    BY SavesTypes
  <2> QED BY <2>1 DEF SavesFacts
<1>a. KeyBlockOf(keys) \in FileBlocks /\ KeyBlockOf(keys).keys = keys
  BY KeyBlockIs
<1>1. /\ X \in Seq(FileBlocks) /\ \A q : At(X, q) = IF q = ub THEN DataBlock(old) ELSE At(blks, q)
      /\ Len(blks) <= Len(X) /\ ub <= Len(X)
  BY SaveData
<1>2. /\ Y \in Seq(FileBlocks) /\ \A q : At(Y, q) = IF q = kb THEN KeyBlockOf(keys) ELSE At(X, q)
      /\ Len(X) <= Len(Y)
  BY <1>0, <1>a, <1>1, PutIs
<1>3. kb # ub
  BY <1>0
<1>4. Len(blks) <= Len(Y) /\ ub <= Len(Y)
  <2>1. Len(blks) \in Nat /\ Len(X) \in Nat /\ Len(Y) \in Nat
    BY <1>1, <1>2 DEF Saves
  <2> QED BY <2>1, <1>0, <1>1, <1>2
<1> QED BY <1>0, <1>a, <1>1, <1>2, <1>3, <1>4 DEF WrittenBoth, WrittenKeys

\* What the key block alone gives.
LEMMA OneWrite ==
  ASSUME NEW blks, NEW n, NEW kb, NEW ub, NEW keyb, NEW b, NEW old, NEW u,
         Saves(blks, n, kb, ub, keyb, b, old, u), NEW keys \in Seq(Keys), Len(keys) <= KeysPerBlock,
         NEW Z, Z = Put(blks, [at |-> kb, blk |-> KeyBlockOf(keys)])
  PROVE  WrittenKeys(blks, Z, kb, ub, keys)
<1>0. kb \in Nat \ {0}
  <2>1. SavesFacts(n, kb, ub, keyb, b, old)
    BY SavesTypes
  <2> QED BY <2>1 DEF SavesFacts
<1>1. KeyBlockOf(keys) \in FileBlocks /\ KeyBlockOf(keys).keys = keys
  BY KeyBlockIs
<1>2. blks \in Seq(FileBlocks)
  BY DEF Saves
<1>3. /\ Z \in Seq(FileBlocks) /\ Len(blks) <= Len(Z)
      /\ \A q : At(Z, q) = IF q = kb THEN KeyBlockOf(keys) ELSE At(blks, q)
  BY <1>0, <1>1, <1>2, PutIs
<1> QED BY <1>1, <1>3 DEF WrittenKeys

\* What Append returns.
LEMMA Appended ==
  ASSUME NEW S, NEW s \in Seq(S), NEW e \in S
  PROVE  /\ Append(s, e) \in Seq(S) /\ Len(Append(s, e)) = Len(s) + 1 /\ Append(s, e)[Len(s) + 1] = e
         /\ Append(s, e) # <<>> /\ \A i \in 1 .. Len(s) : Append(s, e)[i] = s[i]
OBVIOUS

\* An interval grows by one.
LEMMA IntervalNext ==
  ASSUME NEW f \in Int, NEW l \in Nat
  PROVE  f .. f + (l + 1) - 1 = (f .. f + l - 1) \cup {f + l}
OBVIOUS

\* Block b gets a key of its own: the keys of its block
AppendedTo(keys, n, keyb, b, old) ==
  /\ keys \in Seq(Keys) /\ Len(keys) = Slot(n + 1) /\ Len(keys) <= KeysPerBlock
  /\ keys[Slot(n + 1)] = Key(b, <<old>>)
  /\ \A i \in 1 .. Len(keyb) : keys[i] = keyb[i]

\* are the old ones and the new one,
LEMMA AppendedKeys ==
  ASSUME NEW blks, NEW n, NEW kb, NEW ub, NEW keyb, NEW b, NEW old, NEW u,
         Saves(blks, n, kb, ub, keyb, b, old, u), ~Extends(keyb, b)
  PROVE  AppendedTo(Keyed(keyb, b, old), n, keyb, b, old)
<1> DEFINE keys == Keyed(keyb, b, old)
           key == Key(b, <<old>>)
<1>0. /\ key \in Keys /\ Len(keyb) \in Nat /\ Slot(n + 1) \in Nat /\ Len(keyb) + 1 = Slot(n + 1)
      /\ Slot(n + 1) <= KeysPerBlock
  <2>1. SavesFacts(n, kb, ub, keyb, b, old)
    BY SavesTypes
  <2> QED BY <2>1 DEF SavesFacts
<1>1. keyb \in Seq(Keys)
  BY DEF Saves
<1>2. keys = Append(keyb, key)
  BY DEF Keyed
<1> HIDE DEF key, keys, Keys
<1>3. /\ keys \in Seq(Keys) /\ Len(keys) = Slot(n + 1) /\ keys[Slot(n + 1)] = key
      /\ \A i \in 1 .. Len(keyb) : keys[i] = keyb[i]
  BY <1>0, <1>1, <1>2
<1> QED BY <1>0, <1>3 DEF key, keys, AppendedTo

\* and with them written the keys before it are where they were.
LEMMA AppendUnmoved ==
  ASSUME NEW blks, NEW n, NEW kb, NEW ub, NEW keyb, NEW b, NEW old, NEW u,
         Saves(blks, n, kb, ub, keyb, b, old, u), ~Extends(keyb, b),
         NEW Y, WrittenKeys(blks, Y, kb, ub, Keyed(keyb, b, old))
  PROVE  Unmoved(blks, Y, n, n, kb, ub)
<1> DEFINE keys == Keyed(keyb, b, old)
<1>0. /\ n + 1 \in Nat \ {0} /\ Len(keyb) \in Nat /\ Slot(n + 1) \in Nat /\ Len(keyb) + 1 = Slot(n + 1)
      /\ KeysPerBlock \in Nat
  <2>1. SavesFacts(n, kb, ub, keyb, b, old)
    BY SavesTypes
  <2> QED BY <2>1 DEF SavesFacts
<1>1. /\ blks \in Seq(FileBlocks) /\ n \in Nat /\ Good(blks, n, u) /\ keyb \in Seq(Keys)
      /\ kb = Place(blks, n + 1).key_blk /\ ub = Place(blks, n + 1).data_blk /\ Begins(blks, kb, keyb)
  BY DEF Saves, AtNext
<1>2. AppendedTo(keys, n, keyb, b, old)
  BY AppendedKeys
<1>3. keys \in Seq(Keys) /\ Len(keys) = Slot(n + 1) /\ \A i \in 1 .. Len(keyb) : keys[i] = keyb[i]
  BY <1>2 DEF AppendedTo
<1>4. /\ Y \in Seq(FileBlocks) /\ Len(blks) <= Len(Y) /\ At(Y, kb).keys = keys
      /\ \A q : q # kb /\ q # ub => At(Y, q) = At(blks, q)
  BY DEF WrittenKeys
<1> HIDE DEF keys
<1>5. ASSUME NEW k \in 1 .. n, Place(blks, k).key_blk = kb
      PROVE  /\ Slot(k) \in DOMAIN At(Y, kb).keys
             /\ At(Y, kb).keys[Slot(k)] = At(blks, kb).keys[Slot(k)]
  <2>1. k \in 1 .. (n + 1) - 1 /\ k \in Nat \ {0}
    BY <1>1
  <2>2. Slot(k) < Slot(n + 1)
    BY <2>1, <1>1, <1>5, GroupSlots
  <2>3. Slot(k) \in 1 .. KeysPerBlock
    BY <2>1, SlotRange
  <2>4. Slot(k) \in 1 .. Len(keyb)
    BY <2>2, <2>3, <1>0
  <2>5. At(blks, kb).keys[Slot(k)] = keyb[Slot(k)]
    BY <2>4, <1>1 DEF Begins
  <2>6. keys[Slot(k)] = keyb[Slot(k)] /\ Slot(k) \in DOMAIN keys
    BY <2>4, <1>0, <1>3
  <2> QED BY <2>5, <2>6, <1>4
<1>6. n \in 0 .. n
  BY <1>1
<1> QED BY <1>1, <1>4, <1>5, <1>6 DEF Unmoved

\* The case in which block b gets a key of its own.
LEMMA AppendKey ==
  ASSUME NEW blks, NEW n, NEW kb, NEW ub, NEW keyb, NEW b, NEW old, NEW u,
         Saves(blks, n, kb, ub, keyb, b, old, u), ~Extends(keyb, b),
         NEW X, X = Put(blks, [at |-> ub, blk |-> DataBlock(old)]),
         NEW Y, Y = Put(X, [at |-> kb, blk |-> KeyBlockOf(Keyed(keyb, b, old))])
  PROVE  SavedKeys(blks, n, n + 1, Y, u, b, kb, ub, Keyed(keyb, b, old))
<1> DEFINE keys == Keyed(keyb, b, old)
           key == Key(b, <<old>>)
<1>0. /\ ub \in Nat \ {0} /\ key.crc = <<old>> /\ key.fsblk = b
      /\ n + 1 \in Nat \ {0} /\ Slot(n + 1) \in Nat /\ b \in Nat /\ Len(keyb) \in Nat /\ Len(keyb) + 1 = Slot(n + 1)
  <2>1. SavesFacts(n, kb, ub, keyb, b, old)
    BY SavesTypes
  <2> QED BY <2>1 DEF SavesFacts
<1>1. /\ blks \in Seq(FileBlocks) /\ n \in Nat /\ Good(blks, n, u)
      /\ kb = Place(blks, n + 1).key_blk /\ ub = Place(blks, n + 1).data_blk
      /\ b \in Blocks /\ (b \notin u.unread => old = Original)
  BY DEF Saves, AtNext
<1>2. AppendedTo(keys, n, keyb, b, old)
  BY AppendedKeys
<1>3. keys \in Seq(Keys) /\ Len(keys) = Slot(n + 1) /\ Len(keys) <= KeysPerBlock /\ keys[Slot(n + 1)] = key
  BY <1>2 DEF AppendedTo
<1>b. WrittenBoth(blks, Y, kb, ub, keys, old)
  BY <1>3, TwoWrites
<1>4. Y \in Seq(FileBlocks) /\ At(Y, kb).keys = keys /\ At(Y, ub).data = old /\ ub <= Len(Y)
  BY <1>b DEF WrittenBoth, WrittenKeys
<1>6. Unmoved(blks, Y, n, n, kb, ub)
  BY <1>b, AppendUnmoved DEF WrittenBoth
<1> HIDE DEF key, keys
<1>7. Good(Y, n, u) /\ Covered(Y, n) = Covered(blks, n)
  BY <1>1, <1>6, GoodStays
<1>8. Place(Y, n + 1) = Place(blks, n + 1)
  <2>1. n + 1 \in 1 .. n + 1
    BY <1>1
  <2> QED BY <2>1, <1>1, <1>6, PlacesStay
<1>9. KeysOf(Y, n + 1) = keys /\ KeyOf(Y, n + 1) = key /\ Slot(n + 1) \in DOMAIN KeysOf(Y, n + 1)
  BY <1>0, <1>1, <1>3, <1>4, <1>8 DEF KeysOf, KeyOf
<1>10. Len(key.crc) = 1 /\ key.crc[1] = old /\ key.crc # <<>> /\ BlocksOf(key) = {b}
  BY <1>0 DEF BlocksOf
<1>11. GoodKey(Y, n + 1, u)
  <2>1. ASSUME NEW i \in 1 .. Len(key.crc)
        PROVE  /\ At(Y, Place(Y, n + 1).data_blk + i - 1).data = key.crc[i]
               /\ key.fsblk + i - 1 \notin u.unread => key.crc[i] = Original
    <3>1. i = 1 /\ ub + i - 1 = ub /\ b + i - 1 = b
      BY <1>0, <1>10
    <3> QED BY <3>1, <1>0, <1>1, <1>4, <1>8, <1>10
  <2>2. Place(Y, n + 1).data_blk + Len(key.crc) - 1 <= Len(Y)
    <3>1. ub + 1 - 1 = ub
      BY <1>0
    <3> QED BY <3>1, <1>1, <1>4, <1>8, <1>10
  <2>3. BlocksOf(key) \subseteq Blocks
    BY <1>1, <1>10
  <2> QED BY <2>1, <2>2, <2>3, <1>9, <1>10 DEF GoodKey
<1>12. Good(Y, n + 1, u)
  <2>1. \A k \in 1 .. n + 1 : k \in 1 .. n \/ k = n + 1
    BY <1>1
  <2> QED BY <2>1, <1>7, <1>11 DEF Good
<1>13. Covered(Y, n + 1) = Covered(blks, n) \cup {b}
  BY <1>1, <1>7, <1>9, <1>10, CoveredNext
<1>14. AtLast(Y, n + 1, kb, ub + 1, keys)
  <2>1. EndOf(Y, n + 1) = ub + 1
    BY <1>1, <1>8, <1>9, <1>10 DEF EndOf, SizeAt
  <2>2. Begins(Y, kb, keys)
    BY <1>3, <1>4 DEF Begins
  <2> QED BY <2>1, <2>2, <1>0, <1>1, <1>3, <1>8 DEF AtLast
<1> QED BY <1>3, <1>4, <1>7, <1>12, <1>13, <1>14 DEF SavedKeys, keys

\* Block b extends the last key, which the header on the disk already counts: its key,
Longer(keyb, old) == [fsblk |-> keyb[Len(keyb)].fsblk, crc |-> Append(keyb[Len(keyb)].crc, old)]

\* the keys of its block
LengthenedTo(keys, key, last, keyb, b, old) ==
  /\ keys \in Seq(Keys) /\ Len(keys) = Len(keyb) /\ Len(keys) <= KeysPerBlock /\ keys[Len(keyb)] = key
  /\ DOMAIN keys = 1 .. Len(keyb) /\ \A i \in 1 .. Len(keyb) - 1 : keys[i] = keyb[i]
  /\ Len(keyb) \in 1 .. Len(keyb) /\ last \in Keys /\ last.fsblk \in Int /\ Len(last.crc) \in Nat
  /\ last.fsblk + Len(last.crc) = b /\ key.fsblk = last.fsblk
  /\ Len(key.crc) = Len(last.crc) + 1 /\ key.crc[Len(last.crc) + 1] = old /\ key.crc # <<>>
  /\ \A i \in 1 .. Len(last.crc) : key.crc[i] = last.crc[i]

\* are the old ones, the last one longer,
LEMMA ExtendedKeys ==
  ASSUME NEW blks, NEW n, NEW kb, NEW ub, NEW keyb, NEW b, NEW old, NEW u,
         Saves(blks, n, kb, ub, keyb, b, old, u), Extends(keyb, b)
  PROVE  LengthenedTo(Keyed(keyb, b, old), Longer(keyb, old), keyb[Len(keyb)], keyb, b, old)
<1> DEFINE keys == Keyed(keyb, b, old)
           last == keyb[Len(keyb)]
           crc == Append(last.crc, old)
           key == [fsblk |-> last.fsblk, crc |-> crc]
           L == Len(last.crc)
<1>0. Len(keyb) \in Nat /\ Slot(n + 1) \in Nat /\ Len(keyb) + 1 = Slot(n + 1) /\ Slot(n + 1) <= KeysPerBlock /\ KeysPerBlock \in Nat
  <2>1. SavesFacts(n, kb, ub, keyb, b, old)
    BY SavesTypes
  <2> QED BY <2>1 DEF SavesFacts
<1>1. keyb \in Seq(Keys) /\ old \in Contents
  BY DEF Saves
<1>2. /\ keys = [keyb EXCEPT ![Len(keyb)].crc = Append(@, old)]
      /\ keyb # <<>> /\ last.fsblk + L = b
  BY DEF Keyed, Extends, Size
<1>3. Len(keyb) \in 1 .. Len(keyb) /\ last \in Keys
  <2> HIDE DEF Keys
  <2> QED BY <1>1, <1>2
<1>k. key = Longer(keyb, old)
  BY DEF Longer
<1> HIDE DEF last
<1>4. /\ last.fsblk \in Int /\ last.crc \in Seq(Contents) /\ L \in Nat
      /\ last = [fsblk |-> last.fsblk, crc |-> last.crc]
  BY <1>3 DEF Keys
<1>5. crc \in Seq(Contents) /\ Len(crc) = L + 1 /\ crc[L + 1] = old /\ crc # <<>> /\ \A i \in 1 .. L : crc[i] = last.crc[i]
  <2> HIDE DEF Contents
  <2> QED BY <1>1, <1>4, Appended
<1> HIDE DEF crc, L
<1>6. key \in Keys /\ key.crc = crc /\ key.fsblk = last.fsblk /\ [last EXCEPT !.crc = crc] = key
  BY <1>4, <1>5 DEF Keys
<1>7. keys = [keyb EXCEPT ![Len(keyb)] = key]
  BY <1>2, <1>6 DEF crc, last
<1> HIDE DEF keys, key
<1>8. /\ keys \in Seq(Keys) /\ Len(keys) = Len(keyb) /\ keys[Len(keyb)] = key
      /\ DOMAIN keys = 1 .. Len(keyb) /\ \A i \in 1 .. Len(keyb) - 1 : keys[i] = keyb[i]
  <2> HIDE DEF Keys
  <2> QED BY <1>1, <1>3, <1>6, <1>7
<1>9. Len(keys) <= KeysPerBlock
  BY <1>0, <1>8
<1> QED BY <1>2, <1>3, <1>4, <1>5, <1>6, <1>8, <1>9, <1>k DEF keys, last, L, LengthenedTo

\* and what its writing does to the file, whether its data are written or not.
ExtendedTo(blks, n, Y, u, b, kb, ub, keyb, old) ==
  /\ n \in Nat \ {0} /\ kb = Place(blks, n).key_blk
  /\ GoodKey(blks, n, u) /\ KeyOf(blks, n) = keyb[Len(keyb)]
  /\ Place(blks, n).data_blk \in Nat /\ ub = Place(blks, n).data_blk + Len(keyb[Len(keyb)].crc)
  /\ Good(Y, n - 1, u) /\ Place(Y, n) = Place(blks, n)
  /\ KeyOf(Y, n) = Longer(keyb, old) /\ Slot(n) \in DOMAIN KeysOf(Y, n) /\ BlocksOf(Longer(keyb, old)) \subseteq Blocks
  /\ \A i \in 1 .. Len(keyb[Len(keyb)].crc) :
       At(Y, Place(blks, n).data_blk + i - 1) = At(blks, Place(blks, n).data_blk + i - 1)
  /\ Covered(Y, n) = Covered(blks, n) \cup {b}
  /\ AtLast(Y, n, kb, ub + 1, Keyed(keyb, b, old))

\* It leaves the keys before it alone, and its own place and blocks.
LEMMA ExtendPlaces ==
  ASSUME NEW blks, NEW n, NEW kb, NEW ub, NEW keyb, NEW b, NEW old, NEW u,
         Saves(blks, n, kb, ub, keyb, b, old, u), Extends(keyb, b),
         NEW Y, WrittenKeys(blks, Y, kb, ub, Keyed(keyb, b, old))
  PROVE  ExtendedTo(blks, n, Y, u, b, kb, ub, keyb, old)
<1> DEFINE keys == Keyed(keyb, b, old)
           last == keyb[Len(keyb)]
           key == Longer(keyb, old)
           L == Len(last.crc)
<1>0. /\ n + 1 \in Nat \ {0} /\ Len(keyb) \in Nat /\ Slot(n + 1) \in Nat /\ Len(keyb) + 1 = Slot(n + 1)
      /\ KeysPerBlock \in Nat
  <2>1. SavesFacts(n, kb, ub, keyb, b, old)
    BY SavesTypes
  <2> QED BY <2>1 DEF SavesFacts
<1>1. /\ blks \in Seq(FileBlocks) /\ n \in Nat /\ Good(blks, n, u) /\ keyb \in Seq(Keys)
      /\ kb = Place(blks, n + 1).key_blk /\ ub = Place(blks, n + 1).data_blk
      /\ Begins(blks, kb, keyb) /\ b \in Blocks
  BY DEF Saves, AtNext
<1>8. /\ keys \in Seq(Keys) /\ Len(keys) = Len(keyb) /\ keys[Len(keyb)] = key
      /\ DOMAIN keys = 1 .. Len(keyb) /\ \A i \in 1 .. Len(keyb) - 1 : keys[i] = keyb[i]
      /\ Len(keyb) \in 1 .. Len(keyb) /\ last.fsblk \in Int /\ L \in Nat /\ last.fsblk + L = b
      /\ key.fsblk = last.fsblk /\ Len(key.crc) = L + 1
  <2>1. LengthenedTo(keys, key, last, keyb, b, old)
    BY ExtendedKeys
  <2> QED BY <2>1 DEF LengthenedTo
<1>14. /\ Y \in Seq(FileBlocks) /\ Len(blks) <= Len(Y) /\ At(Y, kb).keys = keys
       /\ \A q : q # kb /\ q # ub => At(Y, q) = At(blks, q)
  BY DEF WrittenKeys
<1> HIDE DEF keys, last, key, L
\* The last key is key n.
<1>9. n \in Nat \ {0} /\ Slot(n) = Len(keyb) /\ Slot(n + 1) # 1
  <2>1. Slot(n + 1) # 1
    BY <1>0, <1>8
  <2>2. n # 0
    BY <2>1, SlotRange
  <2>3. n \in Nat \ {0}
    BY <2>2, <1>1
  <2>4. Slot(n + 1) = Slot(n) + 1 /\ Slot(n) \in 1 .. KeysPerBlock
    BY <2>1, <2>3, SlotStep, SlotRange
  <2> QED BY <2>1, <2>3, <2>4, <1>0
<1>10. kb = Place(blks, n).key_blk /\ ub = EndOf(blks, n)
  <2>1. Place(blks, n + 1) = IF Slot(n + 1) = 1 THEN [key_blk |-> EndOf(blks, n), data_blk |-> EndOf(blks, n) + 1]
                             ELSE [key_blk |-> Place(blks, n).key_blk, data_blk |-> EndOf(blks, n)]
    BY <1>1, <1>9, PlaceStep
  <2> QED BY <2>1, <1>1, <1>9
<1>11. n \in 1 .. n /\ n - 1 \in 0 .. n /\ n - 1 \in Nat /\ (n - 1) + 1 = n
  BY <1>9
<1>12. GoodKey(blks, n, u) /\ KeyOf(blks, n) = last
  <2>1. KeyOf(blks, n) = At(blks, kb).keys[Len(keyb)]
    BY <1>9, <1>10 DEF KeyOf, KeysOf
  <2> QED BY <2>1, <1>1, <1>8, <1>11 DEF Good, Begins, last
<1>13. ub = Place(blks, n).data_blk + L /\ Place(blks, n).data_blk \in Nat
  <2>1. SizeAt(blks, n) = L
    BY <1>12 DEF SizeAt, GoodKey, L
  <2> QED BY <2>1, <1>1, <1>9, <1>10, PlaceFields DEF EndOf
<1>15. ASSUME NEW k \in 1 .. n - 1, Place(blks, k).key_blk = kb
       PROVE  /\ Slot(k) \in DOMAIN At(Y, kb).keys
              /\ At(Y, kb).keys[Slot(k)] = At(blks, kb).keys[Slot(k)]
  <2>1. k \in Nat \ {0} /\ n \in Nat
    BY <1>9
  <2>2. Slot(k) < Slot(n)
    BY <2>1, <1>1, <1>10, <1>15, GroupSlots
  <2>3. Slot(k) \in 1 .. KeysPerBlock
    BY <2>1, SlotRange
  <2>4. Slot(k) \in 1 .. Len(keyb) - 1 /\ Slot(k) \in 1 .. Len(keyb)
    BY <2>2, <2>3, <1>0, <1>9
  <2>5. At(blks, kb).keys[Slot(k)] = keyb[Slot(k)]
    BY <2>4, <1>1 DEF Begins
  <2>6. keys[Slot(k)] = keyb[Slot(k)] /\ Slot(k) \in DOMAIN keys
    BY <2>4, <1>0, <1>8
  <2> QED BY <2>5, <2>6, <1>14
<1>16. Unmoved(blks, Y, n, n - 1, kb, ub)
  BY <1>1, <1>11, <1>14, <1>15 DEF Unmoved
<1>17. Good(Y, n - 1, u) /\ Covered(Y, n - 1) = Covered(blks, n - 1)
  BY <1>1, <1>16, GoodStays
<1>18. Place(Y, n) = Place(blks, n)
  <2>1. n \in 1 .. (n - 1) + 1
    BY <1>11
  <2> QED BY <2>1, <1>1, <1>16, PlacesStay
<1>19. KeysOf(Y, n) = keys /\ KeyOf(Y, n) = key /\ Slot(n) \in DOMAIN KeysOf(Y, n)
  BY <1>8, <1>9, <1>10, <1>14, <1>18 DEF KeysOf, KeyOf
<1>20. BlocksOf(key) = BlocksOf(last) \cup {b} /\ BlocksOf(key) \subseteq Blocks
  <2>1. BlocksOf(last) \subseteq Blocks
    BY <1>12 DEF GoodKey
  <2>2. BlocksOf(key) = last.fsblk .. last.fsblk + (L + 1) - 1
    BY <1>8 DEF BlocksOf
  <2>3. BlocksOf(last) = last.fsblk .. last.fsblk + L - 1
    BY DEF BlocksOf, L
  <2>4. \A f \in Int : f .. f + (L + 1) - 1 = (f .. f + L - 1) \cup {f + L}
    BY <1>8, IntervalNext
  <2>5. BlocksOf(key) = BlocksOf(last) \cup {b}
    BY <2>2, <2>3, <2>4, <1>8
  <2> QED BY <2>1, <2>5, <1>1
<1>21. ASSUME NEW i \in 1 .. L PROVE At(Y, Place(blks, n).data_blk + i - 1) = At(blks, Place(blks, n).data_blk + i - 1)
  <2> DEFINE at == Place(blks, n).data_blk
  <2>2. at <= at + i - 1 /\ at + i - 1 < EndOf(blks, n) /\ at + i - 1 \in Int
    BY <1>8, <1>10, <1>13
  <2> QED BY <2>2, <1>11, <1>16, DataStays
<1>23. Covered(Y, n) = Covered(blks, n) \cup {b}
  <2>1. Covered(Y, (n - 1) + 1) = Covered(Y, n - 1) \cup BlocksOf(KeyOf(Y, (n - 1) + 1))
    BY <1>11, CoveredNext
  <2>2. Covered(blks, (n - 1) + 1) = Covered(blks, n - 1) \cup BlocksOf(KeyOf(blks, (n - 1) + 1))
    BY <1>11, CoveredNext
  <2> QED BY <2>1, <2>2, <1>11, <1>12, <1>17, <1>19, <1>20
<1>24. AtLast(Y, n, kb, ub + 1, keys)
  <2>1. EndOf(Y, n) = Place(blks, n).data_blk + (L + 1)
    BY <1>8, <1>18, <1>19 DEF EndOf, SizeAt
  <2>2. EndOf(Y, n) = ub + 1
    <3> DEFINE at == Place(blks, n).data_blk
    <3>1. at \in Nat /\ L \in Nat /\ ub = at + L
      BY <1>8, <1>13
    <3> HIDE DEF at
    <3>2. at + (L + 1) = ub + 1
      BY <3>1
    <3> QED BY <2>1, <3>2 DEF at
  <2>3. Begins(Y, kb, keys)
    BY <1>8, <1>14 DEF Begins
  <2> QED BY <2>2, <2>3, <1>8, <1>9, <1>10, <1>18 DEF AtLast
<1> QED BY <1>9, <1>10, <1>12, <1>13, <1>17, <1>18, <1>19, <1>20, <1>21, <1>23, <1>24 DEF ExtendedTo, keys, last, key, L

\* The n keys of such a file, if the longer one is sound.
LEMMA LastKey ==
  ASSUME NEW Y, NEW n \in Nat \ {0}, NEW u, Good(Y, n - 1, u), GoodKey(Y, n, u)
  PROVE  Good(Y, n, u)
<1>1. \A k \in 1 .. n : k \in 1 .. n - 1 \/ k = n
  OBVIOUS
<1> QED BY <1>1 DEF Good

\* The case in which block b extends the last key.
LEMMA ExtendKey ==
  ASSUME NEW blks, NEW n, NEW kb, NEW ub, NEW keyb, NEW b, NEW old, NEW u,
         Saves(blks, n, kb, ub, keyb, b, old, u), Extends(keyb, b),
         NEW X, X = Put(blks, [at |-> ub, blk |-> DataBlock(old)]),
         NEW Y, Y = Put(X, [at |-> kb, blk |-> KeyBlockOf(Keyed(keyb, b, old))])
  PROVE  SavedKeys(blks, n, n, Y, u, b, kb, ub, Keyed(keyb, b, old))
<1> DEFINE keys == Keyed(keyb, b, old)
           last == keyb[Len(keyb)]
           key == Longer(keyb, old)
           L == Len(last.crc)
           at == Place(blks, n).data_blk
<1>1. old \in Contents /\ (b \notin u.unread => old = Original)
  BY DEF Saves
<1>2. /\ keys \in Seq(Keys) /\ Len(keys) <= KeysPerBlock /\ last.fsblk \in Int /\ L \in Nat /\ last.fsblk + L = b
      /\ key.fsblk = last.fsblk /\ Len(key.crc) = L + 1 /\ key.crc[L + 1] = old /\ key.crc # <<>>
      /\ \A i \in 1 .. L : key.crc[i] = last.crc[i]
  <2>1. LengthenedTo(keys, key, last, keyb, b, old)
    BY ExtendedKeys
  <2> HIDE DEF keys, key, last
  <2> QED BY <2>1 DEF LengthenedTo
<1>3. WrittenBoth(blks, Y, kb, ub, keys, old)
  BY <1>2, TwoWrites
<1>4. Y \in Seq(FileBlocks) /\ At(Y, ub).data = old /\ ub <= Len(Y)
  BY <1>3 DEF WrittenBoth, WrittenKeys
<1>5. ExtendedTo(blks, n, Y, u, b, kb, ub, keyb, old)
  BY <1>3, ExtendPlaces DEF WrittenBoth
<1>6. /\ n \in Nat \ {0} /\ GoodKey(blks, n, u) /\ KeyOf(blks, n) = last /\ at \in Nat /\ ub = at + L
      /\ Good(Y, n - 1, u) /\ Place(Y, n) = Place(blks, n) /\ KeyOf(Y, n) = key /\ Slot(n) \in DOMAIN KeysOf(Y, n)
      /\ BlocksOf(key) \subseteq Blocks /\ \A i \in 1 .. L : At(Y, at + i - 1) = At(blks, at + i - 1)
      /\ Covered(Y, n) = Covered(blks, n) \cup {b} /\ AtLast(Y, n, kb, ub + 1, keys)
  BY <1>5 DEF ExtendedTo
<1> HIDE DEF keys, last, key, L, at
<1>7. ASSUME NEW i \in 1 .. L + 1
      PROVE  /\ key.fsblk + i - 1 \notin u.torn => At(Y, at + i - 1).data = key.crc[i]
             /\ key.fsblk + i - 1 \notin u.unread => key.crc[i] = Original
  <2>1. CASE i = L + 1
    <3>1. at + i - 1 = ub /\ key.fsblk + i - 1 = b
      BY <2>1, <1>2, <1>6
    <3> QED BY <3>1, <2>1, <1>1, <1>2, <1>4
  <2>2. CASE i # L + 1
    <3>1. i \in 1 .. L
      BY <2>2, <1>2
    <3>2. /\ last.fsblk + i - 1 \notin u.torn => At(blks, at + i - 1).data = last.crc[i]
          /\ last.fsblk + i - 1 \notin u.unread => last.crc[i] = Original
      BY <3>1, <1>6 DEF GoodKey, L, at
    <3> QED BY <3>1, <3>2, <1>2, <1>6
  <2> QED BY <2>1, <2>2
<1>8. at + Len(key.crc) - 1 <= Len(Y)
  <2>1. at + (L + 1) - 1 = ub
    BY <1>2, <1>6
  <2> QED BY <2>1, <1>2, <1>4
<1>9. GoodKey(Y, n, u)
  <2>1. /\ Slot(n) \in DOMAIN KeysOf(Y, n) /\ key.crc # <<>> /\ BlocksOf(key) \subseteq Blocks
        /\ Len(key.crc) = L + 1 /\ Place(Y, n).data_blk = at /\ KeyOf(Y, n) = key
    BY <1>2, <1>6 DEF at
  <2>2. \A i \in 1 .. Len(key.crc) :
           /\ key.fsblk + i - 1 \notin u.torn => At(Y, at + i - 1).data = key.crc[i]
           /\ key.fsblk + i - 1 \notin u.unread => key.crc[i] = Original
    BY <2>1, <1>7
  <2> QED BY <2>1, <2>2, <1>8 DEF GoodKey
<1>10. Good(Y, n, u)
  BY <1>6, <1>9, LastKey
<1> QED BY <1>2, <1>4, <1>6, <1>10 DEF SavedKeys, keys

\* u leaves no more out than v does.
AsksLess(u, v) == u.unread \subseteq v.unread /\ u.torn \subseteq v.torn

\* More blocks that are lost, or fewer that changed, ask for less.
LEMMA KeepsLess ==
  ASSUME NEW blks, NEW n, NEW u, NEW ch, NEW v, AsksLess(u, v), NEW less, less \subseteq ch
  PROVE  /\ Good(blks, n, u) => Good(blks, n, v)
         /\ Keeps(blks, n, u, ch) => Keeps(blks, n, v, less)
<1>1. \A k : GoodKey(blks, k, u) => GoodKey(blks, k, v)
  BY DEF GoodKey, AsksLess
<1>2. Good(blks, n, u) => Good(blks, n, v)
  BY <1>1 DEF Good
<1> QED BY <1>2 DEF Keeps

\* The key block is written and its data are not: a new key is not counted yet, and of a
\* key that was extended the blocks are torn.
LEMMA TearKey ==
  ASSUME NEW blks, NEW n, NEW kb, NEW ub, NEW keyb, NEW b, NEW old, NEW u,
         Saves(blks, n, kb, ub, keyb, b, old, u),
         NEW v, AsksLess(u, v), Extends(keyb, b) => BlocksOf(Longer(keyb, old)) \subseteq v.torn,
         NEW Z, Z = Put(blks, [at |-> kb, blk |-> KeyBlockOf(Keyed(keyb, b, old))])
  PROVE  Good(Z, n, v) /\ Covered(blks, n) \subseteq Covered(Z, n)
<1> DEFINE keys == Keyed(keyb, b, old)
<1>1. keys \in Seq(Keys) /\ Len(keys) <= KeysPerBlock
  BY AppendedKeys, ExtendedKeys DEF AppendedTo, LengthenedTo
<1>2. WrittenKeys(blks, Z, kb, ub, keys)
  BY <1>1, OneWrite
<1>3. CASE ~Extends(keyb, b)
  <2>1. Unmoved(blks, Z, n, n, kb, ub) /\ Good(blks, n, u)
    BY <1>2, <1>3, AppendUnmoved DEF Saves
  <2>2. Good(Z, n, u) /\ Covered(Z, n) = Covered(blks, n)
    BY <2>1, GoodStays
  <2> QED BY <2>2, KeepsLess DEF AsksLess
<1>4. CASE Extends(keyb, b)
  <2> DEFINE last == keyb[Len(keyb)]
             key == Longer(keyb, old)
             L == Len(last.crc)
  <2>1. b \notin u.unread => old = Original
    BY DEF Saves
  <2>2. /\ L \in Nat /\ last.fsblk \in Int /\ last.fsblk + L = b
        /\ key.fsblk = last.fsblk /\ Len(key.crc) = L + 1 /\ key.crc[L + 1] = old /\ key.crc # <<>>
        /\ \A i \in 1 .. L : key.crc[i] = last.crc[i]
    <3>1. LengthenedTo(keys, key, last, keyb, b, old)
      BY <1>4, ExtendedKeys
    <3> HIDE DEF keys, key, last
    <3> QED BY <3>1 DEF LengthenedTo
  <2>3. ExtendedTo(blks, n, Z, u, b, kb, ub, keyb, old)
    BY <1>2, <1>4, ExtendPlaces
  <2>4. /\ n \in Nat \ {0} /\ GoodKey(blks, n, u) /\ KeyOf(blks, n) = last
        /\ Good(Z, n - 1, u) /\ KeyOf(Z, n) = key /\ Slot(n) \in DOMAIN KeysOf(Z, n)
        /\ BlocksOf(key) \subseteq Blocks /\ Covered(Z, n) = Covered(blks, n) \cup {b}
    BY <2>3 DEF ExtendedTo
  <2>5. BlocksOf(key) \subseteq v.torn /\ u.unread \subseteq v.unread
    BY <1>4 DEF AsksLess
  <2> HIDE DEF last, key, L
  <2>6. ASSUME NEW i \in 1 .. L + 1
        PROVE  /\ key.fsblk + i - 1 \in v.torn
               /\ key.fsblk + i - 1 \notin v.unread => key.crc[i] = Original
    <3>1. key.fsblk + i - 1 \in BlocksOf(key)
      BY <2>2 DEF BlocksOf
    <3>2. CASE i = L + 1
      <4>1. key.fsblk + i - 1 = b
        BY <3>2, <2>2
      <4> QED BY <4>1, <3>1, <3>2, <2>1, <2>2, <2>5
    <3>3. CASE i # L + 1
      <4>1. i \in 1 .. L
        BY <3>3, <2>2
      <4>2. last.fsblk + i - 1 \notin u.unread => last.crc[i] = Original
        BY <4>1, <2>4 DEF GoodKey, L
      <4> QED BY <4>1, <4>2, <3>1, <2>2, <2>5
    <3> QED BY <3>2, <3>3
  <2>7. GoodKey(Z, n, v)
    BY <2>2, <2>4, <2>5, <2>6 DEF GoodKey
  <2>8. Good(Z, n - 1, v)
    BY <2>4, KeepsLess DEF AsksLess
  <2>9. Good(Z, n, v)
    BY <2>4, <2>7, <2>8, LastKey
  <2> QED BY <2>4, <2>9
<1> QED BY <1>3, <1>4

-----------------------------------------------------------------------------
(* Reading an undo file. *)

\* What reading the undo file returns, in terms of its first keys.
LEMMA LoadedAre ==
  ASSUME NEW f, f.blks \in Seq(FileBlocks), f.hdr.num_keys \in Nat
  PROVE  /\ KeysReadable(f) <=> \A k \in 1 .. f.hdr.num_keys : Slot(k) \in DOMAIN KeysOf(f.blks, k)
         /\ LoadedKeys(f) = {[fsblk |-> KeyOf(f.blks, k).fsblk, crc |-> KeyOf(f.blks, k).crc,
                              fileblk |-> Place(f.blks, k).data_blk] : k \in 1 .. f.hdr.num_keys}
<1> DEFINE n == f.hdr.num_keys
           place == KeyPlaces(f)
<1>1. \A k \in 1 .. n : place[k] = Place(f.blks, k)
  BY KeyPlacesIs
<1> HIDE DEF place
<1>2. \A p : BlockAt(f, p) = At(f.blks, p)
  BY DEF BlockAt, At
<1>3. \A k \in 1 .. n : BlockAt(f, place[k].key_blk).keys = KeysOf(f.blks, k)
  BY <1>1, <1>2 DEF KeysOf
<1>4. KeysReadable(f) <=> \A k \in 1 .. n : Slot(k) \in DOMAIN KeysOf(f.blks, k)
  BY <1>3 DEF KeysReadable, place
<1> DEFINE A(k) == [fsblk |-> BlockAt(f, place[k].key_blk).keys[Slot(k)].fsblk,
                    crc |-> BlockAt(f, place[k].key_blk).keys[Slot(k)].crc,
                    fileblk |-> place[k].data_blk]
           B(k) == [fsblk |-> KeyOf(f.blks, k).fsblk, crc |-> KeyOf(f.blks, k).crc,
                    fileblk |-> Place(f.blks, k).data_blk]
<1>5. LoadedKeys(f) = {A(k) : k \in 1 .. n}
  BY DEF LoadedKeys, place
<1>6. \A k \in 1 .. n : A(k) = B(k)
  BY <1>1, <1>3 DEF KeyOf
<1> HIDE DEF A, B
<1>7. LoadedKeys(f) = {B(k) : k \in 1 .. n}
  BY <1>5, <1>6
<1> QED BY <1>4, <1>7 DEF B

\* One loaded key
LoadedAs(f, key, u) ==
  /\ key \in [fsblk : Int, crc : Seq(Contents), fileblk : Nat]
  /\ key.fsblk \in Nat /\ KeyBlocks(key) \subseteq Blocks
  /\ KeyBlocks(key) \subseteq u.torn \/ Fetched(f, key)
  /\ u.torn = {} => Fetched(f, key) /\ Extent(f, key) = key.crc
  /\ \A b \in KeyBlocks(key) : /\ b - key.fsblk + 1 \in 1 .. Len(key.crc)
                               /\ Extent(f, key)[b - key.fsblk + 1] \in Contents \cup {Nothing}
                               /\ b \notin u.torn /\ b \notin u.unread => Extent(f, key)[b - key.fsblk + 1] = Original

\* The keys of a sound file can be read, have the contents they say and cover what the
\* file covers.
LEMMA LoadedIs ==
  ASSUME NEW f, f.blks \in Seq(FileBlocks), f.hdr.num_keys \in Nat, NEW u, Good(f.blks, f.hdr.num_keys, u)
  PROVE  /\ KeysReadable(f)
         /\ \A key \in LoadedKeys(f) : LoadedAs(f, key, u)
         /\ u.torn = {} => BlocksMatch(f)
         /\ ReopenedMap(f) = Covered(f.blks, f.hdr.num_keys)
         /\ \A b : b \in Covered(f.blks, f.hdr.num_keys) <=> \E key \in LoadedKeys(f) : b \in KeyBlocks(key)
         /\ Covered(f.blks, f.hdr.num_keys) \subseteq Blocks
<1> DEFINE n == f.hdr.num_keys
           L(k) == [fsblk |-> KeyOf(f.blks, k).fsblk, crc |-> KeyOf(f.blks, k).crc,
                    fileblk |-> Place(f.blks, k).data_blk]
<1>1. KeysReadable(f)
  BY LoadedAre DEF Good, GoodKey
<1>2. LoadedKeys(f) = {L(k) : k \in 1 .. n}
  BY LoadedAre
<1>3. ASSUME NEW k \in 1 .. n PROVE LoadedAs(f, L(k), u) /\ KeyBlocks(L(k)) = BlocksOf(KeyOf(f.blks, k))
  <2> DEFINE key == KeyOf(f.blks, k)
             at == Place(f.blks, k).data_blk
             el == [fsblk |-> key.fsblk, crc |-> key.crc, fileblk |-> at]
  <2>0. GoodKey(f.blks, k, u) /\ k \in Nat \ {0}
    BY DEF Good
  <2>1. key \in Keys /\ at \in Nat
    BY <2>0, SizeIs, PlaceFields DEF GoodKey
  <2>2. key.fsblk \in Int /\ key.crc \in Seq(Contents) /\ Len(key.crc) \in Nat
    BY <2>1, BlockTypes
  <2>3. /\ key.crc # <<>> /\ BlocksOf(key) \subseteq Blocks
        /\ \A i \in 1 .. Len(key.crc) : /\ key.fsblk + i - 1 \notin u.torn => At(f.blks, at + i - 1).data = key.crc[i]
                                        /\ key.fsblk + i - 1 \notin u.unread => key.crc[i] = Original
        /\ BlocksOf(key) \subseteq u.torn \/ at + Len(key.crc) - 1 <= Len(f.blks)
    BY <2>0 DEF GoodKey
  <2> HIDE DEF key, at
  <2>4. el.fsblk = key.fsblk /\ el.crc = key.crc /\ el.fileblk = at /\ el \in [fsblk : Int, crc : Seq(Contents), fileblk : Nat]
    BY <2>1, <2>2
  <2> HIDE DEF el
  <2>5. KeyBlocks(el) = BlocksOf(key)
    BY <2>4 DEF KeyBlocks, BlocksOf
  <2>e. Extent(f, el) = [i \in 1 .. Len(key.crc) |-> At(f.blks, at + i - 1).data]
    BY <2>4 DEF Extent, BlockAt, At
  <2>f. key.fsblk \in BlocksOf(key)
    <3>1. Len(key.crc) >= 1
      BY <2>2, <2>3
    <3> QED BY <3>1, <2>2 DEF BlocksOf
  <2>g. BlocksOf(key) \subseteq u.torn \/ Fetched(f, el)
    BY <2>3, <2>4 DEF Fetched, Size
  <2>6. ASSUME u.torn = {} PROVE Fetched(f, el) /\ Extent(f, el) = key.crc
    <3>1. \A i \in 1 .. Len(key.crc) : At(f.blks, at + i - 1).data = key.crc[i]
      BY <2>3, <2>6
    <3>2. key.crc = [i \in 1 .. Len(key.crc) |-> key.crc[i]]
      <4> HIDE DEF Contents
      <4> QED BY <2>2
    <3>3. Fetched(f, el)
      BY <2>f, <2>g, <2>6
    <3> QED BY <3>1, <3>2, <3>3, <2>e
  <2>7. ASSUME NEW b \in KeyBlocks(el)
        PROVE  /\ b - el.fsblk + 1 \in 1 .. Len(el.crc)
               /\ Extent(f, el)[b - el.fsblk + 1] \in Contents \cup {Nothing}
               /\ b \notin u.torn /\ b \notin u.unread => Extent(f, el)[b - el.fsblk + 1] = Original
    <3> DEFINE i == b - key.fsblk + 1
    <3>1. b \in Int /\ key.fsblk <= b /\ b <= key.fsblk + Len(key.crc) - 1
      BY <2>2, <2>5 DEF BlocksOf
    <3>2. i \in 1 .. Len(key.crc) /\ key.fsblk + i - 1 = b
      BY <3>1, <2>2, SMTT(40)
    <3> HIDE DEF i
    <3>3. b \notin u.torn /\ b \notin u.unread => At(f.blks, at + i - 1).data = Original
      BY <3>2, <2>3
    <3>4. i = b - el.fsblk + 1
      BY <2>4 DEF i
    <3>5. At(f.blks, at + i - 1).data \in Contents \cup {Nothing}
      <4>1. At(f.blks, at + i - 1) \in FileBlocks
        BY BlockTypes
      <4> QED BY <4>1 DEF FileBlocks
    <3>6. Extent(f, el)[i] = At(f.blks, at + i - 1).data
      BY <3>2, <2>e
    <3> QED BY <3>2, <3>3, <3>4, <3>5, <3>6, <2>4
  <2>8. el.fsblk \in Nat
    BY <2>f, <2>3, <2>4 DEF Blocks
  <2>9. LoadedAs(f, el, u)
    BY <2>3, <2>4, <2>5, <2>6, <2>7, <2>8, <2>g DEF LoadedAs
  <2> QED BY <2>5, <2>9 DEF el, key, at
<1>4. \A k \in 1 .. n : BlocksOf(KeyOf(f.blks, k)) \subseteq Blocks
  BY DEF Good, GoodKey
<1> HIDE DEF L
<1>5. \A key \in LoadedKeys(f) : LoadedAs(f, key, u)
  BY <1>2, <1>3
<1>6. u.torn = {} => BlocksMatch(f)
  BY <1>5 DEF BlocksMatch, LoadedAs
<1>7. \A b : b \in Covered(f.blks, n) <=> \E key \in LoadedKeys(f) : b \in KeyBlocks(key)
  BY <1>2, <1>3 DEF Covered
<1>8. ReopenedMap(f) = Covered(f.blks, n)
  BY <1>7 DEF ReopenedMap
<1>9. Covered(f.blks, n) \subseteq Blocks
  BY <1>4 DEF Covered
<1> QED BY <1>1, <1>5, <1>6, <1>7, <1>8, <1>9

-----------------------------------------------------------------------------
(* Kills, and what they leave. *)

\* The longest and the shortest prefix of a sequence.
LEMMA Whole ==
  ASSUME NEW S, NEW s \in Seq(S)
  PROVE  SubSeq(s, 1, Len(s)) = s /\ SubSeq(s, 1, 0) = <<>>
OBVIOUS

\* Its prefix of length one.
LEMMA FirstOne ==
  ASSUME NEW S, NEW s \in Seq(S), Len(s) >= 1
  PROVE  SubSeq(s, 1, 1) = <<s[1]>>
<1>1. SubSeq(s, 1, 1) \in Seq(S) /\ Len(SubSeq(s, 1, 1)) = 1 /\ SubSeq(s, 1, 1)[1] = s[1] /\ s[1] \in S
  OBVIOUS
<1>2. \A t \in Seq(S) : Len(t) = 1 => t = <<t[1]>>
  OBVIOUS
<1> QED BY <1>1, <1>2

\* The prefixes of one and of two writes.
LEMMA Prefixes ==
  ASSUME NEW a, NEW b
  PROVE  /\ SubSeq(<<a>>, 1, 0) = <<>> /\ SubSeq(<<a>>, 1, 1) = <<a>>
         /\ SubSeq(<<a, b>>, 1, 0) = <<>> /\ SubSeq(<<a, b>>, 1, 1) = <<a>> /\ SubSeq(<<a, b>>, 1, 2) = <<a, b>>
<1> DEFINE S == {a, b}
           s == <<a>>
           t == <<a, b>>
<1>1. s \in Seq(S) /\ Len(s) = 1
  OBVIOUS
<1>2. t \in Seq(S) /\ Len(t) = 2 /\ t[1] = a
  OBVIOUS
<1> HIDE DEF S, s, t
<1>3. SubSeq(s, 1, 1) = s /\ SubSeq(s, 1, 0) = <<>>
  BY <1>1, Whole
<1>4. SubSeq(t, 1, 2) = t /\ SubSeq(t, 1, 0) = <<>>
  BY <1>2, Whole
<1>5. Len(t) >= 1
  BY <1>2
<1>6. SubSeq(t, 1, 1) = <<t[1]>>
  BY <1>2, <1>5, FirstOne
<1> QED BY <1>2, <1>3, <1>4, <1>6 DEF s, t

\* Kept, without cached blocks,
LEMMA KeptNone ==
  ASSUME NEW blks, NEW n, NEW u, NEW ch
  PROVE  Kept(<<>>, blks, n, u, ch) <=> Keeps(blks, n, u, ch)
<1>1. Flushed(blks, SubSeq(<<>>, 1, 0)) = blks
  <2>1. SubSeq(<<>>, 1, 0) = <<>>
    OBVIOUS
  <2> QED BY <2>1, FlushedIs
<1>2. 0 .. Len(<<>>) = {0}
  OBVIOUS
<1> QED BY <1>1, <1>2 DEF Kept

\* for none and for all of them,
LEMMA KeptNow ==
  ASSUME NEW S, NEW writes \in Seq(S), NEW blks, NEW n, NEW u, NEW ch, Kept(writes, blks, n, u, ch)
  PROVE  Keeps(blks, n, u, ch) /\ Keeps(Flushed(blks, writes), n, u, ch)
<1>1. 0 \in 0 .. Len(writes) /\ Len(writes) \in 0 .. Len(writes)
  OBVIOUS
<1>2. SubSeq(writes, 1, 0) = <<>> /\ SubSeq(writes, 1, Len(writes)) = writes
  OBVIOUS
<1>3. Flushed(blks, SubSeq(writes, 1, 0)) = blks
  BY <1>2, FlushedIs
<1>4. Keeps(Flushed(blks, SubSeq(writes, 1, 0)), n, u, ch)
  BY <1>1 DEF Kept
<1>5. Keeps(Flushed(blks, SubSeq(writes, 1, Len(writes))), n, u, ch)
  BY <1>1 DEF Kept
<1> QED BY <1>2, <1>3, <1>4, <1>5

\* for one
LEMMA KeptOne ==
  ASSUME NEW a, NEW blks, NEW n, NEW u, NEW ch, Keeps(blks, n, u, ch), Keeps(Put(blks, a), n, u, ch)
  PROVE  Kept(<<a>>, blks, n, u, ch)
<1>1. SubSeq(<<a>>, 1, 0) = <<>> /\ SubSeq(<<a>>, 1, 1) = <<a>>
  BY Prefixes
<1>2. 0 .. Len(<<a>>) = {0, 1}
  OBVIOUS
<1>3. Flushed(blks, SubSeq(<<a>>, 1, 0)) = blks /\ Flushed(blks, SubSeq(<<a>>, 1, 1)) = Put(blks, a)
  BY <1>1, FlushedIs, ZenonT(60)
<1> QED BY <1>2, <1>3 DEF Kept

\* and for two.
LEMMA KeptTwo ==
  ASSUME NEW a, NEW b, NEW blks, NEW n, NEW u, NEW ch,
         Keeps(blks, n, u, ch), Keeps(Put(blks, a), n, u, ch), Keeps(Put(Put(blks, a), b), n, u, ch)
  PROVE  Kept(<<a, b>>, blks, n, u, ch)
<1>1. SubSeq(<<a, b>>, 1, 0) = <<>> /\ SubSeq(<<a, b>>, 1, 1) = <<a>> /\ SubSeq(<<a, b>>, 1, 2) = <<a, b>>
  BY Prefixes
<1>2. 0 .. Len(<<a, b>>) = {0, 1, 2}
  OBVIOUS
<1>3. /\ Flushed(blks, SubSeq(<<a, b>>, 1, 0)) = blks /\ Flushed(blks, SubSeq(<<a, b>>, 1, 1)) = Put(blks, a)
      /\ Flushed(blks, SubSeq(<<a, b>>, 1, 2)) = Put(Put(blks, a), b)
  <2>1. Flushed(blks, <<>>) = blks
    BY FlushedIs
  <2>2. Flushed(blks, <<a>>) = Put(blks, a)
    BY DEF Flushed
  <2>3. Flushed(blks, <<a, b>>) = Put(Put(blks, a), b)
    BY DEF Flushed
  <2> QED BY <1>1, <2>1, <2>2, <2>3, Zenon
<1> QED BY <1>2, <1>3 DEF Kept

\* So do they with cached blocks,
LEMMA KeptLess ==
  ASSUME NEW writes, NEW blks, NEW n, NEW u, NEW ch, NEW v, AsksLess(u, v), NEW less, less \subseteq ch,
         Kept(writes, blks, n, u, ch)
  PROVE  Kept(writes, blks, n, v, less)
<1>1. \A b : Keeps(b, n, u, ch) => Keeps(b, n, v, less)
  BY KeepsLess
<1> QED BY <1>1 DEF Kept

\* and of the tool.
LEMMA KnowsLess ==
  ASSUME NEW d, NEW blks, NEW u, NEW ch, NEW v, AsksLess(u, v), NEW less, less \subseteq ch,
         Knows(d, blks, u, ch)
  PROVE  Knows(d, blks, v, less)
<1>1. Keeps(blks, d.num_keys, v, less)
  BY KeepsLess DEF Knows
<1> QED BY <1>1 DEF Knows, AsksLess

\* Writing a cached block gives a file,
LEMMA PutTypes ==
  ASSUME NEW blks \in Seq(FileBlocks), NEW w \in CacheWrites
  PROVE  Put(blks, w) \in Seq(FileBlocks)
<1>1. w.at \in Nat \ {0} /\ w.blk \in FileBlocks /\ w = [at |-> w.at, blk |-> w.blk]
  BY DEF CacheWrites
<1> QED BY <1>1, PutIs

\* and so does writing them all.
LEMMA FlushedTypes ==
  ASSUME NEW blks \in Seq(FileBlocks), NEW writes \in Seq(CacheWrites), Len(writes) <= 2
  PROVE  Flushed(blks, writes) \in Seq(FileBlocks)
<1>1. \A B \in Seq(FileBlocks), w \in CacheWrites : Put(B, w) \in Seq(FileBlocks)
  BY PutTypes
<1>2. Len(writes) \in Nat /\ \A i \in 1 .. Len(writes) : writes[i] \in CacheWrites
  <2> HIDE DEF CacheWrites
  <2> QED OBVIOUS
<1>3. writes # <<>> => Len(writes) >= 1
  <2> HIDE DEF CacheWrites
  <2> QED OBVIOUS
<1>4. CASE writes = <<>>
  BY <1>4 DEF Flushed
<1>5. CASE writes # <<>> /\ Len(writes) = 1
  <2>1. writes[1] \in CacheWrites
    BY <1>2, <1>5
  <2> QED BY <2>1, <1>1, <1>5 DEF Flushed
<1>6. CASE writes # <<>> /\ Len(writes) # 1
  <2>0. Len(writes) = 2
    <3> DEFINE l == Len(writes)
    <3>1. l \in Nat /\ l >= 1 /\ l # 1 /\ l <= 2
      BY <1>2, <1>3, <1>6
    <3> HIDE DEF l
    <3>2. l = 2
      BY <3>1
    <3> QED BY <3>2 DEF l
  <2>1. writes[1] \in CacheWrites /\ writes[2] \in CacheWrites
    <3>1. 1 \in 1 .. Len(writes) /\ 2 \in 1 .. Len(writes)
      BY <2>0
    <3> QED BY <3>1, <1>2
  <2>2. Put(blks, writes[1]) \in Seq(FileBlocks)
    BY <2>1, <1>1
  <2> QED BY <2>1, <2>2, <1>1, <1>6 DEF Flushed
<1> QED BY <1>4, <1>5, <1>6

\* What assigning to a part of the undo file changes.
LEMMA FileFields ==
  ASSUME NEW f \in Files
  PROVE  /\ f.hdr \in Headers /\ f.blks \in Seq(FileBlocks) /\ f.super \in Contents \cup {Nothing}
         /\ f.hdr.num_keys \in Nat /\ f.hdr.magic \in BOOLEAN /\ f.hdr.sized \in BOOLEAN
         /\ \A x \in Contents : LET g == [f EXCEPT !.super = x] IN
              g \in Files /\ g.hdr = f.hdr /\ g.blks = f.blks /\ g.super = x
         /\ \A x \in Seq(FileBlocks) : LET g == [f EXCEPT !.blks = x] IN
              g \in Files /\ g.hdr = f.hdr /\ g.blks = x /\ g.super = f.super
         /\ \A x \in Seq(FileBlocks), h \in Headers : LET g == [f EXCEPT !.blks = x, !.hdr = h] IN
              g \in Files /\ g.hdr = h /\ g.blks = x /\ g.super = f.super
<1> HIDE DEF FileBlocks, Contents
<1> QED BY DEF Files, Headers

-----------------------------------------------------------------------------
(* The steps, one by one. *)

\* The keys of a file that does not change.
LEMMA FileStays ==
  ASSUME UNCHANGED file PROVE LoadedKeys(file)' = LoadedKeys(file)
BY DEF LoadedKeys, KeyPlaces, BlockAt, Slot

\* The types of the fields of struct undo_private_data.
LEMMA ToolFields ==
  ASSUME NEW d \in ToolData
  PROVE  /\ d.map \subseteq Blocks /\ d.setup \in BOOLEAN /\ d.num_keys \in Nat /\ d.keyb \in Seq(Keys)
         /\ d.key_blk \in Nat /\ d.undo_blk \in Nat /\ d.finished \in BOOLEAN /\ d.warm \in BOOLEAN
BY DEF ToolData

\* The initial values have their types.
LEMMA IdleTypes ==
  /\ NoData \in ToolData /\ NoWrite \in Writes /\ Clean \in [Blocks -> Contents \cup {Nothing}]
  /\ <<>> \in Seq(CacheWrites) /\ Len(<<>>) <= 2 /\ NoReplay \in Replays /\ EmptyFile \in Files
<1>1. <<>> \in Seq(Keys) /\ <<>> \in Seq(FileBlocks) /\ <<>> \in Seq(CacheWrites) /\ Len(<<>>) <= 2
  OBVIOUS
<1>2. NoData \in ToolData
  BY <1>1 DEF NoData, ToolData
<1>3. NoWrite \in Writes
  BY UndoAssumption, BlockTypes DEF NoWrite, Writes, Blocks
<1>4. NoReplay \in Replays /\ NoHeader \in Headers /\ Clean \in [Blocks -> Contents \cup {Nothing}]
  BY DEF NoReplay, Replays, NoHeader, Headers, Clean
<1>5. EmptyFile \in Files
  BY <1>1, <1>4 DEF EmptyFile, Files
<1> QED BY <1>1, <1>2, <1>3, <1>4, <1>5

\* The copy of the superblock is no part of what is saved.
LEMMA StepIndexSuper == ASSUME UndoIInv, IndexSuper PROVE UndoIInv'
<1>0. /\ pc = "super" /\ pc' = "save" /\ file' = [file EXCEPT !.super = disk[SuperBlk]]
      /\ UNCHANGED <<disk, dirty, cached, data, todo, lost, replay>>
  BY DEF IndexSuper
<1>1. Typed /\ KillSafe /\ ToolSound /\ AllClean
  BY <1>0 DEF UndoIInv, Tools, Undoing
<1>2. SuperBlk \in Blocks /\ disk[SuperBlk] \in Contents
  BY <1>1, UndoAssumption DEF AllClean, SuperBlk, Blocks
<1>3. file' \in Files /\ file'.hdr = file.hdr /\ file'.blks = file.blks
  BY <1>0, <1>1, <1>2, FileFields DEF Typed
<1>4. Typed'
  BY <1>0, <1>1, <1>3 DEF Typed, Tools
<1>5. Changed' = Changed /\ Final' = Final
  BY <1>0, <1>3 DEF Changed, Final
<1>6. KillSafe'
  BY <1>0, <1>1, <1>3, <1>5 DEF KillSafe
<1>7. ToolSound'
  BY <1>0, <1>1, <1>3, <1>5 DEF ToolSound
<1>8. AllClean'
  BY <1>0, <1>1 DEF AllClean
<1> QED BY <1>0, <1>4, <1>6, <1>7, <1>8 DEF UndoIInv, Tools, Undoing

\* A block that leaves the cache was counted as changed when it entered it.
LEMMA StepEvict == ASSUME UndoIInv, Evict PROVE UndoIInv'
<1>0. UNCHANGED <<file, cached, data, pc, todo, lost, replay>>
  BY DEF Evict
<1>1. PICK b \in Blocks : /\ dirty[b] # Nothing
                          /\ disk' = [disk EXCEPT ![b] = dirty[b]]
                          /\ dirty' = [dirty EXCEPT ![b] = Nothing]
  BY DEF Evict
<1>2. Typed /\ KillSafe
  BY DEF UndoIInv
<1>4. pc \in Tools /\ dirty # Clean
  BY <1>1 DEF UndoIInv, Clean
<1>5. pc \in Tools /\ pc # "close_super" /\ pc \notin Undoing /\ pc # "ended" /\ ToolSound /\ AllClean
  BY <1>4 DEF UndoIInv, ToolSound, Tools, Undoing
<1>3. disk \in [Blocks -> Contents] /\ dirty \in [Blocks -> Contents \cup {Nothing}] /\ dirty[b] \in Contents
  BY <1>1, <1>2, <1>5 DEF Typed, AllClean
<1>6. disk' \in [Blocks -> Contents] /\ dirty' \in [Blocks -> Contents \cup {Nothing}]
  BY <1>1, <1>3
<1>7. Typed'
  BY <1>0, <1>2, <1>6 DEF Typed
<1>8. Changed' \subseteq Changed
  <2> SUFFICES ASSUME NEW c \in Blocks, c \notin lost.unread, disk'[c].v # Original.v \/ dirty'[c] # Nothing
               PROVE  disk[c].v # Original.v \/ dirty[c] # Nothing
    BY <1>0 DEF Changed
  <2> QED BY <1>1, <1>3
<1>9. Final' = Final
  BY <1>0 DEF Final
<1>10. KillSafe'
  <2>1. Kept(cached, file.blks, file.hdr.num_keys, lost, Changed')
    BY <1>2, <1>8, KeptLess DEF AsksLess, KillSafe
  <2> QED BY <2>1, <1>0, <1>2 DEF KillSafe
<1>11. ToolSound'
  <2>1. Knows(data, Final, lost, Changed')
    BY <1>5, <1>8, KnowsLess DEF AsksLess, ToolSound
  <2>2. AlsoTorn' = AlsoTorn
    BY <1>0 DEF AlsoTorn, Torn
  <2>3. Tearing => Tearing'
    <3>1. Keeps(Put(file.blks, cached[2]), file.hdr.num_keys, AlsoTorn, Changed) =>
            Keeps(Put(file.blks, cached[2]), file.hdr.num_keys, AlsoTorn, Changed')
      BY <1>8, KeepsLess DEF AsksLess
    <3> QED BY <3>1, <2>2, <1>0 DEF Tearing
  <2> QED BY <2>1, <2>3, <1>0, <1>5, <1>9 DEF ToolSound
<1>12. AllClean'
  <2> SUFFICES ASSUME NEW c \in Blocks PROVE disk'[c].clean /\ (dirty'[c] # Nothing => dirty'[c].clean)
    BY <1>6 DEF AllClean
  <2> QED BY <1>1, <1>3, <1>5 DEF AllClean
<1> QED BY <1>0, <1>5, <1>7, <1>10, <1>11, <1>12 DEF UndoIInv

\* A kill leaves one of the files KillSafe speaks of.
LEMMA StepKill == ASSUME UndoIInv, Kill PROVE UndoIInv'
<1>0. /\ pc \in Tools /\ pc' = "killed" /\ data' = NoData /\ cached' = <<>> /\ todo' = NoWrite
      /\ dirty' = Clean /\ UNCHANGED <<disk, lost, replay>>
  BY DEF Kill, Gone, Tools
<1>1. PICK m \in 0 .. Len(cached) : file' = [file EXCEPT !.blks = Flushed(file.blks, SubSeq(cached, 1, m))]
  BY DEF Kill
<1>2. Typed /\ KillSafe /\ AllClean
  BY <1>0 DEF UndoIInv, Tools, Undoing
<1> DEFINE blks == Flushed(file.blks, SubSeq(cached, 1, m))
<1>3. cached \in Seq(CacheWrites) /\ Len(cached) <= 2 /\ file \in Files
  BY <1>2 DEF Typed
<1>4. SubSeq(cached, 1, m) \in Seq(CacheWrites) /\ Len(SubSeq(cached, 1, m)) <= 2
  <2> HIDE DEF CacheWrites
  <2> QED BY <1>3
<1>5. blks \in Seq(FileBlocks)
  BY <1>3, <1>4, FileFields, FlushedTypes
<1>6. Keeps(blks, file.hdr.num_keys, lost, Changed)
  BY <1>2 DEF KillSafe, Kept
<1> HIDE DEF blks
<1>7. file' \in Files /\ file'.hdr = file.hdr /\ file'.blks = blks
  BY <1>1, <1>3, <1>5, FileFields DEF blks
<1>8. Changed' \subseteq Changed
  BY <1>0 DEF Changed, Clean
<1>9. KillSafe'
  <2>1. Keeps(blks, file.hdr.num_keys, lost, Changed')
    BY <1>6, <1>8, KeepsLess DEF AsksLess
  <2>2. Kept(<<>>, blks, file.hdr.num_keys, lost, Changed')
    BY <2>1, KeptNone
  <2> QED BY <2>2, <1>0, <1>2, <1>7 DEF KillSafe
<1>10. Typed'
  <2>1. NoData \in ToolData /\ NoWrite \in Writes /\ Clean \in [Blocks -> Contents \cup {Nothing}] /\ <<>> \in Seq(CacheWrites) /\ Len(<<>>) <= 2
    BY IdleTypes
  <2> QED BY <2>1, <1>0, <1>2, <1>7 DEF Typed, Stopped
<1>11. AllClean'
  BY <1>0, <1>2 DEF AllClean, Clean
<1> QED BY <1>0, <1>9, <1>10, <1>11 DEF UndoIInv, Tools, Undoing

\* Torn blocks are blocks of the file system: the last key in memory is one of the file's.
LEMMA TornIsBlocks == ASSUME Typed, ToolSound, pc = "header" PROVE Torn \subseteq Blocks
<1> DEFINE n == data.num_keys
           keyb == data.keyb
<1>1. AtLast(Final, n, data.key_blk, data.undo_blk, keyb) /\ Good(Final, n, lost) /\ n \in Nat /\ keyb \in Seq(Keys)
  BY ToolFields DEF ToolSound, HasAdded, Knows, Keeps, Typed
<1>2. n \in Nat \ {0} /\ data.key_blk = Place(Final, n).key_blk /\ Len(keyb) = Slot(n) /\ Begins(Final, data.key_blk, keyb)
  BY <1>1 DEF AtLast
<1>3. n \in 1 .. n /\ Slot(n) \in 1 .. Len(keyb)
  BY <1>2, SlotRange
<1>4. KeyOf(Final, n) = keyb[Len(keyb)]
  BY <1>2, <1>3 DEF Begins, KeyOf, KeysOf
<1>5. BlocksOf(keyb[Len(keyb)]) \subseteq Blocks
  BY <1>1, <1>3, <1>4 DEF Good, GoodKey
<1> QED BY <1>5 DEF Torn, KeyBlocks, BlocksOf

\* A kill between the key block and its data leaves the file Tearing speaks of.
LEMMA StepKillBetween == ASSUME UndoIInv, KillBetween PROVE UndoIInv'
<1>0. /\ pc = "header" /\ pc' = "killed" /\ data' = NoData /\ cached' = <<>> /\ todo' = NoWrite
      /\ dirty' = Clean /\ lost' = AlsoTorn /\ file' = [file EXCEPT !.blks = Put(file.blks, cached[2])]
      /\ UNCHANGED <<disk, replay>>
  BY DEF KillBetween, Gone, AlsoTorn
<1>1. Typed /\ KillSafe /\ AllClean /\ ToolSound
  BY <1>0 DEF UndoIInv, Tools, Undoing
<1> DEFINE blks == Put(file.blks, cached[2])
<1>2. cached[2] \in CacheWrites /\ Keeps(blks, file.hdr.num_keys, AlsoTorn, Changed)
  BY <1>0, <1>1 DEF ToolSound, Tearing
<1>3. file \in Files /\ file.blks \in Seq(FileBlocks) /\ lost \in Losses
  BY <1>1, FileFields DEF Typed
<1>4. blks \in Seq(FileBlocks)
  BY <1>2, <1>3, PutTypes
<1>5. AlsoTorn.unread = lost.unread /\ AlsoTorn \in Losses
  <2>1. Torn \subseteq Blocks
    BY <1>0, <1>1, TornIsBlocks
  <2> QED BY <2>1, <1>3 DEF AlsoTorn, Losses
<1> HIDE DEF blks
<1>7. file' \in Files /\ file'.hdr = file.hdr /\ file'.blks = blks
  BY <1>0, <1>3, <1>4, FileFields DEF blks
<1>8. Changed' \subseteq Changed
  BY <1>0, <1>5 DEF Changed, Clean
<1>9. KillSafe'
  <2>1. Keeps(blks, file.hdr.num_keys, AlsoTorn, Changed')
    BY <1>2, <1>8, KeepsLess DEF AsksLess
  <2>2. Kept(<<>>, blks, file.hdr.num_keys, AlsoTorn, Changed')
    BY <2>1, KeptNone
  <2> QED BY <2>2, <1>0, <1>1, <1>7 DEF KillSafe
<1>10. Typed'
  <2>1. NoData \in ToolData /\ NoWrite \in Writes /\ Clean \in [Blocks -> Contents \cup {Nothing}] /\ <<>> \in Seq(CacheWrites) /\ Len(<<>>) <= 2
    BY IdleTypes
  <2> QED BY <2>1, <1>0, <1>1, <1>5, <1>7 DEF Typed, Stopped
<1>11. AllClean'
  BY <1>0, <1>1 DEF AllClean, Clean
<1> QED BY <1>0, <1>9, <1>10, <1>11 DEF UndoIInv, Tools, Undoing

\* An interrupted replay has only put original contents back.
LEMMA StepKillReplay == ASSUME UndoIInv, KillReplay PROVE UndoIInv'
<1>0. /\ pc = "replay" /\ pc' = "interrupted" /\ replay' = NoReplay
      /\ UNCHANGED <<disk, dirty, file, cached, data, todo, lost>>
  BY DEF KillReplay
<1>1. Typed /\ KillSafe /\ dirty = Clean /\ cached = <<>>
  BY <1>0 DEF UndoIInv, Tools
<1>2. Typed'
  BY <1>0, <1>1, IdleTypes DEF Typed, Undoing
<1>3. KillSafe'
  BY <1>0, <1>1 DEF KillSafe, Changed
<1>4. dirty' = Clean /\ cached' = <<>>
  BY <1>0, <1>1
<1>5. pc' \notin Tools /\ pc' \in Undoing /\ pc' # "ended" /\ UndoingSound'
  BY <1>0 DEF UndoingSound, Tools, Undoing
<1> QED BY <1>2, <1>3, <1>4, <1>5 DEF UndoIInv, Clean

\* A replay that has no keys left has put everything back.
LEMMA StepReplayDone == ASSUME UndoIInv, ReplayDone PROVE UndoIInv'
<1>0. /\ pc = "replay" /\ replay.keys = {} /\ pc' = "undone" /\ replay' = NoReplay
      /\ UNCHANGED <<dirty, file, cached, data, todo, lost>>
  BY DEF ReplayDone
<1>1. Typed /\ KillSafe /\ dirty = Clean /\ cached = <<>> /\ UndoingSound
  BY <1>0 DEF UndoIInv, Tools, Undoing
<1>2. disk \in [Blocks -> Contents \cup {Nothing}]
  BY <1>1 DEF Typed
<1>3. disk' \in [Blocks -> Contents \cup {Nothing}] /\ \A b \in Blocks : disk'[b].v = disk[b].v
  <2> DEFINE flag == disk[SuperBlk].clean /\ file.hdr.finished /\ ~replay.force /\ ~replay.error
             new == [disk[SuperBlk] EXCEPT !.clean = flag]
  <2>1. SuperBlk \in Blocks /\ flag \in BOOLEAN
    BY UndoAssumption DEF SuperBlk, Blocks
  <2>2. disk' = [disk EXCEPT ![SuperBlk] = new]
    BY DEF ReplayDone
  <2> HIDE DEF flag
  <2>3. new \in Contents \cup {Nothing} /\ new.v = disk[SuperBlk].v
    <3>1. CASE disk[SuperBlk] \in Contents
      BY <3>1, <2>1 DEF Contents
    <3>2. CASE disk[SuperBlk] = Nothing
      <4>1. disk[SuperBlk].clean = FALSE /\ disk[SuperBlk].v = -1
        BY <3>2 DEF Nothing
      <4>2. flag = FALSE
        BY <4>1 DEF flag
      <4>3. Nothing \in [v : Int, clean : BOOLEAN] /\ Nothing.v = -1
        BY DEF Nothing
      <4>4. new \in [v : Int, clean : BOOLEAN] /\ new.v = -1 /\ new.clean = FALSE
        BY <3>2, <4>2, <4>3
      <4>5. \A r \in [v : Int, clean : BOOLEAN] : r = [v |-> r.v, clean |-> r.clean]
        OBVIOUS
      <4>6. new = Nothing
        BY <4>4, <4>5 DEF Nothing
      <4> QED BY <3>2, <4>6
    <3> QED BY <3>1, <3>2, <1>2, <2>1
  <2> HIDE DEF new
  <2> QED BY <1>2, <2>1, <2>2, <2>3
<1>4. Typed'
  BY <1>0, <1>1, <1>3, IdleTypes DEF Typed, Undoing
<1>5. Changed' = Changed
  BY <1>0, <1>3 DEF Changed
<1>6. KillSafe'
  BY <1>0, <1>1, <1>5 DEF KillSafe
<1>7. dirty' = Clean /\ cached' = <<>>
  BY <1>0, <1>1
<1>8. \A b \in Blocks \ (lost.unread \cup lost.torn) : disk'[b].v = Original.v
  BY <1>0, <1>1, <1>3 DEF UndoingSound
<1>9. pc' \notin Tools /\ pc' \in Undoing /\ pc' # "ended" /\ UndoingSound'
  BY <1>0, <1>8 DEF UndoingSound, Tools, Undoing
<1> QED BY <1>4, <1>6, <1>7, <1>9 DEF UndoIInv, Clean

\* What e2undo would read at this moment.
LEMMA LoadedNow ==
  ASSUME Typed, KillSafe
  PROVE  /\ \A key \in LoadedKeys(file) : LoadedAs(file, key, lost)
         /\ KeysReadable(file) /\ (lost.torn = {} => BlocksMatch(file)) /\ file.blks \in Seq(FileBlocks) /\ file.hdr.num_keys \in Nat
         /\ Good(file.blks, file.hdr.num_keys, lost)
         /\ ReopenedMap(file) = Covered(file.blks, file.hdr.num_keys)
         /\ \A b : b \in Covered(file.blks, file.hdr.num_keys) <=> \E key \in LoadedKeys(file) : b \in KeyBlocks(key)
         /\ Changed \subseteq Covered(file.blks, file.hdr.num_keys)
         /\ Covered(file.blks, file.hdr.num_keys) \subseteq Blocks
<1>1. file.blks \in Seq(FileBlocks) /\ file.hdr.num_keys \in Nat
  BY FileFields DEF Typed
<1>2. Keeps(file.blks, file.hdr.num_keys, lost, Changed)
  BY KeptNow DEF KillSafe, Typed
<1>3. Good(file.blks, file.hdr.num_keys, lost) /\ Changed \subseteq Covered(file.blks, file.hdr.num_keys)
  BY <1>2 DEF Keeps
<1> QED BY <1>1, <1>3, LoadedIs

\* e2undo starts with all the keys, so with every block that changed.
LEMMA StepE2undo == ASSUME UndoIInv, e2undo PROVE UndoIInv'
<1>0. /\ pc \in Stopped \cup {"interrupted", "undone"} /\ pc' = "replay"
      /\ UNCHANGED <<disk, dirty, file, cached, data, todo, lost>>
  BY DEF e2undo
<1>1. Typed /\ KillSafe /\ dirty = Clean /\ cached = <<>>
  BY <1>0 DEF UndoIInv, Tools, Stopped
<1>2. PICK force \in BOOLEAN : replay' = [keys |-> LoadedKeys(file), force |-> force, error |-> ~BlocksMatch(file)]
  BY DEF e2undo
<1>3. replay' \in Replays /\ replay'.keys = LoadedKeys(file)
  <2>1. LoadedKeys(file) \subseteq [fsblk : Int, crc : Seq(Contents), fileblk : Nat]
    BY <1>1, LoadedNow DEF LoadedAs
  <2> QED BY <1>2, <2>1 DEF Replays
<1>4. Typed'
  BY <1>0, <1>1, <1>3 DEF Typed, Undoing
<1>5. KillSafe'
  BY <1>0, <1>1 DEF KillSafe, Changed
<1>6. ASSUME NEW b \in Blocks \ (lost.unread \cup lost.torn), disk[b].v # Original.v PROVE \E key \in LoadedKeys(file) : b \in KeyBlocks(key)
  <2>1. b \in Changed
    BY <1>6 DEF Changed
  <2> QED BY <2>1, <1>1, LoadedNow
<1>7. LoadedKeys(file)' = LoadedKeys(file)
  BY <1>0, FileStays
<1>8. UndoingSound'
  BY <1>0, <1>3, <1>6, <1>7 DEF UndoingSound
<1>9. pc' \notin Tools /\ pc' \in Undoing /\ pc' # "ended" /\ dirty' = Clean /\ cached' = <<>>
  BY <1>0, <1>1 DEF Tools, Undoing
<1> QED BY <1>4, <1>5, <1>8, <1>9 DEF UndoIInv, Clean

\* One key is written; its blocks have their original contents.
LEMMA StepReplayKey == ASSUME UndoIInv, ReplayKey PROVE UndoIInv'
<1>0. /\ pc = "replay" /\ replay.keys # {} /\ replay' = [replay EXCEPT !.keys = replay.keys \ {NextKey}]
      /\ disk' = [b \in Blocks |-> IF b \in KeyBlocks(NextKey) /\ Fetched(file, NextKey)
                                   THEN Extent(file, NextKey)[b - NextKey.fsblk + 1] ELSE disk[b]]
      /\ UNCHANGED <<dirty, file, cached, data, pc, todo, lost>>
  BY DEF ReplayKey
<1>1. Typed /\ KillSafe /\ dirty = Clean /\ cached = <<>> /\ UndoingSound
  BY <1>0 DEF UndoIInv, Tools, Undoing
<1>2. \A key \in replay.keys : LoadedAs(file, key, lost)
  BY <1>0, <1>1, LoadedNow DEF UndoingSound
<1>3. NextKey \in replay.keys
  <2> DEFINE T == {key.fsblk : key \in replay.keys}
  <2>1. T \subseteq Nat /\ T # {}
    BY <1>0, <1>2 DEF LoadedAs
  <2>2. PICK x \in T : \A y \in T : x <= y
    BY <2>1, NatMin
  <2>3. \E key \in replay.keys : \A other \in replay.keys : key.fsblk <= other.fsblk
    BY <2>2
  <2> QED BY <2>3 DEF NextKey
<1> DEFINE key == NextKey
<1>4. LoadedAs(file, key, lost)
  BY <1>2, <1>3
<1> HIDE DEF key
<1>5. /\ \A b \in KeyBlocks(key) :
           /\ Extent(file, key)[b - key.fsblk + 1] \in Contents \cup {Nothing}
           /\ b \notin lost.torn /\ b \notin lost.unread => Extent(file, key)[b - key.fsblk + 1] = Original
      /\ KeyBlocks(key) \subseteq lost.torn \/ Fetched(file, key)
  BY <1>4 DEF LoadedAs
<1>6. disk \in [Blocks -> Contents \cup {Nothing}] /\ replay \in Replays
  BY <1>1 DEF Typed
<1>7. \A b \in Blocks : disk'[b] = IF b \in KeyBlocks(key) /\ Fetched(file, key) THEN Extent(file, key)[b - key.fsblk + 1] ELSE disk[b]
  BY <1>0 DEF key
<1>8. disk' \in [Blocks -> Contents \cup {Nothing}]
  <2>1. DOMAIN disk' = Blocks /\ disk' = [b \in Blocks |-> disk'[b]]
    BY <1>0
  <2>2. \A b \in Blocks : disk'[b] \in Contents \cup {Nothing}
    BY <1>5, <1>6, <1>7
  <2> QED BY <2>1, <2>2
<1>9. replay' \in Replays /\ replay'.keys = replay.keys \ {key}
  BY <1>0, <1>6 DEF Replays, key
<1>10. Typed'
  BY <1>0, <1>1, <1>8, <1>9 DEF Typed, Undoing
<1>11. ASSUME NEW b \in Blocks \ (lost.unread \cup lost.torn), disk'[b].v # Original.v
       PROVE  b \notin KeyBlocks(key) /\ disk[b].v # Original.v
  BY <1>5, <1>7, <1>11
<1>12. Changed' \subseteq Covered(file.blks, file.hdr.num_keys)
  <2> SUFFICES ASSUME NEW b \in Blocks, b \notin lost.unread, disk'[b].v # Original.v \/ dirty'[b] # Nothing
               PROVE  b \in Covered(file.blks, file.hdr.num_keys)
    BY <1>0 DEF Changed
  <2>1. CASE b \in KeyBlocks(key)
    BY <2>1, <1>0, <1>1, <1>3, LoadedNow DEF UndoingSound, key
  <2>2. CASE b \notin KeyBlocks(key)
    <3>1. b \in Changed
      BY <2>2, <1>0, <1>7 DEF Changed
    <3> QED BY <3>1, <1>1, LoadedNow
  <2> QED BY <2>1, <2>2
<1>13. KillSafe'
  <2>1. Keeps(file.blks, file.hdr.num_keys, lost, Changed')
    BY <1>1, <1>12, LoadedNow DEF Keeps
  <2>2. Kept(<<>>, file.blks, file.hdr.num_keys, lost, Changed')
    BY <2>1, KeptNone
  <2> QED BY <2>2, <1>0, <1>1 DEF KillSafe
<1>14. LoadedKeys(file)' = LoadedKeys(file)
  BY <1>0, FileStays
<1>15. UndoingSound'
  <2>1. replay'.keys \subseteq LoadedKeys(file)
    BY <1>0, <1>1, <1>9 DEF UndoingSound
  <2>2. ASSUME NEW b \in Blocks \ (lost.unread \cup lost.torn), disk'[b].v # Original.v PROVE \E k \in replay'.keys : b \in KeyBlocks(k)
    <3>1. b \notin KeyBlocks(key) /\ disk[b].v # Original.v
      BY <1>11, <2>2
    <3>2. PICK k \in replay.keys : b \in KeyBlocks(k)
      BY <3>1, <1>0, <1>1 DEF UndoingSound
    <3> QED BY <3>1, <3>2, <1>9
  <2> QED BY <2>1, <2>2, <1>0, <1>14 DEF UndoingSound
<1>16. pc' \notin Tools /\ pc' \in Undoing /\ pc' # "ended" /\ dirty' = Clean /\ cached' = <<>>
  BY <1>0, <1>1 DEF Tools, Undoing
<1> QED BY <1>10, <1>13, <1>15, <1>16 DEF UndoIInv, Clean

-----------------------------------------------------------------------------
(* Writing the header. *)

\* The last write of a session.
LEMMA StepCloseSuper == ASSUME UndoIInv, CloseSuper PROVE UndoIInv'
<1>0. /\ pc = "close_super" /\ pc' = "ended" /\ data' = NoData /\ cached' = <<>> /\ todo' = NoWrite
      /\ file' = [file EXCEPT !.super = disk[SuperBlk]] /\ UNCHANGED <<disk, dirty, lost, replay>>
  BY DEF CloseSuper, Gone
<1>1. Typed /\ KillSafe /\ ToolSound /\ AllClean
  BY <1>0 DEF UndoIInv, Tools, Undoing
<1>2. cached = <<>> /\ dirty = Clean /\ file.hdr.sb_crc = disk[SuperBlk] /\ file.hdr.magic
  BY <1>0, <1>1 DEF ToolSound
<1>3. SuperBlk \in Blocks /\ disk[SuperBlk] \in Contents
  BY <1>1, UndoAssumption DEF AllClean, SuperBlk, Blocks
<1>4. file' \in Files /\ file'.hdr = file.hdr /\ file'.blks = file.blks /\ file'.super = disk[SuperBlk]
  BY <1>0, <1>1, <1>3, FileFields DEF Typed
<1>5. Typed'
  BY <1>0, <1>1, <1>4, IdleTypes DEF Typed, Stopped
<1>6. Changed' = Changed
  BY <1>0 DEF Changed
<1>7. KillSafe'
  BY <1>0, <1>1, <1>2, <1>4, <1>6 DEF KillSafe
<1>8. AllClean'
  BY <1>0, <1>1 DEF AllClean
<1>9. dirty' = Clean /\ pc' \notin Tools /\ pc' \notin Undoing
  BY <1>0, <1>2 DEF Tools, Undoing
<1> QED BY <1>0, <1>2, <1>4, <1>5, <1>7, <1>8, <1>9 DEF UndoIInv, Clean

\* write_undo_indexes
Indexed(blks) ==
  /\ disk' \in [Blocks -> Contents] /\ dirty' = Clean /\ cached' = <<>>
  /\ file' \in Files /\ file'.blks = blks /\ file'.hdr.num_keys = data.num_keys
  /\ file'.hdr.sb_crc = disk'[SuperBlk] /\ file'.hdr.magic
  /\ Changed' \subseteq Changed /\ AllClean' /\ KillSafe' /\ Final' = blks

\* The undo file with a new header.
HeaderIn(f, blks, h) == [f EXCEPT !.blks = blks, !.hdr = h]

\* What writing it changes.
LEMMA HeaderIs ==
  ASSUME NEW f \in Files, NEW blks \in Seq(FileBlocks), NEW h \in Headers
  PROVE  HeaderIn(f, blks, h) \in Files /\ HeaderIn(f, blks, h).hdr = h /\ HeaderIn(f, blks, h).blks = blks
<1> HIDE DEF FileBlocks, Headers
<1> QED BY DEF Files, HeaderIn

\* A write of the header when the tool knows what the file will hold.
LEMMA HeaderWritten ==
  ASSUME Typed, KillSafe, AllClean, Knows(data, Final, lost, Changed), NEW next, WriteHeader(next), UNCHANGED lost
  PROVE  Indexed(Final)
<1>0. /\ disk' = Written /\ dirty' = Clean /\ cached' = <<>>
      /\ file' = [file EXCEPT !.blks = Flushed(file.blks, cached), !.hdr = Header(data, Written[SuperBlk])]
  BY DEF WriteHeader
<1>1. /\ disk \in [Blocks -> Contents] /\ dirty \in [Blocks -> Contents \cup {Nothing}]
      /\ file \in Files /\ cached \in Seq(CacheWrites) /\ Len(cached) <= 2 /\ data \in ToolData
  BY DEF Typed, AllClean
<1>2. \A b \in Blocks : Written[b] = (IF dirty[b] = Nothing THEN disk[b] ELSE dirty[b])
  BY DEF Written, Read
<1>3. Written \in [Blocks -> Contents]
  <2>1. \A b \in Blocks : Written[b] \in Contents
    BY <1>1, <1>2
  <2> QED BY <2>1 DEF Written
<1>4. SuperBlk \in Blocks
  BY UndoAssumption DEF SuperBlk, Blocks
<1> DEFINE h == Header(data, Written[SuperBlk])
<1>5. h \in Headers /\ h.num_keys = data.num_keys /\ h.sb_crc = Written[SuperBlk] /\ h.magic /\ h.sized = data.setup
  <2>1. Written[SuperBlk] \in Contents
    BY <1>3, <1>4
  <2> QED BY <2>1, <1>1, ToolFields DEF Header, Headers
<1>6. Final \in Seq(FileBlocks)
  BY <1>1, FileFields, FlushedTypes DEF Final
<1> HIDE DEF h
<1>7. file' \in Files /\ file'.blks = Final /\ file'.hdr = h
  <2>1. file' = HeaderIn(file, Final, h)
    BY <1>0 DEF Final, h, HeaderIn
  <2>2. Final \in Seq(FileBlocks) /\ h \in Headers /\ file \in Files
    BY <1>1, <1>5, <1>6
  <2> QED BY <2>1, <2>2, HeaderIs
<1>8. Changed' \subseteq Changed
  <2> SUFFICES ASSUME NEW c \in Blocks, c \notin lost.unread, disk'[c].v # Original.v \/ dirty'[c] # Nothing
               PROVE  disk[c].v # Original.v \/ dirty[c] # Nothing
    BY DEF Changed
  <2> QED BY <1>0, <1>2 DEF Clean
<1>9. AllClean'
  <2> SUFFICES ASSUME NEW c \in Blocks PROVE disk'[c].clean /\ (dirty'[c] # Nothing => dirty'[c].clean)
    BY <1>0, <1>3 DEF AllClean
  <2> QED BY <1>0, <1>2 DEF AllClean, Clean
<1>10. KillSafe'
  <2>1. Keeps(Final, data.num_keys, lost, Changed')
    BY <1>8, KeepsLess DEF AsksLess, Knows
  <2>2. Kept(<<>>, Final, data.num_keys, lost, Changed')
    BY <2>1, KeptNone
  <2>3. data.num_keys > 0 => data.setup
    BY DEF Knows
  <2> QED BY <2>2, <2>3, <1>0, <1>5, <1>7 DEF KillSafe
<1>11. Final' = Final
  BY <1>0, <1>7, FlushedIs DEF Final
<1> QED BY <1>0, <1>3, <1>5, <1>7, <1>8, <1>9, <1>10, <1>11 DEF Indexed

\* What moving on to the next key block changes.
LEMMA NextKeyBlockIs ==
  ASSUME NEW d \in ToolData
  PROVE  LET e == NextKeyBlock(d) IN
         /\ e \in ToolData /\ e.map = d.map /\ e.setup = d.setup /\ e.num_keys = d.num_keys
         /\ Len(d.keyb) = KeysPerBlock => e.keyb = <<>> /\ e.key_blk = d.undo_blk /\ e.undo_blk = d.undo_blk + 1
         /\ Len(d.keyb) # KeysPerBlock => e = d
<1>1. <<>> \in Seq(Keys)
  OBVIOUS
<1> HIDE DEF Keys
<1>2. CASE Len(d.keyb) = KeysPerBlock
  <2> DEFINE e == [d EXCEPT !.keyb = <<>>, !.key_blk = d.undo_blk, !.undo_blk = d.undo_blk + 1]
  <2>1. NextKeyBlock(d) = e
    BY <1>2 DEF NextKeyBlock
  <2>2. d.undo_blk + 1 \in Nat
    BY DEF ToolData
  <2>3. e \in ToolData
    BY <1>1, <2>2 DEF ToolData
  <2>4. /\ e.map = d.map /\ e.setup = d.setup /\ e.num_keys = d.num_keys
        /\ e.keyb = <<>> /\ e.key_blk = d.undo_blk /\ e.undo_blk = d.undo_blk + 1
    BY DEF ToolData
  <2> HIDE DEF e
  <2> QED BY <2>1, <2>3, <2>4, <1>2
<1>3. CASE Len(d.keyb) # KeysPerBlock
  BY <1>3 DEF NextKeyBlock
<1> QED BY <1>2, <1>3

\* Dropping the cached blocks changes none of that.
LEMMA EmptiedIs ==
  ASSUME NEW d \in ToolData
  PROVE  /\ Emptied(d) \in ToolData /\ Emptied(d).map = d.map /\ Emptied(d).setup = d.setup
         /\ Emptied(d).num_keys = d.num_keys /\ Emptied(d).keyb = d.keyb
         /\ Emptied(d).key_blk = d.key_blk /\ Emptied(d).undo_blk = d.undo_blk
<1> HIDE DEF Keys, Blocks
<1> QED BY DEF Emptied, ToolData

\* After the header is written the cursors are where the next key goes.
LEMMA MovesOn ==
  ASSUME NEW d \in ToolData, NEW blks \in Seq(FileBlocks), HasAdded(d, blks)
  PROVE  GoesOn(NextKeyBlock(d), blks)
<1> DEFINE n == d.num_keys
           e == NextKeyBlock(d)
<1>0. d.num_keys \in Nat /\ d.keyb \in Seq(Keys) /\ d.key_blk \in Nat /\ d.undo_blk \in Nat
  BY ToolFields
<1>1. /\ n \in Nat \ {0} /\ d.key_blk = Place(blks, n).key_blk /\ d.undo_blk = EndOf(blks, n)
      /\ Len(d.keyb) = Slot(n) /\ Begins(blks, d.key_blk, d.keyb)
  BY <1>0 DEF HasAdded, AtLast
<1>2. /\ e.num_keys = n
      /\ Len(d.keyb) = KeysPerBlock => e.keyb = <<>> /\ e.key_blk = d.undo_blk /\ e.undo_blk = d.undo_blk + 1
      /\ Len(d.keyb) # KeysPerBlock => e = d
  BY NextKeyBlockIs
<1>3. Place(blks, n + 1) =
           IF Slot(n + 1) = 1 THEN [key_blk |-> EndOf(blks, n), data_blk |-> EndOf(blks, n) + 1]
           ELSE [key_blk |-> Place(blks, n).key_blk, data_blk |-> EndOf(blks, n)]
  BY <1>1, PlaceStep
<1>4. Slot(n + 1) = (IF Slot(n) = KeysPerBlock THEN 1 ELSE Slot(n) + 1) /\ Slot(n) \in 1 .. KeysPerBlock
  BY <1>1, SlotStep, SlotRange
<1> HIDE DEF e, n
<1>5. CASE Slot(n) = KeysPerBlock
  <2>1. e.keyb = <<>> /\ e.key_blk = EndOf(blks, n) /\ e.undo_blk = EndOf(blks, n) + 1 /\ Slot(n + 1) = 1
    BY <1>1, <1>2, <1>4, <1>5
  <2>2. Len(e.keyb) = 0
    BY <2>1
  <2>3. Place(blks, n + 1).key_blk = EndOf(blks, n) /\ Place(blks, n + 1).data_blk = EndOf(blks, n) + 1
    BY <1>3, <2>1
  <2> QED BY <2>1, <2>2, <2>3, <1>2 DEF GoesOn, AtNext, Begins, e
<1>6. CASE Slot(n) # KeysPerBlock
  <2>1. e = d /\ Slot(n + 1) = Slot(n) + 1 /\ Slot(n + 1) # 1
    BY <1>1, <1>2, <1>4, <1>6
  <2>2. Place(blks, n + 1).key_blk = Place(blks, n).key_blk /\ Place(blks, n + 1).data_blk = EndOf(blks, n)
    BY <1>3, <2>1
  <2>3. Len(d.keyb) = Slot(n + 1) - 1
    BY <2>1, <1>1, <1>4
  <2> QED BY <2>1, <2>2, <2>3, <1>1 DEF GoesOn, AtNext, e, n
<1> QED BY <1>5, <1>6

-----------------------------------------------------------------------------
(* Opening an undo file. *)

\* A rewrite that moves no key leaves the tool as it was,
LEMMA Rewritten ==
  ASSUME NEW blks, NEW Y, NEW d \in ToolData, NEW u, NEW ch,
         Unmoved(blks, Y, d.num_keys, d.num_keys, d.key_blk, d.undo_blk),
         Knows(d, blks, u, ch), GoesOn(d, blks), Begins(Y, d.key_blk, d.keyb)
  PROVE  Knows(d, Y, u, ch) /\ GoesOn(d, Y) /\ Keeps(Y, d.num_keys, u, ch)
<1> DEFINE n == d.num_keys
<1>0. n \in Nat
  BY ToolFields
<1>1. Good(blks, n, u) /\ ch \subseteq Covered(blks, n)
  BY DEF Knows, Keeps
<1> HIDE DEF n
<1>2. Unmoved(blks, Y, n, n, d.key_blk, d.undo_blk)
  BY DEF n
<1>3. Good(Y, n, u) /\ Covered(Y, n) = Covered(blks, n)
  BY <1>1, <1>2, GoodStays
<1>4. \A k \in 1 .. n + 1 : Place(Y, k) = Place(blks, k)
  BY <1>1, <1>2, PlacesStay
<1>5. Place(Y, n + 1) = Place(blks, n + 1)
  BY <1>0, <1>4
<1>6. Keeps(Y, n, u, ch)
  BY <1>1, <1>3 DEF Keeps
<1>7. Knows(d, Y, u, ch)
  BY <1>3, <1>6 DEF Knows, n
<1>8. GoesOn(d, Y)
  BY <1>5 DEF GoesOn, AtNext, n
<1> QED BY <1>6, <1>7, <1>8 DEF n

\* as does one that changes nothing.
LEMMA SameBlocks ==
  ASSUME NEW blks \in Seq(FileBlocks), NEW Y \in Seq(FileBlocks), \A p : At(Y, p) = At(blks, p), Len(blks) <= Len(Y),
         NEW d \in ToolData, NEW u, NEW ch, Knows(d, blks, u, ch), GoesOn(d, blks)
  PROVE  Knows(d, Y, u, ch) /\ GoesOn(d, Y) /\ Keeps(Y, d.num_keys, u, ch)
<1>0. d.num_keys \in Nat
  BY ToolFields
<1>1. Good(blks, d.num_keys, u)
  BY DEF Knows, Keeps
<1>2. /\ d.key_blk = Place(blks, d.num_keys + 1).key_blk /\ d.undo_blk = Place(blks, d.num_keys + 1).data_blk
      /\ Begins(blks, d.key_blk, d.keyb)
  BY DEF GoesOn, AtNext
<1>3. \A k \in 1 .. d.num_keys : Place(blks, k).key_blk = d.key_blk => Slot(k) \in DOMAIN At(blks, d.key_blk).keys
  BY <1>1 DEF Good, GoodKey, KeysOf
<1>4. Unmoved(blks, Y, d.num_keys, d.num_keys, d.key_blk, d.undo_blk)
  <2>1. At(Y, d.key_blk) = At(blks, d.key_blk)
    OBVIOUS
  <2> QED BY <1>0, <1>2, <1>3, <2>1 DEF Unmoved
<1>5. Begins(Y, d.key_blk, d.keyb)
  BY <1>2 DEF Begins
<1> QED BY <1>4, <1>5, Rewritten

\* The key block in memory is written over the one in the file.
LEMMA KeyBlockAgain ==
  ASSUME NEW blks \in Seq(FileBlocks), NEW d \in ToolData, NEW u, NEW ch, Knows(d, blks, u, ch), GoesOn(d, blks),
         NEW Y, Y = Put(blks, [at |-> d.key_blk, blk |-> KeyBlockOf(d.keyb)])
  PROVE  /\ Knows(d, Y, u, ch) /\ GoesOn(d, Y) /\ Keeps(Y, d.num_keys, u, ch)
         /\ [at |-> d.key_blk, blk |-> KeyBlockOf(d.keyb)] \in CacheWrites
<1> DEFINE n == d.num_keys
           kb == d.key_blk
           keyb == d.keyb
<1>0. n \in Nat /\ n + 1 \in Nat \ {0} /\ keyb \in Seq(Keys) /\ Len(keyb) \in Nat
  BY ToolFields
<1>1. /\ kb = Place(blks, n + 1).key_blk /\ d.undo_blk = Place(blks, n + 1).data_blk
      /\ Len(keyb) = Slot(n + 1) - 1 /\ Begins(blks, kb, keyb)
  BY DEF GoesOn, AtNext
<1>2. Slot(n + 1) \in 1 .. KeysPerBlock /\ kb \in Nat \ {0}
  BY <1>0, <1>1, SlotRange, PlaceFields
<1>3. Len(keyb) <= KeysPerBlock
  BY <1>1, <1>2, UndoAssumption
<1>4. KeyBlockOf(keyb) \in FileBlocks /\ KeyBlockOf(keyb).keys = keyb
  BY <1>0, <1>3, KeyBlockIs
<1> HIDE DEF n, kb, keyb
<1>5. /\ Y \in Seq(FileBlocks) /\ Len(blks) <= Len(Y)
      /\ \A q : At(Y, q) = IF q = kb THEN KeyBlockOf(keyb) ELSE At(blks, q)
  BY <1>2, <1>4, PutIs DEF kb, keyb
<1>6. At(Y, kb).keys = keyb
  BY <1>4, <1>5
<1>7. Begins(Y, kb, keyb)
  BY <1>0, <1>6 DEF Begins
<1>8. ASSUME NEW k \in 1 .. n, Place(blks, k).key_blk = kb
      PROVE  Slot(k) \in DOMAIN keyb /\ keyb[Slot(k)] = At(blks, kb).keys[Slot(k)]
  <2>1. k \in 1 .. (n + 1) - 1 /\ k \in Nat \ {0}
    BY <1>0
  <2>2. Slot(k) < Slot(n + 1)
    BY <1>0, <1>1, <1>8, <2>1, GroupSlots
  <2>3. Slot(k) \in 1 .. KeysPerBlock
    BY <2>1, SlotRange
  <2>4. Slot(k) \in 1 .. Len(keyb)
    BY <2>2, <2>3, <1>0, <1>1, <1>2, UndoAssumption
  <2> QED BY <2>4, <1>0, <1>1 DEF Begins
<1>9. Unmoved(blks, Y, n, n, kb, d.undo_blk)
  BY <1>0, <1>1, <1>5, <1>6, <1>8 DEF Unmoved
<1>10. Knows(d, Y, u, ch) /\ GoesOn(d, Y) /\ Keeps(Y, n, u, ch)
  BY <1>7, <1>9, Rewritten DEF n, kb, keyb
<1>11. [at |-> kb, blk |-> KeyBlockOf(keyb)] \in CacheWrites
  BY <1>2, <1>4 DEF CacheWrites
<1> QED BY <1>10, <1>11 DEF n, kb, keyb

\* No tool has opened a file without keys yet.
LEMMA Starts ==
  ASSUME NEW blks, NEW d, d.num_keys = 0, d.keyb = <<>>, d.key_blk = 1, d.undo_blk = 2
  PROVE  GoesOn(d, blks) /\ Covered(blks, 0) = {}
<1>1. Place(blks, 0 + 1).key_blk = 1 /\ Place(blks, 0 + 1).data_blk = 2
  BY PlaceIs DEF First
<1>2. Slot(0 + 1) = 1
  <2>1. Slot(1) = 1 /\ 0 + 1 = 1
    BY SlotRange
  <2> QED BY <2>1
<1>3. Covered(blks, 0) = {}
  BY DEF Covered
<1> QED BY <1>1, <1>2, <1>3 DEF GoesOn, AtNext, Begins

\* undo_open with a new file.
LEMMA StepUndoOpen == ASSUME UndoIInv, undo_open PROVE UndoIInv'
<1>0. /\ pc \in Stopped /\ file = EmptyFile /\ data' = NoData /\ pc' = "open"
      /\ UNCHANGED <<disk, dirty, file, cached, todo, lost, replay>>
  BY DEF undo_open
<1>1. Typed /\ KillSafe /\ AllClean /\ cached = <<>>
  BY <1>0 DEF UndoIInv, Stopped, Tools, Undoing
<1>2. Typed'
  BY <1>0, <1>1, IdleTypes DEF Typed, Tools
<1>3. Changed' = Changed
  BY <1>0 DEF Changed
<1>4. KillSafe'
  BY <1>0, <1>1, <1>3 DEF KillSafe
<1>5. Final' = file.blks
  BY <1>0, <1>1, FlushedIs DEF Final
<1>6. file.hdr.num_keys = 0
  BY <1>0 DEF EmptyFile, NoHeader
<1>7. Keeps(file.blks, 0, lost, Changed)
  BY <1>1, <1>6, KeptNow DEF KillSafe, Typed
<1>8. NoData.num_keys = 0 /\ NoData.keyb = <<>> /\ NoData.key_blk = 1 /\ NoData.undo_blk = 2 /\ NoData.map = {}
  BY DEF NoData
<1>9. GoesOn(NoData, file.blks) /\ Covered(file.blks, 0) = {}
  BY <1>8, Starts
<1>10. Knows(NoData, file.blks, lost, Changed)
  BY <1>7, <1>8, <1>9 DEF Knows
<1>11. ToolSound'
  BY <1>0, <1>1, <1>3, <1>5, <1>6, <1>8, <1>9, <1>10 DEF ToolSound
<1>12. AllClean'
  BY <1>0, <1>1 DEF AllClean
<1> QED BY <1>0, <1>2, <1>4, <1>11, <1>12 DEF UndoIInv, Tools, Undoing

\* try_reopen_undo_file has found the cursors again.
Resumed(f, d) ==
  /\ d \in ToolData /\ d.map = ReopenedMap(f) /\ d.setup /\ d.num_keys = f.hdr.num_keys
  /\ GoesOn(d, f.blks)

\* It does in a file without keys,
LEMMA ResumedEmpty ==
  ASSUME Typed, KillSafe, try_reopen_undo_file, file.hdr.num_keys = 0
  PROVE  Resumed(file, data')
<1>1. data' = [map |-> ReopenedMap(file), setup |-> TRUE, num_keys |-> 0, keyb |-> <<>>,
               key_blk |-> 1, undo_blk |-> 2, finished |-> FALSE, warm |-> TRUE]
  BY DEF try_reopen_undo_file
<1>2. ReopenedMap(file) \subseteq Blocks
  BY LoadedNow
<1> HIDE DEF ReopenedMap
<1>3. data'.map = ReopenedMap(file) /\ data'.setup /\ data'.num_keys = 0
  BY <1>1
<1>4. data'.keyb = <<>> /\ data'.key_blk = 1 /\ data'.undo_blk = 2
  BY <1>1
<1>5. <<>> \in Seq(Keys)
  OBVIOUS
<1>6. data' \in ToolData
  BY <1>1, <1>2, <1>5 DEF ToolData
<1>7. GoesOn(data', file.blks)
  BY <1>3, <1>4, Starts
<1> QED BY <1>3, <1>6, <1>7 DEF Resumed

\* and in one whose last key block has room: the last key is read back, its end is where
\* the next block goes. With a full key block the tool would go on behind it.
LEMMA ResumedKeys ==
  ASSUME Typed, KillSafe, try_reopen_undo_file, file.hdr.num_keys # 0, ~ResumeFull
  PROVE  Resumed(file, data')
<1> DEFINE n == file.hdr.num_keys
           blks == file.blks
           last == BlockAt(file, KeyPlaces(file)[n].key_blk).keys
<1>1. blks \in Seq(FileBlocks) /\ n \in Nat \ {0} /\ Good(blks, n, lost) /\ ReopenedMap(file) \subseteq Blocks
  BY LoadedNow
<1>2. /\ Slot(n) # KeysPerBlock
      /\ data' = [map |-> ReopenedMap(file), setup |-> TRUE, num_keys |-> n, keyb |-> SubSeq(last, 1, Slot(n)),
                  key_blk |-> KeyPlaces(file)[n].key_blk,
                  undo_blk |-> KeyPlaces(file)[n].data_blk + Size(last[Slot(n)]), finished |-> FALSE, warm |-> TRUE]
  BY <1>1 DEF try_reopen_undo_file
<1>3. KeyPlaces(file)[n] = Place(blks, n)
  BY <1>1, KeyPlacesIs
<1>4. last = KeysOf(blks, n)
  BY <1>3 DEF BlockAt, KeysOf, At
<1> HIDE DEF last, n, blks
<1>5. Slot(n) \in DOMAIN last /\ last \in Seq(Keys) /\ last[Slot(n)] = KeyOf(blks, n)
  BY <1>1, <1>4, SizeIs DEF Good, GoodKey, KeyOf
<1>6. SizeAt(blks, n) = Size(last[Slot(n)]) /\ EndOf(blks, n) = Place(blks, n).data_blk + Size(last[Slot(n)])
  BY <1>4, <1>5 DEF SizeAt, EndOf, Size
<1>7. Slot(n) \in 1 .. KeysPerBlock /\ Slot(n + 1) = Slot(n) + 1
  BY <1>1, <1>2, SlotStep, SlotRange
<1>8. Slot(n) \in Nat /\ Slot(n) <= Len(last) /\ Slot(n + 1) # 1 /\ Slot(n) >= 1
  BY <1>5, <1>7, UndoAssumption
<1> DEFINE keyb == SubSeq(last, 1, Slot(n))
<1>9. keyb \in Seq(Keys) /\ Len(keyb) = Slot(n) /\ \A i \in 1 .. Slot(n) : keyb[i] = last[i] /\ i \in DOMAIN last
  <2> HIDE DEF Keys
  <2> QED BY <1>5, <1>8
<1>10. Place(blks, n + 1).key_blk = Place(blks, n).key_blk /\ Place(blks, n + 1).data_blk = EndOf(blks, n)
  <2>1. Place(blks, n + 1) =
           IF Slot(n + 1) = 1 THEN [key_blk |-> EndOf(blks, n), data_blk |-> EndOf(blks, n) + 1]
           ELSE [key_blk |-> Place(blks, n).key_blk, data_blk |-> EndOf(blks, n)]
    BY <1>1, PlaceStep
  <2> QED BY <2>1, <1>8
<1>11. Place(blks, n).key_blk \in Nat /\ EndOf(blks, n) \in Nat
  BY <1>1, PlaceFields
<1> HIDE DEF keyb
<1>12. data' = [map |-> ReopenedMap(file), setup |-> TRUE, num_keys |-> n, keyb |-> keyb,
                key_blk |-> Place(blks, n).key_blk, undo_blk |-> EndOf(blks, n), finished |-> FALSE, warm |-> TRUE]
  BY <1>2, <1>3, <1>6 DEF keyb
<1> HIDE DEF ReopenedMap
<1>13. /\ data'.map = ReopenedMap(file) /\ data'.setup /\ data'.num_keys = n /\ data'.keyb = keyb
       /\ data'.key_blk = Place(blks, n).key_blk /\ data'.undo_blk = EndOf(blks, n)
  BY <1>12
<1>14. data' \in ToolData
  BY <1>1, <1>9, <1>11, <1>12 DEF ToolData
<1>15. Begins(blks, Place(blks, n).key_blk, keyb)
  BY <1>4, <1>9 DEF Begins, KeysOf
<1>16. Len(keyb) = Slot(n + 1) - 1
  BY <1>7, <1>8, <1>9
<1>17. GoesOn(data', blks)
  BY <1>10, <1>13, <1>15, <1>16 DEF GoesOn, AtNext
<1> QED BY <1>13, <1>14, <1>17 DEF Resumed, n, blks

\* try_reopen_undo_file.
LEMMA StepReopen == ASSUME UndoIInv, try_reopen_undo_file, ~ResumeFull PROVE UndoIInv'
<1>0. /\ pc \in Stopped /\ pc' = "open"
      /\ UNCHANGED <<disk, dirty, file, cached, todo, lost, replay>>
  BY DEF try_reopen_undo_file
<1>1. Typed /\ KillSafe /\ AllClean /\ cached = <<>>
  BY <1>0 DEF UndoIInv, Stopped, Tools, Undoing
<1>2. Resumed(file, data')
  BY <1>1, ResumedEmpty, ResumedKeys
<1>3. /\ data' \in ToolData /\ data'.map = ReopenedMap(file) /\ data'.setup /\ data'.num_keys = file.hdr.num_keys
      /\ GoesOn(data', file.blks)
  BY <1>2 DEF Resumed
<1>4. Typed'
  BY <1>0, <1>1, <1>3 DEF Typed, Tools
<1>5. Changed' = Changed
  BY <1>0 DEF Changed
<1>6. KillSafe'
  BY <1>0, <1>1, <1>5 DEF KillSafe
<1>7. Final' = file.blks
  BY <1>0, <1>1, FlushedIs DEF Final
<1>8. Keeps(file.blks, file.hdr.num_keys, lost, Changed) /\ ReopenedMap(file) = Covered(file.blks, file.hdr.num_keys)
  BY <1>1, LoadedNow DEF Keeps
<1>9. Knows(data', file.blks, lost, Changed)
  BY <1>3, <1>8 DEF Knows
<1>10. ToolSound'
  BY <1>0, <1>1, <1>3, <1>5, <1>7, <1>9 DEF ToolSound
<1>11. AllClean'
  BY <1>0, <1>1 DEF AllClean
<1> QED BY <1>0, <1>4, <1>6, <1>10, <1>11 DEF UndoIInv, Tools, Undoing

\* Two states of the tool that differ in their flags only.
LEMMA SameTool ==
  ASSUME NEW d, NEW e, e.map = d.map, e.num_keys = d.num_keys, e.keyb = d.keyb, e.key_blk = d.key_blk,
         e.undo_blk = d.undo_blk, d.setup => e.setup, NEW blks, NEW u, NEW ch
  PROVE  /\ Knows(d, blks, u, ch) => Knows(e, blks, u, ch)
         /\ GoesOn(d, blks) => GoesOn(e, blks)
BY DEF Knows, GoesOn

\* A write begins; a new file gets room for its header.
LEMMA StepBeginWrite == ASSUME UndoIInv, BeginWrite PROVE UndoIInv'
<1>0. /\ pc = "open" /\ pc' = "save" /\ data' = [data EXCEPT !.setup = TRUE, !.warm = data.warm \/ ~data.setup]
      /\ file' = IF data.setup THEN file ELSE [file EXCEPT !.blks = Extend(file.blks, 1)]
      /\ UNCHANGED <<disk, dirty, cached, lost, replay>>
  BY DEF BeginWrite
<1>1. PICK b \in Blocks, m \in 1 .. MaxCount, v \in Values :
        /\ b + m - 1 <= Last
        /\ todo' = [from |-> b, to |-> b + m - 1, with |-> [v |-> v, clean |-> TRUE]]
  BY DEF BeginWrite
<1>2. Typed /\ KillSafe /\ AllClean /\ ToolSound
  BY <1>0 DEF UndoIInv, Tools, Undoing
<1>3. /\ Knows(data, Final, lost, Changed) /\ GoesOn(data, Final) /\ cached = <<>> /\ Final = file.blks
      /\ file.hdr.num_keys = data.num_keys /\ data \in ToolData /\ file \in Files
  BY <1>0, <1>2, FlushedIs DEF ToolSound, Final, Typed
<1>4. todo' \in Writes /\ todo'.with.clean
  <2>1. b + m - 1 \in Blocks
    BY <1>1, UndoAssumption DEF Blocks
  <2>2. [v |-> v, clean |-> TRUE] \in Contents
    BY DEF Contents
  <2> QED BY <1>1, <2>1, <2>2 DEF Writes
<1>5. /\ data' \in ToolData /\ data'.map = data.map /\ data'.num_keys = data.num_keys /\ data'.keyb = data.keyb
      /\ data'.key_blk = data.key_blk /\ data'.undo_blk = data.undo_blk /\ data'.setup
  BY <1>0, <1>3 DEF ToolData
<1>6. file.blks \in Seq(FileBlocks)
  BY <1>3, FileFields
<1>7. /\ file' \in Files /\ file'.hdr = file.hdr /\ \A p : At(file'.blks, p) = At(file.blks, p)
      /\ Len(file.blks) <= Len(file'.blks)
  <2>1. CASE data.setup
    BY <1>0, <1>3, <1>6, <2>1
  <2>2. CASE ~data.setup
    <3>1. /\ Extend(file.blks, 1) \in Seq(FileBlocks) /\ \A q : At(Extend(file.blks, 1), q) = At(file.blks, q)
          /\ Len(file.blks) <= Len(Extend(file.blks, 1))
      BY <1>6, ExtendIs
    <3>2. file' \in Files /\ file'.hdr = file.hdr /\ file'.blks = Extend(file.blks, 1)
      BY <1>0, <1>3, <2>2, <3>1, FileFields
    <3> QED BY <3>1, <3>2
  <2> QED BY <2>1, <2>2
<1> DEFINE Y == file'.blks
<1>8. Y \in Seq(FileBlocks)
  BY <1>7, FileFields
<1> HIDE DEF Y
<1>9. Knows(data, Y, lost, Changed) /\ GoesOn(data, Y) /\ Keeps(Y, data.num_keys, lost, Changed)
  BY <1>3, <1>6, <1>7, <1>8, SameBlocks DEF Y
<1>10. Changed' = Changed /\ Final' = Y
  BY <1>0, <1>3, FlushedIs DEF Changed, Final, Y
<1>11. Typed'
  BY <1>0, <1>2, <1>4, <1>5, <1>7 DEF Typed, Tools
<1>12. KillSafe'
  <2>1. Kept(<<>>, Y, data.num_keys, lost, Changed)
    BY <1>9, KeptNone
  <2> QED BY <2>1, <1>0, <1>2, <1>3, <1>7, <1>10 DEF KillSafe, Y
<1>13. Knows(data', Y, lost, Changed) /\ GoesOn(data', Y)
  BY <1>5, <1>9, SameTool
<1>14. ToolSound'
  BY <1>0, <1>3, <1>4, <1>5, <1>7, <1>10, <1>13 DEF ToolSound
<1>15. AllClean'
  BY <1>0, <1>2 DEF AllClean
<1> QED BY <1>0, <1>11, <1>12, <1>14, <1>15 DEF UndoIInv, Tools, Undoing

-----------------------------------------------------------------------------
(* Closing it. *)

\* undo_close and undo_atexit write the key block once more.
Closing(next) ==
  /\ pc = "open" /\ pc' = "close_header" /\ data' = next
  /\ cached' = IF data.keyb = <<>> THEN <<>>
               ELSE <<[at |-> data.key_blk, blk |-> KeyBlockOf(data.keyb)]>>
  /\ UNCHANGED <<disk, dirty, file, todo, lost, replay>>

\* It is written where it was, and loses no key.
LEMMA StepClosing ==
  ASSUME UndoIInv, NEW d \in ToolData, Closing(d), d.map = data.map, d.num_keys = data.num_keys, d.keyb = data.keyb,
         d.key_blk = data.key_blk, d.undo_blk = data.undo_blk, d.setup = data.setup
  PROVE  UndoIInv'
<1>0. /\ pc = "open" /\ pc' = "close_header" /\ data' = d
      /\ UNCHANGED <<disk, dirty, file, todo, lost, replay>>
  BY DEF Closing
<1>1. Typed /\ KillSafe /\ AllClean /\ ToolSound
  BY <1>0 DEF UndoIInv, Tools, Undoing
<1>2. /\ Knows(data, Final, lost, Changed) /\ GoesOn(data, Final) /\ cached = <<>> /\ Final = file.blks
      /\ file.hdr.num_keys = data.num_keys /\ data \in ToolData /\ file \in Files
  BY <1>0, <1>1, FlushedIs DEF ToolSound, Final, Typed
<1>3. file.blks \in Seq(FileBlocks)
  BY <1>2, FileFields
<1>4. Keeps(file.blks, data.num_keys, lost, Changed)
  BY <1>2 DEF Knows
<1>5. /\ cached' \in Seq(CacheWrites) /\ Len(cached') <= 2
      /\ Kept(cached', file.blks, data.num_keys, lost, Changed)
      /\ Knows(data, Flushed(file.blks, cached'), lost, Changed) /\ GoesOn(data, Flushed(file.blks, cached'))
  <2>1. CASE data.keyb = <<>>
    <3>1. cached' = <<>>
      BY <2>1 DEF Closing
    <3>2. Flushed(file.blks, cached') = file.blks
      BY <3>1, FlushedIs
    <3> QED BY <3>1, <3>2, <1>2, <1>4, KeptNone, IdleTypes
  <2>2. CASE data.keyb # <<>>
    <3> DEFINE a == [at |-> data.key_blk, blk |-> KeyBlockOf(data.keyb)]
               Y == Put(file.blks, a)
    <3>1. cached' = <<a>>
      BY <2>2 DEF Closing
    <3>2. Knows(data, Y, lost, Changed) /\ GoesOn(data, Y) /\ Keeps(Y, data.num_keys, lost, Changed) /\ a \in CacheWrites
      BY <1>2, <1>3, KeyBlockAgain
    <3> HIDE DEF a
    <3>3. Flushed(file.blks, cached') = Y
      BY <3>1, FlushedIs
    <3>4. Kept(<<a>>, file.blks, data.num_keys, lost, Changed)
      BY <1>4, <3>2, KeptOne
    <3>5. <<a>> \in Seq(CacheWrites) /\ Len(<<a>>) <= 2
      BY <3>2
    <3> HIDE DEF Y
    <3> QED BY <3>1, <3>2, <3>3, <3>4, <3>5
  <2> QED BY <2>1, <2>2
<1>6. Final' = Flushed(file.blks, cached') /\ Changed' = Changed
  BY <1>0 DEF Final, Changed
<1>7. Typed'
  BY <1>0, <1>1, <1>5 DEF Typed, Tools
<1>8. KillSafe'
  BY <1>0, <1>1, <1>2, <1>5, <1>6 DEF KillSafe
<1>9. Knows(d, Final', lost, Changed) /\ GoesOn(d, Final')
  BY <1>5, <1>6, SameTool
<1>10. ToolSound'
  BY <1>0, <1>2, <1>6, <1>9 DEF ToolSound
<1>11. AllClean'
  BY <1>0, <1>1 DEF AllClean
<1> QED BY <1>0, <1>7, <1>8, <1>10, <1>11 DEF UndoIInv, Tools, Undoing

\* undo_close.
LEMMA StepClose == ASSUME UndoIInv, undo_close PROVE UndoIInv'
<1> DEFINE d == [data EXCEPT !.finished = TRUE]
<1>1. data \in ToolData
  BY DEF UndoIInv, Typed
<1>2. /\ d \in ToolData /\ d.map = data.map /\ d.num_keys = data.num_keys /\ d.keyb = data.keyb
      /\ d.key_blk = data.key_blk /\ d.undo_blk = data.undo_blk /\ d.setup = data.setup
  BY <1>1 DEF ToolData
<1>3. Closing(d)
  BY DEF undo_close, Closing
<1> HIDE DEF d
<1> QED BY <1>2, <1>3, StepClosing

\* undo_atexit.
LEMMA StepAtexit == ASSUME UndoIInv, undo_atexit PROVE UndoIInv'
<1>1. data \in ToolData
  BY DEF UndoIInv, Typed
<1>2. Closing(data)
  BY DEF undo_atexit, Closing
<1> QED BY <1>1, <1>2, StepClosing

\* The header counts the new key once data and key block are written.
LEMMA StepIndexHeader == ASSUME UndoIInv, IndexHeader PROVE UndoIInv'
<1>0. pc = "header" /\ WriteHeader("super") /\ UNCHANGED <<todo, lost, replay>>
  BY DEF IndexHeader
<1>1. Typed /\ KillSafe /\ AllClean /\ ToolSound
  BY <1>0 DEF UndoIInv, Tools, Undoing
<1>2. pc' = "super" /\ data' = Emptied(NextKeyBlock(data)) /\ UNCHANGED lost
  BY <1>0 DEF WriteHeader
<1>3. Knows(data, Final, lost, Changed) /\ HasAdded(data, Final) /\ data.setup /\ todo.with.clean
  BY <1>0, <1>1 DEF ToolSound
<1>4. Indexed(Final)
  BY <1>0, <1>1, <1>2, <1>3, HeaderWritten
<1>5. /\ disk' \in [Blocks -> Contents] /\ dirty' = Clean /\ cached' = <<>>
      /\ file' \in Files /\ file'.blks = Final /\ file'.hdr.num_keys = data.num_keys
      /\ Changed' \subseteq Changed /\ AllClean' /\ KillSafe' /\ Final' = Final
  BY <1>4 DEF Indexed
<1>6. data \in ToolData /\ Final \in Seq(FileBlocks)
  BY <1>1, FlushedTypes, FileFields DEF Typed, Final
<1>7. /\ data' \in ToolData /\ data'.map = data.map /\ data'.setup = data.setup /\ data'.num_keys = data.num_keys
  BY <1>2, <1>6, NextKeyBlockIs, EmptiedIs
<1>8. GoesOn(data', Final)
  <2>1. GoesOn(NextKeyBlock(data), Final) /\ NextKeyBlock(data) \in ToolData
    BY <1>3, <1>6, MovesOn, NextKeyBlockIs
  <2> QED BY <2>1, <1>2, EmptiedIs DEF GoesOn
<1>9. Knows(data, Final, lost, Changed')
  BY <1>3, <1>5, KnowsLess DEF AsksLess
<1>10. Knows(data', Final, lost, Changed')
  BY <1>7, <1>9 DEF Knows
<1>11. Typed'
  BY <1>0, <1>1, <1>2, <1>5, <1>7, IdleTypes DEF Typed, Tools
<1>12. ToolSound'
  BY <1>0, <1>2, <1>3, <1>5, <1>7, <1>8, <1>10 DEF ToolSound
<1> QED BY <1>2, <1>5, <1>11, <1>12 DEF UndoIInv, Tools, Undoing

\* The header that closes the file.
LEMMA StepCloseHeader == ASSUME UndoIInv, CloseHeader PROVE UndoIInv'
<1>0. pc = "close_header" /\ WriteHeader("close_super") /\ UNCHANGED <<todo, lost, replay>>
  BY DEF CloseHeader
<1>1. Typed /\ KillSafe /\ AllClean /\ ToolSound
  BY <1>0 DEF UndoIInv, Tools, Undoing
<1>2. pc' = "close_super" /\ data' = Emptied(NextKeyBlock(data)) /\ UNCHANGED lost
  BY <1>0 DEF WriteHeader
<1>3. Knows(data, Final, lost, Changed)
  BY <1>1 DEF ToolSound
<1>4. Indexed(Final)
  BY <1>0, <1>1, <1>2, <1>3, HeaderWritten
<1>5. /\ disk' \in [Blocks -> Contents] /\ dirty' = Clean /\ cached' = <<>>
      /\ file' \in Files /\ file'.blks = Final /\ file'.hdr.num_keys = data.num_keys
      /\ file'.hdr.sb_crc = disk'[SuperBlk] /\ file'.hdr.magic
      /\ Changed' \subseteq Changed /\ AllClean' /\ KillSafe' /\ Final' = Final
  BY <1>4 DEF Indexed
<1>6. data \in ToolData
  BY <1>1 DEF Typed
<1>7. /\ data' \in ToolData /\ data'.map = data.map /\ data'.setup = data.setup /\ data'.num_keys = data.num_keys
  BY <1>2, <1>6, NextKeyBlockIs, EmptiedIs
<1>8. Knows(data, Final, lost, Changed')
  BY <1>3, <1>5, KnowsLess DEF AsksLess
<1>9. Knows(data', Final, lost, Changed')
  BY <1>7, <1>8 DEF Knows
<1>10. Typed'
  BY <1>0, <1>1, <1>2, <1>5, <1>7, IdleTypes DEF Typed, Tools
<1>11. ToolSound'
  BY <1>0, <1>2, <1>5, <1>7, <1>9 DEF ToolSound, Clean
<1> QED BY <1>2, <1>5, <1>10, <1>11 DEF UndoIInv, Tools, Undoing

-----------------------------------------------------------------------------
(* Saving blocks and writing. *)

\* A tool that is saving blocks.
Saving ==
  /\ Typed /\ KillSafe /\ AllClean /\ ToolSound
  /\ disk \in [Blocks -> Contents] /\ dirty \in [Blocks -> Contents \cup {Nothing}]
  /\ data \in ToolData /\ file \in Files /\ file.blks \in Seq(FileBlocks)
  /\ todo.from .. todo.to \subseteq Blocks /\ todo.with \in Contents /\ todo.with.clean
  /\ Knows(data, file.blks, lost, Changed) /\ GoesOn(data, file.blks)
  /\ cached = <<>> /\ Final = file.blks /\ file.hdr.num_keys = data.num_keys /\ data.setup

\* That is what the invariant says of it.
LEMMA IsSaving == ASSUME UndoIInv, pc = "save" PROVE Saving
<1>1. Typed /\ KillSafe /\ AllClean /\ ToolSound
  BY DEF UndoIInv, Tools, Undoing
<1>2. /\ disk \in [Blocks -> Contents] /\ dirty \in [Blocks -> Contents \cup {Nothing}]
      /\ data \in ToolData /\ file \in Files /\ todo \in Writes
  BY <1>1 DEF Typed, AllClean
<1>3. file.blks \in Seq(FileBlocks)
  BY <1>2, FileFields
<1>4. todo.from .. todo.to \subseteq Blocks /\ todo.with \in Contents
  <2>1. todo.from \in Blocks /\ todo.to \in Blocks /\ todo.with \in Contents
    BY <1>2 DEF Writes
  <2> QED BY <2>1, UndoAssumption DEF Blocks
<1>5. cached = <<>> /\ Final = file.blks
  BY <1>1, FlushedIs DEF ToolSound, Final
<1>6. /\ Knows(data, file.blks, lost, Changed) /\ GoesOn(data, file.blks)
      /\ file.hdr.num_keys = data.num_keys /\ data.setup /\ todo.with.clean
  BY <1>1, <1>5 DEF ToolSound
<1> QED BY <1>1, <1>2, <1>3, <1>4, <1>5, <1>6 DEF Saving

\* The next block to save is a block of the file system that is not marked.
LEMMA NextUnsavedIs ==
  ASSUME Saving, Unsaved # {}
  PROVE  NextUnsaved \in Blocks /\ NextUnsaved \notin data.map
<1>1. Unsaved \subseteq Blocks
  BY DEF Saving, Unsaved
<1>2. Unsaved \subseteq Nat
  BY <1>1, UndoAssumption DEF Blocks
<1>3. \E x \in Unsaved : \A y \in Unsaved : x <= y
  BY <1>2, NatMin
<1>4. NextUnsaved \in Unsaved
  BY <1>3 DEF NextUnsaved
<1> QED BY <1>1, <1>4 DEF Unsaved

\* Only marked blocks are written, and those are saved or could not be.
LEMMA StepRealWrite == ASSUME UndoIInv, RealWrite PROVE UndoIInv'
<1>0. /\ pc = "save" /\ Unsaved = {} /\ pc' = "open" /\ todo' = NoWrite
      /\ dirty' = [b \in Blocks |-> IF b \in todo.from .. todo.to THEN todo.with ELSE dirty[b]]
      /\ UNCHANGED <<disk, file, cached, data, lost, replay>>
  BY DEF RealWrite
<1>1. Saving
  BY <1>0, IsSaving
<1>2. \A b \in Blocks : dirty'[b] = IF b \in todo.from .. todo.to THEN todo.with ELSE dirty[b]
  BY <1>0
<1>3. dirty' \in [Blocks -> Contents \cup {Nothing}]
  <2>1. \A b \in Blocks : dirty'[b] \in Contents \cup {Nothing}
    BY <1>1, <1>2 DEF Saving
  <2> QED BY <1>0, <2>1
<1>4. Typed'
  BY <1>0, <1>1, <1>3, IdleTypes DEF Typed, Tools, Saving
<1> DEFINE n == data.num_keys
<1>5. /\ Good(file.blks, n, lost) /\ Changed \subseteq Covered(file.blks, n)
      /\ Covered(file.blks, n) \subseteq data.map /\ data.map \ lost.unread \subseteq Covered(file.blks, n)
      /\ n > 0 => data.setup
  BY <1>1 DEF Saving, Knows, Keeps
<1>6. Changed' \subseteq Covered(file.blks, n)
  <2> SUFFICES ASSUME NEW c \in Blocks, c \notin lost.unread, disk[c].v # Original.v \/ dirty'[c] # Nothing
               PROVE  c \in Covered(file.blks, n)
    BY <1>0 DEF Changed
  <2>1. CASE c \in todo.from .. todo.to
    <3>1. c \in data.map
      BY <1>0, <2>1 DEF Unsaved
    <3> QED BY <3>1, <1>5
  <2>2. CASE c \notin todo.from .. todo.to
    <3>1. c \in Changed
      BY <1>2, <2>2 DEF Changed
    <3> QED BY <3>1, <1>5
  <2> QED BY <2>1, <2>2
<1>7. Keeps(file.blks, n, lost, Changed')
  BY <1>5, <1>6 DEF Keeps
<1>8. Knows(data, file.blks, lost, Changed')
  BY <1>5, <1>7 DEF Knows
<1>9. Final' = file.blks
  BY <1>0, <1>1 DEF Final, Saving
<1>10. KillSafe'
  <2>1. Kept(<<>>, file.blks, n, lost, Changed')
    BY <1>7, KeptNone
  <2> QED BY <2>1, <1>0, <1>1 DEF KillSafe, Saving
<1>11. ToolSound'
  BY <1>0, <1>1, <1>8, <1>9 DEF ToolSound, Saving
<1>12. AllClean'
  <2> SUFFICES ASSUME NEW c \in Blocks PROVE disk'[c].clean /\ (dirty'[c] # Nothing => dirty'[c].clean)
    BY <1>0, <1>1 DEF AllClean, Saving
  <2> QED BY <1>0, <1>1, <1>2 DEF AllClean, Saving
<1> QED BY <1>0, <1>4, <1>10, <1>11, <1>12 DEF UndoIInv, Tools, Undoing

\* What marking a block changes.
LEMMA MarkedIs ==
  ASSUME NEW d \in ToolData, NEW b \in Blocks
  PROVE  LET e == Marked(d, b) IN
         /\ e \in ToolData /\ e.map = d.map \cup {b} /\ e.num_keys = d.num_keys /\ e.keyb = d.keyb
         /\ e.key_blk = d.key_blk /\ e.undo_blk = d.undo_blk /\ e.setup = d.setup
<1> HIDE DEF Keys, Blocks
<1> QED BY DEF Marked, ToolData

\* The block joins those that could not be saved.
LEMMA StepSaveBlockFails == ASSUME UndoIInv, SaveBlockFails PROVE UndoIInv'
<1> DEFINE b == NextUnsaved
<1>0. /\ pc = "save" /\ Unsaved # {} /\ pc' = "open" /\ todo' = NoWrite
      /\ data' = Marked(data, b) /\ lost' = [lost EXCEPT !.unread = lost.unread \cup {b}]
      /\ UNCHANGED <<disk, dirty, file, cached, replay>>
  BY DEF SaveBlockFails
<1>1. Saving
  BY <1>0, IsSaving
<1>2. b \in Blocks
  BY <1>0, <1>1, NextUnsavedIs
<1> HIDE DEF b
<1>3. data \in ToolData
  BY <1>1 DEF Saving
<1>4. /\ data' \in ToolData /\ data'.map = data.map \cup {b} /\ data'.num_keys = data.num_keys /\ data'.keyb = data.keyb
      /\ data'.key_blk = data.key_blk /\ data'.undo_blk = data.undo_blk /\ data'.setup = data.setup
  BY <1>0, <1>2, <1>3, MarkedIs
<1>l. lost' \in Losses /\ lost'.unread = lost.unread \cup {b} /\ lost'.torn = lost.torn
  <2>1. lost \in Losses
    BY <1>1 DEF Saving, Typed
  <2> QED BY <2>1, <1>0, <1>2 DEF Losses
<1>5. AsksLess(lost, lost') /\ b \in lost'.unread /\ Changed' \subseteq Changed
  BY <1>0, <1>l DEF Changed, AsksLess
<1>6. Typed'
  BY <1>0, <1>1, <1>2, <1>4, <1>l, IdleTypes DEF Typed, Tools, Saving
<1>7. Final' = file.blks
  BY <1>0, <1>1 DEF Final, Saving
<1>8. KillSafe'
  <2>1. KillSafe
    BY <1>1 DEF Saving
  <2>2. Kept(cached, file.blks, file.hdr.num_keys, lost', Changed')
    BY <2>1, <1>5, KeptLess DEF KillSafe
  <2> QED BY <2>1, <2>2, <1>0 DEF KillSafe
<1>9. Knows(data, file.blks, lost', Changed')
  BY <1>1, <1>5, KnowsLess DEF Saving
<1>10. Knows(data', file.blks, lost', Changed')
  BY <1>4, <1>5, <1>9 DEF Knows
<1>11. GoesOn(data', file.blks)
  BY <1>1, <1>4 DEF GoesOn, Saving
<1>12. ToolSound'
  BY <1>0, <1>1, <1>4, <1>7, <1>10, <1>11 DEF ToolSound, Saving
<1>13. AllClean'
  BY <1>0, <1>1 DEF AllClean, Saving
<1> QED BY <1>0, <1>6, <1>8, <1>12, <1>13 DEF UndoIInv, Tools, Undoing

\* A block that is not marked has its original contents.
LEMMA OldIsOriginal ==
  ASSUME Saving, NEW b \in Blocks, b \notin data.map
  PROVE  Read(b) \in Contents /\ (b \notin lost.unread => Read(b) = Original)
<1>1. disk[b] \in Contents /\ (dirty[b] = Nothing \/ dirty[b] \in Contents) /\ disk[b].clean
  BY DEF Saving, AllClean
<1>2. ASSUME b \notin lost.unread PROVE Read(b) = Original
  <2>1. b \notin Changed
    BY DEF Saving, Knows, Keeps
  <2>2. disk[b].v = Original.v /\ dirty[b] = Nothing
    BY <2>1, <1>2 DEF Changed
  <2>3. disk[b] = Original
    BY <1>1, <2>2 DEF Contents, Original
  <2> QED BY <2>2, <2>3 DEF Read
<1>3. Read(b) \in Contents
  BY <1>1 DEF Read
<1> QED BY <1>2, <1>3

\* Data and key block wait in the cache: whichever of them a kill leaves unwritten,
\* the keys the header counts are sound.
LEMMA StepSaveBlock == ASSUME UndoIInv, SaveBlock PROVE UndoIInv'
<1> DEFINE b == NextUnsaved
           old == Read(b)
           keys == Keyed(data.keyb, b, old)
           n == data.num_keys
           more == IF Extends(data.keyb, b) THEN n ELSE n + 1
           w1 == [at |-> data.undo_blk, blk |-> DataBlock(old)]
           w2 == [at |-> data.key_blk, blk |-> KeyBlockOf(keys)]
           X == Put(file.blks, w1)
           Y == Put(X, w2)
<1>0. /\ pc = "save" /\ Unsaved # {} /\ pc' = "header" /\ cached' = <<w1, w2>>
      /\ data' = [Marked(data, b) EXCEPT !.keyb = keys,
                      !.num_keys = IF Extends(data.keyb, b) THEN @ ELSE @ + 1, !.undo_blk = @ + 1]
      /\ UNCHANGED <<disk, dirty, file, todo, lost, replay>>
  BY DEF SaveBlock
<1>1. Saving
  BY <1>0, IsSaving
<1>2. b \in Blocks /\ b \notin data.map
  BY <1>0, <1>1, NextUnsavedIs
<1> HIDE DEF b
<1>3. old \in Contents /\ (b \notin lost.unread => old = Original)
  BY <1>1, <1>2, OldIsOriginal
<1> HIDE DEF old
<1>4. data \in ToolData /\ file.blks \in Seq(FileBlocks) /\ n \in Nat /\ data.keyb \in Seq(Keys) /\ data.undo_blk \in Nat
  BY <1>1, ToolFields DEF Saving
<1>5. /\ Good(file.blks, n, lost) /\ Changed \subseteq Covered(file.blks, n)
      /\ Covered(file.blks, n) \subseteq data.map /\ data.map \ lost.unread \subseteq Covered(file.blks, n)
      /\ AtNext(file.blks, n, data.key_blk, data.undo_blk, data.keyb)
  BY <1>1 DEF Saving, Knows, Keeps, GoesOn
<1>6. Saves(file.blks, n, data.key_blk, data.undo_blk, data.keyb, b, old, lost)
  BY <1>2, <1>3, <1>4, <1>5 DEF Saves
<1>7. Good(X, n, lost) /\ Covered(X, n) = Covered(file.blks, n)
  BY <1>6, SaveData
<1>8. SavedKeys(file.blks, n, more, Y, lost, b, data.key_blk, data.undo_blk, keys)
  BY <1>6, AppendKey, ExtendKey
<1>9. SavesFacts(n, data.key_blk, data.undo_blk, data.keyb, b, old)
  BY <1>6, SavesTypes
<1>10. more \in Nat
  BY <1>4
<1> HIDE DEF keys, n, more
<1>11. /\ Y \in Seq(FileBlocks) /\ keys \in Seq(Keys)
       /\ Good(Y, n, lost) /\ Covered(file.blks, n) \subseteq Covered(Y, n)
       /\ Good(Y, more, lost) /\ Covered(Y, more) = Covered(file.blks, n) \cup {b}
       /\ AtLast(Y, more, data.key_blk, data.undo_blk + 1, keys)
  BY <1>8 DEF SavedKeys
<1>12. w1 \in CacheWrites /\ w2 \in CacheWrites
  <2>1. more \in Nat \ {0} /\ Len(keys) = Slot(more)
    BY <1>10, <1>11 DEF AtLast
  <2>2. Len(keys) <= KeysPerBlock
    BY <2>1, SlotRange, UndoAssumption
  <2>3. KeyBlockOf(keys) \in FileBlocks
    BY <2>2, <1>11, KeyBlockIs
  <2> QED BY <2>3, <1>9 DEF SavesFacts, CacheWrites
<1> HIDE DEF w1, w2
<1>13. cached' \in Seq(CacheWrites) /\ Len(cached') <= 2
  <2>1. <<w1, w2>> \in Seq(CacheWrites) /\ Len(<<w1, w2>>) <= 2
    BY <1>12
  <2> QED BY <1>0, <2>1
<1>14. Final' = Y /\ Changed' = Changed
  <2>1. Flushed(file.blks, <<w1, w2>>) = Y
    <3> HIDE DEF X
    <3>1. Flushed(file.blks, <<w1, w2>>) = Put(Put(file.blks, w1), w2)
      BY DEF Flushed
    <3> QED BY <3>1 DEF X
  <2> HIDE DEF Y
  <2>2. Final' = Flushed(file.blks, <<w1, w2>>)
    BY <1>0 DEF Final
  <2>3. Changed' = Changed
    BY <1>0 DEF Changed
  <2> QED BY <2>1, <2>2, <2>3
<1>15. Keeps(file.blks, n, lost, Changed) /\ Keeps(X, n, lost, Changed) /\ Keeps(Y, n, lost, Changed)
       /\ Keeps(Y, more, lost, Changed)
  BY <1>5, <1>7, <1>11 DEF Keeps
<1>16. Kept(<<w1, w2>>, file.blks, n, lost, Changed)
  BY <1>15, KeptTwo
<1> HIDE DEF X, Y
<1>17. /\ data' \in ToolData /\ data'.map = data.map \cup {b} /\ data'.num_keys = more /\ data'.keyb = keys
       /\ data'.key_blk = data.key_blk /\ data'.undo_blk = data.undo_blk + 1 /\ data'.setup = data.setup
  <2> DEFINE e == Marked(data, b)
  <2>1. /\ e \in ToolData /\ e.map = data.map \cup {b} /\ e.num_keys = n /\ e.keyb = data.keyb
        /\ e.key_blk = data.key_blk /\ e.undo_blk = data.undo_blk /\ e.setup = data.setup
    BY <1>2, <1>4, MarkedIs DEF n
  <2> HIDE DEF e
  <2>2. data' = [e EXCEPT !.keyb = keys, !.num_keys = more, !.undo_blk = data.undo_blk + 1]
    BY <1>0, <2>1 DEF e, more, ToolData
  <2>3. data.undo_blk + 1 \in Nat
    BY <1>4
  <2> HIDE DEF Keys
  <2> QED BY <2>1, <2>2, <2>3, <1>10, <1>11 DEF ToolData
<1>18. Typed'
  BY <1>0, <1>1, <1>13, <1>17 DEF Typed, Tools, Saving
<1>19. KillSafe'
  BY <1>0, <1>1, <1>14, <1>16 DEF KillSafe, Saving, n
<1>20. Knows(data', Y, lost, Changed)
  BY <1>1, <1>5, <1>11, <1>15, <1>17 DEF Knows, Saving
<1>21. HasAdded(data', Y)
  BY <1>11, <1>17 DEF HasAdded
<1> DEFINE Z == Put(file.blks, w2)
<1>t. Tearing'
  <2>1. cached'[2] = w2
    BY <1>0
  <2>2. Extends(data.keyb, b) => Torn' = BlocksOf(Longer(data.keyb, old))
    <3> SUFFICES ASSUME Extends(data.keyb, b) PROVE Torn' = BlocksOf(Longer(data.keyb, old))
      OBVIOUS
    <3>1. more = n /\ keys[Len(keys)] = Longer(data.keyb, old)
      <4>1. LengthenedTo(keys, Longer(data.keyb, old), data.keyb[Len(data.keyb)], data.keyb, b, old)
        BY <1>6, ExtendedKeys DEF keys
      <4> QED BY <4>1 DEF LengthenedTo, more
    <3>2. file'.hdr.num_keys = data'.num_keys /\ data'.keyb = keys
      BY <3>1, <1>0, <1>1, <1>17 DEF Saving, n
    <3> QED BY <3>1, <3>2 DEF Torn, KeyBlocks, BlocksOf
  <2>3. lost \in Losses
    BY <1>1 DEF Saving, Typed
  <2> DEFINE v == AlsoTorn'
  <2>4. v = [lost EXCEPT !.torn = lost.torn \cup Torn']
    BY <1>0 DEF AlsoTorn
  <2> HIDE DEF v
  <2>5. v.unread = lost.unread /\ v.torn = lost.torn \cup Torn'
    BY <2>3, <2>4 DEF Losses
  <2>6. AsksLess(lost, v) /\ (Extends(data.keyb, b) => BlocksOf(Longer(data.keyb, old)) \subseteq v.torn)
    BY <2>2, <2>5 DEF AsksLess
  <2>7. Z = Put(file.blks, [at |-> data.key_blk, blk |-> KeyBlockOf(Keyed(data.keyb, b, old))])
    BY DEF w2, keys
  <2> HIDE DEF Z
  <2>8. Good(Z, n, v) /\ Covered(file.blks, n) \subseteq Covered(Z, n)
    BY <1>6, <2>6, <2>7, TearKey
  <2>9. Keeps(Z, n, v, Changed)
    BY <2>8, <1>5 DEF Keeps
  <2>10. file' = file /\ file.hdr.num_keys = n
    BY <1>0, <1>1 DEF Saving, n
  <2> QED BY <2>1, <2>9, <2>10, <1>12, <1>14 DEF Tearing, Z, v
<1>22. ToolSound'
  BY <1>0, <1>1, <1>14, <1>17, <1>20, <1>21, <1>t DEF ToolSound, Saving
<1>23. AllClean'
  BY <1>0, <1>1 DEF AllClean, Saving
<1> QED BY <1>0, <1>18, <1>19, <1>22, <1>23 DEF UndoIInv, Tools, Undoing

-----------------------------------------------------------------------------
(* The theorems. *)

\* The initial state.
LEMMA UndoStarts == ASSUME Init PROVE UndoIInv
<1>0. /\ disk = [b \in Blocks |-> Original] /\ dirty = Clean
      /\ file = EmptyFile /\ cached = <<>> /\ data = NoData
      /\ pc = "idle" /\ todo = NoWrite /\ lost = NoLoss /\ replay = NoReplay
  BY DEF Init
<1>1. disk \in [Blocks -> Contents] /\ lost \in Losses
  BY <1>0, BlockTypes DEF NoLoss, Losses
<1>2. Typed
  BY <1>0, <1>1, IdleTypes DEF Typed, Stopped
<1>3. Changed = {}
  BY <1>0 DEF Changed, Clean
<1>4. file.hdr.num_keys = 0
  BY <1>0 DEF EmptyFile, NoHeader
<1>5. Keeps(file.blks, 0, lost, Changed)
  BY <1>3 DEF Keeps, Good
<1>6. Kept(<<>>, file.blks, 0, lost, Changed)
  BY <1>5, KeptNone
<1>7. KillSafe
  BY <1>0, <1>4, <1>6 DEF KillSafe
<1>8. AllClean
  BY <1>0, <1>1 DEF AllClean, Clean, Original
<1> QED BY <1>0, <1>2, <1>7, <1>8 DEF UndoIInv, Tools, Undoing

\* A step that changes nothing.
LEMMA UndoStutters == ASSUME UndoIInv, UNCHANGED vars PROVE UndoIInv'
<1>0. UNCHANGED <<disk, dirty, file, cached, data, pc, todo, lost, replay>>
  BY DEF vars
<1>1. Changed' = Changed /\ Final' = Final
  BY <1>0 DEF Changed, Final
<1>2. Typed' <=> Typed
  BY <1>0 DEF Typed
<1>3. KillSafe' <=> KillSafe
  BY <1>0, <1>1 DEF KillSafe
<1>4. ToolSound' <=> ToolSound
  BY <1>0, <1>1 DEF ToolSound, Clean, Tearing, AlsoTorn, Torn
<1>5. AllClean' <=> AllClean
  BY <1>0 DEF AllClean
<1>6. LoadedKeys(file)' = LoadedKeys(file)
  BY <1>0, FileStays
<1>7. UndoingSound' <=> UndoingSound
  BY <1>0, <1>6 DEF UndoingSound
<1> QED BY <1>0, <1>2, <1>3, <1>4, <1>5, <1>7 DEF UndoIInv, Clean

\* Every step keeps the invariant.
LEMMA UndoKeeps == ASSUME UndoIInv, [Next]_vars, ~ResumeFull PROVE UndoIInv'
<1>1. CASE undo_open BY <1>1, StepUndoOpen
<1>2. CASE try_reopen_undo_file BY <1>2, StepReopen
<1>3. CASE BeginWrite BY <1>3, StepBeginWrite
<1>4. CASE SaveBlock BY <1>4, StepSaveBlock
<1>5. CASE SaveBlockFails BY <1>5, StepSaveBlockFails
<1>6. CASE IndexHeader BY <1>6, StepIndexHeader
<1>7. CASE IndexSuper BY <1>7, StepIndexSuper
<1>8. CASE RealWrite BY <1>8, StepRealWrite
<1>9. CASE Evict BY <1>9, StepEvict
<1>10. CASE undo_close BY <1>10, StepClose
<1>11. CASE undo_atexit BY <1>11, StepAtexit
<1>12. CASE CloseHeader BY <1>12, StepCloseHeader
<1>13. CASE CloseSuper BY <1>13, StepCloseSuper
<1>14. CASE Kill BY <1>14, StepKill
<1>20. CASE KillBetween BY <1>20, StepKillBetween
<1>15. CASE e2undo BY <1>15, StepE2undo
<1>16. CASE ReplayKey BY <1>16, StepReplayKey
<1>17. CASE ReplayDone BY <1>17, StepReplayDone
<1>18. CASE KillReplay BY <1>18, StepKillReplay
<1>19. CASE UNCHANGED vars BY <1>19, UndoStutters
<1> QED BY <1>1, <1>2, <1>3, <1>4, <1>5, <1>6, <1>7, <1>8, <1>9, <1>10, <1>11, <1>12, <1>13, <1>14,
           <1>15, <1>16, <1>17, <1>18, <1>19, <1>20 DEF Next

\* The invariant implies that changed blocks are saved,
LEMMA SoundIsSaved == ASSUME UndoIInv PROVE SavedBeforeChanged
<1>1. Typed /\ KillSafe
  BY DEF UndoIInv
<1> SUFFICES ASSUME NEW b \in Blocks \ (lost.unread \cup lost.torn), disk[b].v # Original.v
             PROVE  file.hdr.sized /\ KeysReadable(file) /\ Saved(b) = {Original}
  BY DEF SavedBeforeChanged
<1>2. b \in Changed
  BY DEF Changed
<1>3. /\ b \in Covered(file.blks, file.hdr.num_keys) /\ KeysReadable(file) /\ file.hdr.num_keys \in Nat
      /\ \E key \in LoadedKeys(file) : b \in KeyBlocks(key)
      /\ \A key \in LoadedKeys(file) : LoadedAs(file, key, lost)
  BY <1>1, <1>2, LoadedNow
<1>4. \A key \in LoadedKeys(file) : b \in KeyBlocks(key) => Fetched(file, key) /\ Extent(file, key)[b - key.fsblk + 1] = Original
  BY <1>3 DEF LoadedAs
<1>5. Saved(b) = {Original}
  BY <1>3, <1>4 DEF Saved
<1>6. file.hdr.num_keys > 0
  <2>1. PICK k \in 1 .. file.hdr.num_keys : TRUE
    BY <1>3 DEF Covered
  <2> QED BY <2>1, <1>3
<1> QED BY <1>1, <1>3, <1>5, <1>6 DEF KillSafe

\* that a finished replay has restored them, and that e2undo accepts the file of a tool
\* that has ended.
LEMMA SoundWorks == ASSUME UndoIInv PROVE UndoWorks
<1>1. Typed /\ KillSafe
  BY DEF UndoIInv
<1>2. UndoRestores
  BY DEF UndoIInv, UndoRestores, UndoingSound, Undoing
<1>3. KeysReadable(file) /\ (lost.torn = {} => BlocksMatch(file))
  BY <1>1, LoadedNow
<1>4. pc = "ended" => file.super = disk[SuperBlk] /\ file.hdr.sb_crc = disk[SuperBlk] /\ file.hdr.magic
  BY DEF UndoIInv
<1>5. EndedIsAccepted
  BY <1>3, <1>4 DEF EndedIsAccepted, Accepts, Usable, check_filesystem
<1> QED BY <1>2, <1>5 DEF UndoWorks

\* For every size of the file system, of the key blocks and of the extents, every
\* sequence of sessions, writes, kills and failing reads: at every moment, the undo file a
\* kill would leave has the original contents of every block changed on the device, if
\* undo files with a full last key block are not resumed.  The blocks that could not be
\* read are excepted, and those of a key that a kill left without its data: when the key
\* block had its slot in the cache first (flush_cached_blocks) and the key was extended.
THEOREM OldContentsAreSaved == ASSUME ~ResumeFull PROVE Spec => []SavedBeforeChanged
<1>1. Init => UndoIInv
  BY UndoStarts
<1>2. UndoIInv /\ [Next]_vars => UndoIInv'
  BY UndoKeeps
<1>3. UndoIInv => SavedBeforeChanged
  BY SoundIsSaved
<1> QED BY <1>1, <1>2, <1>3, PTL DEF Spec

\* Under the same hypothesis e2undo, however often it was interrupted before, restores
\* every block but those when it ends, and accepts the file of a tool that has ended if no
\* key was left without its data.
THEOREM UndoPutsBack == ASSUME ~ResumeFull PROVE Spec => []UndoWorks
<1>1. Init => UndoIInv
  BY UndoStarts
<1>2. UndoIInv /\ [Next]_vars => UndoIInv'
  BY UndoKeeps
<1>3. UndoIInv => UndoWorks
  BY SoundWorks
<1> QED BY <1>1, <1>2, <1>3, PTL DEF Spec

=============================================================================
