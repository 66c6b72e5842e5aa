----------------------------- MODULE InodeCache -----------------------------
(***************************************************************************)
(* Reading and writing single inodes (lib/ext2fs/inode.c): a few inodes    *)
(* are cached, in slots that are reused in turn, and one block of the      *)
(* inode table is kept in a buffer, through which every inode is read and  *)
(* written.  An inode has a main part, which every caller knows, an extra  *)
(* part, which callers with the old struct leave alone, and a checksum.    *)
(***************************************************************************)
EXTENDS Integers, Sequences, FiniteSets

CONSTANTS
    TableInodes,        \* inode numbers
    InodesPerTableBlock,
    IcacheSize,         \* the 4 of ext2fs_create_inode_cache(fs, 4)
    MaxInodeFaults,     \* calls of the device that fail
    UnsoundEvicts,      \* is an inode with a bad checksum read over a cached one?
    ErrorsClobber       \* does a failing read of the device change the buffer?

ASSUME InodeCacheAssumption ==
    /\ TableInodes \subseteq Nat \ {0} /\ IsFiniteSet(TableInodes)
    /\ InodesPerTableBlock \in Nat \ {0} /\ IcacheSize \in Nat \ {0}
    /\ MaxInodeFaults \in Nat
    /\ UnsoundEvicts \in BOOLEAN /\ ErrorsClobber \in BOOLEAN

VARIABLES
    table,      \* the inode table on the device
    icache,     \* struct ext2_inode_cache: slots, cache_last, buffer_blk, buffer
    latest,     \* history: what each inode may hold: the last write, and those
                \* that failed since the one before
    faultsLeft

inodeCacheVars == <<table, icache, latest, faultsLeft>>

\* The extra part is told apart by the inode it belongs to.
ZeroInode == [main |-> 0, extra |-> 0, sound |-> TRUE]
TableBlockOf(ino) == 1 + (ino - 1) \div InodesPerTableBlock
InBlock(blk) == {i \in TableInodes : TableBlockOf(i) = blk}

EmptySlot == [ino |-> 0, inode |-> ZeroInode]
SlotsOf(c, ino) == {k \in DOMAIN c.slots : c.slots[k].ino = ino}
NextSlot(c) == (c.last % IcacheSize) + 1

-----------------------------------------------------------------------------
(* ext2fs_read_inode2                                                      *)

\* The block of ino is in the buffer.
Buffered(c, ino) ==
    IF c.blk = TableBlockOf(ino) THEN c
    ELSE [c EXCEPT !.blk = TableBlockOf(ino), !.buf = [i \in InBlock(TableBlockOf(ino)) |-> table[i]]]

\* The inode is copied into the next slot, which is given its number if the
\* checksum is right.
FillSlot(c, ino) ==
    LET b == Buffered(c, ino)
        k == NextSlot(b)
    IN  IF b.buf[ino].sound
        THEN [b EXCEPT !.slots[k] = [ino |-> ino, inode |-> b.buf[ino]], !.last = k]
        ELSE IF b.slots[k].ino = 0 THEN b
        ELSE [b EXCEPT !.slots[k].inode = b.buf[ino]]

MayRead(c, ino) ==
    \/ UnsoundEvicts
    \/ SlotsOf(c, ino) # {}
    \/ Buffered(c, ino).buf[ino].sound
    \/ c.slots[NextSlot(c)].ino = 0

\* The cache after a call, and the inode it returns
ext2fs_read_inode2(c, ino) ==
    IF SlotsOf(c, ino) # {}
    THEN [c |-> c, inode |-> c.slots[CHOOSE k \in SlotsOf(c, ino) : \A j \in SlotsOf(c, ino) : k <= j].inode]
    ELSE [c |-> FillSlot(c, ino), inode |-> Buffered(c, ino).buf[ino]]

ReadInode(ino) ==
    /\ MayRead(icache, ino)
    /\ icache' = ext2fs_read_inode2(icache, ino).c
    /\ UNCHANGED <<table, latest, faultsLeft>>

\* The read of the block fails.  What it has left in the buffer is then taken
\* for the block that was there before.
Clobbered(c) ==
    {c} \cup IF ErrorsClobber THEN {[c EXCEPT !.buf = [i \in DOMAIN @ |-> ZeroInode]]} ELSE {}

ReadFails(ino) ==
    /\ faultsLeft > 0
    /\ SlotsOf(icache, ino) = {} /\ icache.blk # TableBlockOf(ino)
    /\ icache' \in Clobbered(icache)
    /\ faultsLeft' = faultsLeft - 1
    /\ UNCHANGED <<table, latest>>

-----------------------------------------------------------------------------
(* ext2fs_write_inode2                                                     *)

InCache_Stays(c, ino, new) == c

\* The main part, or all of the inode, in the slot that caches it
InCache(c, ino, new) ==
    [c EXCEPT !.slots = [k \in DOMAIN @ |->
        IF k \in SlotsOf(c, ino) THEN [@[k] EXCEPT !.inode = new] ELSE @[k]]]

\* A caller with the old struct: the rest of the inode is read first.
Shadow(c, ino, main) == [ext2fs_read_inode2(c, ino).inode EXCEPT !.main = main, !.sound = TRUE]

AfterShadow(c, ino) == ext2fs_read_inode2(c, ino).c

InBuffer(c, ino, new) == [Buffered(c, ino) EXCEPT !.buf[ino] = new]

\* The whole block is written from the buffer.
TableWith(c) == [i \in TableInodes |-> IF i \in DOMAIN c.buf THEN c.buf[i] ELSE table[i]]

\* What a caller means the inode to hold
Meant(ino, main) == [main |-> main, extra |-> ino, sound |-> TRUE]

\* Write `new` to inode ino, with the cache c that reading it before has left.
\* "done"; "early": the call ends before the buffer is touched, because the
\* file system is read-only or the block cannot be read; "late": the write of
\* the block fails.
WriteInode(c, ino, new, outcome) ==
    LET cached == InCache(c, ino, new)
        filled == InBuffer(cached, ino, new)
    IN  /\ IF outcome # "early" THEN icache' = filled
           ELSE IF c.blk = TableBlockOf(ino) THEN icache' = cached
           ELSE icache' \in Clobbered(cached)
        /\ table' = IF outcome = "done" THEN TableWith(filled) ELSE table
        /\ latest' = [latest EXCEPT ![ino] = {Meant(ino, new.main)} \cup IF outcome = "done" THEN {} ELSE @]
        /\ IF outcome = "done" THEN UNCHANGED faultsLeft
           ELSE faultsLeft > 0 /\ faultsLeft' = faultsLeft - 1

WriteSmall(ino, main, outcome) ==
    /\ MayRead(icache, ino)
    /\ WriteInode(AfterShadow(icache, ino), ino, Shadow(icache, ino, main), outcome)

WriteFull(ino, main, outcome) ==
    WriteInode(icache, ino, Meant(ino, main), outcome)

ext2fs_flush_icache ==
    /\ icache' = [icache EXCEPT !.slots = [k \in DOMAIN @ |-> EmptySlot],
                                !.blk = 0, !.buf = <<>>]
    /\ UNCHANGED <<table, latest, faultsLeft>>

-----------------------------------------------------------------------------
NoIcache == [slots |-> [k \in 1 .. IcacheSize |-> EmptySlot], last |-> 0, blk |-> 0, buf |-> <<>>]

InodeCacheInit ==
    /\ \E unsound \in SUBSET TableInodes :
          table = [i \in TableInodes |-> [ZeroInode EXCEPT !.extra = i, !.sound = i \notin unsound]]
    /\ icache = NoIcache
    /\ latest = [i \in TableInodes |-> {table[i]}]
    /\ faultsLeft = MaxInodeFaults

Outcomes == {"done", "early", "late"}

InodeCacheNext ==
    \/ \E ino \in TableInodes :
          \/ ReadInode(ino) \/ ReadFails(ino)
          \/ \E main \in {0, 1}, outcome \in Outcomes :
                WriteSmall(ino, main, outcome) \/ WriteFull(ino, main, outcome)
    \/ ext2fs_flush_icache

InodeCacheSpec == InodeCacheInit /\ [][InodeCacheNext]_inodeCacheVars

-----------------------------------------------------------------------------
\* ext2fs_read_inode returns what was last written to the inode, or, after
\* writes that reported an error, one of them, whichever of the slot, the buffer
\* and the device it is taken from.  The device holds it too: writing one inode
\* leaves the others of its block, and its own extra part, alone.
InodesAreLatest ==
    \A ino \in TableInodes :
        {ext2fs_read_inode2(icache, ino).inode, table[ino]} \subseteq latest[ino]
=============================================================================
