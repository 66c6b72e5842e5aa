------------------------------- MODULE UnixIO -------------------------------
(***************************************************************************)
(* The unix I/O channel of libext2fs (lib/ext2fs/unix_io.c): a small       *)
(* write-back cache of whole blocks in front of a file descriptor, with    *)
(* requests of several blocks, direct requests that go round the cache,    *)
(* and a mutex that the read path drops while it waits for the device.     *)
(*                                                                         *)
(* disk is what the kernel returns for the descriptor, stable is what      *)
(* survives a power failure.  hist is a history variable: the values each  *)
(* block may hold after a crash.  It never guards a step of the channel.   *)
(***************************************************************************)
EXTENDS Integers, FiniteSets

CONSTANTS
  NBlocks,            \* blocks of the device
  Values, Zero,       \* contents of a block; the all-zero block
  CACHE_SIZE,         \* slots of the cache (8 in the code)
  WRITE_DIRECT_SIZE,  \* longest request that goes through the cache (4)
  MaxCount,           \* longest request the callers make
  MaxRef,             \* bound on channel->refcount
  Threads,            \* the threads using the channel (IO_FLAG_THREADS)
  NoThread,           \* nobody holds CACHE_MTX
  ReadFaults,         \* may raw_read_blk fail?
  WriteFaults,        \* may raw_write_blk fail?
  Crashes,            \* may the process or the machine stop?
  Liberties           \* what callers allow themselves: see MayStart, MayBypass

ASSUME ConstantsAssumption ==
  /\ NBlocks \in Nat \ {0}
  /\ Zero \in Values
  /\ CACHE_SIZE \in Nat \ {0}
  /\ WRITE_DIRECT_SIZE \in Nat \ {0}
  /\ MaxCount \in Nat
  /\ MaxRef \in Nat \ {0}
  /\ NoThread \notin Threads
  /\ {ReadFaults, WriteFaults, Crashes} \subseteq BOOLEAN
  /\ Liberties \subseteq {"concurrent_writers", "bypass_cached"}

Blocks == 0 .. NBlocks - 1
Slots == 1 .. CACHE_SIZE
Empty == [in_use |-> FALSE, dirty |-> FALSE, block |-> 0, buf |-> Zero]
Slot == [in_use : BOOLEAN, dirty : BOOLEAN, block : Blocks, buf : Values]
BlankBuf == [b \in Blocks |-> Zero]

VARIABLES
  cache,         \* the slots, struct unix_cache; one not in_use is Empty
  age,           \* ranks of access_time: 0 for the slot touched last
  disk, stable, hist,
  writethrough,  \* channel->flags & CHANNEL_FLAGS_WRITETHROUGH
  nocache,       \* data->flags & IO_FLAG_NOCACHE
  refcount,      \* channel->refcount; 0 when the channel is closed
  mutex,         \* holder of CACHE_MTX
  pc,            \* where each thread is in its request
  blk, cnt, run, \* block, count and i of the request
  buf,           \* the caller's buffer, indexed by block number
  ret            \* outcome: the retval returned, or kept for the return

chan == <<writethrough, nocache, refcount>>
req == <<blk, cnt, run>>
vars == <<cache, age, disk, stable, hist, chan, mutex, pc, req, buf, ret>>

-----------------------------------------------------------------------------
(* The cache *)

Holds(s, b) == cache[s].in_use /\ cache[s].block = b
Cached(b) == \E s \in Slots : Holds(s, b)
SlotOf(b) == CHOOSE s \in Slots : Holds(s, b)
DirtySlots == {s \in Slots : cache[s].in_use /\ cache[s].dirty}

\* What the channel would return for block b now.
Mem(b) == IF Cached(b) THEN cache[SlotOf(b)].buf ELSE disk[b]

\* cache->access_time = ++data->access_time
Touch(s) == [r \in Slots |-> IF r = s THEN 0
                             ELSE IF age[r] < age[s] THEN age[r] + 1 ELSE age[r]]

\* *eldest of find_cached_block: the first slot not in use, else the one
\* touched longest ago.
Eldest(s) ==
  \/ ~cache[s].in_use /\ \A r \in 1 .. s - 1 : cache[r].in_use
  \/ \A r \in Slots : cache[r].in_use /\ age[r] <= age[s]

\* Outcomes of one raw_write_blk, one raw_read_blk.
WriteOutcomes == IF WriteFaults THEN BOOLEAN ELSE {TRUE}
ReadOutcomes == IF ReadFaults THEN BOOLEAN ELSE {TRUE}

\* Mutant: the dirty block is not written.
EvictedDisk_Dropped(s, written) == disk

\* The device after slot s is taken from its block: a dirty one is written,
\* and nobody looks at whether that worked.
EvictedDisk(s, written) ==
  IF cache[s].in_use /\ cache[s].dirty /\ written
  THEN [disk EXCEPT ![cache[s].block] = cache[s].buf] ELSE disk

\* reuse_cache: the eldest slot is given to block b, then filled with v.
ReuseSlot(b, v, d) ==
  \E s \in Slots :
    /\ Eldest(s)
    /\ \E written \in WriteOutcomes : disk' = EvictedDisk(s, written)
    /\ cache' = [cache EXCEPT ![s] = [in_use |-> TRUE, dirty |-> d, block |-> b, buf |-> v]]
    /\ age' = Touch(s)

\* Mutant: a slot that already holds the block is not marked dirty.
FillBlock_NotDirty(b, v, d) ==
  IF Cached(b)
  THEN /\ \E s \in Slots : /\ Holds(s, b)
                           /\ cache' = [cache EXCEPT ![s].buf = v]
                           /\ age' = Touch(s)
       /\ UNCHANGED disk
  ELSE ReuseSlot(b, v, d)

\* The body of the loop that fills the cache on a write.
FillBlock(b, v, d) ==
  IF Cached(b)
  THEN /\ \E s \in Slots :
            /\ Holds(s, b)
            /\ cache' = [cache EXCEPT ![s].buf = v, ![s].dirty = d]
            /\ age' = Touch(s)
       /\ UNCHANGED disk
  ELSE ReuseSlot(b, v, d)

\* Mutant: the search after the mutex was taken again is missing.
SaveBlock_NoRecheck(b, v) == ReuseSlot(b, v, FALSE)

\* The body of the loop that keeps what a read fetched, unless the block got
\* into the cache meanwhile.
SaveBlock(b, v) ==
  IF Cached(b)
  THEN /\ \E s \in Slots : Holds(s, b) /\ age' = Touch(s)
       /\ UNCHANGED <<cache, disk>>
  ELSE ReuseSlot(b, v, FALSE)

\* Mutant: the run is one too long.
UncachedRun_Overrun(b, n) == {n + 1}

\* The number of blocks from b on, out of n, to fetch in one go: the one i at
\* which the search stops.
UncachedRun(b, n) ==
  {i \in 1 .. n : /\ \A j \in 1 .. i - 1 : ~Cached(b + j)
                  /\ i = n \/ Cached(b + i)}

\* Which dirty slots a flush fails to write.
FlushFailures == IF WriteFaults THEN SUBSET DirtySlots ELSE {{}}

\* Mutant: the flush marks slots clean without writing them.
FlushedDisk_NotWritten(fail) == disk

FlushedDisk(fail) ==
  [b \in Blocks |-> IF \E s \in DirtySlots \ fail : cache[s].block = b
                    THEN cache[CHOOSE s \in DirtySlots \ fail : cache[s].block = b].buf
                    ELSE disk[b]]

\* Mutants: a failed write is forgotten; FLUSH_INVALIDATE is ignored.
SlotAfterFlush_ForgetFailure(s, fail, invalidate) ==
  IF invalidate THEN Empty ELSE [cache[s] EXCEPT !.dirty = FALSE]

\* With FLUSH_INVALIDATE a slot is given up before it is written, whether or
\* not that works; without it, it becomes clean if it could be written.
SlotAfterFlush(s, fail, invalidate) ==
  IF invalidate THEN Empty
  ELSE IF s \in fail THEN cache[s] ELSE [cache[s] EXCEPT !.dirty = FALSE]

\* flush_cached_blocks
FlushCache(fail, invalidate) ==
  /\ disk' = FlushedDisk(fail)
  /\ cache' = [s \in Slots |-> SlotAfterFlush(s, fail, invalidate)]
  /\ UNCHANGED age
-----------------------------------------------------------------------------
(* Requests *)

Range(b, n) == {c \in Blocks : b <= c /\ c < b + n}
Reading == {"read", "fetch", "fetched", "save", "raw_read", "got"}

\* Only reads are made from several threads at once: the bitmap loader's
\* threads are the only ones in the repository, and they only read.
MayStart(t, reads) ==
  /\ refcount > 0
  /\ pc[t] = "idle"
  /\ \A u \in Threads \ {t} :
       \/ pc[u] = "idle"
       \/ reads /\ pc[u] \in Reading
       \/ "concurrent_writers" \in Liberties

\* Requests that go round the cache without emptying it are made for blocks
\* the cache does not hold.
MayBypass(S) == "bypass_cached" \in Liberties \/ \A b \in S : ~Cached(b)

Idle(t, r) ==
  /\ pc' = [pc EXCEPT ![t] = "idle"]
  /\ blk' = [blk EXCEPT ![t] = 0]
  /\ cnt' = [cnt EXCEPT ![t] = 0]
  /\ run' = [run EXCEPT ![t] = 0]
  /\ buf' = [buf EXCEPT ![t] = BlankBuf]
  /\ ret' = [ret EXCEPT ![t] = r]

Enter(t, p, b, n, d) ==
  /\ pc' = [pc EXCEPT ![t] = p]
  /\ blk' = [blk EXCEPT ![t] = b]
  /\ cnt' = [cnt EXCEPT ![t] = n]
  /\ run' = [run EXCEPT ![t] = 0]
  /\ buf' = [buf EXCEPT ![t] = d]
  /\ ret' = [ret EXCEPT ![t] = "ok"]

Goto(t, p) == pc' = [pc EXCEPT ![t] = p]
Lock(t) == mutex = NoThread /\ mutex' = t

\* Mutant: the unlock is forgotten.
Unlock_Forgotten(t) == UNCHANGED mutex
Unlock(t) == mutex' = NoThread

\* The request moves on to its next block: count--, block++.
Advance(t) ==
  /\ blk' = [blk EXCEPT ![t] = @ + 1]
  /\ cnt' = [cnt EXCEPT ![t] = @ - 1]

\* The data of a write may be durable from now on.
Handed(S, d) == hist' = [b \in Blocks |-> IF b \in S THEN hist[b] \cup {d[b]} ELSE hist[b]]

\* A return of the request's outcome.
Return(t) ==
  /\ pc[t] \in {"got", "put", "synced"}
  /\ Idle(t, ret[t])
  /\ UNCHANGED <<cache, age, disk, stable, hist, chan, mutex>>
-----------------------------------------------------------------------------
(* unix_read_blk64 *)

ReadUncached(t, b, n) ==
  /\ MayStart(t, TRUE) /\ nocache
  /\ Enter(t, "raw_read", b, n, BlankBuf)
  /\ UNCHANGED <<cache, age, disk, stable, hist, chan, mutex>>

ReadDirect(t, b, n) ==
  /\ MayStart(t, TRUE) /\ ~nocache
  /\ n > WRITE_DIRECT_SIZE
  /\ mutex = NoThread
  /\ \E fail \in FlushFailures :
       /\ FlushCache(fail, FALSE)
       /\ IF fail # {} THEN Idle(t, "err") ELSE Enter(t, "raw_read", b, n, BlankBuf)
  /\ UNCHANGED <<stable, hist, chan, mutex>>

RawRead(t) ==
  /\ pc[t] = "raw_read"
  /\ \E ok \in ReadOutcomes :
       IF ok THEN /\ buf' = [buf EXCEPT ![t] =
                       [b \in Blocks |-> IF b \in Range(blk[t], cnt[t])
                                         THEN disk[b] ELSE @[b]]]
                  /\ Goto(t, "got")
                  /\ UNCHANGED <<req, ret>>
             ELSE Idle(t, "err")
  /\ UNCHANGED <<cache, age, disk, stable, hist, chan, mutex>>

ReadCached(t, b, n) ==
  /\ MayStart(t, TRUE) /\ ~nocache
  /\ n <= WRITE_DIRECT_SIZE
  /\ Lock(t)
  /\ Enter(t, "read", b, n, BlankBuf)
  /\ UNCHANGED <<cache, age, disk, stable, hist, chan>>

\* One turn of the loop whose block is in the cache.
ReadHit(t) ==
  /\ pc[t] = "read" /\ cnt[t] > 0
  /\ \E s \in Slots :
       /\ Holds(s, blk[t])
       /\ age' = Touch(s)
       /\ buf' = [buf EXCEPT ![t][blk[t]] = cache[s].buf]
  /\ Advance(t)
  /\ UNCHANGED <<cache, disk, stable, hist, chan, mutex, pc, run, ret>>

\* One that is not: count the uncached blocks, drop the mutex.  The search
\* that ends the run has touched the slot it found.
ReadMiss(t) ==
  /\ pc[t] = "read" /\ cnt[t] > 0
  /\ ~Cached(blk[t])
  /\ \E i \in UncachedRun(blk[t], cnt[t]) :
       /\ run' = [run EXCEPT ![t] = i]
       /\ age' = IF i < cnt[t] THEN Touch(SlotOf(blk[t] + i)) ELSE age
  /\ Unlock(t)
  /\ Goto(t, "fetch")
  /\ UNCHANGED <<cache, disk, stable, hist, chan, blk, cnt, buf, ret>>

\* The device read between unlock and lock; a failure returns at once.
ReadFetch(t) ==
  /\ pc[t] = "fetch"
  /\ \E ok \in ReadOutcomes :
       IF ok THEN /\ buf' = [buf EXCEPT ![t] =
                       [b \in Blocks |-> IF b \in Range(blk[t], run[t])
                                         THEN disk[b] ELSE @[b]]]
                  /\ Goto(t, "fetched")
                  /\ UNCHANGED <<req, ret>>
             ELSE Idle(t, "err")
  /\ UNCHANGED <<cache, age, disk, stable, hist, chan, mutex>>

ReadRelock(t) ==
  /\ pc[t] = "fetched"
  /\ Lock(t)
  /\ Goto(t, "save")
  /\ UNCHANGED <<cache, age, disk, stable, hist, chan, req, buf, ret>>

\* One turn of the loop that saves the run in the cache.
ReadSave(t) ==
  /\ pc[t] = "save" /\ run[t] > 0
  /\ SaveBlock(blk[t], buf[t][blk[t]])
  /\ Advance(t)
  /\ run' = [run EXCEPT ![t] = @ - 1]
  /\ Goto(t, IF run[t] = 1 THEN "read" ELSE "save")
  /\ UNCHANGED <<stable, hist, chan, mutex, buf, ret>>

ReadReturn(t) ==
  /\ pc[t] = "read" /\ cnt[t] = 0
  /\ Unlock(t)
  /\ Idle(t, "ok")
  /\ UNCHANGED <<cache, age, disk, stable, hist, chan>>
-----------------------------------------------------------------------------
(* unix_write_blk64 and unix_write_byte *)

WriteUncached(t, b, n, d) ==
  /\ MayStart(t, FALSE) /\ nocache
  /\ MayBypass(Range(b, n))
  /\ Enter(t, "raw_write", b, n, d)
  /\ Handed(Range(b, n), d)
  /\ UNCHANGED <<cache, age, disk, stable, chan, mutex>>

\* The cache is flushed and given up, then the device is written.
FlushAndWrite(t, b, n, d) ==
  /\ MayStart(t, FALSE)
  /\ mutex = NoThread
  /\ \E fail \in FlushFailures :
       /\ FlushCache(fail, TRUE)
       /\ IF fail # {} THEN Idle(t, "err") /\ UNCHANGED hist
          ELSE Enter(t, "raw_write", b, n, d) /\ Handed(Range(b, n), d)
  /\ UNCHANGED <<stable, chan, mutex>>

WriteDirect(t, b, n, d) == ~nocache /\ n > WRITE_DIRECT_SIZE /\ FlushAndWrite(t, b, n, d)

\* unix_write_byte changes some bytes of one block, whatever the cache mode.
unix_write_byte(t, b, d) == FlushAndWrite(t, b, 1, d)

\* raw_write_blk of the whole request; a failing one may have written some.
RawWritten(t, n) ==
  disk' = [b \in Blocks |-> IF b \in Range(blk[t], n) THEN buf[t][b] ELSE disk[b]]

RawWrite(t) ==
  /\ pc[t] = "raw_write"
  /\ \/ /\ RawWritten(t, cnt[t])
        /\ Goto(t, "put")
        /\ UNCHANGED <<req, buf, ret>>
     \/ /\ WriteFaults
        /\ \E n \in 0 .. cnt[t] : RawWritten(t, n)
        /\ Idle(t, "err")
  /\ UNCHANGED <<cache, age, stable, hist, chan, mutex>>

WriteCached(t, b, n, d) ==
  /\ MayStart(t, FALSE) /\ ~nocache
  /\ n <= WRITE_DIRECT_SIZE
  /\ Handed(Range(b, n), d)
  /\ IF writethrough THEN Enter(t, "through", b, n, d) /\ UNCHANGED mutex
                     ELSE Enter(t, "write", b, n, d) /\ Lock(t)
  /\ UNCHANGED <<cache, age, disk, stable, chan>>

\* Write-through mode: the device first; the outcome is kept for the return.
WriteThrough(t) ==
  /\ pc[t] = "through"
  /\ \/ RawWritten(t, cnt[t]) /\ UNCHANGED ret
     \/ /\ WriteFaults
        /\ \E n \in 0 .. cnt[t] : RawWritten(t, n)
        /\ ret' = [ret EXCEPT ![t] = "err"]
  /\ Goto(t, "wlock")
  /\ UNCHANGED <<cache, age, stable, hist, chan, mutex, req, buf>>

WriteLock(t) ==
  /\ pc[t] = "wlock"
  /\ Lock(t)
  /\ Goto(t, "write")
  /\ UNCHANGED <<cache, age, disk, stable, hist, chan, req, buf, ret>>

\* One turn of the loop that fills the cache.
WriteFill(t) ==
  /\ pc[t] = "write" /\ cnt[t] > 0
  /\ FillBlock(blk[t], buf[t][blk[t]], ~writethrough)
  /\ Advance(t)
  /\ UNCHANGED <<stable, hist, chan, mutex, pc, run, buf, ret>>

WriteReturn(t) ==
  /\ pc[t] = "write" /\ cnt[t] = 0
  /\ Unlock(t)
  /\ Idle(t, ret[t])
  /\ UNCHANGED <<cache, age, disk, stable, hist, chan>>

-----------------------------------------------------------------------------
(* unix_discard and unix_zeroout: the device is told, the cache is not *)

unix_zeroout(t, b, n) ==
  /\ MayStart(t, FALSE)
  /\ MayBypass(Range(b, n))
  /\ Enter(t, "raw_write", b, n, BlankBuf)
  /\ Handed(Range(b, n), BlankBuf)
  /\ UNCHANGED <<cache, age, disk, stable, chan, mutex>>

\* A discarded block may read back as zeroes or as it was.
unix_discard(t, b, n) ==
  /\ MayStart(t, FALSE)
  /\ MayBypass(Range(b, n))
  /\ \E Z \in SUBSET Range(b, n) :
       LET d == [c \in Blocks |-> IF c \in Range(b, n) \ Z THEN disk[c] ELSE Zero]
       IN Enter(t, "raw_write", b, n, d) /\ Handed(Range(b, n), d)
  /\ UNCHANGED <<cache, age, disk, stable, chan, mutex>>

-----------------------------------------------------------------------------
(* unix_flush, unix_set_blksize, unix_set_option, open and close *)

unix_flush(t) ==
  /\ MayStart(t, FALSE)
  /\ mutex = NoThread
  /\ \E fail \in FlushFailures :
       /\ FlushCache(fail, FALSE)
       /\ IF fail # {} THEN Idle(t, "err") ELSE Enter(t, "fsync", 0, 0, BlankBuf)
  /\ UNCHANGED <<stable, hist, chan, mutex>>

\* fsync: the kernel brings the medium up to date, or reports that it did not.
Fsync(t) ==
  /\ pc[t] = "fsync"
  /\ \E ok \in WriteOutcomes :
       IF ok THEN /\ stable' = disk
                  /\ hist' = [b \in Blocks |-> {Mem(b)}]
                  /\ Goto(t, "synced")
                  /\ UNCHANGED <<req, buf, ret>>
             ELSE Idle(t, "err") /\ UNCHANGED <<stable, hist>>
  /\ UNCHANGED <<cache, age, disk, chan, mutex>>

\* unix_set_blksize to another size: flush, then a new and empty cache.
unix_set_blksize(t) ==
  /\ MayStart(t, FALSE)
  /\ mutex = NoThread
  /\ \E fail \in FlushFailures :
       IF fail # {}
       THEN FlushCache(fail, FALSE) /\ Idle(t, "err")
       ELSE FlushCache({}, TRUE) /\ Idle(t, "ok")
  /\ UNCHANGED <<stable, hist, chan, mutex>>

\* "cache=off" flushes but keeps the slots, and takes effect even when the
\* flush fails.
SetCacheOff(t) ==
  /\ MayStart(t, FALSE)
  /\ mutex = NoThread
  /\ \E fail \in FlushFailures :
       /\ FlushCache(fail, FALSE)
       /\ Idle(t, IF fail = {} THEN "ok" ELSE "err")
  /\ nocache' = TRUE
  /\ UNCHANGED <<stable, hist, writethrough, refcount, mutex>>

SetCacheOn(t) ==
  /\ MayStart(t, FALSE)
  /\ nocache' = FALSE
  /\ Idle(t, "ok")
  /\ UNCHANGED <<cache, age, disk, stable, hist, writethrough, refcount, mutex>>

io_channel_bumpcount(t) ==
  /\ MayStart(t, FALSE)
  /\ refcount < MaxRef
  /\ refcount' = refcount + 1
  /\ UNCHANGED <<cache, age, disk, stable, hist, writethrough, nocache,
                 mutex, pc, req, buf, ret>>

\* unix_close: the last reference flushes what it can and frees the cache.
unix_close(t) ==
  /\ MayStart(t, FALSE)
  /\ mutex = NoThread
  /\ refcount' = refcount - 1
  /\ IF refcount > 1
     THEN UNCHANGED <<cache, age, disk, pc, req, buf, ret>>
     ELSE \E fail \in FlushFailures :
            /\ FlushCache(fail, TRUE)
            /\ Idle(t, IF fail = {} THEN "ok" ELSE "err")
  /\ UNCHANGED <<stable, hist, writethrough, nocache, mutex>>

unix_open ==
  /\ refcount = 0
  /\ refcount' = 1
  /\ nocache' = FALSE
  /\ writethrough' \in BOOLEAN
  /\ UNCHANGED <<cache, age, disk, stable, hist, mutex, pc, req, buf, ret>>

-----------------------------------------------------------------------------
(* The kernel and the machine *)

\* The kernel writes a block back on its own account.
Writeback(b) ==
  /\ Crashes
  /\ stable[b] # disk[b]
  /\ stable' = [stable EXCEPT ![b] = disk[b]]
  /\ UNCHANGED <<cache, age, disk, hist, chan, mutex, pc, req, buf, ret>>

\* The process ends without closing the channel (d is disk), or the power
\* fails (d is stable); the channel is closed either way.
Stop(d, h) ==
  /\ Crashes
  /\ refcount > 0
  /\ disk' = d
  /\ hist' = h
  /\ cache' = [s \in Slots |-> Empty]
  /\ refcount' = 0
  /\ mutex' = NoThread
  /\ pc' = [t \in Threads |-> "idle"]
  /\ blk' = [t \in Threads |-> 0]
  /\ cnt' = [t \in Threads |-> 0]
  /\ run' = [t \in Threads |-> 0]
  /\ buf' = [t \in Threads |-> BlankBuf]
  /\ ret' = [t \in Threads |-> "ok"]
  /\ UNCHANGED <<age, stable, writethrough, nocache>>

Kill == Stop(disk, hist)
PowerFail == Stop(stable, [b \in Blocks |-> {stable[b]}])
-----------------------------------------------------------------------------
Init ==
  /\ cache = [s \in Slots |-> Empty]
  /\ age = [s \in Slots |-> s - 1]
  /\ disk \in [Blocks -> Values]
  /\ stable = disk
  /\ hist = [b \in Blocks |-> {disk[b]}]
  /\ writethrough \in BOOLEAN
  /\ nocache = FALSE
  /\ refcount = 1
  /\ mutex = NoThread
  /\ pc = [t \in Threads |-> "idle"]
  /\ blk = [t \in Threads |-> 0]
  /\ cnt = [t \in Threads |-> 0]
  /\ run = [t \in Threads |-> 0]
  /\ buf = [t \in Threads |-> BlankBuf]
  /\ ret = [t \in Threads |-> "ok"]

\* The steps a thread takes inside a request.
Step(t) ==
  \/ RawRead(t) \/ ReadHit(t) \/ ReadMiss(t) \/ ReadFetch(t) \/ ReadRelock(t)
  \/ ReadSave(t) \/ ReadReturn(t)
  \/ RawWrite(t) \/ WriteThrough(t) \/ WriteLock(t) \/ WriteFill(t) \/ WriteReturn(t)
  \/ Fsync(t) \/ Return(t)

\* The data of a write of n blocks at b.
Data(b, n) == {d \in [Blocks -> Values] : \A c \in Blocks \ Range(b, n) : d[c] = Zero}

\* The requests a thread may make.
Call(t) ==
  \/ \E b \in Blocks, n \in 1 .. MaxCount :
       /\ b + n <= NBlocks
       /\ \/ ReadUncached(t, b, n)
          \/ ReadDirect(t, b, n)
          \/ ReadCached(t, b, n)
          \/ unix_zeroout(t, b, n)
          \/ unix_discard(t, b, n)
          \/ \E d \in Data(b, n) :
               \/ WriteUncached(t, b, n, d)
               \/ WriteCached(t, b, n, d)
               \/ WriteDirect(t, b, n, d)
               \/ n = 1 /\ unix_write_byte(t, b, d)
  \/ unix_flush(t)
  \/ unix_set_blksize(t)
  \/ SetCacheOff(t)
  \/ SetCacheOn(t)
  \/ io_channel_bumpcount(t)
  \/ unix_close(t)

Next ==
  \/ \E t \in Threads : Step(t) \/ Call(t)
  \/ unix_open
  \/ \E b \in Blocks : Writeback(b)
  \/ Kill
  \/ PowerFail

Spec == Init /\ [][Next]_vars

-----------------------------------------------------------------------------
(* Properties *)

Writing == {"raw_write", "through", "wlock", "write", "put"}
PCs == Reading \cup Writing \cup {"idle", "fsync", "synced"}

\* Only a read that is fetching has a run.
RunKnown(t) == pc[t] \notin {"fetch", "fetched", "save"} => run[t] = 0

\* Every variable keeps its type; a request never leaves the device.
TypeOK ==
  /\ cache \in [Slots -> Slot]
  /\ age \in [Slots -> 0 .. CACHE_SIZE - 1]
  /\ disk \in [Blocks -> Values]
  /\ stable \in [Blocks -> Values]
  /\ hist \in [Blocks -> SUBSET Values]
  /\ writethrough \in BOOLEAN
  /\ nocache \in BOOLEAN
  /\ refcount \in 0 .. MaxRef
  /\ mutex \in Threads \cup {NoThread}
  /\ pc \in [Threads -> PCs]
  /\ blk \in [Threads -> 0 .. NBlocks]
  /\ cnt \in [Threads -> 0 .. NBlocks]
  /\ run \in [Threads -> 0 .. NBlocks]
  /\ \A t \in Threads : blk[t] + cnt[t] <= NBlocks /\ run[t] <= cnt[t] /\ RunKnown(t)
  /\ buf \in [Threads -> [Blocks -> Values]]
  /\ ret \in [Threads -> {"ok", "err"}]

\* No block is in two slots: a read that filled the cache after dropping the
\* mutex must look again, or one of two copies would be updated and the other
\* written back (unix_read_blk64, "Save the results in the cache").
OneSlotPerBlock ==
  \A r, s \in Slots : cache[r].in_use /\ cache[s].in_use /\ cache[r].block = cache[s].block
                      => r = s

\* The blocks whose slots a write-through in progress has overtaken.
Overtaken == UNION {Range(blk[t], cnt[t]) : t \in {u \in Threads : writethrough /\ pc[u] \in {"wlock", "write"}}}

\* A clean slot agrees with the device, so that dropping it loses nothing.
CleanMatchesDisk ==
  \A s \in Slots : cache[s].in_use /\ ~cache[s].dirty /\ cache[s].block \notin Overtaken
                   => cache[s].buf = disk[cache[s].block]

\* While somebody is inside a request, somebody can take a step of one: the
\* unlock and lock pairs of the read and write paths never leave everyone
\* waiting for CACHE_MTX.
SomebodyCanMove ==
  (\E t \in Threads : pc[t] # "idle") => \E t \in Threads : ENABLED Step(t)

\* Where a failing device can cost data nobody is writing: only a dirty slot
\* that is evicted, a channel that is closed, and a call that reports the
\* failure.  A flush that returns success has lost nothing.
NoSilentLoss ==
  [][\A b \in Blocks :
       Mem(b)' # Mem(b) =>
         \/ writethrough
         \/ \E t \in Threads : pc[t] \in Writing /\ b \in Range(blk[t], cnt[t])
         \/ \E t \in Threads : pc[t] \in {"save", "write"} /\ b \in {cache[s].block : s \in DirtySlots}
         \/ refcount' = 0
         \/ \E t \in Threads : pc[t] = "idle" /\ ret'[t] = "err"]_vars

\* The channel is a block device (BlockDevice): its memory is the cache over
\* the disk, and what is left of a request is what the loop has not reached.
DevMem == [b \in Blocks |-> Mem(b)]
OpOf(t) == CASE pc[t] \in Reading -> "read"
             [] pc[t] \in Writing -> "write"
             [] pc[t] \in {"fsync", "synced"} -> "flush"
             [] OTHER -> "idle"
TodoOf(t) ==
  CASE pc[t] \in {"fetched", "save"} -> Range(blk[t] + run[t], cnt[t] - run[t])
    [] pc[t] \in (Reading \cup Writing) \ {"fetched", "save", "got", "put"} ->
         Range(blk[t], cnt[t])
    [] pc[t] = "fsync" -> Blocks
    [] OTHER -> {}
DevOp == [t \in Threads |-> OpOf(t)]
DevTodo == [t \in Threads |-> TodoOf(t)]

Dev == INSTANCE BlockDevice WITH
         Blank <- Zero, mem <- DevMem, dur <- hist, op <- DevOp, todo <- DevTodo, out <- buf

\* Reads return what was last written, and a flush that reports success has
\* made everything written before it durable, whatever the order in which
\* the cache evicts, flushes and refetches blocks.
ImplementsBlockDevice == Dev!DSpec
=============================================================================
