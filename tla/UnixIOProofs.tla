---------------------------- MODULE UnixIOProofs ----------------------------
(***************************************************************************)
(* Proofs about the unix I/O channel, for every device, cache and request  *)
(* size, every number of threads, and every fault and liberty the          *)
(* constants allow unless a theorem says otherwise.                        *)
(***************************************************************************)
EXTENDS UnixIO, TLAPS

-----------------------------------------------------------------------------
(* Types *)

LEMMA EmptyType == Empty \in Slot
  BY ConstantsAssumption DEF Empty, Slot, Blocks

LEMMA InitType == Init => TypeOK
<1> SUFFICES ASSUME Init PROVE TypeOK
  OBVIOUS
<1>1. cache \in [Slots -> Slot]
  BY EmptyType DEF Init
<1>2. age \in [Slots -> 0 .. CACHE_SIZE - 1]
  BY ConstantsAssumption DEF Init, Slots
<1>3. /\ disk \in [Blocks -> Values]
      /\ stable \in [Blocks -> Values]
      /\ hist \in [Blocks -> SUBSET Values]
  BY DEF Init
<1>4. /\ refcount \in 0 .. MaxRef
      /\ mutex \in Threads \cup {NoThread}
  BY ConstantsAssumption DEF Init
<1>7. /\ nocache \in BOOLEAN
      /\ writethrough \in BOOLEAN
  BY Zenon DEF Init
<1>5. /\ pc \in [Threads -> PCs]
      /\ buf \in [Threads -> [Blocks -> Values]]
      /\ ret \in [Threads -> {"ok", "err"}]
  BY ConstantsAssumption DEF Init, PCs, BlankBuf
<1>6. /\ blk \in [Threads -> 0 .. NBlocks]
      /\ cnt \in [Threads -> 0 .. NBlocks]
      /\ run \in [Threads -> 0 .. NBlocks]
      /\ \A t \in Threads : blk[t] + cnt[t] <= NBlocks /\ run[t] <= cnt[t] /\ RunKnown(t)
  BY ConstantsAssumption DEF Init, RunKnown
<1> QED
  BY <1>1, <1>2, <1>3, <1>4, <1>5, <1>6, <1>7 DEF TypeOK

\* The parts of TypeOK that the steps of a request leave to one lemma each.
CacheType == /\ cache \in [Slots -> Slot]
             /\ age \in [Slots -> 0 .. CACHE_SIZE - 1]
             /\ disk \in [Blocks -> Values]

MediumType == /\ stable \in [Blocks -> Values]
              /\ hist \in [Blocks -> SUBSET Values]

FlagType == writethrough \in BOOLEAN /\ nocache \in BOOLEAN

ChannelType == /\ refcount \in 0 .. MaxRef
               /\ mutex \in Threads \cup {NoThread}

RequestType == /\ pc \in [Threads -> PCs]
               /\ blk \in [Threads -> 0 .. NBlocks]
               /\ cnt \in [Threads -> 0 .. NBlocks]
               /\ run \in [Threads -> 0 .. NBlocks]
               /\ \A t \in Threads : blk[t] + cnt[t] <= NBlocks /\ run[t] <= cnt[t] /\ RunKnown(t)
               /\ buf \in [Threads -> [Blocks -> Values]]
               /\ ret \in [Threads -> {"ok", "err"}]

LEMMA TypeParts ==
  ASSUME TypeOK
  PROVE  CacheType /\ MediumType /\ FlagType /\ ChannelType /\ RequestType
  BY Zenon DEF TypeOK, CacheType, MediumType, FlagType, ChannelType, RequestType

LEMMA TypeWhole ==
  ASSUME CacheType', MediumType', FlagType', ChannelType', RequestType'
  PROVE  TypeOK'
  BY Zenon DEF TypeOK, CacheType, MediumType, FlagType, ChannelType, RequestType

\* What a step that leaves a part of the state alone keeps.
LEMMA CacheKept == ASSUME CacheType, UNCHANGED <<cache, age, disk>> PROVE CacheType'
  BY DEF CacheType

LEMMA MediumKept == ASSUME MediumType, UNCHANGED <<stable, hist>> PROVE MediumType'
  BY DEF MediumType

LEMMA FlagKept == ASSUME FlagType, UNCHANGED <<writethrough, nocache>> PROVE FlagType'
  BY DEF FlagType

LEMMA ChannelKept == ASSUME ChannelType, UNCHANGED <<refcount, mutex>> PROVE ChannelType'
  BY DEF ChannelType

LEMMA RequestKept == ASSUME RequestType, UNCHANGED <<pc, req, buf, ret>> PROVE RequestType'
  BY DEF RequestType, RunKnown, req

LEMMA IdleType ==
  ASSUME RequestType, NEW t \in Threads, NEW r \in {"ok", "err"}, Idle(t, r)
  PROVE  RequestType'
  BY ConstantsAssumption DEF RequestType, RunKnown, Idle, PCs, BlankBuf, Blocks

LEMMA EnterType ==
  ASSUME RequestType, NEW t \in Threads, NEW p \in PCs, NEW b \in Nat, NEW n \in Nat,
         NEW d \in [Blocks -> Values], b + n <= NBlocks, Enter(t, p, b, n, d)
  PROVE  RequestType'
  BY ConstantsAssumption DEF RequestType, RunKnown, Enter

LEMMA TouchType ==
  ASSUME CacheType, NEW s \in Slots
  PROVE  Touch(s) \in [Slots -> 0 .. CACHE_SIZE - 1]
  BY ConstantsAssumption DEF CacheType, Touch, Slots

LEMMA FlushType ==
  ASSUME CacheType, NEW fail, NEW i \in BOOLEAN, FlushCache(fail, i)
  PROVE  CacheType'
<1>1. \A s \in Slots : SlotAfterFlush(s, fail, i) \in Slot
  BY EmptyType DEF CacheType, SlotAfterFlush, Slot
<1>2. FlushedDisk(fail) \in [Blocks -> Values]
  BY DEF CacheType, FlushedDisk, DirtySlots, Slot
<1> QED
  BY <1>1, <1>2 DEF FlushCache, CacheType

LEMMA ReuseType ==
  ASSUME CacheType, NEW b \in Blocks, NEW v \in Values, NEW d \in BOOLEAN, ReuseSlot(b, v, d)
  PROVE  CacheType'
<1>1. PICK s \in Slots : ReuseSlot(b, v, d)!(s)
  BY DEF ReuseSlot
<1>2. age' \in [Slots -> 0 .. CACHE_SIZE - 1]
  BY <1>1, TouchType
<1>3. cache' \in [Slots -> Slot]
  BY <1>1 DEF CacheType, Slot
<1>4. disk' \in [Blocks -> Values]
  BY <1>1 DEF CacheType, EvictedDisk, Slot
<1> QED
  BY <1>2, <1>3, <1>4 DEF CacheType

LEMMA FillType ==
  ASSUME CacheType, NEW b \in Blocks, NEW v \in Values, NEW d \in BOOLEAN, FillBlock(b, v, d)
  PROVE  CacheType'
<1>1. CASE Cached(b)
  <2>1. PICK s \in Slots : /\ cache' = [cache EXCEPT ![s].buf = v, ![s].dirty = d]
                           /\ age' = Touch(s)
    BY <1>1 DEF FillBlock
  <2>2. cache' \in [Slots -> Slot] /\ disk' = disk
    BY <1>1, <2>1 DEF CacheType, Slot, FillBlock
  <2> QED
    BY <2>1, <2>2, TouchType DEF CacheType
<1>2. CASE ~Cached(b)
  BY <1>2, ReuseType DEF FillBlock
<1> QED
  BY <1>1, <1>2

LEMMA SaveType ==
  ASSUME CacheType, NEW b \in Blocks, NEW v \in Values, SaveBlock(b, v)
  PROVE  CacheType'
<1>1. CASE Cached(b)
  BY <1>1, TouchType DEF SaveBlock, CacheType
<1>2. CASE ~Cached(b)
  BY <1>2, ReuseType DEF SaveBlock
<1> QED
  BY <1>1, <1>2

LEMMA HandedType ==
  ASSUME MediumType, NEW S \in SUBSET Blocks, NEW d \in [Blocks -> Values],
         Handed(S, d), UNCHANGED stable
  PROVE  MediumType'
  BY DEF MediumType, Handed

LEMMA WrittenType ==
  ASSUME CacheType, RequestType, NEW t \in Threads, NEW n, RawWritten(t, n),
         UNCHANGED <<cache, age>>
  PROVE  CacheType'
  BY DEF CacheType, RequestType, RunKnown, RawWritten

LEMMA FetchedType ==
  ASSUME CacheType, RequestType, NEW t \in Threads, NEW n, NEW p \in PCs, Goto(t, p),
         p = "fetched" \/ run[t] = 0,
         buf' = [buf EXCEPT ![t] = [b \in Blocks |-> IF b \in Range(blk[t], n)
                                                    THEN disk[b] ELSE @[b]]],
         UNCHANGED <<req, ret>>
  PROVE  RequestType'
  BY DEF CacheType, RequestType, RunKnown, Goto, req

LEMMA MemType == ASSUME CacheType, NEW b \in Blocks PROVE Mem(b) \in Values
  BY DEF CacheType, Mem, Cached, SlotOf, Slot

LEMMA RangeType == ASSUME NEW b, NEW n PROVE Range(b, n) \in SUBSET Blocks
  BY DEF Range

LEMMA StepType ==
  ASSUME TypeOK, NEW t \in Threads, Step(t)
  PROVE  TypeOK'
<1> USE TypeParts, CacheKept, MediumKept, FlagKept, ChannelKept, RequestKept
<1>1. CASE RawRead(t)
  <2>1. RequestType'
    <3>1. CASE \E ok \in ReadOutcomes : Idle(t, "err")
      BY <3>1, IdleType
    <3>2. CASE ~ \E ok \in ReadOutcomes : Idle(t, "err")
      BY <1>1, <3>2, FetchedType DEF RawRead, PCs, Reading, RequestType, RunKnown
    <3> QED BY <3>1, <3>2
  <2> QED
    BY <1>1, <2>1, TypeWhole DEF RawRead, chan
<1>2. CASE ReadHit(t)
  <2>1. PICK s \in Slots : /\ age' = Touch(s)
                           /\ buf' = [buf EXCEPT ![t][blk[t]] = cache[s].buf]
    BY <1>2 DEF ReadHit
  <2>2. CacheType'
    BY <1>2, <2>1, TouchType DEF ReadHit, CacheType
  <2>3. buf' \in [Threads -> [Blocks -> Values]]
    BY <1>2, <2>1 DEF RequestType, CacheType, Slot
  <2>4. RequestType'
    BY <1>2, <2>3, ConstantsAssumption DEF ReadHit, Advance, RequestType, RunKnown
  <2> QED
    BY <1>2, <2>2, <2>4, TypeWhole DEF ReadHit, chan
<1>3. CASE ReadMiss(t)
  <2>1. PICK i \in 1 .. cnt[t] :
          /\ run' = [run EXCEPT ![t] = i]
          /\ age' = IF i < cnt[t] THEN Touch(SlotOf(blk[t] + i)) ELSE age
          /\ i = cnt[t] \/ Cached(blk[t] + i)
    BY <1>3 DEF ReadMiss, UncachedRun
  <2>2. CacheType'
    <3>1. CASE i < cnt[t]
      <4>1. SlotOf(blk[t] + i) \in Slots
        BY <2>1, <3>1 DEF SlotOf, Cached, RequestType
      <4> QED
        BY <1>3, <2>1, <3>1, <4>1, TouchType DEF ReadMiss, CacheType
    <3>2. CASE ~(i < cnt[t])
      BY <1>3, <2>1, <3>2 DEF ReadMiss
    <3> QED BY <3>1, <3>2
  <2>3. RequestType'
    BY <1>3, <2>1, ConstantsAssumption DEF ReadMiss, Goto, RequestType, RunKnown, PCs, Reading
  <2>4. ChannelType'
    BY <1>3 DEF ReadMiss, Unlock, ChannelType, chan
  <2> QED
    BY <1>3, <2>2, <2>3, <2>4, TypeWhole DEF ReadMiss, chan
<1>4. CASE ReadFetch(t)
  <2>1. RequestType'
    <3>1. CASE \E ok \in ReadOutcomes : Idle(t, "err")
      BY <3>1, IdleType
    <3>2. CASE ~ \E ok \in ReadOutcomes : Idle(t, "err")
      BY <1>4, <3>2, FetchedType DEF ReadFetch, PCs, Reading
    <3> QED BY <3>1, <3>2
  <2> QED
    BY <1>4, <2>1, TypeWhole DEF ReadFetch, chan
<1>5. CASE ReadRelock(t)
  <2>1. RequestType' /\ ChannelType'
    BY <1>5 DEF ReadRelock, Goto, Lock, RequestType, RunKnown, ChannelType, PCs, Reading, req, chan
  <2> QED
    BY <1>5, <2>1, TypeWhole DEF ReadRelock, chan
<1>6. CASE ReadSave(t)
  <2>1. blk[t] \in Blocks
    BY <1>6, ConstantsAssumption DEF ReadSave, RequestType, RunKnown, Blocks
  <2>2. CacheType'
    BY <1>6, <2>1, SaveType DEF ReadSave, RequestType, RunKnown
  <2>3. RequestType'
    BY <1>6, ConstantsAssumption DEF ReadSave, Advance, Goto, RequestType, RunKnown, PCs, Reading
  <2> QED
    BY <1>6, <2>2, <2>3, TypeWhole DEF ReadSave, chan
<1>7. CASE ReadReturn(t)
  <2>1. RequestType' /\ ChannelType'
    BY <1>7, IdleType DEF ReadReturn, Unlock, ChannelType, chan
  <2> QED
    BY <1>7, <2>1, TypeWhole DEF ReadReturn, chan
<1>8. CASE RawWrite(t)
  <2>1. CacheType'
    BY <1>8, WrittenType DEF RawWrite
  <2>2. RequestType'
    BY <1>8, IdleType DEF RawWrite, Goto, RequestType, RunKnown, PCs, Writing, req
  <2> QED
    BY <1>8, <2>1, <2>2, TypeWhole DEF RawWrite, chan
<1>9. CASE WriteThrough(t)
  <2>1. CacheType'
    BY <1>9, WrittenType DEF WriteThrough
  <2>2. RequestType'
    BY <1>9 DEF WriteThrough, Goto, RequestType, RunKnown, PCs, Writing, req
  <2> QED
    BY <1>9, <2>1, <2>2, TypeWhole DEF WriteThrough, chan
<1>10. CASE WriteLock(t)
  <2>1. RequestType' /\ ChannelType'
    BY <1>10 DEF WriteLock, Goto, Lock, RequestType, RunKnown, ChannelType, PCs, Writing, req, chan
  <2> QED
    BY <1>10, <2>1, TypeWhole DEF WriteLock, chan
<1>11. CASE WriteFill(t)
  <2>1. blk[t] \in Blocks
    BY <1>11, ConstantsAssumption DEF WriteFill, RequestType, RunKnown, Blocks
  <2>2. CacheType'
    BY <1>11, <2>1, FillType DEF WriteFill, RequestType
  <2>3. RequestType'
    BY <1>11, ConstantsAssumption DEF WriteFill, Advance, RequestType, RunKnown
  <2> QED
    BY <1>11, <2>2, <2>3, TypeWhole DEF WriteFill, chan
<1>12. CASE WriteReturn(t)
  <2>1. RequestType' /\ ChannelType'
    BY <1>12, IdleType DEF WriteReturn, Unlock, ChannelType, RequestType, RunKnown, chan
  <2> QED
    BY <1>12, <2>1, TypeWhole DEF WriteReturn, chan
<1>13. CASE Fsync(t)
  <2>1. MediumType'
    BY <1>13, MemType DEF Fsync, MediumType, CacheType
  <2>2. RequestType'
    BY <1>13, IdleType DEF Fsync, Goto, RequestType, RunKnown, PCs, req
  <2> QED
    BY <1>13, <2>1, <2>2, TypeWhole DEF Fsync, chan
<1>14. CASE Return(t)
  <2>1. RequestType'
    BY <1>14, IdleType DEF Return, RequestType
  <2> QED
    BY <1>14, <2>1, TypeWhole DEF Return, chan
<1> QED
  BY <1>1, <1>2, <1>3, <1>4, <1>5, <1>6, <1>7, <1>8, <1>9, <1>10, <1>11, <1>12, <1>13, <1>14
     DEF Step

LEMMA BlankType == BlankBuf \in [Blocks -> Values]
  BY ConstantsAssumption DEF BlankBuf

\* The requests that begin by flushing the cache.
LEMMA FlushAndWriteType ==
  ASSUME TypeOK, NEW t \in Threads, NEW b \in Nat, NEW n \in Nat, b + n <= NBlocks,
         NEW d \in [Blocks -> Values], FlushAndWrite(t, b, n, d)
  PROVE  TypeOK'
<1> USE TypeParts, FlagKept, ChannelKept
<1>1. PICK fail \in FlushFailures :
        /\ FlushCache(fail, TRUE)
        /\ IF fail # {} THEN Idle(t, "err") /\ UNCHANGED hist
           ELSE Enter(t, "raw_write", b, n, d) /\ Handed(Range(b, n), d)
  BY DEF FlushAndWrite
<1>2. CacheType'
  BY <1>1, FlushType
<1>3. RequestType'
  BY <1>1, IdleType, EnterType DEF PCs, Writing
<1>4. MediumType'
  <2>1. CASE fail # {}
    BY <1>1, <2>1, MediumKept DEF FlushAndWrite
  <2>2. CASE fail = {}
    BY <1>1, <2>2, HandedType, RangeType DEF FlushAndWrite
  <2> QED BY <2>1, <2>2
<1> QED
  BY <1>2, <1>3, <1>4, TypeWhole DEF FlushAndWrite, chan

LEMMA BlockCallType ==
  ASSUME TypeOK, NEW t \in Threads, NEW b \in Blocks, NEW n \in 1 .. MaxCount, b + n <= NBlocks,
         \/ ReadUncached(t, b, n) \/ ReadDirect(t, b, n) \/ ReadCached(t, b, n)
         \/ unix_zeroout(t, b, n) \/ unix_discard(t, b, n)
         \/ \E d \in Data(b, n) : \/ WriteUncached(t, b, n, d)
                                  \/ WriteCached(t, b, n, d)
                                  \/ WriteDirect(t, b, n, d)
                                  \/ n = 1 /\ unix_write_byte(t, b, d)
  PROVE  TypeOK'
<1> USE TypeParts, CacheKept, MediumKept, FlagKept, ChannelKept, BlankType, RangeType
<1>a. b \in Nat /\ n \in Nat
  BY ConstantsAssumption DEF Blocks
<1>1. CASE ReadUncached(t, b, n)
  <2>1. RequestType'
    BY <1>1, <1>a, EnterType DEF ReadUncached, PCs, Reading
  <2> QED
    BY <1>1, <2>1, TypeWhole DEF ReadUncached, chan
<1>2. CASE ReadDirect(t, b, n)
  <2>1. CacheType'
    BY <1>2, FlushType DEF ReadDirect
  <2>2. RequestType'
    BY <1>2, <1>a, EnterType, IdleType DEF ReadDirect, PCs, Reading
  <2> QED
    BY <1>2, <2>1, <2>2, TypeWhole DEF ReadDirect, chan
<1>3. CASE ReadCached(t, b, n)
  <2>1. RequestType' /\ ChannelType'
    BY <1>3, <1>a, EnterType DEF ReadCached, PCs, Reading, Lock, ChannelType, chan
  <2> QED
    BY <1>3, <2>1, TypeWhole DEF ReadCached, chan
<1>4. CASE unix_zeroout(t, b, n)
  <2>1. RequestType'
    BY <1>4, <1>a, EnterType DEF unix_zeroout, PCs, Writing
  <2>2. MediumType'
    BY <1>4, HandedType DEF unix_zeroout
  <2> QED
    BY <1>4, <2>1, <2>2, TypeWhole DEF unix_zeroout, chan
<1>5. CASE unix_discard(t, b, n)
  <2>1. PICK Z \in SUBSET Range(b, n) :
          LET d == [c \in Blocks |-> IF c \in Range(b, n) \ Z THEN disk[c] ELSE Zero]
          IN Enter(t, "raw_write", b, n, d) /\ Handed(Range(b, n), d)
    BY <1>5 DEF unix_discard
  <2> DEFINE d == [c \in Blocks |-> IF c \in Range(b, n) \ Z THEN disk[c] ELSE Zero]
  <2>2. d \in [Blocks -> Values]
    BY ConstantsAssumption DEF CacheType
  <2> HIDE DEF d
  <2>3. Enter(t, "raw_write", b, n, d) /\ Handed(Range(b, n), d)
    BY <2>1 DEF d
  <2>4. RequestType'
    BY <2>2, <2>3, <1>a, EnterType DEF PCs, Writing
  <2>5. MediumType'
    BY <1>5, <2>2, <2>3, HandedType DEF unix_discard
  <2> QED
    BY <1>5, <2>4, <2>5, TypeWhole DEF unix_discard, chan
<1>6. ASSUME NEW d \in Data(b, n), WriteUncached(t, b, n, d)
      PROVE  TypeOK'
  <2>1. RequestType'
    BY <1>6, <1>a, EnterType DEF WriteUncached, PCs, Writing, Data
  <2>2. MediumType'
    BY <1>6, HandedType DEF WriteUncached, Data
  <2> QED
    BY <1>6, <2>1, <2>2, TypeWhole DEF WriteUncached, chan
<1>7. ASSUME NEW d \in Data(b, n), WriteCached(t, b, n, d)
      PROVE  TypeOK'
  <2>1. RequestType'
    BY <1>7, <1>a, EnterType DEF WriteCached, PCs, Writing, Data
  <2>2. MediumType'
    BY <1>7, HandedType DEF WriteCached, Data
  <2>3. ChannelType'
    BY <1>7 DEF WriteCached, Lock, ChannelType, chan
  <2> QED
    BY <1>7, <2>1, <2>2, <2>3, TypeWhole DEF WriteCached, chan
<1>8. ASSUME NEW d \in Data(b, n), WriteDirect(t, b, n, d)
      PROVE  TypeOK'
  BY <1>8, <1>a, FlushAndWriteType DEF WriteDirect, Data
<1>9. ASSUME NEW d \in Data(b, n), n = 1, unix_write_byte(t, b, d)
      PROVE  TypeOK'
  BY <1>9, <1>a, FlushAndWriteType DEF unix_write_byte, Data
<1> QED
  BY <1>1, <1>2, <1>3, <1>4, <1>5, <1>6, <1>7, <1>8, <1>9

LEMMA CallType ==
  ASSUME TypeOK, NEW t \in Threads, Call(t)
  PROVE  TypeOK'
<1> USE TypeParts, CacheKept, MediumKept, FlagKept, ChannelKept, RequestKept, BlankType
<1>1. CASE unix_flush(t)
  <2>1. CacheType'
    BY <1>1, FlushType DEF unix_flush
  <2>2. RequestType'
    BY <1>1, EnterType, IdleType, ConstantsAssumption DEF unix_flush, PCs
  <2> QED
    BY <1>1, <2>1, <2>2, TypeWhole DEF unix_flush, chan
<1>2. CASE unix_set_blksize(t)
  <2>1. CacheType' /\ RequestType'
    BY <1>2, FlushType, IdleType DEF unix_set_blksize
  <2> QED
    BY <1>2, <2>1, TypeWhole DEF unix_set_blksize, chan
<1>3. CASE SetCacheOff(t)
  <2>1. CacheType' /\ RequestType'
    BY <1>3, FlushType, IdleType DEF SetCacheOff
  <2>2. FlagType'
    BY <1>3, Zenon DEF SetCacheOff, FlagType
  <2> QED
    BY <1>3, <2>1, <2>2, TypeWhole DEF SetCacheOff
<1>4. CASE SetCacheOn(t)
  <2>1. RequestType'
    BY <1>4, IdleType DEF SetCacheOn
  <2>2. FlagType'
    BY <1>4, Zenon DEF SetCacheOn, FlagType
  <2> QED
    BY <1>4, <2>1, <2>2, TypeWhole DEF SetCacheOn
<1>5. CASE io_channel_bumpcount(t)
  <2>1. ChannelType'
    BY <1>5, ConstantsAssumption DEF io_channel_bumpcount, ChannelType
  <2> QED
    BY <1>5, <2>1, TypeWhole DEF io_channel_bumpcount
<1>6. CASE unix_close(t)
  <2>1. CacheType' /\ RequestType'
    <3>1. CASE refcount > 1
      BY <1>6, <3>1 DEF unix_close
    <3>2. CASE ~(refcount > 1)
      BY <1>6, <3>2, FlushType, IdleType DEF unix_close
    <3> QED BY <3>1, <3>2
  <2>2. ChannelType'
    BY <1>6, ConstantsAssumption DEF unix_close, MayStart, ChannelType
  <2> QED
    BY <1>6, <2>1, <2>2, TypeWhole DEF unix_close
<1> QED
  BY <1>1, <1>2, <1>3, <1>4, <1>5, <1>6, BlockCallType DEF Call

LEMMA NextType == TypeOK /\ [Next]_vars => TypeOK'
<1> SUFFICES ASSUME TypeOK, [Next]_vars PROVE TypeOK'
  OBVIOUS
<1> USE TypeParts, CacheKept, MediumKept, FlagKept, ChannelKept, RequestKept
<1>1. CASE UNCHANGED vars
  BY <1>1, TypeWhole DEF vars, chan
<1>2. ASSUME NEW t \in Threads, Step(t) \/ Call(t) PROVE TypeOK'
  BY <1>2, StepType, CallType
<1>3. CASE unix_open
  <2>1. ChannelType'
    BY <1>3, ConstantsAssumption DEF unix_open, ChannelType
  <2>2. FlagType'
    BY <1>3, Zenon DEF unix_open, FlagType
  <2> QED
    BY <1>3, <2>1, <2>2, TypeWhole DEF unix_open
<1>4. ASSUME NEW b \in Blocks, Writeback(b) PROVE TypeOK'
  <2>1. MediumType'
    BY <1>4 DEF Writeback, MediumType, CacheType
  <2> QED
    BY <1>4, <2>1, TypeWhole DEF Writeback, chan
<1>5. ASSUME NEW d \in [Blocks -> Values], NEW h \in [Blocks -> SUBSET Values], Stop(d, h)
      PROVE  TypeOK'
  <2>1. CacheType'
    BY <1>5, EmptyType DEF Stop, CacheType
  <2>2. MediumType'
    BY <1>5 DEF Stop, MediumType
  <2>3. ChannelType'
    BY <1>5, ConstantsAssumption DEF Stop, ChannelType
  <2>4. RequestType'
    BY <1>5, BlankType, ConstantsAssumption DEF Stop, RequestType, RunKnown, PCs
  <2> QED
    BY <1>5, <2>1, <2>2, <2>3, <2>4, TypeWhole DEF Stop
<1>6. CASE Kill
  BY <1>5, <1>6 DEF Kill, CacheType, MediumType
<1>7. CASE PowerFail
  BY <1>5, <1>7 DEF PowerFail, MediumType
<1> QED
  BY <1>1, <1>2, <1>3, <1>4, <1>6, <1>7 DEF Next

\* TypeOK holds throughout: in particular a request never names a block past
\* the end of the device, and its run never exceeds what is left of it.
THEOREM TypeCorrect == Spec => []TypeOK
  BY InitType, NextType, PTL DEF Spec

-----------------------------------------------------------------------------
(* No block is in two slots *)

LEMMA FlushOneSlot ==
  ASSUME TypeOK, OneSlotPerBlock, NEW fail, NEW i \in BOOLEAN, FlushCache(fail, i)
  PROVE  OneSlotPerBlock'
<1>1. \A s \in Slots : cache'[s].in_use => /\ cache[s].in_use
                                           /\ cache'[s].block = cache[s].block
  BY DEF FlushCache, SlotAfterFlush, Empty, TypeOK, Slot
<1> QED
  BY <1>1 DEF OneSlotPerBlock

LEMMA ReuseOneSlot ==
  ASSUME TypeOK, OneSlotPerBlock, NEW b \in Blocks, NEW v \in Values, NEW d \in BOOLEAN,
         ~Cached(b), ReuseSlot(b, v, d)
  PROVE  OneSlotPerBlock'
<1>1. PICK s \in Slots :
        cache' = [cache EXCEPT ![s] = [in_use |-> TRUE, dirty |-> d, block |-> b, buf |-> v]]
  BY DEF ReuseSlot
<1>2. \A r \in Slots \ {s} : cache'[r] = cache[r]
  BY <1>1 DEF TypeOK
<1>3. cache'[s].block = b
  BY <1>1 DEF TypeOK
<1>4. \A r \in Slots \ {s} : cache'[r].in_use => cache'[r].block # b
  BY <1>2 DEF Cached, Holds
<1> QED
  BY <1>2, <1>3, <1>4 DEF OneSlotPerBlock

LEMMA StepOneSlot ==
  ASSUME TypeOK, OneSlotPerBlock, NEW t \in Threads, Step(t)
  PROVE  OneSlotPerBlock'
<1>1. CASE ReadSave(t)
  <2>1. blk[t] \in Blocks /\ buf[t][blk[t]] \in Values
    BY <1>1, ConstantsAssumption DEF ReadSave, TypeOK, Blocks
  <2>2. CASE Cached(blk[t])
    BY <1>1, <2>2 DEF ReadSave, SaveBlock, OneSlotPerBlock
  <2>3. CASE ~Cached(blk[t])
    BY <1>1, <2>1, <2>3, ReuseOneSlot DEF ReadSave, SaveBlock
  <2> QED BY <2>2, <2>3
<1>2. CASE WriteFill(t)
  <2>1. blk[t] \in Blocks /\ buf[t][blk[t]] \in Values
    BY <1>2, ConstantsAssumption DEF WriteFill, TypeOK, Blocks
  <2>2. CASE Cached(blk[t])
    <3>1. PICK s \in Slots : cache' = [cache EXCEPT ![s].buf = buf[t][blk[t]],
                                                   ![s].dirty = ~writethrough]
      BY <1>2, <2>2 DEF WriteFill, FillBlock
    <3>2. \A r \in Slots : /\ cache'[r].in_use = cache[r].in_use
                           /\ cache'[r].block = cache[r].block
      BY <3>1 DEF TypeOK, Slot
    <3> QED
      BY <3>2 DEF OneSlotPerBlock
  <2>3. CASE ~Cached(blk[t])
    BY <1>2, <2>1, <2>3, ReuseOneSlot DEF WriteFill, FillBlock
  <2> QED BY <2>2, <2>3
<1>3. CASE UNCHANGED cache
  BY <1>3 DEF OneSlotPerBlock
<1> QED
  BY <1>1, <1>2, <1>3 DEF Step, RawRead, ReadHit, ReadMiss, ReadFetch, ReadRelock, ReadReturn,
     RawWrite, WriteThrough, WriteLock, WriteReturn, Fsync, Return

LEMMA CallOneSlot ==
  ASSUME TypeOK, OneSlotPerBlock, NEW t \in Threads, Call(t)
  PROVE  OneSlotPerBlock'
<1>1. CASE UNCHANGED cache
  BY <1>1 DEF OneSlotPerBlock
<1>2. ASSUME NEW fail, NEW i \in BOOLEAN, FlushCache(fail, i) PROVE OneSlotPerBlock'
  BY <1>2, FlushOneSlot
<1>3. CASE \E fail : FlushCache(fail, TRUE) \/ FlushCache(fail, FALSE)
  BY <1>2, <1>3
<1>4. ASSUME NEW b, NEW n,
             \/ ReadUncached(t, b, n) \/ ReadDirect(t, b, n) \/ ReadCached(t, b, n)
             \/ unix_zeroout(t, b, n) \/ unix_discard(t, b, n)
      PROVE  OneSlotPerBlock'
  BY <1>1, <1>3, <1>4 DEF ReadUncached, ReadDirect, ReadCached, unix_zeroout, unix_discard
<1>5. ASSUME NEW b, NEW n, NEW d,
             \/ WriteUncached(t, b, n, d) \/ WriteCached(t, b, n, d)
             \/ WriteDirect(t, b, n, d) \/ unix_write_byte(t, b, d)
      PROVE  OneSlotPerBlock'
  BY <1>1, <1>3, <1>5 DEF WriteUncached, WriteCached, WriteDirect, unix_write_byte, FlushAndWrite
<1>6. CASE unix_flush(t) \/ unix_set_blksize(t) \/ SetCacheOff(t) \/ SetCacheOn(t)
  BY <1>1, <1>3, <1>6 DEF unix_flush, unix_set_blksize, SetCacheOff, SetCacheOn
<1>7. CASE io_channel_bumpcount(t) \/ unix_close(t)
  BY <1>1, <1>3, <1>7 DEF io_channel_bumpcount, unix_close
<1> QED
  BY <1>4, <1>5, <1>6, <1>7 DEF Call

LEMMA NextOneSlot == TypeOK /\ OneSlotPerBlock /\ [Next]_vars => OneSlotPerBlock'
<1> SUFFICES ASSUME TypeOK, OneSlotPerBlock, [Next]_vars PROVE OneSlotPerBlock'
  OBVIOUS
<1>1. CASE UNCHANGED cache
  BY <1>1 DEF OneSlotPerBlock
<1>2. ASSUME NEW d, NEW h, Stop(d, h) PROVE OneSlotPerBlock'
  BY <1>2 DEF Stop, Empty, OneSlotPerBlock
<1> QED
  BY <1>1, <1>2, StepOneSlot, CallOneSlot
     DEF Next, vars, unix_open, Writeback, Kill, PowerFail

\* Whatever the threads do concurrently, with or without faults and crashes,
\* no block is ever in two slots of the cache.
THEOREM OneSlot == Spec => []OneSlotPerBlock
<1>1. Init => OneSlotPerBlock
  BY DEF Init, OneSlotPerBlock, Empty
<1> QED
  BY <1>1, TypeCorrect, NextOneSlot, PTL DEF Spec

-----------------------------------------------------------------------------
(* Coherence: proofs for every device, cache and request size, every       *)
(* number of threads, kills, power failures and failing reads.  Threads    *)
(* write only while nobody else is in a request and go round the cache     *)
(* only where it holds nothing, as the callers in the repository do        *)
(* (Liberties = {}).                                                       *)

-----------------------------------------------------------------------------
(* The inductive invariant *)

Dirty(b) == \E s \in Slots : Holds(s, b) /\ cache[s].dirty

\* A thread that does more than read is alone.
WritesAlone ==
  \A t, u \in Threads : \/ t = u \/ pc[t] = "idle" \/ pc[u] = "idle"
                        \/ pc[t] \in Reading /\ pc[u] \in Reading

\* A closed channel has no cache and no requests.
ClosedIsEmpty ==
  refcount = 0 => /\ \A s \in Slots : ~cache[s].in_use
                  /\ \A t \in Threads : pc[t] = "idle"

\* The cache of a channel that writes through has nothing to write.
ThroughIsClean == writethrough => DirtySlots = {}

\* A request goes round the cache only for blocks it does not hold.
RawIsUncached(t) == pc[t] = "raw_write" => \A b \in Range(blk[t], cnt[t]) : ~Cached(b)

\* What a read fetches while it does not hold the mutex is nowhere dirty, and
\* what it has fetched is on the device until it is saved.
FetchIsCurrent(t) ==
  \A b \in Range(blk[t], run[t]) :
    /\ pc[t] \in {"fetch", "fetched", "save"} => ~Dirty(b)
    /\ pc[t] \in {"fetched", "save"} => buf[t][b] = disk[b]

\* What a write-through has written and not yet cached is on the device.
ThroughIsWritten(t) ==
  /\ pc[t] \in {"through", "wlock"} => writethrough
  /\ ~WriteFaults /\ writethrough /\ pc[t] \in {"wlock", "write"} =>
       \A b \in Range(blk[t], cnt[t]) : buf[t][b] = disk[b]

Local(t) == RawIsUncached(t) /\ FetchIsCurrent(t) /\ ThroughIsWritten(t)

\* Clean slots match the device, whatever fails unless it is a write-through.
CleanIsCurrent == ~WriteFaults \/ ~writethrough => CleanMatchesDisk

Coherent ==
  /\ WritesAlone
  /\ ClosedIsEmpty
  /\ ThroughIsClean
  /\ \A t \in Threads : Local(t)
  /\ CleanIsCurrent

-----------------------------------------------------------------------------
(* What a step of one thread leaves to the others *)

\* The requests of the other threads stay as they are.
Others(t) ==
  \A u \in Threads \ {t} : /\ pc'[u] = pc[u] /\ blk'[u] = blk[u] /\ cnt'[u] = cnt[u]
                           /\ run'[u] = run[u] /\ buf'[u] = buf[u]

AllIdle(t) == \A u \in Threads \ {t} : pc[u] = "idle"
AllReading(t) == \A u \in Threads \ {t} : pc[u] \in Reading \cup {"idle"}

\* All that a read does to the cache and the device.
ReadEffect ==
  /\ \A b \in Blocks : Dirty(b)' => Dirty(b)
  /\ \A b \in Blocks : disk'[b] = disk[b] \/ Dirty(b)

Considerate(t) ==
  /\ Others(t)
  /\ writethrough' = writethrough
  /\ \/ AllIdle(t)
     \/ pc'[t] \in Reading \cup {"idle"} /\ AllReading(t) /\ ReadEffect

LEMMA OthersKept ==
  ASSUME WritesAlone, NEW t \in Threads, \A u \in Threads : Local(u), Considerate(t)
  PROVE  /\ WritesAlone'
         /\ \A u \in Threads \ {t} : Local(u)'
<1>1. WritesAlone'
  BY DEF WritesAlone, Considerate, Others, AllIdle, AllReading, Reading
<1>2. ASSUME NEW u \in Threads \ {t} PROVE Local(u)'
  <2>1. /\ pc'[u] = pc[u] /\ blk'[u] = blk[u] /\ cnt'[u] = cnt[u]
        /\ run'[u] = run[u] /\ buf'[u] = buf[u]
    BY DEF Considerate, Others
  <2>2. CASE pc[u] = "idle"
    BY <2>1, <2>2 DEF Local, RawIsUncached, FetchIsCurrent, ThroughIsWritten
  <2>3. CASE pc[u] # "idle"
    <3>1. pc[u] \in Reading /\ ReadEffect
      BY <2>3 DEF Considerate, AllIdle, AllReading
    <3>2. pc[u] \notin {"raw_write", "through", "wlock", "write"}
      BY <3>1 DEF Reading
    <3>3. FetchIsCurrent(u)'
      <4>1. SUFFICES ASSUME NEW b \in Range(blk[u], run[u])
                     PROVE  /\ pc[u] \in {"fetch", "fetched", "save"} => ~Dirty(b)'
                            /\ pc[u] \in {"fetched", "save"} => buf[u][b] = disk'[b]
        BY <2>1 DEF FetchIsCurrent, Range
      <4> QED
        BY <3>1, <4>1 DEF ReadEffect, Local, FetchIsCurrent, Range
    <3> QED
      BY <2>1, <3>2, <3>3 DEF Local, RawIsUncached, ThroughIsWritten
  <2> QED BY <2>2, <2>3
<1> QED BY <1>1, <1>2

\* Threads that do not merely read are alone.
LEMMA StartsAlone ==
  ASSUME Liberties = {}, NEW t \in Threads, NEW reads, MayStart(t, reads)
  PROVE  /\ pc[t] = "idle" /\ refcount > 0
         /\ AllReading(t)
         /\ ~reads => AllIdle(t)
  BY DEF MayStart, AllIdle, AllReading

LEMMA InsideAlone ==
  ASSUME WritesAlone, NEW t \in Threads, pc[t] # "idle"
  PROVE  AllReading(t) /\ (pc[t] \notin Reading => AllIdle(t))
  BY DEF WritesAlone, AllIdle, AllReading, Reading

LEMMA SameEffect == ASSUME UNCHANGED <<cache, disk>> PROVE ReadEffect
  BY DEF ReadEffect, Dirty, Holds

LEMMA FlushEffect ==
  ASSUME TypeOK, NEW fail, NEW i \in BOOLEAN, FlushCache(fail, i)
  PROVE  ReadEffect
<1>1. \A s \in Slots : cache'[s].in_use => /\ cache[s].in_use
                                           /\ cache'[s].block = cache[s].block
                                           /\ cache'[s].dirty => cache[s].dirty
  BY DEF FlushCache, SlotAfterFlush, Empty, TypeOK, Slot
<1>2. \A b \in Blocks : Dirty(b)' => Dirty(b)
  BY <1>1 DEF Dirty, Holds
<1>3. \A b \in Blocks : disk'[b] = disk[b] \/ Dirty(b)
  BY DEF FlushCache, FlushedDisk, DirtySlots, Dirty, Holds
<1> QED BY <1>2, <1>3 DEF ReadEffect

\* Slot s is given to block b.
Reused(s, b, v, d) ==
  /\ cache' = [cache EXCEPT ![s] = [in_use |-> TRUE, dirty |-> d, block |-> b, buf |-> v]]
  /\ \/ disk' = disk
     \/ s \in DirtySlots /\ disk' = [disk EXCEPT ![cache[s].block] = cache[s].buf]
  /\ ~WriteFaults /\ s \in DirtySlots => disk' = [disk EXCEPT ![cache[s].block] = cache[s].buf]

LEMMA ReuseEffect ==
  ASSUME NEW b, NEW v, NEW d, ReuseSlot(b, v, d)
  PROVE  \E s \in Slots : Reused(s, b, v, d)
  BY DEF ReuseSlot, EvictedDisk, WriteOutcomes, Reused, DirtySlots

LEMMA SaveEffect ==
  ASSUME TypeOK, NEW b \in Blocks, NEW v \in Values, SaveBlock(b, v)
  PROVE  ReadEffect
<1>1. CASE Cached(b)
  BY <1>1, SameEffect DEF SaveBlock
<1>2. CASE ~Cached(b)
  <2> ReuseSlot(b, v, FALSE)
    BY <1>2, Zenon DEF SaveBlock
  <2>1. PICK s \in Slots : Reused(s, b, v, FALSE)
    BY ReuseEffect, Zenon
  <2>2. \A c \in Blocks : Dirty(c)' => Dirty(c)
    BY <2>1 DEF Reused, DirtySlots, Dirty, Holds, TypeOK
  <2>3. \A c \in Blocks : disk'[c] = disk[c] \/ Dirty(c)
    BY <2>1 DEF Reused, DirtySlots, Dirty, Holds, TypeOK
  <2> QED BY <2>2, <2>3 DEF ReadEffect
<1> QED BY <1>1, <1>2

-----------------------------------------------------------------------------
(* What the operations on the cache do to clean slots *)

CleanSlot(s) == cache[s].in_use /\ ~cache[s].dirty => cache[s].buf = disk[cache[s].block]

LEMMA OvertakenMeans ==
  /\ \A b : b \in Overtaken <=>
       writethrough /\ \E t \in Threads : pc[t] \in {"wlock", "write"} /\ b \in Range(blk[t], cnt[t])
  /\ \A b : b \in Overtaken' <=>
       writethrough' /\ \E t \in Threads : pc'[t] \in {"wlock", "write"}
                                           /\ b \in Range(blk'[t], cnt'[t])
  BY DEF Overtaken, Range

LEMMA CleanWhenNoWriter ==
  ASSUME CleanMatchesDisk, ~writethrough \/ \A t \in Threads : pc[t] \notin {"wlock", "write"}
  PROVE  \A s \in Slots : CleanSlot(s)
  BY OvertakenMeans DEF CleanMatchesDisk, CleanSlot

LEMMA CleanIfAll == ASSUME \A s \in Slots : CleanSlot(s)' PROVE CleanMatchesDisk'
  BY DEF CleanMatchesDisk, CleanSlot

LEMMA FlushClean ==
  ASSUME TypeOK, OneSlotPerBlock, \A s \in Slots : CleanSlot(s), NEW fail \in FlushFailures,
         NEW i \in BOOLEAN, FlushCache(fail, i)
  PROVE  \A s \in Slots : CleanSlot(s)'
<1> SUFFICES ASSUME NEW s \in Slots, cache'[s].in_use, ~cache'[s].dirty
             PROVE  cache'[s].buf = disk'[cache'[s].block]
  BY DEF CleanSlot
<1>1. fail \subseteq DirtySlots
  BY DEF FlushFailures
<1>2. ~i /\ s \notin fail
  BY <1>1 DEF FlushCache, SlotAfterFlush, Empty, DirtySlots
<1>3. /\ cache[s].in_use /\ cache[s].block \in Blocks
      /\ cache'[s].block = cache[s].block /\ cache'[s].buf = cache[s].buf
  BY <1>2 DEF FlushCache, SlotAfterFlush, TypeOK, Slot
<1>4. \A r \in DirtySlots : cache[r].block = cache[s].block => r = s
  BY <1>3 DEF DirtySlots, OneSlotPerBlock
<1>5. CASE s \in DirtySlots
  <2>1. disk'[cache[s].block] =
          cache[CHOOSE r \in DirtySlots \ fail : cache[r].block = cache[s].block].buf
    BY <1>2, <1>3, <1>5 DEF FlushCache, FlushedDisk
  <2>2. (CHOOSE r \in DirtySlots \ fail : cache[r].block = cache[s].block) = s
    BY <1>2, <1>4, <1>5
  <2> QED BY <1>3, <2>1, <2>2
<1>6. CASE s \notin DirtySlots
  <2>1. disk'[cache[s].block] = disk[cache[s].block]
    BY <1>3, <1>4, <1>6 DEF FlushCache, FlushedDisk
  <2> QED BY <1>3, <1>6, <2>1 DEF CleanSlot, DirtySlots
<1> QED BY <1>5, <1>6

LEMMA ReuseClean ==
  ASSUME TypeOK, OneSlotPerBlock, \A s \in Slots : CleanSlot(s), NEW b \in Blocks, ~Cached(b),
         NEW v \in Values, NEW d \in BOOLEAN, d \/ v = disk[b], NEW s \in Slots, Reused(s, b, v, d)
  PROVE  \A r \in Slots : CleanSlot(r)'
<1> SUFFICES ASSUME NEW r \in Slots, cache'[r].in_use, ~cache'[r].dirty
             PROVE  cache'[r].buf = disk'[cache'[r].block]
  BY DEF CleanSlot
<1>1. CASE r = s
  <2>1. cache'[s] = [in_use |-> TRUE, dirty |-> d, block |-> b, buf |-> v]
    BY DEF Reused, TypeOK
  <2>2. disk'[b] = disk[b]
    BY DEF Reused, TypeOK, DirtySlots, Cached, Holds
  <2> QED BY <1>1, <2>1, <2>2
<1>2. CASE r # s
  <2>1. cache'[r] = cache[r] /\ cache[r] \in Slot
    BY <1>2 DEF Reused, TypeOK
  <2>2. disk'[cache[r].block] = disk[cache[r].block]
    BY <1>2, <2>1 DEF Reused, TypeOK, DirtySlots, OneSlotPerBlock, Slot
  <2> QED BY <2>1, <2>2 DEF CleanSlot
<1> QED BY <1>1, <1>2

-----------------------------------------------------------------------------
(* Steps that change neither the cache nor the device *)

LEMMA QuietCoherent ==
  ASSUME Coherent, NEW t \in Threads, Considerate(t), Local(t)', UNCHANGED <<cache, disk>>,
         refcount # 0, refcount' # 0,
         pc[t] \in {"wlock", "write"} =>
           \/ cnt[t] = 0 /\ blk[t] \in Nat
           \/ pc'[t] \in {"wlock", "write"} /\ blk'[t] = blk[t] /\ cnt'[t] = cnt[t]
  PROVE  Coherent'
<1>1. WritesAlone' /\ \A u \in Threads : Local(u)'
  BY OthersKept DEF Coherent
<1>2. ThroughIsClean' /\ ClosedIsEmpty'
  BY DEF Coherent, ThroughIsClean, ClosedIsEmpty, DirtySlots, Considerate
<1>3. Overtaken \subseteq Overtaken'
  <2>1. ASSUME NEW b, NEW u \in Threads, pc[u] \in {"wlock", "write"}, b \in Range(blk[u], cnt[u])
        PROVE  \E w \in Threads : pc'[w] \in {"wlock", "write"} /\ b \in Range(blk'[w], cnt'[w])
    <3>1. CASE u = t
      <4>1. ~(cnt[t] = 0 /\ blk[t] \in Nat)
        BY <2>1, <3>1, ConstantsAssumption DEF Range, Blocks
      <4> QED BY <2>1, <3>1, <4>1
    <3>2. CASE u # t
      BY <2>1, <3>2 DEF Considerate, Others
    <3> QED BY <3>1, <3>2
  <2> QED BY <2>1, OvertakenMeans DEF Considerate
<1>4. CleanIsCurrent'
  BY <1>3 DEF Coherent, CleanIsCurrent, CleanMatchesDisk, Considerate
<1> QED BY <1>1, <1>2, <1>4 DEF Coherent

LEMMA InsideOpen ==
  ASSUME TypeOK, Coherent, NEW t \in Threads, pc[t] # "idle"
  PROVE  refcount # 0
  BY DEF Coherent, ClosedIsEmpty

\* A thread that is idle, or whose request is anywhere else, promises nothing.
LEMMA NothingLocal ==
  ASSUME NEW t \in Threads,
         pc'[t] \notin {"raw_write", "fetch", "fetched", "save", "through", "wlock", "write"}
  PROVE  Local(t)'
  BY DEF Local, RawIsUncached, FetchIsCurrent, ThroughIsWritten

LEMMA QuietReadSteps ==
  ASSUME TypeOK, Coherent, NEW t \in Threads,
         \/ RawRead(t) \/ ReadHit(t) \/ ReadMiss(t) \/ ReadFetch(t) \/ ReadRelock(t)
         \/ ReadReturn(t)
  PROVE  Coherent'
<1>1. pc[t] \in Reading /\ UNCHANGED <<cache, disk, chan>>
  BY DEF RawRead, ReadHit, ReadMiss, ReadFetch, ReadRelock, ReadReturn, Reading
<1>2. refcount # 0 /\ refcount' # 0 /\ pc[t] \notin {"wlock", "write"}
  BY <1>1, InsideOpen DEF chan, Reading
<1>3. pc'[t] \in Reading \cup {"idle"}
  BY <1>1 DEF RawRead, ReadHit, ReadMiss, ReadFetch, ReadRelock, ReadReturn, Reading, Goto, Idle,
              TypeOK
<1>4. Others(t)
  BY DEF RawRead, ReadHit, ReadMiss, ReadFetch, ReadRelock, ReadReturn, Goto, Idle, Advance,
         Others, TypeOK, req
<1>5. AllReading(t)
  BY <1>1, InsideAlone DEF Coherent, Reading
<1>6. Considerate(t)
  BY <1>1, <1>3, <1>4, <1>5, SameEffect DEF Considerate, chan
<1>7. Local(t)'
  <2>1. CASE RawRead(t) \/ ReadHit(t) \/ ReadReturn(t)
    BY <2>1, NothingLocal DEF RawRead, ReadHit, ReadReturn, Goto, Idle, TypeOK
  <2>2. CASE ReadMiss(t)
    <3>1. PICK i \in 1 .. cnt[t] : /\ run' = [run EXCEPT ![t] = i]
                                   /\ \A j \in 1 .. i - 1 : ~Cached(blk[t] + j)
      BY <2>2 DEF ReadMiss, UncachedRun
    <3>2. \A b \in Range(blk[t], i) : ~Cached(b)
      <4>1. TAKE b \in Range(blk[t], i)
      <4>2. b = blk[t] \/ (b - blk[t] \in 1 .. i - 1 /\ b = blk[t] + (b - blk[t]))
        BY ConstantsAssumption, SMTT(40) DEF Range, Blocks, TypeOK
      <4> QED BY <2>2, <3>1, <4>2 DEF ReadMiss
    <3>3. pc'[t] = "fetch" /\ blk'[t] = blk[t] /\ run'[t] = i
      BY <2>2, <3>1 DEF ReadMiss, Goto, TypeOK
    <3>4. \A b \in Range(blk'[t], run'[t]) : ~Dirty(b)'
      BY <1>1, <3>2, <3>3 DEF Dirty, Cached, Holds
    <3> QED BY <3>3, <3>4 DEF Local, RawIsUncached, FetchIsCurrent, ThroughIsWritten
  <2>3. CASE ReadFetch(t)
    <3>1. CASE pc'[t] = "idle"
      BY <3>1, NothingLocal
    <3>2. CASE pc'[t] # "idle"
      <4>1. /\ pc[t] = "fetch" /\ pc'[t] = "fetched" /\ blk'[t] = blk[t] /\ run'[t] = run[t]
            /\ \A b \in Range(blk[t], run[t]) : buf'[t][b] = disk[b]
        BY <2>3, <3>2 DEF ReadFetch, Goto, Idle, TypeOK, req, Range
      <4>2. \A b \in Range(blk'[t], run'[t]) : ~Dirty(b)' /\ buf'[t][b] = disk'[b]
        BY <1>1, <4>1 DEF Coherent, Local, FetchIsCurrent, Dirty, Holds
      <4> QED BY <4>1, <4>2 DEF Local, RawIsUncached, FetchIsCurrent, ThroughIsWritten
    <3> QED BY <3>1, <3>2
  <2>4. CASE ReadRelock(t)
    <3>1. /\ pc[t] = "fetched" /\ pc'[t] = "save" /\ blk'[t] = blk[t] /\ run'[t] = run[t]
          /\ buf' = buf
      BY <2>4 DEF ReadRelock, Goto, TypeOK, req
    <3>2. \A b \in Range(blk'[t], run'[t]) : ~Dirty(b)' /\ buf'[t][b] = disk'[b]
      BY <1>1, <3>1 DEF Coherent, Local, FetchIsCurrent, Dirty, Holds
    <3> QED BY <3>1, <3>2 DEF Local, RawIsUncached, FetchIsCurrent, ThroughIsWritten
  <2> QED BY <2>1, <2>2, <2>3, <2>4
<1> QED BY <1>1, <1>2, <1>6, <1>7, QuietCoherent

LEMMA QuietWriteSteps ==
  ASSUME TypeOK, Coherent, NEW t \in Threads, WriteLock(t) \/ WriteReturn(t) \/ Fsync(t) \/ Return(t)
  PROVE  Coherent'
<1>1. pc[t] # "idle" /\ UNCHANGED <<cache, disk, chan>>
  BY DEF WriteLock, WriteReturn, Fsync, Return
<1>2. refcount # 0 /\ refcount' # 0
  BY <1>1, InsideOpen DEF chan
<1>3. Others(t)
  BY DEF WriteLock, WriteReturn, Fsync, Return, Goto, Idle, Others, TypeOK, req
<1>4. Considerate(t)
  <2>1. CASE pc[t] \in Reading
    <3>1. pc'[t] = "idle"
      BY <2>1 DEF WriteLock, WriteReturn, Fsync, Return, Idle, Reading, TypeOK
    <3> QED
      BY <1>1, <1>3, <2>1, <3>1, InsideAlone, SameEffect DEF Considerate, Coherent, chan
  <2>2. CASE pc[t] \notin Reading
    BY <1>1, <1>3, <2>2, InsideAlone DEF Considerate, Coherent, chan
  <2> QED BY <2>1, <2>2
<1>5. CASE WriteLock(t)
  <2>1. /\ pc[t] = "wlock" /\ pc'[t] = "write" /\ blk'[t] = blk[t] /\ cnt'[t] = cnt[t]
        /\ buf' = buf
    BY <1>5 DEF WriteLock, Goto, TypeOK, req
  <2>2. Local(t)'
    BY <1>1, <2>1 DEF Coherent, Local, RawIsUncached, FetchIsCurrent, ThroughIsWritten, chan
  <2> QED BY <1>1, <1>2, <1>4, <2>1, <2>2, QuietCoherent
<1>6. CASE ~WriteLock(t)
  <2>1. pc'[t] \in {"idle", "synced"}
    BY <1>6 DEF WriteReturn, Fsync, Return, Idle, Goto, TypeOK
  <2>2. pc[t] \in {"wlock", "write"} => cnt[t] = 0 /\ blk[t] \in Nat
    BY <1>6 DEF WriteReturn, Fsync, Return, TypeOK
  <2> QED BY <1>1, <1>2, <1>4, <2>1, <2>2, NothingLocal, QuietCoherent
<1> QED BY <1>5, <1>6

-----------------------------------------------------------------------------
(* Steps that change the cache or the device *)

\* The loop that saves what a read has fetched.
LEMMA SaveCoherent ==
  ASSUME TypeOK, OneSlotPerBlock, Coherent, NEW t \in Threads, ReadSave(t)
  PROVE  Coherent'
<1> DEFINE b == blk[t]
<1>1. /\ pc[t] = "save" /\ run[t] \in Nat \ {0} /\ run[t] <= cnt[t] /\ cnt[t] \in Nat
      /\ b \in Blocks /\ buf[t][b] \in Values /\ b \in Range(b, run[t])
  BY ConstantsAssumption DEF ReadSave, TypeOK, Blocks, Range
<1>2. SaveBlock(b, buf[t][b]) /\ UNCHANGED <<chan, buf>>
  BY DEF ReadSave
<1>3. ReadEffect
  BY <1>1, <1>2, SaveEffect
<1>4. refcount # 0 /\ refcount' # 0
  BY <1>1, <1>2, InsideOpen DEF chan
<1>5. /\ pc'[t] \in {"read", "save"} /\ blk'[t] = b + 1 /\ run'[t] = run[t] - 1
      /\ Others(t)
  BY DEF ReadSave, Advance, Goto, Others, TypeOK
<1>6. AllReading(t)
  BY <1>1, InsideAlone DEF Coherent, Reading
<1>7. Considerate(t)
  BY <1>2, <1>3, <1>5, <1>6 DEF Considerate, chan, Reading
<1>8. Local(t)'
  <2>1. Range(b + 1, run[t] - 1) \subseteq Range(b, run[t])
    BY <1>1, ConstantsAssumption DEF Range, Blocks
  <2>2. FetchIsCurrent(t)'
    <3> SUFFICES ASSUME NEW c \in Range(b + 1, run[t] - 1)
                 PROVE  ~Dirty(c)' /\ buf'[t][c] = disk'[c]
      BY <1>5 DEF FetchIsCurrent
    <3>1. ~Dirty(c) /\ buf[t][c] = disk[c] /\ c \in Blocks
      BY <1>1, <2>1 DEF Coherent, Local, FetchIsCurrent, Range
    <3> QED BY <1>2, <1>3, <3>1 DEF ReadEffect
  <2> QED BY <1>5, <2>2 DEF Local, RawIsUncached, ThroughIsWritten
<1>9. \A u \in Threads : pc[u] \notin {"wlock", "write"}
  BY <1>1, <1>6 DEF AllReading, Reading
<1>10. WritesAlone' /\ \A u \in Threads : Local(u)'
  BY <1>7, <1>8, OthersKept DEF Coherent
<1>11. ClosedIsEmpty'
  BY <1>4 DEF ClosedIsEmpty
<1>12. CASE Cached(b)
  <2>1. UNCHANGED <<cache, disk>>
    BY <1>2, <1>12 DEF SaveBlock
  <2>2. ThroughIsClean'
    BY <1>2, <2>1 DEF Coherent, ThroughIsClean, DirtySlots, chan
  <2>3. CleanIsCurrent'
    <3>1. CASE ~WriteFaults \/ ~writethrough
      BY <1>9, <2>1, <3>1, CleanWhenNoWriter, CleanIfAll DEF Coherent, CleanIsCurrent, CleanSlot
    <3>2. CASE ~(~WriteFaults \/ ~writethrough)
      BY <1>2, <3>2 DEF CleanIsCurrent, chan
    <3> QED BY <3>1, <3>2
  <2> QED BY <1>10, <1>11, <2>2, <2>3 DEF Coherent
<1>13. CASE ~Cached(b)
  <2>1. ReuseSlot(b, buf[t][b], FALSE)
    BY <1>2, <1>13, Zenon DEF SaveBlock
  <2>2. PICK s \in Slots : Reused(s, b, buf[t][b], FALSE)
    BY <2>1, ReuseEffect, Zenon
  <2>3. ThroughIsClean'
    BY <1>2, <2>2 DEF Coherent, ThroughIsClean, DirtySlots, Reused, TypeOK, chan
  <2>4. buf[t][b] = disk[b]
    BY <1>1 DEF Coherent, Local, FetchIsCurrent
  <2>5. CleanIsCurrent'
    <3>1. CASE ~WriteFaults \/ ~writethrough
      <4>1. \A r \in Slots : CleanSlot(r)
        BY <1>9, <3>1, CleanWhenNoWriter DEF Coherent, CleanIsCurrent
      <4>2. \A r \in Slots : CleanSlot(r)'
        BY <1>1, <1>13, <2>2, <2>4, <4>1, ReuseClean
      <4> QED BY <4>2, CleanIfAll DEF CleanIsCurrent
    <3>2. CASE ~(~WriteFaults \/ ~writethrough)
      BY <1>2, <3>2 DEF CleanIsCurrent, chan
    <3> QED BY <3>1, <3>2
  <2> QED BY <1>10, <1>11, <2>3, <2>5 DEF Coherent
<1> QED BY <1>12, <1>13

\* The device is written without the cache.
LEMMA RawWriteCoherent ==
  ASSUME TypeOK, Coherent, NEW t \in Threads, RawWrite(t)
  PROVE  Coherent'
<1>1. PICK n \in 0 .. cnt[t] : RawWritten(t, n)
  BY DEF RawWrite, TypeOK
<1>2. pc[t] = "raw_write" /\ UNCHANGED <<cache, chan>>
  BY DEF RawWrite
<1>3. pc'[t] \in {"put", "idle"} /\ Others(t)
  BY DEF RawWrite, Goto, Idle, Others, TypeOK, req
<1>4. refcount # 0 /\ refcount' # 0
  BY <1>2, InsideOpen DEF chan
<1>5. AllIdle(t)
  BY <1>2, InsideAlone DEF Coherent, Reading
<1>6. WritesAlone' /\ \A u \in Threads : Local(u)'
  BY <1>2, <1>3, <1>5, OthersKept, NothingLocal DEF Considerate, Coherent, chan
<1>7. ThroughIsClean' /\ ClosedIsEmpty'
  BY <1>2, <1>4 DEF Coherent, ThroughIsClean, ClosedIsEmpty, DirtySlots, chan
<1>8. \A s \in Slots : cache[s].in_use => disk'[cache[s].block] = disk[cache[s].block]
  <2>1. \A c \in Range(blk[t], n) : c \in Range(blk[t], cnt[t])
    BY ConstantsAssumption DEF TypeOK, Range, Blocks
  <2>2. \A s \in Slots : cache[s].in_use => cache[s].block \notin Range(blk[t], n)
    BY <1>2, <2>1 DEF Coherent, Local, RawIsUncached, Cached, Holds
  <2> QED BY <1>1, <2>2 DEF RawWritten, TypeOK, Slot
<1>9. CleanIsCurrent'
  <2>1. CASE ~WriteFaults \/ ~writethrough
    <3>1. \A s \in Slots : CleanSlot(s)
      BY <1>2, <1>5, <2>1, CleanWhenNoWriter DEF Coherent, CleanIsCurrent, AllIdle
    <3> QED BY <1>2, <1>8, <3>1, CleanIfAll DEF CleanSlot, CleanIsCurrent
  <2>2. CASE ~(~WriteFaults \/ ~writethrough)
    BY <1>2, <2>2 DEF CleanIsCurrent, chan
  <2> QED BY <2>1, <2>2
<1> QED BY <1>6, <1>7, <1>9 DEF Coherent

\* The device is written before the cache.
LEMMA ThroughCoherent ==
  ASSUME TypeOK, Coherent, NEW t \in Threads, WriteThrough(t)
  PROVE  Coherent'
<1>1. PICK n \in 0 .. cnt[t] : RawWritten(t, n) /\ (~WriteFaults => n = cnt[t])
  BY DEF WriteThrough, TypeOK
<1>2. pc[t] = "through" /\ pc'[t] = "wlock" /\ UNCHANGED <<cache, chan, req, buf>>
  BY DEF WriteThrough, Goto, TypeOK
<1>3. Others(t)
  BY DEF WriteThrough, Goto, Others, TypeOK, req
<1>4. refcount # 0 /\ refcount' # 0
  BY <1>2, InsideOpen DEF chan
<1>5. AllIdle(t)
  BY <1>2, InsideAlone DEF Coherent, Reading
<1>6. writethrough
  BY <1>2 DEF Coherent, Local, ThroughIsWritten
<1>7. Local(t)'
  <2>1. ~WriteFaults => \A b \in Range(blk[t], cnt[t]) : buf[t][b] = disk'[b]
    BY <1>1 DEF RawWritten, Range
  <2> QED
    BY <1>2, <1>6, <2>1 DEF Local, RawIsUncached, FetchIsCurrent, ThroughIsWritten, chan, req
<1>8. WritesAlone' /\ \A u \in Threads : Local(u)'
  BY <1>2, <1>3, <1>5, <1>7, OthersKept DEF Considerate, Coherent, chan
<1>9. ThroughIsClean' /\ ClosedIsEmpty'
  BY <1>2, <1>4 DEF Coherent, ThroughIsClean, ClosedIsEmpty, DirtySlots, chan
<1>10. ASSUME NEW s \in Slots, cache[s].in_use, cache[s].block \notin Overtaken'
       PROVE  disk'[cache[s].block] = disk[cache[s].block]
  <2>1. \A c \in Range(blk[t], n) : c \in Range(blk'[t], cnt'[t])
    BY <1>2, ConstantsAssumption DEF TypeOK, Range, Blocks, req
  <2>2. cache[s].block \notin Range(blk[t], n)
    BY <1>2, <1>6, <1>10, <2>1, OvertakenMeans DEF chan
  <2> QED BY <1>1, <2>2 DEF RawWritten, TypeOK, Slot
<1>11. CleanIsCurrent'
  <2>1. CASE ~WriteFaults \/ ~writethrough
    <3>1. \A s \in Slots : CleanSlot(s)
      BY <1>2, <1>5, <2>1, CleanWhenNoWriter DEF Coherent, CleanIsCurrent, AllIdle
    <3> QED BY <1>2, <1>10, <3>1 DEF CleanSlot, CleanIsCurrent, CleanMatchesDisk
  <2>2. CASE ~(~WriteFaults \/ ~writethrough)
    BY <1>2, <2>2 DEF CleanIsCurrent, chan
  <2> QED BY <2>1, <2>2
<1> QED BY <1>8, <1>9, <1>11 DEF Coherent

\* Slot s holds v for block b now, and the others are as they were.
Filled(s, b, v, d) ==
  /\ cache'[s] = [in_use |-> TRUE, dirty |-> d, block |-> b, buf |-> v]
  /\ \A r \in Slots \ {s} : cache'[r] = cache[r]

LEMMA FillEffect ==
  ASSUME TypeOK, NEW b \in Blocks, NEW v \in Values, NEW d \in BOOLEAN, FillBlock(b, v, d)
  PROVE  \E s \in Slots :
           /\ Filled(s, b, v, d)
           /\ \/ Holds(s, b) /\ disk' = disk
              \/ ~Cached(b) /\ Reused(s, b, v, d)
<1>1. CASE Cached(b)
  <2>1. PICK s \in Slots : /\ Holds(s, b)
                           /\ cache' = [cache EXCEPT ![s].buf = v, ![s].dirty = d]
    BY <1>1 DEF FillBlock
  <2>2. disk' = disk
    BY <1>1 DEF FillBlock
  <2>3. Filled(s, b, v, d)
    BY <2>1 DEF Filled, Holds, TypeOK, Slot
  <2> QED BY <2>1, <2>2, <2>3
<1>2. CASE ~Cached(b)
  <2>1. ReuseSlot(b, v, d)
    BY <1>2 DEF FillBlock
  <2>2. PICK s \in Slots : Reused(s, b, v, d)
    BY <2>1, ReuseEffect, Zenon
  <2>3. Filled(s, b, v, d)
    BY <2>2 DEF Reused, Filled, TypeOK
  <2> QED BY <1>2, <2>2, <2>3
<1> QED BY <1>1, <1>2

\* The loop that fills the cache on a write.
LEMMA FillCoherent ==
  ASSUME TypeOK, OneSlotPerBlock, Coherent, NEW t \in Threads, WriteFill(t)
  PROVE  Coherent'
<1> DEFINE b == blk[t]
           v == buf[t][blk[t]]
<1>1. /\ pc[t] = "write" /\ cnt[t] \in Nat \ {0}
      /\ b \in Blocks /\ v \in Values /\ b \in Range(b, cnt[t])
  BY ConstantsAssumption DEF WriteFill, TypeOK, Blocks, Range
<1>2. FillBlock(b, v, ~writethrough) /\ UNCHANGED <<chan, pc, run, buf>>
  BY DEF WriteFill
<1>3. blk'[t] = b + 1 /\ cnt'[t] = cnt[t] - 1 /\ Others(t)
  BY DEF WriteFill, Advance, Others, TypeOK
<1>4. refcount # 0 /\ refcount' # 0
  BY <1>1, <1>2, InsideOpen DEF chan
<1>5. AllIdle(t)
  BY <1>1, InsideAlone DEF Coherent, Reading
<1>6. ClosedIsEmpty'
  BY <1>4 DEF ClosedIsEmpty
<1>7. /\ Range(b + 1, cnt[t] - 1) \subseteq Range(b, cnt[t])
      /\ \A c \in Range(b, cnt[t]) : c # b => c \in Range(b + 1, cnt[t] - 1)
  BY <1>1, ConstantsAssumption DEF Range, Blocks
<1> HIDE DEF b, v
<1>8. CASE writethrough
  <2>1. FillBlock(b, v, FALSE)
    <3>1. (~writethrough) = FALSE
      BY <1>8, Zenon DEF TypeOK
    <3> QED BY <1>2, <3>1, Zenon
  <2>2. PICK s \in Slots : /\ Filled(s, b, v, FALSE)
                           /\ \/ Holds(s, b) /\ disk' = disk
                              \/ ~Cached(b) /\ Reused(s, b, v, FALSE)
    BY <1>1, <2>1, FillEffect, Zenon
  <2>3. DirtySlots = {} /\ disk' = disk
    BY <1>8, <2>2 DEF Coherent, ThroughIsClean, Reused
  <2>4. Local(t)'
    <3>1. ~WriteFaults => \A c \in Range(b + 1, cnt[t] - 1) : buf'[t][c] = disk'[c]
      BY <1>1, <1>2, <1>7, <1>8, <2>3 DEF Coherent, Local, ThroughIsWritten, b
    <3> QED
      BY <1>1, <1>2, <1>3, <3>1 DEF Local, RawIsUncached, FetchIsCurrent, ThroughIsWritten
  <2>5. WritesAlone' /\ \A u \in Threads : Local(u)'
    BY <1>2, <1>3, <1>5, <2>4, OthersKept DEF Considerate, Coherent, chan
  <2>6. ThroughIsClean'
    BY <2>2, <2>3 DEF ThroughIsClean, DirtySlots, Filled
  <2>7. CleanIsCurrent'
    <3>1. SUFFICES ASSUME ~WriteFaults, NEW r \in Slots, cache'[r].in_use, ~cache'[r].dirty,
                          cache'[r].block \notin Overtaken'
                   PROVE  cache'[r].buf = disk'[cache'[r].block]
      BY <1>2, <1>8 DEF CleanIsCurrent, CleanMatchesDisk, chan
    <3>2. CASE r = s
      <4>1. v = disk[b]
        BY <1>1, <1>8, <3>1 DEF Coherent, Local, ThroughIsWritten, b, v
      <4> QED BY <2>2, <2>3, <3>2, <4>1 DEF Filled
    <3>3. CASE r # s
      <4>1. cache'[r] = cache[r]
        BY <2>2, <3>3 DEF Filled
      <4>2. cache[r].block # b
        BY <2>2, <3>1, <3>3, <4>1 DEF Cached, Holds, OneSlotPerBlock
      <4>3. cache[r].block \notin Overtaken
        <5>1. SUFFICES ASSUME cache[r].block \in Overtaken PROVE FALSE
          OBVIOUS
        <5>2. PICK u \in Threads : pc[u] \in {"wlock", "write"} /\ cache[r].block \in Range(blk[u], cnt[u])
          BY <5>1, OvertakenMeans
        <5>3. u = t
          BY <1>5, <5>2 DEF AllIdle
        <5>4. cache[r].block \in Range(blk'[t], cnt'[t])
          BY <1>3, <1>7, <4>2, <5>2, <5>3 DEF b
        <5> QED BY <1>1, <1>2, <1>8, <3>1, <4>1, <5>4, OvertakenMeans DEF chan
      <4> QED
        BY <1>8, <2>3, <3>1, <4>1, <4>3 DEF Coherent, CleanIsCurrent, CleanMatchesDisk
    <3> QED BY <3>2, <3>3
  <2> QED BY <1>6, <2>5, <2>6, <2>7 DEF Coherent
<1>9. CASE ~writethrough
  <2>1. FillBlock(b, v, TRUE)
    <3>1. (~writethrough) = TRUE
      BY <1>9, Zenon DEF TypeOK
    <3> QED BY <1>2, <3>1, Zenon
  <2>2. PICK s \in Slots : /\ Filled(s, b, v, TRUE)
                           /\ \/ Holds(s, b) /\ disk' = disk
                              \/ ~Cached(b) /\ Reused(s, b, v, TRUE)
    BY <1>1, <2>1, FillEffect, Zenon
  <2>3. Local(t)'
    BY <1>1, <1>2, <1>9 DEF Local, RawIsUncached, FetchIsCurrent, ThroughIsWritten, chan
  <2>4. WritesAlone' /\ \A u \in Threads : Local(u)'
    BY <1>2, <1>3, <1>5, <2>3, OthersKept DEF Considerate, Coherent, chan
  <2>5. ThroughIsClean'
    BY <1>2, <1>9 DEF ThroughIsClean, chan
  <2>6. \A r \in Slots : CleanSlot(r)
    BY <1>9, CleanWhenNoWriter DEF Coherent, CleanIsCurrent
  <2>7. \A r \in Slots : CleanSlot(r)'
    <3>1. CASE Holds(s, b) /\ disk' = disk
      BY <2>2, <2>6, <3>1 DEF Filled, CleanSlot
    <3>2. CASE ~Cached(b) /\ Reused(s, b, v, TRUE)
      BY <1>1, <2>6, <3>2, ReuseClean
    <3> QED BY <2>2, <3>1, <3>2
  <2> QED BY <1>6, <2>4, <2>5, <2>7, CleanIfAll DEF Coherent, CleanIsCurrent
<1> QED BY <1>8, <1>9

LEMMA StepCoherent ==
  ASSUME TypeOK, OneSlotPerBlock, Coherent, NEW t \in Threads, Step(t)
  PROVE  Coherent'
  BY QuietReadSteps, QuietWriteSteps, SaveCoherent, RawWriteCoherent, ThroughCoherent, FillCoherent
     DEF Step

-----------------------------------------------------------------------------
(* Calls *)

\* Calls that begin by flushing the cache.
LEMMA FlushCoherent ==
  ASSUME TypeOK, OneSlotPerBlock, Coherent, NEW t \in Threads, pc[t] = "idle", refcount # 0,
         AllReading(t), Considerate(t), Local(t)',
         NEW fail \in FlushFailures, NEW i \in BOOLEAN, FlushCache(fail, i),
         refcount' = 0 => i /\ AllIdle(t) /\ pc'[t] = "idle"
  PROVE  Coherent'
<1>1. WritesAlone' /\ \A u \in Threads : Local(u)'
  BY OthersKept DEF Coherent
<1>2. \A s \in Slots : cache'[s].in_use => /\ ~i
                                           /\ cache[s].in_use
                                           /\ cache'[s].dirty => cache[s].dirty
  BY DEF FlushCache, SlotAfterFlush, Empty, TypeOK, Slot
<1>3. ClosedIsEmpty'
  BY <1>2 DEF ClosedIsEmpty, Considerate, Others, AllIdle
<1>4. ThroughIsClean'
  BY <1>2 DEF Coherent, ThroughIsClean, DirtySlots, Considerate
<1>5. CleanIsCurrent'
  <2>1. \A u \in Threads : pc[u] \notin {"wlock", "write"}
    BY DEF AllReading, Reading
  <2>2. CASE ~WriteFaults \/ ~writethrough
    <3>1. \A s \in Slots : CleanSlot(s)'
      BY <2>1, <2>2, CleanWhenNoWriter, FlushClean DEF Coherent, CleanIsCurrent
    <3> QED BY <3>1, CleanIfAll DEF CleanIsCurrent
  <2>3. CASE ~(~WriteFaults \/ ~writethrough)
    BY <2>3 DEF CleanIsCurrent, Considerate
  <2> QED BY <2>2, <2>3
<1> QED BY <1>1, <1>3, <1>4, <1>5 DEF Coherent

LEMMA FlushCallCoherent ==
  ASSUME TypeOK, OneSlotPerBlock, Coherent, Liberties = {}, NEW t \in Threads,
         NEW reads \in BOOLEAN, MayStart(t, reads), Others(t), writethrough' = writethrough,
         NEW fail \in FlushFailures, NEW i \in BOOLEAN, FlushCache(fail, i),
         pc'[t] \in {"raw_read", "raw_write", "fsync", "idle"},
         reads => pc'[t] \in {"raw_read", "idle"},
         pc'[t] = "raw_write" => i,
         refcount' = 0 => i /\ ~reads /\ pc'[t] = "idle"
  PROVE  Coherent'
<1>1. pc[t] = "idle" /\ refcount # 0 /\ AllReading(t) /\ (reads \/ AllIdle(t))
  BY StartsAlone DEF TypeOK
<1>2. Considerate(t)
  BY <1>1, FlushEffect DEF Considerate, Reading
<1>3. Local(t)'
  <2>1. CASE pc'[t] = "raw_write"
    <3>1. \A s \in Slots : ~cache'[s].in_use
      BY <2>1 DEF FlushCache, SlotAfterFlush, Empty
    <3> QED BY <2>1, <3>1 DEF Local, RawIsUncached, FetchIsCurrent, ThroughIsWritten, Cached, Holds
  <2>2. CASE pc'[t] # "raw_write"
    BY <2>2, NothingLocal
  <2> QED BY <2>1, <2>2
<1> QED BY <1>1, <1>2, <1>3, FlushCoherent

\* Calls that leave the cache and the device alone.
LEMMA QuietCallCoherent ==
  ASSUME TypeOK, Coherent, Liberties = {}, NEW t \in Threads,
         NEW reads \in BOOLEAN, MayStart(t, reads), Others(t),
         UNCHANGED <<cache, disk, writethrough>>, refcount' # 0,
         reads => pc'[t] \in Reading, Local(t)'
  PROVE  Coherent'
<1>1. pc[t] = "idle" /\ refcount # 0 /\ AllReading(t) /\ (reads \/ AllIdle(t))
  BY StartsAlone DEF TypeOK
<1>2. Considerate(t)
  BY <1>1, SameEffect DEF Considerate
<1> QED BY <1>1, <1>2, QuietCoherent

LEMMA EnterOthers ==
  ASSUME TypeOK, NEW t \in Threads, NEW p, NEW b, NEW n, NEW d, Enter(t, p, b, n, d)
  PROVE  Others(t) /\ pc'[t] = p /\ blk'[t] = b /\ cnt'[t] = n /\ buf'[t] = d
  BY DEF Enter, Others, TypeOK

LEMMA IdleOthers ==
  ASSUME TypeOK, NEW t \in Threads, NEW r, Idle(t, r)
  PROVE  Others(t) /\ pc'[t] = "idle"
  BY DEF Idle, Others, TypeOK

\* Requests for b to b + n - 1.
LEMMA ReadCallsCoherent ==
  ASSUME TypeOK, OneSlotPerBlock, Coherent, Liberties = {}, NEW t \in Threads, NEW b, NEW n,
         ReadUncached(t, b, n) \/ ReadDirect(t, b, n) \/ ReadCached(t, b, n)
  PROVE  Coherent'
<1>1. MayStart(t, TRUE) /\ UNCHANGED chan
  BY DEF ReadUncached, ReadDirect, ReadCached
<1>2. refcount' # 0 /\ writethrough' = writethrough
  BY <1>1 DEF MayStart, chan
<1>3. CASE ReadUncached(t, b, n)
  <2>1. Others(t) /\ pc'[t] = "raw_read" /\ UNCHANGED <<cache, disk>>
    BY <1>3, EnterOthers DEF ReadUncached
  <2> QED BY <1>1, <1>2, <2>1, NothingLocal, QuietCallCoherent DEF Reading
<1>4. CASE ReadCached(t, b, n)
  <2>1. Others(t) /\ pc'[t] = "read" /\ UNCHANGED <<cache, disk>>
    BY <1>4, EnterOthers DEF ReadCached
  <2> QED BY <1>1, <1>2, <2>1, NothingLocal, QuietCallCoherent DEF Reading
<1>5. CASE ReadDirect(t, b, n)
  <2>1. PICK fail \in FlushFailures :
          /\ FlushCache(fail, FALSE)
          /\ IF fail # {} THEN Idle(t, "err") ELSE Enter(t, "raw_read", b, n, BlankBuf)
    BY <1>5 DEF ReadDirect
  <2>2. Others(t) /\ pc'[t] \in {"raw_read", "idle"}
    BY <2>1, IdleOthers, EnterOthers
  <2> QED BY <1>1, <1>2, <2>1, <2>2, FlushCallCoherent
<1> QED BY <1>3, <1>4, <1>5

LEMMA BypassCallsCoherent ==
  ASSUME TypeOK, Coherent, Liberties = {}, NEW t \in Threads, NEW b, NEW n, NEW d,
         MayStart(t, FALSE), MayBypass(Range(b, n)), Enter(t, "raw_write", b, n, d),
         UNCHANGED <<cache, disk, chan>>
  PROVE  Coherent'
<1>1. refcount' # 0 /\ writethrough' = writethrough
  BY DEF MayStart, chan
<1>2. Others(t) /\ pc'[t] = "raw_write" /\ blk'[t] = b /\ cnt'[t] = n
  BY EnterOthers
<1>3. \A c \in Range(b, n) : ~Cached(c)'
  BY DEF MayBypass, Cached, Holds
<1>4. Local(t)'
  BY <1>2, <1>3 DEF Local, RawIsUncached, FetchIsCurrent, ThroughIsWritten
<1> QED BY <1>1, <1>2, <1>4, QuietCallCoherent

LEMMA WriteCallsCoherent ==
  ASSUME TypeOK, OneSlotPerBlock, Coherent, Liberties = {}, NEW t \in Threads,
         NEW b, NEW n, NEW d,
         \/ WriteUncached(t, b, n, d) \/ WriteCached(t, b, n, d)
         \/ FlushAndWrite(t, b, n, d)
  PROVE  Coherent'
<1>1. MayStart(t, FALSE) /\ UNCHANGED chan
  BY DEF WriteUncached, WriteCached, FlushAndWrite
<1>2. refcount' # 0 /\ writethrough' = writethrough
  BY <1>1 DEF MayStart, chan
<1>3. CASE WriteUncached(t, b, n, d)
  BY <1>3, BypassCallsCoherent DEF WriteUncached
<1>4. CASE WriteCached(t, b, n, d)
  <2>1. /\ Others(t)
        /\ pc'[t] = IF writethrough THEN "through" ELSE "write"
        /\ UNCHANGED <<cache, disk>>
    BY <1>4, EnterOthers DEF WriteCached
  <2>2. Local(t)'
    BY <1>2, <2>1 DEF Local, RawIsUncached, FetchIsCurrent, ThroughIsWritten
  <2> QED BY <1>1, <1>2, <2>1, <2>2, QuietCallCoherent
<1>5. CASE FlushAndWrite(t, b, n, d)
  <2>1. PICK fail \in FlushFailures :
          /\ FlushCache(fail, TRUE)
          /\ Idle(t, "err") \/ Enter(t, "raw_write", b, n, d)
    BY <1>5 DEF FlushAndWrite
  <2>2. Others(t) /\ pc'[t] \in {"raw_write", "idle"}
    BY <2>1, IdleOthers, EnterOthers
  <2> QED BY <1>1, <1>2, <2>1, <2>2, FlushCallCoherent
<1> QED BY <1>3, <1>4, <1>5

\* The other calls.
LEMMA ChannelCallsCoherent ==
  ASSUME TypeOK, OneSlotPerBlock, Coherent, Liberties = {}, NEW t \in Threads,
         \/ unix_flush(t) \/ unix_set_blksize(t) \/ SetCacheOff(t) \/ SetCacheOn(t)
         \/ io_channel_bumpcount(t) \/ unix_close(t)
  PROVE  Coherent'
<1>1. MayStart(t, FALSE) /\ writethrough' = writethrough
  BY DEF unix_flush, unix_set_blksize, SetCacheOff, SetCacheOn, io_channel_bumpcount, unix_close, chan
<1>2. refcount > 0 /\ refcount \in Nat /\ pc[t] = "idle"
  BY <1>1, ConstantsAssumption DEF MayStart, TypeOK
<1>3. CASE unix_flush(t)
  <2>1. PICK fail \in FlushFailures :
          /\ FlushCache(fail, FALSE)
          /\ Idle(t, "err") \/ Enter(t, "fsync", 0, 0, BlankBuf)
    BY <1>3 DEF unix_flush
  <2>2. Others(t) /\ pc'[t] \in {"fsync", "idle"}
    BY <2>1, IdleOthers, EnterOthers
  <2>3. refcount' # 0
    BY <1>2, <1>3 DEF unix_flush, chan
  <2> QED BY <1>1, <2>1, <2>2, <2>3, FlushCallCoherent
<1>4. CASE unix_set_blksize(t)
  <2>1. PICK fail \in FlushFailures :
          \/ FlushCache(fail, FALSE) /\ Idle(t, "err")
          \/ fail = {} /\ FlushCache({}, TRUE) /\ Idle(t, "ok")
    BY <1>4 DEF unix_set_blksize
  <2>2. Others(t) /\ pc'[t] = "idle"
    BY <2>1, IdleOthers
  <2>3. refcount' # 0
    BY <1>2, <1>4 DEF unix_set_blksize, chan
  <2> QED BY <1>1, <2>1, <2>2, <2>3, FlushCallCoherent
<1>5. CASE SetCacheOff(t)
  <2>1. PICK fail \in FlushFailures :
          FlushCache(fail, FALSE) /\ Idle(t, IF fail = {} THEN "ok" ELSE "err")
    BY <1>5 DEF SetCacheOff
  <2>2. Others(t) /\ pc'[t] = "idle"
    BY <2>1, IdleOthers
  <2>3. refcount' # 0
    BY <1>2, <1>5 DEF SetCacheOff
  <2> QED BY <1>1, <2>1, <2>2, <2>3, FlushCallCoherent
<1>6. CASE SetCacheOn(t)
  <2>1. Others(t) /\ pc'[t] = "idle"
    BY <1>6, IdleOthers DEF SetCacheOn
  <2>2. refcount' # 0 /\ UNCHANGED <<cache, disk>>
    BY <1>2, <1>6 DEF SetCacheOn
  <2> QED BY <1>1, <2>1, <2>2, NothingLocal, QuietCallCoherent
<1>7. CASE io_channel_bumpcount(t)
  <2>1. Others(t) /\ pc'[t] = "idle"
    BY <1>2, <1>7 DEF io_channel_bumpcount, Others, req
  <2>2. refcount' # 0
    BY <1>2, <1>7 DEF io_channel_bumpcount
  <2>3. UNCHANGED <<cache, disk>>
    BY <1>7 DEF io_channel_bumpcount
  <2> QED BY <1>1, <2>1, <2>2, <2>3, NothingLocal, QuietCallCoherent
<1>8. CASE unix_close(t) /\ refcount > 1
  <2>1. Others(t) /\ pc'[t] = "idle"
    BY <1>2, <1>8 DEF unix_close, Others, req
  <2>2. refcount' # 0
    BY <1>2, <1>8 DEF unix_close
  <2>3. UNCHANGED <<cache, disk>>
    BY <1>8 DEF unix_close
  <2> QED BY <1>1, <2>1, <2>2, <2>3, NothingLocal, QuietCallCoherent
<1>9. CASE unix_close(t) /\ ~(refcount > 1)
  <2>1. PICK fail \in FlushFailures :
          FlushCache(fail, TRUE) /\ Idle(t, IF fail = {} THEN "ok" ELSE "err")
    BY <1>9 DEF unix_close
  <2>2. Others(t) /\ pc'[t] = "idle"
    BY <2>1, IdleOthers
  <2> QED BY <1>1, <2>1, <2>2, FlushCallCoherent
<1> QED BY <1>3, <1>4, <1>5, <1>6, <1>7, <1>8, <1>9

LEMMA CallCoherent ==
  ASSUME TypeOK, OneSlotPerBlock, Coherent, Liberties = {}, NEW t \in Threads, Call(t)
  PROVE  Coherent'
<1>1. ASSUME NEW b, NEW n, ReadUncached(t, b, n) \/ ReadDirect(t, b, n) \/ ReadCached(t, b, n)
      PROVE  Coherent'
  BY <1>1, ReadCallsCoherent
<1>2. ASSUME NEW b, NEW n, unix_zeroout(t, b, n) \/ unix_discard(t, b, n)
      PROVE  Coherent'
  BY <1>2, BypassCallsCoherent DEF unix_zeroout, unix_discard
<1>3. ASSUME NEW b, NEW n, NEW d,
             \/ WriteUncached(t, b, n, d) \/ WriteCached(t, b, n, d)
             \/ WriteDirect(t, b, n, d) \/ unix_write_byte(t, b, d)
      PROVE  Coherent'
  BY <1>3, WriteCallsCoherent DEF WriteDirect, unix_write_byte
<1> QED BY <1>1, <1>2, <1>3, ChannelCallsCoherent DEF Call

LEMMA NextCoherent ==
  TypeOK /\ OneSlotPerBlock /\ Coherent /\ Liberties = {} /\ [Next]_vars => Coherent'
<1> SUFFICES ASSUME TypeOK, OneSlotPerBlock, Coherent, Liberties = {}, [Next]_vars
             PROVE  Coherent'
  OBVIOUS
<1> USE DEF Coherent, WritesAlone, ClosedIsEmpty, ThroughIsClean, Local, RawIsUncached,
            FetchIsCurrent, ThroughIsWritten, CleanIsCurrent
<1>1. CASE UNCHANGED <<cache, disk, chan, pc, req, buf>>
  BY <1>1 DEF CleanMatchesDisk, Overtaken, Cached, Holds, Dirty, DirtySlots, chan, req
<1>2. ASSUME NEW d, NEW h, Stop(d, h) PROVE Coherent'
  BY <1>2 DEF Stop, Empty, DirtySlots, CleanMatchesDisk
<1>3. CASE unix_open
  BY <1>3 DEF unix_open, DirtySlots, CleanMatchesDisk, req
<1> QED
  BY <1>1, <1>2, <1>3, StepCoherent, CallCoherent
     DEF Next, vars, Writeback, Kill, PowerFail

LEMMA InitCoherent == Init => Coherent
  BY DEF Init, Coherent, WritesAlone, ClosedIsEmpty, ThroughIsClean, Local, RawIsUncached,
         FetchIsCurrent, ThroughIsWritten, CleanIsCurrent, DirtySlots, CleanMatchesDisk, Empty

LEMMA AlwaysCoherent == ASSUME Liberties = {} PROVE Spec => []Coherent
<1>1. TypeOK /\ OneSlotPerBlock /\ Coherent /\ [Next]_vars => Coherent'
  BY NextCoherent
<1> QED
  BY <1>1, InitCoherent, TypeCorrect, OneSlot, PTL DEF Spec

\* A clean slot agrees with the device, on a device whose writes succeed, with
\* readers that drop the mutex, evictions, crashes and every mode of the cache:
\* the slots that unix_read_blk64 saves after it has taken the mutex again are
\* not stale.
THEOREM CleanSlotsAreCurrent ==
  ASSUME Liberties = {}, ~WriteFaults PROVE Spec => []CleanMatchesDisk
<1>1. Coherent => CleanMatchesDisk
  BY DEF Coherent, CleanIsCurrent
<1> QED
  BY <1>1, AlwaysCoherent, PTL

(***************************************************************************)
(* What the channel promises its callers, from the coherence of its cache: *)
(* it loses no data in silence, and it implements BlockDevice.             *)
(***************************************************************************)

-----------------------------------------------------------------------------
(* The memory of the channel *)

LEMMA MemHeld ==
  /\ \A b : \A s \in Slots : OneSlotPerBlock /\ Holds(s, b) => Mem(b) = cache[s].buf
  /\ \A b : \A s \in Slots : OneSlotPerBlock' /\ Holds(s, b)' => Mem(b)' = cache'[s].buf
<1>1. ASSUME NEW b, NEW s \in Slots, OneSlotPerBlock, Holds(s, b) PROVE Mem(b) = cache[s].buf
  <2>1. SlotOf(b) = s
    BY <1>1 DEF SlotOf, Holds, OneSlotPerBlock
  <2> QED BY <1>1, <2>1 DEF Mem, Cached
<1>2. ASSUME NEW b, NEW s \in Slots, OneSlotPerBlock', Holds(s, b)'
      PROVE  Mem(b)' = cache'[s].buf
  <2>1. SlotOf(b)' = s
    BY <1>2 DEF SlotOf, Holds, OneSlotPerBlock
  <2> QED BY <1>2, <2>1 DEF Mem, Cached
<1> QED BY <1>1, <1>2

LEMMA MemUnheld ==
  /\ \A b : ~Cached(b) => Mem(b) = disk[b]
  /\ \A b : ~Cached(b)' => Mem(b)' = disk'[b]
  BY DEF Mem

LEMMA MemSame == ASSUME UNCHANGED <<cache, disk>> PROVE \A b : Mem(b)' = Mem(b)
  BY DEF Mem, Cached, SlotOf, Holds

\* A clean slot that agrees with the device is no different from none.
LEMMA MemClean ==
  ASSUME OneSlotPerBlock, \A s \in Slots : CleanSlot(s), NEW b, ~Dirty(b)
  PROVE  Mem(b) = disk[b]
<1>1. CASE Cached(b)
  <2>1. PICK s \in Slots : Holds(s, b)
    BY <1>1 DEF Cached
  <2> QED BY <2>1, MemHeld DEF Dirty, CleanSlot, Holds
<1> QED BY <1>1, MemUnheld

\* A flush changes no memory, unless it gives up slots it could not write.
LEMMA FlushMem ==
  ASSUME TypeOK, OneSlotPerBlock, NEW fail, fail \subseteq DirtySlots, NEW i \in BOOLEAN,
         FlushCache(fail, i), i => fail = {} /\ \A s \in Slots : CleanSlot(s), NEW b \in Blocks
  PROVE  Mem(b)' = Mem(b)
<1>1. OneSlotPerBlock'
  BY FlushOneSlot
<1>2. CASE ~i
  <2>1. \A s \in Slots : /\ cache'[s].in_use = cache[s].in_use
                         /\ cache'[s].block = cache[s].block
                         /\ cache'[s].buf = cache[s].buf
    BY <1>2 DEF FlushCache, SlotAfterFlush, TypeOK, Slot
  <2>2. CASE Cached(b)
    <3>1. PICK s \in Slots : Holds(s, b)
      BY <2>2 DEF Cached
    <3>2. Holds(s, b)'
      BY <2>1, <3>1 DEF Holds
    <3> QED BY <1>1, <2>1, <3>1, <3>2, MemHeld
  <2>3. CASE ~Cached(b)
    <3>1. ~Cached(b)'
      BY <2>1, <2>3 DEF Cached, Holds
    <3>2. disk'[b] = disk[b]
      BY <2>3 DEF FlushCache, FlushedDisk, DirtySlots, Cached, Holds
    <3> QED BY <2>3, <3>1, <3>2, MemUnheld
  <2> QED BY <2>2, <2>3
<1>3. CASE i
  <2>1. fail = {} /\ \A s \in Slots : ~cache'[s].in_use
    BY <1>3 DEF FlushCache, SlotAfterFlush, Empty
  <2>2. Mem(b)' = disk'[b]
    BY <2>1, MemUnheld DEF Cached, Holds
  <2>3. CASE Dirty(b)
    <3>1. PICK s \in Slots : Holds(s, b) /\ cache[s].dirty
      BY <2>3 DEF Dirty
    <3>2. s \in DirtySlots \ fail /\ cache[s].block = b
      BY <2>1, <3>1 DEF DirtySlots, Holds
    <3>3. \A r \in DirtySlots : cache[r].block = b => r = s
      BY <3>2 DEF DirtySlots, OneSlotPerBlock
    <3>4. (CHOOSE r \in DirtySlots \ fail : cache[r].block = b) = s
      BY <3>2, <3>3
    <3>5. disk'[b] = cache[s].buf
      BY <3>2, <3>4 DEF FlushCache, FlushedDisk
    <3> QED BY <2>2, <3>1, <3>5, MemHeld
  <2>4. CASE ~Dirty(b)
    <3>1. disk'[b] = disk[b]
      BY <2>4 DEF FlushCache, FlushedDisk, DirtySlots, Dirty, Holds
    <3> QED BY <1>3, <2>2, <2>4, <3>1, MemClean
  <2> QED BY <2>3, <2>4
<1> QED BY <1>2, <1>3

\* A slot given to another block changes that block's memory, and the memory of
\* the block it held only if that was dirty, or not what the device has.
LEMMA ReuseMem ==
  ASSUME TypeOK, OneSlotPerBlock, OneSlotPerBlock', NEW b \in Blocks, ~Cached(b), NEW v, NEW d,
         NEW s \in Slots, Reused(s, b, v, d)
  PROVE  /\ Mem(b)' = v
         /\ \A c \in Blocks \ {b} :
              \/ Mem(c)' = Mem(c)
              \/ Holds(s, c) /\ Mem(c)' = disk'[c] /\ (cache[s].dirty => WriteFaults)
<1>1. /\ cache'[s] = [in_use |-> TRUE, dirty |-> d, block |-> b, buf |-> v]
      /\ \A r \in Slots \ {s} : cache'[r] = cache[r]
  BY DEF Reused, TypeOK
<1>2. Mem(b)' = v
  <2>1. Holds(s, b)' /\ cache'[s].buf = v
    BY <1>1 DEF Holds
  <2> QED BY <2>1, MemHeld
<1>3. ASSUME NEW c \in Blocks, c # b
      PROVE  \/ Mem(c)' = Mem(c)
             \/ Holds(s, c) /\ Mem(c)' = disk'[c] /\ (cache[s].dirty => WriteFaults)
  <2>1. CASE \E r \in Slots \ {s} : Holds(r, c)
    <3>1. PICK r \in Slots \ {s} : Holds(r, c)
      BY <2>1
    <3>2. Holds(r, c)'
      BY <1>1, <3>1 DEF Holds
    <3> QED BY <1>1, <3>1, <3>2, MemHeld
  <2>2. CASE ~\E r \in Slots \ {s} : Holds(r, c)
    <3>1. ~Cached(c)'
      BY <1>1, <1>3, <2>2 DEF Cached, Holds
    <3>2. Mem(c)' = disk'[c]
      BY <3>1, MemUnheld
    <3>3. CASE Holds(s, c)
      <4>1. CASE cache[s].dirty /\ ~WriteFaults
        <5>1. disk'[c] = cache[s].buf
          BY <3>3, <4>1 DEF Reused, DirtySlots, Holds, TypeOK
        <5> QED BY <3>2, <3>3, <5>1, MemHeld
      <4> QED BY <3>2, <3>3, <4>1
    <3>4. CASE ~Holds(s, c)
      <4>1. ~Cached(c)
        BY <2>2, <3>4 DEF Cached
      <4>2. disk'[c] = disk[c]
        BY <1>3, <3>4 DEF Reused, DirtySlots, Holds, TypeOK
      <4> QED BY <3>2, <4>1, <4>2, MemUnheld
    <3> QED BY <3>3, <3>4
  <2> QED BY <2>1, <2>2
<1> QED BY <1>2, <1>3

-----------------------------------------------------------------------------
(* No data is lost in silence *)

\* What may account for a change of block b.
Accounted(b) ==
  \/ writethrough
  \/ \E t \in Threads : pc[t] \in Writing /\ b \in Range(blk[t], cnt[t])
  \/ \E t \in Threads : pc[t] \in {"save", "write"} /\ b \in {cache[s].block : s \in DirtySlots}
  \/ refcount' = 0
  \/ \E t \in Threads : pc[t] = "idle" /\ ret'[t] = "err"

LEMMA AllClean ==
  ASSUME Coherent, ~writethrough PROVE \A s \in Slots : CleanSlot(s)
  BY CleanWhenNoWriter DEF Coherent, CleanIsCurrent

\* The eviction that a step of thread t makes.
LEMMA EvictAccounted ==
  ASSUME TypeOK, OneSlotPerBlock, OneSlotPerBlock', Coherent, NEW t \in Threads,
         pc[t] \in {"save", "write"}, NEW b \in Blocks, ~Cached(b), NEW v, NEW d,
         NEW s \in Slots, Reused(s, b, v, d), NEW c \in Blocks \ {b}, Mem(c)' # Mem(c)
  PROVE  Accounted(c)
<1> SUFFICES ASSUME ~writethrough PROVE Accounted(c)
  BY DEF Accounted
<1>1. Holds(s, c) /\ Mem(c)' = disk'[c]
  BY ReuseMem
<1>2. CASE cache[s].dirty
  BY <1>1, <1>2 DEF Accounted, DirtySlots, Holds
<1>3. CASE ~cache[s].dirty
  <2>1. cache[s].buf = disk[c]
    BY <1>1, <1>3, AllClean DEF CleanSlot, Holds
  <2>2. disk'[c] = disk[c]
    BY <1>3 DEF Reused, DirtySlots
  <2> QED BY <1>1, <2>1, <2>2, MemHeld
<1> QED BY <1>2, <1>3

LEMMA StepAccounted ==
  ASSUME TypeOK, OneSlotPerBlock, OneSlotPerBlock', Coherent, NEW t \in Threads, Step(t),
         NEW b \in Blocks, Mem(b)' # Mem(b)
  PROVE  Accounted(b)
<1> ~(cache' = cache /\ disk' = disk)
  BY MemSame
<1>1. CASE RawWrite(t)
  <2>1. PICK n \in 0 .. cnt[t] : RawWritten(t, n)
    BY <1>1 DEF RawWrite, TypeOK
  <2>2. pc[t] \in Writing /\ cache' = cache
    BY <1>1 DEF RawWrite, Writing
  <2>3. CASE b \in Range(blk[t], cnt[t])
    BY <2>2, <2>3 DEF Accounted
  <2>4. CASE b \notin Range(blk[t], cnt[t])
    <3>1. b \notin Range(blk[t], n)
      BY <2>4, ConstantsAssumption DEF Range, TypeOK, Blocks
    <3>2. disk'[b] = disk[b]
      BY <2>1, <3>1 DEF RawWritten
    <3> QED BY <2>2, <3>2 DEF Mem, Cached, SlotOf, Holds
  <2> QED BY <2>3, <2>4
<1>2. CASE WriteThrough(t)
  BY <1>2 DEF WriteThrough, Coherent, Local, ThroughIsWritten, Accounted
<1>3. CASE WriteFill(t)
  <2>1. /\ pc[t] = "write" /\ blk[t] \in Blocks /\ buf[t][blk[t]] \in Values
        /\ blk[t] \in Range(blk[t], cnt[t]) /\ (~writethrough) \in BOOLEAN
    BY <1>3, ConstantsAssumption DEF WriteFill, TypeOK, Blocks, Range
  <2>2. PICK s \in Slots :
          /\ Filled(s, blk[t], buf[t][blk[t]], ~writethrough)
          /\ \/ Holds(s, blk[t]) /\ disk' = disk
             \/ ~Cached(blk[t]) /\ Reused(s, blk[t], buf[t][blk[t]], ~writethrough)
    BY <1>3, <2>1, FillEffect, Zenon DEF WriteFill
  <2>3. CASE b = blk[t]
    BY <2>1, <2>3 DEF Accounted, Writing
  <2>4. CASE b # blk[t] /\ ~Cached(blk[t]) /\ Reused(s, blk[t], buf[t][blk[t]], ~writethrough)
    BY <2>1, <2>4, EvictAccounted, Zenon
  <2>5. CASE b # blk[t] /\ Holds(s, blk[t]) /\ disk' = disk
    <3>1. CASE Cached(b)
      <4>1. PICK r \in Slots : Holds(r, b)
        BY <3>1 DEF Cached
      <4>2. r # s /\ cache'[r] = cache[r]
        BY <2>2, <2>5, <4>1 DEF Holds, Filled
      <4> QED BY <4>1, <4>2, MemHeld DEF Holds
    <3>2. CASE ~Cached(b)
      <4>1. ~Cached(b)'
        BY <2>2, <2>5, <3>2 DEF Cached, Holds, Filled
      <4> QED BY <2>5, <3>2, <4>1, MemUnheld
    <3> QED BY <3>1, <3>2
  <2> QED BY <2>2, <2>3, <2>4, <2>5
<1>4. CASE ReadSave(t)
  <2>1. /\ pc[t] = "save" /\ blk[t] \in Blocks /\ blk[t] \in Range(blk[t], run[t])
        /\ SaveBlock(blk[t], buf[t][blk[t]])
    BY <1>4, ConstantsAssumption DEF ReadSave, TypeOK, Blocks, Range
  <2>2. ~Cached(blk[t]) /\ ReuseSlot(blk[t], buf[t][blk[t]], FALSE)
    BY <2>1, Zenon DEF SaveBlock
  <2>3. PICK s \in Slots : Reused(s, blk[t], buf[t][blk[t]], FALSE)
    BY <2>2, ReuseEffect, Zenon
  <2>4. CASE b = blk[t]
    <3>1. Mem(b)' = buf[t][b]
      BY <2>1, <2>2, <2>3, <2>4, ReuseMem
    <3>2. buf[t][b] = disk[b]
      BY <2>1, <2>4 DEF Coherent, Local, FetchIsCurrent
    <3> QED BY <2>2, <2>4, <3>1, <3>2, MemUnheld
  <2>5. CASE b # blk[t]
    BY <2>1, <2>2, <2>3, <2>5, EvictAccounted
  <2> QED BY <2>4, <2>5
<1> QED
  BY <1>1, <1>2, <1>3, <1>4 DEF Step, RawRead, ReadHit, ReadMiss, ReadFetch, ReadRelock,
     ReadReturn, WriteLock, WriteReturn, Fsync, Return

\* A call that flushes: without FLUSH_INVALIDATE, or with its failures reported.
LEMMA FlushAccounted ==
  ASSUME TypeOK, OneSlotPerBlock, Coherent, NEW t \in Threads, pc[t] = "idle",
         NEW fail \in FlushFailures, NEW i \in BOOLEAN, FlushCache(fail, i),
         i => fail = {} \/ ret'[t] = "err" \/ refcount' = 0,
         NEW b \in Blocks, Mem(b)' # Mem(b)
  PROVE  Accounted(b)
<1>1. fail \subseteq DirtySlots
  BY DEF FlushFailures
<1>2. CASE writethrough \/ ret'[t] = "err" \/ refcount' = 0
  BY <1>2 DEF Accounted
<1>3. CASE ~(writethrough \/ ret'[t] = "err" \/ refcount' = 0)
  BY <1>1, <1>3, AllClean, FlushMem
<1> QED BY <1>2, <1>3

LEMMA CallAccounted ==
  ASSUME TypeOK, OneSlotPerBlock, Coherent, NEW t \in Threads, Call(t),
         NEW b \in Blocks, Mem(b)' # Mem(b)
  PROVE  Accounted(b)
<1> ~(cache' = cache /\ disk' = disk)
  BY MemSame
<1>1. ASSUME NEW c, NEW n, ReadDirect(t, c, n) PROVE Accounted(b)
  BY <1>1, FlushAccounted DEF ReadDirect, MayStart
<1>2. ASSUME NEW c, NEW n, NEW d, FlushAndWrite(t, c, n, d) PROVE Accounted(b)
  BY <1>2, FlushAccounted DEF FlushAndWrite, MayStart, Idle, TypeOK
<1>3. CASE unix_flush(t)
  BY <1>3, FlushAccounted DEF unix_flush, MayStart
<1>4. CASE unix_set_blksize(t)
  BY <1>4, FlushAccounted DEF unix_set_blksize, MayStart
<1>5. CASE SetCacheOff(t)
  BY <1>5, FlushAccounted DEF SetCacheOff, MayStart
<1>6. CASE unix_close(t)
  <2>1. ~(refcount > 1) /\ refcount' = refcount - 1
    BY <1>6 DEF unix_close
  <2>2. refcount > 0 /\ refcount \in Nat
    BY <1>6, ConstantsAssumption DEF unix_close, MayStart, TypeOK
  <2>3. refcount' = 0
    BY <2>1, <2>2
  <2> QED BY <2>3 DEF Accounted
<1>7. ASSUME NEW c, NEW n, \/ ReadUncached(t, c, n) \/ ReadCached(t, c, n)
                           \/ unix_zeroout(t, c, n) \/ unix_discard(t, c, n)
      PROVE  FALSE
  BY <1>7 DEF ReadUncached, ReadCached, unix_zeroout, unix_discard
<1>8. ASSUME NEW c, NEW n, NEW d, WriteUncached(t, c, n, d) \/ WriteCached(t, c, n, d)
      PROVE  FALSE
  BY <1>8 DEF WriteUncached, WriteCached
<1>9. CASE SetCacheOn(t) \/ io_channel_bumpcount(t)
  BY <1>9 DEF SetCacheOn, io_channel_bumpcount
<1> QED
  BY <1>1, <1>2, <1>3, <1>4, <1>5, <1>6, <1>7, <1>8, <1>9 DEF Call, WriteDirect, unix_write_byte

LEMMA NextAccounted ==
  TypeOK /\ OneSlotPerBlock /\ OneSlotPerBlock' /\ Coherent /\ [Next]_vars =>
    [\A b \in Blocks : Mem(b)' # Mem(b) => Accounted(b)]_vars
<1> SUFFICES ASSUME TypeOK, OneSlotPerBlock, OneSlotPerBlock', Coherent, Next,
                    NEW b \in Blocks, Mem(b)' # Mem(b)
             PROVE  Accounted(b)
  OBVIOUS
<1> ~(cache' = cache /\ disk' = disk)
  BY MemSame
<1>1. CASE Kill \/ PowerFail
  BY <1>1 DEF Kill, PowerFail, Stop, Accounted
<1> QED
  BY <1>1, StepAccounted, CallAccounted DEF Next, unix_open, Writeback

\* Whatever fails, and however requests of several threads interleave, the data
\* of a block nobody writes changes only where the code can lose it: a dirty
\* slot is evicted (reuse_cache ignores the outcome of its write), the channel
\* is closed or the process ends, or a call returns an error.
THEOREM LossesAreReported == ASSUME Liberties = {} PROVE Spec => NoSilentLoss
<1>1. TypeOK /\ OneSlotPerBlock /\ OneSlotPerBlock' /\ Coherent /\ [Next]_vars =>
        [\A b \in Blocks :
           Mem(b)' # Mem(b) =>
             \/ writethrough
             \/ \E t \in Threads : pc[t] \in Writing /\ b \in Range(blk[t], cnt[t])
             \/ \E t \in Threads : pc[t] \in {"save", "write"} /\ b \in {cache[s].block : s \in DirtySlots}
             \/ refcount' = 0
             \/ \E t \in Threads : pc[t] = "idle" /\ ret'[t] = "err"]_vars
  BY NextAccounted DEF Accounted
<1> QED
  BY <1>1, AlwaysCoherent, TypeCorrect, OneSlot, PTL DEF Spec, NoSilentLoss

-----------------------------------------------------------------------------
(* More of the inductive invariant, for a device whose writes succeed *)

\* What a request that does not look at the cache, or not yet, relies on.
Aside(t) ==
  /\ pc[t] = "raw_read" => \A b \in Range(blk[t], cnt[t]) : ~Dirty(b)
  /\ pc[t] = "fsync" => DirtySlots = {}
  /\ pc[t] \in {"through", "wlock", "write"} => ~nocache
  /\ pc[t] \in {"raw_write", "through", "wlock", "write"} =>
       \A b \in Range(blk[t], cnt[t]) : buf[t][b] \in hist[b]
  /\ pc[t] = "idle" => buf[t] = BlankBuf

\* Every copy of a block's data is one that may survive a crash.
CopiesMaySurvive ==
  /\ \A b \in Blocks : disk[b] \in hist[b] /\ stable[b] \in hist[b]
  /\ \A s \in Slots : cache[s].in_use => cache[s].buf \in hist[cache[s].block]

Durable ==
  /\ nocache => DirtySlots = {}
  /\ \A t \in Threads : Aside(t)
  /\ CopiesMaySurvive

LEMMA AsideKept ==
  ASSUME NEW t \in Threads, \A u \in Threads : Aside(u), Aside(t)', Considerate(t)
  PROVE  \A u \in Threads : Aside(u)'
<1> SUFFICES ASSUME NEW u \in Threads \ {t} PROVE Aside(u)'
  OBVIOUS
<1>1. /\ pc'[u] = pc[u] /\ blk'[u] = blk[u] /\ cnt'[u] = cnt[u] /\ buf'[u] = buf[u]
  BY DEF Considerate, Others
<1>2. CASE pc[u] = "idle"
  BY <1>1, <1>2 DEF Aside
<1>3. CASE pc[u] # "idle"
  <2>1. pc[u] \in Reading /\ ReadEffect
    BY <1>3 DEF Considerate, AllIdle, AllReading
  <2>2. pc[u] \notin {"fsync", "through", "wlock", "write", "raw_write", "idle"}
    BY <2>1 DEF Reading
  <2>3. pc[u] = "raw_read" => \A b \in Range(blk[u], cnt[u]) : ~Dirty(b)'
    BY <2>1 DEF ReadEffect, Aside, Range
  <2> QED BY <1>1, <2>2, <2>3 DEF Aside
<1> QED BY <1>2, <1>3

\* A thread that reads is not alone, but keeps to what readers may do.
LEMMA StepConsiderate ==
  ASSUME TypeOK, Coherent, NEW t \in Threads, Step(t)
  PROVE  Considerate(t) /\ pc[t] # "idle" /\ UNCHANGED chan
<1>1. pc[t] # "idle" /\ UNCHANGED chan
  BY DEF Step, RawRead, ReadHit, ReadMiss, ReadFetch, ReadRelock, ReadSave, ReadReturn, RawWrite,
         WriteThrough, WriteLock, WriteFill, WriteReturn, Fsync, Return
<1>2. Others(t)
  BY DEF Step, RawRead, ReadHit, ReadMiss, ReadFetch, ReadRelock, ReadSave, ReadReturn, RawWrite,
         WriteThrough, WriteLock, WriteFill, WriteReturn, Fsync, Return,
         Goto, Idle, Advance, Others, TypeOK, req
<1>3. CASE pc[t] \notin Reading
  BY <1>1, <1>2, <1>3, InsideAlone DEF Coherent, Considerate, chan
<1>4. CASE pc[t] \in Reading
  <2>1. pc'[t] \in Reading \cup {"idle"}
    BY <1>4 DEF Step, RawRead, ReadHit, ReadMiss, ReadFetch, ReadRelock, ReadSave, ReadReturn,
         RawWrite, WriteThrough, WriteLock, WriteFill, WriteReturn, Fsync, Return,
         Goto, Idle, Reading, TypeOK
  <2>2. ReadEffect
    <3>1. CASE ReadSave(t)
      <4>1. blk[t] \in Blocks /\ buf[t][blk[t]] \in Values
        BY <3>1, ConstantsAssumption DEF ReadSave, TypeOK, Blocks
      <4> QED BY <3>1, <4>1, SaveEffect DEF ReadSave
    <3>2. CASE UNCHANGED <<cache, disk>>
      BY <3>2, SameEffect
    <3> QED
      BY <1>4, <3>1, <3>2 DEF Step, RawRead, ReadHit, ReadMiss, ReadFetch, ReadRelock, ReadReturn,
         RawWrite, WriteThrough, WriteLock, WriteFill, WriteReturn, Fsync, Return, Reading
  <2> QED BY <1>1, <1>2, <1>4, <2>1, <2>2, InsideAlone DEF Coherent, Considerate, chan
<1> QED BY <1>1, <1>3, <1>4

LEMMA CopiesKept ==
  ASSUME CopiesMaySurvive, \A b \in Blocks : hist[b] \subseteq hist'[b], UNCHANGED stable,
         \A b \in Blocks : disk'[b] \in hist'[b],
         \A s \in Slots : cache'[s].in_use => cache'[s].buf \in hist'[cache'[s].block]
  PROVE  CopiesMaySurvive'
  BY DEF CopiesMaySurvive

LEMMA ReuseCopies ==
  ASSUME TypeOK, CopiesMaySurvive, UNCHANGED <<stable, hist>>, NEW b \in Blocks, NEW v, NEW d,
         v \in hist[b], NEW s \in Slots, Reused(s, b, v, d)
  PROVE  CopiesMaySurvive'
<1>1. \A c \in Blocks : disk'[c] \in hist[c]
  BY DEF CopiesMaySurvive, Reused, DirtySlots, TypeOK
<1>2. \A r \in Slots : cache'[r].in_use => cache'[r].buf \in hist[cache'[r].block]
  BY DEF CopiesMaySurvive, Reused, TypeOK
<1> QED BY <1>1, <1>2 DEF CopiesMaySurvive

LEMMA StepDurable ==
  ASSUME TypeOK, OneSlotPerBlock, Coherent, Durable, ~WriteFaults, NEW t \in Threads, Step(t)
  PROVE  Durable'
<1>1. Considerate(t) /\ pc[t] # "idle" /\ UNCHANGED chan
  BY StepConsiderate
<1>2. CASE /\ RawRead(t) \/ ReadHit(t) \/ ReadMiss(t) \/ ReadFetch(t) \/ ReadRelock(t)
              \/ ReadReturn(t) \/ WriteLock(t) \/ WriteReturn(t) \/ Return(t)
  <2>1. UNCHANGED <<cache, disk, stable, hist>>
    BY <1>2 DEF RawRead, ReadHit, ReadMiss, ReadFetch, ReadRelock, ReadReturn, WriteLock,
       WriteReturn, Return
  <2>2. \/ pc'[t] \in {"got", "read", "fetch", "fetched", "save"}
        \/ pc'[t] = "idle" /\ buf'[t] = BlankBuf
        \/ WriteLock(t)
    BY <1>2 DEF RawRead, ReadHit, ReadMiss, ReadFetch, ReadRelock, ReadReturn,
       WriteReturn, Return, Goto, Idle, TypeOK
  <2>3. Aside(t)'
    <3>1. CASE WriteLock(t)
      <4>1. /\ pc[t] = "wlock" /\ pc'[t] = "write" /\ blk'[t] = blk[t] /\ cnt'[t] = cnt[t]
            /\ buf' = buf
        BY <3>1 DEF WriteLock, Goto, TypeOK, req
      <4> QED BY <1>1, <2>1, <4>1 DEF Durable, Aside, chan
    <3> QED BY <2>2, <3>1 DEF Aside
  <2>4. CopiesMaySurvive'
    BY <2>1 DEF Durable, CopiesMaySurvive
  <2> QED BY <1>1, <2>1, <2>3, <2>4, AsideKept DEF Durable, DirtySlots, chan
<1>3. CASE ReadSave(t)
  <2>1. /\ pc[t] = "save" /\ blk[t] \in Blocks /\ buf[t][blk[t]] \in Values
        /\ blk[t] \in Range(blk[t], run[t]) /\ pc'[t] \in {"read", "save"}
        /\ SaveBlock(blk[t], buf[t][blk[t]]) /\ UNCHANGED <<stable, hist>>
    BY <1>3, ConstantsAssumption DEF ReadSave, TypeOK, Blocks, Range, Goto
  <2>2. Aside(t)'
    BY <2>1 DEF Aside
  <2>3. buf[t][blk[t]] \in hist[blk[t]]
    <3>1. buf[t][blk[t]] = disk[blk[t]]
      BY <2>1 DEF Coherent, Local, FetchIsCurrent
    <3> QED BY <2>1, <3>1 DEF Durable, CopiesMaySurvive
  <2>4. (nocache' => DirtySlots' = {}) /\ CopiesMaySurvive'
    <3>1. CASE Cached(blk[t])
      BY <1>1, <2>1, <3>1 DEF SaveBlock, Durable, DirtySlots, CopiesMaySurvive, chan
    <3>2. CASE ~Cached(blk[t])
      <4>1. ReuseSlot(blk[t], buf[t][blk[t]], FALSE)
        BY <2>1, <3>2, Zenon DEF SaveBlock
      <4>2. PICK s \in Slots : Reused(s, blk[t], buf[t][blk[t]], FALSE)
        BY <4>1, ReuseEffect, Zenon
      <4>3. DirtySlots' \subseteq DirtySlots
        BY <4>2 DEF Reused, DirtySlots, TypeOK
      <4> QED BY <1>1, <2>1, <2>3, <4>2, <4>3, ReuseCopies DEF Durable, chan
    <3> QED BY <3>1, <3>2
  <2> QED BY <1>1, <2>2, <2>4, AsideKept DEF Durable
<1>4. CASE RawWrite(t) \/ WriteThrough(t)
  <2>1. /\ pc[t] \in {"raw_write", "through"} /\ UNCHANGED <<cache, stable, hist>>
        /\ RawWritten(t, cnt[t])
    BY <1>4 DEF RawWrite, WriteThrough
  <2>2. Aside(t)'
    <3>1. CASE RawWrite(t)
      <4>1. pc'[t] = "put"
        BY <3>1 DEF RawWrite, Goto, TypeOK
      <4> QED BY <4>1 DEF Aside
    <3>2. CASE WriteThrough(t)
      <4>1. /\ pc[t] = "through" /\ pc'[t] = "wlock" /\ blk'[t] = blk[t] /\ cnt'[t] = cnt[t]
            /\ buf' = buf
        BY <3>2 DEF WriteThrough, Goto, TypeOK, req
      <4> QED BY <1>1, <2>1, <4>1 DEF Durable, Aside, chan
    <3> QED BY <1>4, <3>1, <3>2
  <2>3. \A b \in Blocks : disk'[b] \in hist[b]
    BY <2>1 DEF RawWritten, Durable, Aside, CopiesMaySurvive
  <2>4. CopiesMaySurvive'
    BY <2>1, <2>3 DEF Durable, CopiesMaySurvive
  <2> QED BY <1>1, <2>1, <2>2, <2>4, AsideKept DEF Durable, DirtySlots, chan
<1>5. CASE WriteFill(t)
  <2>1. /\ pc[t] = "write" /\ blk[t] \in Blocks /\ buf[t][blk[t]] \in Values
        /\ blk[t] \in Range(blk[t], cnt[t]) /\ (~writethrough) \in BOOLEAN
        /\ UNCHANGED <<stable, hist, pc, buf>>
    BY <1>5, ConstantsAssumption DEF WriteFill, TypeOK, Blocks, Range
  <2>2. blk'[t] = blk[t] + 1 /\ cnt'[t] = cnt[t] - 1 /\ cnt[t] \in Nat /\ blk[t] \in Nat
    BY <1>5 DEF WriteFill, Advance, TypeOK
  <2>3. Range(blk'[t], cnt'[t]) \subseteq Range(blk[t], cnt[t])
    BY <2>2, ConstantsAssumption DEF Range, Blocks
  <2>4. Aside(t)'
    BY <1>1, <2>1, <2>3 DEF Durable, Aside, chan
  <2>5. ~nocache' /\ buf[t][blk[t]] \in hist[blk[t]]
    BY <1>1, <2>1 DEF Durable, Aside, chan
  <2>6. PICK s \in Slots :
          /\ Filled(s, blk[t], buf[t][blk[t]], ~writethrough)
          /\ \/ Holds(s, blk[t]) /\ disk' = disk
             \/ ~Cached(blk[t]) /\ Reused(s, blk[t], buf[t][blk[t]], ~writethrough)
    BY <1>5, <2>1, FillEffect, Zenon DEF WriteFill
  <2>7. CopiesMaySurvive'
    <3>1. CASE disk' = disk
      BY <2>1, <2>5, <2>6, <3>1 DEF Filled, CopiesMaySurvive, Durable
    <3>2. CASE Reused(s, blk[t], buf[t][blk[t]], ~writethrough)
      BY <2>1, <2>5, <3>2, ReuseCopies, Zenon DEF Durable
    <3> QED BY <2>6, <3>1, <3>2
  <2> QED BY <1>1, <2>4, <2>5, <2>7, AsideKept DEF Durable
<1>6. CASE Fsync(t)
  <2>1. /\ pc[t] = "fsync" /\ pc'[t] = "synced" /\ stable' = disk
        /\ hist' = [b \in Blocks |-> {Mem(b)}] /\ UNCHANGED <<cache, disk>>
    BY <1>6 DEF Fsync, WriteOutcomes, Goto, TypeOK
  <2>2. Aside(t)'
    BY <2>1 DEF Aside
  <2>3. \A s \in Slots : CleanSlot(s)
    BY <2>1, InsideAlone, CleanWhenNoWriter DEF Coherent, CleanIsCurrent, AllIdle, Reading
  <2>4. DirtySlots = {}
    BY <2>1 DEF Durable, Aside
  <2>5. \A b \in Blocks : Mem(b) = disk[b]
    BY <2>3, <2>4, MemClean DEF Dirty, DirtySlots, Holds
  <2>6. CopiesMaySurvive'
    BY <2>1, <2>3, <2>4, <2>5 DEF CopiesMaySurvive, CleanSlot, DirtySlots, TypeOK, Slot
  <2> QED BY <1>1, <2>1, <2>2, <2>6, AsideKept DEF Durable, DirtySlots, chan
<1> QED BY <1>2, <1>3, <1>4, <1>5, <1>6 DEF Step

\* A flush whose writes succeed, which is the only one here.
LEMMA FlushWhole ==
  ASSUME TypeOK, NEW i \in BOOLEAN, FlushCache({}, i)
  PROVE  /\ DirtySlots' = {}
         /\ CopiesMaySurvive => /\ \A b \in Blocks : disk'[b] \in hist[b]
                                /\ \A s \in Slots : cache'[s].in_use =>
                                     cache'[s].buf \in hist[cache'[s].block]
<1>1. \A s \in Slots : cache'[s].in_use => /\ cache[s].in_use /\ ~cache'[s].dirty
                                           /\ cache'[s].block = cache[s].block
                                           /\ cache'[s].buf = cache[s].buf
  BY DEF FlushCache, SlotAfterFlush, Empty, TypeOK, Slot
<1>2. DirtySlots' = {}
  BY <1>1 DEF DirtySlots
<1>3. ASSUME CopiesMaySurvive, NEW b \in Blocks PROVE disk'[b] \in hist[b]
  <2>1. CASE \E s \in DirtySlots : cache[s].block = b
    <3> DEFINE r == CHOOSE s \in DirtySlots \ {} : cache[s].block = b
    <3>1. r \in DirtySlots /\ cache[r].block = b
      BY <2>1
    <3>2. disk'[b] = cache[r].buf
      BY <2>1 DEF FlushCache, FlushedDisk
    <3> QED BY <1>3, <3>1, <3>2 DEF CopiesMaySurvive, DirtySlots
  <2>2. CASE ~\E s \in DirtySlots : cache[s].block = b
    BY <1>3, <2>2 DEF FlushCache, FlushedDisk, CopiesMaySurvive
  <2> QED BY <2>1, <2>2
<1> QED BY <1>1, <1>2, <1>3 DEF CopiesMaySurvive

LEMMA FlushSucceeds == ASSUME ~WriteFaults PROVE FlushFailures = {{}}
  BY DEF FlushFailures

LEMMA CallConsiderate ==
  ASSUME TypeOK, Liberties = {}, NEW t \in Threads, NEW reads \in BOOLEAN, MayStart(t, reads),
         Others(t), writethrough' = writethrough,
         reads => pc'[t] \in Reading /\ ReadEffect
  PROVE  Considerate(t)
  BY StartsAlone DEF Considerate

\* A call that enters a request or returns at once, with or without a flush.
LEMMA CallDurable ==
  ASSUME TypeOK, Durable, NEW t \in Threads, Considerate(t), Aside(t)', UNCHANGED stable,
         \A b \in Blocks : hist[b] \subseteq hist'[b],
         \/ UNCHANGED <<cache, disk>> /\ (nocache' => nocache)
         \/ \E i \in BOOLEAN : FlushCache({}, i)
  PROVE  Durable'
<1>1. \A u \in Threads : Aside(u)'
  BY AsideKept DEF Durable
<1>2. CASE UNCHANGED <<cache, disk>> /\ (nocache' => nocache)
  BY <1>1, <1>2 DEF Durable, DirtySlots, CopiesMaySurvive, TypeOK, Slot
<1>3. CASE \E i \in BOOLEAN : FlushCache({}, i)
  <2>1. PICK i \in BOOLEAN : FlushCache({}, i)
    BY <1>3
  <2>2. /\ \A b \in Blocks : disk'[b] \in hist'[b]
        /\ \A s \in Slots : cache'[s].in_use => cache'[s].buf \in hist'[cache'[s].block]
    <3>1. \A s \in Slots : cache'[s].in_use => cache'[s].block \in Blocks
      BY <2>1, FlushType, TypeParts DEF CacheType, Slot
    <3> QED BY <2>1, <3>1, FlushWhole DEF Durable
  <2>3. CopiesMaySurvive'
    BY <2>2, CopiesKept DEF Durable
  <2> QED BY <1>1, <2>1, <2>3, FlushWhole DEF Durable
<1> QED BY <1>2, <1>3

-----------------------------------------------------------------------------
(* The channel implements a block device *)

LEMMA DevStep ==
  ASSUME NEW t \in Threads, Others(t)
  PROVE  /\ DevOp' = [DevOp EXCEPT ![t] = OpOf(t)']
         /\ DevTodo' = [DevTodo EXCEPT ![t] = TodoOf(t)']
         /\ DevOp[t] = OpOf(t) /\ DevTodo[t] = TodoOf(t)
<1>1. \A u \in Threads \ {t} : OpOf(u)' = OpOf(u) /\ TodoOf(u)' = TodoOf(u)
  BY DEF OpOf, TodoOf, Others
<1> QED BY <1>1 DEF DevOp, DevTodo

LEMMA DevMemSame == ASSUME \A b \in Blocks : Mem(b)' = Mem(b) PROVE DevMem' = DevMem
  BY DEF DevMem

LEMMA BeginsRead ==
  ASSUME TypeOK, NEW t \in Threads, pc[t] = "idle", NEW p \in {"raw_read", "read", "fsync"},
         NEW b, NEW n, Enter(t, p, b, n, BlankBuf),
         \A c \in Blocks : Mem(c)' = Mem(c), hist' = hist
  PROVE  Dev!Begin(t)
<1>1. Others(t) /\ pc'[t] = p
  BY EnterOthers
<1>2. /\ OpOf(t) = "idle" /\ OpOf(t)' \in {"read", "flush"}
      /\ TodoOf(t)' \in SUBSET Blocks
  BY <1>1 DEF OpOf, TodoOf, Reading, Writing, Range
<1>3. /\ buf' = [buf EXCEPT ![t] = BlankBuf] /\ ret' = [ret EXCEPT ![t] = "ok"]
      /\ BlankBuf \in [Blocks -> Values]
  BY BlankType DEF Enter
<1>4. \A S : hist' = [c \in Blocks |-> IF OpOf(t)' = "write" /\ c \in S
                                       THEN hist[c] \cup {BlankBuf[c]} ELSE hist[c]]
  BY <1>2 DEF TypeOK
<1> QED
  BY <1>1, <1>2, <1>3, <1>4, DevStep, DevMemSame, ZenonT(60) DEF Dev!Begin

LEMMA BeginsWrite ==
  ASSUME TypeOK, NEW t \in Threads, pc[t] = "idle", NEW p \in {"raw_write", "through", "write"},
         NEW b, NEW n, NEW d \in [Blocks -> Values], Enter(t, p, b, n, d), Handed(Range(b, n), d),
         \A c \in Blocks : Mem(c)' = Mem(c)
  PROVE  Dev!Begin(t)
<1>1. Others(t) /\ pc'[t] = p /\ blk'[t] = b /\ cnt'[t] = n
  BY EnterOthers
<1>2. OpOf(t) = "idle" /\ OpOf(t)' = "write" /\ TodoOf(t)' = Range(b, n)
  BY <1>1 DEF OpOf, TodoOf, Reading, Writing
<1>3. /\ buf' = [buf EXCEPT ![t] = d] /\ ret' = [ret EXCEPT ![t] = "ok"]
      /\ Range(b, n) \in SUBSET Blocks
  BY RangeType DEF Enter
<1>4. hist' = [c \in Blocks |-> IF "write" = "write" /\ c \in Range(b, n)
                                THEN hist[c] \cup {d[c]} ELSE hist[c]]
  BY DEF Handed
<1> QED
  BY <1>1, <1>2, <1>3, <1>4, DevStep, DevMemSame DEF Dev!Begin

LEMMA ReturnsAtOnce ==
  ASSUME TypeOK, NEW t \in Threads, pc[t] = "idle", buf[t] = BlankBuf, Idle(t, "ok"),
         \A c \in Blocks : Mem(c)' = Mem(c), hist' = hist
  PROVE  Dev!Other(t, "ok")
<1>1. Others(t) /\ pc'[t] = "idle" /\ ret' = [ret EXCEPT ![t] = "ok"]
  BY IdleOthers DEF Idle
<1>2. /\ OpOf(t) = "idle" /\ OpOf(t)' = "idle" /\ TodoOf(t) = {} /\ TodoOf(t)' = {}
  BY <1>1 DEF OpOf, TodoOf, Reading, Writing
<1>3. buf' = buf
  BY DEF Idle, TypeOK
<1>4. DevOp' = DevOp /\ DevTodo' = DevTodo
  BY <1>1, <1>2, DevStep DEF DevOp, DevTodo
<1> QED
  BY <1>1, <1>2, <1>3, <1>4, DevStep, DevMemSame DEF Dev!Other

\* One step of the device, or none.
DevNext == Dev!DNext \/ UNCHANGED <<DevMem, hist, DevOp, DevTodo, buf, ret>>

\* The calls keep the invariant, and are steps of the device.
LEMMA ReadCallsImplement ==
  ASSUME TypeOK, OneSlotPerBlock, Durable, Liberties = {}, ~WriteFaults, NEW t \in Threads,
         NEW b, NEW n, ReadUncached(t, b, n) \/ ReadDirect(t, b, n) \/ ReadCached(t, b, n)
  PROVE  Durable' /\ Dev!Begin(t)
<1>1. MayStart(t, TRUE) /\ pc[t] = "idle" /\ UNCHANGED <<chan, stable, hist>>
  BY DEF ReadUncached, ReadDirect, ReadCached, MayStart
<1>2. writethrough' = writethrough /\ nocache' = nocache
  BY <1>1 DEF chan
<1>3. CASE ReadUncached(t, b, n)
  <2>1. nocache /\ Enter(t, "raw_read", b, n, BlankBuf) /\ UNCHANGED <<cache, disk>>
    BY <1>3 DEF ReadUncached
  <2>2. Others(t) /\ pc'[t] = "raw_read"
    BY <2>1, EnterOthers
  <2>3. Considerate(t)
    BY <1>1, <1>2, <2>1, <2>2, CallConsiderate, SameEffect DEF Reading
  <2>4. Aside(t)'
    BY <2>1, <2>2 DEF Durable, DirtySlots, Aside, Dirty, Holds
  <2> QED BY <1>1, <1>2, <2>1, <2>3, <2>4, CallDurable, BeginsRead, MemSame
<1>4. CASE ReadCached(t, b, n)
  <2>1. Enter(t, "read", b, n, BlankBuf) /\ UNCHANGED <<cache, disk>>
    BY <1>4 DEF ReadCached
  <2>2. Others(t) /\ pc'[t] = "read"
    BY <2>1, EnterOthers
  <2>3. Considerate(t)
    BY <1>1, <1>2, <2>1, <2>2, CallConsiderate, SameEffect DEF Reading
  <2>4. Aside(t)'
    BY <2>2 DEF Aside
  <2> QED BY <1>1, <1>2, <2>1, <2>3, <2>4, CallDurable, BeginsRead, MemSame
<1>5. CASE ReadDirect(t, b, n)
  <2>1. FlushCache({}, FALSE) /\ Enter(t, "raw_read", b, n, BlankBuf)
    BY <1>5, FlushSucceeds DEF ReadDirect
  <2>2. Others(t) /\ pc'[t] = "raw_read"
    BY <2>1, EnterOthers
  <2>3. Considerate(t)
    BY <1>1, <1>2, <2>1, <2>2, CallConsiderate, FlushEffect DEF Reading
  <2>4. DirtySlots' = {}
    BY <2>1, FlushWhole
  <2>5. Aside(t)'
    BY <2>2, <2>4 DEF DirtySlots, Aside, Dirty, Holds
  <2>6. \A c \in Blocks : Mem(c)' = Mem(c)
    BY <2>1, FlushMem
  <2> QED BY <1>1, <2>1, <2>3, <2>5, <2>6, CallDurable, BeginsRead
<1> QED BY <1>3, <1>4, <1>5

LEMMA HandedAll ==
  ASSUME TypeOK, NEW S \in SUBSET Blocks, NEW d, Handed(S, d)
  PROVE  /\ \A b \in Blocks : hist[b] \subseteq hist'[b]
         /\ \A b \in S : d[b] \in hist'[b]
  BY DEF Handed

\* A write that goes round the cache.
LEMMA BypassImplements ==
  ASSUME TypeOK, OneSlotPerBlock, Coherent, Durable, Liberties = {}, NEW t \in Threads,
         NEW b, NEW n, NEW d \in [Blocks -> Values],
         MayStart(t, FALSE), Enter(t, "raw_write", b, n, d), Handed(Range(b, n), d),
         UNCHANGED <<stable, chan>>,
         \/ UNCHANGED <<cache, disk>>
         \/ FlushCache({}, TRUE) /\ \A s \in Slots : CleanSlot(s)
  PROVE  Durable' /\ Dev!Begin(t)
<1>1. Others(t) /\ pc'[t] = "raw_write" /\ blk'[t] = b /\ cnt'[t] = n /\ buf'[t] = d
  BY EnterOthers
<1>2. writethrough' = writethrough /\ nocache' = nocache /\ pc[t] = "idle"
  BY DEF chan, MayStart
<1>3. Considerate(t)
  BY <1>1, <1>2, CallConsiderate
<1>4. /\ \A c \in Blocks : hist[c] \subseteq hist'[c]
      /\ \A c \in Range(b, n) : d[c] \in hist'[c]
  BY HandedAll, RangeType
<1>5. Aside(t)'
  BY <1>1, <1>4 DEF Aside
<1>6. \A c \in Blocks : Mem(c)' = Mem(c)
  BY MemSame, FlushMem
<1>7. Durable'
  BY <1>2, <1>3, <1>4, <1>5, CallDurable
<1> QED BY <1>2, <1>6, <1>7, BeginsWrite

LEMMA DataType == ASSUME NEW b, NEW n, NEW d \in Data(b, n) PROVE d \in [Blocks -> Values]
  BY DEF Data

\* Before a write begins, nobody is inside a write-through.
LEMMA AloneClean ==
  ASSUME Coherent, ~WriteFaults, Liberties = {}, NEW t \in Threads, MayStart(t, FALSE)
  PROVE  \A s \in Slots : CleanSlot(s)
<1>1. \A u \in Threads : pc[u] = "idle"
  BY DEF MayStart
<1> QED BY <1>1, CleanWhenNoWriter DEF Coherent, CleanIsCurrent

LEMMA WriteCallsImplement ==
  ASSUME TypeOK, OneSlotPerBlock, Coherent, Durable, Liberties = {}, ~WriteFaults,
         NEW t \in Threads, NEW b, NEW n, NEW d \in [Blocks -> Values],
         \/ WriteUncached(t, b, n, d) \/ WriteCached(t, b, n, d)
         \/ FlushAndWrite(t, b, n, d)
  PROVE  Durable' /\ Dev!Begin(t)
<1>1. MayStart(t, FALSE) /\ pc[t] = "idle" /\ UNCHANGED <<chan, stable>>
  BY DEF WriteUncached, WriteCached, FlushAndWrite, MayStart
<1>2. CASE WriteUncached(t, b, n, d)
  BY <1>2, BypassImplements DEF WriteUncached
<1>3. CASE FlushAndWrite(t, b, n, d)
  <2>1. FlushCache({}, TRUE) /\ Enter(t, "raw_write", b, n, d) /\ Handed(Range(b, n), d)
    BY <1>3, FlushSucceeds DEF FlushAndWrite
  <2> QED BY <1>1, <2>1, AloneClean, BypassImplements
<1>4. CASE WriteCached(t, b, n, d)
  <2>1. PICK p \in {"through", "write"} : Enter(t, p, b, n, d)
    BY <1>4 DEF WriteCached
  <2>2. ~nocache /\ Handed(Range(b, n), d) /\ UNCHANGED <<cache, disk>>
    BY <1>4 DEF WriteCached
  <2>3. /\ Others(t) /\ pc'[t] \in {"through", "write"}
        /\ blk'[t] = b /\ cnt'[t] = n /\ buf'[t] = d
    BY <2>1, EnterOthers
  <2>4. writethrough' = writethrough /\ ~nocache'
    BY <1>1, <2>2 DEF chan
  <2>5. Considerate(t)
    BY <1>1, <2>3, <2>4, CallConsiderate
  <2>6. /\ \A c \in Blocks : hist[c] \subseteq hist'[c]
        /\ \A c \in Range(b, n) : d[c] \in hist'[c]
    BY <2>2, HandedAll, RangeType
  <2>7. Aside(t)'
    BY <2>3, <2>4, <2>6 DEF Aside
  <2>8. Durable'
    BY <1>1, <2>2, <2>4, <2>5, <2>6, <2>7, CallDurable
  <2> QED BY <1>1, <2>1, <2>2, <2>8, BeginsWrite, MemSame
<1> QED BY <1>2, <1>3, <1>4

LEMMA EraseCallsImplement ==
  ASSUME TypeOK, OneSlotPerBlock, Coherent, Durable, Liberties = {}, NEW t \in Threads,
         NEW b, NEW n, unix_zeroout(t, b, n) \/ unix_discard(t, b, n)
  PROVE  Durable' /\ Dev!Begin(t)
<1>1. CASE unix_zeroout(t, b, n)
  BY <1>1, BlankType, BypassImplements DEF unix_zeroout
<1>2. CASE unix_discard(t, b, n)
  <2>1. PICK Z \in SUBSET Range(b, n) :
          LET d == [c \in Blocks |-> IF c \in Range(b, n) \ Z THEN disk[c] ELSE Zero]
          IN  Enter(t, "raw_write", b, n, d) /\ Handed(Range(b, n), d)
    BY <1>2 DEF unix_discard
  <2> DEFINE d == [c \in Blocks |-> IF c \in Range(b, n) \ Z THEN disk[c] ELSE Zero]
  <2>2. d \in [Blocks -> Values]
    BY ConstantsAssumption DEF TypeOK
  <2>3. /\ Enter(t, "raw_write", b, n, d) /\ Handed(Range(b, n), d)
        /\ MayStart(t, FALSE) /\ UNCHANGED <<cache, disk, stable, chan>>
    BY <1>2, <2>1 DEF unix_discard
  <2> HIDE DEF d
  <2> QED BY <2>2, <2>3, BypassImplements
<1> QED BY <1>1, <1>2

\* The calls that return at once.
LEMMA OtherCallImplements ==
  ASSUME TypeOK, OneSlotPerBlock, Coherent, Durable, Liberties = {}, ~WriteFaults,
         NEW t \in Threads, MayStart(t, FALSE), Idle(t, "ok"), UNCHANGED <<stable, hist>>,
         writethrough' = writethrough,
         \/ UNCHANGED <<cache, disk>> /\ (nocache' => nocache)
         \/ \E i \in BOOLEAN : FlushCache({}, i)
  PROVE  Durable' /\ Dev!Other(t, "ok")
<1>1. pc[t] = "idle" /\ buf[t] = BlankBuf
  BY DEF MayStart, Durable, Aside
<1>2. Others(t) /\ pc'[t] = "idle" /\ buf'[t] = BlankBuf
  BY IdleOthers DEF Idle, TypeOK
<1>3. Considerate(t)
  BY <1>2, CallConsiderate
<1>4. Durable'
  BY <1>2, <1>3, CallDurable DEF Aside
<1>5. \A b \in Blocks : Mem(b)' = Mem(b)
  BY AloneClean, MemSame, FlushMem
<1> QED BY <1>1, <1>4, <1>5, ReturnsAtOnce

\* A change of the reference count alone.
LEMMA CountCallImplements ==
  ASSUME Durable, UNCHANGED <<cache, disk, stable, hist, nocache, pc, req, buf, ret>>
  PROVE  Durable' /\ UNCHANGED <<DevMem, hist, DevOp, DevTodo, buf, ret>>
<1>1. Durable'
  BY DEF Durable, Aside, CopiesMaySurvive, Dirty, DirtySlots, Holds, req
<1>2. DevMem' = DevMem
  BY MemSame, DevMemSame
<1>3. DevOp' = DevOp /\ DevTodo' = DevTodo
  BY DEF DevOp, DevTodo, OpOf, TodoOf, req
<1> QED BY <1>1, <1>2, <1>3

LEMMA ChannelCallsImplement ==
  ASSUME TypeOK, OneSlotPerBlock, Coherent, Durable, Liberties = {}, ~WriteFaults,
         NEW t \in Threads,
         \/ unix_flush(t) \/ unix_set_blksize(t) \/ SetCacheOff(t) \/ SetCacheOn(t)
         \/ io_channel_bumpcount(t) \/ unix_close(t)
  PROVE  /\ Durable'
         /\ \/ Dev!Begin(t) \/ Dev!Other(t, "ok")
            \/ UNCHANGED <<DevMem, hist, DevOp, DevTodo, buf, ret>>
<1>1. MayStart(t, FALSE) /\ pc[t] = "idle" /\ UNCHANGED <<writethrough, stable, hist>>
  BY DEF unix_flush, unix_set_blksize, SetCacheOff, SetCacheOn, io_channel_bumpcount, unix_close,
         chan, MayStart
<1>2. CASE unix_flush(t)
  <2>1. /\ FlushCache({}, FALSE) /\ Enter(t, "fsync", 0, 0, BlankBuf)
    BY <1>2, FlushSucceeds DEF unix_flush
  <2>2. Others(t) /\ pc'[t] = "fsync"
    BY <2>1, EnterOthers
  <2>3. Considerate(t)
    BY <1>1, <2>2, CallConsiderate
  <2>4. DirtySlots' = {}
    BY <2>1, FlushWhole
  <2>5. Aside(t)'
    BY <2>2, <2>4 DEF Aside
  <2>6. \A b \in Blocks : Mem(b)' = Mem(b)
    BY <2>1, FlushMem
  <2> QED BY <1>1, <2>1, <2>3, <2>5, <2>6, CallDurable, BeginsRead
<1>3. CASE unix_set_blksize(t)
  <2>1. FlushCache({}, TRUE) /\ Idle(t, "ok")
    BY <1>3, FlushSucceeds DEF unix_set_blksize
  <2> QED BY <1>1, <2>1, OtherCallImplements
<1>4. CASE SetCacheOff(t)
  <2>1. FlushCache({}, FALSE) /\ Idle(t, "ok")
    BY <1>4, FlushSucceeds DEF SetCacheOff
  <2> QED BY <1>1, <2>1, OtherCallImplements
<1>5. CASE SetCacheOn(t)
  <2>1. nocache' = FALSE /\ Idle(t, "ok") /\ UNCHANGED <<cache, disk>>
    BY <1>5 DEF SetCacheOn
  <2>2. nocache' => nocache
    BY <2>1
  <2> QED BY <1>1, <2>1, <2>2, OtherCallImplements
<1>6. CASE io_channel_bumpcount(t)
  BY <1>6, CountCallImplements DEF io_channel_bumpcount
<1>7. CASE unix_close(t) /\ refcount > 1
  BY <1>7, CountCallImplements DEF unix_close
<1>8. CASE unix_close(t) /\ ~(refcount > 1)
  <2>1. FlushCache({}, TRUE) /\ Idle(t, "ok")
    BY <1>8, FlushSucceeds DEF unix_close
  <2> QED BY <1>1, <2>1, OtherCallImplements
<1> QED BY <1>2, <1>3, <1>4, <1>5, <1>6, <1>7, <1>8

LEMMA CallImplements ==
  ASSUME TypeOK, OneSlotPerBlock, Coherent, Durable, Liberties = {}, ~WriteFaults,
         NEW t \in Threads, Call(t)
  PROVE  Durable' /\ DevNext
<1>1. ASSUME NEW b, NEW n, ReadUncached(t, b, n) \/ ReadDirect(t, b, n) \/ ReadCached(t, b, n)
      PROVE  Durable' /\ Dev!Begin(t)
  BY <1>1, ReadCallsImplement
<1>2. ASSUME NEW b, NEW n, unix_zeroout(t, b, n) \/ unix_discard(t, b, n)
      PROVE  Durable' /\ Dev!Begin(t)
  BY <1>2, EraseCallsImplement
<1>3. CASE \/ unix_flush(t) \/ unix_set_blksize(t) \/ SetCacheOff(t) \/ SetCacheOn(t)
           \/ io_channel_bumpcount(t) \/ unix_close(t)
  <2>1. Dev!Begin(t) \/ Dev!Other(t, "ok") => Dev!DNext
    BY DEF Dev!DNext
  <2> QED BY <1>3, <2>1, ChannelCallsImplement DEF DevNext
<1>4. Dev!Begin(t) => DevNext
  BY DEF DevNext, Dev!DNext
<1>5. CASE \E b \in Blocks, n \in 1 .. MaxCount :
             /\ b + n <= NBlocks
             /\ \/ ReadUncached(t, b, n)
                \/ ReadDirect(t, b, n)
                \/ ReadCached(t, b, n)
                \/ unix_zeroout(t, b, n)
                \/ unix_discard(t, b, n)
                \/ \E d \in Data(b, n) :
                     \/ WriteUncached(t, b, n, d)
                     \/ WriteCached(t, b, n, d)
                     \/ WriteDirect(t, b, n, d)
                     \/ n = 1 /\ unix_write_byte(t, b, d)
  <2>1. PICK b \in Blocks, n \in 1 .. MaxCount :
          \/ ReadUncached(t, b, n) \/ ReadDirect(t, b, n) \/ ReadCached(t, b, n)
          \/ unix_zeroout(t, b, n) \/ unix_discard(t, b, n)
          \/ \E d \in Data(b, n) :
               \/ WriteUncached(t, b, n, d)
               \/ WriteCached(t, b, n, d)
               \/ WriteDirect(t, b, n, d)
               \/ n = 1 /\ unix_write_byte(t, b, d)
    BY <1>5
  <2>2. CASE \/ ReadUncached(t, b, n) \/ ReadDirect(t, b, n) \/ ReadCached(t, b, n)
             \/ unix_zeroout(t, b, n) \/ unix_discard(t, b, n)
    <3>1. Durable' /\ Dev!Begin(t)
      BY <1>1, <1>2, <2>2
    <3> QED BY <1>4, <3>1
  <2>3. CASE \E d \in Data(b, n) :
               \/ WriteUncached(t, b, n, d)
               \/ WriteCached(t, b, n, d)
               \/ WriteDirect(t, b, n, d)
               \/ n = 1 /\ unix_write_byte(t, b, d)
    <3>1. PICK d \in Data(b, n) :
            WriteUncached(t, b, n, d) \/ WriteCached(t, b, n, d) \/ FlushAndWrite(t, b, n, d)
      BY <2>3 DEF WriteDirect, unix_write_byte
    <3>2. d \in [Blocks -> Values]
      BY DataType
    <3>3. Durable' /\ Dev!Begin(t)
      BY <3>1, <3>2, WriteCallsImplement
    <3> QED BY <1>4, <3>3
  <2> QED BY <2>1, <2>2, <2>3
<1> QED BY <1>3, <1>5 DEF Call

\* The steps inside a request.
LEMMA StutterSteps ==
  ASSUME NEW t \in Threads, Others(t), OpOf(t)' = OpOf(t), TodoOf(t)' = TodoOf(t),
         \A b \in Blocks : Mem(b)' = Mem(b), UNCHANGED <<hist, buf, ret>>
  PROVE  DevNext
<1>1. DevOp' = DevOp /\ DevTodo' = DevTodo
  BY DevStep DEF DevOp, DevTodo
<1> QED BY <1>1, DevMemSame DEF DevNext

LEMMA EndSteps ==
  ASSUME TypeOK, NEW t \in Threads, pc[t] # "idle", NEW r \in {"ok", "err"}, Idle(t, r),
         r = "ok" => TodoOf(t) = {}, UNCHANGED <<cache, disk, hist>>
  PROVE  DevNext
<1>1. Others(t) /\ pc'[t] = "idle"
  BY IdleOthers
<1>2. OpOf(t) # "idle" /\ OpOf(t)' = "idle" /\ TodoOf(t)' = {}
  BY <1>1 DEF OpOf, TodoOf, Reading, Writing, PCs, TypeOK
<1>3. /\ buf' = [buf EXCEPT ![t] = [b \in Blocks |-> Zero]]
      /\ ret' = [ret EXCEPT ![t] = r]
  BY DEF Idle, BlankBuf
<1>4. Dev!End(t, r)
  BY <1>1, <1>2, <1>3, DevStep, DevMemSame, MemSame DEF Dev!End
<1> QED BY <1>4 DEF DevNext, Dev!DNext

\* Thread t copies the blocks of T into its buffer.
LEMMA CopySteps ==
  ASSUME TypeOK, NEW t \in Threads, pc[t] \in Reading, pc'[t] \in Reading, Others(t),
         NEW T \in SUBSET TodoOf(t), TodoOf(t)' = TodoOf(t) \ T,
         buf' = [buf EXCEPT ![t] = [b \in Blocks |-> IF b \in T THEN Mem(b) ELSE buf[t][b]]],
         UNCHANGED <<cache, disk, hist, ret>>
  PROVE  DevNext
<1>1. OpOf(t) = "read" /\ OpOf(t)' = "read"
  BY DEF OpOf, Reading, Writing
<1>2. DevOp' = DevOp
  BY <1>1, DevStep DEF DevOp
<1>3. TodoOf(t) \in SUBSET Blocks
  BY DEF TodoOf, Range
<1>4. [b \in Blocks |-> IF b \in T THEN DevMem[b] ELSE buf[t][b]] =
        [b \in Blocks |-> IF b \in T THEN Mem(b) ELSE buf[t][b]]
  BY <1>3 DEF DevMem
<1>5. Dev!ReadSome(t, T)
  BY <1>1, <1>2, <1>4, DevStep, DevMemSame, MemSame DEF Dev!ReadSome
<1>6. T \in SUBSET DevTodo[t]
  BY DevStep
<1> QED BY <1>5, <1>6 DEF DevNext, Dev!DNext

\* What a reader finds on the device is what the channel holds.
LEMMA ReadersClean ==
  ASSUME Coherent, ~WriteFaults, NEW t \in Threads, pc[t] \in Reading
  PROVE  \A s \in Slots : CleanSlot(s)
<1>1. \A u \in Threads : pc[u] \notin {"wlock", "write"}
  BY InsideAlone DEF Coherent, AllReading, Reading
<1> QED BY <1>1, CleanWhenNoWriter DEF Coherent, CleanIsCurrent

LEMMA ReadStepsImplement ==
  ASSUME TypeOK, OneSlotPerBlock, OneSlotPerBlock', Coherent, Durable, ~WriteFaults,
         NEW t \in Threads,
         \/ RawRead(t) \/ ReadHit(t) \/ ReadMiss(t) \/ ReadFetch(t) \/ ReadRelock(t)
         \/ ReadSave(t) \/ ReadReturn(t)
  PROVE  DevNext
<1>1. /\ Others(t) /\ blk[t] \in Nat /\ cnt[t] \in Nat /\ run[t] \in Nat /\ run[t] <= cnt[t]
      /\ blk[t] + cnt[t] <= NBlocks /\ NBlocks \in Nat /\ buf[t] \in [Blocks -> Values]
  <2>1. Others(t)
    BY StepConsiderate DEF Step, Considerate
  <2> QED BY <2>1, ConstantsAssumption DEF TypeOK
<1>2. pc[t] \in Reading
  BY DEF RawRead, ReadHit, ReadMiss, ReadFetch, ReadRelock, ReadSave, ReadReturn, Reading
<1>3. \A b : ~Dirty(b) => Mem(b) = disk[b]
  BY <1>2, ReadersClean, MemClean
<1>4. ASSUME Idle(t, "err"), UNCHANGED <<cache, disk, hist>> PROVE DevNext
  BY <1>2, <1>4, EndSteps DEF Reading
<1>5. CASE RawRead(t)
  <2>1. CASE Idle(t, "err")
    BY <1>4, <1>5, <2>1 DEF RawRead
  <2>2. CASE ~Idle(t, "err")
    <3> DEFINE T == Range(blk[t], cnt[t])
    <3>1. /\ buf' = [buf EXCEPT ![t] = [b \in Blocks |-> IF b \in T THEN disk[b] ELSE buf[t][b]]]
          /\ pc[t] = "raw_read" /\ pc'[t] = "got"
          /\ UNCHANGED <<cache, disk, hist, ret>>
      BY <1>5, <2>2 DEF RawRead, Goto, TypeOK
    <3>2. \A b \in T : Mem(b) = disk[b]
      BY <1>3, <3>1 DEF Durable, Aside
    <3>3. TodoOf(t) = T /\ TodoOf(t)' = {}
      BY <3>1 DEF TodoOf, Reading, Writing
    <3> HIDE DEF T
    <3>4. buf' = [buf EXCEPT ![t] = [b \in Blocks |-> IF b \in T THEN Mem(b) ELSE buf[t][b]]]
      BY <3>1, <3>2
    <3> QED BY <1>1, <1>2, <3>1, <3>3, <3>4, CopySteps DEF Reading
  <2> QED BY <2>1, <2>2
<1>6. CASE ReadHit(t)
  <2>1. PICK s \in Slots : Holds(s, blk[t]) /\ buf' = [buf EXCEPT ![t][blk[t]] = cache[s].buf]
    BY <1>6 DEF ReadHit
  <2>2. /\ pc[t] = "read" /\ pc'[t] = "read" /\ cnt[t] > 0
        /\ blk'[t] = blk[t] + 1 /\ cnt'[t] = cnt[t] - 1
        /\ UNCHANGED <<cache, disk, hist, ret>>
    BY <1>6 DEF ReadHit, Advance, TypeOK
  <2>3. Mem(blk[t]) = cache[s].buf
    BY <2>1, MemHeld
  <2>4. blk[t] \in Blocks /\ blk[t] \in Range(blk[t], cnt[t])
    BY <1>1, <2>2 DEF Blocks, Range
  <2>5. Range(blk[t] + 1, cnt[t] - 1) = Range(blk[t], cnt[t]) \ {blk[t]}
    BY <1>1, <2>2 DEF Range, Blocks
  <2>6. TodoOf(t) = Range(blk[t], cnt[t]) /\ TodoOf(t)' = TodoOf(t) \ {blk[t]}
    BY <2>2, <2>5 DEF TodoOf, Reading, Writing
  <2>7. buf' = [buf EXCEPT ![t] = [b \in Blocks |-> IF b \in {blk[t]} THEN Mem(b) ELSE buf[t][b]]]
    BY <1>1, <2>1, <2>3, <2>4 DEF TypeOK
  <2>8. {blk[t]} \in SUBSET TodoOf(t) /\ pc'[t] \in Reading
    BY <2>2, <2>4, <2>6 DEF Reading
  <2> QED BY <1>1, <1>2, <2>2, <2>6, <2>7, <2>8, CopySteps
<1>7. CASE ReadFetch(t)
  <2>1. CASE Idle(t, "err")
    BY <1>4, <1>7, <2>1 DEF ReadFetch
  <2>2. CASE ~Idle(t, "err")
    <3> DEFINE T == Range(blk[t], run[t])
    <3>1. /\ buf' = [buf EXCEPT ![t] = [b \in Blocks |-> IF b \in T THEN disk[b] ELSE buf[t][b]]]
          /\ pc[t] = "fetch" /\ pc'[t] = "fetched"
          /\ blk'[t] = blk[t] /\ cnt'[t] = cnt[t] /\ run'[t] = run[t]
          /\ UNCHANGED <<cache, disk, hist, ret>>
      BY <1>7, <2>2 DEF ReadFetch, Goto, TypeOK, req
    <3>2. \A b \in T : Mem(b) = disk[b]
      BY <1>3, <3>1 DEF Coherent, Local, FetchIsCurrent
    <3>3. Range(blk[t] + run[t], cnt[t] - run[t]) = Range(blk[t], cnt[t]) \ T
      BY <1>1 DEF Range, Blocks
    <3>4. T \subseteq Range(blk[t], cnt[t])
      BY <1>1 DEF Range, Blocks
    <3>5. TodoOf(t) = Range(blk[t], cnt[t]) /\ TodoOf(t)' = TodoOf(t) \ T
      BY <3>1, <3>3 DEF TodoOf, Reading, Writing
    <3> HIDE DEF T
    <3>6. buf' = [buf EXCEPT ![t] = [b \in Blocks |-> IF b \in T THEN Mem(b) ELSE buf[t][b]]]
      BY <3>1, <3>2
    <3>7. T \in SUBSET TodoOf(t) /\ pc'[t] \in Reading
      BY <3>1, <3>4, <3>5 DEF Reading
    <3> QED BY <1>1, <1>2, <3>1, <3>5, <3>6, <3>7, CopySteps
  <2> QED BY <2>1, <2>2
<1>8. CASE ReadMiss(t) \/ ReadRelock(t)
  <2>1. /\ UNCHANGED <<cache, disk, hist, blk, cnt, buf, ret>>
        /\ \/ pc[t] = "read" /\ pc'[t] = "fetch"
           \/ pc[t] = "fetched" /\ pc'[t] = "save" /\ run' = run
    BY <1>8 DEF ReadMiss, ReadRelock, Goto, TypeOK, req
  <2>2. OpOf(t)' = OpOf(t) /\ TodoOf(t)' = TodoOf(t)
    BY <2>1 DEF OpOf, TodoOf, Reading, Writing
  <2> QED BY <1>1, <2>1, <2>2, StutterSteps, MemSame
<1>9. CASE ReadSave(t)
  <2>1. /\ pc[t] = "save" /\ run[t] > 0 /\ SaveBlock(blk[t], buf[t][blk[t]])
        /\ blk'[t] = blk[t] + 1 /\ cnt'[t] = cnt[t] - 1 /\ run'[t] = run[t] - 1
        /\ pc'[t] = IF run[t] = 1 THEN "read" ELSE "save"
        /\ UNCHANGED <<hist, buf, ret>>
    BY <1>9 DEF ReadSave, Advance, Goto, TypeOK
  <2>2. OpOf(t)' = OpOf(t)
    BY <2>1 DEF OpOf, Reading, Writing
  <2>3. TodoOf(t)' = TodoOf(t)
    <3>1. /\ blk[t] + 1 + (run[t] - 1) = blk[t] + run[t]
          /\ cnt[t] - 1 - (run[t] - 1) = cnt[t] - run[t]
      BY <1>1
    <3>2. CASE run[t] = 1
      BY <2>1, <3>2 DEF TodoOf, Reading, Writing
    <3>3. CASE run[t] # 1
      BY <2>1, <3>1, <3>3 DEF TodoOf, Reading, Writing
    <3> QED BY <3>2, <3>3
  <2>4. blk[t] \in Blocks /\ blk[t] \in Range(blk[t], run[t])
    BY <1>1, <2>1 DEF Blocks, Range
  <2>5. \A b \in Blocks : Mem(b)' = Mem(b)
    <3>1. CASE Cached(blk[t])
      BY <2>1, <3>1, MemSame DEF SaveBlock
    <3>2. CASE ~Cached(blk[t])
      <4>1. ReuseSlot(blk[t], buf[t][blk[t]], FALSE)
        BY <2>1, <3>2, Zenon DEF SaveBlock
      <4>2. PICK s \in Slots : Reused(s, blk[t], buf[t][blk[t]], FALSE)
        BY <4>1, ReuseEffect, Zenon
      <4>3. buf[t][blk[t]] = disk[blk[t]]
        BY <2>1, <2>4 DEF Coherent, Local, FetchIsCurrent
      <4>4. ASSUME NEW b \in Blocks, b = blk[t] PROVE Mem(b)' = Mem(b)
        BY <3>2, <4>2, <4>3, <4>4, ReuseMem, MemUnheld
      <4>5. ASSUME NEW b \in Blocks, b # blk[t] PROVE Mem(b)' = Mem(b)
        <5>1. CASE Holds(s, b) /\ Mem(b)' = disk'[b] /\ ~cache[s].dirty
          <6>1. disk'[b] = disk[b]
            BY <5>1, <4>2 DEF Reused, DirtySlots
          <6>2. cache[s].buf = disk[b]
            BY <1>2, <5>1, ReadersClean DEF CleanSlot, Holds
          <6> QED BY <5>1, <6>1, <6>2, MemHeld
        <5> QED BY <2>4, <3>2, <4>2, <4>5, <5>1, ReuseMem
      <4> QED BY <4>4, <4>5
    <3> QED BY <3>1, <3>2
  <2> QED BY <1>1, <2>1, <2>2, <2>3, <2>5, StutterSteps
<1>10. CASE ReadReturn(t)
  <2>1. pc[t] = "read" /\ cnt[t] = 0 /\ Idle(t, "ok") /\ UNCHANGED <<cache, disk, hist>>
    BY <1>10 DEF ReadReturn
  <2>2. TodoOf(t) = {}
    BY <1>1, <2>1 DEF TodoOf, Reading, Writing, Range, Blocks
  <2> QED BY <2>1, <2>2, EndSteps
<1> QED BY <1>5, <1>6, <1>7, <1>8, <1>9, <1>10

\* Thread t puts the blocks of T to the device, and is done with those of D.
LEMMA PutSteps ==
  ASSUME TypeOK, NEW t \in Threads, pc[t] \in Writing, pc'[t] \in Writing, Others(t),
         NEW T \in SUBSET TodoOf(t), NEW D \in SUBSET T, TodoOf(t)' = TodoOf(t) \ D,
         \A b \in Blocks : Mem(b)' = IF b \in T THEN buf[t][b] ELSE Mem(b),
         UNCHANGED <<hist, buf, ret>>
  PROVE  DevNext
<1>1. OpOf(t) = "write" /\ OpOf(t)' = "write"
  BY DEF OpOf, Reading, Writing
<1>2. DevOp' = DevOp
  BY <1>1, DevStep DEF DevOp
<1>3. DevMem' = [b \in Blocks |-> IF b \in T THEN buf[t][b] ELSE DevMem[b]]
  BY DEF DevMem
<1>4. Dev!WriteSome(t, T, D)
  BY <1>1, <1>2, <1>3, DevStep DEF Dev!WriteSome
<1>5. T \in SUBSET DevTodo[t]
  BY DevStep
<1> QED BY <1>4, <1>5 DEF DevNext, Dev!DNext

\* One turn of the loop that fills the cache.  The slot it takes may hold a
\* block of the same write-through, whose new value is on the device already.
LEMMA FillImplements ==
  ASSUME TypeOK, OneSlotPerBlock, OneSlotPerBlock', Coherent, ~WriteFaults,
         NEW t \in Threads, WriteFill(t)
  PROVE  DevNext
<1>1. /\ pc[t] = "write" /\ pc'[t] = "write" /\ cnt[t] \in Nat \ {0} /\ blk[t] \in Nat
      /\ blk'[t] = blk[t] + 1 /\ cnt'[t] = cnt[t] - 1 /\ buf[t][blk[t]] \in Values
      /\ blk[t] \in Blocks /\ UNCHANGED <<hist, buf, ret>> /\ (~writethrough) \in BOOLEAN
  BY ConstantsAssumption DEF WriteFill, Advance, TypeOK, Blocks
<1>2. Others(t)
  BY StepConsiderate DEF Step, Considerate
<1>3. /\ blk[t] \in Range(blk[t], cnt[t])
      /\ Range(blk[t] + 1, cnt[t] - 1) = Range(blk[t], cnt[t]) \ {blk[t]}
  BY <1>1, ConstantsAssumption DEF Range, Blocks
<1>4. TodoOf(t) = Range(blk[t], cnt[t]) /\ TodoOf(t)' = TodoOf(t) \ {blk[t]}
  BY <1>1, <1>3 DEF TodoOf, Reading, Writing
<1>5. PICK s \in Slots :
        /\ Filled(s, blk[t], buf[t][blk[t]], ~writethrough)
        /\ \/ Holds(s, blk[t]) /\ disk' = disk
           \/ ~Cached(blk[t]) /\ Reused(s, blk[t], buf[t][blk[t]], ~writethrough)
  BY <1>1, FillEffect, Zenon DEF WriteFill
<1>6. \A u \in Threads : u # t => pc[u] = "idle"
  BY <1>1, InsideAlone DEF Coherent, AllIdle, Reading
<1>7. ASSUME NEW b \in Blocks, b = blk[t] PROVE Mem(b)' = buf[t][b]
  <2>1. Holds(s, b)' /\ cache'[s].buf = buf[t][b]
    BY <1>5, <1>7 DEF Filled, Holds
  <2> QED BY <2>1, MemHeld
<1>8. ASSUME NEW b \in Blocks, b # blk[t]
      PROVE  \/ Mem(b)' = Mem(b)
             \/ b \in Range(blk[t], cnt[t]) /\ Mem(b)' = buf[t][b]
  <2>1. CASE Holds(s, blk[t]) /\ disk' = disk
    <3>1. CASE Cached(b)
      <4>1. PICK r \in Slots : Holds(r, b)
        BY <3>1 DEF Cached
      <4>2. r # s
        BY <1>8, <2>1, <4>1 DEF Holds
      <4>3. cache'[r] = cache[r]
        BY <1>5, <4>2 DEF Filled
      <4> QED BY <4>1, <4>3, MemHeld DEF Holds
    <3>2. CASE ~Cached(b)
      <4>1. ~Cached(b)'
        BY <1>5, <1>8, <3>2 DEF Cached, Holds, Filled
      <4> QED BY <2>1, <3>2, <4>1, MemUnheld
    <3> QED BY <3>1, <3>2
  <2>2. CASE ~Cached(blk[t]) /\ Reused(s, blk[t], buf[t][blk[t]], ~writethrough)
    <3>1. \/ Mem(b)' = Mem(b)
          \/ Holds(s, b) /\ Mem(b)' = disk'[b] /\ ~cache[s].dirty
      BY <1>1, <1>8, <2>2, ReuseMem, Zenon
    <3>2. CASE Holds(s, b) /\ Mem(b)' = disk'[b] /\ ~cache[s].dirty
      <4>1. disk'[b] = disk[b]
        BY <2>2, <3>2 DEF Reused, DirtySlots
      <4>2. CASE b \in Overtaken
        <5>1. writethrough /\ b \in Range(blk[t], cnt[t])
          BY <1>6, <4>2, OvertakenMeans
        <5>2. buf[t][b] = disk[b]
          BY <1>1, <5>1 DEF Coherent, Local, ThroughIsWritten
        <5> QED BY <3>2, <4>1, <5>1, <5>2
      <4>3. CASE b \notin Overtaken
        <5>1. cache[s].buf = disk[b]
          BY <3>2, <4>3 DEF Coherent, CleanIsCurrent, CleanMatchesDisk, Holds
        <5> QED BY <3>2, <4>1, <5>1, MemHeld
      <4> QED BY <4>2, <4>3
    <3> QED BY <3>1, <3>2
  <2> QED BY <1>5, <2>1, <2>2
<1> DEFINE T == {b \in Range(blk[t], cnt[t]) : b = blk[t] \/ Mem(b)' # Mem(b)}
<1>9. \A b \in Blocks : Mem(b)' = IF b \in T THEN buf[t][b] ELSE Mem(b)
  BY <1>3, <1>7, <1>8
<1>10. T \in SUBSET TodoOf(t) /\ {blk[t]} \in SUBSET T
  BY <1>3, <1>4
<1>11. pc[t] \in Writing /\ pc'[t] \in Writing
  BY <1>1 DEF Writing
<1> HIDE DEF T
<1> QED BY <1>1, <1>2, <1>4, <1>9, <1>10, <1>11, PutSteps

LEMMA WriteStepsImplement ==
  ASSUME TypeOK, OneSlotPerBlock, OneSlotPerBlock', Coherent, Durable, ~WriteFaults,
         NEW t \in Threads,
         RawWrite(t) \/ WriteThrough(t) \/ WriteLock(t) \/ WriteFill(t) \/ WriteReturn(t)
  PROVE  DevNext
<1>1. Others(t) /\ blk[t] \in Nat /\ cnt[t] \in Nat /\ ret[t] \in {"ok", "err"}
  <2>1. Others(t)
    BY StepConsiderate DEF Step, Considerate
  <2> QED BY <2>1 DEF TypeOK
<1> DEFINE R == Range(blk[t], cnt[t])
<1>2. CASE RawWrite(t) \/ WriteThrough(t)
  <2>1. /\ \A b \in Blocks : disk'[b] = IF b \in R THEN buf[t][b] ELSE disk[b]
        /\ UNCHANGED <<cache, hist, buf, ret>> /\ blk'[t] = blk[t] /\ cnt'[t] = cnt[t]
    BY <1>2 DEF RawWrite, WriteThrough, RawWritten, req
  <2>2. \/ pc[t] = "raw_write" /\ pc'[t] = "put"
        \/ pc[t] = "through" /\ pc'[t] = "wlock"
    BY <1>2 DEF RawWrite, WriteThrough, Goto, TypeOK
  <2>3. pc[t] \in Writing /\ pc'[t] \in Writing /\ TodoOf(t) = R
    BY <2>2 DEF Writing, Reading, TodoOf
  <2>4. TodoOf(t)' = IF pc[t] = "raw_write" THEN {} ELSE R
    BY <2>1, <2>2 DEF Writing, Reading, TodoOf
  <2> DEFINE T == {b \in R : ~Cached(b)}
  <2>5. \A b : Cached(b)' <=> Cached(b)
    BY <2>1 DEF Cached, Holds
  <2>6. \A b \in Blocks : Mem(b)' = IF b \in T THEN buf[t][b] ELSE Mem(b)
    <3>1. ASSUME NEW b \in Blocks, Cached(b) PROVE Mem(b)' = Mem(b)
      BY <2>1, <2>5, <3>1 DEF Mem, SlotOf, Holds
    <3>2. ASSUME NEW b \in Blocks, ~Cached(b) PROVE Mem(b)' = disk'[b] /\ Mem(b) = disk[b]
      BY <2>5, <3>2, MemUnheld
    <3> QED BY <2>1, <3>1, <3>2
  <2>7. CASE pc[t] = "raw_write"
    <3>1. T = R
      BY <2>7 DEF Coherent, Local, RawIsUncached
    <3>2. T \in SUBSET TodoOf(t) /\ R \in SUBSET T /\ TodoOf(t)' = TodoOf(t) \ R
      BY <2>3, <2>4, <2>7, <3>1
    <3> HIDE DEF R, T
    <3> QED BY <1>1, <2>1, <2>3, <2>6, <3>2, PutSteps
  <2>8. CASE pc[t] # "raw_write"
    <3>1. T \in SUBSET TodoOf(t) /\ {} \in SUBSET T /\ TodoOf(t)' = TodoOf(t) \ {}
      BY <2>3, <2>4, <2>8
    <3> HIDE DEF R, T
    <3> QED BY <1>1, <2>1, <2>3, <2>6, <3>1, PutSteps
  <2> QED BY <2>7, <2>8
<1>3. CASE WriteLock(t)
  <2>1. /\ pc[t] = "wlock" /\ pc'[t] = "write"
        /\ UNCHANGED <<cache, disk, hist, buf, ret>> /\ blk' = blk /\ cnt' = cnt
    BY <1>3 DEF WriteLock, Goto, TypeOK, req
  <2>2. OpOf(t)' = OpOf(t) /\ TodoOf(t)' = TodoOf(t)
    BY <2>1 DEF OpOf, TodoOf, Reading, Writing
  <2> QED BY <1>1, <2>1, <2>2, StutterSteps, MemSame
<1>4. CASE WriteFill(t)
  BY <1>4, FillImplements
<1>5. CASE WriteReturn(t)
  <2>1. pc[t] = "write" /\ cnt[t] = 0 /\ Idle(t, ret[t]) /\ UNCHANGED <<cache, disk, hist>>
    BY <1>5 DEF WriteReturn
  <2>2. TodoOf(t) = {}
    BY <1>1, <2>1, ConstantsAssumption DEF TodoOf, Reading, Writing, Range, Blocks
  <2> QED BY <1>1, <2>1, <2>2, EndSteps
<1> QED BY <1>2, <1>3, <1>4, <1>5

LEMMA OtherStepsImplement ==
  ASSUME TypeOK, OneSlotPerBlock, Coherent, Durable, ~WriteFaults, NEW t \in Threads,
         Fsync(t) \/ Return(t)
  PROVE  DevNext
<1>1. Others(t) /\ ret[t] \in {"ok", "err"}
  <2>1. Others(t)
    BY StepConsiderate DEF Step, Considerate
  <2> QED BY <2>1 DEF TypeOK
<1>2. CASE Fsync(t)
  <2>1. /\ pc[t] = "fsync" /\ pc'[t] = "synced" /\ hist' = [b \in Blocks |-> {Mem(b)}]
        /\ UNCHANGED <<cache, disk, buf, ret>>
    BY <1>2 DEF Fsync, WriteOutcomes, Goto, TypeOK
  <2>2. OpOf(t) = "flush" /\ OpOf(t)' = "flush" /\ TodoOf(t)' = {}
    BY <2>1 DEF OpOf, TodoOf, Reading, Writing
  <2>3. DevOp' = DevOp
    BY <1>1, <2>2, DevStep DEF DevOp
  <2>4. hist' = [b \in Blocks |-> {DevMem[b]}]
    BY <2>1 DEF DevMem
  <2>5. Dev!Sync(t)
    BY <1>1, <2>1, <2>2, <2>3, <2>4, DevStep, MemSame, DevMemSame DEF Dev!Sync
  <2> QED BY <2>5 DEF DevNext, Dev!DNext
<1>3. CASE Return(t)
  <2>1. /\ pc[t] \in {"got", "put", "synced"} /\ Idle(t, ret[t])
        /\ UNCHANGED <<cache, disk, hist>>
    BY <1>3 DEF Return
  <2>2. TodoOf(t) = {}
    BY <2>1 DEF TodoOf, Reading, Writing
  <2> QED BY <1>1, <2>1, <2>2, EndSteps
<1> QED BY <1>2, <1>3

LEMMA StepImplements ==
  ASSUME TypeOK, OneSlotPerBlock, OneSlotPerBlock', Coherent, Durable, ~WriteFaults,
         NEW t \in Threads, Step(t)
  PROVE  DevNext
  BY ReadStepsImplement, WriteStepsImplement, OtherStepsImplement DEF Step

\* A crash, with what the kernel has (d is disk) or what the medium has.
LEMMA StopImplements ==
  ASSUME TypeOK, Durable, NEW d, NEW h, Stop(d, h),
         \/ d = disk /\ h = hist
         \/ d = stable /\ h = [b \in Blocks |-> {stable[b]}]
  PROVE  Durable' /\ Dev!Crash
<1>1. /\ disk' = d /\ hist' = h /\ stable' = stable
      /\ d \in [Blocks -> Values] /\ \A b \in Blocks : d[b] \in hist[b]
      /\ \A s \in Slots : ~cache'[s].in_use
  BY DEF Stop, TypeOK, Durable, CopiesMaySurvive, Empty
<1>2. pc' = [t \in Threads |-> "idle"] /\ buf' = [t \in Threads |-> BlankBuf]
  BY DEF Stop
<1>3. Durable'
  <2>1. DirtySlots' = {}
    BY <1>1 DEF DirtySlots
  <2>2. \A t \in Threads : Aside(t)'
    BY <1>2 DEF Aside
  <2>3. CopiesMaySurvive'
    BY <1>1 DEF Durable, CopiesMaySurvive
  <2> QED BY <2>1, <2>2, <2>3 DEF Durable
<1>4. \A b \in Blocks : Mem(b)' = d[b]
  BY <1>1, MemUnheld DEF Cached, Holds
<1>5. DevMem' = [b \in Blocks |-> d[b]] /\ DevMem' \in [Blocks -> Values]
  BY <1>1, <1>4 DEF DevMem
<1>6. hist' = hist \/ hist' = [b \in Blocks |-> {DevMem'[b]}]
  BY <1>1, <1>5
<1>7. DevOp' = [t \in Threads |-> "idle"] /\ DevTodo' = [t \in Threads |-> {}]
  BY <1>2 DEF DevOp, DevTodo, OpOf, TodoOf, Reading, Writing
<1>8. /\ buf' = [t \in Threads |-> [b \in Blocks |-> Zero]]
      /\ ret' = [t \in Threads |-> "ok"]
  BY <1>2 DEF BlankBuf, Stop
<1>9. Dev!Crash
  BY <1>1, <1>5, <1>6, <1>7, <1>8 DEF Dev!Crash
<1> QED BY <1>3, <1>9

LEMMA NextImplements ==
  ASSUME Liberties = {}, ~WriteFaults, TypeOK, OneSlotPerBlock, OneSlotPerBlock', Coherent,
         Durable, [Next]_vars
  PROVE  Durable' /\ DevNext
<1>1. CASE UNCHANGED <<cache, disk, stable, hist, nocache, pc, req, buf, ret>>
  BY <1>1, CountCallImplements DEF DevNext
<1>2. ASSUME NEW t \in Threads, Step(t) PROVE Durable' /\ DevNext
  BY <1>2, StepDurable, StepImplements
<1>3. ASSUME NEW t \in Threads, Call(t) PROVE Durable' /\ DevNext
  BY <1>3, CallImplements
<1>4. CASE unix_open
  <2>1. /\ ~nocache' /\ UNCHANGED <<cache, disk, stable, hist, pc, buf, ret>>
        /\ blk' = blk /\ cnt' = cnt /\ run' = run
    BY <1>4 DEF unix_open, req
  <2>2. \A t \in Threads : Aside(t)'
    BY <2>1 DEF Durable, Aside, Dirty, DirtySlots, Holds
  <2>3. CopiesMaySurvive'
    BY <2>1 DEF Durable, CopiesMaySurvive
  <2>4. DevOp' = DevOp /\ DevTodo' = DevTodo
    BY <2>1 DEF DevOp, DevTodo, OpOf, TodoOf
  <2> QED BY <2>1, <2>2, <2>3, <2>4, MemSame, DevMemSame DEF Durable, DevNext
<1>5. ASSUME NEW b \in Blocks, Writeback(b) PROVE Durable' /\ DevNext
  <2>1. /\ stable' = [stable EXCEPT ![b] = disk[b]]
        /\ UNCHANGED <<cache, disk, hist, nocache, pc, blk, cnt, run, buf, ret>>
    BY <1>5 DEF Writeback, chan, req
  <2>2. \A t \in Threads : Aside(t)'
    BY <2>1 DEF Durable, Aside, Dirty, DirtySlots, Holds
  <2>3. CopiesMaySurvive'
    BY <2>1 DEF Durable, CopiesMaySurvive, TypeOK
  <2>4. DevOp' = DevOp /\ DevTodo' = DevTodo
    BY <2>1 DEF DevOp, DevTodo, OpOf, TodoOf
  <2> QED BY <2>1, <2>2, <2>3, <2>4, MemSame, DevMemSame DEF Durable, DevNext, DirtySlots
<1>6. CASE Kill \/ PowerFail
  <2>1. Durable' /\ Dev!Crash
    BY <1>6, StopImplements DEF Kill, PowerFail
  <2> QED BY <2>1 DEF DevNext, Dev!DNext
<1> QED
  BY <1>1, <1>2, <1>3, <1>4, <1>5, <1>6 DEF Next, vars, chan

LEMMA InitImplements == Init => Durable /\ Dev!DInit
<1> SUFFICES ASSUME Init PROVE Durable /\ Dev!DInit
  OBVIOUS
<1>1. Durable
  BY DEF Init, Durable, DirtySlots, Aside, CopiesMaySurvive, Empty
<1>2. \A b \in Blocks : Mem(b) = disk[b]
  BY MemUnheld DEF Init, Cached, Holds, Empty
<1>3. DevMem \in [Blocks -> Values] /\ hist = [b \in Blocks |-> {DevMem[b]}]
  BY <1>2 DEF DevMem, Init
<1>4. DevOp = [t \in Threads |-> "idle"] /\ DevTodo = [t \in Threads |-> {}]
  BY DEF Init, DevOp, DevTodo, OpOf, TodoOf, Reading, Writing
<1>5. buf = [t \in Threads |-> [b \in Blocks |-> Zero]] /\ ret = [t \in Threads |-> "ok"]
  BY DEF Init, BlankBuf
<1> QED
  BY <1>1, <1>3, <1>4, <1>5 DEF Dev!DInit

LEMMA AlwaysDurable == ASSUME Liberties = {}, ~WriteFaults PROVE Spec => []Durable
<1>1. TypeOK /\ OneSlotPerBlock /\ OneSlotPerBlock' /\ Coherent /\ Durable /\ [Next]_vars => Durable'
  BY NextImplements
<1> QED
  BY <1>1, InitImplements, AlwaysCoherent, TypeCorrect, OneSlot, PTL DEF Spec

\* The channel implements a block device without a cache: reads return what was
\* last written and a successful flush makes it durable, for every size of the
\* device, the cache and the requests, with direct requests, both modes of
\* writing, failing reads, readers that drop the mutex, kills and power
\* failures, on a device whose writes succeed.
THEOREM ChannelIsADevice ==
  ASSUME Liberties = {}, ~WriteFaults PROVE Spec => ImplementsBlockDevice
<1>1. TypeOK /\ OneSlotPerBlock /\ OneSlotPerBlock' /\ Coherent /\ Durable /\ [Next]_vars =>
        [Dev!DNext]_(Dev!dvars)
  BY NextImplements DEF DevNext, Dev!dvars
<1> QED
  BY <1>1, InitImplements, AlwaysDurable, AlwaysCoherent, TypeCorrect, OneSlot, PTL
     DEF Spec, ImplementsBlockDevice, Dev!DSpec
=============================================================================
