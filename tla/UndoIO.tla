------------------------------- MODULE UndoIO -------------------------------
(***************************************************************************)
(* The undo I/O manager (lib/ext2fs/undo_io.c), which a tool puts between  *)
(* itself and the device to keep the old contents of every block it        *)
(* overwrites, and e2undo (misc/e2undo.c), which puts them back.  A tool   *)
(* may be killed at any point, and so may e2undo; a later tool may go on   *)
(* with the same undo file.                                                *)
(*                                                                         *)
(* The undo file is written through unix_io: whole blocks stay in its      *)
(* cache until a write of part of a block, the header, flushes and drops   *)
(* them.  A flush writes in the order of the slots (flush_cached_blocks),  *)
(* which is the order of the writes when the cache was empty before them;  *)
(* behind undo_setup_tdb and try_reopen_undo_file it is not, as the key    *)
(* block they read still has its slot.  What the kernel has is safe: a     *)
(* power failure is outside what the manual pages promise.                 *)
(***************************************************************************)
EXTENDS Integers, Sequences, FiniteSets

CONSTANTS
  Last,            \* the file system's blocks are 0 .. Last
  Values,          \* what a tool writes to a block; 0 is there before the first one
  KeysPerBlock,    \* KEYS_PER_BLOCK
  MaxExtent,       \* E2UNDO_MAX_EXTENT_BLOCKS
  MaxCount,        \* longest write of a tool
  ResumeFull       \* is a file resumed whose last key block is just full?

ASSUME UndoAssumption ==
  /\ Last \in Nat \ {0} /\ KeysPerBlock \in Nat \ {0}
  /\ MaxExtent \in Nat \ {0} /\ MaxCount \in Nat \ {0}
  /\ ResumeFull \in BOOLEAN

Blocks == 0 .. Last
SuperBlk == 0
Contents == [v : Values \cup {0}, clean : BOOLEAN]
Original == [v |-> 0, clean |-> TRUE]
Nothing == [v |-> -1, clean |-> FALSE]

VARIABLES
  disk,      \* the device, as the kernel has it
  dirty,     \* blocks in the cache of data->real that are not written yet
  file,      \* the undo file, as the kernel has it
  cached,    \* undo file blocks that wait in the cache of data->undo_file
  data,      \* struct undo_private_data of the tool that runs
  pc,        \* the step the tool or e2undo is at
  todo,      \* blocks [from, to] and the contents of the write under way
  lost,      \* history: blocks whose old contents could not be read (unread),
             \* and blocks of a key that is in the file without its data (torn)
  replay     \* e2undo: keys still to write, and the problems met

vars == <<disk, dirty, file, cached, data, pc, todo, lost, replay>>

\* A key describes an extent of blocks by what was in them: its checksum.
Key(b, crc) == [fsblk |-> b, crc |-> crc]
Size(key) == Len(key.crc)

KeyBlock(keys) == [keys |-> keys, data |-> Nothing]
DataBlock(contents) == [keys |-> <<>>, data |-> contents]

NoHeader == [magic |-> FALSE, sized |-> FALSE, num_keys |-> 0,
             sb_crc |-> Nothing, finished |-> FALSE]
EmptyFile == [hdr |-> NoHeader, super |-> Nothing, blks |-> <<>>]

NoData == [map |-> {}, setup |-> FALSE, num_keys |-> 0, keyb |-> <<>>,
           key_blk |-> 1, undo_blk |-> 2, finished |-> FALSE, warm |-> FALSE]
NoWrite == [from |-> 1, to |-> 0, with |-> Original]
NoLoss == [unread |-> {}, torn |-> {}]
NoReplay == [keys |-> {}, force |-> FALSE, error |-> FALSE]

\* Position p of the undo file is blks[p]: the header and the superblock come
\* before position 1, the first key block (first_key_blk) is at 1.
Extend(blks, p) == [q \in 1 .. (IF p > Len(blks) THEN p ELSE Len(blks)) |->
                      IF q <= Len(blks) THEN blks[q] ELSE DataBlock(Nothing)]
Put(blks, write) == [Extend(blks, write.at) EXCEPT ![write.at] = write.blk]

\* The cached blocks, written out.
Flushed(blks, writes) ==
  IF writes = <<>> THEN blks
  ELSE IF Len(writes) = 1 THEN Put(blks, writes[1])
  ELSE Put(Put(blks, writes[1]), writes[2])

\* What a read of the device returns: the cache of the channel is coherent.
Read(b) == IF dirty[b] = Nothing THEN disk[b] ELSE dirty[b]
Clean == [b \in Blocks |-> Nothing]
Written == [b \in Blocks |-> Read(b)]

----------------------------------------------------------------------------
(* Reading an undo file: the loop over the key blocks that                 *)
(* try_reopen_undo_file and e2undo share.                                  *)

Slot(k) == ((k - 1) % KeysPerBlock) + 1
BlockAt(f, p) == IF p \in 1 .. Len(f.blks) THEN f.blks[p] ELSE DataBlock(Nothing)

\* Where key k is: its key block, its position there, and its first data block.
KeyPlaces(f) ==
  LET place[k \in 1 .. f.hdr.num_keys] ==
        IF k = 1 THEN [key_blk |-> 1, data_blk |-> 2]
        ELSE LET prev == place[k - 1]
                 keys == BlockAt(f, prev.key_blk).keys
                 next == prev.data_blk + IF Slot(k - 1) \in DOMAIN keys
                                         THEN Size(keys[Slot(k - 1)]) ELSE 0
             IN IF Slot(k) = 1 THEN [key_blk |-> next, data_blk |-> next + 1]
                ELSE [key_blk |-> prev.key_blk, data_blk |-> next]
  IN place

\* Every key block has its magic number and checksum.
KeysReadable(f) ==
  LET place == KeyPlaces(f)
  IN \A k \in 1 .. f.hdr.num_keys :
       Slot(k) \in DOMAIN BlockAt(f, place[k].key_blk).keys

LoadedKeys(f) ==
  LET place == KeyPlaces(f)
  IN {[fsblk |-> BlockAt(f, place[k].key_blk).keys[Slot(k)].fsblk,
       crc |-> BlockAt(f, place[k].key_blk).keys[Slot(k)].crc,
       fileblk |-> place[k].data_blk] : k \in 1 .. f.hdr.num_keys}

\* The blocks of an extent as the undo file has them.
Extent(f, key) == [i \in 1 .. Len(key.crc) |-> BlockAt(f, key.fileblk + i - 1).data]
KeyBlocks(key) == key.fsblk .. key.fsblk + Len(key.crc) - 1

\* A read that goes past the end of the file fails, and returns nothing of it.
Fetched(f, key) == key.fileblk + Size(key) - 1 <= Len(f.blks)

BlocksMatch(f) ==
  \A key \in LoadedKeys(f) : Fetched(f, key) /\ Extent(f, key) = key.crc

\* check_filesystem, the same function in both programs.
check_filesystem(f, super) == f.super = super /\ f.hdr.sb_crc = f.super

----------------------------------------------------------------------------
(* undo_open. *)

\* No tool runs: none did yet, the last one was killed, or it ended.
Stopped == {"idle", "killed", "ended"}

undo_open ==
  /\ pc \in Stopped /\ file = EmptyFile
  /\ data' = NoData
  /\ pc' = "open"
  /\ UNCHANGED <<disk, dirty, file, cached, todo, lost, replay>>

\* try_reopen_undo_file succeeds; every other undo file ends undo_open.
ReopenedMap_Forgotten(f) == {}
ReopenedMap(f) == UNION {KeyBlocks(key) : key \in LoadedKeys(f)}

try_reopen_undo_file ==
  /\ pc \in Stopped /\ file # EmptyFile
  /\ file.hdr.magic /\ file.hdr.sized
  /\ check_filesystem(file, disk[SuperBlk])
  /\ KeysReadable(file)
  /\ LET n == file.hdr.num_keys
         place == KeyPlaces(file)
         last == BlockAt(file, place[n].key_blk).keys
     IN /\ ResumeFull \/ n = 0 \/ Slot(n) # KeysPerBlock
        /\ data' = [map |-> ReopenedMap(file), setup |-> TRUE, num_keys |-> n,
                    keyb |-> IF n = 0 THEN <<>> ELSE SubSeq(last, 1, Slot(n)),
                    key_blk |-> IF n = 0 THEN 1 ELSE place[n].key_blk,
                    undo_blk |-> IF n = 0 THEN 2
                                 ELSE place[n].data_blk + Size(last[Slot(n)]),
                    finished |-> FALSE, warm |-> TRUE]
  /\ pc' = "open"
  /\ UNCHANGED <<disk, dirty, file, cached, todo, lost, replay>>

----------------------------------------------------------------------------
(* undo_write_blk64, undo_write_byte, undo_discard, undo_zeroout: save what *)
(* is there with undo_write_tdb, then write.                               *)

BeginWrite ==
  /\ pc = "open"
  /\ \E b \in Blocks, n \in 1 .. MaxCount, v \in Values :
       /\ b + n - 1 <= Last
       /\ todo' = [from |-> b, to |-> b + n - 1, with |-> [v |-> v, clean |-> TRUE]]
  /\ data' = [data EXCEPT !.setup = TRUE, !.warm = @ \/ ~data.setup]
  \* undo_setup_tdb makes room for the header blocks, and leaves them in the cache
  /\ file' = IF data.setup THEN file
             ELSE [file EXCEPT !.blks = Extend(@, 1)]
  /\ pc' = "save"
  /\ UNCHANGED <<disk, dirty, cached, lost, replay>>

Unsaved == {b \in todo.from .. todo.to : b \notin data.map}
NextUnsaved == CHOOSE b \in Unsaved : \A c \in Unsaved : b <= c

\* extend this key?
Extends(keys, b) ==
  /\ keys # <<>>
  /\ LET key == keys[Len(keys)] IN
       key.fsblk + Size(key) = b /\ MaxExtent > Size(key) + 1

Keyed(keys, b, contents) ==
  IF Extends(keys, b)
  THEN [keys EXCEPT ![Len(keys)].crc = Append(@, contents)]
  ELSE Append(keys, Key(b, <<contents>>))

Marked(d, b) == [d EXCEPT !.map = @ \cup {b}]

\* A key block holds KeysPerBlock keys: one that is past its end is not in it.
KeyBlockOf(keys) == KeyBlock(SubSeq(keys, 1,
                      IF Len(keys) > KeysPerBlock THEN KeysPerBlock ELSE Len(keys)))

SaveBlock ==
  /\ pc = "save" /\ Unsaved # {}
  /\ LET b == NextUnsaved
         old == Read(b)
         keys == Keyed(data.keyb, b, old)
     IN /\ data' = [Marked(data, b) EXCEPT
                      !.keyb = keys,
                      !.num_keys = IF Extends(data.keyb, b) THEN @ ELSE @ + 1,
                      !.undo_blk = @ + 1]
        /\ cached' = <<[at |-> data.undo_blk, blk |-> DataBlock(old)],
                       [at |-> data.key_blk, blk |-> KeyBlockOf(keys)]>>
  /\ pc' = "header"
  /\ UNCHANGED <<disk, dirty, file, todo, lost, replay>>

\* The old contents cannot be read: the block stays marked, the write fails.
SaveBlockFails ==
  /\ pc = "save" /\ Unsaved # {}
  /\ data' = Marked(data, NextUnsaved)
  /\ lost' = [lost EXCEPT !.unread = @ \cup {NextUnsaved}]
  /\ pc' = "open" /\ todo' = NoWrite
  /\ UNCHANGED <<disk, dirty, file, cached, replay>>

----------------------------------------------------------------------------
(* write_undo_indexes: the key block, the superblock of the file system,   *)
(* the header, the copy of the superblock.                                 *)

\* Move on to the next key block if it is full.
NextKeyBlock(d) ==
  IF Len(d.keyb) = KeysPerBlock
  THEN [d EXCEPT !.keyb = <<>>, !.key_blk = d.undo_blk, !.undo_blk = @ + 1]
  ELSE d

Header(d, super) ==
  [magic |-> TRUE, sized |-> d.setup, num_keys |-> d.num_keys,
   sb_crc |-> super, finished |-> d.finished]

\* The blocks in the cache are dropped with the flush.
Emptied(d) == [d EXCEPT !.warm = FALSE]

\* Reading the superblock writes out the cache of data->real, writing the
\* header that of data->undo_file.
WriteHeader(next) ==
  /\ disk' = Written /\ dirty' = Clean
  /\ file' = [file EXCEPT !.blks = Flushed(@, cached),
                          !.hdr = Header(data, Written[SuperBlk])]
  /\ cached' = <<>>
  /\ data' = Emptied(NextKeyBlock(data))
  /\ pc' = next

IndexHeader ==
  /\ pc = "header"
  /\ WriteHeader("super")
  /\ UNCHANGED <<todo, lost, replay>>

IndexSuper ==
  /\ pc = "super"
  /\ file' = [file EXCEPT !.super = disk[SuperBlk]]
  /\ pc' = "save"
  /\ UNCHANGED <<disk, dirty, cached, data, todo, lost, replay>>

RealWrite ==
  /\ pc = "save" /\ Unsaved = {}
  /\ dirty' = [b \in Blocks |-> IF b \in todo.from .. todo.to THEN todo.with ELSE dirty[b]]
  /\ pc' = "open" /\ todo' = NoWrite
  /\ UNCHANGED <<disk, file, cached, data, lost, replay>>

\* The cache of data->real writes a block out when it needs the room, and all
\* of them for undo_flush.
Evict ==
  /\ \E b \in Blocks :
       /\ dirty[b] # Nothing
       /\ disk' = [disk EXCEPT ![b] = dirty[b]]
       /\ dirty' = [dirty EXCEPT ![b] = Nothing]
  /\ UNCHANGED <<file, cached, data, pc, todo, lost, replay>>

----------------------------------------------------------------------------
(* undo_close; undo_atexit when the tool exits without closing; and a tool *)
(* that is killed.                                                         *)

Gone(how) == pc' = how /\ data' = NoData /\ cached' = <<>> /\ todo' = NoWrite

undo_close ==
  /\ pc = "open"
  /\ data' = [data EXCEPT !.finished = TRUE]
  /\ cached' = IF data.keyb = <<>> THEN <<>>
               ELSE <<[at |-> data.key_blk, blk |-> KeyBlockOf(data.keyb)]>>
  /\ pc' = "close_header"
  /\ UNCHANGED <<disk, dirty, file, todo, lost, replay>>

undo_atexit ==
  /\ pc = "open"
  /\ cached' = IF data.keyb = <<>> THEN <<>>
               ELSE <<[at |-> data.key_blk, blk |-> KeyBlockOf(data.keyb)]>>
  /\ pc' = "close_header"
  /\ UNCHANGED <<disk, dirty, file, data, todo, lost, replay>>

CloseHeader ==
  /\ pc = "close_header"
  /\ WriteHeader("close_super")
  /\ UNCHANGED <<todo, lost, replay>>

CloseSuper ==
  /\ pc = "close_super"
  /\ file' = [file EXCEPT !.super = disk[SuperBlk]]
  /\ Gone("ended")
  /\ UNCHANGED <<disk, dirty, lost, replay>>

\* The cached blocks were written in the order they entered the cache, up to
\* some point.
Kill ==
  /\ pc \in {"open", "save", "header", "super", "close_header", "close_super"}
  /\ \E n \in 0 .. Len(cached) :
       file' = [file EXCEPT !.blks = Flushed(@, SubSeq(cached, 1, n))]
  /\ dirty' = Clean
  /\ Gone("killed")
  /\ UNCHANGED <<disk, lost, replay>>

\* The key block had its slot before the data came: it is in the file, and the
\* data of its last key are not.  A key that the header counts already has been
\* extended, and its extent ends where there is nothing.
Torn == IF data.num_keys = file.hdr.num_keys
        THEN KeyBlocks(data.keyb[Len(data.keyb)]) ELSE {}

KillBetween ==
  /\ pc = "header" /\ data.warm
  /\ file' = [file EXCEPT !.blks = Put(@, cached[2])]
  /\ lost' = [lost EXCEPT !.torn = @ \cup Torn]
  /\ dirty' = Clean
  /\ Gone("killed")
  /\ UNCHANGED <<disk, replay>>

----------------------------------------------------------------------------
(* e2undo. *)

\* What e2undo -f goes on with, and what it insists on without it.
Usable(f) == f.hdr.magic /\ f.hdr.sized /\ KeysReadable(f)
Accepts(f, super) == Usable(f) /\ check_filesystem(f, super) /\ BlocksMatch(f)

e2undo ==
  /\ pc \in Stopped \cup {"interrupted", "undone"}
  /\ \E force \in BOOLEAN :
       /\ IF force THEN Usable(file) ELSE Accepts(file, disk[SuperBlk])
       /\ replay' = [keys |-> LoadedKeys(file), force |-> force, error |-> ~BlocksMatch(file)]
  /\ pc' = "replay"
  /\ UNCHANGED <<disk, dirty, file, cached, data, todo, lost>>

\* In the order of the file system's blocks: an interrupted replay has written
\* the superblock first.
NextKey == CHOOSE key \in replay.keys : \A other \in replay.keys : key.fsblk <= other.fsblk

ReplayKey ==
  /\ pc = "replay" /\ replay.keys # {}
  /\ disk' = [b \in Blocks |-> IF b \in KeyBlocks(NextKey) /\ Fetched(file, NextKey)
                               THEN Extent(file, NextKey)[b - NextKey.fsblk + 1]
                               ELSE disk[b]]
  /\ replay' = [replay EXCEPT !.keys = @ \ {NextKey}]
  /\ UNCHANGED <<dirty, file, cached, data, pc, todo, lost>>

\* If there were problems, try to force a fsck.
ReplayDone_AfterOne ==
  /\ pc = "replay"
  /\ disk' = [disk EXCEPT ![SuperBlk].clean =
                @ /\ file.hdr.finished /\ ~replay.force /\ ~replay.error]
  /\ replay' = NoReplay
  /\ pc' = "undone"
  /\ UNCHANGED <<dirty, file, cached, data, todo, lost>>

ReplayDone ==
  /\ pc = "replay" /\ replay.keys = {}
  /\ disk' = [disk EXCEPT ![SuperBlk].clean =
                @ /\ file.hdr.finished /\ ~replay.force /\ ~replay.error]
  /\ replay' = NoReplay
  /\ pc' = "undone"
  /\ UNCHANGED <<dirty, file, cached, data, todo, lost>>

KillReplay ==
  /\ pc = "replay"
  /\ replay' = NoReplay
  /\ pc' = "interrupted"
  /\ UNCHANGED <<disk, dirty, file, cached, data, todo, lost>>

----------------------------------------------------------------------------
Init ==
  /\ disk = [b \in Blocks |-> Original] /\ dirty = Clean
  /\ file = EmptyFile /\ cached = <<>> /\ data = NoData
  /\ pc = "idle" /\ todo = NoWrite /\ lost = NoLoss /\ replay = NoReplay

Next ==
  \/ undo_open \/ try_reopen_undo_file
  \/ BeginWrite \/ SaveBlock \/ SaveBlockFails \/ IndexHeader \/ IndexSuper
  \/ RealWrite \/ Evict
  \/ undo_close \/ undo_atexit \/ CloseHeader \/ CloseSuper \/ Kill \/ KillBetween
  \/ e2undo \/ ReplayKey \/ ReplayDone \/ KillReplay

Spec == Init /\ [][Next]_vars

----------------------------------------------------------------------------
UndoTypeOK ==
  /\ disk \in [Blocks -> Contents \cup {Nothing}]
  /\ dirty \in [Blocks -> Contents \cup {Nothing}]
  /\ data.map \subseteq Blocks /\ Len(data.keyb) <= KeysPerBlock
  /\ data.num_keys \in 0 .. Cardinality(Blocks)
  /\ file.hdr.num_keys \in 0 .. Cardinality(Blocks)
  /\ todo.from \in Blocks /\ todo.to \in Blocks
  /\ lost \in [unread : SUBSET Blocks, torn : SUBSET Blocks]

\* What the undo file, as a kill would leave it, puts back for block b.
Saved(b) ==
  {Extent(file, key)[b - key.fsblk + 1] :
     key \in {k \in LoadedKeys(file) : b \in KeyBlocks(k) /\ Fetched(file, k)}}

\* Once a tool has changed a block on the device, the undo file that a kill at
\* this very moment would leave behind can be read by e2undo -f and has the
\* contents from before the first session, and nothing else, for that block:
\* across kills, reopened files, extended keys and full key blocks.  There are
\* two exceptions: a block whose old contents could not be read, and the blocks
\* of one extent when a tool that had just resumed the file was killed while
\* flush_cached_blocks had written the extended key and not yet its data.
SavedBeforeChanged ==
  \A b \in Blocks \ (lost.unread \cup lost.torn) :
    disk[b].v # Original.v =>
      file.hdr.sized /\ KeysReadable(file) /\ Saved(b) = {Original}

\* e2undo, run to its end after whatever happened, has restored every block, the
\* same two exceptions apart; only the superblock's clean flag may differ, so
\* that e2fsck is run.
UndoRestores ==
  (pc = "undone") => \A b \in Blocks \ (lost.unread \cup lost.torn) : disk[b].v = Original.v

\* When the last tool closed the file, or exited and left that to undo_atexit,
\* e2undo does not ask for -f: superblock, key blocks and extents agree, unless
\* an earlier session left a key without its data.
EndedIsAccepted ==
  (pc = "ended" /\ file.hdr.sized /\ lost.torn = {}) => Accepts(file, disk[SuperBlk])

\* e2undo accepts the undo file of a tool that has ended, and puts everything back.
UndoWorks == UndoRestores /\ EndedIsAccepted
=============================================================================
