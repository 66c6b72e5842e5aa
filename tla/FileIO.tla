------------------------------ MODULE FileIO ------------------------------
(***************************************************************************)
(* lib/ext2fs/fileio.c: a file read and written through a handle with one  *)
(* block of buffer, and the block mapping under it (bmap.c), of a file     *)
(* with extents.  A block has Cells cells, each a byte or a run of bytes.  *)
(* The file may have holes and uninitialised blocks.  Inline data and the  *)
(* sharing of equal blocks (EXT2_FLAG_SHARE_DUP) are left out.             *)
(*                                                                         *)
(* Reads and writes of the device succeed; free blocks run out and others  *)
(* take and give them back.  One handle is open at a time.                 *)
(***************************************************************************)
EXTENDS Integers, FiniteSetsExt

CONSTANTS
    FileBlocks,     \* logical blocks 0 .. FileBlocks - 1
    Cells,          \* cells of a block
    DiskBlocks,     \* blocks of the disk, numbered from 1
    SeekTo,         \* positions a caller seeks; others are reached by reading and writing
    CellValues,     \* what is written; 0 is zero
    TruncatesUsed   \* whether a file is shortened while its handle has a valid buffer,
                    \* whichever block that is

ASSUME FileIOAssumption ==
    /\ FileBlocks \in Nat \ {0} /\ Cells \in Nat \ {0} /\ DiskBlocks \in Nat
    /\ SeekTo \subseteq Nat /\ CellValues \subseteq Nat \ {0} /\ TruncatesUsed \in BOOLEAN

VARIABLES
    file,       \* [open, pos, blockno, physblock, buf, valid, dirty, ret: of the call,
                \*  inode: [size, map: block or 0, uninit], disk, free: blocks]
    content     \* what the cells may hold by what the callers were told

fileVars == <<file, content>>

Stale == "stale"                     \* what a free block holds
Offsets == 0 .. Cells - 1
Zeros == [o \in Offsets |-> 0]
FileCells == 0 .. FileBlocks * Cells - 1
MaxSize == FileBlocks * Cells

Done(f) == [f EXCEPT !.ret = "ok"]
Failed(f) == f.ret # "ok"

\* ext2fs_bmap2 without BMAP_ALLOC
FileBmap(f, b) == f.inode.map[b]

\* With BMAP_ALLOC: the new block is written with zeros.
BmapAlloc(f, b) ==
    LET p == Min(f.free)
    IN  IF f.free = {} THEN [f EXCEPT !.ret = "no space"]
        ELSE [f EXCEPT !.inode.map[b] = p, !.free = @ \ {p}, !.disk[p] = Zeros, !.physblock = p]

\* With BMAP_SET: the block is initialised from now on.
BmapSet(f, b) == [f EXCEPT !.inode.uninit = @ \ {b}]
-----------------------------------------------------------------------------
\* The physical block is allocated if it has not been yet.
WithBlock(f) == IF f.physblock = 0 THEN BmapAlloc(f, f.blockno) ELSE f

ext2fs_file_flush(f) ==
    LET set == IF f.physblock # 0 /\ f.blockno \in f.inode.uninit THEN BmapSet(f, f.blockno) ELSE f
        Written(g) == IF Failed(g) THEN g ELSE [g EXCEPT !.disk[g.physblock] = g.buf, !.dirty = FALSE]
    IN  IF ~f.valid \/ ~f.dirty THEN f ELSE Written(WithBlock(set))

\* What an invalid buffer holds is not looked at.
Invalid(f) == [f EXCEPT !.valid = FALSE, !.buf = Zeros, !.physblock = 0]

\* Fault: the buffer stays valid when the position moves to another block.
sync_buffer_position_StaysValid(f) ==
    LET b == f.pos \div Cells
    IN  IF b = f.blockno THEN f ELSE [ext2fs_file_flush(f) EXCEPT !.blockno = b]

sync_buffer_position(f) ==
    LET b == f.pos \div Cells
        Moved(g) == IF Failed(g) THEN g ELSE [Invalid(g) EXCEPT !.blockno = b]
    IN  IF b = f.blockno THEN f ELSE Moved(ext2fs_file_flush(f))

load_buffer(f, dontfill) ==
    LET p == FileBmap(f, f.blockno)
    IN  IF f.valid THEN f
        ELSE [f EXCEPT !.physblock = p, !.valid = TRUE,
                       !.buf = IF dontfill THEN @
                               ELSE IF p # 0 /\ f.blockno \notin f.inode.uninit THEN f.disk[p]
                               ELSE Zeros]

\* One round of the loop of ext2fs_file_read: a block or what is left of it.
ReadBlock(f, wanted) ==
    LET c == Min({Cells - (f.pos % Cells), wanted, f.inode.size - f.pos})
        Loaded(g) == IF Failed(g) THEN g ELSE [load_buffer(g, FALSE) EXCEPT !.pos = @ + c]
    IN  Loaded(sync_buffer_position(f))

ext2fs_file_read(f, wanted) ==
    LET end == Min({f.pos + wanted, f.inode.size})
        Round(g) == IF Failed(g) \/ g.pos >= end THEN g ELSE ReadBlock(g, end - g.pos)
        after[n \in 0 .. FileBlocks + 1] == IF n = 0 THEN f ELSE Round(after[n - 1])
    IN  after[FileBlocks + 1]

\* The parts of the last block behind offset, on the disk and not in the buffer
ext2fs_file_zero_past_offset(f, offset) ==
    LET b == offset \div Cells
        Zeroed(g) == IF Failed(g) \/ FileBmap(g, b) = 0 \/ b \in g.inode.uninit THEN g
                     ELSE [g EXCEPT !.disk[FileBmap(g, b)] =
                              [o \in Offsets |-> IF o >= offset % Cells THEN 0 ELSE @[o]]]
    IN  IF offset % Cells = 0 THEN f ELSE Zeroed(sync_buffer_position(f))

\* ext2fs_punch from block b on
PunchFrom(f, b) ==
    LET gone == {l \in b .. FileBlocks - 1 : f.inode.map[l] # 0}
    IN  [f EXCEPT !.inode.map = [l \in DOMAIN @ |-> IF l \in gone THEN 0 ELSE @[l]],
                  !.inode.uninit = @ \ gone,
                  !.free = @ \cup {f.inode.map[l] : l \in gone},
                  !.disk = [p \in DOMAIN @ |-> IF \E l \in gone : f.inode.map[l] = p
                                               THEN [o \in Offsets |-> Stale] ELSE @[p]]]

BlocksFor(size) == (size + Cells - 1) \div Cells

ext2fs_file_set_size2(f, size) ==
    LET Punched(g) == IF Failed(g) \/ BlocksFor(size) >= BlocksFor(f.inode.size) THEN g
                      ELSE PunchFrom(g, BlocksFor(size))
    IN  Punched(ext2fs_file_zero_past_offset([f EXCEPT !.inode.size = size], size))

\* One round of the loop of ext2fs_file_write: value goes to c cells.
WriteBlock(f, nbytes, value) ==
    LET start == f.pos % Cells
        c == Min({Cells - start, nbytes})
        Filled(g) == [load_buffer(g, c = Cells) EXCEPT
                         !.dirty = TRUE,
                         !.buf = [o \in Offsets |-> IF o \in start .. start + c - 1 THEN value ELSE @[o]]]
        Advanced(g) == IF Failed(g) THEN g ELSE [g EXCEPT !.pos = @ + c]
        Written(g) == IF Failed(g) THEN g ELSE Advanced(WithBlock(Filled(g)))
    IN  Written(sync_buffer_position(f))

ext2fs_file_write(f, nbytes, value) ==
    LET end == f.pos + nbytes
        Round(g) == IF Failed(g) \/ g.pos >= end THEN g ELSE WriteBlock(g, end - g.pos, value)
        after[n \in 0 .. FileBlocks + 1] == IF n = 0 THEN f ELSE Round(after[n - 1])
        Sized(w) == IF w.pos > f.pos /\ w.inode.size < w.pos
                    THEN [ext2fs_file_set_size2(Done(w), w.pos) EXCEPT !.ret = IF w.ret = "ok" THEN @ ELSE w.ret]
                    ELSE w
    IN  Sized(after[FileBlocks + 1])
-----------------------------------------------------------------------------
\* The handle of f as ext2fs_file_open2 makes it, or none.
Handle(f, open) ==
    [f EXCEPT !.open = open, !.pos = 0, !.blockno = 0, !.physblock = 0, !.buf = Zeros,
              !.valid = FALSE, !.dirty = FALSE, !.ret = "ok"]

\* An empty file; the disk is full of other files' old data.
FileInit ==
    /\ file = [open |-> FALSE, pos |-> 0, blockno |-> 0, physblock |-> 0, buf |-> Zeros,
               valid |-> FALSE, dirty |-> FALSE, ret |-> "ok",
               inode |-> [size |-> 0, map |-> [b \in 0 .. FileBlocks - 1 |-> 0], uninit |-> {}],
               disk |-> [p \in 1 .. DiskBlocks |-> [o \in Offsets |-> Stale]],
               free |-> 1 .. DiskBlocks]
    /\ content = [i \in FileCells |-> {0}]

FileOpen ==
    /\ ~file.open
    /\ file' = Handle(file, TRUE)
    /\ UNCHANGED content

FileSeek(pos) ==
    /\ file.open
    /\ file' = [file EXCEPT !.pos = pos]
    /\ UNCHANGED content

FileRead(n) ==
    /\ file.open
    /\ file' = Done(ext2fs_file_read(file, n))
    /\ UNCHANGED content

\* A write that fails has written the cells up to the position it returns, and
\* perhaps those of the block where it stopped.
FileWrite(n, value) ==
    LET from == file.pos
        to == file'.pos
        tried == Min({from + n, (to \div Cells + 1) * Cells})
    IN  /\ file.open /\ file.pos + n <= MaxSize
        /\ file' = Done(ext2fs_file_write(file, n, value))
        /\ content' = [i \in FileCells |-> IF i \in from .. to - 1 THEN {value}
                                           ELSE IF i \in to .. tried - 1 THEN content[i] \cup {value}
                                           ELSE content[i]]

FileFlush ==
    /\ file.open
    /\ file' = Done(ext2fs_file_flush(file))
    /\ UNCHANGED content

FileSetSize(size) ==
    /\ file.open
    /\ TruncatesUsed \/ size >= file.inode.size \/ ~file.valid
    /\ file' = Done(ext2fs_file_set_size2(file, size))
    /\ content' = [i \in FileCells |-> IF i \in size .. file.inode.size - 1 THEN {0} ELSE content[i]]

\* ext2fs_file_close: what cannot be flushed is lost, and the caller is told.
FileClose ==
    /\ file.open
    /\ file' = Handle(ext2fs_file_flush(file), FALSE)
    /\ UNCHANGED content

\* A caller preallocates a block of a closed file, or another file takes or
\* gives back one.
Prealloc(b) ==
    /\ ~file.open /\ file.inode.map[b] = 0 /\ file.free # {}
    /\ file' = [file EXCEPT !.inode.map[b] = Min(file.free), !.inode.uninit = @ \cup {b},
                            !.free = @ \ {Min(file.free)}]
    /\ UNCHANGED content

Owned(f) == {f.inode.map[b] : b \in 0 .. FileBlocks - 1} \ {0}

OthersAllocate ==
    /\ file' = [file EXCEPT !.free = IF @ = {} THEN 1 .. DiskBlocks \ Owned(file) ELSE {}]
    /\ file'.free # file.free
    /\ UNCHANGED content

FileNext ==
    \/ FileOpen \/ FileFlush \/ FileClose \/ OthersAllocate
    \/ \E b \in 0 .. FileBlocks - 1 : Prealloc(b)
    \/ \E pos \in SeekTo : FileSeek(pos)
    \/ \E size \in 0 .. MaxSize : FileSetSize(size)
    \/ \E n \in {1, Cells + 1} : FileRead(n) \/ \E value \in CellValues : FileWrite(n, value)

FileSpec == FileInit /\ [][FileNext]_fileVars
-----------------------------------------------------------------------------
\* The cell at pos as ext2fs_file_read gets it
CellAt(f, pos) ==
    LET b == pos \div Cells
        g == load_buffer(IF b = f.blockno THEN f ELSE [f EXCEPT !.valid = FALSE, !.blockno = b], FALSE)
    IN  g.buf[pos % Cells]

\* Through any sequence of seeks, reads, writes that end for lack of space,
\* changes of the size and sessions, a read returns what was last written at
\* that place and zero where nothing was, and never old data of another file.
ReadsWhatWasWritten ==
    \A i \in FileCells : i < file.inode.size => CellAt(file, i) \in content[i]

\* The buffer is written only to a block of the file: it is never kept for a
\* block that was given back.
BufferHasItsBlock ==
    file.valid /\ file.physblock # 0 => file.physblock = file.inode.map[file.blockno]

\* Reads return what was written, through a buffer that stays with its block.
FileIOCorrect == ReadsWhatWasWritten /\ BufferHasItsBlock
=============================================================================
