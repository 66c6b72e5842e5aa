------------------------------ MODULE Fuse2fs ------------------------------
(* misc/fuse2fs.c: the operations that change names, link counts and the
   allocation of inodes and blocks, each of them under the lock bfl and so one
   step, with the functions of libext2fs they call (mkdir.c, symlink.c,
   expanddir.c).  A call of libext2fs may fail between two of the writes of an
   operation; a file system may run out of blocks and inodes.

   The kernel sends an operation only for directories that exist, creates
   nothing under a name in use and moves no directory into itself; libfuse
   renames a file that is removed while it is open to a hidden name and removes
   that with the last handle.  __translate_error counts some of the errors that
   end an operation and not others (errno values, no memory, no blocks); of a
   file system that such an error has left half way nothing is said, and it is
   followed no further.  Reading, times, owners and modes are left out, and
   extended attributes but for the failure to free them. *)
EXTENDS Integers, SequencesExt, FiniteSetsExt

CONSTANTS
    FuseInodes,         \* inodes 1 .. FuseInodes, 1 is the root
    UserNames,          \* names in a directory
    HiddenName,         \* .fuse_hidden...
    EntriesPerBlock,    \* entries that fit in a block of a directory
    FreeAtFirst,        \* free blocks the file system may begin with
    OtherBlocks,        \* blocks of the file system that are in no file
    Reserve,            \* r_blocks_count: fs_can_allocate keeps them, or a tenth
    MostHandles,        \* bound on the files open at a time
    LibraryFails        \* whether calls of libext2fs may fail

ASSUME FuseAssumption ==
    /\ FuseInodes \in Nat \ {0} /\ HiddenName \notin UserNames
    /\ EntriesPerBlock \in Nat \ {0} /\ FreeAtFirst \subseteq Nat
    /\ OtherBlocks \in Nat /\ Reserve \in Nat
    /\ MostHandles \in Nat /\ LibraryFails \in BOOLEAN

VARIABLES
    fuse,       \* the file system: names, dotdot, kind, links, used (the inode
                \* bitmap), blocks of each inode, free, errors (s_error_count),
                \* leftover (inodes written by an attempt that was undone), total (its
                \* blocks), halfway (whether a call ended so without being counted)
    handles,    \* open files: the inode, and the name libfuse knows it by
    mount       \* [on, state: s_state on the device, all: alloc_all_blocks]

fuseVars == <<fuse, handles, mount>>

RootIno == 1
Inos == 1 .. FuseInodes
AllNames == UserNames \cup {HiddenName}
NoNames == [n \in AllNames |-> 0]

NewFs(free) ==
    [names |-> [d \in Inos |-> NoNames],
     dotdot |-> [d \in Inos |-> RootIno],
     kind |-> [i \in Inos |-> IF i = RootIno THEN "dir" ELSE "none"],
     links |-> [i \in Inos |-> IF i = RootIno THEN 2 ELSE 0],
     used |-> {RootIno},
     blocks |-> [i \in Inos |-> IF i = RootIno THEN 1 ELSE 0],
     free |-> free, total |-> free + 1 + OtherBlocks, errors |-> 0, leftover |-> {},
     halfway |-> FALSE]

FuseInit ==
    /\ fuse \in {NewFs(free) : free \in FreeAtFirst}
    /\ handles = {}
    /\ \E all \in BOOLEAN : mount = [on |-> TRUE, state |-> {}, all |-> all]

Entries(f, d) == {n \in AllNames : f.names[d][n] # 0}
DirsOf(f) == {i \in f.used : f.kind[i] = "dir"}

-----------------------------------------------------------------------------
(* The pieces the operations are made of.  An operation is the sequence of the
   states its writes lead through; it may end after any of them. *)

fs_can_allocate(f, num) ==
    /\ num <= f.total
    /\ mount.all \/ f.free > num + (IF Reserve = 0 THEN f.total \div 10 ELSE Reserve)

\* check_inum_access with W_OK, for a user with all permissions
fs_writeable(f) == f.errors = 0

\* ext2fs_new_inode: the first free inode
FreeIno(f) == Min(Inos \ f.used)

HasRoom(f, d) == Cardinality(Entries(f, d)) < EntriesPerBlock * f.blocks[d]

ext2fs_expand_dir(f, d) == [f EXCEPT !.blocks[d] = @ + 1, !.free = @ - 1]

Named(f, d, n, ino) == [f EXCEPT !.names[d][n] = ino]

\* ext2fs_link, and once more after ext2fs_expand_dir when there is no room;
\* the operation ends where no block is free for that.
CanLink(f, d) == HasRoom(f, d) \/ f.free > 0

LinkSteps(f, d, n, ino) ==
    IF HasRoom(f, d) THEN <<Named(f, d, n, ino)>>
    ELSE <<ext2fs_expand_dir(f, d), Named(ext2fs_expand_dir(f, d), d, n, ino)>>

unlink_file_by_name(f, d, n) == Named(f, d, n, 0)

Freed(f, ino) ==
    [f EXCEPT !.used = @ \ {ino}, !.free = @ + f.blocks[ino], !.blocks[ino] = 0]

\* The last link is gone: the attributes are freed, the blocks, the bit, and then
\* the inode is written.  If the attributes cannot be freed (kept) the rest stays
\* too, and the caller is told nothing.
Gone(f, ino, kept) ==
    IF kept THEN <<[f EXCEPT !.links[ino] = 0, !.halfway = TRUE]>>
    ELSE <<Freed(f, ino),
           [Freed(f, ino) EXCEPT !.links[ino] = 0, !.kind[ino] = "none", !.dotdot[ino] = RootIno]>>

remove_inode_OneTooEarly(f, ino, kept) ==
    CASE f.links[ino] = 0 -> <<>>
      [] f.links[ino] \in {1, 2} -> Gone(f, ino, kept)
      [] OTHER -> <<[f EXCEPT !.links[ino] = @ - 1]>>

remove_inode(f, ino, kept) ==
    CASE f.links[ino] = 0 -> <<>>
      [] f.links[ino] = 1 -> Gone(f, ino, kept)
      [] OTHER -> <<[f EXCEPT !.links[ino] = @ - 1]>>

After(f, steps) == Last(<<f>> \o steps)

UnlinkSteps(f, d, n, kept) ==
    LET gone == unlink_file_by_name(f, d, n)
    IN  <<gone>> \o remove_inode(gone, f.names[d][n], kept)

\* "Directories have to be "removed" twice."
RmdirSteps(f, d, n, kept) ==
    LET child == f.names[d][n]
        gone == unlink_file_by_name(f, d, n)
        once == <<gone>> \o remove_inode(gone, child, kept)
        twice == once \o remove_inode(Last(once), child, kept)
        parent == f.dotdot[child]
    IN  twice \o <<[Last(twice) EXCEPT !.links[parent] = IF @ > 1 THEN @ - 1 ELSE @]>>

\* The ways a call of ext2fs_free_ext_attr can go
AttrsKept == IF LibraryFails THEN {FALSE, TRUE} ELSE {FALSE}

\* The library failed with one of the states its writes lead through, and
\* __translate_error counted the error or did not.
Fails(states) ==
    /\ LibraryFails
    /\ \E f \in states : \/ fuse' = [f EXCEPT !.errors = 1]
                         \/ fuse' = [f EXCEPT !.halfway = f # fuse]

\* Every write was made, or the library failed.
Done(steps) == fuse' = After(fuse, steps)
Stopped(steps) == Fails(Range(<<fuse>> \o steps))
Perform(steps) == Done(steps) \/ Stopped(steps)
-----------------------------------------------------------------------------
(* The operations *)

Mounted == mount.on /\ ~fuse.halfway /\ UNCHANGED mount

FreshName(d, n) == mount.on /\ d \in DirsOf(fuse) /\ n \in UserNames /\ fuse.names[d][n] = 0

Opened(d, n, ino) ==
    IF Cardinality(handles) < MostHandles
    THEN handles' = handles \cup {[ino |-> ino, dir |-> d, name |-> n]}
    ELSE UNCHANGED handles

\* op_mknod and op_create: the name first, then the inode, then its bit.
MakeSteps(f, d, n, ino) ==
    LET linked == LinkSteps(f, d, n, ino)
        inode == [Last(linked) EXCEPT !.kind[ino] = "file", !.links[ino] = 1,
                                      !.dotdot[ino] = RootIno, !.blocks[ino] = 0]
    IN  linked \o <<inode, [inode EXCEPT !.used = @ \cup {ino}, !.leftover = @ \ {ino}]>>

op_mknod(d, n) ==
    /\ FreshName(d, n) /\ Mounted
    /\ fs_writeable(fuse) /\ fs_can_allocate(fuse, 2)
    /\ Inos # fuse.used /\ CanLink(fuse, d)
    /\ Perform(MakeSteps(fuse, d, n, FreeIno(fuse)))
    /\ UNCHANGED handles

op_create(d, n) ==
    /\ FreshName(d, n) /\ Mounted
    /\ fs_writeable(fuse) /\ fs_can_allocate(fuse, 1)
    /\ Inos # fuse.used /\ CanLink(fuse, d)
    /\ LET steps == MakeSteps(fuse, d, n, FreeIno(fuse))
       IN  \/ Done(steps) /\ Opened(d, n, FreeIno(fuse))
           \/ Stopped(steps) /\ UNCHANGED handles

\* ext2fs_mkdir and ext2fs_symlink: the inode first, then the bitmaps, the name
\* and the parent's count.  A failure after the bitmaps takes them back, and
\* only them (drop_refcount).
InodeWritten(f, ino, kind, d, blocks) ==
    [f EXCEPT !.kind[ino] = kind, !.links[ino] = IF kind = "dir" THEN 2 ELSE 1,
              !.dotdot[ino] = IF kind = "dir" THEN d ELSE RootIno,
              !.blocks[ino] = blocks]

Accounted(f, ino) ==
    [f EXCEPT !.used = @ \cup {ino}, !.free = @ - f.blocks[ino], !.leftover = @ \ {ino}]

Undone(f, before) == [f EXCEPT !.used = before.used, !.free = before.free]

Attempt(f, d, n, kind, blocks) ==
    LET ino == FreeIno(f)
        written == InodeWritten(f, ino, kind, d, blocks)
        named == Named(Accounted(written, ino), d, n, ino)
        counted == [named EXCEPT !.links[d] = IF kind = "dir" THEN @ + 1 ELSE @]
    IN  [done |-> counted, failures |-> {f, written, Undone(named, f), counted}]

\* In a full directory the first attempt leaves its inode behind, and the
\* directory is expanded for the second.
New(d, n, kind, blocks) ==
    LET ino == FreeIno(fuse)
        left == [InodeWritten(fuse, ino, kind, d, blocks) EXCEPT !.leftover = @ \cup {ino}]
        larger == IF HasRoom(fuse, d) THEN fuse ELSE ext2fs_expand_dir(left, d)
        before == IF HasRoom(fuse, d) THEN {fuse} ELSE {fuse, left}
        attempt == Attempt(larger, d, n, kind, blocks)
    IN  /\ Inos # fuse.used /\ fuse.free >= blocks
        /\ CASE ~CanLink(fuse, d) -> fuse' = left
             [] larger.free < blocks -> fuse' = larger
             [] OTHER -> fuse' = attempt.done \/ Fails(before \cup attempt.failures)
        /\ UNCHANGED handles

op_mkdir(d, n) ==
    /\ FreshName(d, n) /\ Mounted
    /\ fs_writeable(fuse) /\ fs_can_allocate(fuse, 1)
    /\ New(d, n, "dir", 1)

op_symlink(d, n) ==
    /\ FreshName(d, n) /\ Mounted
    /\ fs_writeable(fuse)
    /\ \E blocks \in {0, 1} : New(d, n, "symlink", blocks)

\* The count first, then the name; that no block is left for it is not counted.
LinkOpSteps(f, d, n, ino) ==
    LET counted == [f EXCEPT !.links[ino] = @ + 1]
    IN  IF CanLink(counted, d) THEN <<counted>> \o LinkSteps(counted, d, n, ino)
        ELSE <<[counted EXCEPT !.halfway = TRUE]>>

op_link(from, m, d, n) ==
    /\ FreshName(d, n) /\ Mounted
    /\ from \in DirsOf(fuse) /\ m \in UserNames
    /\ fs_writeable(fuse) /\ fs_can_allocate(fuse, 2)
    /\ LET ino == fuse.names[from][m]
       IN  ino # 0 /\ fuse.kind[ino] # "dir" /\ Perform(LinkOpSteps(fuse, d, n, ino))
    /\ UNCHANGED handles
-----------------------------------------------------------------------------
IsOpen(d, n) == \E h \in handles : h.dir = d /\ h.name = n

Present(d, n) == mount.on /\ d \in DirsOf(fuse) /\ fuse.names[d][n] # 0

op_unlink(d, n) ==
    /\ Present(d, n) /\ Mounted /\ n \in UserNames
    /\ fuse.kind[fuse.names[d][n]] # "dir" /\ ~IsOpen(d, n)
    /\ fs_writeable(fuse)
    /\ \E kept \in AttrsKept : Perform(UnlinkSteps(fuse, d, n, kept))
    /\ UNCHANGED handles

op_rmdir(d, n) ==
    /\ Present(d, n) /\ Mounted
    /\ fuse.kind[fuse.names[d][n]] = "dir" /\ Entries(fuse, fuse.names[d][n]) = {}
    /\ fs_writeable(fuse)
    /\ \E kept \in AttrsKept : Perform(RmdirSteps(fuse, d, n, kept))
    /\ UNCHANGED handles

\* TRUE when directory d is ino or below it
Below(f, ino, d) ==
    \E path \in UNION {[1..k -> DirsOf(f)] : k \in 1 .. FuseInodes} :
        /\ path[1] = d /\ path[Len(path)] = ino
        /\ \A k \in 2 .. Len(path) : path[k] = f.dotdot[path[k - 1]]

\* The target is removed first, the new name is made, ".." and the counts of
\* the parents follow, and the old name goes last.
RenameSteps(f, d, n, e, m, kept) ==
    LET ino == f.names[d][n]
        to == f.names[e][m]
        removed == CASE to = 0 -> <<>>
                     [] f.kind[to] = "dir" -> RmdirSteps(f, e, m, kept)
                     [] OTHER -> UnlinkSteps(f, e, m, kept)
        linked == removed \o LinkSteps(After(f, removed), e, m, ino)
        moved == LET s1 == [Last(linked) EXCEPT !.dotdot[ino] = e]
                     s2 == [s1 EXCEPT !.links[d] = @ - 1]
                     s3 == [s2 EXCEPT !.links[e] = @ + 1]
                 IN  IF f.kind[ino] = "dir" THEN linked \o <<s1, s2, s3>> ELSE linked
    IN  moved \o <<unlink_file_by_name(Last(moved), d, n)>>

\* rename_node of libfuse: the handle is known by the new name
Renamed(d, n, e, m) ==
    {IF h.dir = d /\ h.name = n THEN [h EXCEPT !.dir = e, !.name = m] ELSE h : h \in handles}

Rename(d, n, e, m) ==
    LET ino == fuse.names[d][n]
        to == fuse.names[e][m]
    IN  /\ fs_can_allocate(fuse, 5)
        /\ \/ /\ to = ino                           \* "Already the same file?"
              /\ UNCHANGED fuse /\ handles' = Renamed(d, n, e, m)
           \/ /\ to # ino /\ fs_writeable(fuse)
              /\ IF to = 0 THEN CanLink(fuse, e)
                 ELSE fuse.kind[to] = "dir" => Entries(fuse, to) = {}
              /\ \E kept \in AttrsKept :
                    LET steps == RenameSteps(fuse, d, n, e, m, kept)
                    IN  \/ Done(steps) /\ handles' = Renamed(d, n, e, m)
                        \/ Stopped(steps) /\ UNCHANGED handles

op_rename(d, n, e, m) ==
    /\ Present(d, n) /\ Mounted /\ n \in UserNames
    /\ e \in DirsOf(fuse) /\ m \in UserNames /\ <<d, n>> # <<e, m>>
    /\ LET ino == fuse.names[d][n]
           to == fuse.names[e][m]
       IN  /\ fuse.kind[ino] = "dir" => ~Below(fuse, ino, e)
           /\ to # 0 => (fuse.kind[to] = "dir") = (fuse.kind[ino] = "dir")
    /\ ~IsOpen(e, m)
    /\ Rename(d, n, e, m)

\* libfuse: an open file is removed, or another is renamed to its name
hide_node(d, n) ==
    /\ Present(d, n) /\ Mounted /\ n \in UserNames /\ IsOpen(d, n)
    /\ fuse.names[d][HiddenName] = 0
    /\ Rename(d, n, d, HiddenName)
-----------------------------------------------------------------------------
op_open(d, n) ==
    /\ Present(d, n) /\ Mounted /\ n \in UserNames
    /\ fuse.kind[fuse.names[d][n]] = "file" /\ Cardinality(handles) < MostHandles
    /\ Opened(d, n, fuse.names[d][n])
    /\ UNCHANGED fuse

\* A block for the first byte of the file
op_write(h) ==
    LET f == [fuse EXCEPT !.free = @ - 1]
    IN  /\ h \in handles /\ Mounted
        /\ fs_writeable(fuse) /\ fs_can_allocate(fuse, 0) /\ fuse.free > 0
        /\ fuse.blocks[h.ino] = 0
        /\ Perform(<<f, [f EXCEPT !.blocks[h.ino] = 1]>>)
        /\ UNCHANGED handles

\* op_ftruncate, and op_truncate of a name, to no length
op_truncate(h) ==
    LET f == [fuse EXCEPT !.free = @ + fuse.blocks[h.ino]]
    IN  /\ h \in handles /\ Mounted
        /\ fs_writeable(fuse) /\ fuse.blocks[h.ino] > 0
        /\ Perform(<<f, [f EXCEPT !.blocks[h.ino] = 0]>>)
        /\ UNCHANGED handles

\* The last handle of a hidden file takes its name along.
op_release(h) ==
    /\ h \in handles /\ Mounted
    /\ handles' = handles \ {h}
    /\ IF /\ h.name = HiddenName /\ fs_writeable(fuse)
          /\ ~\E o \in handles' : o.dir = h.dir /\ o.name = HiddenName
       THEN \E kept \in AttrsKept : Perform(UnlinkSteps(fuse, h.dir, HiddenName, kept))
       ELSE UNCHANGED fuse

op_destroy ==
    /\ mount.on /\ handles = {}
    /\ mount' = [mount EXCEPT !.on = FALSE,
                              !.state = {"valid"} \cup (IF fuse.errors > 0 THEN {"error"} ELSE {})]
    /\ UNCHANGED <<fuse, handles>>

\* main and op_init
op_init ==
    /\ ~mount.on /\ "error" \notin mount.state
    /\ \E all \in BOOLEAN : mount' = [on |-> TRUE, state |-> {}, all |-> all]
    /\ UNCHANGED <<fuse, handles>>

FuseNext ==
    \/ \E d \in Inos, n \in AllNames :
        \/ op_mknod(d, n) \/ op_create(d, n) \/ op_mkdir(d, n) \/ op_symlink(d, n)
        \/ op_unlink(d, n) \/ op_rmdir(d, n) \/ hide_node(d, n) \/ op_open(d, n)
    \/ \E d, e \in Inos, n, m \in UserNames :
        op_link(d, n, e, m) \/ op_rename(d, n, e, m)
    \/ \E h \in handles : op_write(h) \/ op_truncate(h) \/ op_release(h)
    \/ op_destroy \/ op_init
-----------------------------------------------------------------------------
NamesOf(f, ino) == {p \in DirsOf(f) \X AllNames : f.names[p[1]][p[2]] = ino}

Subdirs(f, d) == {n \in Entries(f, d) : f.kind[f.names[d][n]] = "dir"}

SoundNames(f) ==
    /\ \A d \in DirsOf(f), n \in AllNames : f.names[d][n] \in f.used \cup {0}
    /\ f.used = {i \in Inos : f.links[i] > 0} \ f.leftover

SoundCounts(f) ==
    \A i \in f.used :
        f.links[i] = Cardinality(NamesOf(f, i))
                     + (IF f.kind[i] = "dir" THEN 1 + Cardinality(Subdirs(f, i)) ELSE 0)
                     + (IF i = RootIno THEN 1 ELSE 0)

SoundTree(f) ==
    LET children == DirsOf(f) \ {RootIno}
    IN  /\ \A d \in children : \E n \in AllNames : NamesOf(f, d) = {<<f.dotdot[d], n>>}
        /\ \A S \in SUBSET children : S # {} => \E d \in S : f.dotdot[d] \notin S

SoundBlocks(f) ==
    f.free + MapThenSumSet(LAMBDA i : f.blocks[i], f.used) + OtherBlocks = f.total

\* Whatever sequence of operations has run, and wherever one of them stopped,
\* the names, link counts, directories, bitmaps and block counts of a mounted
\* file system agree unless an error has been counted, and those of a file
\* system that is off the mount and marked valid without error agree: damage is
\* declared (check_inum_access, __translate_error, op_destroy), but for what the
\* errors leave that __translate_error does not count.
SoundOrDeclared ==
    ~fuse.halfway /\ (IF mount.on THEN fuse.errors = 0 ELSE mount.state = {"valid"})
    => /\ SoundNames(fuse) /\ SoundCounts(fuse)
       /\ SoundTree(fuse) /\ SoundBlocks(fuse)

\* An open file keeps its inode, however it is linked, renamed and removed:
\* op_read and op_write go by the inode number in the handle alone.
OpenFilesKept ==
    fuse.errors = 0 /\ ~fuse.halfway =>
        \A h \in handles : /\ h.ino \in fuse.used /\ fuse.kind[h.ino] = "file"
                            /\ fuse.names[h.dir][h.name] = h.ino

\* A mounted file system is sound or says that it is not, and keeps what is open,
\* as long as no call has ended half way with an error that is not counted.
FuseCorrect == SoundOrDeclared /\ OpenFilesKept
=============================================================================
