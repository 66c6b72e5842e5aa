------------------------------- MODULE E2fsck -------------------------------
(***************************************************************************)
(* The passes of e2fsck -f -y over a damaged image (e2fsck/pass1.c,        *)
(* pass1b.c, pass2.c, pass3.c, pass4.c, pass5.c, dirinfo.c, and the calls  *)
(* of them in e2fsck.c and unix.c).                                        *)
(*                                                                         *)
(* An image has inodes with a mode, a link count and one block; the blocks *)
(* hold a directory ("." , ".." and named entries) or the data of a file   *)
(* (tag = the inode whose data it is).  A data block read as a directory   *)
(* has no entry at all.  Up to MaxDamage fields of a sound image change,   *)
(* then e2fsck runs, is perhaps cancelled and started again, and, once it  *)
(* has ended, runs a second time.                                          *)
(***************************************************************************)
EXTENDS Integers, FiniteSets, SequencesExt

CONSTANTS
    Inodes,         \* inode numbers: Root and those from EXT2_FIRST_INODE up
    Blocks,         \* block numbers, 1..n
    Images,         \* the sound images an execution may begin with
    MaxDamage,      \* fields that change before e2fsck runs
    MaxCancels      \* times a run is cancelled

Root == 2
None == 0               \* no inode, no block, no entry
Illegal == 999          \* an inode or block number outside the file system
LostFound == 0          \* the name lost+found; name 1 is any other name,
Names == {LostFound, 1} \cup Inodes         \* and name i stands for "#i"

VARIABLES
    disk,       \* the image
    ctx,        \* the state of e2fsck: struct e2fsck_struct
    round,      \* 0: damage is done; 1: the first run; 2: the second one
    budget,     \* [damage, cancels] left
    owed,       \* regular files that were intact before the first run
    known       \* the known defects this execution has met

vars == <<disk, ctx, round, budget, owed, known>>

\* The k-th smallest member of S.
Nth(S, k) == CHOOSE x \in S : Cardinality({y \in S : y <= x}) = k

Fewest(S) == IF S = {} THEN None ELSE Min(S)

-----------------------------------------------------------------------------
(* The image.                                                              *)

Free == [mode |-> "none", links |-> 0, block |-> None]

NewDir(i, parent) ==
    [dot |-> i, dotdot |-> parent, ents |-> [n \in Names |-> None], tag |-> None]

Legal(i) == i \in Inodes

HasBlocks(ino) == ino.mode \in {"dir", "reg"}

Lookup(d, dir, name) ==
    IF d.inode[dir].mode = "dir" /\ d.inode[dir].block \in Blocks
    THEN d.data[d.inode[dir].block].ents[name] ELSE None

Live(d) == {i \in Inodes : i \notin d.hidden /\ d.inode[i].links > 0}

Claimed(d) == {d.inode[i].block : i \in {j \in Live(d) : HasBlocks(d.inode[j])}} \ {None}

Dirs(d) == {i \in Live(d) : d.inode[i].mode = "dir"}

Content(d, i) == d.data[d.inode[i].block]

\* The entries <<directory, name>> that name inode i.
EntriesOf(d, i) ==
    {e \in Dirs(d) \X Names :
        d.inode[e[1]].block \in Blocks /\ Content(d, e[1]).ents[e[2]] = i}

-----------------------------------------------------------------------------
(* The context.  f is a record of the image and the context: an operator   *)
(* of e2fsck takes one and returns another.                                *)

Context0 ==
    [pass |-> "1", todo |-> Inodes,
     used |-> {}, dirs |-> {}, bad |-> {}, found |-> {}, dup |-> {},
     claims |-> [b \in Blocks |-> {}],
     links |-> [i \in Inodes |-> 0], count |-> [i \in Inodes |-> 0],
     info |-> {}, parent |-> [i \in Inodes |-> None], dotdot |-> [i \in Inodes |-> None],
     iter |-> 0, done |-> {}, lnf |-> None, badLnf |-> FALSE,
     lnfBlock |-> None, rootBlock |-> None,
     later |-> FALSE, ok |-> TRUE, fixed |-> FALSE]

Start(d) == [Context0 EXCEPT !.found = d.meta]

F == [disk |-> disk, ctx |-> ctx]

Becomes(f) == disk' = f.disk /\ ctx' = f.ctx

Fix(f) == [f EXCEPT !.ctx.fixed = TRUE]

NewBlock(c) == Fewest(Blocks \ c.found)

e2fsck_clear_inode(f, i) ==
    [f EXCEPT !.disk.inode[i] = Free, !.ctx.fixed = TRUE,
        !.ctx.used = @ \ {i}, !.ctx.dirs = @ \ {i}, !.ctx.bad = @ \ {i},
        !.ctx.links[i] = 0]

-----------------------------------------------------------------------------
(* Pass 1: the inodes, in order.                                           *)

mark_block_used(c, i, b) ==
    [c EXCEPT !.claims[b] = @ \cup {i},
        !.dup = IF b \in c.found THEN @ \cup {b} ELSE @,
        !.found = @ \cup {b}]

\* A mode that is none of the known ones, over a block whose first two
\* entries are "." for this inode and "..": the inode is a directory.
check_is_really_dir(f, i) ==
    LET ino == f.disk.inode[i]
    IN  IF ~HasBlocks(ino) /\ ino.block \in Blocks \ f.ctx.found
           /\ f.disk.data[ino.block].dot = i
        THEN Fix([f EXCEPT !.disk.inode[i].mode = "dir"])
        ELSE f

\* The block of the inode is claimed, or forgotten when it is not a block of
\* the file system; a directory left without blocks is cleared.
check_blocks(f, i) ==
    LET b == f.disk.inode[i].block
        g == IF b = Illegal THEN Fix([f EXCEPT !.disk.inode[i].block = None]) ELSE f
    IN  IF ~HasBlocks(f.disk.inode[i]) THEN f
        ELSE IF b \in Blocks THEN [f EXCEPT !.ctx = mark_block_used(@, i, b)]
        ELSE IF f.disk.inode[i].mode = "dir" THEN e2fsck_clear_inode(g, i)
        ELSE g

Registered(f, i) ==
    LET mode == f.disk.inode[i].mode
    IN  [f EXCEPT !.ctx.used = @ \cup {i}, !.ctx.links[i] = f.disk.inode[i].links,
            !.ctx.dirs = IF mode = "dir" THEN @ \cup {i} ELSE @,
            !.ctx.info = IF mode = "dir" THEN @ \cup {i} ELSE @,
            !.ctx.bad = IF ~HasBlocks(f.disk.inode[i]) THEN @ \cup {i} ELSE @]

Pass1Checked(f, i) ==
    LET ino == f.disk.inode[i]
    IN  IF i \in f.disk.hidden THEN f
        ELSE IF ino.links = 0 /\ i # Root
        THEN IF ino.mode # "none" THEN Fix([f EXCEPT !.disk.inode[i] = Free]) ELSE f
        ELSE IF i = Root /\ ino.mode # "dir" THEN e2fsck_clear_inode(f, i)
        ELSE LET g == check_is_really_dir(f, i) IN check_blocks(Registered(g, i), i)

Pass1Inode ==
    /\ ctx.pass = "1" /\ ctx.todo # {}
    /\ LET i == Min(ctx.todo)
       IN  Becomes(Pass1Checked([F EXCEPT !.ctx.todo = @ \ {i}], i))
    /\ UNCHANGED <<round, budget, owed, known>>

\* Blocks are set aside for a root directory and a lost+found that will have
\* to be made, before anything else may take them.
reserve_block_for_root_repair(f) ==
    LET b == NewBlock(f.ctx)
    IN  IF Root \in f.ctx.used \/ b = None THEN f
        ELSE [f EXCEPT !.ctx.rootBlock = b, !.ctx.found = @ \cup {b}]

reserve_block_for_lnf_repair(f) ==
    LET b == NewBlock(f.ctx)
    IN  IF Lookup(f.disk, Root, LostFound) # None \/ b = None THEN f
        ELSE [f EXCEPT !.ctx.lnfBlock = b, !.ctx.found = @ \cup {b}]

Pass2Begins(f) ==
    [f EXCEPT !.ctx.pass = "2", !.ctx.todo = f.ctx.dirs,
        !.ctx.parent[Root] = IF Root \in f.ctx.info THEN Root ELSE None]

Pass1Ends ==
    /\ ctx.pass = "1" /\ ctx.todo = {}
    /\ LET f == reserve_block_for_lnf_repair(reserve_block_for_root_repair(F))
       IN  Becomes(IF f.ctx.dup = {} THEN Pass2Begins(f)
                   ELSE [f EXCEPT !.ctx.pass = "1d",
                            !.ctx.todo = {i \in f.ctx.used :
                                HasBlocks(f.disk.inode[i]) /\ f.disk.inode[i].block \in f.ctx.dup}])
    /\ UNCHANGED <<round, budget, owed, known>>

-----------------------------------------------------------------------------
(* Pass 1B to 1D: blocks claimed more than once are cloned for the first   *)
(* inodes that claim them; a file that cannot be cloned is deleted.        *)

decrement_badcount(f, i, b) ==
    LET left == f.ctx.claims[b] \ {i}
    IN  [f EXCEPT !.ctx.claims[b] = left,
            !.ctx.dup = IF Cardinality(left) <= 1 /\ b \notin f.disk.meta THEN @ \ {b} ELSE @]

clone_file_NoCopy(f, i, new) ==
    LET b == f.disk.inode[i].block
        g == [f EXCEPT !.disk.inode[i].block = new, !.ctx.found = @ \cup {new}]
    IN  IF b \in f.disk.meta THEN g ELSE decrement_badcount(g, i, b)

clone_file(f, i, new) ==
    LET b == f.disk.inode[i].block
        g == [f EXCEPT !.disk.data[new] = f.disk.data[b], !.disk.inode[i].block = new,
                       !.ctx.found = @ \cup {new}]
    IN  IF b \in f.disk.meta THEN g ELSE decrement_badcount(g, i, b)

delete_file(f, i) ==
    LET b == f.disk.inode[i].block
    IN  e2fsck_clear_inode(
            IF b \in f.ctx.dup THEN decrement_badcount(f, i, b)
            ELSE [f EXCEPT !.ctx.found = @ \ {b}], i)

Pass1dFile(f, i) ==
    LET b == f.disk.inode[i].block
        dealt == Cardinality(f.ctx.claims[b]) <= 1 /\ b \notin f.disk.meta
        new == NewBlock(f.ctx)
    IN  IF dealt THEN f
        ELSE Fix(IF new # None THEN clone_file(f, i, new) ELSE delete_file(f, i))

Pass1dInode ==
    /\ ctx.pass = "1d" /\ ctx.todo # {}
    /\ LET i == Min(ctx.todo)
       IN  /\ Becomes(Pass1dFile([F EXCEPT !.ctx.todo = @ \ {i}], i))
           /\ owed' = IF NewBlock(ctx) = None THEN owed \ {i} ELSE owed
    /\ UNCHANGED <<round, budget, known>>

Pass1dEnds ==
    /\ ctx.pass = "1d" /\ ctx.todo = {}
    /\ Becomes(Pass2Begins(F))
    /\ UNCHANGED <<round, budget, owed, known>>

-----------------------------------------------------------------------------
(* Pass 2: the directory blocks, in the order of their block numbers.      *)

Clear(f, b, n) == Fix([f EXCEPT !.disk.data[b].ents[n] = None])

\* An inode of no known mode is cleared when it is first met; it owned no block.
e2fsck_process_bad_inode(f, i) ==
    IF ~HasBlocks(f.disk.inode[i]) THEN e2fsck_clear_inode(f, i) ELSE f

\* An inode that pass 1 did not see because the group says it was never used:
\* the group is told otherwise, and the passes begin again after this one.
Seen(f, v) ==
    IF v \in f.disk.hidden
    THEN Fix([f EXCEPT !.disk.hidden = {}, !.ctx.later = TRUE]) ELSE f

\* What every entry goes through: does it stay, and with which context?
CheckedInode(f, v) ==
    LET g == Seen(IF v \in f.ctx.bad THEN e2fsck_process_bad_inode(f, v) ELSE f, v)
    IN  [f |-> g, stays |-> v \notin f.ctx.bad /\ (v \in g.ctx.used \/ g.ctx.later)]

Counted(f, v) == [f EXCEPT !.ctx.count[v] = @ + 1]

check_dot(f, d, b) ==
    LET g == IF f.disk.data[b].dot = d THEN f ELSE Fix([f EXCEPT !.disk.data[b].dot = d])
    IN  Counted(g, d)

check_dotdot(f, d, b) ==
    LET v == f.disk.data[b].dotdot
        missing == Fix([f EXCEPT !.disk.data[b].dotdot = Root])
        g == IF v = None THEN missing ELSE [f EXCEPT !.ctx.dotdot[d] = v]
        w == IF v = None THEN Root ELSE v
        r == CheckedInode(g, w)
        cleared(h) == Fix([h EXCEPT !.disk.data[b].dotdot = None])
    IN  IF ~Legal(w) THEN cleared(g)
        ELSE IF r.stays THEN Counted(r.f, w) ELSE cleared(r.f)

\* A directory has one parent: the first entry that names it.
check_entry(f, d, b, n) ==
    LET v == f.disk.data[b].ents[n]
        r == CheckedInode(f, v)
    IN  IF v = None THEN f
        ELSE IF v = d \/ ~Legal(v) \/ v = Root THEN Clear(f, b, n)
        ELSE IF ~r.stays THEN Clear(r.f, b, n)
        ELSE IF v \notin r.f.ctx.dirs THEN Counted(r.f, v)
        ELSE IF r.f.ctx.parent[v] # None THEN Clear(r.f, b, n)
        ELSE Counted([r.f EXCEPT !.ctx.parent[v] = d], v)

NameSeq == [k \in 1..Cardinality(Names) |-> Nth(Names, k)]

check_dir_block(f, d) ==
    LET b == f.disk.inode[d].block
        g == check_dotdot([check_dot(f, d, b) EXCEPT !.disk.data[b].tag = None], d, b)
    IN  FoldLeft(LAMBDA h, n : check_entry(h, d, b, n), g, NameSeq)

Pass2Block ==
    /\ ctx.pass = "2" /\ ctx.todo # {}
    /\ LET d == CHOOSE e \in ctx.todo :
                    \A o \in ctx.todo : disk.inode[e].block <= disk.inode[o].block
       IN  Becomes(check_dir_block([F EXCEPT !.ctx.todo = @ \ {d}], d))
    /\ UNCHANGED <<round, budget, owed, known>>

\* E2F_FLAG_RESTART_LATER: main throws the context away and begins again.
Pass2Ends ==
    /\ ctx.pass = "2" /\ ctx.todo = {}
    /\ Becomes(IF ctx.later THEN [F EXCEPT !.ctx = [Start(disk) EXCEPT !.fixed = TRUE]]
               ELSE [F EXCEPT !.ctx.pass = "3"])
    /\ known' = IF ~ctx.later THEN known
                ELSE known \cup (IF "restarted" \in known THEN {"again"} ELSE {"restarted"})
    /\ UNCHANGED <<round, budget, owed>>

-----------------------------------------------------------------------------
(* Pass 3: every directory hangs on the root.                              *)

e2fsck_adjust_inode_count(f, i, adj) ==
    LET n == f.disk.inode[i].links
        g == [f EXCEPT !.ctx.count[i] = IF @ + adj < 0 THEN 0 ELSE @ + adj]
    IN  IF i = None THEN f
        ELSE IF adj = -1 /\ n = 0 THEN g
        ELSE [g EXCEPT !.ctx.links[i] = IF @ + adj < 0 THEN 0 ELSE @ + adj,
                       !.disk.inode[i].links = n + adj]

e2fsck_add_dir_info(f, i, parent) ==
    [f EXCEPT !.ctx.info = @ \cup {i}, !.ctx.parent[i] = parent, !.ctx.dotdot[i] = parent]

\* A new directory: inode, block and what e2fsck knows of it.
MadeDir(f, i, parent, b) ==
    e2fsck_add_dir_info(
        [f EXCEPT !.disk.inode[i] = [mode |-> "dir", links |-> 2, block |-> b],
            !.disk.data[b] = NewDir(i, parent),
            !.disk.hidden = {h \in @ : h > i},
            !.ctx.found = @ \cup {b}, !.ctx.used = @ \cup {i}, !.ctx.dirs = @ \cup {i},
            !.ctx.count[i] = 2, !.ctx.links[i] = 2, !.ctx.fixed = TRUE], i, parent)

check_root(f) ==
    LET b == IF f.ctx.rootBlock # None THEN f.ctx.rootBlock ELSE NewBlock(f.ctx)
    IN  IF Root \in f.ctx.used THEN f
        ELSE IF b = None THEN [f EXCEPT !.ctx.pass = "aborted"]
        ELSE MadeDir([f EXCEPT !.ctx.rootBlock = None], Root, Root, b)

Pass3Root ==
    /\ ctx.pass = "3"
    /\ LET f == check_root(F)
       IN  Becomes(IF f.ctx.pass = "aborted" THEN f
                   ELSE [f EXCEPT !.ctx.pass = "3d", !.ctx.iter = 1, !.ctx.done = {Root}])
    /\ UNCHANGED <<round, budget, owed, known>>

\* A lost+found that is not a directory is unlinked.
UnlinkLostFound(f, i) ==
    e2fsck_adjust_inode_count(
        Fix([f EXCEPT !.disk.data[f.disk.inode[Root].block].ents[LostFound] = None,
                      !.ctx.parent[i] = None]), i, -1)

CreateLostFound_Uncounted(f) ==
    LET b == IF f.ctx.lnfBlock # None THEN f.ctx.lnfBlock ELSE NewBlock(f.ctx)
        i == Fewest(Inodes \ (f.ctx.used \cup {Root}))
        g == MadeDir([f EXCEPT !.ctx.lnfBlock = None], i, Root, b)
    IN  IF b = None THEN Fix([f EXCEPT !.ctx.lnf = Root])
        ELSE IF i = None THEN Fix([f EXCEPT !.ctx.lnf = Root, !.ctx.lnfBlock = None,
                                            !.ctx.found = @ \cup {b}])
        ELSE [g EXCEPT !.disk.data[f.disk.inode[Root].block].ents[LostFound] = i,
                       !.ctx.lnf = i]

CreateLostFound(f) ==
    LET b == IF f.ctx.lnfBlock # None THEN f.ctx.lnfBlock ELSE NewBlock(f.ctx)
        i == Fewest(Inodes \ (f.ctx.used \cup {Root}))
        g == MadeDir([f EXCEPT !.ctx.lnfBlock = None], i, Root, b)
        h == [g EXCEPT !.disk.data[f.disk.inode[Root].block].ents[LostFound] = i,
                       !.ctx.lnf = i]
    IN  IF b = None THEN Fix([f EXCEPT !.ctx.lnf = Root])
        ELSE IF i = None THEN Fix([f EXCEPT !.ctx.lnf = Root, !.ctx.lnfBlock = None,
                                            !.ctx.found = @ \cup {b}])
        ELSE e2fsck_adjust_inode_count(h, Root, 1)

e2fsck_get_lost_and_found(f) ==
    LET i == Lookup(f.disk, Root, LostFound)
    IN  IF f.ctx.lnf # None THEN f
        ELSE IF i = None THEN CreateLostFound(f)
        ELSE IF f.disk.inode[i].mode = "dir" THEN [f EXCEPT !.ctx.lnf = i]
        ELSE CreateLostFound(UnlinkLostFound(f, i))

\* lost+found could not be made: ctx->lost_and_found is the root, and the
\* function returned 0.
Failed(f, g) == f.ctx.lnf = None /\ g.ctx.lnf = Root

e2fsck_reconnect_file(f, i) ==
    LET g == IF f.ctx.badLnf THEN f ELSE e2fsck_get_lost_and_found(f)
        b == g.disk.inode[g.ctx.lnf].block
    IN  IF f.ctx.badLnf \/ Failed(f, g)
        THEN Fix([g EXCEPT !.ctx.badLnf = TRUE, !.ctx.ok = FALSE])
        ELSE e2fsck_adjust_inode_count(Fix([g EXCEPT !.disk.data[b].ents[i] = i]), i, 1)

fix_dotdot_OldParentKeeps(f, d, parent) ==
    LET b == f.disk.inode[d].block
        g == e2fsck_adjust_inode_count(f, parent, 1)
    IN  Fix([g EXCEPT !.disk.data[b].dotdot = parent,
                      !.ctx.dotdot[d] = parent, !.ctx.parent[d] = f.ctx.lnf])

fix_dotdot(f, d, parent) ==
    LET b == f.disk.inode[d].block
        g == e2fsck_adjust_inode_count(
                 e2fsck_adjust_inode_count(f, f.disk.data[b].dotdot, -1), parent, 1)
    IN  Fix([g EXCEPT !.disk.data[b].dotdot = parent,
                      !.ctx.dotdot[d] = parent, !.ctx.parent[d] = f.ctx.lnf])

\* Up the parents until one that is done, or one that has no parent.
RECURSIVE Climb(_, _)
Climb(c, i) ==
    IF i \in c.done THEN [done |-> c.done, lost |-> None]
    ELSE LET d == [c EXCEPT !.done = @ \cup {i}]
         IN  IF c.parent[i] = None THEN [done |-> d.done, lost |-> i]
             ELSE Climb(d, c.parent[i])

check_directory(f, d) ==
    LET up == Climb(f.ctx, d)
        g == [f EXCEPT !.ctx.done = up.done]
        h == IF up.lost = None THEN g
             ELSE LET r == e2fsck_reconnect_file(g, up.lost)
                  IN  IF r.ctx.badLnf THEN r ELSE fix_dotdot(r, up.lost, r.ctx.lnf)
    IN  IF h.ctx.dotdot[d] = h.ctx.parent[d] THEN h
        ELSE fix_dotdot(h, d, h.ctx.parent[d])

\* The array of dir_info is sorted by inode number and walked by index: an
\* inode inserted before the current one makes the walk meet that one again.
DirAt(c) == Nth(c.info, c.iter)

\* What goes wrong in a step of pass 3 from F to f: a directory is visited
\* twice; a block is taken for a lost+found that gets no inode; there is no
\* lost+found to connect anything to.
Defects(f) ==
    {k \in {"visited again", "no inode", "no room"} :
        \/ k = "visited again" /\ ctx.iter <= Cardinality(ctx.info)
           /\ \E i \in f.ctx.info \ ctx.info : i < DirAt(ctx)
        \/ k = "no inode" /\ Failed(F, f) /\ Inodes \subseteq f.ctx.used
        \/ k = "no room" /\ f.ctx.badLnf}

Pass3Directory ==
    /\ ctx.pass = "3d" /\ ctx.iter <= Cardinality(ctx.info)
    /\ LET d == DirAt(ctx)
           f == IF d \in ctx.dirs THEN check_directory(F, d) ELSE F
       IN  /\ Becomes([f EXCEPT !.ctx.iter = @ + 1])
           /\ known' = known \cup Defects(f)
    /\ UNCHANGED <<round, budget, owed>>

\* lost+found is made in any case, and the reserved blocks are given back.
Pass3Ends ==
    /\ ctx.pass = "3d" /\ ctx.iter > Cardinality(ctx.info)
    /\ LET f == e2fsck_get_lost_and_found(F)
       IN  /\ Becomes([f EXCEPT !.ctx.pass = "4", !.ctx.todo = Inodes,
                   !.ctx.found = @ \ {f.ctx.lnfBlock, f.ctx.rootBlock}])
           /\ known' = known \cup Defects(f)
    /\ UNCHANGED <<round, budget, owed>>

-----------------------------------------------------------------------------
(* Pass 4: the link counts, and files no directory names.                  *)

disconnect_inode(f, i) ==
    IF f.disk.inode[i].block = None THEN e2fsck_clear_inode(f, i)
    ELSE e2fsck_reconnect_file(f, i)

Pass4Counted(f, i) ==
    IF f.ctx.count[i] = f.ctx.links[i] THEN f
    ELSE Fix([f EXCEPT !.disk.inode[i].links = f.ctx.count[i]])

Pass4Checked(f, i) ==
    IF i \notin f.ctx.used THEN f
    ELSE IF f.ctx.count[i] # 0 THEN Pass4Counted(f, i)
    ELSE LET g == e2fsck_process_bad_inode(f, i)
         IN  IF i \notin g.ctx.used THEN g ELSE Pass4Counted(disconnect_inode(g, i), i)

Pass4Inode ==
    /\ ctx.pass = "4" /\ ctx.todo # {}
    /\ LET i == Min(ctx.todo)
       IN  Becomes(Pass4Checked([F EXCEPT !.ctx.todo = @ \ {i}], i))
    /\ UNCHANGED <<round, budget, owed, known>>

-----------------------------------------------------------------------------
(* Pass 5: the bitmaps and the counts; then main writes the superblock.    *)

check_bitmaps(f) ==
    LET free == Cardinality(Blocks \ f.ctx.found)
        g == IF f.disk.bmap = f.ctx.found /\ f.disk.imap = f.ctx.used /\ f.disk.free = free
             THEN f ELSE Fix(f)
    IN  [g EXCEPT !.disk.bmap = f.ctx.found, !.disk.imap = f.ctx.used, !.disk.free = free]

Pass5 ==
    /\ ctx.pass = "4" /\ ctx.todo = {}
    /\ LET f == check_bitmaps(F)
       IN  Becomes([f EXCEPT !.disk.valid = f.ctx.ok, !.ctx.pass = "ended"])
    /\ UNCHANGED <<round, budget, owed, known>>

-----------------------------------------------------------------------------
(* Around e2fsck: the damage, a cancelled run, a second run.               *)

\* Directories (or what may be taken for them) each of which is named by
\* another: no walk up their parents ends.
Loop(d) ==
    \E S \in SUBSET {i \in Live(d) \cup d.hidden :
                        d.inode[i].mode # "reg" /\ d.inode[i].block \in Blocks} :
        /\ S # {}
        /\ \A i \in S : \E j \in S, n \in Names : Content(d, j).ents[n] = i

\* A regular file in whose block its data still is.
Intact(d, i) ==
    /\ d.inode[i].mode = "reg" /\ d.inode[i].links > 0
    /\ d.inode[i].block \in Blocks
    /\ Content(d, i).tag = i

\* A file that a ".." or the name lost+found of the root names: pass 3 takes
\* that link from its inode, and pass 4 puts the right count there.
TakenForDir(d, i) ==
    \/ Lookup(d, Root, LostFound) = i
    \/ \E b \in Blocks : d.data[b].dotdot = i

\* What one damaged field may become.
Damaged(d) ==
    {[d EXCEPT !.inode[i].mode = m] : i \in Inodes, m \in {"dir", "reg", "bad"}}
    \cup {[d EXCEPT !.inode[i].links = n] : i \in Inodes, n \in 0..2}
    \cup {[d EXCEPT !.inode[i].block = b] : i \in Inodes, b \in Blocks \cup {None, Illegal}}
    \cup {[d EXCEPT !.data[b].dot = i] : b \in Claimed(d) \cap Blocks, i \in {None} \cup Inodes}
    \cup {[d EXCEPT !.data[b].dotdot = i] :
            b \in Claimed(d) \cap Blocks, i \in {None, Illegal} \cup Inodes}
    \cup {[d EXCEPT !.data[b].ents[n] = i] :
            b \in Claimed(d) \cap Blocks, n \in {LostFound, 1}, i \in {None, Illegal} \cup Inodes}
    \cup {[d EXCEPT !.bmap = (@ \cup {b}) \ (@ \cap {b})] : b \in Blocks}
    \cup {[d EXCEPT !.imap = (@ \cup {i}) \ (@ \cap {i})] : i \in Inodes}
    \cup {[d EXCEPT !.free = 0]}
    \cup {[d EXCEPT !.hidden = {i \in Inodes : i >= k}] : k \in Inodes \ {Root}}

Init ==
    /\ disk \in Images
    /\ ctx = [Start(disk) EXCEPT !.pass = "none"]
    /\ round = 0
    /\ budget = [damage |-> MaxDamage, cancels |-> MaxCancels]
    /\ owed = {} /\ known = {}

Damage ==
    /\ round = 0 /\ budget.damage > 0
    /\ disk' \in Damaged(disk) \ {disk}
    /\ budget' = [budget EXCEPT !.damage = @ - 1]
    /\ UNCHANGED <<ctx, round, owed, known>>

e2fsck ==
    /\ round = 0
    /\ round' = 1
    /\ ctx' = Start(disk)
    /\ budget' = [budget EXCEPT !.damage = 0]
    /\ owed' = {i \in Inodes \ disk.hidden : Intact(disk, i)}
    /\ known' = (IF Loop(disk) THEN {"loop"} ELSE {})
                \cup (IF \E i \in Inodes : disk.inode[i].mode = "reg" /\ TakenForDir(disk, i)
                      THEN {"taken for a directory"} ELSE {})
    /\ UNCHANGED disk

\* The user cancels between two steps and starts e2fsck again.
Cancel ==
    /\ round = 1 /\ budget.cancels > 0 /\ ctx.pass \notin {"ended", "aborted"}
    /\ budget' = [budget EXCEPT !.cancels = @ - 1]
    /\ ctx' = Start(disk)
    /\ known' = known \ {"restarted"}
    /\ UNCHANGED <<disk, round, owed>>

Again ==
    /\ round = 1 /\ ctx.pass = "ended" /\ disk.valid
    /\ round' = 2
    /\ ctx' = Start(disk)
    /\ known' = (known \ {"restarted"})
            \cup (IF Lookup(disk, Root, LostFound) = None THEN {"no lost+found"} ELSE {})
    /\ UNCHANGED <<disk, budget, owed>>

Step ==
    \/ Pass1Inode \/ Pass1Ends \/ Pass1dInode \/ Pass1dEnds
    \/ Pass2Block \/ Pass2Ends
    \/ Pass3Root \/ Pass3Directory \/ Pass3Ends
    \/ Pass4Inode \/ Pass5

Next == Damage \/ e2fsck \/ Step \/ Cancel \/ Again

Spec == Init /\ [][Next]_vars

-----------------------------------------------------------------------------
(* Properties.                                                             *)

\* Every inode in use has the links it counts, every directory its "." and "..",
\* no block has two owners, and the bitmaps agree.
Consistent(d) ==
    /\ Root \in Dirs(d)
    /\ \A i \in Live(d) :
        /\ HasBlocks(d.inode[i])
        /\ i \in Dirs(d) => d.inode[i].block \in Blocks
        /\ d.inode[i].block \in (Blocks \ d.meta) \cup {None}
        /\ \A j \in Live(d) \ {i} :
                d.inode[j].block = d.inode[i].block => d.inode[i].block = None
        /\ d.inode[i].links = Cardinality(EntriesOf(d, i))
                + Cardinality({j \in Dirs(d) : Content(d, j).dot = i})
                + Cardinality({j \in Dirs(d) : Content(d, j).dotdot = i})
    /\ \A i \in Dirs(d) :
        /\ Content(d, i).dot = i
        /\ i = Root => Content(d, i).dotdot = Root /\ EntriesOf(d, i) = {}
        /\ i # Root => \E e \in EntriesOf(d, i) :
                            EntriesOf(d, i) = {e} /\ Content(d, i).dotdot = e[1]
        /\ \A n \in Names : Content(d, i).ents[n] \in Live(d) \cup {None}
    /\ d.bmap = d.meta \cup Claimed(d)
    /\ d.imap = Live(d)
    /\ d.free = Cardinality(Blocks \ d.bmap)

\* A file system that e2fsck marks clean is consistent, whatever was damaged
\* and wherever earlier runs were cancelled.
CleanMeansConsistent ==
    ctx.pass = "ended" /\ disk.valid /\ known \cap {"visited again", "no inode"} = {}
        => Consistent(disk)

\* After e2fsck every directory is connected to the tree, directly or in
\* lost+found (the comment over check_directory), for images in which no
\* directory contains itself.
ConnectedWithoutLoops ==
    ctx.pass = "ended" /\ disk.valid /\ "loop" \notin known =>
        \A S \in (SUBSET (Dirs(disk) \ {Root})) \ {{}} :
            \E i \in S : \E e \in EntriesOf(disk, i) : e[1] \notin S

\* What e2fsck calls clean is consistent and connected.
CleanMeansSound == CleanMeansConsistent /\ ConnectedWithoutLoops

\* A second run has nothing to do (except to try to make lost+found again,
\* when the first one found no room for it).
SecondRunFindsNothing ==
    round = 2 /\ known \cap {"visited again", "no lost+found"} = {} => ~ctx.fixed

\* The inodes that e2fsck finds too late, in pass 2, make it begin again once,
\* and the group has then been told of them.
RestartsOnce == "again" \notin known

\* e2fsck comes to an end, and to one that a second run confirms.
RunsSettle == SecondRunFindsNothing /\ RestartsOnce

\* A file whose inode and data survived the damage keeps them at every moment
\* of a run, so that a cancelled one loses nothing either (pass 4: "if we don't
\* attach the inode ... there's no point in trying to force i_links_count to
\* zero").  A file taken for a directory is left out: it is without links from
\* pass 3 to pass 4.
FilesKept == "taken for a directory" \notin known => \A i \in owed : Intact(disk, i)

\* The same while there is room for a lost+found; and at the end of a run some
\* directory names the file, also one that was taken for a directory, if the
\* run was not cancelled.
FilesSurvive ==
    "no room" \notin known =>
        /\ FilesKept
        /\ ctx.pass = "ended" /\ disk.valid
           /\ ("taken for a directory" \in known => budget.cancels = MaxCancels)
                => \A i \in owed : Intact(disk, i) /\ EntriesOf(disk, i) # {}

=============================================================================
