----------------------------- MODULE FastCommit -----------------------------
(***************************************************************************)
(* The replay of fast commits (fc_do_one_pass in e2fsck/recovery.c, and    *)
(* ext4_fc_replay in e2fsck/journal.c): names and inodes changed since the *)
(* last full commit, written as tags into an area of its own behind the    *)
(* log.  The kernel that writes them is external: it begins an area with a *)
(* head, ends every fast commit with a tail at the end of a block, and     *)
(* begins again at the first block after a full commit, over what older    *)
(* fast commits left there.  A crash leaves any of the blocks of the fast  *)
(* commit under way.  A checksum is the sequence of tags it covers.        *)
(***************************************************************************)
EXTENDS Integers, SequencesExt, FiniteSetsExt

CONSTANTS
    FcNames,        \* names in a directory
    FcInodes,       \* inode numbers
    Symlinks,       \* those that are symbolic links
    TagsPerBlock,   \* tags of a block, without the padding at its end
    AreaBlocks,     \* blocks the kernel may write; the scan looks one block further
    KeepsOneFree,   \* whether the kernel leaves one of them unused
    MostOps, MostTids   \* bounds on an execution

ASSUME FastCommitAssumption ==
    /\ FcInodes \subseteq Nat \ {0} /\ Symlinks \subseteq FcInodes
    /\ TagsPerBlock \in Nat \ {0} /\ AreaBlocks \in Nat
    /\ KeepsOneFree \in BOOLEAN

VARIABLES
    fcKernel,   \* the running kernel: [mem, tid, ops, off, left]
    home,       \* names and inodes on the device
    log,        \* the last full commit and whether the log still holds it
    area,       \* the blocks of the fast commit area
    errorFs,    \* EXT2_ERROR_FS in the superblock on the device
    mayBe,      \* what recovery may arrive at
    replay      \* e2fsck: its phase and struct e2fsck_fc_replay_state

fcVars == <<fcKernel, home, log, area, errorFs, mayBe, replay>>

NoInode == -1       \* i_mode is 0

-----------------------------------------------------------------------------
(* Tags.                                                                   *)

HeadTag(tid) == [tag |-> "head", tid |-> tid]
AddTag(name, ino) == [tag |-> "add", name |-> name, ino |-> ino]
UnlinkTag(name, ino) == [tag |-> "unlink", name |-> name, ino |-> ino]
InodeTag(ino, links) == [tag |-> "inode", ino |-> ino, links |-> links]
TailTag(tid, crc) == [tag |-> "tail", tid |-> tid, crc |-> crc]
PadTag == [tag |-> "pad"]
NoTag == [tag |-> "none"]
Unwritten == <<NoTag>>

\* The tags of the operations ops, whose outcome is fs.
TagsOf(ops, fs) ==
    LET Named(i) ==
            CASE ops[i].op = "create" -> <<InodeTag(ops[i].ino, fs.links[ops[i].ino]),
                                           AddTag(ops[i].name, ops[i].ino)>>
              [] ops[i].op = "link" -> <<AddTag(ops[i].name, ops[i].ino)>>
              [] ops[i].op = "unlink" -> <<UnlinkTag(ops[i].name, ops[i].ino)>>
        touched == SetToSeq({ops[i].ino : i \in DOMAIN ops})
    IN  FlattenSeq([i \in DOMAIN ops |-> Named(i)])
            \o [i \in DOMAIN touched |-> InodeTag(touched[i], fs.links[touched[i]])]

\* A fast commit as blocks: full ones are padded, the tail fills the last one.
AreaBlocksOf(k) ==
    LET body == (IF k.off = 0 THEN <<HeadTag(k.tid)>> ELSE <<>>) \o TagsOf(k.ops, k.mem)
        n == Len(body) \div TagsPerBlock
        full == [b \in 1..n |->
                    SubSeq(body, (b - 1) * TagsPerBlock + 1, b * TagsPerBlock) \o <<PadTag>>]
        rest == SubSeq(body, n * TagsPerBlock + 1, Len(body))
    IN  Append(full, Append(rest, TailTag(k.tid, FlattenSeq(full) \o rest)))

-----------------------------------------------------------------------------
(* The kernel.                                                             *)

NothingYet == [names |-> [n \in FcNames |-> 0], links |-> [i \in FcInodes |-> NoInode]]

NoReplay ==
    [phase |-> "none", off |-> 0, at |-> 1, num |-> 0, cur |-> 0, crc |-> <<>>,
     pass |-> "none", super |-> FALSE]

FcInit ==
    /\ fcKernel = [mem |-> NothingYet, tid |-> 1, ops |-> <<>>, off |-> 0, left |-> MostOps]
    /\ home = NothingYet
    /\ log = [full |-> NothingYet, held |-> FALSE]
    /\ area = [b \in 0 .. AreaBlocks - 1 |-> Unwritten]
    /\ errorFs = FALSE
    /\ mayBe = {NothingYet}
    /\ replay = NoReplay

Running == replay.phase = "none"

Change(op, name, ino, linksNow) ==
    /\ Running /\ fcKernel.left > 0
    /\ fcKernel' = [fcKernel EXCEPT
            !.mem.names[name] = IF op = "unlink" THEN 0 ELSE ino,
            !.mem.links[ino] = linksNow,
            !.ops = Append(@, [op |-> op, name |-> name, ino |-> ino]),
            !.left = @ - 1]
    /\ UNCHANGED <<home, log, area, errorFs, mayBe, replay>>

KernelChanges ==
    \E name \in FcNames, ino \in FcInodes :
        LET links == fcKernel.mem.links[ino]
            holds == fcKernel.mem.names[name]
        IN  \/ holds = 0 /\ links < 1 /\ Change("create", name, ino, 1)
            \/ holds = 0 /\ links > 0 /\ Change("link", name, ino, links + 1)
            \/ holds = ino /\ Change("unlink", name, ino, links - 1)

Written(blocks, which) ==
    [b \in 0 .. AreaBlocks - 1 |->
        IF b - fcKernel.off + 1 \in which THEN blocks[b - fcKernel.off + 1] ELSE area[b]]

Fits(blocks) ==
    fcKernel.off + Len(blocks) <= AreaBlocks - (IF KeepsOneFree THEN 1 ELSE 0)

KernelFastCommit ==
    LET blocks == AreaBlocksOf(fcKernel)
    IN  /\ Running /\ fcKernel.ops # <<>> /\ Fits(blocks)
        /\ area' = Written(blocks, DOMAIN blocks)
        /\ fcKernel' = [fcKernel EXCEPT !.ops = <<>>, !.off = @ + Len(blocks)]
        /\ mayBe' = {fcKernel.mem}
        /\ UNCHANGED <<home, log, errorFs, replay>>

\* The log may be checkpointed at once, or hold what it wrote until the crash.
KernelFullCommit ==
    /\ Running /\ fcKernel.tid < MostTids
    /\ fcKernel' = [fcKernel EXCEPT !.ops = <<>>, !.off = 0, !.tid = @ + 1]
    /\ mayBe' = {fcKernel.mem}
    /\ \E held \in BOOLEAN :
          /\ log' = [full |-> fcKernel.mem, held |-> held]
          /\ home' = IF held THEN home ELSE fcKernel.mem
    /\ UNCHANGED <<area, errorFs, replay>>

PowerFails ==
    LET blocks == AreaBlocksOf(fcKernel)
    IN  /\ Running
        /\ \E which \in SUBSET DOMAIN blocks :
              /\ which # {} => fcKernel.ops # <<>> /\ Fits(blocks)
              /\ area' = Written(blocks, which)
              /\ mayBe' = mayBe \cup IF which = DOMAIN blocks THEN {fcKernel.mem} ELSE {}
        /\ replay' = [NoReplay EXCEPT !.phase = "scan"]
        /\ UNCHANGED <<fcKernel, home, log, errorFs>>

-----------------------------------------------------------------------------
(* The scan.  STOP ends the loop over the blocks without an error.          *)

ScanTag_AnyTail(st, t, expected) ==
    LET counted == [st EXCEPT !.cur = @ + 1, !.crc = Append(@, t)]
    IN  CASE st.ret # "continue" -> st
          [] st.ret = "continue" /\ t.tag = "none" ->
                [st EXCEPT !.ret = IF st.num # 0 THEN "stop" ELSE "error"]
          [] st.ret = "continue" /\ t.tag = "head" /\ t.tid # expected ->
                [st EXCEPT !.ret = "error"]
          [] st.ret = "continue" /\ t.tag = "tail" ->
                [st EXCEPT !.cur = @ + 1, !.crc = <<>>, !.num = st.cur + 1]
          [] OTHER -> counted

ScanTag(st, t, expected) ==
    LET counted == [st EXCEPT !.cur = @ + 1, !.crc = Append(@, t)]
        ended == [st EXCEPT !.cur = @ + 1, !.crc = <<>>]
        StopOr == IF st.num # 0 THEN "stop" ELSE "error"
    IN  CASE st.ret # "continue" -> st
          [] st.ret = "continue" /\ t.tag \in {"add", "unlink", "inode", "pad"} -> counted
          [] st.ret = "continue" /\ t.tag = "head" ->
                IF t.tid = expected THEN counted ELSE [st EXCEPT !.ret = "error"]
          [] st.ret = "continue" /\ t.tag = "tail" ->
                IF t.tid = expected /\ t.crc = st.crc THEN [ended EXCEPT !.num = st.cur + 1]
                ELSE [ended EXCEPT !.ret = StopOr]
          [] st.ret = "continue" /\ t.tag = "none" -> [st EXCEPT !.ret = StopOr]

\* One turn of fc_do_one_pass, in which ext4_fc_replay_scan reads a block: [ret,
\* num, cur, crc].  The block behind the last one cannot be read.
ext4_fc_replay_scan(r, expected) ==
    LET st == [ret |-> "continue", num |-> r.num, cur |-> r.cur, crc |-> r.crc]
        Step(s, t) == ScanTag(s, t, expected)
    IN  IF r.off = AreaBlocks THEN [st EXCEPT !.ret = "error"]
        ELSE IF r.off = 0 /\ area[0][1].tag # "head" THEN [st EXCEPT !.ret = "stop"]
        ELSE FoldLeft(Step, st, area[r.off])

\* A scan that fails ends the recovery before anything is replayed.
Scan ==
    LET st == ext4_fc_replay_scan(replay, fcKernel.tid)
        seen == [replay EXCEPT !.off = @ + 1, !.num = st.num, !.cur = st.cur, !.crc = st.crc]
    IN  /\ replay.phase = "scan"
        /\ replay' = CASE st.ret = "continue" -> seen
                       [] st.ret = "stop" -> [seen EXCEPT !.phase = "replay", !.off = 0, !.at = 1]
                       [] st.ret = "error" -> [replay EXCEPT !.phase = "failed"]
        /\ home' = IF st.ret = "stop" /\ log.held THEN log.full ELSE home
        /\ UNCHANGED <<fcKernel, log, area, errorFs, mayBe>>

-----------------------------------------------------------------------------
(* The replay, a tag at a time: the device may keep any prefix of it.       *)

\* ext2fs_unlink fails when the name does not stand for the inode, and the
\* error, -EFAULT, is returned.
ext4_fc_handle_unlink(fs, t) ==
    IF fs.names[t.name] = t.ino THEN [fs |-> [fs EXCEPT !.names[t.name] = 0], ok |-> TRUE]
    ELSE [fs |-> fs, ok |-> FALSE]

\* For a symbolic link the function returns before it links anything.
ext4_fc_handle_link_and_create(fs, t) ==
    IF t.ino \in Symlinks THEN [fs |-> fs, ok |-> TRUE]
    ELSE IF fs.links[t.ino] = NoInode THEN [fs |-> fs, ok |-> FALSE]
    ELSE [fs |-> [fs EXCEPT !.names[t.name] = t.ino], ok |-> TRUE]

ext4_fc_handle_inode(fs, t) == [fs |-> [fs EXCEPT !.links[t.ino] = t.links], ok |-> TRUE]

ReplayTag(fs, t) ==
    CASE t.tag = "unlink" -> ext4_fc_handle_unlink(fs, t)
      [] t.tag = "add" -> ext4_fc_handle_link_and_create(fs, t)
      [] t.tag = "inode" -> ext4_fc_handle_inode(fs, t)
      [] t.tag \in {"head", "tail", "pad"} -> [fs |-> fs, ok |-> TRUE]
      [] t.tag = "none" -> [fs |-> fs, ok |-> FALSE]

\* The superblock on the device says that there are errors while the replay lasts.
BeginReplay ==
    /\ replay.phase = "replay" /\ replay.num # 0 /\ replay.pass # "replay"
    /\ replay' = [replay EXCEPT !.pass = "replay", !.super = errorFs]
    /\ errorFs' = TRUE
    /\ UNCHANGED <<fcKernel, home, log, area, mayBe>>

\* The bitmaps cannot be read: the recovery fails before the superblock is marked.
ReplayCannotBegin ==
    /\ replay.phase = "replay" /\ replay.num # 0 /\ replay.pass # "replay"
    /\ replay' = [replay EXCEPT !.phase = "failed"]
    /\ UNCHANGED <<fcKernel, home, log, area, errorFs, mayBe>>

ReplayOne ==
    LET block == area[replay.off]
        done == ReplayTag(home, block[replay.at])
        last == replay.at = Len(block)
    IN  /\ replay.phase = "replay" /\ replay.num # 0 /\ replay.pass = "replay"
        /\ home' = done.fs
        /\ replay' = IF ~done.ok THEN [replay EXCEPT !.phase = "failed"]
                     ELSE [replay EXCEPT !.num = @ - 1, !.at = IF last THEN 1 ELSE @ + 1,
                                         !.off = IF last THEN @ + 1 ELSE @]
        /\ UNCHANGED <<fcKernel, log, area, errorFs, mayBe>>

\* The directory has no room for the name, which has been unlinked by force.
ReplayNoSpace ==
    LET t == area[replay.off][replay.at]
    IN  /\ replay.phase = "replay" /\ replay.num # 0 /\ replay.pass = "replay"
        /\ t.tag = "add" /\ ext4_fc_handle_link_and_create(home, t).ok /\ t.ino \notin Symlinks
        /\ home' = [home EXCEPT !.names[t.name] = 0]
        /\ replay' = [replay EXCEPT !.phase = "failed"]
        /\ UNCHANGED <<fcKernel, log, area, errorFs, mayBe>>

\* replay_done, reached with the next block
ReplayDone ==
    /\ replay.phase = "replay" /\ replay.num = 0
    /\ replay' = [replay EXCEPT !.phase = IF replay.off = AreaBlocks THEN "failed" ELSE "done"]
    /\ errorFs' = IF replay.pass = "replay" /\ replay.off # AreaBlocks THEN replay.super ELSE errorFs
    /\ UNCHANGED <<fcKernel, home, log, area, mayBe>>

\* e2fsck is interrupted, and begins again.
RecoveryInterrupted ==
    /\ replay.phase \in {"scan", "replay"} /\ fcKernel.left > 0
    /\ replay' = [NoReplay EXCEPT !.phase = "scan"]
    /\ fcKernel' = [fcKernel EXCEPT !.left = @ - 1]
    /\ UNCHANGED <<home, log, area, errorFs, mayBe>>

\* Recovery has moved the log on by one transaction ("++info.end_transaction").
MountAgain ==
    /\ replay.phase = "done" /\ fcKernel.tid < MostTids
    /\ fcKernel' = [fcKernel EXCEPT !.mem = home, !.tid = @ + 1, !.ops = <<>>, !.off = 0]
    /\ log' = [full |-> home, held |-> FALSE]
    /\ mayBe' = {home}
    /\ replay' = NoReplay
    /\ UNCHANGED <<home, area, errorFs>>

FcNext ==
    \/ KernelChanges \/ KernelFastCommit \/ KernelFullCommit \/ PowerFails
    \/ Scan \/ BeginReplay \/ ReplayCannotBegin \/ ReplayOne \/ ReplayNoSpace
    \/ ReplayDone \/ RecoveryInterrupted \/ MountAgain

-----------------------------------------------------------------------------
(* Properties.                                                             *)

LinksAgree(fs) ==
    \A i \in FcInodes : fs.links[i] > 0 \/ (\E n \in FcNames : fs.names[n] = i) =>
        fs.links[i] = Cardinality({n \in FcNames : fs.names[n] = i})

\* A recovery that succeeds arrives at the last commit, fast or full, whatever
\* stale blocks of older fast commits, torn ones and earlier interrupted
\* replays there are: nothing committed is missing and nothing torn is replayed.
ReplayIsExact == replay.phase = "done" => home \in mayBe

\* "the updates performed by fast commit replay code are not atomic": whenever
\* names and link counts on the device disagree, its superblock says so.
PartialReplayIsMarked == LinksAgree(home) \/ errorFs

\* A replay arrives at the last commit, and until it does the device says so.
FastCommitCorrect == ReplayIsExact /\ PartialReplayIsMarked
=============================================================================
