---------------------------- MODULE DebugfsProofs ---------------------------
(***************************************************************************)
(* debugfs never leaves a log that is not empty in a file system that does *)
(* not ask for recovery: LogAsksForRecovery for every size of the log,     *)
(* every list of journal commands, every fault and every mixture of        *)
(* debugfs and e2fsck, when no crash comes between two of their writes.    *)
(***************************************************************************)
EXTENDS DebugfsJournal, TLAPS

----------------------------------------------------------------------------
(* The inductive invariant. *)

\* The records have their fields; nothing is said of the values.
IsJsb(x) == x = [start |-> x.start, seq |-> x.seq, errno |-> x.errno, uuid |-> x.uuid,
                 csum |-> x.csum, async |-> x.async]
IsSb(x) == x = [recover |-> x.recover, valid |-> x.valid] /\ x.recover \in BOOLEAN
IsDevice(d) ==
  /\ d = [log |-> d.log, fs |-> d.fs, jsb |-> d.jsb, sb |-> d.sb]
  /\ IsJsb(d.jsb) /\ IsSb(d.sb)

Shapely ==
  /\ IsDevice(disk) /\ IsSb(sb) /\ IsJsb(jsb)
  /\ goal \in {"off", "check", "load"} /\ crashes = 0

HasLog == disk.jsb.start # 0

\* The superblock in memory has the flag if the log is not empty, and so has
\* the one on the disk by the time the tool ends.
MemoryAsks ==
  /\ (HasLog /\ pc \in {"prompt", "examine", "check", "passes", "flush", "super"}) => sb.recover
  /\ (HasLog /\ pc \in {"off", "synced"}) => disk.sb.recover

\* Only a superblock that is marked dirty has the flag before the disk has it:
\* close_filesystem writes no other.
DirtyOrWritten == (pc \in {"prompt", "examine"} /\ ~dirty /\ sb.recover) => disk.sb.recover

\* The log is empty from e2fsck_journal_release until the next journal_close.
Released == pc \in {"reopen", "recheck"} => ~HasLog
Cleared == pc = "recheck" => ~sb.recover

\* What journal_close is going to write has been announced.
OpenAsks == current => pc \in {"prompt", "examine"} /\ (jsb.start # 0 => sb.recover)

AskInv == Shapely /\ MemoryAsks /\ DirtyOrWritten /\ Released /\ Cleared /\ OpenAsks

----------------------------------------------------------------------------
(* The passes over the log. *)

\* A step of do_one_pass writes file system blocks at most.
Quiet ==
  /\ disk' = disk \/ \E b, v : disk' = [disk EXCEPT !.fs[b] = v]
  /\ sb' = sb /\ jsb' = jsb /\ goal' = goal /\ dirty' = dirty /\ crashes' = crashes
  /\ pc = "pass" /\ pc' \in {"pass", "sync"}

\* Whatever do_one_pass finds in the log, it writes file system blocks only.
LEMMA PassesAreQuiet == ASSUME DoOnePass PROVE Quiet
<1> USE DEF Quiet, dev, proc, super, jrnl, hist
<1>1. ASSUME pc = "pass", NEW t, Continue(t) PROVE Quiet
  BY <1>1 DEF Continue
<1>2. ASSUME pc = "pass", PassFails PROVE Quiet
  BY <1>2 DEF PassFails
<1>3. ASSUME pc = "pass", NEW e, PassSucceeds(e) PROVE Quiet
  BY <1>3 DEF PassSucceeds
<1>4. CASE EndOfPass
  BY <1>2, <1>3, <1>4 DEF EndOfPass, EndOfScan, AtEnd
<1>5. CASE HeaderUnreadable
  BY <1>2, <1>5 DEF HeaderUnreadable
<1>6. CASE Descriptor
  BY <1>1, <1>2, <1>6 DEF Descriptor, AtHeader
<1>7. CASE DescribedUnreadable
  BY <1>1, <1>7 DEF DescribedUnreadable, AtHeader
<1>8. CASE ReplayDescriptor
  BY <1>1, <1>2, <1>8 DEF ReplayDescriptor, AtHeader
<1>9. CASE ReplayRevoked \/ ReplayBadSum \/ ReplayUnreadable \/ ReplayWriteError
  BY <1>1, <1>9 DEF ReplayRevoked, ReplayBadSum, ReplayUnreadable, ReplayWriteError, AtTag
<1>10. CASE ReplayBlock
  BY <1>10 DEF ReplayBlock, AtTag
<1>11. CASE SuspectCommit
  BY <1>2, <1>3, <1>11 DEF SuspectCommit, EndOfScan, AtHeader
<1>12. CASE CommitAfterFailure
  BY <1>12 DEF CommitAfterFailure, AtHeader
<1>13. CASE CommitBadSum
  BY <1>3, <1>13 DEF CommitBadSum, EndOfScan, AtHeader
<1>14. CASE Commit
  BY <1>1, <1>14 DEF Commit, AtHeader
<1>15. CASE Revoke
  BY <1>2, <1>15 DEF Revoke, AtHeader
<1> QED
  BY <1>4, <1>5, <1>6, <1>7, <1>8, <1>9, <1>10, <1>11, <1>12, <1>13, <1>14, <1>15
  DEF DoOnePass

\* So none of its steps disturbs the invariant.
LEMMA QuietAsks ==
  ASSUME AskInv, Quiet, UNCHANGED command
  PROVE  AskInv'
<1> USE DEF AskInv, Quiet, command
<1>1. IsDevice(disk') /\ disk'.sb = disk.sb /\ disk'.jsb = disk.jsb
  <2>1. CASE disk' = disk
    BY <2>1 DEF Shapely
  <2>2. ASSUME NEW b, NEW v, disk' = [disk EXCEPT !.fs[b] = v]
        PROVE IsDevice(disk') /\ disk'.sb = disk.sb /\ disk'.jsb = disk.jsb
    BY <2>2 DEF Shapely, IsDevice
  <2> QED BY <2>1, <2>2
<1>2. Shapely'
  BY <1>1 DEF Shapely
<1>3. MemoryAsks' /\ DirtyOrWritten' /\ Released' /\ Cleared' /\ OpenAsks'
  BY DEF MemoryAsks, DirtyOrWritten, Released, Cleared, OpenAsks
<1> QED BY <1>2, <1>3

----------------------------------------------------------------------------
(* ext2fs_flush, the check of the journal and its recovery. *)

LEMMA FlushAsks ==
  ASSUME AskInv, FlushOthers \/ WriteSuper \/ FlushAll, UNCHANGED command
  PROVE  AskInv'
<1> USE DEF AskInv, MemoryAsks, DirtyOrWritten, Released, Cleared, OpenAsks, HasLog,
            dev, proc, super, jrnl, hist, command
<1>1. CASE FlushOthers
  BY <1>1 DEF FlushOthers, Shapely
<1>2. CASE WriteSuper
  <2>1. IsDevice(disk') /\ disk'.sb = sb /\ disk'.jsb = disk.jsb
    BY <1>2 DEF WriteSuper, Shapely, IsDevice
  <2>2. Shapely'
    BY <1>2, <2>1 DEF WriteSuper, Shapely
  <2> QED BY <1>2, <2>1, <2>2 DEF WriteSuper
<1>3. CASE FlushAll
  <2>1. goal \in {"off", "check", "load"} /\ IsSb(disk.sb)
    BY DEF Shapely, IsDevice
  <2>2. Shapely'
    BY <1>3, <2>1 DEF FlushAll, Shapely
  <2> QED BY <1>3, <2>1, <2>2 DEF FlushAll
<1> QED BY <1>1, <1>2, <1>3

\* The questions about a doubtful journal do not come up.
LEMMA CheckAsks ==
  ASSUME AskInv, UNCHANGED command,
         \/ Fsck \/ CheckJournal \/ RunDoubtfulJournal \/ ResetDoubtfulJournal
         \/ IgnoreDoubtfulJournal \/ RestOfFsck
  PROVE  AskInv'
<1> USE DEF AskInv, MemoryAsks, DirtyOrWritten, Released, Cleared, OpenAsks, HasLog,
            dev, proc, super, jrnl, hist, command
<1>1. CASE Fsck
  <2>1. Shapely'
    BY <1>1 DEF Fsck, Shapely, IsDevice
  <2> QED BY <1>1, <2>1 DEF Fsck
<1>2. CASE CheckJournal
  <2>1. IsDevice(disk') /\ disk'.sb = disk.sb /\ disk'.jsb.start = disk.jsb.start
    BY <1>2 DEF CheckJournal, Shapely, IsDevice, IsJsb
  <2>2. IsSb(sb') /\ sb'.recover = sb.recover
    BY <1>2 DEF CheckJournal, ErrnoPropagated, Shapely, IsSb
  <2>3. /\ sb.recover \/ disk.jsb.start = 0
        /\ pc \in {"check", "recheck"} /\ jsb' = jsb /\ crashes' = crashes
    BY <1>2 DEF CheckJournal
  <2>4. /\ goal' \in {"off", "check", "load"} /\ pc' \in {"flush", "prompt", "load", "passes"}
        /\ pc' = "prompt" => pc = "recheck"
    BY <1>2 DEF CheckJournal, Proceed, Shapely
  <2>5. Shapely'
    BY <2>1, <2>2, <2>3, <2>4 DEF Shapely
  <2> QED BY <2>1, <2>2, <2>3, <2>4, <2>5
<1>3. CASE RunDoubtfulJournal \/ ResetDoubtfulJournal \/ IgnoreDoubtfulJournal
  BY <1>3 DEF RunDoubtfulJournal, ResetDoubtfulJournal, IgnoreDoubtfulJournal
<1>4. CASE RestOfFsck
  <2>1. IsSb(sb') /\ sb'.recover = sb.recover
    BY <1>4 DEF RestOfFsck, Shapely, IsSb
  <2>2. Shapely'
    BY <1>4, <2>1 DEF RestOfFsck, Shapely
  <2> QED BY <1>4, <2>1, <2>2 DEF RestOfFsck
<1> QED BY <1>1, <1>2, <1>3, <1>4

LEMMA RecoverAsks ==
  ASSUME AskInv, Recover, UNCHANGED command
  PROVE  AskInv'
<1> USE DEF AskInv, MemoryAsks, DirtyOrWritten, Released, Cleared, OpenAsks, HasLog,
            dev, proc, super, jrnl, hist, command
<1>1. CASE Load
  <2>1. /\ disk' = disk /\ sb' = sb /\ goal' = goal /\ jsb' = disk.jsb /\ crashes' = crashes
        /\ pc = "load" /\ pc' \in {"release", "pass"}
    BY <1>1 DEF Load
  <2>2. Shapely'
    BY <2>1 DEF Shapely, IsDevice
  <2> QED BY <2>1, <2>2
<1>2. CASE DoOnePass
  BY <1>2, PassesAreQuiet, QuietAsks
<1>3. CASE SyncBlockdev
  <2>1. /\ disk' = disk /\ sb' = sb /\ goal' = goal /\ jsb' = jsb /\ crashes' = crashes
        /\ pc = "sync" /\ pc' = "release"
    BY <1>3 DEF SyncBlockdev
  <2>2. Shapely'
    BY <2>1 DEF Shapely
  <2> QED BY <2>1, <2>2
<1>4. CASE Release
  <2>1. IsDevice(disk') /\ disk'.sb = disk.sb /\ disk'.jsb.start = 0
    BY <1>4 DEF Release, Shapely, IsDevice, IsJsb
  <2>2. /\ sb' = sb /\ goal' = goal /\ IsJsb(jsb') /\ crashes' = crashes
        /\ pc = "release" /\ pc' = "reopen"
    BY <1>4 DEF Release, NoJsb, IsJsb
  <2>3. Shapely'
    BY <2>1, <2>2 DEF Shapely
  <2> QED BY <2>1, <2>2, <2>3
<1>5. CASE Reopen
  <2>1. IsSb(sb') /\ ~sb'.recover
    BY <1>5 DEF Reopen, clear_recover, Shapely, IsDevice, IsSb
  <2>2. /\ disk' = disk /\ goal' = goal /\ jsb' = jsb /\ crashes' = crashes
        /\ pc = "reopen" /\ pc' = "recheck"
    BY <1>5 DEF Reopen
  <2>3. Shapely'
    BY <2>1, <2>2 DEF Shapely
  <2> QED BY <2>1, <2>2, <2>3
<1> QED BY <1>1, <1>2, <1>3, <1>4, <1>5 DEF Recover

----------------------------------------------------------------------------
(* The commands. *)

LEMMA SessionAsks ==
  ASSUME AskInv, OpenDebugfs \/ Quit \/ do_journal_run
  PROVE  AskInv'
<1> USE DEF AskInv, MemoryAsks, DirtyOrWritten, Released, Cleared, OpenAsks, HasLog,
            dev, proc, super, jrnl, hist, command
<1>1. CASE OpenDebugfs
  <2>1. Shapely'
    BY <1>1 DEF OpenDebugfs, Shapely, IsDevice
  <2> QED BY <1>1, <2>1 DEF OpenDebugfs
<1>2. CASE Quit
  <2>1. /\ disk' = disk /\ sb' = sb /\ goal' = "off" /\ IsJsb(jsb') /\ crashes' = crashes
        /\ pc = "prompt" /\ pc' = (IF dirty THEN "flush" ELSE "off") /\ current' = FALSE
    BY <1>2 DEF Quit, NoJsb, IsJsb
  <2>2. Shapely'
    BY <2>1 DEF Shapely
  <2> QED BY <2>1, <2>2
<1>3. CASE do_journal_run
  <2>1. /\ disk' = disk /\ sb' = sb /\ goal' = "load" /\ jsb' = jsb /\ crashes' = crashes
        /\ pc = "prompt" /\ pc' \in {"flush", "load"} /\ current' = FALSE
    BY <1>3 DEF do_journal_run, OpenAsks
  <2>2. Shapely'
    BY <2>1 DEF Shapely
  <2> QED BY <2>1, <2>2
<1> QED BY <1>1, <1>2, <1>3

\* journal_write marks the superblock before journal_close writes a log that
\* is not empty.
LEMMA CommandsAsk ==
  ASSUME AskInv,
         \/ do_journal_open \/ journal_find_head \/ FindHeadFails \/ do_journal_write
         \/ UncommittedWrite \/ do_journal_close
  PROVE  AskInv'
<1> USE DEF AskInv, MemoryAsks, DirtyOrWritten, Released, Cleared, OpenAsks, HasLog,
            dev, tooling, super, jrnl, hist, command
<1>1. CASE do_journal_open
  <2>1. /\ disk' = disk /\ sb' = sb /\ goal' = goal /\ jsb' = disk.jsb /\ crashes' = crashes
        /\ pc = "prompt" /\ pc' \in {"prompt", "examine"} /\ dirty' = dirty /\ current' = TRUE
    BY <1>1 DEF do_journal_open
  <2>2. Shapely'
    BY <2>1 DEF Shapely, IsDevice
  <2> QED BY <2>1, <2>2
<1>2. CASE journal_find_head
  <2>1. /\ disk' = disk /\ sb' = sb /\ goal' = goal /\ jsb' = jsb /\ crashes' = crashes
        /\ pc = "examine" /\ pc' \in {"prompt", "examine"} /\ dirty' = dirty /\ current' = current
    BY <1>2 DEF journal_find_head
  <2>2. Shapely'
    BY <2>1 DEF Shapely
  <2> QED BY <2>1, <2>2
<1>3. CASE do_journal_write
  <2>1. PICK t, log : /\ disk' = [disk EXCEPT !.log = log]
                      /\ sb' = AskForRecovery(sb) /\ dirty' = TRUE /\ jsb' = journal_close_trans(t)
    BY <1>3 DEF do_journal_write
  <2>2. /\ pc = "prompt" /\ pc' = pc /\ goal' = goal /\ crashes' = crashes /\ current' = current
    BY <1>3 DEF do_journal_write, AtPrompt
  <2>3. IsDevice(disk') /\ disk'.sb = disk.sb /\ disk'.jsb = disk.jsb
    BY <2>1 DEF Shapely, IsDevice
  <2>4. IsSb(sb') /\ sb'.recover
    BY <2>1 DEF Shapely, IsSb, AskForRecovery
  <2>5. IsJsb(jsb')
    BY <2>1 DEF Shapely, IsJsb, journal_close_trans
  <2>6. Shapely'
    BY <2>2, <2>3, <2>4, <2>5 DEF Shapely
  <2> QED BY <2>1, <2>2, <2>3, <2>4, <2>6
<1>4. CASE UncommittedWrite
  <2>1. PICK log : disk' = [disk EXCEPT !.log = log]
    BY <1>4 DEF UncommittedWrite
  <2>2. /\ pc' = pc /\ goal' = goal /\ crashes' = crashes /\ UNCHANGED <<super, jrnl, command>>
    BY <1>4 DEF UncommittedWrite
  <2>3. IsDevice(disk') /\ disk'.sb = disk.sb /\ disk'.jsb = disk.jsb
    BY <2>1 DEF Shapely, IsDevice
  <2>4. Shapely'
    BY <2>2, <2>3 DEF Shapely
  <2> QED BY <2>2, <2>3, <2>4
<1>5. CASE do_journal_close
  <2> DEFINE x == [jsb EXCEPT !.seq = j.tail_sequence]
  <2>1. /\ disk' = [disk EXCEPT !.jsb = x] /\ jsb' = NoJsb /\ current /\ ~current'
        /\ pc = "prompt" /\ pc' = pc /\ goal' = goal /\ crashes' = crashes /\ sb' = sb /\ dirty' = dirty
    BY <1>5 DEF do_journal_close
  <2>2. IsJsb(x) /\ x.start = jsb.start
    BY DEF Shapely, IsJsb
  <2> HIDE DEF x
  <2>3. IsDevice(disk') /\ disk'.sb = disk.sb /\ disk'.jsb = x
    BY <2>1, <2>2 DEF Shapely, IsDevice
  <2>4. Shapely'
    BY <2>1, <2>3 DEF Shapely, NoJsb, IsJsb
  <2> QED BY <2>1, <2>2, <2>3, <2>4
<1>6. CASE FindHeadFails
  <2>1. /\ disk' = disk /\ sb' = sb /\ goal' = goal /\ jsb' = jsb /\ crashes' = crashes
        /\ pc = "examine" /\ pc' = "prompt" /\ dirty' = dirty /\ current' = current
    BY <1>6 DEF FindHeadFails
  <2>2. Shapely'
    BY <2>1 DEF Shapely
  <2> QED BY <2>1, <2>2
<1> QED BY <1>1, <1>2, <1>3, <1>4, <1>5, <1>6

----------------------------------------------------------------------------
LEMMA InitAsks == ASSUME DInit PROVE AskInv
<1>1. PICK format \in Formats : disk = InitDevice(format)
  BY DEF DInit, RecoveryInit
<1>2. IsDevice(disk) /\ disk.jsb.start = 0
  BY <1>1 DEF InitDevice, NewJsb, IsDevice, IsJsb, IsSb
<1>3. /\ sb = [recover |-> FALSE, valid |-> TRUE] /\ jsb = NoJsb /\ pc = "off" /\ goal = "off"
      /\ crashes = 0 /\ current = FALSE
  BY DEF DInit, RecoveryInit
<1>4. IsSb(sb) /\ IsJsb(jsb)
  BY <1>3 DEF IsSb, IsJsb, NoJsb
<1> QED
  BY <1>2, <1>3, <1>4
     DEF AskInv, Shapely, MemoryAsks, DirtyOrWritten, Released, Cleared, OpenAsks, HasLog

\* Between two commands a log that is not empty is in a file system that asks
\* for recovery, for every list of journal_open, journal_write, journal_close,
\* journal_run and e2fsck, whatever fails: journal_commit_trans sets the flag
\* in memory before journal_close writes s_start, and close_filesystem writes
\* what is dirty.  Without crashes: the two writes are not ordered.
THEOREM JournalWritesAskForRecovery ==
  ASSUME MaxCrashes = 0 PROVE Spec => []LogAsksForRecovery
<1>1. ASSUME AskInv, [Next]_dvars PROVE AskInv'
  <2>1. CASE UNCHANGED dvars
    BY <1>1, <2>1 DEF AskInv, Shapely, MemoryAsks, DirtyOrWritten, Released, Cleared, OpenAsks,
                      HasLog, dvars, vars, command, dev, proc, super, jrnl, hist
  <2>2. CASE Debugfs
    BY <1>1, <2>2, SessionAsks, CommandsAsk DEF Debugfs
  <2>3. ~Crash /\ ~Writeback
    BY <1>1 DEF Crash, Writeback, AskInv, Shapely
  <2>4. CASE E2fsck /\ UNCHANGED command
    BY <1>1, <2>4, FlushAsks, CheckAsks, RecoverAsks DEF E2fsck
  <2> QED BY <1>1, <2>1, <2>2, <2>3, <2>4 DEF Next, Lost
<1>2. AskInv => LogAsksForRecovery
  BY DEF AskInv, MemoryAsks, HasLog, LogAsksForRecovery
<1> QED BY <1>1, <1>2, InitAsks, PTL DEF Spec
=============================================================================
