---------------------------- MODULE JournalProofs ---------------------------
(***************************************************************************)
(* needs_recovery outlives the log, and recovery keeps its types:          *)
(* FlagOutlivesLog and TypeOK for every size of the log, every checksum    *)
(* feature, every fault, every number of crashes and every sequence of     *)
(* mounts and recoveries.                                                  *)
(***************************************************************************)
EXTENDS KernelJournal, TLAPS

----------------------------------------------------------------------------
(* The inductive invariant. *)

\* The records have their fields; nothing is said of the values.
IsJsb(x) == x = [start |-> x.start, seq |-> x.seq, errno |-> x.errno, uuid |-> x.uuid,
                 csum |-> x.csum, async |-> x.async]
IsSb(x) == x = [recover |-> x.recover, valid |-> x.valid] /\ x.recover \in BOOLEAN
IsDevice(d) ==
  /\ d = [log |-> d.log, fs |-> d.fs, jsb |-> d.jsb, sb |-> d.sb]
  /\ IsJsb(d.jsb) /\ IsSb(d.sb)

Shapely ==
  /\ IsDevice(disk) /\ IsDevice(stable)
  /\ IsSb(sb) /\ IsJsb(jsb)
  /\ goal \in {"off", "check", "load", "prompt"}

\* The log is empty wherever a crash or a write back could leave it.
Emptied == disk.jsb.start = 0 /\ stable.jsb.start = 0

\* Neither copy of the superblock goes without the flag before that.
FlagFirst == (~disk.sb.recover \/ ~stable.sb.recover) => Emptied

\* A mounted file system has the flag, on the medium too.
MountedFlag == pc = "mounted" => disk.sb.recover /\ stable.sb.recover

\* The superblock in memory may lose the flag once the log is empty as it
\* reads back, and is written once the medium agrees.
MemoryFlag ==
  /\ (pc \in {"check", "recheck", "passes", "flush", "super"} /\ ~sb.recover)
       => disk.jsb.start = 0
  /\ (pc = "super" /\ ~sb.recover) => stable.jsb.start = 0
  /\ pc = "reopen" => disk.jsb.start = 0

FlagInv == Shapely /\ FlagFirst /\ MountedFlag /\ MemoryFlag

----------------------------------------------------------------------------
(* Steps that leave the superblock, the journal superblock and the medium  *)
(* as they are.                                                            *)

\* A step of do_one_pass writes file system blocks at most.
Quiet ==
  /\ disk' = disk \/ \E b, v : disk' = [disk EXCEPT !.fs[b] = v]
  /\ stable' = stable /\ sb' = sb /\ jsb' = jsb /\ goal' = goal
  /\ pc' \in {"pass", "sync"}

\* Whatever do_one_pass finds in the log, it writes file system blocks only.
LEMMA PassesAreQuiet ==
  ASSUME pc = "pass", DoOnePass
  PROVE Quiet
<1> USE DEF Quiet, dev, proc, super, jrnl, hist
<1>1. ASSUME NEW t, Continue(t) PROVE Quiet
  BY <1>1 DEF Continue
<1>2. ASSUME PassFails PROVE Quiet
  BY <1>2 DEF PassFails
<1>3. ASSUME NEW e, PassSucceeds(e) PROVE Quiet
  BY <1>3 DEF PassSucceeds
<1>4. CASE EndOfPass
  BY <1>2, <1>3, <1>4 DEF EndOfPass, EndOfScan
<1>5. CASE HeaderUnreadable
  BY <1>2, <1>5 DEF HeaderUnreadable
<1>6. CASE Descriptor
  BY <1>1, <1>2, <1>6 DEF Descriptor
<1>7. CASE DescribedUnreadable
  BY <1>1, <1>7 DEF DescribedUnreadable
<1>8. CASE ReplayDescriptor
  BY <1>1, <1>2, <1>8 DEF ReplayDescriptor
<1>9. CASE ReplayRevoked \/ ReplayBadSum \/ ReplayUnreadable \/ ReplayWriteError
  BY <1>1, <1>9 DEF ReplayRevoked, ReplayBadSum, ReplayUnreadable, ReplayWriteError
<1>10. CASE ReplayBlock
  BY <1>10 DEF ReplayBlock
<1>11. CASE SuspectCommit
  BY <1>2, <1>3, <1>11 DEF SuspectCommit, EndOfScan
<1>12. CASE CommitAfterFailure
  BY <1>12 DEF CommitAfterFailure
<1>13. CASE CommitBadSum
  BY <1>3, <1>13 DEF CommitBadSum, EndOfScan
<1>14. CASE Commit
  BY <1>1, <1>14 DEF Commit
<1>15. CASE Revoke
  BY <1>2, <1>15 DEF Revoke
<1> QED
  BY <1>4, <1>5, <1>6, <1>7, <1>8, <1>9, <1>10, <1>11, <1>12, <1>13, <1>14, <1>15
  DEF DoOnePass

\* So none of its steps disturbs the invariant.
LEMMA QuietKeepsInv ==
  ASSUME FlagInv, Quiet
  PROVE FlagInv'
<1> USE DEF FlagInv, Quiet
<1>1. /\ IsDevice(disk') /\ disk'.sb = disk.sb /\ disk'.jsb = disk.jsb
  <2>1. CASE disk' = disk
    BY <2>1 DEF Shapely
  <2>2. ASSUME NEW b, NEW v, disk' = [disk EXCEPT !.fs[b] = v]
        PROVE IsDevice(disk') /\ disk'.sb = disk.sb /\ disk'.jsb = disk.jsb
    BY <2>2 DEF Shapely, IsDevice
  <2> QED
    BY <2>1, <2>2
<1>2. Shapely'
  BY <1>1 DEF Shapely
<1>3. FlagFirst'
  BY <1>1 DEF FlagFirst, Emptied
<1>4. MountedFlag' /\ MemoryFlag'
  BY <1>1 DEF MountedFlag, MemoryFlag
<1> QED
  BY <1>2, <1>3, <1>4

----------------------------------------------------------------------------
(* ext2fs_flush. *)

\* ext2fs_flush2 syncs the emptied log before it writes a superblock without
\* the flag: the middle step needs what the first one established.
LEMMA FlushKeepsInv ==
  ASSUME FlagInv, FlushOthers \/ WriteSuper \/ FlushAll
  PROVE FlagInv'
<1> USE DEF FlagInv, Shapely, dev, proc, super, jrnl, hist
<1>1. CASE FlushOthers
  BY <1>1 DEF FlushOthers, FlushBefore, FlagFirst, Emptied, MountedFlag, MemoryFlag
<1>2. CASE WriteSuper
  <2>1. IsDevice(disk') /\ disk'.sb = sb /\ disk'.jsb = disk.jsb
    BY <1>2 DEF WriteSuper, IsDevice
  <2>2. ~sb.recover => Emptied
    BY <1>2 DEF WriteSuper, MemoryFlag, Emptied
  <2>3. FlagFirst'
    BY <1>2, <2>1, <2>2 DEF WriteSuper, FlagFirst, Emptied
  <2>4. Shapely'
    BY <1>2, <2>1 DEF WriteSuper
  <2> QED
    BY <1>2, <2>1, <2>3, <2>4 DEF WriteSuper, MountedFlag, MemoryFlag
<1>3. CASE FlushAll
  <2>1. disk' = disk /\ stable' = disk /\ jsb' = jsb /\ goal' = goal /\ pc' = goal
    BY <1>3 DEF FlushAll
  <2>2. sb' = disk.sb \/ (sb' = sb /\ goal # "check")
    BY <1>3 DEF FlushAll
  <2>3. Shapely'
    BY <2>1, <2>2 DEF IsDevice
  <2>4. FlagFirst'
    BY <2>1 DEF FlagFirst, Emptied
  <2>5. MountedFlag' /\ MemoryFlag'
    BY <2>1, <2>2 DEF MountedFlag, MemoryFlag, FlagFirst, Emptied
  <2> QED
    BY <2>3, <2>4, <2>5
<1> QED
  BY <1>1, <1>2, <1>3

----------------------------------------------------------------------------
(* The checks around the recovery. *)

\* e2fsck_check_ext3_journal: the branches for a log that is not empty in a
\* file system without the flag are never taken.
LEMMA CheckKeepsInv ==
  ASSUME FlagInv,
         \/ Fsck \/ CheckJournal \/ RunDoubtfulJournal \/ ResetDoubtfulJournal
         \/ IgnoreDoubtfulJournal \/ RestOfFsck
  PROVE FlagInv'
<1> USE DEF FlagInv, Shapely, dev, proc, super, jrnl, hist
<1>1. CASE Fsck
  BY <1>1 DEF Fsck, FlagFirst, Emptied, MountedFlag, MemoryFlag, IsDevice
<1>2. CASE CheckJournal
  <2>1. /\ IsDevice(disk') /\ disk'.sb = disk.sb /\ disk'.jsb.start = disk.jsb.start
        /\ stable' = stable /\ jsb' = jsb
    BY <1>2 DEF CheckJournal, IsDevice, IsJsb
  <2>2. IsSb(sb') /\ sb'.recover = sb.recover
    BY <1>2 DEF CheckJournal, ErrnoPropagated, IsSb
  <2>3. sb.recover \/ disk.jsb.start = 0
    BY <1>2 DEF CheckJournal
  <2>4. goal' \in {"off", "check", "load", "prompt"} /\ pc' \in {"flush", "prompt", "load", "passes"}
    BY <1>2 DEF CheckJournal, Proceed
  <2>5. FlagFirst'
    BY <2>1 DEF FlagFirst, Emptied
  <2> QED
    BY <2>1, <2>2, <2>3, <2>4, <2>5 DEF MountedFlag, MemoryFlag
<1>3. CASE RunDoubtfulJournal
  BY <1>3 DEF RunDoubtfulJournal, MemoryFlag
<1>4. CASE ResetDoubtfulJournal
  BY <1>4 DEF ResetDoubtfulJournal, MemoryFlag
<1>5. CASE IgnoreDoubtfulJournal
  BY <1>5 DEF IgnoreDoubtfulJournal, MemoryFlag
<1>6. CASE RestOfFsck
  <2>1. IsSb(sb') /\ sb'.recover = sb.recover
    BY <1>6 DEF RestOfFsck, IsSb
  <2> QED
    BY <1>6, <2>1 DEF RestOfFsck, FlagFirst, Emptied, MountedFlag, MemoryFlag
<1> QED
  BY <1>1, <1>2, <1>3, <1>4, <1>5, <1>6

----------------------------------------------------------------------------
(* recover_ext3_journal, around the passes. *)

\* e2fsck_journal_release empties the log while the superblock on the disk
\* still has the flag, and e2fsck_clear_recover comes after it.
LEMMA RecoverKeepsInv ==
  ASSUME FlagInv, Load \/ SyncBlockdev \/ Release \/ Reopen
  PROVE FlagInv'
<1> USE DEF FlagInv, Shapely, dev, proc, super, jrnl, hist
<1>1. CASE Load
  <2>1. disk' = disk /\ stable' = stable /\ sb' = sb /\ goal' = goal /\ jsb' = disk.jsb
        /\ pc' \in {"release", "pass"}
    BY <1>1 DEF Load
  <2> QED
    BY <2>1 DEF FlagFirst, Emptied, MountedFlag, MemoryFlag, IsDevice
<1>2. CASE SyncBlockdev
  <2>1. disk' = disk /\ (stable' = disk \/ stable' = stable) /\ sb' = sb /\ goal' = goal
        /\ jsb' = jsb /\ pc' = "release"
    BY <1>2 DEF SyncBlockdev, SyncedDevice
  <2> QED
    BY <2>1 DEF FlagFirst, Emptied, MountedFlag, MemoryFlag
<1>3. CASE Release
  <2>1. IsDevice(disk') /\ disk'.sb = disk.sb /\ disk'.jsb.start = 0
    BY <1>3 DEF Release, IsDevice, IsJsb
  <2>2. stable' = stable /\ sb' = sb /\ goal' = goal /\ IsJsb(jsb') /\ pc' = "reopen"
    BY <1>3 DEF Release, NoJsb, IsJsb
  <2> QED
    BY <2>1, <2>2 DEF FlagFirst, Emptied, MountedFlag, MemoryFlag
<1>4. CASE Reopen
  <2>1. IsSb(sb')
    BY <1>4 DEF Reopen, clear_recover, IsDevice, IsSb
  <2>2. disk' = disk /\ stable' = stable /\ goal' = goal /\ jsb' = jsb /\ pc' = "recheck"
    BY <1>4 DEF Reopen
  <2>3. disk.jsb.start = 0
    BY <1>4 DEF Reopen, MemoryFlag
  <2> QED
    BY <2>1, <2>2, <2>3 DEF FlagFirst, Emptied, MountedFlag, MemoryFlag
<1> QED
  BY <1>1, <1>2, <1>3, <1>4

----------------------------------------------------------------------------
(* The medium. *)

\* A crash keeps what was on the medium, the cache writes back in any order.
LEMMA MediumKeepsInv ==
  ASSUME FlagInv, Writeback \/ Crash \/ Damage
  PROVE FlagInv'
<1> USE DEF FlagInv, Shapely, dev, proc, super, jrnl, hist
<1>1. CASE Writeback
  <2>1. disk' = disk /\ sb' = sb /\ goal' = goal /\ jsb' = jsb /\ pc' = pc
    BY <1>1 DEF Writeback
  <2>2. IsDevice(stable') /\ stable'.sb \in {stable.sb, disk.sb}
        /\ stable'.jsb \in {stable.jsb, disk.jsb}
        /\ (stable'.sb = stable.sb \/ stable'.jsb = stable.jsb)
    BY <1>1 DEF Writeback, IsDevice
  <2>3. FlagFirst'
    BY <2>1, <2>2 DEF FlagFirst, Emptied
  <2>4. MountedFlag' /\ MemoryFlag'
    BY <2>1, <2>2 DEF MountedFlag, MemoryFlag
  <2> QED
    BY <2>1, <2>2, <2>3, <2>4
<1>2. CASE Crash
  <2>1. disk' = stable /\ stable' = stable /\ goal' = "off" /\ pc' = "off"
    BY <1>2 DEF Crash, Stopped
  <2>2. IsSb(sb') /\ IsJsb(jsb')
    BY <1>2 DEF Crash, Stopped, NoJsb, IsSb, IsJsb
  <2> QED
    BY <2>1, <2>2 DEF FlagFirst, Emptied, MountedFlag, MemoryFlag
<1>3. CASE Damage
  <2>1. sb' = sb /\ goal' = goal /\ jsb' = jsb /\ pc' = pc
    BY <1>3 DEF Damage
  <2>2. PICK i \in LogBlocks :
          /\ disk' = [disk EXCEPT !.log[i].whole = FALSE, !.log[i].val = Damaged]
          /\ stable' = [stable EXCEPT !.log[i] = disk'.log[i]]
    BY <1>3 DEF Damage
  <2>3. IsDevice(disk') /\ disk'.sb = disk.sb /\ disk'.jsb = disk.jsb
    BY <2>2 DEF IsDevice
  <2>4. IsDevice(stable') /\ stable'.sb = stable.sb /\ stable'.jsb = stable.jsb
    BY <2>2 DEF IsDevice
  <2> QED
    BY <2>1, <2>3, <2>4 DEF FlagFirst, Emptied, MountedFlag, MemoryFlag
<1> QED
  BY <1>1, <1>2, <1>3

----------------------------------------------------------------------------
(* The kernel and mke2fs, which leave both copies of the device equal. *)

\* A write that reaches both copies keeps the invariant if it keeps the flag
\* or leaves an empty log behind.
LEMMA WrittenKeepsInv ==
  ASSUME FlagInv, NEW d, Written(d), IsDevice(d), UNCHANGED tooling,
         pc' \in {"off", "mounted"},
         d.sb.recover \/ (d.jsb.start = 0 /\ pc' = "off")
  PROVE FlagInv'
BY DEF FlagInv, Shapely, Written, tooling, proc, super, jrnl, FlagFirst, Emptied,
       MountedFlag, MemoryFlag

\* The kernel and mke2fs.
LEMMA KernelKeepsInv ==
  ASSUME FlagInv, Kernel
  PROVE FlagInv'
<1> USE DEF FlagInv, Shapely
<1>1. CASE Mount
  <2>0. PICK d : d = [disk EXCEPT !.sb.recover = TRUE]
    OBVIOUS
  <2>1. IsDevice(d) /\ d.sb.recover
    BY <2>0 DEF IsDevice, IsSb
  <2> QED
    BY <1>1, <2>0, <2>1, WrittenKeepsInv DEF Mount
<1>2. ASSUME pc = "mounted" PROVE disk.sb.recover /\ stable.sb.recover
  BY <1>2 DEF MountedFlag
<1>3. IsJsb(Started)
  BY DEF Started, IsDevice, IsJsb
<1>4. CASE KernelCommit
  <2>1. PICK t : Written([disk EXCEPT !.jsb = Started,
                     !.log = Laid(@, head, LogOf(t), DOMAIN LogOf(t))])
    BY <1>4 DEF KernelCommit
  <2>0. PICK d : d = [disk EXCEPT !.jsb = Started, !.log = Laid(@, head, LogOf(t), DOMAIN LogOf(t))]
    OBVIOUS
  <2>2. IsDevice(d) /\ d.sb = disk.sb
    BY <1>3, <2>0 DEF IsDevice
  <2>3. pc = "mounted" /\ pc' = "mounted" /\ UNCHANGED tooling
    BY <1>4 DEF KernelCommit
  <2> QED
    BY <1>2, <2>0, <2>1, <2>2, <2>3, WrittenKeepsInv
<1>5. CASE TornCommit
  <2>1. PICK t, S : Written([disk EXCEPT !.jsb = Started, !.log = Laid(@, head, LogOf(t), S)])
    BY <1>5 DEF TornCommit
  <2>0. PICK d : d = [disk EXCEPT !.jsb = Started, !.log = Laid(@, head, LogOf(t), S)]
    OBVIOUS
  <2>2. IsDevice(d) /\ d.sb = disk.sb
    BY <1>3, <2>0 DEF IsDevice
  <2>3. pc = "mounted" /\ pc' = "off" /\ UNCHANGED tooling
    BY <1>5 DEF TornCommit
  <2> QED
    BY <1>2, <2>0, <2>1, <2>2, <2>3, WrittenKeepsInv
<1>6. CASE PowerFail
  BY <1>2, <1>6 DEF PowerFail, dev, tooling, proc, super, jrnl, FlagFirst, Emptied, MountedFlag, MemoryFlag
<1>7. CASE DirectWrite
  <2>1. PICK b : Written([disk EXCEPT !.fs[b] = Content(n + 1, b)])
    BY <1>7 DEF DirectWrite
  <2>0. PICK d : d = [disk EXCEPT !.fs[b] = Content(n + 1, b)]
    OBVIOUS
  <2>2. IsDevice(d) /\ d.sb = disk.sb
    BY <2>0 DEF IsDevice
  <2>3. pc = "mounted" /\ pc' = "mounted" /\ UNCHANGED tooling
    BY <1>7 DEF DirectWrite
  <2> QED
    BY <1>2, <2>0, <2>1, <2>2, <2>3, WrittenKeepsInv
<1>8. CASE Checkpoint
  <2>1. PICK f, p, q : Written([disk EXCEPT !.fs = f, !.jsb.start = p, !.jsb.seq = q])
    BY <1>8 DEF Checkpoint
  <2>0. PICK d : d = [disk EXCEPT !.fs = f, !.jsb.start = p, !.jsb.seq = q]
    OBVIOUS
  <2>2. IsDevice(d) /\ d.sb = disk.sb
    BY <2>0 DEF IsDevice, IsJsb
  <2>3. pc = "mounted" /\ pc' = "mounted" /\ UNCHANGED tooling
    BY <1>8 DEF Checkpoint
  <2> QED
    BY <1>2, <2>0, <2>1, <2>2, <2>3, WrittenKeepsInv
<1>9. CASE Unmount
  <2>0. PICK d : d = [disk EXCEPT !.jsb.start = 0, !.jsb.seq = tid, !.sb.recover = FALSE]
    OBVIOUS
  <2>1. IsDevice(d) /\ d.jsb.start = 0
    BY <2>0 DEF IsDevice, IsJsb, IsSb
  <2> QED
    BY <1>9, <2>0, <2>1, WrittenKeepsInv DEF Unmount
<1>10. CASE Mkfs
  <2>1. PICK f, format : Written([log |-> disk.log, fs |-> f, jsb |-> NewJsb(format, 2),
                 sb |-> [recover |-> FALSE, valid |-> TRUE]])
    BY <1>10 DEF Mkfs
  <2>0. PICK d : d = [log |-> disk.log, fs |-> f, jsb |-> NewJsb(format, 2),
                 sb |-> [recover |-> FALSE, valid |-> TRUE]]
    OBVIOUS
  <2>2. IsDevice(d) /\ d.jsb.start = 0
    BY <2>0 DEF NewJsb, IsDevice, IsJsb, IsSb
  <2>3. pc' = "off" /\ UNCHANGED tooling
    BY <1>10 DEF Mkfs
  <2> QED
    BY <2>0, <2>1, <2>2, <2>3, WrittenKeepsInv
<1> QED
  BY <1>1, <1>4, <1>5, <1>6, <1>7, <1>8, <1>9, <1>10 DEF Kernel

----------------------------------------------------------------------------
\* Every step of the kernel, of e2fsck and of the medium keeps the invariant.
LEMMA FlagInductive ==
  FlagInv /\ [Next]_kvars => FlagInv'
<1> SUFFICES ASSUME FlagInv, [Next]_kvars PROVE FlagInv'
  OBVIOUS
<1>1. CASE Kernel
  BY <1>1, KernelKeepsInv
<1>2. CASE Tool
  <2>1. CASE DoOnePass
    <3>1. pc = "pass"
      BY <2>1 DEF DoOnePass, EndOfPass, AtEnd, HeaderUnreadable, Descriptor,
        DescribedUnreadable, ReplayDescriptor, ReplayRevoked, ReplayBadSum,
        ReplayUnreadable, ReplayBlock, ReplayWriteError, SuspectCommit,
        CommitAfterFailure, CommitBadSum, Commit, Revoke, AtHeader, AtTag
    <3> QED
      BY <2>1, <3>1, PassesAreQuiet, QuietKeepsInv
  <2>2. CASE Writeback \/ Crash \/ Damage
    BY <2>2, MediumKeepsInv
  <2>3. CASE FlushOthers \/ WriteSuper \/ FlushAll
    BY <2>3, FlushKeepsInv
  <2>4. CASE \/ Fsck \/ CheckJournal \/ RunDoubtfulJournal \/ ResetDoubtfulJournal
             \/ IgnoreDoubtfulJournal \/ RestOfFsck
    BY <2>4, CheckKeepsInv
  <2>5. CASE Load \/ SyncBlockdev \/ Release \/ Reopen
    BY <2>5, RecoverKeepsInv
  <2> QED
    BY <1>2, <2>1, <2>2, <2>3, <2>4, <2>5 DEF Tool, E2fsck, Recover
<1>3. CASE UNCHANGED kvars
  BY <1>3 DEF kvars, vars, dev, proc, super, jrnl, FlagInv, Shapely, FlagFirst, Emptied,
    MountedFlag, MemoryFlag
<1> QED
  BY <1>1, <1>2, <1>3 DEF Next

\* FlagOutlivesLog for every instance: no crash of e2fsck, and no power failure
\* of the machine, ever leaves transactions in the log of a file system whose
\* superblock does not ask for recovery (ext2fs_flush2, e2fsck_clear_recover).
THEOREM NeedsRecoveryOutlivesTheLog == Spec => []FlagOutlivesLog
<1>1. KInit => FlagInv
  <2> SUFFICES ASSUME KInit PROVE FlagInv
    OBVIOUS
  <2>0. PICK format : disk = InitDevice(format) /\ stable = disk
    BY DEF KInit, RecoveryInit
  <2>1. IsDevice(disk) /\ IsDevice(stable) /\ Emptied
    BY <2>0 DEF InitDevice, NewJsb, IsDevice, IsJsb, IsSb, Emptied
  <2>2. IsSb(sb) /\ IsJsb(jsb)
    BY DEF KInit, RecoveryInit, NoJsb, IsJsb, IsSb
  <2>3. pc = "off" /\ goal = "off"
    BY DEF KInit, RecoveryInit
  <2> QED
    BY <2>1, <2>2, <2>3 DEF FlagInv, Shapely, FlagFirst, MountedFlag, MemoryFlag
<1>2. FlagInv => FlagOutlivesLog
  BY DEF FlagInv, FlagFirst, Emptied, FlagOutlivesLog
<1> QED
  BY <1>1, <1>2, FlagInductive, PTL DEF Spec

----------------------------------------------------------------------------
(* Type correctness: the scan of the log never leaves it.                  *)

\* do_one_pass steps over a descriptor and what it describes with one wrap, so
\* a descriptor must not describe as many blocks as the log has.
ShortRecords == {r \in LogRecords : Len(r.tags) < Last - First}
ShortDevices ==
  [log : [LogBlocks -> ShortRecords], fs : [FsBlocks -> Contents],
   jsb : JournalSuperblocks, sb : Superblocks]
Transactions ==
  [tid : Tids, n : Nat, w : Seq(FsBlocks), r : SUBSET FsBlocks, start : LogBlocks]

KernelTypes == live \in Seq(Transactions) /\ head \in LogBlocks /\ tid \in Tids

\* A pass runs over a log that is not empty.
PassTypes == pc = "pass" => jsb.start # 0

JournalTyped ==
  /\ TypeOK
  /\ disk \in ShortDevices /\ stable \in ShortDevices
  /\ PassTypes /\ KernelTypes

LEMMA JournalConstants ==
  /\ First \in Nat \ {0} /\ Last \in Nat /\ First < Last /\ TidMod \in Nat /\ TidMod > 2
  /\ CommitsPerSecond \in Nat \ {0} /\ MaxDamage \in Nat /\ MaxCrashes \in Nat
  /\ 0 \in Tids /\ NoTid \in Int /\ First \in LogBlocks
  /\ Formats \subseteq [csum : Checksums, async : BOOLEAN, seq : Tids]
BY Jbd2Assumption, RecoveryAssumption DEF Tids, NoTid, LogBlocks

LEMMA NextTidType == ASSUME NEW t \in Tids PROVE NextTid(t) \in Tids
BY JournalConstants DEF NextTid, Tids

LEMMA CommitTimeType == ASSUME NEW r \in LogRecords PROVE CommitTime(r) \in Int
<1>1. r.n \in Nat
  BY DEF LogRecords
<1> QED BY <1>1, JournalConstants DEF CommitTime

\* One wrap is enough for what is no longer than the log.
LEMMA AfterType ==
  ASSUME NEW i \in LogBlocks, NEW k \in 0 .. Last - First
  PROVE  After(i, k) \in LogBlocks
BY JournalConstants DEF After, wrap, LogBlocks

\* The parts of a device
LEMMA DeviceParts ==
  ASSUME NEW d \in ShortDevices
  PROVE  /\ d.log \in [LogBlocks -> ShortRecords] /\ d.fs \in [FsBlocks -> Contents]
         /\ d.jsb \in JournalSuperblocks /\ d.sb \in Superblocks
BY DEF ShortDevices

LEMMA ShortIsDevice == ASSUME NEW d \in ShortDevices PROVE d \in Devices
<1>1. [LogBlocks -> ShortRecords] \subseteq [LogBlocks -> LogRecords]
  BY DEF ShortRecords
<1> QED BY <1>1 DEF ShortDevices, Devices

LEMMA DeviceChange ==
  ASSUME NEW d \in ShortDevices
  PROVE  /\ \A x \in Superblocks : [d EXCEPT !.sb = x] \in ShortDevices
         /\ \A x \in JournalSuperblocks : [d EXCEPT !.jsb = x] \in ShortDevices
         /\ \A x \in [FsBlocks -> Contents] : [d EXCEPT !.fs = x] \in ShortDevices
         /\ \A x \in [LogBlocks -> ShortRecords] : [d EXCEPT !.log = x] \in ShortDevices
BY DEF ShortDevices

LEMMA NewPassType ==
  ASSUME NEW x \in JournalSuperblocks, NEW e \in Tids,
         NEW p \in {"none", "scan", "revoke", "replay"}
  PROVE  /\ NewPass(p, x, e) \in Passes /\ NewPass(p, x, e).next_log_block = x.start
         /\ NewPass(p, x, e).tags = <<>>
<1>1. x.start \in {0} \cup LogBlocks /\ x.seq \in Tids
  BY DEF JournalSuperblocks
<1> QED BY <1>1 DEF NewPass, Passes

LEMMA NoneTypes ==
  /\ NoJsb \in JournalSuperblocks /\ NoPass \in Passes /\ NoRevokes \in [FsBlocks -> Tids \cup {NoTid}]
  /\ NoJournal \in [tail_sequence : Tids, transaction_sequence : Tids,
                    failed_commit : Tids]
  /\ Damaged \in Contents /\ Plain \in ShortRecords
<1>1. NoJsb \in JournalSuperblocks
  BY JournalConstants DEF NoJsb, JournalSuperblocks, Checksums
<1>2. NoPass \in Passes
  BY <1>1, NewPassType, JournalConstants DEF NoPass
<1>3. NoRevokes \in [FsBlocks -> Tids \cup {NoTid}]
  BY DEF NoRevokes
<1>4. NoJournal \in [tail_sequence : Tids, transaction_sequence : Tids,
                     failed_commit : Tids]
  BY JournalConstants DEF NoJournal
<1>5. Damaged \in Contents
  BY DEF Damaged, Contents
<1>6. <<>> \in Seq(Tags) /\ <<>> \in Seq(Int) /\ Len(<<>>) = 0
  OBVIOUS
<1>7. Plain \in LogRecords /\ Plain.tags = <<>>
  BY <1>5, <1>6, JournalConstants DEF Plain, LogRecords
<1>8. Plain \in ShortRecords
  BY <1>6, <1>7, JournalConstants DEF ShortRecords
<1> QED BY <1>1, <1>2, <1>3, <1>4, <1>5, <1>8

----------------------------------------------------------------------------
(* The steps of do_one_pass. *)

LEMMA ContinueTyped ==
  ASSUME JournalTyped, pc = "pass", UNCHANGED kernel,
         NEW t \in Passes, t.next_log_block # 0, Continue(t)
  PROVE  JournalTyped'
BY DEF JournalTyped, TypeOK, PassTypes, KernelTypes, Continue, dev, proc, super, jrnl, hist, kernel

LEMMA FailsTyped ==
  ASSUME JournalTyped, UNCHANGED kernel, PassFails
  PROVE  JournalTyped'
<1>1. s.end_transaction \in Tids
  BY DEF JournalTyped, TypeOK, Passes
<1>2. [NoPass EXCEPT !.end_transaction = s.end_transaction] \in Passes
  BY <1>1, NoneTypes DEF Passes
<1> QED
  BY <1>2 DEF JournalTyped, TypeOK, PassTypes, KernelTypes, PassFails,
              dev, proc, super, jrnl, hist, kernel

LEMMA SucceedsTyped ==
  ASSUME JournalTyped, pc = "pass", UNCHANGED kernel, NEW e \in Tids, PassSucceeds(e)
  PROVE  JournalTyped'
<1>1. [NoPass EXCEPT !.end_transaction = e] \in Passes
  BY NoneTypes DEF Passes
<1>2. jsb \in JournalSuperblocks /\ jsb.start # 0
  BY DEF JournalTyped, TypeOK, PassTypes
<1>3. s' \in Passes /\ (pc' = "pass" => s'.next_log_block # 0) /\ pc' \in {"pass", "sync"}
  BY <1>1, <1>2, NewPassType DEF PassSucceeds
<1> QED
  BY <1>3 DEF JournalTyped, TypeOK, PassTypes, KernelTypes, PassSucceeds,
              dev, proc, super, jrnl, hist, kernel

\* What is known where a header is read
LEMMA AtLog ==
  ASSUME JournalTyped, pc = "pass"
  PROVE  /\ s \in Passes /\ s.next_log_block \in LogBlocks
         /\ CurrentBlock \in ShortRecords /\ CurrentBlock \in LogRecords
         /\ jsb \in JournalSuperblocks /\ s.next_commit_ID \in Tids /\ s.end_transaction \in Tids
         /\ s.tags \in Seq(Tags) /\ s.crc \in Seq(Int) /\ s.need_check_commit_time \in BOOLEAN
         /\ s.success \in BOOLEAN
<1>1. s \in Passes /\ s.next_log_block # 0 /\ disk \in ShortDevices /\ jsb \in JournalSuperblocks
  BY DEF JournalTyped, TypeOK
<1>2. s.next_log_block \in LogBlocks
  BY <1>1 DEF Passes
<1>3. CurrentBlock \in ShortRecords
  BY <1>1, <1>2, DeviceParts DEF CurrentBlock
<1>4. /\ s.next_commit_ID \in Tids /\ s.end_transaction \in Tids
      /\ s.tags \in Seq(Tags) /\ s.crc \in Seq(Int)
      /\ s.need_check_commit_time \in BOOLEAN /\ s.success \in BOOLEAN
  BY <1>1 DEF Passes
<1> QED BY <1>1, <1>2, <1>3, <1>4 DEF ShortRecords

LEMMA SkipType ==
  ASSUME NEW t \in Passes, t.next_log_block \in LogBlocks, NEW k \in 0 .. Last - First
  PROVE  /\ Skip(t, k) \in Passes /\ Skip(t, k).next_log_block # 0
         /\ Skip(t, k).tags = t.tags /\ Skip(t, k).success = t.success
         /\ Skip(t, k).next_commit_ID = t.next_commit_ID /\ Skip(t, k).crc = t.crc
         /\ Skip(t, k).need_check_commit_time = t.need_check_commit_time
<1> DEFINE p == After(t.next_log_block, k)
<1>1. p \in LogBlocks
  BY AfterType
<1>2. p \in {0} \cup LogBlocks /\ p # 0
  BY <1>1, JournalConstants DEF LogBlocks
<1>3. Skip(t, k) = [t EXCEPT !.next_log_block = p]
  BY DEF Skip
<1> HIDE DEF p
<1> QED BY <1>2, <1>3 DEF Passes

LEMMA NextTagType ==
  ASSUME JournalTyped, AtTag, NEW b \in BOOLEAN
  PROVE  NextTag(b) \in Passes /\ NextTag(b).next_log_block # 0
<1>1. /\ s \in Passes /\ s.next_log_block \in LogBlocks /\ s.tags \in Seq(Tags) /\ s.tags # <<>>
      /\ s.success \in BOOLEAN
  BY AtLog DEF AtTag
<1>2. Tail(s.tags) \in Seq(Tags) /\ (s.success /\ b) \in BOOLEAN
  BY <1>1
<1>3. 1 \in 0 .. Last - First
  BY JournalConstants
<1> DEFINE t == Skip(s, 1)
<1>4. t \in Passes /\ t.next_log_block # 0 /\ t.tags = s.tags /\ t.success = s.success
  BY <1>1, <1>3, SkipType
<1>5. NextTag(b) = [t EXCEPT !.tags = Tail(@), !.success = @ /\ b]
  BY DEF NextTag
<1> HIDE DEF t
<1> DEFINE tags == Tail(s.tags)
           success == s.success /\ b
<1>6. NextTag(b) = [t EXCEPT !.tags = tags, !.success = success]
  BY <1>4, <1>5
<1>7. tags \in Seq(Tags) /\ success \in BOOLEAN
  BY <1>2
<1> HIDE DEF tags, success
<1> QED BY <1>4, <1>6, <1>7 DEF Passes

LEMMA RunningCrcType ==
  ASSUME JournalTyped, pc = "pass", NEW k \in Nat, k < Last - First
  PROVE  RunningCrc(k) \in Seq(Int)
<1> DEFINE at(i) == disk.log[After(s.next_log_block, i)]
<1>1. s.crc \in Seq(Int) /\ s.next_log_block \in LogBlocks /\ disk \in ShortDevices
      /\ CurrentBlock \in LogRecords
  BY AtLog DEF JournalTyped
<1>2. ASSUME NEW r \in LogRecords PROVE Stamp(r) \in Int
  BY <1>2 DEF Stamp, LogRecords
<1>3. ASSUME NEW i \in 1 .. k PROVE Stamp(at(i)) \in Int
  <2>1. i \in 0 .. Last - First
    BY <1>3, JournalConstants
  <2>2. After(s.next_log_block, i) \in LogBlocks
    BY <1>1, <2>1, AfterType
  <2>3. at(i) \in LogRecords
    BY <1>1, <2>2, DeviceParts DEF ShortRecords
  <2> QED BY <1>2, <2>3
<1> DEFINE f == [i \in 1 .. k |-> Stamp(at(i))]
<1>4. f \in Seq(Int)
  BY <1>3
<1>5. Stamp(CurrentBlock) \in Int
  BY <1>1, <1>2
<1>6. RunningCrc(k) = (s.crc \o <<Stamp(CurrentBlock)>>) \o f
  BY DEF RunningCrc
<1> HIDE DEF f
<1> QED BY <1>1, <1>4, <1>5, <1>6

LEMMA DescriptorTyped ==
  ASSUME JournalTyped, UNCHANGED kernel, Descriptor \/ DescribedUnreadable \/ ReplayDescriptor
  PROVE  JournalTyped'
<1>1. pc = "pass"
  BY DEF Descriptor, DescribedUnreadable, ReplayDescriptor, AtHeader
<1>2. /\ s \in Passes /\ s.next_log_block \in LogBlocks /\ CurrentBlock \in ShortRecords
      /\ s.crc \in Seq(Int) /\ s.need_check_commit_time \in BOOLEAN
  BY <1>1, AtLog
<1>3. /\ CurrentBlock.tags \in Seq(Tags) /\ Len(CurrentBlock.tags) \in Nat
      /\ Len(CurrentBlock.tags) < Last - First
  <2>1. CurrentBlock.tags \in Seq(Tags) /\ Len(CurrentBlock.tags) < Last - First
    BY <1>2 DEF ShortRecords, LogRecords
  <2> QED BY <2>1
<1>4. CASE Descriptor
  <2> DEFINE count == Len(CurrentBlock.tags)
             bad == ~HeaderSumOK(CurrentBlock, jsb)
             suspect == s.need_check_commit_time \/ (bad /\ s.pass = "scan")
             t == Skip(s, 1 + count)
             crc == IF SumsDescribed(suspect) THEN RunningCrc(count) ELSE t.crc
  <2>1. 1 + count \in 0 .. Last - First
    BY <1>3, JournalConstants
  <2>2. t \in Passes /\ t.next_log_block # 0 /\ t.crc = s.crc
    BY <1>2, <2>1, SkipType
  <2>3. crc \in Seq(Int) /\ suspect \in BOOLEAN
    BY <1>1, <1>2, <1>3, <2>2, RunningCrcType
  <2>4. PassFails \/ Continue([t EXCEPT !.need_check_commit_time = suspect, !.crc = crc])
    BY <1>4 DEF Descriptor
  <2> HIDE DEF t, crc, suspect
  <2> DEFINE u == [t EXCEPT !.need_check_commit_time = suspect, !.crc = crc]
  <2>5. u \in Passes /\ u.next_log_block # 0
    BY <2>2, <2>3 DEF Passes
  <2> HIDE DEF u
  <2> QED BY <1>1, <2>4, <2>5, ContinueTyped, FailsTyped DEF u
<1>5. CASE DescribedUnreadable
  <2>1. PICK k \in 1 .. Len(CurrentBlock.tags) :
          Continue([Skip(s, 1 + k) EXCEPT !.crc = RunningCrc(k - 1)])
    BY <1>5 DEF DescribedUnreadable
  <2> DEFINE t == Skip(s, 1 + k)
             crc == RunningCrc(k - 1)
             u == [t EXCEPT !.crc = crc]
  <2>2. 1 + k \in 0 .. Last - First /\ k - 1 \in Nat /\ k - 1 < Last - First
    BY <1>3, JournalConstants
  <2>3. t \in Passes /\ t.next_log_block # 0
    BY <1>2, <2>2, SkipType
  <2>4. crc \in Seq(Int)
    BY <1>1, <2>2, RunningCrcType
  <2> HIDE DEF t, crc
  <2>5. u \in Passes /\ u.next_log_block # 0
    BY <2>3, <2>4 DEF Passes
  <2>6. Continue(u)
    BY <2>1 DEF t, crc
  <2> HIDE DEF u
  <2> QED BY <1>1, <2>5, <2>6, ContinueTyped
<1>6. CASE ReplayDescriptor
  <2> DEFINE t == Skip(s, 1)
             tags == CurrentBlock.tags
             u == [t EXCEPT !.tags = tags]
  <2>1. t \in Passes /\ t.next_log_block # 0
    BY <1>2, SkipType, JournalConstants
  <2>2. PassFails \/ Continue(u)
    BY <1>6 DEF ReplayDescriptor
  <2>3. tags \in Seq(Tags)
    BY <1>3
  <2> HIDE DEF t, tags
  <2>4. u \in Passes /\ u.next_log_block # 0
    BY <2>1, <2>3 DEF Passes
  <2> HIDE DEF u
  <2> QED BY <1>1, <2>2, <2>4, ContinueTyped, FailsTyped
<1> QED BY <1>4, <1>5, <1>6

LEMMA TagTyped ==
  ASSUME JournalTyped, UNCHANGED kernel,
         ReplayRevoked \/ ReplayBadSum \/ ReplayUnreadable \/ ReplayBlock \/ ReplayWriteError
  PROVE  JournalTyped'
<1>1. AtTag /\ pc = "pass"
  BY DEF ReplayRevoked, ReplayBadSum, ReplayUnreadable, ReplayBlock, ReplayWriteError, AtTag
<1>2. \A b \in BOOLEAN : NextTag(b) \in Passes /\ NextTag(b).next_log_block # 0
  BY <1>1, NextTagType
<1>3. CASE ReplayRevoked \/ ReplayBadSum \/ ReplayUnreadable \/ ReplayWriteError
  <2>1. Continue(NextTag(TRUE)) \/ Continue(NextTag(FALSE))
    BY <1>3 DEF ReplayRevoked, ReplayBadSum, ReplayUnreadable, ReplayWriteError
  <2> QED BY <1>1, <1>2, <2>1, ContinueTyped
<1>4. CASE ReplayBlock
  <2>1. s.tags \in Seq(Tags) /\ s.tags # <<>> /\ CurrentBlock \in LogRecords
    BY <1>1, AtLog DEF AtTag
  <2> DEFINE tag == Head(s.tags)
             v == Restored(CurrentBlock.val, tag.escape)
  <2>2. tag \in Tags
    BY <2>1
  <2>3. tag.blk \in FsBlocks /\ tag.escape \in BOOLEAN
    BY <2>2 DEF Tags
  <2>4. CurrentBlock.val \in Contents
    BY <2>1 DEF LogRecords
  <2>5. v \in Contents
    BY <2>4 DEF Restored, Contents
  <2>6. disk' = [disk EXCEPT !.fs[tag.blk] = v] /\ s' = NextTag(TRUE)
        /\ UNCHANGED <<stable, pc, proc, super, jrnl, rc, hist>>
    BY <1>4 DEF ReplayBlock
  <2>7. disk \in ShortDevices /\ disk.fs \in [FsBlocks -> Contents]
    BY DeviceParts DEF JournalTyped
  <2> HIDE DEF v
  <2> DEFINE f == [disk.fs EXCEPT ![tag.blk] = v]
  <2>8. f \in [FsBlocks -> Contents]
    BY <2>5, <2>7
  <2>9. disk' = [disk EXCEPT !.fs = f]
    BY <2>6, <2>7 DEF ShortDevices
  <2> HIDE DEF f
  <2>10. disk' \in ShortDevices
    BY <2>7, <2>8, <2>9, DeviceChange
  <2> QED
    BY <1>1, <1>2, <2>6, <2>10, ShortIsDevice
       DEF JournalTyped, TypeOK, PassTypes, KernelTypes, proc, super, jrnl, hist, kernel
<1> QED BY <1>3, <1>4

LEMMA NextCommitType ==
  ASSUME NEW t \in Passes, t.next_log_block # 0
  PROVE  NextCommit(t) \in Passes /\ NextCommit(t).next_log_block # 0
<1>1. NextTid(t.next_commit_ID) \in Tids
  BY NextTidType DEF Passes
<1> QED BY <1>1 DEF NextCommit, Passes

Journals == [tail_sequence : Tids, transaction_sequence : Tids, failed_commit : Tids]

LEMMA CommitTyped ==
  ASSUME JournalTyped, UNCHANGED kernel,
         SuspectCommit \/ CommitAfterFailure \/ CommitBadSum \/ Commit
  PROVE  JournalTyped'
<1>1. pc = "pass"
  BY DEF SuspectCommit, CommitAfterFailure, CommitBadSum, Commit, AtHeader
<1>2. /\ s \in Passes /\ s.next_log_block \in LogBlocks /\ CurrentBlock \in LogRecords
      /\ s.next_commit_ID \in Tids /\ s.end_transaction \in Tids
  BY <1>1, AtLog
<1> DEFINE t == Skip(s, 1)
           time == CommitTime(CurrentBlock)
<1>3. t \in Passes /\ t.next_log_block # 0
  BY <1>2, SkipType, JournalConstants
<1>4. time \in Int
  BY <1>2, CommitTimeType
<1>5. j \in Journals
  BY DEF JournalTyped, TypeOK, Journals
<1>6. ASSUME EndOfScan PROVE JournalTyped'
  BY <1>1, <1>2, <1>6, SucceedsTyped DEF EndOfScan
<1>7. ASSUME s' \in Passes, s'.next_log_block # 0, j' \in Journals,
             UNCHANGED <<dev, pc, proc, super, jsb, revoked, rc, hist>>
      PROVE  JournalTyped'
  BY <1>7 DEF JournalTyped, TypeOK, PassTypes, KernelTypes, Journals,
              dev, proc, super, hist, kernel
<1>8. \A x \in Tids : [j EXCEPT !.failed_commit = x] \in Journals
  BY <1>5 DEF Journals
<1>9. CASE SuspectCommit
  BY <1>6, <1>9, FailsTyped DEF SuspectCommit
<1>10. CASE CommitAfterFailure
  BY <1>2, <1>3, <1>7, <1>8, <1>10 DEF CommitAfterFailure
<1>11. CASE CommitBadSum
  <2>1. CASE EndOfScan
    BY <1>6, <2>1
  <2>2. CASE ~EndOfScan
    <3> DEFINE e == s.next_commit_ID
               u == [t EXCEPT !.end_transaction = e]
               v == [u EXCEPT !.last_time = time]
    <3>1. /\ s' = IF jsb.async THEN NextCommit(v) ELSE u
          /\ j' = IF jsb.async THEN j ELSE [j EXCEPT !.failed_commit = e]
          /\ UNCHANGED <<dev, pc, proc, super, jsb, revoked, rc, hist>>
      BY <1>11, <2>2 DEF CommitBadSum
    <3> HIDE DEF t, time
    <3>2. u \in Passes /\ u.next_log_block # 0
      BY <1>2, <1>3 DEF Passes
    <3> HIDE DEF u
    <3>3. v \in Passes /\ v.next_log_block # 0
      BY <1>4, <3>2 DEF Passes
    <3> HIDE DEF v
    <3>4. NextCommit(v) \in Passes /\ NextCommit(v).next_log_block # 0
      BY <3>3, NextCommitType
    <3>5. s' \in Passes /\ s'.next_log_block # 0
      BY <3>1, <3>2, <3>4
    <3>6. j' \in Journals
      BY <1>2, <1>5, <1>8, <3>1
    <3> QED BY <1>7, <3>1, <3>5, <3>6
  <2> QED BY <2>1, <2>2
<1>12. CASE Commit
  <2> DEFINE none == <<>>
             u == [t EXCEPT !.last_time = time, !.crc = none]
  <2>1. Continue(NextCommit(IF s.pass = "scan" THEN u ELSE t))
    BY <1>12 DEF Commit
  <2>2. none \in Seq(Int)
    OBVIOUS
  <2> HIDE DEF t, time, none
  <2>3. u \in Passes /\ u.next_log_block # 0
    BY <1>3, <1>4, <2>2 DEF Passes
  <2> HIDE DEF u
  <2> DEFINE w == NextCommit(IF s.pass = "scan" THEN u ELSE t)
  <2>4. w \in Passes /\ w.next_log_block # 0
    BY <1>3, <2>3, NextCommitType
  <2> HIDE DEF w
  <2> QED BY <1>1, <2>1, <2>4, ContinueTyped DEF w
<1> QED BY <1>9, <1>10, <1>11, <1>12

LEMMA RevokesType ==
  ASSUME NEW table \in [FsBlocks -> Tids \cup {NoTid}], NEW blk, NEW sequence \in Tids
  PROVE  scan_revoke_records(table, blk, sequence) \in [FsBlocks -> Tids \cup {NoTid}]
<1>1. ASSUME NEW b \in FsBlocks
      PROVE  jbd2_journal_set_revoke(table, b, sequence)[b] \in Tids \cup {NoTid}
  BY <1>1 DEF jbd2_journal_set_revoke
<1> QED BY <1>1 DEF scan_revoke_records

LEMMA RevokeTyped ==
  ASSUME JournalTyped, UNCHANGED kernel, Revoke
  PROVE  JournalTyped'
<1>1. pc = "pass"
  BY DEF Revoke, AtHeader
<1>2. /\ s \in Passes /\ s.next_log_block \in LogBlocks /\ s.next_commit_ID \in Tids
      /\ s.need_check_commit_time \in BOOLEAN
  BY <1>1, AtLog
<1>3. CASE PassFails
  BY <1>3, FailsTyped
<1>4. CASE ~PassFails
  <2> DEFINE t == Skip(s, 1)
             suspect == t.need_check_commit_time
                          \/ (s.pass = "scan" /\ ~HeaderSumOK(CurrentBlock, jsb))
             u == [t EXCEPT !.need_check_commit_time = suspect]
  <2>1. /\ s' = u
        /\ revoked' = IF s.pass = "revoke"
                      THEN scan_revoke_records(revoked, CurrentBlock, s.next_commit_ID)
                      ELSE revoked
        /\ UNCHANGED <<dev, pc, proc, super, jsb, j, rc, hist>>
    BY <1>4 DEF Revoke
  <2>2. t \in Passes /\ t.next_log_block # 0
    BY <1>2, SkipType, JournalConstants
  <2>3. suspect \in BOOLEAN
    OBVIOUS
  <2> HIDE DEF t, suspect
  <2>4. u \in Passes /\ u.next_log_block # 0
    BY <2>2, <2>3 DEF Passes
  <2> HIDE DEF u
  <2>5. revoked \in [FsBlocks -> Tids \cup {NoTid}]
    BY DEF JournalTyped, TypeOK
  <2>6. revoked' \in [FsBlocks -> Tids \cup {NoTid}]
    BY <1>2, <2>1, <2>5, RevokesType
  <2> QED
    BY <2>1, <2>4, <2>6 DEF JournalTyped, TypeOK, PassTypes, KernelTypes,
                            dev, proc, super, hist, kernel
<1> QED BY <1>3, <1>4

LEMMA DoOnePassTyped ==
  ASSUME JournalTyped, UNCHANGED kernel, DoOnePass
  PROVE  JournalTyped'
<1>1. CASE EndOfPass
  <2>1. pc = "pass"
    BY <1>1 DEF EndOfPass, AtEnd
  <2>2. s.next_commit_ID \in Tids /\ s.end_transaction \in Tids
    BY <2>1, AtLog
  <2> QED BY <1>1, <2>1, <2>2, FailsTyped, SucceedsTyped DEF EndOfPass, EndOfScan
<1>2. CASE HeaderUnreadable
  BY <1>2, FailsTyped DEF HeaderUnreadable
<1> QED BY <1>1, <1>2, DescriptorTyped, TagTyped, CommitTyped, RevokeTyped DEF DoOnePass

----------------------------------------------------------------------------
(* The rest of the tools. *)

LEMMA SuperChange ==
  ASSUME NEW x \in Superblocks
  PROVE  /\ x.recover \in BOOLEAN /\ x.valid \in BOOLEAN
         /\ \A v \in BOOLEAN : [x EXCEPT !.valid = v] \in Superblocks
         /\ \A v \in BOOLEAN : [x EXCEPT !.recover = v] \in Superblocks
         /\ ErrnoPropagated(x) \in Superblocks
         /\ \A error \in BOOLEAN : clear_recover(x, error) \in Superblocks
BY DEF Superblocks, ErrnoPropagated, clear_recover

LEMMA JournalSuperChange ==
  ASSUME NEW x \in JournalSuperblocks
  PROVE  /\ x.start \in {0} \cup LogBlocks /\ x.seq \in Tids /\ x.errno \in BOOLEAN
         /\ \A v \in BOOLEAN : [x EXCEPT !.errno = v] \in JournalSuperblocks
         /\ \A v \in {0} \cup LogBlocks : [x EXCEPT !.start = v] \in JournalSuperblocks
         /\ \A v \in Tids : [x EXCEPT !.seq = v] \in JournalSuperblocks
BY DEF JournalSuperblocks

\* The journal superblock of a device, changed in a field
LEMMA DeviceErrno ==
  ASSUME NEW d \in ShortDevices, NEW v \in BOOLEAN
  PROVE  [d EXCEPT !.jsb.errno = v] \in ShortDevices
<1>1. [d EXCEPT !.jsb.errno = v] = [d EXCEPT !.jsb = [d.jsb EXCEPT !.errno = v]]
  BY DEF ShortDevices
<1> QED BY <1>1, DeviceParts, JournalSuperChange, DeviceChange

LEMMA DeviceStart ==
  ASSUME NEW d \in ShortDevices, NEW v \in {0} \cup LogBlocks
  PROVE  [d EXCEPT !.jsb.start = v] \in ShortDevices
<1>1. [d EXCEPT !.jsb.start = v] = [d EXCEPT !.jsb = [d.jsb EXCEPT !.start = v]]
  BY DEF ShortDevices
<1> QED BY <1>1, DeviceParts, JournalSuperChange, DeviceChange

LEMMA DeviceSeq ==
  ASSUME NEW d \in ShortDevices, NEW v \in Tids
  PROVE  [d EXCEPT !.jsb.seq = v] \in ShortDevices
<1>1. [d EXCEPT !.jsb.seq = v] = [d EXCEPT !.jsb = [d.jsb EXCEPT !.seq = v]]
  BY DEF ShortDevices
<1> QED BY <1>1, DeviceParts, JournalSuperChange, DeviceChange

LEMMA FlushTyped ==
  ASSUME JournalTyped, UNCHANGED kernel, FlushOthers \/ WriteSuper \/ FlushAll
  PROVE  JournalTyped'
<1> USE DEF JournalTyped, TypeOK, PassTypes, KernelTypes, dev, proc, super, jrnl, hist, kernel
<1>1. CASE FlushOthers
  BY <1>1 DEF FlushOthers, FlushBefore
<1>2. CASE WriteSuper
  <2>1. disk' \in ShortDevices
    BY <1>2, DeviceChange DEF WriteSuper
  <2>2. disk' \in Devices
    BY <2>1, ShortIsDevice
  <2> QED BY <1>2, <2>1, <2>2 DEF WriteSuper
<1>3. CASE FlushAll
  <2>1. disk.sb \in Superblocks
    BY DeviceParts
  <2> QED BY <1>3, <2>1 DEF FlushAll
<1> QED BY <1>1, <1>2, <1>3

LEMMA CheckTyped ==
  ASSUME JournalTyped, UNCHANGED kernel,
         Fsck \/ CheckJournal \/ RunDoubtfulJournal \/ ResetDoubtfulJournal
           \/ IgnoreDoubtfulJournal \/ RestOfFsck
  PROVE  JournalTyped'
<1>1. /\ disk \in ShortDevices /\ disk.sb \in Superblocks /\ disk.jsb \in JournalSuperblocks
      /\ disk.fs \in [FsBlocks -> Contents] /\ sb \in Superblocks /\ dirty \in BOOLEAN
      /\ disk.jsb.errno \in BOOLEAN /\ sb.recover \in BOOLEAN /\ goal \in {"off", "check", "load", "prompt"}
  BY DeviceParts, JournalSuperChange, SuperChange DEF JournalTyped, TypeOK
<1>2. ASSUME NEW x, NEW y, Proceed(x, y)
      PROVE  /\ pc' \in {"flush", "prompt", "load", "passes"}
             /\ goal' \in {"off", "check", "load", "prompt"}
  BY <1>1, <1>2 DEF Proceed
<1>3. ASSUME disk' \in ShortDevices, sb' \in Superblocks, dirty' \in BOOLEAN,
             goal' \in {"off", "check", "load", "prompt"},
             pc' \in {"check", "flush", "prompt", "load", "passes"},
             tool' \in {"none", "e2fsck", "debugfs"}, want' \in [FsBlocks -> Contents],
             UNCHANGED <<stable, jrnl, s, rc, n, crashes, damage>>
      PROVE  JournalTyped'
  <2>1. disk' \in Devices
    BY <1>3, ShortIsDevice
  <2> QED
    BY <1>3, <2>1 DEF JournalTyped, TypeOK, PassTypes, KernelTypes, jrnl, kernel
<1>4. tool \in {"none", "e2fsck", "debugfs"} /\ want \in [FsBlocks -> Contents]
  BY DEF JournalTyped, TypeOK
<1>5. CASE Fsck
  BY <1>1, <1>3, <1>4, <1>5 DEF Fsck, dev, hist
<1>6. CASE CheckJournal
  <2> DEFINE e == disk.jsb.errno /\ sb.recover
  <2>1. disk' = [disk EXCEPT !.jsb.errno = e]
    BY <1>1, <1>6 DEF CheckJournal, ShortDevices, JournalSuperblocks
  <2>2. e \in BOOLEAN
    BY <1>1
  <2> HIDE DEF e
  <2>3. disk' \in ShortDevices
    BY <1>1, <2>1, <2>2, DeviceErrno
  <2>4. sb' \in Superblocks /\ dirty' \in BOOLEAN
    BY <1>1, <1>6, SuperChange DEF CheckJournal
  <2>5. Proceed(sb, dirty') /\ UNCHANGED <<stable, tool, jrnl, s, rc, hist>>
    BY <1>6 DEF CheckJournal
  <2> QED BY <1>2, <1>3, <1>4, <2>3, <2>4, <2>5 DEF hist
<1>7. CASE RunDoubtfulJournal
  <2>1. sb' \in Superblocks /\ dirty' \in BOOLEAN
    BY <1>1, <1>7, SuperChange DEF RunDoubtfulJournal
  <2>2. Proceed(sb', TRUE) /\ UNCHANGED <<dev, tool, jrnl, s, rc, hist>>
    BY <1>7 DEF RunDoubtfulJournal
  <2> QED BY <1>1, <1>2, <1>3, <1>4, <2>1, <2>2 DEF dev, hist
<1>8. CASE ResetDoubtfulJournal
  <2> DEFINE x == [sb EXCEPT !.valid = FALSE]
             d == [disk EXCEPT !.jsb.start = 0]
  <2>1. sb' = ErrnoPropagated(x) /\ dirty' = TRUE /\ disk' = [d EXCEPT !.jsb.errno = FALSE]
    BY <1>8 DEF ResetDoubtfulJournal
  <2>2. x \in Superblocks /\ d \in ShortDevices
    BY <1>1, SuperChange, DeviceStart
  <2> HIDE DEF x, d
  <2>3. sb' \in Superblocks /\ dirty' \in BOOLEAN /\ disk' \in ShortDevices
    BY <2>1, <2>2, SuperChange, DeviceErrno
  <2>4. Proceed(sb', TRUE) /\ UNCHANGED <<stable, tool, jrnl, s, rc, hist>>
    BY <1>8 DEF ResetDoubtfulJournal
  <2> QED BY <1>2, <1>3, <1>4, <2>3, <2>4 DEF hist
<1>9. CASE IgnoreDoubtfulJournal
  <2>1. sb' \in Superblocks /\ dirty' \in BOOLEAN /\ disk' \in ShortDevices
    BY <1>1, <1>9, SuperChange, DeviceErrno DEF IgnoreDoubtfulJournal
  <2>2. Proceed(sb, dirty') /\ UNCHANGED <<stable, tool, jrnl, s, rc, hist>>
    BY <1>9 DEF IgnoreDoubtfulJournal
  <2> QED BY <1>2, <1>3, <1>4, <2>1, <2>2 DEF hist
<1>10. CASE RestOfFsck
  <2>1. want' \in [FsBlocks -> Contents] /\ sb' \in Superblocks
    BY <1>1, <1>10, SuperChange DEF RestOfFsck, JournalTyped, TypeOK
  <2> QED BY <1>1, <1>3, <1>4, <1>10, <2>1 DEF RestOfFsck, dev
<1> QED BY <1>5, <1>6, <1>7, <1>8, <1>9, <1>10

LEMMA RecoverTyped ==
  ASSUME JournalTyped, UNCHANGED kernel, Recover
  PROVE  JournalTyped'
<1>1. /\ disk \in ShortDevices /\ disk.sb \in Superblocks /\ disk.jsb \in JournalSuperblocks
      /\ disk.jsb.start \in {0} \cup LogBlocks /\ disk.jsb.seq \in Tids
      /\ jsb \in JournalSuperblocks /\ j \in Journals /\ s \in Passes
  BY DeviceParts, JournalSuperChange DEF JournalTyped, TypeOK, Journals
<1>2. j.tail_sequence \in Tids /\ j.transaction_sequence \in Tids /\ s.end_transaction \in Tids
  BY <1>1 DEF Journals, Passes
<1>3. CASE Load
  <2> DEFINE seq == disk.jsb.seq
  <2>1. seq \in Tids /\ NextTid(seq) \in Tids
    BY <1>1, NextTidType
  <2>2. NoJournal \in Journals
    BY NoneTypes DEF Journals
  <2> HIDE DEF seq
  <2>3. /\ [NoJournal EXCEPT !.tail_sequence = seq, !.transaction_sequence = NextTid(seq)] \in Journals
        /\ [NoJournal EXCEPT !.tail_sequence = seq, !.transaction_sequence = seq] \in Journals
    BY <2>1, <2>2 DEF Journals
  <2>4. j' \in Journals
    BY <1>3, <2>3 DEF Load, seq
  <2>5. /\ s' \in Passes /\ (pc' = "pass" => s'.next_log_block # 0 /\ disk.jsb.start # 0)
        /\ pc' \in {"release", "pass"}
    BY <1>1, <1>3, NewPassType, JournalConstants DEF Load
  <2>6. jsb' = disk.jsb /\ revoked' = NoRevokes /\ rc' = "ok" /\ UNCHANGED <<dev, proc, super, hist>>
    BY <1>3 DEF Load
  <2> QED
    BY <1>1, <2>4, <2>5, <2>6, NoneTypes
       DEF JournalTyped, TypeOK, PassTypes, KernelTypes, Journals, dev, proc, super, hist, kernel
<1>4. CASE DoOnePass
  BY <1>4, DoOnePassTyped
<1>5. CASE SyncBlockdev
  <2> DEFINE next == NextTid(s.end_transaction)
  <2>1. next \in Tids
    BY <1>2, NextTidType
  <2>2. j' = [j EXCEPT !.transaction_sequence = next]
    BY <1>5 DEF SyncBlockdev
  <2> HIDE DEF next
  <2>3. j' \in Journals
    BY <1>1, <2>1, <2>2 DEF Journals
  <2>4. stable' \in ShortDevices /\ stable' \in Devices /\ rc' \in {"ok", "failed"}
    BY <1>5 DEF SyncBlockdev, SyncedDevice, JournalTyped, TypeOK
  <2>5. /\ revoked' = NoRevokes /\ s' = NoPass /\ pc' = "release"
        /\ UNCHANGED <<disk, proc, super, jsb, hist>>
    BY <1>5 DEF SyncBlockdev
  <2> QED
    BY <2>3, <2>4, <2>5, NoneTypes
       DEF JournalTyped, TypeOK, PassTypes, KernelTypes, Journals, proc, super, hist, kernel
<1>6. CASE Release
  <2> DEFINE seq == NewTailSequence
             errno == jsb.errno \/ (rc = "ok" /\ j.failed_commit # 0)
             x == [jsb EXCEPT !.start = 0, !.seq = seq, !.errno = errno]
  <2>1. seq \in Tids /\ errno \in BOOLEAN
    BY <1>1, <1>2, JournalSuperChange DEF NewTailSequence
  <2>2. disk' = [disk EXCEPT !.jsb = x]
    BY <1>6 DEF Release
  <2> HIDE DEF seq, errno
  <2>3. x \in JournalSuperblocks
    BY <1>1, <2>1 DEF JournalSuperblocks
  <2> HIDE DEF x
  <2>4. disk' \in ShortDevices
    BY <1>1, <2>2, <2>3, DeviceChange
  <2>5. disk' \in Devices
    BY <2>4, ShortIsDevice
  <2>6. /\ jsb' = NoJsb /\ j' = NoJournal /\ revoked' = NoRevokes /\ pc' = "reopen"
        /\ UNCHANGED <<stable, proc, super, s, rc, hist>>
    BY <1>6 DEF Release
  <2> QED
    BY <2>4, <2>5, <2>6, NoneTypes
       DEF JournalTyped, TypeOK, PassTypes, KernelTypes, proc, super, hist, kernel
<1>7. CASE Reopen
  <2>1. sb' \in Superblocks
    BY <1>1, <1>7, SuperChange DEF Reopen
  <2> QED
    BY <1>7, <2>1 DEF Reopen, JournalTyped, TypeOK, PassTypes, KernelTypes,
                      dev, proc, jrnl, hist, kernel
<1> QED BY <1>3, <1>4, <1>5, <1>6, <1>7 DEF Recover

LEMMA DeviceBlocks ==
  ASSUME NEW d \in ShortDevices
  PROVE  /\ \A b \in FsBlocks, v \in Contents : [d EXCEPT !.fs[b] = v] \in ShortDevices
         /\ \A i \in LogBlocks, r \in ShortRecords : [d EXCEPT !.log[i] = r] \in ShortDevices
<1>1. ASSUME NEW b \in FsBlocks, NEW v \in Contents PROVE [d EXCEPT !.fs[b] = v] \in ShortDevices
  <2>1. [d EXCEPT !.fs[b] = v] = [d EXCEPT !.fs = [d.fs EXCEPT ![b] = v]]
    BY DEF ShortDevices
  <2>2. [d.fs EXCEPT ![b] = v] \in [FsBlocks -> Contents]
    BY <1>1, DeviceParts
  <2> QED BY <2>1, <2>2, DeviceChange
<1>2. ASSUME NEW i \in LogBlocks, NEW r \in ShortRecords
      PROVE  [d EXCEPT !.log[i] = r] \in ShortDevices
  <2>1. [d EXCEPT !.log[i] = r] = [d EXCEPT !.log = [d.log EXCEPT ![i] = r]]
    BY DEF ShortDevices
  <2>2. [d.log EXCEPT ![i] = r] \in [LogBlocks -> ShortRecords]
    BY <1>2, DeviceParts
  <2> QED BY <2>1, <2>2, DeviceChange
<1> QED BY <1>1, <1>2

LEMMA MediumTyped ==
  ASSUME JournalTyped, UNCHANGED kernel, Writeback \/ Crash \/ Damage
  PROVE  JournalTyped'
<1>1. disk \in ShortDevices /\ stable \in ShortDevices
  BY DEF JournalTyped
<1>2. /\ disk.log \in [LogBlocks -> ShortRecords] /\ disk.fs \in [FsBlocks -> Contents]
      /\ disk.jsb \in JournalSuperblocks /\ disk.sb \in Superblocks
  BY <1>1, DeviceParts
<1>3. CASE Writeback
  <2>1. stable' \in ShortDevices
    <3>1. CASE \E b \in FsBlocks : stable' = [stable EXCEPT !.fs[b] = disk.fs[b]]
      BY <1>1, <1>2, <3>1, DeviceBlocks
    <3>2. CASE \E i \in LogBlocks : stable' = [stable EXCEPT !.log[i] = disk.log[i]]
      BY <1>1, <1>2, <3>2, DeviceBlocks
    <3> QED BY <1>1, <1>2, <1>3, <3>1, <3>2, DeviceChange DEF Writeback
  <2>2. stable' \in Devices
    BY <2>1, ShortIsDevice
  <2> QED
    BY <1>3, <2>1, <2>2 DEF Writeback, JournalTyped, TypeOK, PassTypes, KernelTypes,
                            proc, super, jrnl, hist, kernel
<1>4. CASE Crash
  <2>1. [recover |-> FALSE, valid |-> TRUE] \in Superblocks
    BY DEF Superblocks
  <2>2. crashes' \in 0 .. MaxCrashes
    BY <1>4, JournalConstants DEF Crash, JournalTyped, TypeOK
  <2>3. /\ disk' = stable /\ stable' = stable /\ pc' = "off" /\ goal' = "off" /\ tool' = "none"
        /\ sb' \in Superblocks /\ dirty' = FALSE
        /\ jsb' = NoJsb /\ j' = NoJournal /\ revoked' = NoRevokes /\ s' = NoPass /\ rc' = "ok"
        /\ UNCHANGED <<want, n, damage>>
    BY <1>4, <2>1 DEF Crash, Stopped
  <2> QED
    BY <2>2, <2>3, NoneTypes DEF JournalTyped, TypeOK, PassTypes, KernelTypes, kernel
<1>5. CASE Damage
  <2>1. PICK i \in LogBlocks :
          /\ disk' = [disk EXCEPT !.log[i].whole = FALSE, !.log[i].val = Damaged]
          /\ stable' = [stable EXCEPT !.log[i] = disk'.log[i]]
    BY <1>5 DEF Damage
  <2> DEFINE r == [disk.log[i] EXCEPT !.whole = FALSE, !.val = Damaged]
  <2>2. disk.log[i] \in LogRecords /\ Len(disk.log[i].tags) < Last - First
    BY <1>2 DEF ShortRecords
  <2>3. r \in LogRecords /\ r.tags = disk.log[i].tags
    BY <2>2, NoneTypes DEF LogRecords
  <2>4. r \in ShortRecords
    BY <2>2, <2>3 DEF ShortRecords
  <2>5. disk' = [disk EXCEPT !.log[i] = r]
    <3> DEFINE d == [disk EXCEPT !.log[i].whole = FALSE]
               q == [disk.log[i] EXCEPT !.whole = FALSE]
    <3>1. disk' = [d EXCEPT !.log[i].val = Damaged]
      BY <2>1
    <3>2. d = [disk EXCEPT !.log[i] = q] /\ d.log[i] = q /\ r = [q EXCEPT !.val = Damaged]
      BY <1>1, <1>2 DEF ShortDevices
    <3> HIDE DEF q, r
    <3> QED BY <1>1, <1>2, <3>1, <3>2 DEF ShortDevices
  <2> HIDE DEF r
  <2>6. disk' \in ShortDevices
    BY <1>1, <2>4, <2>5, DeviceBlocks
  <2>7. stable' \in ShortDevices
    BY <1>1, <2>1, <2>6, DeviceParts, DeviceBlocks
  <2>8. disk' \in Devices /\ stable' \in Devices
    BY <2>6, <2>7, ShortIsDevice
  <2>9. damage' \in 0 .. MaxDamage
    <3>1. damage < MaxDamage /\ damage' = damage + 1
      BY <1>5 DEF Damage
    <3>2. damage \in 0 .. MaxDamage
      BY DEF JournalTyped, TypeOK
    <3> QED BY <3>1, <3>2, JournalConstants
  <2> QED
    BY <1>5, <2>6, <2>7, <2>8, <2>9, ZenonT(60)
       DEF Damage, JournalTyped, TypeOK, PassTypes, KernelTypes, proc, super, jrnl, kernel
<1> QED BY <1>3, <1>4, <1>5

----------------------------------------------------------------------------
(* The kernel. *)

LEMMA ContentType == ASSUME NEW m \in Nat, NEW b PROVE Content(m, b) \in Contents
<1>1. m \in Int /\ (b \in MagicBlocks) \in BOOLEAN
  OBVIOUS
<1> QED BY <1>1 DEF Content, Contents

LEMMA Joined ==
  ASSUME NEW S, NEW a \in Seq(S), NEW b \in Seq(S)
  PROVE  /\ a \o b \in Seq(S) /\ Len(a \o b) = Len(a) + Len(b) /\ Len(a) \in Nat /\ Len(b) \in Nat
         /\ \A k \in 1 .. Len(a) : (a \o b)[k] = a[k]
         /\ \A k \in Len(a) + 1 .. Len(a) + Len(b) :
              k - Len(a) \in 1 .. Len(b) /\ (a \o b)[k] = b[k - Len(a)]
OBVIOUS

\* What a transaction puts into the log
LEMMA HeaderType ==
  ASSUME NEW t \in Transactions, NEW uuid \in Nat, NEW kind \in {"descriptor", "commit", "revoke"}
  PROVE  Header(kind, t, uuid) \in LogRecords /\ Header(kind, t, uuid).tags = <<>>
<1>1. t.tid \in Tids /\ t.n \in Nat
  BY DEF Transactions
<1>2. Plain \in LogRecords /\ Plain.tags = <<>>
  BY NoneTypes DEF ShortRecords, Plain
<1> HIDE DEF Plain
<1> QED BY <1>1, <1>2 DEF Header, LogRecords

LEMMA BlockTypes ==
  ASSUME NEW t \in Transactions, NEW uuid \in Nat
  PROVE  /\ DescriptorBlock(t, uuid) \in LogRecords
         /\ Len(DescriptorBlock(t, uuid).tags) = Len(t.w)
         /\ RevokeBlock(t, uuid) \in LogRecords /\ RevokeBlock(t, uuid).tags = <<>>
         /\ \A crc \in Seq(Int) : /\ CommitBlock(t, uuid, crc) \in LogRecords
                                  /\ CommitBlock(t, uuid, crc).tags = <<>>
         /\ \A i \in DOMAIN t.w : DataBlock(t, i) \in LogRecords /\ DataBlock(t, i).tags = <<>>
<1>1. t.w \in Seq(FsBlocks) /\ t.r \in SUBSET FsBlocks /\ t.n \in Nat
  BY DEF Transactions
<1>2. ASSUME NEW i \in DOMAIN t.w PROVE Tag(t, i) \in Tags
  <2>1. t.w[i] \in FsBlocks
    BY <1>1, <1>2
  <2> QED BY <1>1, <2>1 DEF Tag, Tags
<1> DEFINE tags == [i \in DOMAIN t.w |-> Tag(t, i)]
<1>3. tags \in Seq(Tags) /\ Len(tags) = Len(t.w)
  <2>1. DOMAIN t.w = 1 .. Len(t.w) /\ Len(t.w) \in Nat
    BY <1>1
  <2> QED BY <1>2, <2>1
<1>4. DescriptorBlock(t, uuid) = [Header("descriptor", t, uuid) EXCEPT !.tags = tags]
  BY DEF DescriptorBlock
<1> HIDE DEF tags
<1>5. DescriptorBlock(t, uuid) \in LogRecords /\ DescriptorBlock(t, uuid).tags = tags
  <2> DEFINE h == Header("descriptor", t, uuid)
  <2>1. h \in LogRecords
    BY HeaderType
  <2>2. DescriptorBlock(t, uuid) = [h EXCEPT !.tags = tags]
    BY <1>4
  <2> HIDE DEF h
  <2> QED BY <1>3, <2>1, <2>2 DEF LogRecords
<1>6. RevokeBlock(t, uuid) \in LogRecords /\ RevokeBlock(t, uuid).tags = <<>>
  <2> DEFINE h == Header("revoke", t, uuid)
             r == t.r
  <2>1. h \in LogRecords /\ h.tags = <<>> /\ r \in SUBSET FsBlocks
    BY <1>1, HeaderType
  <2>2. RevokeBlock(t, uuid) = [h EXCEPT !.revs = r]
    BY DEF RevokeBlock
  <2> HIDE DEF h, r
  <2> QED BY <2>1, <2>2 DEF LogRecords
<1>7. ASSUME NEW crc \in Seq(Int)
      PROVE  CommitBlock(t, uuid, crc) \in LogRecords /\ CommitBlock(t, uuid, crc).tags = <<>>
  <2> DEFINE h == Header("commit", t, uuid)
  <2>1. h \in LogRecords /\ h.tags = <<>>
    BY HeaderType
  <2>2. CommitBlock(t, uuid, crc) = [h EXCEPT !.crc = crc]
    BY DEF CommitBlock
  <2> HIDE DEF h
  <2> QED BY <1>7, <2>1, <2>2 DEF LogRecords
<1>8. ASSUME NEW i \in DOMAIN t.w
      PROVE  DataBlock(t, i) \in LogRecords /\ DataBlock(t, i).tags = <<>>
  <2> DEFINE v == Escaped(Content(t.n, t.w[i]))
             m == t.n
  <2>1. v \in Contents
    <3> DEFINE c == Content(t.n, t.w[i])
    <3>1. c \in Contents
      BY <1>1, ContentType
    <3>2. v = [c EXCEPT !.magic = FALSE]
      BY DEF Escaped
    <3> HIDE DEF c
    <3> QED BY <3>1, <3>2 DEF Contents
  <2>2. Plain \in LogRecords /\ Plain.tags = <<>>
    BY NoneTypes DEF ShortRecords, Plain
  <2>3. DataBlock(t, i) = [Plain EXCEPT !.kind = "data", !.n = m, !.val = v]
    BY DEF DataBlock
  <2>4. m \in Nat
    BY <1>1
  <2> HIDE DEF v, m, Plain
  <2> QED BY <2>1, <2>2, <2>3, <2>4 DEF LogRecords
<1> QED BY <1>3, <1>5, <1>6, <1>7, <1>8

\* A transaction that fits describes less than the whole log.
LEMMA LogOfType ==
  ASSUME NEW t \in Transactions, disk.jsb.uuid \in Nat, Len(LogOf(t)) <= Last - First
  PROVE  LogOf(t) \in Seq(ShortRecords) /\ Len(LogOf(t)) \in Nat
<1> DEFINE uuid == disk.jsb.uuid
           described == Described(t, uuid)
           revoking == Revoking(t, uuid)
           sums == [i \in DOMAIN described |-> t.n]
           crc == IF disk.jsb.csum = "v1" THEN sums ELSE Unused
           commit == CommitBlock(t, uuid, crc)
           data == [i \in DOMAIN t.w |-> DataBlock(t, i)]
<1>1. uuid \in Nat /\ t.w \in Seq(FsBlocks) /\ t.n \in Nat
  BY DEF Transactions
<1>2. data \in Seq(LogRecords) /\ Len(data) = Len(t.w) /\ \A i \in 1 .. Len(t.w) : data[i].tags = <<>>
  <2>1. DOMAIN t.w = 1 .. Len(t.w) /\ Len(t.w) \in Nat
    BY <1>1
  <2>2. \A i \in 1 .. Len(t.w) : DataBlock(t, i) \in LogRecords /\ DataBlock(t, i).tags = <<>>
    BY <1>1, <2>1, BlockTypes
  <2> QED BY <2>1, <2>2
<1>3. /\ DescriptorBlock(t, uuid) \in LogRecords /\ Len(DescriptorBlock(t, uuid).tags) = Len(t.w)
      /\ RevokeBlock(t, uuid) \in LogRecords /\ RevokeBlock(t, uuid).tags = <<>>
  BY <1>1, BlockTypes
<1>4. LogOf(t) = (revoking \o described) \o <<commit>>
  BY DEF LogOf
<1>5. described = IF t.w = <<>> THEN <<>> ELSE <<DescriptorBlock(t, uuid)>> \o data
  BY DEF Described
<1>6. revoking = IF t.r = {} THEN <<>> ELSE <<RevokeBlock(t, uuid)>>
  BY DEF Revoking
<1> HIDE DEF data
<1> DEFINE Fits(bs) == \A k \in 1 .. Len(bs) : Len(bs[k].tags) = 0 \/ Len(bs[k].tags) = Len(t.w)
<1>7. described \in Seq(LogRecords) /\ Fits(described)
      /\ (described = <<>> \/ Len(described) = 1 + Len(t.w))
      /\ (described = <<>> => t.w = <<>>)
  <2>1. CASE t.w = <<>>
    BY <1>5, <2>1
  <2>2. CASE t.w # <<>>
    <3> DEFINE one == <<DescriptorBlock(t, uuid)>>
    <3>1. one \in Seq(LogRecords) /\ Len(one) = 1 /\ one[1] = DescriptorBlock(t, uuid)
      BY <1>3
    <3>2. described = one \o data
      BY <1>5, <2>2
    <3>6. data \in Seq(LogRecords) /\ Len(data) = Len(t.w)
      BY <1>2
    <3> HIDE DEF one, described
    <3>3. described \in Seq(LogRecords) /\ Len(described) = 1 + Len(t.w) /\ described[1] = one[1]
      <4>1. /\ one \o data \in Seq(LogRecords) /\ Len(one \o data) = Len(one) + Len(data)
            /\ \A k \in 1 .. Len(one) : (one \o data)[k] = one[k]
        BY <3>6, <3>1, Joined
      <4>2. 1 \in 1 .. Len(one)
        BY <3>1
      <4> QED BY <3>6, <3>1, <3>2, <4>1, <4>2
    <3>4. ASSUME NEW k \in 1 .. Len(described)
          PROVE  Len(described[k].tags) = 0 \/ Len(described[k].tags) = Len(t.w)
      <4>1. CASE k = 1
        <5>1. described[1] = one[1]
          BY <3>3
        <5> QED BY <1>3, <3>1, <4>1, <5>1
      <4>2. CASE k # 1
        <5>1. k - 1 \in 1 .. Len(t.w) /\ described[k] = data[k - 1]
          BY <1>1, <1>2, <3>1, <3>2, <3>3, <3>4, <4>2
        <5>2. described[k].tags = <<>>
          BY <1>2, <5>1
        <5> QED BY <5>2
      <4> QED BY <4>1, <4>2
    <3>5. Len(described) # 0
      BY <1>1, <3>3
    <3> QED BY <3>3, <3>4, <3>5
  <2> QED BY <2>1, <2>2
<1>8. crc \in Seq(Int)
  <2>1. DOMAIN described = 1 .. Len(described) /\ Len(described) \in Nat
    BY <1>7
  <2>2. sums \in Seq(Int)
    BY <1>1, <2>1
  <2>3. Unused \in Seq(Int)
    BY DEF Unused
  <2> QED BY <2>2, <2>3
<1>9. commit \in LogRecords /\ commit.tags = <<>>
  BY <1>1, <1>8, BlockTypes
<1>10. revoking \in Seq(LogRecords) /\ Fits(revoking)
  <2>1. CASE t.r = {}
    BY <1>6, <2>1
  <2>2. CASE t.r # {}
    <3> DEFINE r == RevokeBlock(t, uuid)
    <3>1. r \in LogRecords /\ Len(r.tags) = 0
      BY <1>3
    <3>2. revoking = <<r>>
      BY <1>6, <2>2
    <3> HIDE DEF r, revoking
    <3> QED BY <3>1, <3>2
  <2> QED BY <2>1, <2>2
<1> HIDE DEF described, revoking, commit, crc
<1> DEFINE bs == revoking \o described
<1>11. bs \in Seq(LogRecords) /\ Len(bs) = Len(revoking) + Len(described)
  BY <1>7, <1>10
<1>12. Fits(bs)
  <2> SUFFICES ASSUME NEW k \in 1 .. Len(bs)
               PROVE  Len(bs[k].tags) = 0 \/ Len(bs[k].tags) = Len(t.w)
    OBVIOUS
  <2>1. Len(revoking) \in Nat /\ Len(described) \in Nat
    BY <1>7, <1>10
  <2>2. CASE k <= Len(revoking)
    <3>1. bs[k] = revoking[k] /\ k \in 1 .. Len(revoking)
      BY <1>7, <1>10, <2>1, <2>2
    <3> QED BY <1>10, <3>1
  <2>3. CASE k > Len(revoking)
    <3>1. bs[k] = described[k - Len(revoking)] /\ k - Len(revoking) \in 1 .. Len(described)
      BY <1>7, <1>10, <1>11, <2>1, <2>3
    <3> QED BY <1>7, <3>1
  <2> QED BY <1>11, <2>1, <2>2, <2>3
<1> DEFINE all == bs \o <<commit>>
<1>13. LogOf(t) = all
  BY <1>4
<1>14. Len(bs) \in Nat /\ Len(described) \in Nat /\ Len(revoking) \in Nat /\ Len(t.w) \in Nat
  BY <1>1, <1>7, <1>10, <1>11
<1> HIDE DEF bs
<1>15. all \in Seq(LogRecords) /\ Len(all) = Len(bs) + 1
  BY <1>9, <1>11
<1>16. Len(t.w) < Last - First
  <2>1. CASE described = <<>>
    BY <1>7, <2>1, JournalConstants
  <2>2. CASE described # <<>>
    BY <1>7, <1>11, <1>13, <1>14, <1>15, <2>2, JournalConstants
  <2> QED BY <2>1, <2>2
<1>17. ASSUME NEW k \in 1 .. Len(all) PROVE all[k] \in ShortRecords
  <2>1. all[k] \in LogRecords
    BY <1>15, <1>17
  <2>2. CASE k <= Len(bs)
    <3>1. all[k] = bs[k] /\ k \in 1 .. Len(bs)
      BY <1>9, <1>11, <1>14, <1>15, <1>17, <2>2
    <3>2. Len(bs[k].tags) = 0 \/ Len(bs[k].tags) = Len(t.w)
      BY <1>12, <3>1
    <3> QED BY <1>14, <1>16, <2>1, <3>1, <3>2, JournalConstants DEF ShortRecords
  <2>3. CASE k > Len(bs)
    <3>1. all[k] = commit
      BY <1>9, <1>11, <1>14, <1>15, <1>17, <2>3
    <3>2. Len(commit.tags) = 0
      BY <1>9
    <3> QED BY <2>1, <3>1, <3>2, JournalConstants DEF ShortRecords
  <2> QED BY <1>14, <1>15, <2>2, <2>3
<1> HIDE DEF all
<1>18. all \in Seq(ShortRecords)
  BY <1>15, <1>17
<1> QED BY <1>13, <1>14, <1>15, <1>18

LEMMA LaidType ==
  ASSUME NEW log \in [LogBlocks -> ShortRecords], NEW i, NEW bs \in Seq(ShortRecords),
         NEW S \in SUBSET (DOMAIN bs)
  PROVE  Laid(log, i, bs, S) \in [LogBlocks -> ShortRecords]
<1> SUFFICES ASSUME NEW p \in LogBlocks
             PROVE  (IF \E k \in S : p = After(i, k - 1)
                     THEN bs[CHOOSE k \in S : p = After(i, k - 1)] ELSE log[p]) \in ShortRecords
  BY DEF Laid
<1>1. CASE \E k \in S : p = After(i, k - 1)
  <2> DEFINE c == CHOOSE k \in S : p = After(i, k - 1)
  <2>1. c \in S
    BY <1>1
  <2>2. c \in DOMAIN bs
    BY <2>1
  <2> HIDE DEF c
  <2>3. bs[c] \in ShortRecords
    BY <2>2
  <2> QED BY <1>1, <2>3 DEF c
<1>2. CASE ~\E k \in S : p = After(i, k - 1)
  BY <1>2
<1> QED BY <1>1, <1>2

\* A step of the kernel writes a device and leaves the tools alone.
LEMMA WrittenTyped ==
  ASSUME JournalTyped, NEW d \in ShortDevices, Written(d), UNCHANGED <<tooling, crashes, damage>>,
         pc' \in {"off", "mounted"}, KernelTypes', want' \in [FsBlocks -> Contents], n' \in Nat
  PROVE  JournalTyped'
<1>1. d \in Devices
  BY ShortIsDevice
<1> QED BY <1>1 DEF JournalTyped, TypeOK, PassTypes, Written, tooling, proc, super, jrnl

LEMMA NoKernelTypes == ASSUME NoKernel PROVE KernelTypes'
BY JournalConstants DEF NoKernel, KernelTypes

\* A commit, whole or torn
LEMMA CommitWrites ==
  ASSUME JournalTyped, NEW x \in Shapes, Room(NewTransaction(x)),
         NEW S \in SUBSET (DOMAIN LogOf(NewTransaction(x)))
  PROVE  /\ NewTransaction(x) \in Transactions /\ NewTransaction(x).n = n + 1
         /\ After(head, Len(LogOf(NewTransaction(x)))) \in LogBlocks
         /\ [disk EXCEPT !.jsb = Started, !.log = Laid(@, head, LogOf(NewTransaction(x)), S)]
              \in ShortDevices
<1> DEFINE t == NewTransaction(x)
<1>1. /\ disk \in ShortDevices /\ head \in LogBlocks /\ tid \in Tids /\ live \in Seq(Transactions)
      /\ n \in Nat
  BY DEF JournalTyped, TypeOK, KernelTypes
<1>2. /\ disk.jsb \in JournalSuperblocks /\ disk.log \in [LogBlocks -> ShortRecords]
      /\ disk.jsb.uuid \in Nat
  BY <1>1, DeviceParts DEF JournalSuperblocks
<1>3. x.w \in Seq(FsBlocks) /\ x.r \in SUBSET FsBlocks
  BY KernelAssumption
<1>4. t \in Transactions /\ t.n = n + 1
  BY <1>1, <1>3 DEF NewTransaction, Transactions
<1>5. Used \in Nat
  <2>1. CASE live = <<>>
    BY <2>1 DEF Used
  <2>2. CASE live # <<>>
    <3>1. live[1] \in Transactions
      BY <1>1, <2>2
    <3>2. live[1].start \in LogBlocks
      BY <3>1 DEF Transactions
    <3>3. PICK start \in LogBlocks : start = live[1].start
      BY <3>2
    <3>4. Used = IF head > start THEN head - start ELSE (Last - First) - (start - head)
      BY <2>2, <3>3 DEF Used
    <3>5. First \in Nat /\ Last \in Nat /\ head \in First .. Last - 1 /\ start \in First .. Last - 1
      BY <1>1, JournalConstants DEF LogBlocks
    <3> QED BY <3>4, <3>5
  <2> QED BY <2>1, <2>2
<1>6. Used + Len(LogOf(t)) <= Last - First
  BY DEF Room
<1> HIDE DEF t
<1>7. Len(LogOf(t)) \in Nat
  BY <1>4 DEF LogOf
<1>8. Len(LogOf(t)) <= Last - First
  BY <1>5, <1>6, <1>7, JournalConstants
<1>9. LogOf(t) \in Seq(ShortRecords)
  BY <1>2, <1>4, <1>8, LogOfType
<1>10. After(head, Len(LogOf(t))) \in LogBlocks
  BY <1>1, <1>7, <1>8, AfterType, JournalConstants
<1>11. Started \in JournalSuperblocks
  BY <1>1, <1>2 DEF Started, JournalSuperblocks
<1> DEFINE log == Laid(disk.log, head, LogOf(t), S)
           d == [disk EXCEPT !.jsb = Started]
<1>12. log \in [LogBlocks -> ShortRecords]
  BY <1>2, <1>9, LaidType DEF t
<1>13. d \in ShortDevices
  BY <1>1, <1>11, DeviceChange
<1>14. d.log = disk.log
  BY <1>1 DEF ShortDevices
<1>15. [disk EXCEPT !.jsb = Started, !.log = Laid(@, head, LogOf(t), S)] = [d EXCEPT !.log = log]
  BY <1>1, <1>14 DEF ShortDevices
<1> HIDE DEF log, d
<1>16. [d EXCEPT !.log = log] \in ShortDevices
  BY <1>12, <1>13, DeviceChange
<1> QED BY <1>4, <1>10, <1>15, <1>16 DEF t

LEMMA KernelTyped ==
  ASSUME JournalTyped, Kernel
  PROVE  JournalTyped'
<1>1. /\ disk \in ShortDevices /\ head \in LogBlocks /\ tid \in Tids /\ live \in Seq(Transactions)
      /\ n \in Nat /\ n + 1 \in Nat /\ want \in [FsBlocks -> Contents] /\ KernelTypes
  BY DEF JournalTyped, TypeOK, KernelTypes
<1>2. /\ disk.jsb \in JournalSuperblocks /\ disk.log \in [LogBlocks -> ShortRecords]
      /\ disk.fs \in [FsBlocks -> Contents] /\ disk.sb \in Superblocks /\ disk.jsb.seq \in Tids
  BY <1>1, DeviceParts, JournalSuperChange
<1>3. CASE Mount
  <2> DEFINE d == [disk EXCEPT !.sb.recover = TRUE]
  <2>1. d = [disk EXCEPT !.sb = [disk.sb EXCEPT !.recover = TRUE]]
    BY <1>1 DEF ShortDevices
  <2>2. d \in ShortDevices
    BY <1>1, <1>2, <2>1, SuperChange, DeviceChange
  <2>3. KernelTypes'
    BY <1>2, <1>3, NextTidType, JournalConstants DEF Mount, KernelTypes
  <2>4. Written(d) /\ pc' = "mounted" /\ UNCHANGED <<tooling, hist>>
    BY <1>3 DEF Mount
  <2> HIDE DEF d
  <2> QED BY <1>1, <2>2, <2>3, <2>4, WrittenTyped DEF hist
<1>4. CASE KernelCommit
  <2>1. PICK x \in Shapes :
          LET t == NewTransaction(x) IN
          /\ Room(t)
          /\ Written([disk EXCEPT !.jsb = Started,
                        !.log = Laid(@, head, LogOf(t), DOMAIN LogOf(t))])
          /\ live' = Append(live, t) /\ head' = After(head, Len(LogOf(t))) /\ tid' = NextTid(tid)
          /\ want' = WantAfter(t) /\ n' = t.n
    BY <1>4 DEF KernelCommit
  <2> DEFINE t == NewTransaction(x)
             d == [disk EXCEPT !.jsb = Started, !.log = Laid(@, head, LogOf(t), DOMAIN LogOf(t))]
  <2>2. t \in Transactions /\ t.n = n + 1 /\ After(head, Len(LogOf(t))) \in LogBlocks
        /\ d \in ShortDevices
    BY <2>1, CommitWrites
  <2> HIDE DEF d, t
  <2>3. Written(d) /\ live' = Append(live, t) /\ head' = After(head, Len(LogOf(t)))
        /\ tid' = NextTid(tid) /\ want' = WantAfter(t) /\ n' = t.n
    BY <2>1 DEF d, t
  <2>4. Append(live, t) \in Seq(Transactions)
    BY <1>1, <2>2
  <2>5. KernelTypes'
    BY <1>1, <2>2, <2>3, <2>4, NextTidType DEF KernelTypes
  <2>6. WantAfter(t) \in [FsBlocks -> Contents]
    <3>1. \A b : Content(t.n, b) \in Contents
      BY <1>1, <2>2, ContentType
    <3> QED BY <1>1, <1>2, <3>1 DEF WantAfter
  <2>7. pc' = "mounted" /\ UNCHANGED <<tooling, crashes, damage>>
    BY <1>4 DEF KernelCommit
  <2> QED BY <1>1, <2>2, <2>3, <2>5, <2>6, <2>7, WrittenTyped
<1>5. CASE TornCommit
  <2>1. PICK x \in Shapes :
          LET t == NewTransaction(x)
              all == DOMAIN LogOf(t)
              early == IF disk.jsb.async THEN all ELSE all \ {Len(LogOf(t))}
          IN /\ Room(t)
             /\ \E S \in SUBSET early :
                  Written([disk EXCEPT !.jsb = Started, !.log = Laid(@, head, LogOf(t), S)])
             /\ n' = t.n
    BY <1>5 DEF TornCommit
  <2> DEFINE t == NewTransaction(x)
             d(S) == [disk EXCEPT !.jsb = Started, !.log = Laid(@, head, LogOf(t), S)]
  <2>2. PICK S \in SUBSET (DOMAIN LogOf(t)) : Written(d(S))
    BY <2>1
  <2>3. t.n = n + 1 /\ d(S) \in ShortDevices
    BY <2>1, CommitWrites
  <2>4. n' = n + 1
    BY <2>1, <2>3
  <2> HIDE DEF d, t
  <2>5. KernelTypes' /\ pc' = "off" /\ UNCHANGED <<tooling, want, crashes, damage>>
    BY <1>5, NoKernelTypes DEF TornCommit
  <2> QED BY <1>1, <2>2, <2>3, <2>4, <2>5, WrittenTyped
<1>6. CASE PowerFail
  <2>1. KernelTypes' /\ pc' = "off" /\ UNCHANGED <<dev, tooling, hist>>
    BY <1>6, NoKernelTypes DEF PowerFail
  <2> QED
    BY <2>1 DEF JournalTyped, TypeOK, PassTypes, dev, tooling, proc, super, jrnl, hist
<1>7. CASE DirectWrite
  <2> DEFINE v(b) == Content(n + 1, b)
             d(b) == [disk EXCEPT !.fs[b] = v(b)]
  <2>1. PICK b \in FsBlocks : Written(d(b)) /\ want' = [want EXCEPT ![b] = v(b)]
    BY <1>7 DEF DirectWrite
  <2>2. v(b) \in Contents
    BY <1>1, ContentType
  <2> HIDE DEF v
  <2>3. d(b) \in ShortDevices /\ want' \in [FsBlocks -> Contents]
    BY <1>1, <2>1, <2>2, DeviceBlocks
  <2> HIDE DEF d
  <2>4. pc' = "mounted" /\ n' = n + 1 /\ UNCHANGED <<tooling, crashes, damage, kernel>>
    BY <1>7 DEF DirectWrite
  <2>5. KernelTypes'
    BY <1>1, <2>4 DEF KernelTypes, kernel
  <2> QED BY <1>1, <2>1, <2>3, <2>4, <2>5, WrittenTyped
<1>8. CASE Checkpoint
  <2> DEFINE later(b) == \E k \in 2 .. Len(live) : WritesTo(live[k], b) \/ b \in live[k].r
             fs == [b \in FsBlocks |-> IF WritesTo(live[1], b) /\ ~later(b)
                                       THEN Content(live[1].n, b) ELSE disk.fs[b]]
             start == IF Len(live) > 1 THEN live[2].start ELSE head
             seq == IF Len(live) > 1 THEN live[2].tid ELSE tid
             d == [disk EXCEPT !.fs = fs]
             e == [d EXCEPT !.jsb.start = start]
  <2>1. /\ live # <<>> /\ Written([e EXCEPT !.jsb.seq = seq]) /\ live' = Tail(live)
        /\ pc' = "mounted" /\ UNCHANGED <<tooling, hist, head, tid>>
    BY <1>8 DEF Checkpoint
  <2>2. live[1] \in Transactions /\ (Len(live) > 1 => live[2] \in Transactions)
    BY <1>1, <2>1
  <2>3. start \in LogBlocks /\ seq \in Tids /\ live[1].n \in Nat
    BY <1>1, <2>2 DEF Transactions
  <2>4. fs \in [FsBlocks -> Contents]
    <3>1. \A b : Content(live[1].n, b) \in Contents
      BY <2>3, ContentType
    <3> QED BY <1>2, <3>1
  <2> HIDE DEF fs, start, seq
  <2>5. d \in ShortDevices
    BY <1>1, <2>4, DeviceChange
  <2> HIDE DEF d
  <2>6. e \in ShortDevices
    BY <2>3, <2>5, DeviceStart
  <2> HIDE DEF e
  <2>7. [e EXCEPT !.jsb.seq = seq] \in ShortDevices
    BY <2>3, <2>6, DeviceSeq
  <2>8. Tail(live) \in Seq(Transactions)
    BY <1>1, <2>1
  <2>9. KernelTypes'
    BY <1>1, <2>1, <2>8 DEF KernelTypes
  <2> QED BY <1>1, <2>1, <2>7, <2>9, WrittenTyped DEF hist
<1>9. CASE Unmount
  <2> DEFINE d == [disk EXCEPT !.jsb.start = 0]
             e == [d EXCEPT !.jsb.seq = tid]
             f == [e EXCEPT !.sb.recover = FALSE]
  <2>1. Written(f) /\ pc' = "off" /\ NoKernel /\ UNCHANGED <<tooling, hist>>
    BY <1>9 DEF Unmount
  <2>2. d \in ShortDevices
    BY <1>1, DeviceStart
  <2> HIDE DEF d
  <2>3. e \in ShortDevices
    BY <1>1, <2>2, DeviceSeq
  <2> HIDE DEF e
  <2>4. f = [e EXCEPT !.sb = [e.sb EXCEPT !.recover = FALSE]]
    BY <2>3 DEF ShortDevices
  <2>5. f \in ShortDevices
    BY <2>3, <2>4, DeviceParts, SuperChange, DeviceChange
  <2> HIDE DEF f
  <2> QED BY <1>1, <2>1, <2>5, NoKernelTypes, WrittenTyped DEF hist
<1>10. CASE Mkfs
  <2> DEFINE fs == [b \in FsBlocks |-> Content(n + 1, b)]
             d(format) == [log |-> disk.log, fs |-> fs, jsb |-> NewJsb(format, 2),
                           sb |-> [recover |-> FALSE, valid |-> TRUE]]
  <2>1. PICK format \in Formats : Written(d(format)) /\ want' = fs
    BY <1>10 DEF Mkfs
  <2>2. fs \in [FsBlocks -> Contents]
    BY <1>1, ContentType
  <2> HIDE DEF fs
  <2>3. NewJsb(format, 2) \in JournalSuperblocks
    BY JournalConstants DEF NewJsb, JournalSuperblocks
  <2>4. [recover |-> FALSE, valid |-> TRUE] \in Superblocks
    BY DEF Superblocks
  <2>5. d(format) \in ShortDevices
    BY <1>2, <2>2, <2>3, <2>4 DEF ShortDevices
  <2> HIDE DEF d
  <2>6. pc' = "off" /\ n' = n + 1 /\ UNCHANGED <<tooling, crashes, damage, live, head, tid>>
    BY <1>10 DEF Mkfs
  <2>7. KernelTypes'
    BY <1>1, <2>6 DEF KernelTypes
  <2> QED BY <1>1, <2>1, <2>2, <2>5, <2>6, <2>7, WrittenTyped
<1> QED BY <1>3, <1>4, <1>5, <1>6, <1>7, <1>8, <1>9, <1>10 DEF Kernel

LEMMA InitTyped == ASSUME KInit PROVE JournalTyped
<1>1. PICK format \in Formats : disk = InitDevice(format)
  BY DEF KInit, RecoveryInit
<1> DEFINE log == [i \in LogBlocks |-> Plain]
           fs == [b \in FsBlocks |-> Content(0, b)]
<1>2. log \in [LogBlocks -> ShortRecords] /\ fs \in [FsBlocks -> Contents]
  BY NoneTypes, ContentType
<1>3. NewJsb(format, 1) \in JournalSuperblocks
  BY JournalConstants DEF NewJsb, JournalSuperblocks
<1>4. [recover |-> FALSE, valid |-> TRUE] \in Superblocks
  BY DEF Superblocks
<1>5. disk = [log |-> log, fs |-> fs, jsb |-> NewJsb(format, 1),
              sb |-> [recover |-> FALSE, valid |-> TRUE]]
  BY <1>1 DEF InitDevice
<1> HIDE DEF log, fs
<1>6. disk \in ShortDevices /\ disk.fs \in [FsBlocks -> Contents]
  BY <1>2, <1>3, <1>4, <1>5 DEF ShortDevices
<1>7. disk \in Devices /\ stable = disk
  BY <1>6, ShortIsDevice DEF KInit, RecoveryInit
<1>8. KernelTypes
  BY JournalConstants DEF KInit, KernelTypes
<1>9. /\ pc = "off" /\ goal = "off" /\ tool = "none" /\ dirty = FALSE /\ rc = "ok"
      /\ sb \in Superblocks /\ jsb = NoJsb /\ j = NoJournal /\ revoked = NoRevokes /\ s = NoPass
      /\ want = disk.fs /\ n = 0 /\ crashes = 0 /\ damage = 0
  BY <1>4 DEF KInit, RecoveryInit
<1>10. crashes \in 0 .. MaxCrashes /\ damage \in 0 .. MaxDamage /\ n \in Nat
  BY <1>9, JournalConstants
<1> QED
  BY <1>6, <1>7, <1>8, <1>9, <1>10, NoneTypes DEF JournalTyped, TypeOK, PassTypes

\* Recovery keeps its types whatever faults, crashes and damage it meets: in
\* particular no pass of do_one_pass leaves the log, although it wraps only
\* once for a descriptor and all that it describes, since a transaction that
\* was given room describes less than the whole log.
THEOREM RecoveryTypeCorrect == Spec => []TypeOK
<1>1. ASSUME JournalTyped, [Next]_kvars PROVE JournalTyped'
  <2>1. CASE UNCHANGED kvars
    BY <1>1, <2>1 DEF JournalTyped, TypeOK, PassTypes, KernelTypes, kvars, vars,
                      dev, proc, super, jrnl, hist, kernel
  <2>2. CASE Tool
    BY <1>1, <2>2, CheckTyped, FlushTyped, RecoverTyped, MediumTyped DEF Tool, E2fsck
  <2> QED BY <1>1, <2>1, <2>2, KernelTyped DEF Next
<1>2. JournalTyped => TypeOK
  BY DEF JournalTyped
<1> QED BY <1>1, <1>2, InitTyped, PTL DEF Spec
=============================================================================
