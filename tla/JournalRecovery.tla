--------------------------- MODULE JournalRecovery --------------------------
(***************************************************************************)
(* Journal recovery by e2fsck and debugfs (e2fsck/recovery.c,              *)
(* e2fsck/journal.c, debugfs/journal.c): the three passes over the log,    *)
(* one step per log block read and per tag replayed, then the sync, the    *)
(* release of the journal superblock, the reopening of the file system     *)
(* and the clearing of needs_recovery, each with its place in the order    *)
(* in which things reach the disk.                                         *)
(*                                                                         *)
(* disk is what the tools read back, stable is what survives a crash.      *)
(* want is a history variable: the contents the file system must have once *)
(* every committed transaction has been replayed.  n numbers the writes.   *)
(***************************************************************************)
EXTENDS Jbd2

CONSTANTS
  Faults,       \* which I/O may fail: "read" (a log block), "described" (a log block
                \* being summed), "write" (a replayed block), "sync", "log"
  MaxDamage,    \* bound on log blocks damaged on the medium
  MaxCrashes,   \* bound on crashes while a tool runs
  Formats       \* the journals mke2fs may have made: checksum feature csum,
                \* async_commit async, s_sequence seq (which mke2fs sets to 1;
                \* another value stands for a journal with a past)

ASSUME RecoveryAssumption ==
  /\ Faults \subseteq {"read", "described", "write", "sync", "log"}
  /\ MaxDamage \in Nat /\ MaxCrashes \in Nat
  /\ Formats \subseteq [csum : Checksums, async : BOOLEAN, seq : Tids]
  /\ \A f \in Formats : f.async => f.csum # "none"

VARIABLES
  disk, stable,  \* [log, fs, jsb, sb] as read back, and as after a crash
  pc, goal,      \* where the running tool is; where ext2fs_flush returns to
  tool,          \* "e2fsck" or "debugfs"
  sb, dirty,     \* fs->super in memory, EXT2_FLAG_DIRTY; sb.valid means
                 \* EXT2_VALID_FS set and EXT2_ERROR_FS clear
  jsb, j,        \* journal->j_superblock and the rest of journal_t
  revoked,       \* journal->j_revoke
  s,             \* the locals of do_one_pass and info.end_transaction
  rc,            \* recover_retval
  want, n, crashes, damage

dev == <<disk, stable>>
proc == <<goal, tool>>
super == <<sb, dirty>>
jrnl == <<jsb, j, revoked>>
hist == <<want, n, crashes, damage>>
vars == <<dev, pc, proc, super, jrnl, s, rc, hist>>

NoJsb ==
  [start |-> 0, seq |-> 0, errno |-> FALSE, uuid |-> 0, csum |-> "none", async |-> FALSE]

\* The journal superblock that mke2fs writes.
NewJsb(format, uuid) ==
  [start |-> 0, seq |-> format.seq, errno |-> FALSE, uuid |-> uuid,
   csum |-> format.csum, async |-> format.async]
\* j_failed_commit is 0 for none, although 0 is an identifier.
NoJournal == [tail_sequence |-> 0, transaction_sequence |-> 0, failed_commit |-> 0]

\* The state do_one_pass starts from; end is info.end_transaction.
NewPass(pass, super_block, end) ==
  [pass |-> pass, next_commit_ID |-> super_block.seq, next_log_block |-> super_block.start,
   success |-> TRUE, need_check_commit_time |-> FALSE, last_time |-> 0, crc |-> <<>>,
   tags |-> <<>>, end_transaction |-> end]
NoPass == NewPass("none", NoJsb, 0)

----------------------------------------------------------------------------
(* ext2fs_flush: everything else first, then the superblock, then a sync.  *)

FlushBefore_Nothing == stable
FlushBefore == disk

FlushOthers ==
  /\ pc = "flush"
  /\ stable' = FlushBefore
  /\ pc' = "super"
  /\ UNCHANGED <<disk, proc, super, jrnl, s, rc, hist>>

WriteSuper ==
  /\ pc = "super"
  /\ disk' = [disk EXCEPT !.sb = sb]
  /\ dirty' = FALSE
  /\ pc' = "synced"
  /\ UNCHANGED <<stable, proc, sb, jrnl, s, rc, hist>>

FlushAll ==
  /\ pc = "synced"
  /\ stable' = disk
  /\ pc' = goal
  /\ sb' = IF goal = "check" THEN disk.sb ELSE sb
  /\ UNCHANGED <<disk, proc, dirty, jrnl, s, rc, hist>>

----------------------------------------------------------------------------
(* e2fsck_check_ext3_journal and ext2fs_check_ext3_journal.                *)

Fsck ==
  /\ pc = "off"
  /\ pc' = "check"
  /\ tool' = "e2fsck"
  /\ sb' = disk.sb
  /\ dirty' = FALSE
  /\ UNCHANGED <<dev, goal, jrnl, s, rc, hist>>

\* What follows the check: recovery if it is called for, the rest of e2fsck
\* or the debugfs prompt if not.
Proceed(super_block, is_dirty) ==
  IF pc = "recheck"
  THEN IF tool = "e2fsck" THEN pc' = "flush" /\ goal' = "check"
                          ELSE pc' = "prompt" /\ goal' = goal
  ELSE IF super_block.recover
       THEN pc' = (IF is_dirty THEN "flush" ELSE "load") /\ goal' = "load"
       ELSE pc' = "passes" /\ goal' = goal

\* The superblock takes over the error the journal recorded.
ErrnoPropagated(super_block) ==
  [super_block EXCEPT !.valid = @ /\ ~(disk.jsb.errno /\ ~super_block.recover)]

CheckJournal ==
  /\ pc \in {"check", "recheck"}
  /\ sb.recover \/ disk.jsb.start = 0
  /\ sb' = ErrnoPropagated(sb)
  /\ dirty' = (dirty \/ (disk.jsb.errno /\ ~sb.recover))
  /\ disk' = [disk EXCEPT !.jsb.errno = @ /\ sb.recover]
  /\ Proceed(sb, dirty')
  /\ UNCHANGED <<stable, tool, jrnl, s, rc, hist>>

\* A log that is not empty in a file system that does not ask for recovery:
\* the user has it run (the full check that E2F_OPT_FORCE then brings is not
\* told apart from the rest of e2fsck),
RunDoubtfulJournal ==
  /\ pc = "check"
  /\ ~sb.recover /\ disk.jsb.start # 0
  /\ sb' = [sb EXCEPT !.recover = TRUE]
  /\ dirty' = TRUE
  /\ Proceed(sb', TRUE)
  /\ UNCHANGED <<dev, tool, jrnl, s, rc, hist>>

\* or reset, and then a full check is due,
ResetDoubtfulJournal ==
  /\ pc = "check"
  /\ ~sb.recover /\ disk.jsb.start # 0
  /\ sb' = ErrnoPropagated([sb EXCEPT !.valid = FALSE])
  /\ dirty' = TRUE
  /\ disk' = [disk EXCEPT !.jsb.start = 0, !.jsb.errno = FALSE]
  /\ Proceed(sb', TRUE)
  /\ UNCHANGED <<stable, tool, jrnl, s, rc, hist>>

\* or left alone.
IgnoreDoubtfulJournal ==
  /\ pc = "check"
  /\ ~sb.recover /\ disk.jsb.start # 0
  /\ sb' = ErrnoPropagated(sb)
  /\ dirty' = (dirty \/ disk.jsb.errno)
  /\ disk' = [disk EXCEPT !.jsb.errno = FALSE]
  /\ Proceed(sb, dirty')
  /\ UNCHANGED <<stable, tool, jrnl, s, rc, hist>>

\* The rest of e2fsck, seen from the journal: a file system that is not
\* valid is repaired, and what it then holds is what it should hold.
RestOfFsck ==
  /\ pc = "passes"
  /\ want' = IF sb.valid THEN want ELSE disk.fs
  /\ sb' = [sb EXCEPT !.valid = TRUE]
  /\ pc' = "flush"
  /\ goal' = "off"
  /\ UNCHANGED <<dev, tool, dirty, jrnl, s, rc, n, crashes, damage>>

----------------------------------------------------------------------------
(* recover_ext3_journal up to the first pass.                              *)

Load ==
  /\ pc = "load"
  /\ jsb' = disk.jsb
  /\ revoked' = NoRevokes
  /\ rc' = "ok"
  /\ LET seq == disk.jsb.seq IN
     IF disk.jsb.start = 0
     THEN /\ j' = [NoJournal EXCEPT !.tail_sequence = seq,
                                    !.transaction_sequence = NextTid(seq)]
          /\ pc' = "release"
          /\ s' = s
     ELSE /\ j' = [NoJournal EXCEPT !.tail_sequence = seq, !.transaction_sequence = seq]
          /\ pc' = "pass"
          /\ s' = NewPass("scan", disk.jsb, 0)
  /\ UNCHANGED <<dev, proc, super, hist>>

----------------------------------------------------------------------------
(* do_one_pass. *)

CurrentBlock == disk.log[s.next_log_block]

AtKnownEnd == s.pass # "scan" /\ tid_geq(s.next_commit_ID, s.end_transaction)

\* The loop reads a log block that is a header with the expected identifier.
AtHeader(kind) ==
  /\ pc = "pass" /\ s.tags = <<>> /\ ~AtKnownEnd
  /\ CurrentBlock.kind = kind
  /\ CurrentBlock.tid = s.next_commit_ID

\* The loop reads anything else: the current transaction ends the log.
AtEnd ==
  /\ pc = "pass" /\ s.tags = <<>>
  /\ \/ AtKnownEnd
     \/ ~IsHeader(CurrentBlock)
     \/ CurrentBlock.tid # s.next_commit_ID

Continue(t) == s' = t /\ UNCHANGED <<dev, pc, proc, super, jrnl, rc, hist>>

\* do_one_pass returns an error: no further pass.
PassFails ==
  /\ pc' = "sync"
  /\ rc' = "failed"
  /\ s' = [NoPass EXCEPT !.end_transaction = s.end_transaction]
  /\ UNCHANGED <<dev, proc, super, jrnl, hist>>

\* do_one_pass returns 0.
PassSucceeds(end) ==
  /\ pc' = IF s.pass = "replay" THEN "sync" ELSE "pass"
  /\ s' = IF s.pass = "replay" THEN [NoPass EXCEPT !.end_transaction = end]
          ELSE NewPass(IF s.pass = "scan" THEN "revoke" ELSE "replay", jsb, end)
  /\ UNCHANGED <<dev, proc, super, jrnl, rc, hist>>

\* The label done.  0 means that info.end_transaction is not known yet.
EndOfScan ==
  PassSucceeds(IF s.end_transaction = 0 THEN s.next_commit_ID ELSE s.end_transaction)

EndOfPass ==
  /\ AtEnd
  /\ IF s.pass = "scan" THEN EndOfScan
     ELSE IF s.success /\ s.end_transaction = s.next_commit_ID
          THEN PassSucceeds(s.end_transaction) ELSE PassFails

HeaderUnreadable ==
  /\ "read" \in Faults
  /\ pc = "pass" /\ s.tags = <<>> /\ ~AtKnownEnd
  /\ PassFails

Skip(t, k) == [t EXCEPT !.next_log_block = After(@, k)]

\* calc_chksums: the CRC runs over the descriptor and the first k blocks it
\* describes.
RunningCrc(k) ==
  s.crc \o <<Stamp(CurrentBlock)>>
        \o [i \in 1 .. k |-> Stamp(disk.log[After(s.next_log_block, i)])]

SumsDescribed(suspect) ==
  s.pass = "scan" /\ jsb.csum = "v1" /\ ~suspect /\ s.end_transaction = 0

Descriptor ==
  /\ AtHeader("descriptor")
  /\ s.pass # "replay"
  /\ LET bad == ~HeaderSumOK(CurrentBlock, jsb)
         suspect == s.need_check_commit_time \/ (bad /\ s.pass = "scan")
         count == Len(CurrentBlock.tags)
     IN IF bad /\ s.pass # "scan" THEN PassFails
        ELSE Continue([Skip(s, 1 + count) EXCEPT
               !.need_check_commit_time = suspect,
               !.crc = IF SumsDescribed(suspect) THEN RunningCrc(count) ELSE @])

\* calc_chksums cannot read block k: the scan goes on behind that block.
DescribedUnreadable ==
  /\ "described" \in Faults
  /\ AtHeader("descriptor")
  /\ SumsDescribed(s.need_check_commit_time)
  /\ \E k \in 1 .. Len(CurrentBlock.tags) :
       Continue([Skip(s, 1 + k) EXCEPT !.crc = RunningCrc(k - 1)])

ReplayDescriptor ==
  /\ AtHeader("descriptor")
  /\ s.pass = "replay"
  /\ IF HeaderSumOK(CurrentBlock, jsb)
     THEN Continue([Skip(s, 1) EXCEPT !.tags = CurrentBlock.tags])
     ELSE PassFails

\* The loop over the tags of a descriptor.
AtTag == pc = "pass" /\ s.tags # <<>>
NextTag_Stuck(success) == [s EXCEPT !.success = @ /\ success]
NextTag(success) ==
  [Skip(s, 1) EXCEPT !.tags = Tail(@), !.success = @ /\ success]

TagRevoked ==
  jbd2_journal_test_revoke(revoked, Head(s.tags).blk, s.next_commit_ID)

ReplayRevoked ==
  /\ AtTag
  /\ TagRevoked
  /\ Continue(NextTag(TRUE))

ReplayBadSum ==
  /\ AtTag
  /\ ~TagRevoked
  /\ ~TagSumOK(Head(s.tags), CurrentBlock, jsb)
  /\ Continue(NextTag(FALSE))

ReplayUnreadable ==
  /\ "read" \in Faults
  /\ AtTag
  /\ Continue(NextTag(FALSE))

\* getblk, the copy and brelse, which writes the block.
ReplayBlock ==
  /\ AtTag
  /\ ~TagRevoked
  /\ TagSumOK(Head(s.tags), CurrentBlock, jsb)
  /\ disk' = [disk EXCEPT !.fs[Head(s.tags).blk] =
                Restored(CurrentBlock.val, Head(s.tags).escape)]
  /\ s' = NextTag(TRUE)
  /\ UNCHANGED <<stable, pc, proc, super, jrnl, rc, hist>>

\* brelse ignores what ll_rw_block left in b_err.
ReplayWriteError ==
  /\ "write" \in Faults
  /\ AtTag
  /\ ~TagRevoked
  /\ TagSumOK(Head(s.tags), CurrentBlock, jsb)
  /\ Continue(NextTag(TRUE))

----------------------------------------------------------------------------
(* Commit and revoke blocks. *)

NextCommit(t) == [t EXCEPT !.next_commit_ID = NextTid(@)]

\* A descriptor or revoke block of this transaction had a bad checksum: the
\* journal is damaged, or this is what an older journal left behind.
SuspectCommit ==
  /\ AtHeader("commit")
  /\ s.need_check_commit_time
  /\ IF CommitTime(CurrentBlock) >= s.last_time THEN PassFails ELSE EndOfScan

\* Under v1 the checksum matches, or is unused.
CommitSumOK ==
  IF jsb.csum = "v1" THEN CurrentBlock.crc \in {s.crc, Unused} ELSE HeaderSumOK(CurrentBlock, jsb)

\* An earlier transaction failed its checksum and another commit follows:
\* that was damage, not an interrupted commit.
CommitAfterFailure ==
  /\ AtHeader("commit")
  /\ ~s.need_check_commit_time
  /\ s.pass = "scan" /\ jsb.csum = "v1" /\ s.end_transaction # 0
  /\ j' = [j EXCEPT !.failed_commit = s.end_transaction]
  /\ s' = Skip(s, 1)
  /\ UNCHANGED <<dev, pc, proc, super, jsb, revoked, rc, hist>>

\* The label chksum_error.
CommitBadSum ==
  /\ AtHeader("commit")
  /\ ~s.need_check_commit_time
  /\ s.pass = "scan"
  /\ jsb.csum = "v1" => s.end_transaction = 0
  /\ ~CommitSumOK
  /\ IF CommitTime(CurrentBlock) < s.last_time THEN EndOfScan
     ELSE /\ s' = LET t == [Skip(s, 1) EXCEPT !.end_transaction = s.next_commit_ID]
                  IN IF jsb.async
                     THEN NextCommit([t EXCEPT !.last_time = CommitTime(CurrentBlock)])
                     ELSE t
          /\ j' = IF jsb.async THEN j ELSE [j EXCEPT !.failed_commit = s.next_commit_ID]
          /\ UNCHANGED <<dev, pc, proc, super, jsb, revoked, rc, hist>>

Commit ==
  /\ AtHeader("commit")
  /\ ~s.need_check_commit_time
  /\ s.pass = "scan" =>
       /\ CommitSumOK
       /\ jsb.csum = "v1" => s.end_transaction = 0
  /\ Continue(NextCommit(
       IF s.pass = "scan"
       THEN [Skip(s, 1) EXCEPT !.last_time = CommitTime(CurrentBlock), !.crc = <<>>]
       ELSE Skip(s, 1)))

Revoke ==
  /\ AtHeader("revoke")
  /\ IF s.pass = "revoke" /\ ~CurrentBlock.whole
     THEN PassFails
     ELSE /\ s' = [Skip(s, 1) EXCEPT !.need_check_commit_time =
                     @ \/ (s.pass = "scan" /\ ~HeaderSumOK(CurrentBlock, jsb))]
          /\ revoked' = IF s.pass = "revoke"
                        THEN scan_revoke_records(revoked, CurrentBlock, s.next_commit_ID)
                        ELSE revoked
          /\ UNCHANGED <<dev, pc, proc, super, jsb, j, rc, hist>>

DoOnePass ==
  \/ EndOfPass \/ HeaderUnreadable
  \/ Descriptor \/ DescribedUnreadable \/ ReplayDescriptor
  \/ ReplayRevoked \/ ReplayBadSum \/ ReplayUnreadable \/ ReplayBlock \/ ReplayWriteError
  \/ SuspectCommit \/ CommitAfterFailure \/ CommitBadSum \/ Commit \/ Revoke

----------------------------------------------------------------------------
(* The end of jbd2_journal_recover, e2fsck_journal_release, and the end of *)
(* e2fsck_run_ext3_journal and ext2fs_run_ext3_journal.                    *)

SyncedDevice_NotSynced == stable
SyncedDevice == disk

SyncBlockdev ==
  /\ pc = "sync"
  /\ j' = [j EXCEPT !.transaction_sequence = NextTid(s.end_transaction)]
  /\ revoked' = NoRevokes
  /\ s' = NoPass
  /\ pc' = "release"
  /\ \/ stable' = SyncedDevice /\ rc' = rc
     \/ "sync" \in Faults /\ stable' = stable /\ rc' = "failed"
  /\ UNCHANGED <<disk, proc, super, jsb, hist>>

NewTailSequence_Same == j.tail_sequence

\* recover_ext3_journal of e2fsck restarts the log behind the transactions
\* it recovered; that of debugfs does not, nor does either after an error.
NewTailSequence ==
  IF rc = "ok" /\ tool = "e2fsck" THEN j.transaction_sequence ELSE j.tail_sequence

Release ==
  /\ pc = "release"
  /\ disk' = [disk EXCEPT !.jsb =
                [jsb EXCEPT !.start = 0, !.seq = NewTailSequence,
                            !.errno = @ \/ (rc = "ok" /\ j.failed_commit # 0)]]
  /\ jsb' = NoJsb
  /\ j' = NoJournal
  /\ revoked' = NoRevokes
  /\ pc' = "reopen"
  /\ UNCHANGED <<stable, proc, super, s, rc, hist>>

clear_recover(super_block, error) ==
  [super_block EXCEPT !.recover = FALSE, !.valid = @ /\ ~error]

Reopen ==
  /\ pc = "reopen"
  /\ sb' = clear_recover(disk.sb, rc = "failed")
  /\ dirty' = TRUE
  /\ pc' = "recheck"
  /\ UNCHANGED <<dev, proc, jrnl, s, rc, hist>>

Recover == Load \/ DoOnePass \/ SyncBlockdev \/ Release \/ Reopen

----------------------------------------------------------------------------
(* The medium, and the end of the process. *)

Writeback ==
  /\ crashes < MaxCrashes
  /\ \/ \E b \in FsBlocks : stable' = [stable EXCEPT !.fs[b] = disk.fs[b]]
     \/ stable' = [stable EXCEPT !.jsb = disk.jsb]
     \/ stable' = [stable EXCEPT !.sb = disk.sb]
     \/ \E i \in LogBlocks : stable' = [stable EXCEPT !.log[i] = disk.log[i]]
  /\ stable' # stable
  /\ UNCHANGED <<disk, pc, proc, super, jrnl, s, rc, hist>>

\* What is left when the tool or the machine stops.
Stopped ==
  /\ disk' = stable
  /\ pc' = "off"
  /\ goal' = "off" /\ tool' = "none"
  /\ sb' = [recover |-> FALSE, valid |-> TRUE] /\ dirty' = FALSE
  /\ jsb' = NoJsb /\ j' = NoJournal /\ revoked' = NoRevokes
  /\ s' = NoPass /\ rc' = "ok"
  /\ UNCHANGED stable

Crash ==
  /\ pc \notin {"off", "mounted"}
  /\ crashes < MaxCrashes
  /\ Stopped
  /\ crashes' = crashes + 1
  /\ UNCHANGED <<want, n, damage>>

\* A log block is damaged: a header keeps its identifier and a data block
\* reads as something else.  Only damage that the checksum feature covers,
\* or a revoke block whose r_count is out of range.
Damageable(blk) ==
  /\ blk.whole
  /\ \/ blk.kind = "revoke" /\ pc # "pass"
     \/ blk.kind \in {"descriptor", "data"} /\ disk.jsb.csum = "v1" /\ pc # "pass"
     \/ blk.kind \in {"descriptor", "data"} /\ disk.jsb.csum = "v3"
     \/ blk.kind = "commit" /\ disk.jsb.csum = "v3" /\ pc # "pass"

Damage ==
  /\ damage < MaxDamage
  /\ \E i \in LogBlocks :
       /\ Damageable(disk.log[i])
       /\ disk' = [disk EXCEPT !.log[i].whole = FALSE, !.log[i].val = Damaged]
       /\ stable' = [stable EXCEPT !.log[i] = disk'.log[i]]
  /\ damage' = damage + 1
  /\ UNCHANGED <<pc, proc, super, jrnl, s, rc, want, n, crashes>>

E2fsck ==
  \/ Fsck \/ CheckJournal \/ RunDoubtfulJournal \/ ResetDoubtfulJournal
  \/ IgnoreDoubtfulJournal \/ RestOfFsck
  \/ FlushOthers \/ WriteSuper \/ FlushAll
  \/ Recover

InitDevice(format) ==
  [log |-> [i \in LogBlocks |-> Plain],
   fs |-> [b \in FsBlocks |-> Content(0, b)],
   jsb |-> NewJsb(format, 1),
   sb |-> [recover |-> FALSE, valid |-> TRUE]]

RecoveryInit ==
  /\ \E format \in Formats : disk = InitDevice(format)
  /\ stable = disk
  /\ pc = "off" /\ goal = "off" /\ tool = "none"
  /\ sb = [recover |-> FALSE, valid |-> TRUE] /\ dirty = FALSE
  /\ jsb = NoJsb /\ j = NoJournal /\ revoked = NoRevokes
  /\ s = NoPass /\ rc = "ok"
  /\ want = disk.fs /\ n = 0 /\ crashes = 0 /\ damage = 0

----------------------------------------------------------------------------
(* Properties. *)

JournalSuperblocks ==
  [start : {0} \cup LogBlocks, seq : Tids, errno : BOOLEAN, uuid : Nat,
   csum : Checksums, async : BOOLEAN]
Superblocks == [recover : BOOLEAN, valid : BOOLEAN]
Tags == [blk : FsBlocks, escape : BOOLEAN, sum : Int]
LogRecords ==
  [kind : {"junk", "data", "descriptor", "commit", "revoke"}, tid : Tids,
   tags : Seq(Tags), revs : SUBSET FsBlocks, crc : Seq(Int), val : Contents,
   n : Nat, uuid : Nat, whole : BOOLEAN]
Devices ==
  [log : [LogBlocks -> LogRecords], fs : [FsBlocks -> Contents],
   jsb : JournalSuperblocks, sb : Superblocks]
Passes ==
  [pass : {"none", "scan", "revoke", "replay"}, next_commit_ID : Tids,
   next_log_block : {0} \cup LogBlocks, success : BOOLEAN,
   need_check_commit_time : BOOLEAN, last_time : Int, crc : Seq(Int),
   tags : Seq(Tags), end_transaction : Tids]

\* Every variable has its type: among other things the scan never leaves the
\* log (next_log_block, do_one_pass), whatever it finds there.
TypeOK ==
  /\ disk \in Devices /\ stable \in Devices
  /\ pc \in {"off", "mounted", "prompt", "examine", "check", "recheck", "passes", "flush", "super",
             "synced", "load", "pass", "sync", "release", "reopen"}
  /\ goal \in {"off", "check", "load", "prompt"}
  /\ tool \in {"none", "e2fsck", "debugfs"}
  /\ sb \in Superblocks /\ dirty \in BOOLEAN
  /\ jsb \in JournalSuperblocks
  /\ j \in [tail_sequence : Tids, transaction_sequence : Tids,
            failed_commit : Tids]
  /\ revoked \in [FsBlocks -> Tids \cup {NoTid}]
  /\ s \in Passes /\ (pc = "pass" => s.next_log_block # 0)
  /\ rc \in {"ok", "failed"}
  /\ want \in [FsBlocks -> Contents]
  /\ n \in Nat /\ crashes \in 0 .. MaxCrashes /\ damage \in 0 .. MaxDamage

\* A file system that survives a crash with needs_recovery clear, an empty log
\* and no demand for a full check (e2fsck_clear_recover) holds every committed
\* write, and nothing that was never committed or had been revoked.
CleanMeansRecovered ==
  (~stable.sb.recover /\ stable.sb.valid /\ stable.jsb.start = 0) => stable.fs = want

\* jbd2_journal_recover syncs before e2fsck_journal_release empties the log:
\* once s_start = 0 is on the disk, so is everything that was replayed.
EmptyLogMeansDurable == stable.jsb.start = 0 => stable.fs = want

\* needs_recovery is only cleared on the disk once the log is empty there
\* (the first io_channel_flush of ext2fs_flush2): no crash leaves a log with
\* transactions in a file system that does not ask for recovery.
FlagOutlivesLog == ~stable.sb.recover => stable.jsb.start = 0

\* "Restart the log at the next transaction ID, thus invalidating any existing
\* commit records in the log" (jbd2_journal_recover): after a recovery no
\* commit record of this journal has an identifier that will be used again.
OldCommitsInvalid ==
  pc \in {"reopen", "recheck"} =>
    \A i \in LogBlocks :
      (disk.log[i].kind = "commit" /\ disk.log[i].uuid = disk.jsb.uuid)
        => ~tid_geq(disk.log[i].tid, disk.jsb.seq)

\* On a medium without faults do_one_pass never reports one: the three passes
\* agree on where the log ends, whatever torn or stale blocks follow it.
NeverFails == rc = "ok"

\* A recovery that has begun comes to its end, unless a crash stops it: the
\* loop of do_one_pass terminates on every log.
RecoveryEnds == (pc = "load") ~> (pc \in {"recheck", "off"})
=============================================================================
