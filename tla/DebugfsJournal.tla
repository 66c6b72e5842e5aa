--------------------------- MODULE DebugfsJournal ---------------------------
(***************************************************************************)
(* The journal commands of debugfs (debugfs/do_journal.c): journal_open,   *)
(* journal_write, journal_close and journal_run, followed by e2fsck or by  *)
(* more debugfs.  The writes of a journal_write are not ordered among      *)
(* themselves: Writeback puts any of them on the medium.                   *)
(***************************************************************************)
EXTENDS JournalRecovery

CONSTANTS
  Shapes,     \* the [w, r] that journal_write is given: see Jbd2
  MaxWrites,  \* bound on n
  RunsAt,        \* the values of n at which journal_run may be used
  ClosesJournal  \* does the user close the journal before leaving debugfs?

ASSUME DebugfsAssumption ==
  /\ \A x \in Shapes : x.w \in Seq(FsBlocks) /\ x.r \in SUBSET FsBlocks
  /\ MaxWrites \in Nat /\ RunsAt \subseteq Nat /\ ClosesJournal \in BOOLEAN

VARIABLES
  current,  \* current_journal # NULL
  head,     \* journal->j_head
  found,    \* the locals of journal_find_head
  pend      \* history: want once the open journal is closed

command == <<current, head, found, pend>>
dvars == <<vars, command>>

tooling == <<goal, tool, s, rc>>
NotFound == [next_commit_ID |-> 0, next_log_block |-> 0, head_block |-> 0]

DInit ==
  /\ RecoveryInit
  /\ current = FALSE /\ head = 0 /\ found = NotFound /\ pend = want

OpenDebugfs ==
  /\ pc = "off"
  /\ n < MaxWrites \* a session that could not write anything more is left out
  /\ pc' = "prompt"
  /\ tool' = "debugfs"
  /\ sb' = disk.sb
  /\ dirty' = FALSE
  /\ UNCHANGED <<dev, goal, jrnl, s, rc, hist, command>>

\* close_filesystem: an open journal is forgotten, not released.
Quit ==
  /\ pc = "prompt"
  /\ ClosesJournal => ~current
  /\ pc' = IF dirty THEN "flush" ELSE "off"
  /\ goal' = "off"
  /\ jsb' = NoJsb /\ j' = NoJournal /\ revoked' = NoRevokes
  /\ current' = FALSE /\ head' = 0 /\ found' = NotFound /\ pend' = want
  /\ UNCHANGED <<dev, tool, super, s, rc, hist>>

----------------------------------------------------------------------------
(* journal_open: ext2fs_open_journal, then journal_find_head. *)

do_journal_open ==
  /\ pc = "prompt"
  /\ ~current
  /\ current' = TRUE
  /\ jsb' = disk.jsb
  /\ j' = [NoJournal EXCEPT !.tail_sequence = disk.jsb.seq,
                            !.transaction_sequence = disk.jsb.seq]
  /\ head' = 0
  /\ pend' = want
  /\ IF disk.jsb.start = 0
     THEN pc' = "prompt" /\ found' = NotFound
     ELSE /\ pc' = "examine"
          /\ found' = [next_commit_ID |-> disk.jsb.seq, next_log_block |-> disk.jsb.start,
                       head_block |-> disk.jsb.start]
  /\ UNCHANGED <<dev, tooling, super, revoked, hist>>

Examined == disk.log[found.next_log_block]
Onwards(k) == [found EXCEPT !.next_log_block = After(@, k)]

HeadAfter(blk) ==
  CASE blk.kind = "descriptor" -> Onwards(1 + Len(blk.tags))
    [] blk.kind = "revoke" -> Onwards(1)
    [] blk.kind = "commit" ->
         [Onwards(1) EXCEPT !.next_commit_ID = NextTid(@),
                            !.head_block = After(found.next_log_block, 1)]

\* One turn of the loop of journal_find_head.
journal_find_head ==
  /\ pc = "examine"
  /\ IF IsHeader(Examined) /\ Examined.tid = found.next_commit_ID
     THEN /\ found' = HeadAfter(Examined)
          /\ UNCHANGED <<pc, j, head>>
     ELSE /\ pc' = "prompt"
          /\ head' = found.head_block
          /\ j' = [j EXCEPT !.transaction_sequence = found.next_commit_ID]
          /\ found' = NotFound
  /\ UNCHANGED <<dev, tooling, super, jsb, revoked, hist, current, pend>>

\* A block of the log cannot be read: the journal stays open, and its head and
\* next identifier stay what ext2fs_open_journal made them.
FindHeadFails ==
  /\ pc = "examine"
  /\ "read" \in Faults
  /\ pc' = "prompt"
  /\ found' = NotFound
  /\ UNCHANGED <<dev, tooling, super, jrnl, hist, current, head, pend>>

----------------------------------------------------------------------------
(* journal_write. *)

\* journal_guess_blocks for lists that fit in one block: both divisions by
\* the block size give 0.
journal_guess_blocks(x) == 1 + Len(x.w)

\* journal_open_trans
TransTid == IF jsb.start = 0 THEN j.tail_sequence ELSE j.transaction_sequence
TransStart == IF jsb.start = 0 THEN First ELSE head
NewTrans(x) == [tid |-> TransTid, n |-> n + 1, w |-> x.w, r |-> x.r]
NoSpace(x) == TransStart + journal_guess_blocks(x) > Last

\* journal_add_blocks_to_trans, then journal_add_revoke_to_trans,
Body(t) == Described(t, jsb.uuid) \o Revoking(t, jsb.uuid)

\* then journal_commit_trans, whose CRC runs over everything before it.
WithCommit(t) ==
  LET crc == IF jsb.csum = "v1" THEN [i \in DOMAIN Body(t) |-> t.n] ELSE Unused
  IN Body(t) \o <<CommitBlock(t, jsb.uuid, crc)>>

\* The blocks go to consecutive positions, without wrapping; what falls
\* behind the end of the journal is not in the log.
WrittenFrom(log, i, bs) ==
  [p \in DOMAIN log |-> IF p - i + 1 \in DOMAIN bs THEN bs[p - i + 1] ELSE log[p]]

\* A committed write is to be replayed; a revoked block stays as it is, even
\* if the same transaction writes it.
PendAfter(t) ==
  [b \in FsBlocks |-> IF b \in t.r THEN disk.fs[b]
                      ELSE IF \E i \in DOMAIN t.w : t.w[i] = b THEN Content(t.n, b)
                      ELSE pend[b]]

\* The journal superblock that journal_close_trans leaves in memory.
journal_close_trans(t) ==
  IF jsb.start = 0 THEN [jsb EXCEPT !.start = TransStart] ELSE jsb

\* journal_commit_trans, and journal_close_trans again, mark the file system.
AskForRecovery_Forgotten(super_block) == super_block
AskForRecovery(super_block) == [super_block EXCEPT !.recover = TRUE]

\* A user who writes although the head was not found writes over the journal
\* superblock, at position 0: that is left out.
HeadKnown == jsb.start # 0 => head # 0
AtPrompt == pc = "prompt" /\ current /\ n < MaxWrites /\ HeadKnown

do_journal_write ==
  /\ AtPrompt
  /\ \E x \in Shapes :
       LET t == NewTrans(x) IN
       /\ ~NoSpace(x)
       /\ disk' = [disk EXCEPT !.log = WrittenFrom(@, TransStart, WithCommit(t))]
       /\ sb' = AskForRecovery(sb)
       /\ dirty' = TRUE
       /\ jsb' = journal_close_trans(t)
       /\ head' = TransStart + journal_guess_blocks(x) + 1
       /\ j' = [j EXCEPT !.transaction_sequence = NextTid(t.tid)]
       /\ n' = t.n
       /\ pend' = PendAfter(t)
       /\ want' = IF disk.jsb.start # 0 THEN PendAfter(t) ELSE want
  /\ UNCHANGED <<stable, pc, tooling, revoked, crashes, damage, current, found>>

\* journal_write -c, and a write error: all or some of the blocks are there,
\* nothing is committed and the head stays where it is.
UncommittedWrite ==
  /\ AtPrompt
  /\ \E x \in Shapes :
       LET t == NewTrans(x) IN
       /\ ~NoSpace(x)
       /\ \E k \in (IF "log" \in Faults THEN 0 .. Len(Body(t)) ELSE {Len(Body(t))}) :
            disk' = [disk EXCEPT !.log = WrittenFrom(@, TransStart, SubSeq(Body(t), 1, k))]
       /\ n' = t.n
  /\ UNCHANGED <<stable, pc, tooling, super, jrnl, want, crashes, damage, command>>

do_journal_close ==
  /\ pc = "prompt"
  /\ current
  /\ disk' = [disk EXCEPT !.jsb = [jsb EXCEPT !.seq = j.tail_sequence]]
  /\ current' = FALSE /\ head' = 0
  /\ jsb' = NoJsb /\ j' = NoJournal /\ revoked' = NoRevokes
  /\ want' = pend
  /\ UNCHANGED <<stable, pc, tooling, super, n, crashes, damage, found, pend>>

do_journal_run ==
  /\ n \in RunsAt
  /\ pc = "prompt"
  /\ ~current
  /\ pc' = IF dirty THEN "flush" ELSE "load"
  /\ goal' = "load"
  /\ UNCHANGED <<dev, tool, super, jrnl, s, rc, hist, command>>

Debugfs ==
  \/ OpenDebugfs \/ Quit \/ do_journal_open \/ journal_find_head \/ FindHeadFails
  \/ do_journal_write \/ UncommittedWrite \/ do_journal_close \/ do_journal_run

\* A crash also ends the debugfs session.
Lost ==
  /\ Crash
  /\ current' = FALSE /\ head' = 0 /\ found' = NotFound /\ pend' = want

Next == Debugfs \/ Lost \/ ((E2fsck \/ Writeback) /\ UNCHANGED command)
Spec == DInit /\ [][Next]_dvars
FairSpec == Spec /\ WF_dvars(Recover /\ UNCHANGED command)

----------------------------------------------------------------------------
\* "Replay all transactions in the open journal" (debugfs.8): a recovery that
\* reports success has put every transaction written to the journal in place,
\* and nothing else (ext2fs_run_ext3_journal, e2fsck_run_ext3_journal).
ReplaysAllTransactions == (pc = "recheck" /\ rc = "ok") => disk.fs = want

\* Between two commands a log that is not empty is never left behind without
\* needs_recovery (journal_commit_trans, journal_close_trans, then Quit).
LogAsksForRecovery == (pc = "off" /\ disk.jsb.start # 0) => disk.sb.recover
=============================================================================
