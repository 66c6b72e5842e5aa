---------------------------- MODULE KernelJournal ---------------------------
(***************************************************************************)
(* e2fsck recovering what a kernel left in the log.  The kernel's side is  *)
(* not part of this repository; it is modelled from what the recovery code *)
(* relies on: transactions laid out one after the other round the ring,    *)
(* a commit block written after the rest of its transaction (unless        *)
(* async_commit is set), a tail that only moves once the blocks it leaves  *)
(* behind are in place, and blocks that are written in place only after    *)
(* their revocation is committed.                                          *)
(***************************************************************************)
EXTENDS JournalRecovery

CONSTANTS
  Shapes,    \* the [w, r] that transactions have: see Jbd2
  MaxWrites, \* bound on n, by checksum feature
  LazyInit,  \* checksum features with which mke2fs -E lazy_journal_init
             \* may remake the file system
  Mounts     \* bound on the mounts of one file system

ASSUME KernelAssumption ==
  /\ \A x \in Shapes : x.w \in Seq(FsBlocks) /\ x.r \in SUBSET FsBlocks
  /\ MaxWrites \in [Checksums -> Nat] /\ Mounts \in Nat /\ LazyInit \subseteq Checksums

VARIABLES
  live,   \* committed transactions that are still in the log, oldest first
  head,   \* where the next transaction goes
  tid,    \* its identifier
  mounts

kernel == <<live, head, tid, mounts>>
kvars == <<vars, kernel>>

tooling == <<proc, super, jrnl, s, rc>>
NoKernel == live' = <<>> /\ head' = First /\ tid' = 0

KInit ==
  /\ RecoveryInit
  /\ live = <<>> /\ head = First /\ tid = 0 /\ mounts = 0

\* The kernel's writes are followed by a cache flush.
Written(d) == disk' = d /\ stable' = d

----------------------------------------------------------------------------
Mount ==
  /\ pc = "off" /\ mounts < Mounts
  /\ ~disk.sb.recover /\ disk.sb.valid /\ disk.jsb.start = 0
  /\ pc' = "mounted"
  /\ mounts' = mounts + 1
  /\ live' = <<>> /\ head' = First /\ tid' = NextTid(disk.jsb.seq)
  /\ Written([disk EXCEPT !.sb.recover = TRUE])
  /\ UNCHANGED <<tooling, hist>>

\* The blocks of transaction t: revoke records, descriptor and data, commit.
LogOf(t) ==
  LET described == Described(t, disk.jsb.uuid)
      crc == IF disk.jsb.csum = "v1" THEN [i \in DOMAIN described |-> t.n] ELSE Unused
  IN Revoking(t, disk.jsb.uuid) \o described \o <<CommitBlock(t, disk.jsb.uuid, crc)>>

Used ==
  IF live = <<>> THEN 0
  ELSE IF head > live[1].start THEN head - live[1].start
       ELSE (Last - First) - (live[1].start - head)

NewTransaction(x) == [tid |-> tid, n |-> n + 1, w |-> x.w, r |-> x.r, start |-> head]

MoreWrites == n < MaxWrites[disk.jsb.csum]
Room(t) == MoreWrites /\ Used + Len(LogOf(t)) <= Last - First

\* The first commit after a mount makes the log non-empty.
Started == IF disk.jsb.start # 0 THEN disk.jsb
           ELSE [disk.jsb EXCEPT !.start = head, !.seq = tid]

WritesTo(t, b) == \E i \in DOMAIN t.w : t.w[i] = b

\* A committed block is to be replayed; a revoked one is to be left as it is.
WantAfter(t) ==
  [b \in FsBlocks |-> IF WritesTo(t, b) THEN Content(t.n, b)
                      ELSE IF b \in t.r THEN disk.fs[b] ELSE want[b]]

KernelCommit ==
  /\ pc = "mounted"
  /\ \E x \in Shapes :
       LET t == NewTransaction(x) IN
       /\ Room(t)
       /\ Written([disk EXCEPT !.jsb = Started,
                     !.log = Laid(@, head, LogOf(t), DOMAIN LogOf(t))])
       /\ live' = Append(live, t)
       /\ head' = After(head, Len(LogOf(t)))
       /\ tid' = NextTid(tid)
       /\ want' = WantAfter(t)
       /\ n' = t.n
  /\ UNCHANGED <<pc, tooling, crashes, damage, mounts>>

\* The power fails during a commit: any of its blocks may have been written,
\* the commit block only if it does not wait for the others.
TornCommit ==
  /\ pc = "mounted"
  /\ \E x \in Shapes :
       LET t == NewTransaction(x)
           all == DOMAIN LogOf(t)
           early == IF disk.jsb.async THEN all ELSE all \ {Len(LogOf(t))}
       IN /\ Room(t)
          /\ \E S \in SUBSET early :
               /\ S # all
               /\ Written([disk EXCEPT !.jsb = Started, !.log = Laid(@, head, LogOf(t), S)])
          /\ n' = t.n
  /\ pc' = "off"
  /\ NoKernel
  /\ UNCHANGED <<tooling, want, crashes, damage, mounts>>

PowerFail ==
  /\ pc = "mounted"
  /\ pc' = "off"
  /\ NoKernel
  /\ UNCHANGED <<dev, tooling, hist, mounts>>

\* A block that is not journalled, or whose revocation is the last thing the
\* log says of it, is written in place.
Journalled(b) ==
  \E k \in DOMAIN live :
    /\ WritesTo(live[k], b)
    /\ \A m \in k .. Len(live) : b \notin live[m].r

DirectWrite ==
  /\ pc = "mounted"
  /\ MoreWrites
  /\ \E b \in FsBlocks :
       /\ ~Journalled(b)
       /\ Written([disk EXCEPT !.fs[b] = Content(n + 1, b)])
       /\ want' = [want EXCEPT ![b] = Content(n + 1, b)]
  /\ n' = n + 1
  /\ UNCHANGED <<pc, tooling, crashes, damage, kernel>>

\* The oldest transaction's blocks are put in place, except the ones a later
\* transaction has taken over or revoked, and the tail moves past it.
Checkpoint ==
  /\ pc = "mounted"
  /\ live # <<>>
  /\ LET t == live[1]
         later(b) == \E k \in 2 .. Len(live) : WritesTo(live[k], b) \/ b \in live[k].r
     IN Written([disk EXCEPT
          !.fs = [b \in FsBlocks |->
                    IF WritesTo(t, b) /\ ~later(b) THEN Content(t.n, b) ELSE disk.fs[b]],
          !.jsb.start = IF Len(live) > 1 THEN live[2].start ELSE head,
          !.jsb.seq = IF Len(live) > 1 THEN live[2].tid ELSE tid])
  /\ live' = Tail(live)
  /\ UNCHANGED <<pc, tooling, hist, head, tid, mounts>>

Unmount ==
  /\ pc = "mounted"
  /\ live = <<>>
  /\ pc' = "off"
  /\ Written([disk EXCEPT !.jsb.start = 0, !.jsb.seq = tid, !.sb.recover = FALSE])
  /\ NoKernel
  /\ UNCHANGED <<tooling, hist, mounts>>

\* mke2fs makes the file system anew: a new journal superblock, and with
\* EXT2_MKJOURNAL_LAZYINIT the old contents of the log.
Mkfs ==
  /\ disk.jsb.csum \in LazyInit
  /\ pc = "off"
  /\ MoreWrites /\ disk.jsb.uuid = 1
  /\ \E format \in Formats :
       LET fs == [b \in FsBlocks |-> Content(n + 1, b)] IN
       /\ format.csum = disk.jsb.csum /\ format.async = disk.jsb.async
       /\ Written([log |-> disk.log, fs |-> fs, jsb |-> NewJsb(format, 2),
                   sb |-> [recover |-> FALSE, valid |-> TRUE]])
       /\ want' = fs
  /\ n' = n + 1
  /\ mounts' = 0
  /\ UNCHANGED <<pc, tooling, crashes, damage, live, head, tid>>

Kernel ==
  \/ Mount \/ KernelCommit \/ TornCommit \/ PowerFail \/ DirectWrite \/ Checkpoint
  \/ Unmount \/ Mkfs

Tool == (E2fsck \/ Writeback \/ Crash \/ Damage) /\ UNCHANGED kernel

Next == Kernel \/ Tool
Spec == KInit /\ [][Next]_kvars
=============================================================================
