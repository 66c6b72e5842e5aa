-------------------------------- MODULE Jbd2 --------------------------------
(***************************************************************************)
(* The journal's on-disk format as e2fsprogs reads and writes it           *)
(* (lib/ext2fs/kernel-jbd.h, e2fsck/recovery.c, e2fsck/revoke.c): a ring   *)
(* of log blocks, transaction identifiers that wrap, tags, revoke records  *)
(* and checksums.                                                          *)
(*                                                                         *)
(* The contents of a file system block is a stamp n, the number of the     *)
(* write that produced it, and whether the block happens to begin with     *)
(* JBD2_MAGIC_NUMBER.  A log block carries the stamp of the transaction    *)
(* it belongs to and the UUID of its journal: two checksums agree when     *)
(* these do and neither block is damaged (no collisions).                  *)
(***************************************************************************)
EXTENDS Integers, Sequences, FiniteSets

CONSTANTS
  FsBlocks,      \* blocks of the file system, outside the journal
  MagicBlocks,   \* the ones whose contents begin with JBD2_MAGIC_NUMBER
  First, Last,   \* j_first, j_last: the log is First .. Last - 1
  TidMod,        \* number of transaction identifiers (2^32)
  CommitsPerSecond  \* h_commit_sec of stamp n is n \div CommitsPerSecond

ASSUME Jbd2Assumption ==
  /\ MagicBlocks \subseteq FsBlocks
  /\ First \in Nat \ {0} /\ Last \in Nat /\ First < Last
  /\ TidMod \in Nat /\ TidMod % 2 = 0 /\ TidMod > 2
  /\ CommitsPerSecond \in Nat \ {0}

LogBlocks == First .. Last - 1
Tids == 0 .. TidMod - 1

\* The checksum features of a journal superblock, and whether it has
\* JBD2_FEATURE_INCOMPAT_ASYNC_COMMIT, which needs one of them.
Checksums == {"none", "v1", "v3"}
NoTid == -1

----------------------------------------------------------------------------
(* Transaction identifiers: unsigned, compared through a signed difference. *)

NextTid(t) == (t + 1) % TidMod

tid_gt(x, y) ==
  LET difference == (x - y) % TidMod
  IN difference > 0 /\ difference < TidMod \div 2

\* X_Fault, here and in the other modules, is a form of X that a slip in the
\* code would give it; it is used only to try the properties.
tid_geq_Unsigned(x, y) == x >= y
tid_geq(x, y) == (x - y) % TidMod < TidMod \div 2

----------------------------------------------------------------------------
(* The ring. *)

wrap_OffByOne(i) == IF i > Last THEN i - (Last - First) ELSE i
wrap(i) == IF i >= Last THEN i - (Last - First) ELSE i

\* The position k blocks after i.
After(i, k) == wrap(i + k)

----------------------------------------------------------------------------
(* Contents of blocks. *)

Content(n, b) == [n |-> n, magic |-> b \in MagicBlocks]
Contents == [n : Int, magic : BOOLEAN]
Damaged == [n |-> -1, magic |-> FALSE]

\* JBD2_FLAG_ESCAPE: a data block in the log never begins with the magic
\* number; the tag remembers that it did.
Escaped(v) == [v EXCEPT !.magic = FALSE]
Restored(v, escape) == IF escape THEN [v EXCEPT !.magic = TRUE] ELSE v

Plain == [kind |-> "junk", tid |-> 0, tags |-> <<>>, revs |-> {}, crc |-> <<>>,
          val |-> Damaged, n |-> 0, uuid |-> 0, whole |-> TRUE]

Header(kind, t, uuid) ==
  [Plain EXCEPT !.kind = kind, !.tid = t.tid, !.n = t.n, !.uuid = uuid]

\* A transaction t has an identifier tid, a stamp n, the sequence w of the
\* blocks it writes and the set r of the blocks it revokes.
Tag(t, i) == [blk |-> t.w[i], escape |-> t.w[i] \in MagicBlocks, sum |-> t.n]

DescriptorBlock(t, uuid) ==
  [Header("descriptor", t, uuid) EXCEPT !.tags = [i \in DOMAIN t.w |-> Tag(t, i)]]

DataBlock(t, i) ==
  [Plain EXCEPT !.kind = "data", !.n = t.n, !.val = Escaped(Content(t.n, t.w[i]))]

RevokeBlock(t, uuid) == [Header("revoke", t, uuid) EXCEPT !.revs = t.r]

\* h_chksum_type, h_chksum_size and h_chksum[0] of a commit that carries no sum.
Unused == <<-2>>
CommitBlock(t, uuid, crc) == [Header("commit", t, uuid) EXCEPT !.crc = crc]

\* The blocks a transaction's descriptor announces, the descriptor first.
Described(t, uuid) ==
  IF t.w = <<>> THEN <<>>
  ELSE <<DescriptorBlock(t, uuid)>> \o [i \in DOMAIN t.w |-> DataBlock(t, i)]

Revoking(t, uuid) == IF t.r = {} THEN <<>> ELSE <<RevokeBlock(t, uuid)>>

CommitTime(blk) == blk.n \div CommitsPerSecond

\* log with the sequence bs written from position i on, wrapping; only the
\* members of S (indices of bs) are written.
Laid(log, i, bs, S) ==
  [p \in DOMAIN log |->
     IF \E k \in S : p = After(i, k - 1)
     THEN bs[CHOOSE k \in S : p = After(i, k - 1)] ELSE log[p]]

----------------------------------------------------------------------------
(* Checksums. *)

IsHeader(blk) == blk.kind \in {"descriptor", "commit", "revoke"}

\* What a block adds to the running CRC of the v1 feature.
Stamp(blk) == IF blk.whole THEN blk.n ELSE -1

\* jbd2_descriptor_block_csum_verify and jbd2_commit_block_csum_verify: the
\* checksum is seeded with the journal's UUID.
HeaderSumOK_AnyJournal(blk, super_block) == super_block.csum = "v3" => blk.whole
HeaderSumOK(blk, super_block) ==
  super_block.csum = "v3" => blk.whole /\ blk.uuid = super_block.uuid

TagSumOK(tag, blk, super_block) == super_block.csum = "v3" => Stamp(blk) = tag.sum

----------------------------------------------------------------------------
(* The revoke table: for a block, the latest transaction that revoked it.  *)

NoRevokes == [b \in FsBlocks |-> NoTid]

jbd2_journal_set_revoke_First(table, b, sequence) ==
  IF table[b] # NoTid THEN table ELSE [table EXCEPT ![b] = sequence]

jbd2_journal_set_revoke(table, b, sequence) ==
  IF table[b] = NoTid \/ tid_gt(sequence, table[b])
  THEN [table EXCEPT ![b] = sequence] ELSE table

jbd2_journal_test_revoke(table, b, sequence) ==
  table[b] # NoTid /\ ~tid_gt(sequence, table[b])

\* A revoke block names each of its blocks once.
scan_revoke_records(table, blk, sequence) ==
  [b \in FsBlocks |->
     IF b \in blk.revs THEN jbd2_journal_set_revoke(table, b, sequence)[b]
     ELSE table[b]]
=============================================================================
