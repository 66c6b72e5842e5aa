--------------------------------- MODULE Mmp --------------------------------
(***************************************************************************)
(* Multiple mount protection (lib/ext2fs/mmp.c): nodes that share a device *)
(* agree through one block on who may write to the file system.  A node    *)
(* reads the block, sleeps, claims it with a random sequence number,       *)
(* sleeps again, and has the file system if its number is still there.     *)
(* The sleeps do the work, so time is part of the model: a tick passes for *)
(* everyone at once, and a node that is between two calls takes its next   *)
(* step within MaxDelay ticks, unless it is suspended.                     *)
(***************************************************************************)
EXTENDS Integers, FiniteSets

CONSTANTS
  Nodes,            \* machines that run a tool of this repository or mount
  Seqs,             \* the sequence numbers 0 .. EXT4_MMP_SEQ_MAX
  CLEAN, FSCK,      \* EXT4_MMP_SEQ_CLEAN, EXT4_MMP_SEQ_FSCK
  Nobody,
  UpdateInterval,   \* s_mmp_update_interval
  SlowInterval,     \* the mmp_check_interval a kernel on a slow device asks for
  MIN_CHECK_INTERVAL,
  MaxExtra,         \* the 60 of min(2 * interval + 1, interval + 60)
  MinUpdate,        \* EXT2_MIN_MMP_UPDATE_INTERVAL
  MaxDelay,         \* longest time between two calls of a node
  Staggered         \* does nobody begin while another's claim is fresh?

ASSUME MmpAssumption ==
  /\ Nobody \notin Nodes
  /\ CLEAN \notin Seqs /\ FSCK \notin Seqs /\ CLEAN # FSCK
  /\ IsFiniteSet(Nodes) /\ IsFiniteSet(Seqs)
  /\ Cardinality(Seqs) > Cardinality(Nodes) + 1
  /\ {UpdateInterval, SlowInterval, MIN_CHECK_INTERVAL, MaxExtra, MinUpdate,
      MaxDelay} \subseteq Nat
  /\ MIN_CHECK_INTERVAL > 0 /\ Staggered \in BOOLEAN

VARIABLES
  blk,       \* the MMP block: mmp_seq, mmp_nodename, mmp_check_interval
  pc,        \* where each node is
  buf,       \* fs->mmp_buf
  interval,  \* the local mmp_check_interval
  timer,     \* what is left of a sleep
  since,     \* ticks since the node's last step, while that matters
  suspended, \* nodes that are stopped and will continue
  misused    \* history: a node was suspended, or the block was cleared in use

mvars == <<blk, pc, buf, interval, timer, since, suspended, misused>>

Record(seq, node, wait) == [seq |-> seq, node |-> node, interval |-> wait]

\* Nodes that may be writing to the file system.
Using == {m \in Nodes : pc[m] \in {"open", "rewrite", "mounted"}}
Active == {m \in Nodes : pc[m] # "off"}

\* The interval of the superblock, and the larger one a kernel may ask for.
SuperInterval == IF UpdateInterval < MIN_CHECK_INTERVAL THEN MIN_CHECK_INTERVAL
                 ELSE UpdateInterval

CheckInterval_SuperOnly(record) == SuperInterval
CheckInterval(record) ==
  IF record.interval > SuperInterval THEN record.interval ELSE SuperInterval

SleepTime(wait) == IF wait + 1 < MaxExtra THEN 2 * wait + 1 ELSE wait + MaxExtra

\* ext2fs_mmp_new_seq, and a kernel's next number: 2^31 numbers do not meet.
NewSeq == CHOOSE q \in Seqs : q # blk.seq /\ \A m \in Nodes : q # buf[m].seq

NoRecord == Record(CLEAN, Nobody, SuperInterval)

Step(m, where) == pc' = [pc EXCEPT ![m] = where] /\ since' = [since EXCEPT ![m] = 0]

\* The node closes the file system, or is gone.
Leaves(m) ==
  /\ Step(m, "off")
  /\ buf' = [buf EXCEPT ![m] = NoRecord]
  /\ interval' = [interval EXCEPT ![m] = SuperInterval]
  /\ timer' = [timer EXCEPT ![m] = 0]
Reads(m) == buf' = [buf EXCEPT ![m] = blk]
Awake(m) == m \notin suspended

----------------------------------------------------------------------------
(* ext2fs_mmp_start. *)

\* EXT4_MMP_SEQ_FSCK ends it at once.
StartClean(m) ==
  /\ pc[m] = "off" /\ Awake(m)
  /\ blk.seq = CLEAN
  /\ Reads(m)
  /\ interval' = [interval EXCEPT ![m] = SuperInterval]
  /\ Step(m, "claim")
  /\ UNCHANGED <<blk, timer, suspended, misused>>

\* A claim so young that its owner may still be between its last look at the
\* block and its next write to it when a sleep that begins now is over.
FreshClaim ==
  \E m \in Nodes :
    pc[m] = "settle" /\ SleepTime(interval[m]) - timer[m] <= 2 * MaxDelay

StartInUse(m) ==
  /\ pc[m] = "off" /\ Awake(m)
  /\ Staggered => ~FreshClaim
  /\ blk.seq \in Seqs
  /\ Reads(m)
  /\ interval' = [interval EXCEPT ![m] = CheckInterval(blk)]
  /\ timer' = [timer EXCEPT ![m] = SleepTime(CheckInterval(blk))]
  /\ Step(m, "wait")
  /\ UNCHANGED <<blk, suspended, misused>>

Waited(m) ==
  /\ pc[m] = "wait" /\ timer[m] = 0 /\ Awake(m)
  /\ IF blk.seq = buf[m].seq
     THEN Reads(m) /\ Step(m, "claim") /\ UNCHANGED <<interval, timer>>
     ELSE Leaves(m)
  /\ UNCHANGED <<blk, suspended, misused>>

\* An open that is not for writing ends here (dumpe2fs -m).
OnlyChecking(m) ==
  /\ pc[m] = "claim" /\ Awake(m)
  /\ Leaves(m)
  /\ UNCHANGED <<blk, suspended, misused>>

Claim(m) ==
  /\ pc[m] = "claim" /\ Awake(m)
  /\ blk' = Record(NewSeq, m, buf[m].interval)
  /\ buf' = [buf EXCEPT ![m] = blk']
  /\ timer' = [timer EXCEPT ![m] = SleepTime(interval[m])]
  /\ Step(m, "settle")
  /\ UNCHANGED <<interval, suspended, misused>>

StillMine(m) == blk.seq = buf[m].seq

Settled(m) ==
  /\ pc[m] = "settle" /\ timer[m] = 0 /\ Awake(m)
  /\ IF StillMine(m)
     THEN Reads(m) /\ Step(m, "confirm") /\ UNCHANGED <<interval, timer>>
     ELSE Leaves(m)
  /\ UNCHANGED <<blk, suspended, misused>>

Confirm(m) ==
  /\ pc[m] = "confirm" /\ Awake(m)
  /\ blk' = [buf[m] EXCEPT !.seq = FSCK]
  /\ buf' = [buf EXCEPT ![m] = blk']
  /\ Step(m, "open")
  /\ UNCHANGED <<interval, timer, suspended, misused>>

----------------------------------------------------------------------------
(* ext2fs_mmp_update2, as e2fsck calls it between passes; ext2fs_mmp_stop. *)
(* tune2fs is not a node: it updates once, immediately and without looking *)
(* at the error, when it rewrites checksums.                               *)

Noticed_Never(m) == FALSE
Noticed(m) == blk # buf[m]

\* The block is still this node's, and is written once more.
Update(m) ==
  /\ pc[m] = "open" /\ Awake(m)
  /\ since[m] = MinUpdate
  /\ ~Noticed(m)
  /\ Step(m, "rewrite")
  /\ UNCHANGED <<blk, buf, interval, timer, suspended, misused>>

Rewrite(m) ==
  /\ pc[m] = "rewrite" /\ Awake(m)
  /\ blk' = [buf[m] EXCEPT !.seq = FSCK]
  /\ buf' = [buf EXCEPT ![m] = blk']
  /\ Step(m, "open")
  /\ UNCHANGED <<interval, timer, suspended, misused>>

\* EXT2_ET_MMP_CHANGE_ABORT: fatal_error, which calls ext2fs_mmp_stop.
UpdateAborts(m) ==
  /\ pc[m] = "open" /\ Awake(m)
  /\ since[m] = MinUpdate
  /\ Noticed(m)
  /\ Reads(m)
  /\ Step(m, "stop")
  /\ UNCHANGED <<blk, interval, timer, suspended, misused>>

\* ext2fs_mmp_stop reads the block into the very buffer it then compares it
\* with, so it goes on whatever it finds.
Stop(m) ==
  /\ pc[m] = "open" /\ Awake(m)
  /\ Reads(m)
  /\ Step(m, "stop")
  /\ UNCHANGED <<blk, interval, timer, suspended, misused>>

StopWrites(m) ==
  /\ pc[m] = "stop" /\ Awake(m)
  /\ blk' = [buf[m] EXCEPT !.seq = CLEAN]
  /\ Leaves(m)
  /\ UNCHANGED <<suspended, misused>>

----------------------------------------------------------------------------
(* A kernel that mounts claims the block in the same way, then writes a new *)
(* number at least once per mmp_check_interval, and CLEAN in the end.       *)

Mounts(m) ==
  /\ pc[m] = "confirm" /\ Awake(m)
  /\ \E wait \in {SuperInterval, SlowInterval} :
       /\ blk' = Record(NewSeq, m, wait)
       /\ interval' = [interval EXCEPT ![m] = wait]
  /\ buf' = [buf EXCEPT ![m] = blk']
  /\ Step(m, "mounted")
  /\ UNCHANGED <<timer, suspended, misused>>

Beat(m) ==
  /\ pc[m] = "mounted" /\ Awake(m)
  /\ IF blk.node = m
     THEN /\ blk' = [buf[m] EXCEPT !.seq = NewSeq]
          /\ buf' = [buf EXCEPT ![m] = blk']
          /\ Step(m, "mounted") /\ UNCHANGED <<interval, timer>>
     ELSE Leaves(m) /\ UNCHANGED blk
  /\ UNCHANGED <<suspended, misused>>

Unmount(m) ==
  /\ pc[m] = "mounted" /\ Awake(m)
  /\ blk' = [buf[m] EXCEPT !.seq = CLEAN]
  /\ Leaves(m)
  /\ UNCHANGED <<suspended, misused>>

----------------------------------------------------------------------------
(* tune2fs -f -E clear_mmp, faults and time. *)

\* ext2fs_mmp_clear is for a block that nobody uses; using it otherwise is
\* the one mistake of a behaviour.
clear_mmp ==
  /\ blk.seq # CLEAN
  /\ Active = {} \/ ~misused
  /\ misused' = (misused \/ Active # {})
  /\ blk' = NoRecord
  /\ UNCHANGED <<pc, buf, interval, timer, since, suspended>>

Crash(m) ==
  /\ pc[m] # "off" /\ Awake(m)
  /\ Leaves(m)
  /\ UNCHANGED <<blk, suspended, misused>>

Suspend(m) ==
  /\ pc[m] # "off" /\ ~misused
  /\ suspended' = suspended \cup {m}
  /\ misused' = TRUE
  /\ UNCHANGED <<blk, pc, buf, interval, timer, since>>

Resume(m) ==
  /\ m \in suspended
  /\ suspended' = suspended \ {m}
  /\ since' = [since EXCEPT ![m] = 0]
  /\ UNCHANGED <<blk, pc, buf, interval, timer, misused>>

\* How long a node may stay where it is; sleeping, or between two updates,
\* it may for ever.
Deadline(m) ==
  CASE pc[m] = "mounted" -> interval[m]
    [] pc[m] \in {"claim", "confirm", "rewrite", "stop"} -> MaxDelay
    [] pc[m] \in {"wait", "settle"} /\ timer[m] = 0 -> MaxDelay
    [] OTHER -> -1

Counted(m) ==
  Awake(m) /\ (Deadline(m) # -1 \/ (pc[m] = "open" /\ since[m] < MinUpdate))

Tick ==
  /\ \A m \in Nodes : Awake(m) /\ Deadline(m) # -1 => since[m] < Deadline(m)
  /\ timer' = [m \in Nodes |-> IF timer[m] > 0 THEN timer[m] - 1 ELSE 0]
  /\ since' = [m \in Nodes |-> IF Counted(m) THEN since[m] + 1 ELSE since[m]]
  /\ UNCHANGED <<blk, pc, buf, interval, suspended, misused>>

----------------------------------------------------------------------------
Init ==
  /\ blk = NoRecord
  /\ pc = [m \in Nodes |-> "off"]
  /\ buf = [m \in Nodes |-> NoRecord]
  /\ interval = [m \in Nodes |-> SuperInterval]
  /\ timer = [m \in Nodes |-> 0] /\ since = [m \in Nodes |-> 0]
  /\ suspended = {} /\ misused = FALSE

Start(m) == StartClean(m) \/ StartInUse(m) \/ Waited(m) \/ OnlyChecking(m) \/ Claim(m)
            \/ Settled(m) \/ Confirm(m)
Use(m) == Update(m) \/ Rewrite(m) \/ UpdateAborts(m) \/ Stop(m) \/ StopWrites(m)
Kernel(m) == Mounts(m) \/ Beat(m) \/ Unmount(m)

Next ==
  \/ \E m \in Nodes : Start(m) \/ Use(m) \/ Kernel(m) \/ Crash(m) \/ Suspend(m) \/ Resume(m)
  \/ clear_mmp \/ Tick

\* What a running process does next without being asked.
Proceeds(m) ==
  \/ Waited(m) \/ Claim(m) \/ Settled(m) \/ Confirm(m) \/ Mounts(m)
  \/ Update(m) \/ Rewrite(m) \/ UpdateAborts(m) \/ StopWrites(m) \/ Beat(m)

\* Running processes run, suspended ones are woken, time passes.
Fairness == WF_mvars(Tick) /\ \A m \in Nodes : WF_mvars(Proceeds(m)) /\ WF_mvars(Resume(m))

Spec == Init /\ [][Next]_mvars /\ Fairness

----------------------------------------------------------------------------
Records == [seq : Seqs \cup {CLEAN, FSCK}, node : Nodes \cup {Nobody}, interval : Nat]

\* Every variable has its type, and a claim never looks like a clean or a
\* checked file system (the loop of ext2fs_mmp_new_seq).
MmpTypeOK ==
  /\ blk \in Records
  /\ pc \in [Nodes -> {"off", "wait", "claim", "settle", "confirm", "open", "rewrite", "stop",
                       "mounted"}]
  /\ buf \in [Nodes -> Records]
  /\ interval \in [Nodes -> Nat] /\ timer \in [Nodes -> Nat] /\ since \in [Nodes -> Nat]
  /\ \A m \in Nodes : pc[m] = "settle" => buf[m].seq \in Seqs
  /\ suspended \subseteq Nodes /\ misused \in BOOLEAN

\* "Make sure that the fs is not mounted or being fsck'ed while opening the fs"
\* (ext2fs_mmp_start): as long as nobody was held up for longer than MaxDelay
\* and nobody cleared the block of a file system in use, one node at a time
\* writes to it, whoever crashed before.  It needs Staggered: the first sleep
\* of one node is as long as the second sleep of another.
OneUser == ~misused => Cardinality(Using) <= 1

\* When a suspended node or a clear_mmp has let two nodes in, they do not both
\* stay: ext2fs_mmp_update2 finds the other's record, and e2fsck gives up.
IntruderNoticed == (Cardinality(Using) > 1) ~> (Cardinality(Using) <= 1)
=============================================================================
