------------------------------ MODULE MmpProofs ------------------------------
(***************************************************************************)
(* Two nodes never use the file system at once: for every number of nodes, *)
(* every interval and every delay that is shorter than a sleep.            *)
(*                                                                         *)
(* The argument is about time.  A node that finds its own number in the    *)
(* block after its second sleep has outlived every node that was about to  *)
(* claim the block when it did; and whoever read its number during that    *)
(* sleep is still asleep when the number is replaced, by FSCK or by the    *)
(* next number of the kernel that has mounted.                             *)
(***************************************************************************)
EXTENDS Mmp, FiniteSetTheorems, TLAPS

\* The nodes that have the file system, from the moment they are told so
Holding == {"confirm", "open", "rewrite", "stop", "mounted"}

\* The number in the block is that of m, which has yet to find out.
Owner(m) == pc[m] = "settle" /\ buf[m].seq = blk.seq

\* A node's buffer and the block
Reading(m) ==
  /\ pc[m] \in {"wait", "settle"} => buf[m].seq \in Seqs /\ (buf[m].seq = blk.seq => buf[m] = blk)
  /\ pc[m] \in Holding => buf[m] = blk
  /\ pc[m] \in {"open", "rewrite", "stop"} => blk.seq = FSCK
  /\ pc[m] \in {"confirm", "mounted"} => blk.seq \in Seqs
  /\ pc[m] = "mounted" => blk.node = m /\ blk.interval = interval[m]

\* A node's clock
Timing(m) ==
  /\ pc[m] \in {"wait", "claim", "settle"} => interval[m] \in SuperInterval .. CheckInterval(buf[m])
  /\ pc[m] = "settle" => timer[m] <= SleepTime(interval[m])
  /\ pc[m] \in {"wait", "settle"} /\ timer[m] > 0 => since[m] = 0
  /\ Deadline(m) # -1 => since[m] <= Deadline(m)

\* No two nodes have written the same number.
Apart(m, n) ==
  pc[m] = "settle" /\ pc[n] \in {"settle", "confirm", "mounted"} => buf[m].seq # buf[n].seq

\* While m has the file system nobody else has it or is about to claim it.
Alone(m, n) == pc[m] \in Holding => pc[n] \notin Holding \cup {"claim"}

\* A node that is about to claim the block has been since before m did.
Older(m, n) ==
  Owner(m) /\ pc[n] = "claim" => SleepTime(interval[m]) - timer[m] <= since[n]

\* A node that has read the number of m sleeps longer than m leaves it there.
Outsleeps(m, n) ==
  pc[n] = "wait" /\ buf[n].seq = blk.seq =>
    /\ Owner(m) => timer[n] > timer[m] + 2 * MaxDelay - since[m]
    /\ pc[m] = "confirm" => timer[n] > MaxDelay - since[m]
    /\ pc[m] = "mounted" => timer[n] > interval[m] - since[m]

Nodewise == \A m \in Nodes : Reading(m) /\ Timing(m)
Pairwise == \A m, n \in Nodes : m # n =>
              Apart(m, n) /\ Alone(m, n) /\ Older(m, n) /\ Outsleeps(m, n)

Exclusive == ~misused => suspended = {} /\ Nodewise /\ Pairwise

\* What the sleeps are for: nobody is held up for as long as one of them.
Punctual == Staggered /\ MaxExtra > 0 /\ MaxDelay < SleepTime(SuperInterval)

-----------------------------------------------------------------------------
(* The operators                                                           *)

LEMMA SleepsAreOrdered ==
  ASSUME NEW v \in Nat, NEW w \in Nat, v <= w
  PROVE  /\ SleepTime(v) \in Nat /\ SleepTime(w) \in Nat
         /\ SleepTime(v) <= SleepTime(w)
         /\ MaxExtra > 0 => w < SleepTime(w)
BY MmpAssumption DEF SleepTime

LEMMA Intervals ==
  /\ SuperInterval \in Nat
  /\ \A record \in Records :
       /\ CheckInterval(record) \in Nat
       /\ SuperInterval <= CheckInterval(record) /\ record.interval <= CheckInterval(record)
BY MmpAssumption DEF SuperInterval, CheckInterval, Records

LEMMA NoRecordType == NoRecord \in Records
BY Intervals, MmpAssumption DEF NoRecord, Record, Records

\* There are more numbers than nodes: a new one is nobody's.
LEMMA NewSeqIsNew ==
  ASSUME MmpTypeOK
  PROVE  NewSeq \in Seqs /\ NewSeq # blk.seq /\ \A m \in Nodes : NewSeq # buf[m].seq
<1> DEFINE T == {buf[m].seq : m \in Nodes}
           f == [m \in Nodes |-> buf[m].seq]
<1>1. f \in Surjection(Nodes, T)
  BY DEF Surjection
<1>2. IsFiniteSet(T) /\ Cardinality(T) <= Cardinality(Nodes)
  BY <1>1, FS_Surjection, MmpAssumption
<1>3. IsFiniteSet(T \cup {blk.seq}) /\ Cardinality(T \cup {blk.seq}) <= Cardinality(Nodes) + 1
  <2> HIDE DEF T
  <2>1. Cardinality(T) \in Nat /\ Cardinality(Nodes) \in Nat
    BY <1>2, FS_CardinalityType, MmpAssumption
  <2> QED BY <2>1, <1>2, FS_AddElement
<1>4. PICK q \in Seqs : q \notin T \cup {blk.seq}
  <2> HIDE DEF T
  <2>1. SUFFICES ASSUME Seqs \subseteq T \cup {blk.seq} PROVE FALSE
    OBVIOUS
  <2>2. Cardinality(Seqs) <= Cardinality(T \cup {blk.seq})
    BY <2>1, <1>3, FS_Subset
  <2>3. Cardinality(Seqs) \in Nat /\ Cardinality(Nodes) \in Nat /\ Cardinality(T \cup {blk.seq}) \in Nat
    BY <1>3, FS_CardinalityType, MmpAssumption
  <2> QED BY <2>2, <2>3, <1>3, MmpAssumption
<1>5. q # blk.seq /\ \A m \in Nodes : q # buf[m].seq
  BY <1>4
<1> QED
  BY <1>5 DEF NewSeq

-----------------------------------------------------------------------------
(* Types                                                                   *)

LEMMA InitTyped == Init => MmpTypeOK
<1> SUFFICES ASSUME Init PROVE MmpTypeOK
  OBVIOUS
<1>1. misused \in BOOLEAN
  BY Zenon DEF Init
<1>2. \A m \in Nodes : pc[m] = "off"
  BY DEF Init
<1> QED
  BY <1>1, <1>2, NoRecordType, Intervals DEF Init, MmpTypeOK

LEMMA LeavesTyped ==
  ASSUME MmpTypeOK, NEW m \in Nodes, Leaves(m), blk' \in Records,
         suspended' \subseteq Nodes, misused' \in BOOLEAN
  PROVE  MmpTypeOK'
BY NoRecordType, Intervals, MmpAssumption DEF Leaves, Step, MmpTypeOK

LEMMA TypeStep == MmpTypeOK /\ [Next]_mvars => MmpTypeOK'
<1> SUFFICES ASSUME MmpTypeOK, [Next]_mvars PROVE MmpTypeOK'
  OBVIOUS
<1> USE MmpAssumption, Intervals, NoRecordType
<1>1. ASSUME NEW m \in Nodes, Start(m) PROVE MmpTypeOK'
  <2>1. CASE StartClean(m)
    BY <2>1 DEF StartClean, Reads, Step, MmpTypeOK
  <2>2. CASE StartInUse(m)
    <3>1. SleepTime(CheckInterval(blk)) \in Nat
      BY SleepsAreOrdered DEF MmpTypeOK
    <3> QED BY <2>2, <3>1 DEF StartInUse, Reads, Step, MmpTypeOK
  <2>3. CASE Waited(m)
    <3>1. CASE blk.seq = buf[m].seq
      BY <2>3, <3>1 DEF Waited, Reads, Step, MmpTypeOK
    <3>2. CASE blk.seq # buf[m].seq
      BY <2>3, <3>2, LeavesTyped DEF Waited, MmpTypeOK
    <3> QED BY <3>1, <3>2
  <2>4. CASE OnlyChecking(m)
    BY <2>4, LeavesTyped DEF OnlyChecking, MmpTypeOK
  <2>5. CASE Claim(m)
    <3>1. SleepTime(interval[m]) \in Nat
      BY SleepsAreOrdered DEF MmpTypeOK
    <3>2. blk' \in Records /\ blk'.seq \in Seqs
      BY <2>5, NewSeqIsNew DEF Claim, Record, Records, MmpTypeOK
    <3> QED BY <2>5, <3>1, <3>2 DEF Claim, Step, MmpTypeOK
  <2>6. CASE Settled(m)
    <3>1. CASE StillMine(m)
      BY <2>6, <3>1 DEF Settled, Reads, Step, MmpTypeOK
    <3>2. CASE ~StillMine(m)
      BY <2>6, <3>2, LeavesTyped DEF Settled, MmpTypeOK
    <3> QED BY <3>1, <3>2
  <2>7. CASE Confirm(m)
    <3>1. blk' \in Records
      BY <2>7 DEF Confirm, Records, MmpTypeOK
    <3> QED BY <2>7, <3>1 DEF Confirm, Step, MmpTypeOK
  <2> QED
    BY <1>1, <2>1, <2>2, <2>3, <2>4, <2>5, <2>6, <2>7 DEF Start
<1>2. ASSUME NEW m \in Nodes, Use(m) PROVE MmpTypeOK'
  <2>1. CASE Update(m)
    BY <2>1 DEF Update, Step, MmpTypeOK
  <2>2. CASE Rewrite(m)
    <3>1. blk' \in Records
      BY <2>2 DEF Rewrite, Records, MmpTypeOK
    <3> QED BY <2>2, <3>1 DEF Rewrite, Step, MmpTypeOK
  <2>3. CASE UpdateAborts(m) \/ Stop(m)
    BY <2>3 DEF UpdateAborts, Stop, Reads, Step, MmpTypeOK
  <2>4. CASE StopWrites(m)
    <3>1. blk' \in Records
      BY <2>4 DEF StopWrites, Records, MmpTypeOK
    <3> QED BY <2>4, <3>1, LeavesTyped DEF StopWrites, MmpTypeOK
  <2> QED
    BY <1>2, <2>1, <2>2, <2>3, <2>4 DEF Use
<1>3. ASSUME NEW m \in Nodes, Kernel(m) PROVE MmpTypeOK'
  <2>1. CASE Mounts(m)
    <3>1. PICK wait \in {SuperInterval, SlowInterval} :
            blk' = Record(NewSeq, m, wait) /\ interval' = [interval EXCEPT ![m] = wait]
      BY <2>1 DEF Mounts
    <3>2. blk' \in Records /\ wait \in Nat
      BY <3>1, NewSeqIsNew DEF Record, Records
    <3> QED BY <2>1, <3>1, <3>2 DEF Mounts, Step, MmpTypeOK
  <2>2. CASE Beat(m)
    <3>1. CASE blk.node = m
      <4>1. blk' \in Records
        BY <2>2, <3>1, NewSeqIsNew DEF Beat, Records, MmpTypeOK
      <4> QED BY <2>2, <3>1, <4>1 DEF Beat, Step, MmpTypeOK
    <3>2. CASE blk.node # m
      BY <2>2, <3>2, LeavesTyped DEF Beat, MmpTypeOK
    <3> QED BY <3>1, <3>2
  <2>3. CASE Unmount(m)
    <3>1. blk' \in Records
      BY <2>3 DEF Unmount, Records, MmpTypeOK
    <3> QED BY <2>3, <3>1, LeavesTyped DEF Unmount, MmpTypeOK
  <2> QED
    BY <1>3, <2>1, <2>2, <2>3 DEF Kernel
<1>4. ASSUME NEW m \in Nodes, Crash(m) PROVE MmpTypeOK'
  BY <1>4, LeavesTyped DEF Crash, MmpTypeOK
<1>5. ASSUME NEW m \in Nodes, Suspend(m) \/ Resume(m) PROVE MmpTypeOK'
  <2>1. misused' \in BOOLEAN
    BY <1>5, Zenon DEF Suspend, Resume, MmpTypeOK
  <2> QED BY <1>5, <2>1 DEF Suspend, Resume, MmpTypeOK
<1>6. CASE clear_mmp
  BY <1>6 DEF clear_mmp, MmpTypeOK
<1>7. CASE Tick
  BY <1>7 DEF Tick, MmpTypeOK
<1>8. CASE UNCHANGED mvars
  BY <1>8 DEF mvars, MmpTypeOK
<1> QED
  BY <1>1, <1>2, <1>3, <1>4, <1>5, <1>6, <1>7, <1>8 DEF Next

-----------------------------------------------------------------------------
(* Steps of one node                                                       *)

\* Node m takes a step and the others stay where they are.
Still(n) ==
  /\ pc'[n] = pc[n] /\ buf'[n] = buf[n] /\ interval'[n] = interval[n]
  /\ timer'[n] = timer[n] /\ since'[n] = since[n]

Others(m) == \A n \in Nodes : n # m => Still(n)

Pair(m, n) == Apart(m, n) /\ Alone(m, n) /\ Older(m, n) /\ Outsleeps(m, n)

Calm == MmpTypeOK /\ MmpTypeOK' /\ Punctual /\ Nodewise /\ Pairwise

\* The block stays as it is: only what concerns m is to be shown.
LEMMA BlockStays ==
  ASSUME Calm, NEW m \in Nodes, Others(m), blk' = blk,
         Reading(m)', Timing(m)', \A n \in Nodes : n # m => Pair(m, n)' /\ Pair(n, m)'
  PROVE  Nodewise' /\ Pairwise'
<1>1. ASSUME NEW n \in Nodes, n # m PROVE Reading(n)' /\ Timing(n)'
  <2>1. Reading(n) /\ Timing(n) /\ Still(n)
    BY <1>1 DEF Calm, Nodewise, Others
  <2>2. Reading(n)'
    BY <2>1 DEF Reading, Still
  <2>3. Timing(n)'
    BY <2>1 DEF Timing, Still, Deadline
  <2> QED BY <2>2, <2>3
<1>2. ASSUME NEW x \in Nodes, NEW y \in Nodes, x # y, x # m, y # m PROVE Pair(x, y)'
  <2>1. Pair(x, y) /\ Still(x) /\ Still(y)
    BY <1>2 DEF Calm, Pairwise, Pair, Others
  <2> QED
    BY <2>1 DEF Pair, Apart, Alone, Older, Outsleeps, Owner, Still
<1> QED
  BY <1>1, <1>2 DEF Nodewise, Pairwise, Pair

\* A node that is gone concerns nobody.
LEMMA OffIsAlone ==
  ASSUME NEW m \in Nodes, pc'[m] = "off"
  PROVE  /\ Reading(m)' /\ Timing(m)'
         /\ \A n \in Nodes : Pair(m, n)' /\ Pair(n, m)'
BY DEF Reading, Timing, Deadline, Pair, Apart, Alone, Older, Outsleeps, Owner, Holding

LEMMA LeavesOthers ==
  ASSUME MmpTypeOK, NEW m \in Nodes, Leaves(m)
  PROVE  Others(m) /\ pc'[m] = "off"
BY DEF MmpTypeOK, Leaves, Step, Others, Still

LEMMA LeavesCalm ==
  ASSUME Calm, NEW m \in Nodes, Leaves(m), blk' = blk
  PROVE  Nodewise' /\ Pairwise'
BY BlockStays, OffIsAlone, LeavesOthers DEF Calm

\* The one that has the file system gives it back.
LEMMA ReleaseCalm ==
  ASSUME Calm, NEW m \in Nodes, pc[m] \in Holding, Leaves(m), blk'.seq = CLEAN
  PROVE  Nodewise' /\ Pairwise'
<1>1. Others(m) /\ pc'[m] = "off"
  BY LeavesOthers DEF Calm
<1>2. ASSUME NEW n \in Nodes, n # m PROVE Reading(n)' /\ Timing(n)'
  <2>1. Reading(n) /\ Timing(n) /\ Still(n) /\ pc[n] \notin Holding
    BY <1>1, <1>2 DEF Calm, Nodewise, Pairwise, Others, Alone
  <2>2. Reading(n)'
    BY <2>1, MmpAssumption DEF Reading, Still, Holding
  <2>3. Timing(n)'
    BY <2>1 DEF Timing, Still, Deadline
  <2> QED BY <2>2, <2>3
<1>3. ASSUME NEW x \in Nodes, NEW y \in Nodes, x # y, x # m, y # m PROVE Pair(x, y)'
  <2>1. Pair(x, y) /\ Still(x) /\ Still(y) /\ Reading(x) /\ Reading(y) /\ pc[x] \notin Holding
    BY <1>1, <1>3 DEF Calm, Pairwise, Nodewise, Pair, Others, Alone
  <2> QED
    BY <2>1, MmpAssumption DEF Pair, Apart, Alone, Older, Outsleeps, Owner, Still, Reading, Holding
<1> QED
  BY <1>1, <1>2, <1>3, OffIsAlone DEF Nodewise, Pairwise, Pair

\* m has the file system: nobody else is about to write to the block.
LEMMA HolderAlone ==
  ASSUME Calm, NEW m \in Nodes, pc[m] \in Holding
  PROVE  \A n \in Nodes : n # m =>
           /\ pc[n] \notin Holding \cup {"claim"}
           /\ ~Owner(n)
<1> TAKE n \in Nodes
<1> SUFFICES ASSUME n # m PROVE pc[n] \notin Holding \cup {"claim"} /\ ~Owner(n)
  OBVIOUS
<1>1. pc[n] \notin Holding \cup {"claim"} /\ Apart(n, m) /\ Reading(m) /\ Reading(n)
  BY DEF Calm, Pairwise, Nodewise, Alone
<1> QED
  BY <1>1, MmpAssumption DEF Owner, Apart, Reading, Holding

\* The one that has the file system writes FSCK.
LEMMA MarkCalm ==
  ASSUME Calm, NEW m \in Nodes, pc[m] \in Holding, Step(m, "open"),
         blk'.seq = FSCK, buf' = [buf EXCEPT ![m] = blk'], UNCHANGED <<interval, timer>>
  PROVE  Nodewise' /\ Pairwise'
<1>1. Others(m) /\ pc'[m] = "open" /\ buf'[m] = blk'
  BY DEF Calm, MmpTypeOK, Step, Others, Still
<1>2. \A n \in Nodes : n # m => pc[n] \notin Holding \cup {"claim"} /\ Still(n)
  BY <1>1, HolderAlone DEF Others
<1>3. ASSUME NEW n \in Nodes, n # m PROVE Reading(n)' /\ Timing(n)'
  <2>1. Reading(n) /\ Timing(n) /\ Still(n) /\ pc[n] \notin Holding
    BY <1>2, <1>3 DEF Calm, Nodewise
  <2>2. Reading(n)'
    BY <2>1, MmpAssumption DEF Reading, Still, Holding
  <2>3. Timing(n)'
    BY <2>1 DEF Timing, Still, Deadline
  <2> QED BY <2>2, <2>3
<1>4. Reading(m)' /\ Timing(m)'
  BY <1>1, MmpAssumption DEF Reading, Timing, Deadline, Holding
<1>5. ASSUME NEW x \in Nodes, NEW y \in Nodes, x # y PROVE Pair(x, y)'
  <2>1. \A z \in {x, y} : z # m => Still(z) /\ pc[z] \notin Holding \cup {"claim"} /\ Reading(z)
    BY <1>2 DEF Calm, Nodewise
  <2>2. pc[x] = "settle" /\ pc[y] = "settle" => buf[x].seq # buf[y].seq
    BY <1>5 DEF Calm, Pairwise, Apart
  <2>3. Apart(x, y)'
    BY <1>1, <2>1, <2>2 DEF Apart, Still, Holding
  <2>4. Alone(x, y)'
    BY <1>1, <1>5, <2>1 DEF Alone, Still, Holding
  <2>5. Older(x, y)' /\ Outsleeps(x, y)'
    BY <1>1, <2>1, MmpAssumption DEF Older, Outsleeps, Owner, Still, Reading, Holding
  <2> QED BY <2>3, <2>4, <2>5 DEF Pair
<1> QED
  BY <1>3, <1>4, <1>5 DEF Nodewise, Pairwise, Pair

-----------------------------------------------------------------------------
(* Starting                                                                *)

\* Between claims: a clean block is nobody's.
LEMMA CleanIsNobodys ==
  ASSUME Calm, blk.seq = CLEAN, NEW m \in Nodes
  PROVE  pc[m] \notin Holding /\ ~Owner(m)
BY MmpAssumption DEF Calm, Nodewise, Reading, Holding, Owner

LEMMA StartCleanCalm ==
  ASSUME Calm, NEW m \in Nodes, StartClean(m)
  PROVE  Nodewise' /\ Pairwise'
<1>1. /\ Others(m) /\ blk' = blk /\ pc'[m] = "claim" /\ since'[m] = 0
      /\ buf'[m] = blk /\ interval'[m] = SuperInterval /\ blk.seq = CLEAN
  BY DEF StartClean, Reads, Step, Others, Still, Calm, MmpTypeOK
<1>2. Reading(m)'
  BY <1>1 DEF Reading, Holding
<1>3. Timing(m)'
  BY <1>1, Intervals, MmpAssumption DEF Timing, Deadline, Calm, MmpTypeOK
<1>4. ASSUME NEW n \in Nodes, n # m PROVE Pair(m, n)' /\ Pair(n, m)'
  <2>1. pc[n] \notin Holding /\ ~Owner(n) /\ Still(n)
    BY <1>1, <1>4, CleanIsNobodys DEF Others
  <2> QED
    BY <1>1, <2>1 DEF Pair, Apart, Alone, Older, Outsleeps, Owner, Still, Holding
<1> QED
  BY <1>1, <1>2, <1>3, <1>4, BlockStays

LEMMA StartInUseCalm ==
  ASSUME Calm, NEW m \in Nodes, StartInUse(m)
  PROVE  Nodewise' /\ Pairwise'
<1> DEFINE wait == CheckInterval(blk)
<1>1. /\ Others(m) /\ blk' = blk /\ pc'[m] = "wait" /\ since'[m] = 0
      /\ buf'[m] = blk /\ interval'[m] = wait /\ blk.seq \in Seqs
      /\ timer'[m] = SleepTime(wait) /\ ~FreshClaim
  BY DEF StartInUse, Reads, Step, Others, Still, Calm, MmpTypeOK, Punctual
<1>2. wait \in Nat /\ SuperInterval \in Nat /\ SuperInterval <= wait /\ blk.interval <= wait
  BY Intervals DEF Calm, MmpTypeOK
<1> HIDE DEF wait
<1>3. SleepTime(wait) \in Nat
  BY <1>2, SleepsAreOrdered
<1>4. Reading(m)'
  BY <1>1 DEF Reading, Holding
<1>5. Timing(m)'
  BY <1>1, <1>2, <1>3, Intervals, MmpAssumption DEF Timing, Deadline, wait
<1>6. ASSUME NEW n \in Nodes, n # m PROVE Pair(m, n)' /\ Pair(n, m)'
  <2>1. Still(n) /\ Reading(n) /\ Timing(n) /\ interval[n] \in Nat /\ timer[n] \in Nat /\ since[n] \in Nat
    BY <1>1, <1>6 DEF Others, Calm, Nodewise, MmpTypeOK
  <2>2. Pair(m, n)'
    BY <1>1, <2>1 DEF Pair, Apart, Alone, Older, Outsleeps, Owner, Still, Holding
  <2>3. Apart(n, m)' /\ Alone(n, m)' /\ Older(n, m)'
    BY <1>1, <2>1 DEF Apart, Alone, Older, Owner, Still, Holding
  <2>4. ASSUME Owner(n) PROVE timer'[m] > timer[n] + 2 * MaxDelay - since[n]
    <3>1. buf[n] = blk /\ interval[n] <= wait
      BY <2>1, <2>4, <1>2 DEF Owner, Reading, Timing, wait
    <3>2. SleepTime(interval[n]) \in Nat /\ SleepTime(interval[n]) <= SleepTime(wait)
      BY <3>1, <2>1, <1>2, SleepsAreOrdered
    <3>3. SleepTime(interval[n]) - timer[n] > 2 * MaxDelay
      BY <1>1, <2>1, <2>4, <3>2, MmpAssumption DEF FreshClaim, Owner
    <3> QED BY <1>1, <1>3, <2>1, <3>2, <3>3, MmpAssumption
  <2>5. ASSUME pc[n] = "confirm" PROVE timer'[m] > MaxDelay - since[n]
    <3>1. SleepTime(SuperInterval) \in Nat /\ SleepTime(SuperInterval) <= SleepTime(wait)
      BY <1>2, SleepsAreOrdered
    <3> QED BY <1>1, <1>3, <2>1, <3>1, MmpAssumption DEF Calm, Punctual
  <2>6. ASSUME pc[n] = "mounted" PROVE timer'[m] > interval[n] - since[n]
    <3>1. interval[n] <= wait /\ wait < SleepTime(wait)
      BY <2>1, <2>6, <1>2, SleepsAreOrdered DEF Reading, Calm, Punctual
    <3> QED BY <1>1, <1>2, <1>3, <2>1, <3>1
  <2>7. Outsleeps(n, m)'
    BY <1>1, <2>1, <2>4, <2>5, <2>6 DEF Outsleeps, Owner, Still
  <2> QED BY <2>2, <2>3, <2>7 DEF Pair
<1> QED
  BY <1>1, <1>4, <1>5, <1>6, BlockStays

\* The number is still there after the first sleep: its owner is gone.
LEMMA WaitedCalm ==
  ASSUME Calm, NEW m \in Nodes, Waited(m)
  PROVE  Nodewise' /\ Pairwise'
<1>1. CASE blk.seq # buf[m].seq
  BY <1>1, LeavesCalm DEF Waited
<1>2. CASE blk.seq = buf[m].seq
  <2>1. /\ Others(m) /\ blk' = blk /\ pc'[m] = "claim" /\ since'[m] = 0 /\ buf'[m] = blk
        /\ interval'[m] = interval[m] /\ timer'[m] = timer[m] /\ pc[m] = "wait" /\ timer[m] = 0
    BY <1>2 DEF Waited, Reads, Step, Others, Still, Calm, MmpTypeOK
  <2>2. blk = buf[m] /\ interval[m] \in SuperInterval .. CheckInterval(buf[m]) /\ blk.seq \in Seqs
    BY <1>2, <2>1 DEF Calm, Nodewise, Reading, Timing
  <2>3. Reading(m)'
    BY <2>1 DEF Reading, Holding
  <2>4. Timing(m)'
    BY <2>1, <2>2, MmpAssumption DEF Timing, Deadline
  <2>5. ASSUME NEW n \in Nodes, n # m PROVE Pair(m, n)' /\ Pair(n, m)'
    <3>1. Still(n) /\ Reading(n) /\ Timing(n) /\ Outsleeps(n, m)
      BY <2>1, <2>5 DEF Others, Calm, Nodewise, Pairwise
    <3>2. interval[n] \in Nat /\ timer[n] \in Nat /\ since[n] \in Nat
      BY DEF Calm, MmpTypeOK
    <3>3. ~Owner(n)
      <4>1. SUFFICES ASSUME Owner(n) PROVE FALSE
        OBVIOUS
      <4>2. timer[m] > timer[n] + 2 * MaxDelay - since[n]
        BY <1>2, <2>1, <3>1, <4>1 DEF Outsleeps
      <4>3. since[n] <= MaxDelay
        BY <3>1, <3>2, <4>1, MmpAssumption DEF Timing, Deadline, Owner
      <4> QED BY <2>1, <3>2, <4>2, <4>3, MmpAssumption
    <3>4. pc[n] # "confirm" /\ pc[n] # "mounted"
      <4>1. pc[n] = "confirm" => since[n] <= MaxDelay
        BY <3>1, <3>2, MmpAssumption DEF Timing, Deadline
      <4>2. pc[n] = "mounted" => since[n] <= interval[n]
        BY <3>1, <3>2, MmpAssumption DEF Timing, Deadline
      <4> QED BY <1>2, <2>1, <3>1, <3>2, <4>1, <4>2, MmpAssumption DEF Outsleeps
    <3>5. pc[n] \notin Holding
      BY <2>2, <3>1, <3>4, MmpAssumption DEF Reading, Holding
    <3> QED
      BY <2>1, <3>1, <3>3, <3>5 DEF Pair, Apart, Alone, Older, Outsleeps, Owner, Still, Holding
  <2> QED
    BY <2>1, <2>3, <2>4, <2>5, BlockStays
<1> QED BY <1>1, <1>2

LEMMA ClaimCalm ==
  ASSUME Calm, NEW m \in Nodes, Claim(m)
  PROVE  Nodewise' /\ Pairwise'
<1>1. /\ Others(m) /\ pc[m] = "claim" /\ pc'[m] = "settle" /\ since'[m] = 0
      /\ blk' = Record(NewSeq, m, buf[m].interval) /\ buf'[m] = blk'
      /\ interval'[m] = interval[m] /\ timer'[m] = SleepTime(interval[m])
  BY DEF Claim, Step, Others, Still, Calm, MmpTypeOK
<1>2. /\ blk'.seq = NewSeq /\ NewSeq \in Seqs /\ NewSeq # blk.seq
      /\ \A n \in Nodes : NewSeq # buf[n].seq
  BY <1>1, NewSeqIsNew DEF Calm, Record
<1>3. interval[m] \in Nat /\ SleepTime(interval[m]) \in Nat
  BY SleepsAreOrdered DEF Calm, MmpTypeOK
<1>4. interval[m] \in SuperInterval .. CheckInterval(blk')
  BY <1>1 DEF Calm, Nodewise, Timing, CheckInterval, Record
<1>5. \A n \in Nodes : n # m => pc[n] \notin Holding
  BY <1>1 DEF Calm, Pairwise, Alone
<1>6. Reading(m)'
  BY <1>1, <1>2 DEF Reading, Holding
<1>7. Timing(m)'
  <2>1. Deadline(m)' # -1 => Deadline(m)' = MaxDelay
    BY <1>1 DEF Deadline
  <2> QED BY <1>1, <1>3, <1>4, <2>1, MmpAssumption DEF Timing
<1>8. ASSUME NEW n \in Nodes, n # m PROVE Reading(n)' /\ Timing(n)'
  <2>1. Reading(n) /\ Timing(n) /\ Still(n) /\ pc[n] \notin Holding
    BY <1>1, <1>5, <1>8 DEF Calm, Nodewise, Others
  <2>2. Reading(n)'
    BY <1>2, <2>1 DEF Reading, Still, Holding
  <2>3. Timing(n)'
    BY <2>1 DEF Timing, Still, Deadline
  <2> QED BY <2>2, <2>3
<1>9. ASSUME NEW x \in Nodes, NEW y \in Nodes, x # y PROVE Pair(x, y)'
  <2>1. \A z \in {x, y} : z # m => Still(z) /\ pc[z] \notin Holding /\ ~Owner(z)'
    BY <1>1, <1>2, <1>5 DEF Others, Owner, Still
  <2>2. pc[x] = "settle" /\ pc[y] = "settle" => buf[x].seq # buf[y].seq
    BY <1>9 DEF Calm, Pairwise, Apart
  <2>3. Apart(x, y)'
    BY <1>1, <1>2, <1>9, <2>1, <2>2 DEF Apart, Still, Holding
  <2>4. Alone(x, y)'
    BY <1>1, <2>1 DEF Alone, Still, Holding
  <2>5. Older(x, y)'
    <3>1. since'[y] \in Nat
      BY DEF Calm, MmpTypeOK
    <3> QED BY <1>1, <1>3, <2>1, <3>1 DEF Older
  <2>6. Outsleeps(x, y)'
    BY <1>1, <1>2, <2>1 DEF Outsleeps, Still, Holding
  <2> QED BY <2>3, <2>4, <2>5, <2>6 DEF Pair
<1> QED
  BY <1>6, <1>7, <1>8, <1>9 DEF Nodewise, Pairwise, Pair

\* The number is still m's after the second sleep: everyone else has seen it.
LEMMA SettledCalm ==
  ASSUME Calm, NEW m \in Nodes, Settled(m)
  PROVE  Nodewise' /\ Pairwise'
<1>1. CASE ~StillMine(m)
  BY <1>1, LeavesCalm DEF Settled
<1>2. CASE StillMine(m)
  <2>1. /\ Others(m) /\ blk' = blk /\ pc'[m] = "confirm" /\ since'[m] = 0 /\ buf'[m] = blk
        /\ interval'[m] = interval[m] /\ timer'[m] = timer[m] /\ pc[m] = "settle" /\ timer[m] = 0
        /\ Owner(m)
    BY <1>2 DEF Settled, StillMine, Reads, Step, Others, Still, Calm, MmpTypeOK, Owner
  <2>2. blk = buf[m] /\ blk.seq \in Seqs
    BY <2>1 DEF Calm, Nodewise, Reading, Owner
  <2>3. Reading(m)' /\ Timing(m)'
    BY <2>1, <2>2, MmpAssumption DEF Reading, Holding, Timing, Deadline
  <2>4. interval[m] \in Nat /\ since[m] \in Nat /\ since[m] <= MaxDelay
    BY <2>1, MmpAssumption DEF Calm, Nodewise, Timing, Deadline, MmpTypeOK
  <2>5. SleepTime(interval[m]) \in Nat /\ SleepTime(interval[m]) > MaxDelay
    <3>1. SuperInterval \in Nat /\ SuperInterval <= interval[m]
      BY <2>1, Intervals DEF Calm, Nodewise, Timing
    <3>2. SleepTime(SuperInterval) <= SleepTime(interval[m]) /\ SleepTime(SuperInterval) \in Nat
          /\ SleepTime(interval[m]) \in Nat
      BY <2>4, <3>1, SleepsAreOrdered
    <3> QED BY <3>2, MmpAssumption DEF Calm, Punctual
  <2>6. ASSUME NEW n \in Nodes, n # m PROVE Pair(m, n)' /\ Pair(n, m)'
    <3>1. Still(n) /\ Reading(n) /\ Timing(n) /\ Pair(m, n) /\ Pair(n, m)
      BY <2>1, <2>6 DEF Others, Calm, Nodewise, Pairwise, Pair
    <3>2. interval[n] \in Nat /\ timer[n] \in Nat /\ since[n] \in Nat
      BY DEF Calm, MmpTypeOK
    <3>3. pc[n] # "claim"
      <4>1. pc[n] = "claim" => since[n] <= MaxDelay
        BY <3>1, MmpAssumption DEF Timing, Deadline
      <4> QED BY <2>1, <2>5, <3>1, <3>2, <4>1, MmpAssumption DEF Pair, Older
    <3>4. pc[n] \notin Holding /\ ~Owner(n)
      BY <2>1, <2>2, <3>1, MmpAssumption DEF Pair, Apart, Reading, Owner, Holding
    <3>5. pc[n] = "wait" /\ buf[n].seq = blk.seq => timer[n] > MaxDelay - since'[m]
      BY <2>1, <2>4, <3>1, <3>2, MmpAssumption DEF Pair, Outsleeps
    <3> QED
      BY <2>1, <2>2, <3>1, <3>3, <3>4, <3>5
      DEF Pair, Apart, Alone, Older, Outsleeps, Owner, Still, Holding
  <2> QED
    BY <2>1, <2>3, <2>6, BlockStays
<1> QED BY <1>1, <1>2

-----------------------------------------------------------------------------
(* Using the file system                                                   *)

\* The holder moves on without writing: nobody has changed the block.
LEMMA HolderMovesCalm ==
  ASSUME Calm, NEW m \in Nodes, NEW where \in {"rewrite", "stop"}, pc[m] = "open",
         Step(m, where), UNCHANGED <<blk, interval, timer>>, buf'[m] = blk,
         \A n \in Nodes : n # m => buf'[n] = buf[n]
  PROVE  Nodewise' /\ Pairwise'
<1>1. Others(m) /\ pc'[m] = where /\ since'[m] = 0
  BY DEF Step, Others, Still, Calm, MmpTypeOK
<1>2. blk.seq = FSCK
  BY DEF Calm, Nodewise, Reading
<1>3. Reading(m)'
  BY <1>1, <1>2 DEF Reading, Holding
<1>4. Timing(m)'
  BY <1>1, MmpAssumption DEF Timing, Deadline
<1>5. ASSUME NEW n \in Nodes, n # m PROVE Pair(m, n)' /\ Pair(n, m)'
  <2>1. Still(n) /\ pc[n] \notin Holding \cup {"claim"} /\ ~Owner(n) /\ Reading(n)
    BY <1>1, <1>5, HolderAlone DEF Others, Calm, Nodewise, Holding
  <2> QED
    BY <1>1, <1>2, <2>1, MmpAssumption
    DEF Pair, Apart, Alone, Older, Outsleeps, Owner, Still, Holding, Reading
<1> QED
  BY <1>1, <1>3, <1>4, <1>5, BlockStays

\* The kernel that mounts, or has mounted, writes its next number.
LEMMA NumberCalm ==
  ASSUME Calm, NEW m \in Nodes, pc[m] \in {"confirm", "mounted"}, Step(m, "mounted"),
         blk'.seq = NewSeq, blk'.node = m, blk'.interval = interval'[m],
         buf' = [buf EXCEPT ![m] = blk'], timer' = timer,
         \A n \in Nodes : n # m => interval'[n] = interval[n]
  PROVE  Nodewise' /\ Pairwise'
<1>1. Others(m) /\ pc'[m] = "mounted" /\ since'[m] = 0 /\ buf'[m] = blk'
  BY DEF Step, Others, Still, Calm, MmpTypeOK
<1>2. /\ NewSeq \in Seqs /\ NewSeq # blk.seq
      /\ \A n \in Nodes : NewSeq # buf[n].seq
  BY NewSeqIsNew DEF Calm
<1>3. \A n \in Nodes : n # m => pc[n] \notin Holding \cup {"claim"} /\ Still(n) /\ ~Owner(n)'
  <2>1. \A n \in Nodes : n # m => pc[n] \notin Holding \cup {"claim"} /\ Still(n)
    BY <1>1, HolderAlone DEF Others, Holding
  <2> QED BY <1>2, <2>1 DEF Owner, Still
<1>4. Reading(m)'
  BY <1>1, <1>2 DEF Reading, Holding
<1>5. Timing(m)'
  <2>1. interval'[m] \in Nat
    BY DEF Calm, MmpTypeOK
  <2> QED BY <1>1, <2>1 DEF Timing, Deadline
<1>6. ASSUME NEW n \in Nodes, n # m PROVE Reading(n)' /\ Timing(n)'
  <2>1. Reading(n) /\ Timing(n) /\ Still(n) /\ pc[n] \notin Holding
    BY <1>3, <1>6 DEF Calm, Nodewise
  <2>2. Reading(n)'
    BY <1>2, <2>1 DEF Reading, Still, Holding
  <2>3. Timing(n)'
    BY <2>1 DEF Timing, Still, Deadline
  <2> QED BY <2>2, <2>3
<1>7. ASSUME NEW x \in Nodes, NEW y \in Nodes, x # y PROVE Pair(x, y)'
  <2>1. \A z \in {x, y} : z # m => Still(z) /\ pc[z] \notin Holding \cup {"claim"} /\ ~Owner(z)'
    BY <1>3
  <2>2. pc[x] = "settle" /\ pc[y] = "settle" => buf[x].seq # buf[y].seq
    BY <1>7 DEF Calm, Pairwise, Apart
  <2>3. Apart(x, y)'
    BY <1>1, <1>2, <1>7, <2>1, <2>2 DEF Apart, Still, Holding
  <2>4. Alone(x, y)'
    BY <1>1, <1>7, <2>1 DEF Alone, Still, Holding
  <2>5. Older(x, y)'
    BY <1>1, <2>1 DEF Older, Owner, Still, Holding
  <2>6. Outsleeps(x, y)'
    BY <1>1, <1>2, <2>1 DEF Outsleeps, Still, Holding
  <2> QED BY <2>3, <2>4, <2>5, <2>6 DEF Pair
<1> QED
  BY <1>4, <1>5, <1>6, <1>7 DEF Nodewise, Pairwise, Pair

LEMMA UseCalm ==
  ASSUME Calm, NEW m \in Nodes, Confirm(m) \/ Use(m) \/ Kernel(m)
  PROVE  Nodewise' /\ Pairwise'
<1>1. CASE Confirm(m) \/ Rewrite(m)
  <2>1. blk'.seq = FSCK /\ pc[m] \in Holding
    BY <1>1 DEF Confirm, Rewrite, Holding, Calm, MmpTypeOK, Records
  <2> QED BY <1>1, <2>1, MarkCalm DEF Confirm, Rewrite
<1>2. CASE Update(m)
  BY <1>2, HolderMovesCalm DEF Update, Noticed
<1>3. CASE UpdateAborts(m) \/ Stop(m)
  <2>1. buf'[m] = blk /\ \A n \in Nodes : n # m => buf'[n] = buf[n]
    BY <1>3 DEF UpdateAborts, Stop, Reads, Calm, MmpTypeOK
  <2> QED BY <1>3, <2>1, HolderMovesCalm DEF UpdateAborts, Stop
<1>4. CASE StopWrites(m) \/ Unmount(m)
  <2>1. blk'.seq = CLEAN /\ pc[m] \in Holding
    BY <1>4 DEF StopWrites, Unmount, Holding, Calm, MmpTypeOK, Records
  <2> QED BY <1>4, <2>1, ReleaseCalm DEF StopWrites, Unmount
<1>5. CASE Mounts(m)
  <2>1. PICK wait \in {SuperInterval, SlowInterval} :
          blk' = Record(NewSeq, m, wait) /\ interval' = [interval EXCEPT ![m] = wait]
    BY <1>5 DEF Mounts
  <2>2. /\ blk'.seq = NewSeq /\ blk'.node = m /\ blk'.interval = interval'[m]
        /\ \A n \in Nodes : n # m => interval'[n] = interval[n]
    BY <2>1 DEF Record, Calm, MmpTypeOK
  <2> QED BY <1>5, <2>2, NumberCalm DEF Mounts
<1>6. CASE Beat(m)
  <2>1. blk = buf[m] /\ blk.node = m /\ blk.interval = interval[m] /\ blk \in Records
    BY <1>6 DEF Beat, Calm, Nodewise, Reading, Holding, MmpTypeOK
  <2>2. blk'.seq = NewSeq /\ blk'.node = m /\ blk'.interval = interval'[m]
    BY <1>6, <2>1 DEF Beat, Records
  <2> QED BY <1>6, <2>1, <2>2, NumberCalm DEF Beat
<1> QED
  BY <1>1, <1>2, <1>3, <1>4, <1>5, <1>6 DEF Use, Kernel

-----------------------------------------------------------------------------
(* Time                                                                    *)

\* A tick is the same for everyone who sleeps or is waited for.
LEMMA TickCalm ==
  ASSUME Calm, Tick, suspended = {}
  PROVE  Nodewise' /\ Pairwise'
<1>1. /\ UNCHANGED <<blk, pc, buf, interval, suspended>>
      /\ \A n \in Nodes : timer'[n] = IF timer[n] > 0 THEN timer[n] - 1 ELSE 0
      /\ \A n \in Nodes : since'[n] = IF Counted(n) THEN since[n] + 1 ELSE since[n]
      /\ \A n \in Nodes : Deadline(n) # -1 => since[n] < Deadline(n)
  BY DEF Tick, Awake
<1>2. \A n \in Nodes : interval[n] \in Nat /\ timer[n] \in Nat /\ since[n] \in Nat
  BY DEF Calm, MmpTypeOK
<1>3. ASSUME NEW n \in Nodes
      PROVE  /\ Reading(n)
             /\ Timing(n)
             /\ Deadline(n) # -1 => since'[n] = since[n] + 1
             /\ pc[n] = "settle" /\ timer[n] > 0 => since'[n] = since[n]
  BY <1>1 DEF Calm, Nodewise, Counted, Awake, Deadline
<1>4. ASSUME NEW n \in Nodes PROVE Reading(n)' /\ Timing(n)'
  <2>1. Reading(n)'
    BY <1>1, <1>3 DEF Reading
  <2>2. pc[n] = "settle" => SleepTime(interval[n]) \in Nat
    BY <1>2, SleepsAreOrdered
  <2>3. Deadline(n)' # -1 => since'[n] <= Deadline(n)'
    <3>1. CASE Deadline(n) # -1
      <4>1. Deadline(n)' = Deadline(n) /\ Deadline(n) \in Nat
        BY <1>1, <1>2, <3>1, MmpAssumption DEF Deadline
      <4> QED BY <1>1, <1>2, <1>3, <3>1, <4>1
    <3>2. CASE Deadline(n) = -1 /\ Deadline(n)' # -1
      <4>1. pc[n] \in {"wait", "settle"} /\ timer[n] > 0 /\ Deadline(n)' = MaxDelay
        BY <1>1, <1>2, <3>2 DEF Deadline
      <4>2. since'[n] = since[n]
        BY <1>1, <3>2, <4>1 DEF Counted
      <4> QED BY <1>2, <1>3, <4>1, <4>2, MmpAssumption DEF Timing
    <3> QED BY <3>1, <3>2
  <2>4. CheckInterval(buf[n])' = CheckInterval(buf[n])
    BY <1>1 DEF CheckInterval
  <2>5. pc[n] \in {"wait", "settle"} /\ timer[n] > 0 => since'[n] = since[n]
    BY <1>1, <1>2 DEF Counted, Deadline
  <2>6. Timing(n)'
    BY <1>1, <1>2, <1>3, <2>2, <2>3, <2>4, <2>5 DEF Timing
  <2> QED BY <2>1, <2>6
<1>5. ASSUME NEW m \in Nodes, NEW n \in Nodes, m # n PROVE Pair(m, n)'
  <2>1. Pair(m, n) /\ Timing(m)
    BY <1>3, <1>5 DEF Calm, Pairwise, Pair
  <2>2. Apart(m, n)' /\ Alone(m, n)'
    BY <1>1, <2>1 DEF Pair, Apart, Alone
  <2>3. Older(m, n)'
    <3>1. SleepTime(interval[m]) \in Nat
      BY <1>2, SleepsAreOrdered
    <3>2. pc[n] = "claim" => since'[n] = since[n] + 1
      BY <1>3, MmpAssumption DEF Deadline
    <3> QED BY <1>1, <1>2, <2>1, <3>1, <3>2 DEF Pair, Older, Owner
  <2>4. Outsleeps(m, n)'
    <3>1. pc[m] = "confirm" => since'[m] = since[m] + 1 /\ since[m] < MaxDelay
      BY <1>1, <1>3, MmpAssumption DEF Deadline
    <3>2. pc[m] = "mounted" => since'[m] = since[m] + 1 /\ since[m] < interval[m]
      BY <1>1, <1>2, <1>3 DEF Deadline
    <3>3. pc[m] = "settle" /\ timer[m] = 0 => since'[m] = since[m] + 1 /\ since[m] < MaxDelay
      BY <1>1, <1>3, MmpAssumption DEF Deadline
    <3>4. pc[m] = "settle" /\ timer[m] > 0 => since'[m] = since[m]
      BY <1>3
    <3> QED
      BY <1>1, <1>2, <2>1, <3>1, <3>2, <3>3, <3>4, MmpAssumption DEF Pair, Outsleeps, Owner
  <2> QED BY <2>2, <2>3, <2>4 DEF Pair
<1> QED
  BY <1>4, <1>5 DEF Nodewise, Pairwise, Pair

LEMMA InitExclusive == Init => Exclusive
<1> SUFFICES ASSUME Init PROVE suspended = {} /\ Nodewise /\ Pairwise
  BY DEF Exclusive
<1>1. suspended = {} /\ \A m \in Nodes : pc[m] = "off"
  BY DEF Init
<1> QED
  BY <1>1 DEF Nodewise, Pairwise, Reading, Timing, Deadline, Apart, Alone, Older, Outsleeps,
              Owner, Holding

LEMMA StepExclusive ==
  ASSUME Punctual, MmpTypeOK, MmpTypeOK', Exclusive, [Next]_mvars
  PROVE  Exclusive'
<1>1. SUFFICES ASSUME ~misused' PROVE suspended' = {} /\ Nodewise' /\ Pairwise'
  BY DEF Exclusive
<1>2. ~misused
  BY <1>1 DEF Next, Start, Use, Kernel, StartClean, StartInUse, Waited, OnlyChecking, Claim,
              Settled, Confirm, Update, Rewrite, UpdateAborts, Stop, StopWrites, Mounts, Beat,
              Unmount, Crash, Suspend, Resume, clear_mmp, Tick, mvars
<1>3. suspended = {} /\ Calm
  BY <1>2 DEF Exclusive, Calm
<1>4. ASSUME NEW m \in Nodes, Start(m) \/ Use(m) \/ Kernel(m) \/ Crash(m)
      PROVE  suspended' = {} /\ Nodewise' /\ Pairwise'
  <2>1. suspended' = suspended
    BY <1>4 DEF Start, Use, Kernel, StartClean, StartInUse, Waited, OnlyChecking, Claim,
                Settled, Confirm, Update, Rewrite, UpdateAborts, Stop, StopWrites, Mounts, Beat,
                Unmount, Crash
  <2>2. CASE OnlyChecking(m) \/ Crash(m)
    BY <1>3, <2>1, <2>2, LeavesCalm DEF OnlyChecking, Crash
  <2> QED
    BY <1>3, <1>4, <2>1, <2>2, StartCleanCalm, StartInUseCalm, WaitedCalm, ClaimCalm, SettledCalm,
       UseCalm DEF Start
<1>5. ASSUME NEW m \in Nodes, Suspend(m) \/ Resume(m)
      PROVE  suspended' = {} /\ Nodewise' /\ Pairwise'
  BY <1>1, <1>3, <1>5 DEF Suspend, Resume
<1>6. CASE clear_mmp
  <2>1. \A m \in Nodes : pc[m] = "off"
    BY <1>1, <1>6 DEF clear_mmp, Active
  <2> QED
    BY <1>3, <1>6, <2>1 DEF clear_mmp, Nodewise, Pairwise, Reading, Timing, Deadline, Apart, Alone,
                            Older, Outsleeps, Owner, Holding
<1>7. CASE Tick
  BY <1>3, <1>7, TickCalm DEF Tick
<1>8. CASE UNCHANGED mvars
  BY <1>3, <1>8 DEF Calm, mvars, Nodewise, Pairwise, Reading, Timing, Deadline, Apart, Alone, Older,
                    Outsleeps, Owner, CheckInterval
<1> QED
  BY <1>4, <1>5, <1>6, <1>7, <1>8 DEF Next

\* Every variable of the protocol keeps its type, and a claim never carries the
\* number of a clean or of a checked file system, for every number of nodes and
\* every interval, with suspended nodes and blocks cleared in use.
THEOREM MmpTypeCorrect == Spec => []MmpTypeOK
BY InitTyped, TypeStep, PTL DEF Spec

\* One node at a time has the file system open for writing, for every number
\* of nodes, every update interval, kernels that ask for longer ones and nodes
\* that crash anywhere, as long as no node is held up for as long as the
\* shortest sleep of ext2fs_mmp_start, nobody clears the block of a file system
\* in use, and nobody starts while another's claim is fresh.
THEOREM OneUserAtATime == ASSUME Punctual PROVE Spec => []OneUser
<1>1. MmpTypeOK /\ Exclusive => OneUser
  <2> SUFFICES ASSUME MmpTypeOK, Exclusive, ~misused PROVE Cardinality(Using) <= 1
    BY DEF OneUser
  <2>1. \A m, n \in Using : m = n
    BY DEF Exclusive, Pairwise, Alone, Using, Holding
  <2>2. CASE Using = {}
    BY <2>2, FS_EmptySet
  <2>3. CASE Using # {}
    <3>1. PICK m \in Using : Using = {m}
      BY <2>1, <2>3
    <3>2. Cardinality({m}) = 1
      BY FS_Singleton
    <3> QED BY <3>1, <3>2
  <2> QED BY <2>2, <2>3
<1>2. MmpTypeOK /\ MmpTypeOK' /\ Exclusive /\ [Next]_mvars => Exclusive'
  BY StepExclusive
<1> QED
  BY <1>1, <1>2, InitExclusive, MmpTypeCorrect, PTL DEF Spec
=============================================================================
