---------------------------- MODULE BitmapThreads ----------------------------
(***************************************************************************)
(* Reading the bitmaps with several threads (ext2fs_rw_bitmaps and         *)
(* read_bitmaps_range_start of lib/ext2fs/rw_bitmaps.c).  The groups are   *)
(* divided among the threads; each reads its groups' bitmaps from the      *)
(* channel, whose cache is off, and inserts them, under a mutex, into the  *)
(* one bitmap in memory, which is a tree with cursors that an insertion    *)
(* reads and changes.                                                      *)
(***************************************************************************)
EXTENDS Integers, FiniteSets

CONSTANTS
    MostGroups,     \* bound on fs->group_desc_count
    MostThreads,    \* bound on num_threads
    FlexSizes       \* 1 << s_log_groups_per_flex; 1 also stands for no flex_bg

ASSUME ThreadsAssumption ==
    /\ MostGroups \in Nat \ {0} /\ MostThreads \in Nat \ {0}
    /\ FlexSizes \subseteq Nat \ {0}

VARIABLES
    call,       \* ext2fs_rw_bitmaps: its arguments and where it is
    reader,     \* the threads
    bitmap,     \* the groups whose bits are in the bitmap in memory
    holder      \* the thread that has the mutex, or -1

threadsVars == <<call, reader, bitmap, holder>>

NoCall == [pc |-> "none", groups |-> 0, num |-> 0, average |-> 0, retval |-> 0, cache |-> "on",
           map |-> FALSE]

ThreadsInit ==
    /\ call = NoCall
    /\ reader = <<>>
    /\ bitmap = {}
    /\ holder = -1

-----------------------------------------------------------------------------
\* Whole flex groups for each thread; 0 is for the thread that calls.
AverageGroup(groups, num, flex) ==
    LET average == groups \div num
    IN  (average \div flex) * flex

Threaded(num, average) == num > 1 /\ average > 0

\* The groups from and to which thread i of num reads.
GrpStart(i, average) == IF i = 0 THEN 0 ELSE average * i + 1

GrpEnd(i, num, average, groups) ==
    IF i = num - 1 THEN groups - 1 ELSE average * (i + 1)

Reader(from, to) == [at |-> from, to |-> to, pc |-> "read", seen |-> {}, retval |-> 0]

\* ext2fs_rw_bitmaps up to the creation of the threads.  With one thread, or
\* when the groups cannot be divided, the caller reads them all.
ext2fs_rw_bitmaps(groups, threads, flex) ==
    LET num == IF threads > groups THEN groups ELSE threads
        average == AverageGroup(groups, num, flex)
    IN  /\ call.pc = "none"
        /\ bitmap' = {}
        /\ call' = [NoCall EXCEPT !.groups = groups, !.num = num, !.average = average, !.map = TRUE,
                                  !.pc = IF Threaded(num, average) THEN "create" ELSE "alone",
                                  !.cache = IF Threaded(num, average) THEN "off" ELSE "on"]
        /\ reader' = IF Threaded(num, average) THEN <<>> ELSE [t \in {0} |-> Reader(0, groups - 1)]
        /\ UNCHANGED holder

\* Memory for the threads' descriptions cannot be had: the call goes to its end
\* with retval 0 and without a bitmap, or returns with the cache off.
NoMemory ==
    /\ call.pc = "create" /\ reader = <<>>
    /\ call' \in {[call EXCEPT !.pc = "out", !.map = FALSE],
                  [call EXCEPT !.pc = "returned", !.retval = 1, !.map = FALSE]}
    /\ UNCHANGED <<reader, bitmap, holder>>

\* pthread_create may fail: the threads before it are waited for.
CreateThread ==
    LET i == Cardinality(DOMAIN reader)
    IN  /\ call.pc = "create"
        /\ \/ /\ reader' = [t \in 0..i |-> IF t < i THEN reader[t]
                                           ELSE Reader(GrpStart(i, call.average),
                                                       GrpEnd(i, call.num, call.average, call.groups))]
              /\ call' = IF i + 1 = call.num THEN [call EXCEPT !.pc = "join"] ELSE call
           \/ /\ call' = [call EXCEPT !.pc = "join", !.retval = 1]
              /\ UNCHANGED reader
        /\ UNCHANGED <<bitmap, holder>>

-----------------------------------------------------------------------------
(* read_bitmaps_range_start, in the thread t.  The caller alone has no mutex. *)

Takes_Nothing(t) == UNCHANGED holder

Takes(t) == IF call.pc = "alone" THEN UNCHANGED holder ELSE holder = -1 /\ holder' = t
Gives(t) == IF call.pc = "alone" THEN UNCHANGED holder ELSE holder' = -1

\* The bitmap of the group is read, or cannot be, or has a wrong checksum.
ReadGroup(t) ==
    /\ reader[t].pc = "read"
    /\ \E next \in IF reader[t].at > reader[t].to THEN {"done"} ELSE {"insert", "failed"} :
        reader' = [reader EXCEPT ![t].pc = IF next = "failed" THEN "done" ELSE next,
                                 ![t].retval = IF next = "failed" THEN 2 ELSE 0]
    /\ UNCHANGED <<call, bitmap, holder>>

\* ext2fs_set_block_bitmap_range2: the tree is searched and then changed.
InsertBegins(t) ==
    /\ reader[t].pc = "insert"
    /\ Takes(t)
    /\ reader' = [reader EXCEPT ![t].pc = "inserting", ![t].seen = bitmap]
    /\ UNCHANGED <<call, bitmap>>

InsertEnds(t) ==
    /\ reader[t].pc = "inserting"
    /\ bitmap' = reader[t].seen \cup {reader[t].at}
    /\ Gives(t)
    /\ reader' = [reader EXCEPT ![t] = Reader(@.at + 1, @.to)]
    /\ UNCHANGED call

-----------------------------------------------------------------------------
\* pthread_join of all of them; the first failure is the call's.
Join ==
    LET failed == {t \in DOMAIN reader : reader[t].retval # 0}
    IN  /\ call.pc \in {"join", "alone"}
        /\ \A t \in DOMAIN reader : reader[t].pc = "done"
        /\ call' = [call EXCEPT !.pc = "out",
                                !.retval = IF @ = 0 /\ failed # {} THEN 2 ELSE @]
        /\ UNCHANGED <<reader, bitmap, holder>>

\* read_bitmaps_range_end, or the cleanup of a failure.
Out ==
    /\ call.pc = "out"
    /\ call' = [call EXCEPT !.pc = "returned", !.cache = "on",
                            !.map = @ /\ call.retval = 0]
    /\ UNCHANGED <<reader, bitmap, holder>>

ThreadsNext ==
    \/ \E groups \in 1..MostGroups, threads \in 1..MostThreads, flex \in FlexSizes :
        ext2fs_rw_bitmaps(groups, threads, flex)
    \/ NoMemory \/ CreateThread \/ Join \/ Out
    \/ \E t \in DOMAIN reader : ReadGroup(t) \/ InsertBegins(t) \/ InsertEnds(t)

ThreadsSpec == ThreadsInit /\ [][ThreadsNext]_threadsVars

-----------------------------------------------------------------------------
\* However the threads' reads and insertions interleave, and whichever fail or
\* cannot be started: a call that succeeds has every group in its bitmap, and
\* one that fails leaves none behind.  The exception is the call whose second
\* allocation fails, which succeeds without a bitmap.
AllGroupsOrNoMap ==
    call.pc = "returned" =>
        /\ call.retval = 0 /\ reader # <<>> => call.map /\ bitmap = 0 .. call.groups - 1
        /\ call.retval # 0 => ~call.map

\* The threads' ranges divide the groups: every group has exactly one reader,
\* whatever the numbers of groups and threads and the size of a flex group.
GroupsDivided ==
    call.pc \notin {"none", "alone"} =>
        \A g \in 0 .. call.groups - 1 :
            Cardinality({i \in 0 .. call.num - 1 :
                g \in GrpStart(i, call.average)
                     .. GrpEnd(i, call.num, call.average, call.groups)}) = 1

\* The threads share out the groups exactly, and together read all of them or
\* leave no bitmap.
ThreadsCorrect == AllGroupsOrNoMap /\ GroupsDivided
=============================================================================
