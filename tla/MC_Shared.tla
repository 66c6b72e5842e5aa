----------------------------- MODULE MC_Shared -----------------------------
(* The components whose state is not theirs alone: other nodes, processes or
   threads work on it too, or it is on a device, which fails, is full, or is
   found as a crash or an earlier program has left it.  An execution chooses
   one of them and runs it alone, while the others stay as they are before
   their first call. *)
EXTENDS Mmp, UuidClock, BitmapThreads, FastCommit, FcExtents,
        Fuse2fs, Resize, InodeCache, InodeScan, QuotaTree

VARIABLE component      \* the one that runs

\* Every thread is a process of its own.
OwnProcess == [t \in Callers \cup {Uuidd} |-> t]

\* The inode tables of both groups stand in the first one, as flex_bg has it.
TablesTogether == 0 :> 1 @@ 1 :> 2

\* Three groups whose inode tables of three blocks follow each other
TablesInOrder == [g \in 0 .. 2 |-> 10 + 3 * g]

\* Bad blocks before, in and behind the tables, one after the other and at the
\* border of two tables; groups without inodes, without a table and with one
\* that lies outside the device; and inodes with wrong checksums in and behind
\* the part of a table that is in use.
ScannedImages ==
    {[bad |-> bad, badSum |-> sums, insane |-> {6}, uninit |-> uninit, missing |-> place[1],
      outside |-> place[2], unused |-> [g \in 0 .. 2 |-> unused]] :
        bad \in {<<>>, <<10>>, <<11>>, <<10, 11>>, <<12, 13>>, <<5, 11, 17, 18, 30>>},
        sums \in SUBSET {1, 2, 13}, uninit \in {{}, {1}},
        place \in {<<{}, {}>>, <<{2}, {}>>, <<{}, {1}>>}, unused \in {0, 3}}

OneImage == CHOOSE image0 \in ScannedImages : image0.bad = <<>>

\* A file system without files, which nobody shrinks
NoResize ==
    /\ rfs = Rfs0(Min(NewSizes))
    /\ disk = Image(<<>>, <<>>, Min(RootPlaces))
    /\ cached = disk

SharedInit ==
    /\ component \in {"mmp", "uuid", "threads", "fast commit", "ranges", "fuse",
                      "resize", "inode cache", "inode scan", "quota"}
    /\ Init /\ UuidInit /\ ThreadsInit /\ FcInit /\ RangeInit
    /\ FuseInit /\ (component # "fuse" => fuse.free = Min(FreeAtFirst) /\ ~mount.all)
    /\ IF component = "resize" THEN ResizeInit ELSE NoResize
    /\ InodeCacheInit /\ (component # "inode cache" => \A i \in TableInodes : table[i].sound)
    /\ IF component = "inode scan" THEN image \in ScannedImages ELSE image = OneImage
    /\ ScanInit
    /\ QuotaInit

\* Component c runs and the others do not.
Only(c) ==
    /\ component = c
    /\ UNCHANGED component
    /\ c # "mmp" => UNCHANGED mvars
    /\ c # "uuid" => UNCHANGED uuidVars
    /\ c # "threads" => UNCHANGED threadsVars
    /\ c # "fast commit" => UNCHANGED fcVars
    /\ c # "ranges" => UNCHANGED rangeVars
    /\ c # "fuse" => UNCHANGED fuseVars
    /\ c # "resize" => UNCHANGED resizeVars
    /\ c # "inode cache" => UNCHANGED inodeCacheVars
    /\ c # "inode scan" => UNCHANGED scanVars
    /\ c # "quota" => UNCHANGED quotaVars

SharedNext ==
    \/ Only("mmp") /\ Next
    \/ Only("uuid") /\ UuidNext
    \/ Only("threads") /\ ThreadsNext
    \/ Only("fast commit") /\ FcNext
    \/ Only("ranges") /\ RangeNext
    \/ Only("fuse") /\ FuseNext
    \/ Only("resize") /\ ResizeNext
    \/ Only("inode cache") /\ InodeCacheNext
    \/ Only("inode scan") /\ ScanNext
    \/ Only("quota") /\ QuotaNext

sharedVars == <<component, mvars, uuidVars, threadsVars, fcVars, rangeVars, fuseVars,
                resizeVars, inodeCacheVars, scanVars, quotaVars>>

\* The fairness of Mmp, for the executions of Mmp
SharedFairness ==
    /\ WF_sharedVars(Only("mmp") /\ Tick)
    /\ \A m \in Nodes : /\ WF_sharedVars(Only("mmp") /\ Proceeds(m))
                        /\ WF_sharedVars(Only("mmp") /\ Resume(m))

SharedSpec == SharedInit /\ [][SharedNext]_sharedVars /\ SharedFairness
=============================================================================
