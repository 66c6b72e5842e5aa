---------------------------- MODULE MC_Library ----------------------------
(* The tables, bitmaps, trees and files that a program keeps for itself, in one
   model: an execution chooses one of them and runs it alone, while the others
   stay as they are before their first call. *)
EXTENDS Icount, Allocator, RbBitmap, EaRefcount, Region, ExtentTree, FileIO,
        Directory

VARIABLE component      \* the one that runs

\* Only the first group holds metadata, one block.
MetaFirst == [g \in 0 .. GroupCount - 1 |-> IF g = 0 THEN {0} ELSE {}]

\* Two places for the blocks of a file, the second one uninitialised.
TwoPlaces == {<<10, FALSE>>, <<20, TRUE>>}

\* A longer and a shorter name
TwoKinds == {<<2, 2>>, <<4, 1>>}

LibInit ==
    /\ component \in {"icount", "allocator", "rb", "ea", "region", "extents", "file",
                      "directory"}
    /\ IcountInit /\ AllocInit /\ RbInit /\ EaInit /\ RegionInit
    /\ ExtentInit /\ FileInit
    /\ DirInit /\ (component # "directory" => dir.indexed)

\* Component c runs and the others do not.
Only(c) ==
    /\ component = c
    /\ UNCHANGED component
    /\ c # "icount" => UNCHANGED icountVars
    /\ c # "allocator" => UNCHANGED allocVars
    /\ c # "rb" => UNCHANGED rbVars
    /\ c # "ea" => UNCHANGED refcountVars
    /\ c # "region" => UNCHANGED regionVars
    /\ c # "extents" => UNCHANGED etreeVars
    /\ c # "file" => UNCHANGED fileVars
    /\ c # "directory" => UNCHANGED dirVars

LibNext ==
    \/ Only("icount") /\ IcountNext
    \/ Only("allocator") /\ AllocNext
    \/ Only("rb") /\ RbNext
    \/ Only("ea") /\ EaNext
    \/ Only("region") /\ RegionNext
    \/ Only("extents") /\ ExtentNext
    \/ Only("file") /\ FileNext
    \/ Only("directory") /\ DirNext

libVars == <<component, icountVars, allocVars, rbVars, refcountVars, regionVars,
             etreeVars, fileVars, dirVars>>

LibSpec == LibInit /\ [][LibNext]_libVars
=============================================================================
