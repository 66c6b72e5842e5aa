----------------------------- MODULE MC_UnixIO -----------------------------
(* The I/O channel on a few blocks and a cache smaller than the device.    *)
EXTENDS UnixIO, TLC

\* The threads are interchangeable.
ThreadSymmetry == Permutations(Threads)
=============================================================================
