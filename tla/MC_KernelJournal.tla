-------------------------- MODULE MC_KernelJournal --------------------------
(* Transactions over the file system blocks 1 and 2. *)
EXTENDS KernelJournal

Transaction(w, r) == [w |-> w, r |-> r]
Format(csum, async, seq) == [csum |-> csum, async |-> async, seq |-> seq]

\* One block, two blocks, a revocation, and a write that revokes the other.
MixedShapes ==
  {Transaction(<<1>>, {}), Transaction(<<1, 2>>, {}), Transaction(<<>>, {1}),
   Transaction(<<2>>, {1})}

\* Without revocations.
WritingShapes == {Transaction(<<1>>, {}), Transaction(<<1, 2>>, {})}

\* Journals whose interrupted commits are told by what is missing: without
\* checksums, with identifiers about to wrap, and with async_commit.
ExactFormats == {Format("none", FALSE, 13), Format("v1", TRUE, 1)}

\* Journals whose checksums tell damage.
SummedFormats == {Format("v1", FALSE, 1), Format("v3", FALSE, 1)}

ThreeWritesUnderV1 == [csum \in Checksums |-> IF csum = "v1" THEN 3 ELSE 4]
TwoWrites == [csum \in Checksums |-> 2]

\* One journal at a time, to look at a disagreement.
PlainFormat == {Format("none", FALSE, 1)}
=============================================================================
