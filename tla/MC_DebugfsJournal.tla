-------------------------- MODULE MC_DebugfsJournal -------------------------
(* journal_write commands over the file system blocks 1 and 2. *)
EXTENDS DebugfsJournal

Transaction(w, r) == [w |-> w, r |-> r]
Format(csum, async, seq) == [csum |-> csum, async |-> async, seq |-> seq]

\* Three log blocks each, so that a log of 3k blocks has no remainder.
SingleBlocks == {Transaction(<<1>>, {}), Transaction(<<2>>, {})}

\* Blocks and revocations, never both in one command.
BlocksOrRevokes == SingleBlocks \cup {Transaction(<<>>, {1})}

\* The same with transactions of two, three and four log blocks.
SizedShapes == BlocksOrRevokes \cup {Transaction(<<1, 2>>, {})}

\* A list of blocks and a list of revocations in the same command.
BlocksAndRevokes == {Transaction(<<1>>, {}), Transaction(<<1>>, {2})}

PlainFormat == {Format("none", FALSE, 1)}
SummedFormat == {Format("v1", FALSE, 1)}
=============================================================================
