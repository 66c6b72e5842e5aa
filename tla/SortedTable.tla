---------------------------- MODULE SortedTable ----------------------------
(***************************************************************************)
(* Arrays of records sorted by their field key, as lib/ext2fs/icount.c and *)
(* e2fsck/ea_refcount.c keep them: a binary search, and an insertion that  *)
(* moves the tail up.  Positions count from 1; 0 is "not found".           *)
(***************************************************************************)
EXTENDS Integers, SequencesExt

\* Where the search ends: at <<position, TRUE>>, or at <<place, FALSE>> where
\* the key would have to be inserted.
Bsearch(list, key) ==
    LET look[range \in (1 .. Len(list) + 1) \X (0 .. Len(list))] ==
            LET low == range[1]
                high == range[2]
                mid == (low + high) \div 2
            IN  IF low > high THEN <<low, FALSE>>
                ELSE IF key = list[mid].key THEN <<mid, TRUE>>
                ELSE IF key < list[mid].key THEN look[<<low, mid - 1>>]
                ELSE look[<<mid + 1, high>>]
    IN  look[<<1, Len(list)>>]

Sorted(list) == \A i, j \in 1..Len(list) : i < j => list[i].key < list[j].key

Inserted(list, pos, key) == InsertAt(list, pos, [key |-> key, val |-> 0])

=============================================================================
