------------------------------- MODULE Icount -------------------------------
(***************************************************************************)
(* The link counts of inodes (lib/ext2fs/icount.c).  A count of one is a   *)
(* bit of "single"; larger ones are in a sorted list, and with             *)
(* EXT2_ICOUNT_OPT_INCREMENT a bit of "multiple" says that the list is to  *)
(* be consulted; entries of the list are never removed and may be stale.   *)
(* With EXT2_ICOUNT_OPT_FULLMAP there is an array of 16-bit counts         *)
(* instead.  The counts a caller sees are cut off at 65500.                *)
(***************************************************************************)
EXTENDS SortedTable

CONSTANTS
    CountedInodes,  \* inode numbers
    Cutoff,         \* icount_16_xlate: 65500
    MostLinks,      \* bound on the counts of an execution
    ListRoom        \* entries the list is allocated for at first

ASSUME IcountAssumption ==
    /\ CountedInodes \subseteq Nat
    /\ Cutoff \in Nat \ {0} /\ MostLinks \in Nat /\ ListRoom \in Nat

VARIABLES
    icount,     \* struct ext2_icount; kind "none" before it is created
    links,      \* how many links each inode has been given
    cutOff      \* inodes whose count in a full map met the cutoff

icountVars == <<icount, links, cutOff>>

icount_16_xlate(x) == IF x > Cutoff THEN Cutoff ELSE x

-----------------------------------------------------------------------------
(* The list.  c is a struct ext2_icount; "grows" says whether memory can be *)
(* had when the list is full.  last_lookup is a pointer into the array: it  *)
(* stays where it is when the entries move.                                 *)

insert_icount_el(c, ino, pos, grows) ==
    IF c.last # 0 /\ c.list[c.last].key = ino THEN [c |-> c, at |-> c.last]
    ELSE IF Len(c.list) >= c.size /\ ~grows THEN [c |-> c, at |-> 0]
    ELSE [c |-> [c EXCEPT !.list = Inserted(@, pos, ino), !.last = pos,
                          !.size = IF Len(c.list) >= @ THEN @ + 100 ELSE @],
          at |-> pos]

get_icount_el(c, ino, create, grows) ==
    LET n == Len(c.list)
        here == IF c.cursor >= n THEN 0 ELSE c.cursor
        found == Bsearch(c.list, ino)
        d == [c EXCEPT !.cursor = here]
    IN  IF create /\ (n = 0 \/ ino > c.list[n].key) THEN insert_icount_el(c, ino, n + 1, grows)
        ELSE IF n = 0 THEN [c |-> c, at |-> 0]
        ELSE IF c.list[here + 1].key = ino
        THEN [c |-> [c EXCEPT !.cursor = here + 1], at |-> here + 1]
        ELSE IF found[2] THEN [c |-> [c EXCEPT !.cursor = found[1]], at |-> found[1]]
        ELSE IF create THEN insert_icount_el(d, ino, found[1], grows)
        ELSE [c |-> d, at |-> 0]

set_inode_count(c, ino, n, grows) ==
    LET r == get_icount_el(c, ino, TRUE, grows)
    IN  IF c.kind = "fullmap"
        THEN [c |-> [c EXCEPT !.full[ino] = icount_16_xlate(n)], ok |-> TRUE]
        ELSE IF r.at = 0 THEN [c |-> r.c, ok |-> FALSE]
        ELSE [c |-> [r.c EXCEPT !.list[r.at].val = n], ok |-> TRUE]

get_inode_count(c, ino) ==
    LET r == get_icount_el(c, ino, FALSE, FALSE)
    IN  IF c.kind = "fullmap" THEN [c |-> c, n |-> c.full[ino]]
        ELSE [c |-> r.c, n |-> IF r.at = 0 THEN 0 ELSE r.c.list[r.at].val]

-----------------------------------------------------------------------------
(* The operations: each returns the structure, whether it succeeded, and    *)
(* the count it reports.                                                    *)

Marked(c, map, ino) == [c EXCEPT ![map] = @ \cup {ino}]
Unmarked(c, map, ino) == [c EXCEPT ![map] = @ \ {ino}]

HasMultiple(c) == c.kind = "increment"

\* The end of increment: the count has been put in the list.
Many(c, ino) == IF HasMultiple(c) THEN Marked(c, "multiple", ino) ELSE c

ext2fs_icount_fetch(c, ino) ==
    LET r == get_inode_count(c, ino)
    IN  IF c.kind # "fullmap" /\ ino \in c.single THEN [c |-> c, n |-> 1]
        ELSE IF HasMultiple(c) /\ ino \notin c.multiple THEN [c |-> c, n |-> 0]
        ELSE [c |-> r.c, n |-> icount_16_xlate(r.n)]

ext2fs_icount_increment_SingleStays(c, ino, grows) ==
    LET two == set_inode_count(c, ino, 2, grows)
        old == get_inode_count(c, ino)
        more == set_inode_count(old.c, ino, old.n + 1, grows)
    IN  IF c.kind = "fullmap"
        THEN [c |-> [c EXCEPT !.full[ino] = icount_16_xlate(@ + 1)], ok |-> TRUE]
        ELSE IF ino \in c.single
        THEN [c |-> IF two.ok THEN Many(two.c, ino) ELSE two.c, ok |-> two.ok]
        ELSE IF HasMultiple(c) /\ ino \notin c.multiple
        THEN [c |-> Marked(c, "single", ino), ok |-> TRUE]
        ELSE [c |-> IF more.ok THEN Many(more.c, ino) ELSE more.c, ok |-> more.ok]

ext2fs_icount_increment(c, ino, grows) ==
    LET two == set_inode_count(c, ino, 2, grows)
        old == get_inode_count(c, ino)
        more == set_inode_count(old.c, ino, old.n + 1, grows)
    IN  IF c.kind = "fullmap"
        THEN [c |-> [c EXCEPT !.full[ino] = icount_16_xlate(@ + 1)], ok |-> TRUE]
        ELSE IF ino \in c.single
        THEN [c |-> IF two.ok THEN Many(Unmarked(two.c, "single", ino), ino) ELSE two.c,
              ok |-> two.ok]
        ELSE IF HasMultiple(c) /\ ino \notin c.multiple
        THEN [c |-> Marked(c, "single", ino), ok |-> TRUE]
        ELSE [c |-> IF more.ok THEN Many(more.c, ino) ELSE more.c, ok |-> more.ok]

DecrementSingle(c, ino, grows) ==
    LET d == Unmarked(c, "single", ino)
    IN  IF HasMultiple(c) THEN Unmarked(d, "multiple", ino)
        ELSE set_inode_count(d, ino, 0, grows).c

ext2fs_icount_decrement(c, ino, grows) ==
    LET old == get_inode_count(c, ino)
        less == set_inode_count(old.c, ino, old.n - 1, grows)
        one == IF old.n = 2 THEN Marked(less.c, "single", ino) ELSE less.c
        none == IF old.n = 1 /\ HasMultiple(c) THEN Unmarked(one, "multiple", ino) ELSE one
    IN  IF c.kind = "fullmap"
        THEN IF c.full[ino] = 0 THEN [c |-> c, ok |-> FALSE]
             ELSE [c |-> [c EXCEPT !.full[ino] = @ - 1], ok |-> TRUE]
        ELSE IF ino \in c.single THEN [c |-> DecrementSingle(c, ino, grows), ok |-> TRUE]
        ELSE IF HasMultiple(c) /\ ino \notin c.multiple THEN [c |-> c, ok |-> FALSE]
        ELSE IF old.n = 0 THEN [c |-> old.c, ok |-> FALSE]
        ELSE IF ~less.ok THEN [c |-> less.c, ok |-> FALSE]
        ELSE [c |-> none, ok |-> TRUE]

ext2fs_icount_store(c, ino, n, grows) ==
    LET clear == Unmarked(Unmarked(c, "single", ino), "multiple", ino)
        stored == set_inode_count(c, ino, n, grows)
    IN  IF c.kind = "fullmap" THEN stored
        ELSE IF n = 1
        THEN [c |-> Marked(Unmarked(c, "multiple", ino), "single", ino), ok |-> TRUE]
        ELSE IF n = 0
        THEN [c |-> IF HasMultiple(c) THEN clear ELSE set_inode_count(clear, ino, 0, grows).c,
              ok |-> TRUE]
        ELSE IF ~stored.ok THEN stored
        ELSE [c |-> Many(Unmarked(stored.c, "single", ino), ino), ok |-> TRUE]

-----------------------------------------------------------------------------
NoCounts ==
    [kind |-> "none", single |-> {}, multiple |-> {}, list |-> <<>>, size |-> 0,
     cursor |-> 0, last |-> 0, full |-> [i \in CountedInodes |-> 0]]

IcountInit ==
    /\ icount = NoCounts
    /\ links = [i \in CountedInodes |-> 0]
    /\ cutOff = {}

\* The list may begin with the inodes of another icount, the hint.
ext2fs_create_icount2(kind, hint) ==
    /\ icount.kind = "none"
    /\ icount' = IF kind = "fullmap" THEN [NoCounts EXCEPT !.kind = kind]
                 ELSE [NoCounts EXCEPT !.kind = kind,
                        !.size = IF Len(hint) > ListRoom THEN Len(hint) ELSE ListRoom,
                        !.list = hint]
    /\ UNCHANGED <<links, cutOff>>

Hints ==
    {h \in UNION {[1..n -> [key : CountedInodes, val : {0}]] : n \in 0..2} : Sorted(h)}

IcountFetch(ino) ==
    /\ icount.kind # "none"
    /\ icount' = ext2fs_icount_fetch(icount, ino).c
    /\ UNCHANGED <<links, cutOff>>

IcountIncrement(ino) ==
    /\ icount.kind # "none" /\ links[ino] < MostLinks
    /\ \E grows \in BOOLEAN :
        LET r == ext2fs_icount_increment(icount, ino, grows)
        IN  /\ icount' = r.c
            /\ links' = IF r.ok THEN [links EXCEPT ![ino] = @ + 1] ELSE links
            /\ cutOff' = IF icount.kind = "fullmap" /\ icount.full[ino] = Cutoff
                         THEN cutOff \cup {ino} ELSE cutOff

IcountDecrement(ino) ==
    /\ icount.kind # "none"
    /\ \E grows \in BOOLEAN :
        LET r == ext2fs_icount_decrement(icount, ino, grows)
        IN  /\ icount' = r.c
            /\ links' = IF r.ok /\ links[ino] > 0 THEN [links EXCEPT ![ino] = @ - 1] ELSE links
    /\ UNCHANGED cutOff

IcountStore(ino) ==
    /\ icount.kind # "none"
    /\ \E grows \in BOOLEAN, n \in 0..MostLinks :
        LET r == ext2fs_icount_store(icount, ino, n, grows)
        IN  /\ icount' = r.c
            /\ links' = IF r.ok THEN [links EXCEPT ![ino] = n] ELSE links
            /\ cutOff' = IF icount.kind = "fullmap" /\ n > Cutoff
                         THEN cutOff \cup {ino} ELSE cutOff \ {ino}

IcountNext ==
    \/ \E kind \in {"plain", "increment", "fullmap"}, h \in Hints : ext2fs_create_icount2(kind, h)
    \/ \E ino \in CountedInodes :
        IcountFetch(ino) \/ IcountIncrement(ino) \/ IcountDecrement(ino) \/ IcountStore(ino)

IcountSpec == IcountInit /\ [][IcountNext]_icountVars

-----------------------------------------------------------------------------
\* A fetch returns the count that the successful calls before it add up to,
\* whichever of the bitmaps, the list (with its stale entries, its cursor and
\* its hint) or the full map holds it, and whatever allocations failed; only a
\* count of a full map that once met the cutoff is no longer exact.
CountsAreExact ==
    icount.kind # "none" =>
        \A ino \in CountedInodes \ cutOff :
            ext2fs_icount_fetch(icount, ino).n = icount_16_xlate(links[ino])

\* What ext2fs_icount_validate checks (the list is sorted and within its
\* room), after insertions anywhere, growth and a hint; last_lookup and the
\* cursor, which survive insertions in front of them, stay inside the list.
IcountValid ==
    /\ Sorted(icount.list) /\ Len(icount.list) <= icount.size
    /\ icount.last <= Len(icount.list) /\ icount.cursor <= Len(icount.list)

\* ext2fs_icount_fetch is exact, and the lists it searches stay valid.
IcountCorrect == CountsAreExact /\ IcountValid
=============================================================================
