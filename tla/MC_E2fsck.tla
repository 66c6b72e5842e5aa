------------------------------ MODULE MC_E2fsck ------------------------------
EXTENDS E2fsck

File(i, n, b) == [mode |-> "reg", links |-> n, block |-> b]
Dir(n, b) == [mode |-> "dir", links |-> n, block |-> b]
Holds(i, parent, first, second) ==
    [NewDir(i, parent) EXCEPT !.ents[LostFound] = first, !.ents[1] = second]
Data(i) == [NewDir(None, None) EXCEPT !.tag = i]

Image(meta, inode, data) ==
    LET used == meta \cup {inode[i].block : i \in DOMAIN inode}
    IN  [meta |-> meta,
         inode |-> [i \in Inodes |-> IF i \in DOMAIN inode THEN inode[i] ELSE Free],
         data |-> [b \in Blocks |-> IF b \in DOMAIN data THEN data[b] ELSE Data(None)],
         bmap |-> used, imap |-> DOMAIN inode, free |-> Cardinality(Blocks \ used),
         hidden |-> {}, valid |-> FALSE]

\* /lost+found (11), /a (12), /a/lost+found (14), and a file (13) with two names.
Tree(meta) ==
    Image(meta,
        (2 :> Dir(4, 2)) @@ (11 :> Dir(2, 3)) @@ (12 :> Dir(3, 4)) @@ (13 :> File(13, 2, 5))
            @@ (14 :> Dir(2, 6)),
        (2 :> Holds(2, 2, 11, 12)) @@ (3 :> Holds(11, 2, None, None))
            @@ (4 :> Holds(12, 2, 14, 13)) @@ (5 :> Data(13)) @@ (6 :> Holds(14, 12, None, 13)))

\* No lost+found; /a is inode 13 and /a/a, inside it, inode 12.
Bare ==
    Image({1},
        (2 :> Dir(3, 2)) @@ (13 :> Dir(3, 4)) @@ (12 :> Dir(2, 3)) @@ (14 :> File(14, 1, 5)),
        (2 :> Holds(2, 2, None, 13)) @@ (3 :> Holds(12, 13, None, None))
            @@ (4 :> Holds(13, 2, 14, 12)) @@ (5 :> Data(14)))

MC_Images == {Tree({1}), Tree({1, 7, 8}), Bare}
==============================================================================
