---------------------------- MODULE MCDiskImage ----------------------------
(* Model checking of the disk scripts: a sector has two cells, a layout up *)
(* to three partitions with contents of up to three cells.                 *)
EXTENDS DiskImage, FiniteSets

CONSTANTS Starts, Erases, Sizes

P(start, length, content, here, there, format) ==
  [start |-> start, length |-> length, content |-> content, here |-> here,
   there |-> there, format |-> format]
Good == {P(s, FALSE, TRUE, n, n, "raw") : s \in Starts, n \in {1, 3}}
Odd == {P(4, TRUE, TRUE, 1, 1, "raw"), P(4, FALSE, FALSE, Absent, Absent, "raw"),
        P(4, FALSE, TRUE, Absent, 1, "raw"), P(4, FALSE, TRUE, 1, Absent, "raw"),
        P(4, FALSE, TRUE, 1, 3, "raw"), P(4, FALSE, TRUE, 1, 1, "littlefs"),
        P(4, FALSE, TRUE, 1, 1, "none"), P(4, FALSE, TRUE, 0, 0, "raw")}
Lists == {<<>>} \cup {<<a>> : a \in Good \cup Odd}
           \cup {<<a, b>> : a \in Good \cup Odd, b \in Good \cup Odd}
           \cup {<<a, b, c>> : a, b, c \in {g \in Good : g.start % 2 = 0 /\ g.here = 3}}
AllLayouts == {[size |-> s, erase |-> e, plain |-> x, partitions |-> l] :
                 s \in Sizes, e \in Erases, x \in BOOLEAN, l \in Lists}
=============================================================================
