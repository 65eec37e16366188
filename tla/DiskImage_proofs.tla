-------------------------- MODULE DiskImage_proofs --------------------------
(***************************************************************************)
(* For every set of layouts and bootloaders: the data structures of the    *)
(* disk scripts keep their types, what was written of a careful layout is  *)
(* found under its entry, installing a bootloader leaves the contents of   *)
(* partitions alone, and an installed disk boots.                          *)
(***************************************************************************)
EXTENDS DiskImage, WellFoundedInduction, TLAPS

LEMMA CellsAreCells ==
  ASSUME NEW of \in Int, NEW n \in Nat
  PROVE  /\ Cells(of, n) \in Seq(Cell) /\ Len(Cells(of, n)) = n
         /\ \A k \in 1..n : Cells(of, n)[k] = [of |-> of, at |-> k]
<1>1. Cells(of, n) = [k \in 1..n |-> [of |-> of, at |-> k]]
  BY DEF Cells
<1>2. \A k \in 1..n : [of |-> of, at |-> k] \in Cell
  BY DEF Cell
<1> QED
  BY <1>1, <1>2

LEMMA ZerosAreCells ==
  ASSUME NEW n \in Nat
  PROVE  Zeros(n) \in Seq(Cell) /\ Len(Zeros(n)) = n
<1>1. Zero \in Cell
  BY DEF Zero, Cell
<1> QED
  BY <1>1 DEF Zeros

(* What write leaves: cells, the data at its place, the rest as it was.    *)
LEMMA WrittenFacts ==
  ASSUME NEW f \in Seq(Cell), NEW at \in Nat, NEW data \in Seq(Cell)
  PROVE  /\ Written(f, at, data) \in Seq(Cell)
         /\ Len(Written(f, at, data)) >= Len(f)
         /\ data # <<>> => Len(Written(f, at, data)) >= at + Len(data)
         /\ \A k \in 1..Len(data) : Written(f, at, data)[at + k] = data[k]
         /\ \A k \in 1..Len(f) :
              ~(at < k /\ k <= at + Len(data)) => Written(f, at, data)[k] = f[k]
<1>1. CASE data = <<>>
  BY <1>1 DEF Written
<1>2. CASE data # <<>>
  <2> DEFINE n == Longest(Len(f), at + Len(data))
             c(k) == IF at < k /\ k <= at + Len(data) THEN data[k - at]
                     ELSE IF k <= Len(f) THEN f[k] ELSE Zero
  <2>1. n \in Nat /\ n >= Len(f) /\ n >= at + Len(data)
    BY DEF Longest
  <2>2. Written(f, at, data) = [k \in 1..n |-> c(k)]
    BY <1>2 DEF Written
  <2>3. \A k \in 1..n : c(k) \in Cell
    <3> SUFFICES ASSUME NEW k \in 1..n PROVE c(k) \in Cell
      OBVIOUS
    <3>1. CASE at < k /\ k <= at + Len(data)
      <4>1. k - at \in 1..Len(data)
        BY <2>1, <3>1
      <4> QED
        BY <3>1, <4>1
    <3>2. CASE ~(at < k /\ k <= at + Len(data))
      <4>1. Zero \in Cell
        BY DEF Zero, Cell
      <4> QED
        BY <2>1, <3>2, <4>1
    <3> QED
      BY <3>1, <3>2
  <2>4. \A k \in 1..Len(data) : at + k \in 1..n /\ c(at + k) = data[k]
    BY <2>1
  <2>5. \A k \in 1..Len(f) :
          k \in 1..n /\ (~(at < k /\ k <= at + Len(data)) => c(k) = f[k])
    BY <2>1
  <2> HIDE DEF n, c
  <2> QED
    BY <2>1, <2>2, <2>3, <2>4, <2>5
<1> QED
  BY <1>1, <1>2

(* Four pieces put together, and a place in the last.                      *)
LEMMA ElementOfSequence ==
  ASSUME NEW S, NEW s \in Seq(S), NEW i \in DOMAIN s
  PROVE  s[i] \in S
OBVIOUS

LEMMA TwoPieces ==
  ASSUME NEW e \in Seq(Cell), NEW d \in Seq(Cell)
  PROVE  /\ e \o d \in Seq(Cell)
         /\ Len(e \o d) = Len(e) + Len(d)
         /\ \A k \in 1..Len(e) : (e \o d)[k] = e[k]
         /\ \A k \in 1..Len(d) : (e \o d)[Len(e) + k] = d[k]
<1>1. e \o d \in Seq(Cell) /\ Len(e \o d) = Len(e) + Len(d)
  OBVIOUS
<1>2. ASSUME NEW k \in 1..Len(d) PROVE (e \o d)[Len(e) + k] = d[k]
  <2>1. Len(e) \in Nat /\ Len(d) \in Nat
    OBVIOUS
  <2>2. Len(e) + k \in 1..Len(e) + Len(d) /\ ~(Len(e) + k <= Len(e))
    BY <2>1
  <2>3. (e \o d)[Len(e) + k] = d[Len(e) + k - Len(e)]
    BY <2>1, <2>2
  <2>4. Len(e) + k - Len(e) = k
    BY <2>1
  <2> QED
    BY <2>3, <2>4
<1>3. ASSUME NEW k \in 1..Len(e) PROVE (e \o d)[k] = e[k]
  OBVIOUS
<1> QED
  BY <1>1, <1>2, <1>3

LEMMA FourPieces ==
  ASSUME NEW a \in Seq(Cell), NEW b \in Seq(Cell), NEW c \in Seq(Cell),
         NEW d \in Seq(Cell), NEW k \in 1..Len(d)
  PROVE  /\ Len(a \o b \o c \o d) = Len(a) + Len(b) + Len(c) + Len(d)
         /\ (a \o b \o c \o d)[Len(a) + Len(b) + Len(c) + k] = d[k]
<1>1. a \o b \in Seq(Cell) /\ Len(a \o b) = Len(a) + Len(b)
  BY TwoPieces
<1>2. a \o b \o c \in Seq(Cell) /\ Len(a \o b \o c) = Len(a) + Len(b) + Len(c)
  BY <1>1, TwoPieces
<1> QED
  BY <1>2, TwoPieces

(* The blocks in front of a partition are the record's and the free ones.  *)
LEMMA BlocksInFront ==
  ASSUME NEW p, p.lba \in Nat, EmptySpace(p) >= 0
  PROVE  EmptySpace(p) \in Nat /\ EmptySpace(p) + Sector = Sector * p.lba
<1>1. Sector \in Nat \ {0}
  BY SizeAssumption
<1>2. (p.lba - 1) * Sector + Sector = Sector * p.lba
  BY <1>1
<1>3. (p.lba - 1) * Sector \in Int
  BY <1>1
<1> QED
  BY <1>1, <1>2, <1>3 DEF EmptySpace
-----------------------------------------------------------------------------
(* The first partition is one of the table.                                *)
LEMMA FirstIsOne ==
  ASSUME TypeOK, Nonempty # {}
  PROVE  /\ FirstPartition \in DOMAIN table /\ table[FirstPartition].lba \in Nat
         /\ \A j \in Candidates : FirstPartition <= j
<1>1. Candidates # {} /\ Candidates \subseteq DOMAIN table
  BY DEF Candidates, Nonempty
<1>2. Candidates \subseteq Nat
  BY <1>1 DEF TypeOK
<1>3. \E i \in Candidates : \A j \in Candidates : i <= j
  <2> DEFINE R == OpToRel(<, Nat)
  <2>1. \E i \in Candidates : \A j \in Candidates : ~(<<j, i>> \in R)
    <3> HIDE DEF R
    <3>1. IsWellFoundedOn(R, Nat)
      BY NatLessThanWellFounded DEF R
    <3> QED
      BY <1>1, <1>2, <3>1, WFMin
  <2>2. \A i, j \in Nat : ~(<<j, i>> \in R) => i <= j
    BY DEF OpToRel
  <2> QED
    BY <1>2, <2>1, <2>2
<1>4. FirstPartition \in Candidates /\ \A j \in Candidates : FirstPartition <= j
  BY <1>3 DEF FirstPartition
<1>5. FirstPartition \in DOMAIN table
  BY <1>1, <1>4
<1>6. table[FirstPartition] \in [lba : Nat, size : Nat]
  <2> DEFINE Entries == [lba : Nat, size : Nat]
  <2>1. table \in Seq(Entries)
    BY DEF TypeOK
  <2> HIDE DEF Entries
  <2>2. table[FirstPartition] \in Entries
    BY <1>5, <2>1, ElementOfSequence
  <2> QED
    BY <2>2 DEF Entries
<1> QED
  BY <1>4, <1>5, <1>6

(* Installing keeps the cells from the first partition on.                 *)
LEMMA InstallKeepsCells ==
  ASSUME TypeOK, InstallBootloader
  PROVE  /\ file' \in Seq(Cell)
         /\ \A k \in 1..Len(file) :
              k > Sector * table[FirstPartition].lba =>
                k <= Len(file') /\ file'[k] = file[k]
<1> DEFINE first == table[FirstPartition]
           free == EmptySpace(first)
<1>1. first.lba \in Nat
  BY FirstIsOne DEF InstallBootloader
<1>2. PICK length \in Yasboots : length <= free /\ file' = WithYasboot(length, free)
  BY DEF InstallBootloader
<1>3. length \in Nat /\ Sector \in Nat \ {0}
  BY SizeAssumption
<1>4. free \in Int
  BY <1>1, <1>3 DEF EmptySpace
<1>5. free \in Nat /\ free + Sector = Sector * first.lba
  BY <1>1, <1>2, <1>3, <1>4, BlocksInFront
<1> HIDE DEF first, free
<1> DEFINE a == Cells(OfRecord, Sector)
           b == Cells(OfYasboot, length)
           c == Zeros(free - length)
           d == SubSeq(file, free + Sector + 1, Len(file))
<1>6. a \in Seq(Cell) /\ Len(a) = Sector /\ b \in Seq(Cell) /\ Len(b) = length
  <2>1. OfRecord \in Int /\ OfYasboot \in Int /\ Sector \in Nat
    BY <1>3 DEF OfRecord, OfYasboot
  <2> QED
    BY <1>3, <2>1, CellsAreCells
<1>7. c \in Seq(Cell) /\ Len(c) = free - length
  <2>1. free - length \in Nat
    BY <1>2, <1>3, <1>5
  <2> QED
    BY <2>1, ZerosAreCells
<1>8. file \in Seq(Cell)
  BY DEF TypeOK
<1> DEFINE n == free + Sector
<1>9. n \in Nat
  BY <1>3, <1>5
<1>10. d = SubSeq(file, n + 1, Len(file))
  OBVIOUS
<1>11. /\ d \in Seq(Cell)
       /\ n < Len(file) => Len(d) = Len(file) - n
       /\ \A k \in 1..Len(d) : d[k] = file[n + k]
  <2> HIDE DEF n, d
  <2>1. Len(file) \in Nat
    BY <1>8
  <2> QED
    BY <1>8, <1>9, <1>10, <2>1
<1>12. file' = a \o b \o c \o d
  BY <1>2 DEF WithYasboot
<1> HIDE DEF a, b, c, d
<1>13. Len(a) + Len(b) + Len(c) = n
  BY <1>3, <1>5, <1>6, <1>7
<1>14. file' \in Seq(Cell)
  BY <1>6, <1>7, <1>11, <1>12
<1>15. ASSUME NEW k \in 1..Len(file), k > Sector * table[FirstPartition].lba
       PROVE  k <= Len(file') /\ file'[k] = file[k]
  <2> HIDE DEF n
  <2>1. k > n
    BY <1>5, <1>15 DEF first, n
  <2>2. n < Len(file) /\ k - n \in 1..Len(d) /\ n + (k - n) = k
    BY <1>8, <1>9, <1>11, <2>1
  <2>3. /\ Len(a \o b \o c \o d) = n + Len(d)
        /\ (a \o b \o c \o d)[n + (k - n)] = d[k - n]
    <3> DEFINE m == k - n
    <3>1. m \in 1..Len(d)
      BY <2>2
    <3> HIDE DEF m
    <3>2. /\ a \in Seq(Cell) /\ b \in Seq(Cell) /\ c \in Seq(Cell) /\ d \in Seq(Cell)
      BY <1>6, <1>7, <1>11
    <3>3. /\ Len(a \o b \o c \o d) = Len(a) + Len(b) + Len(c) + Len(d)
          /\ (a \o b \o c \o d)[Len(a) + Len(b) + Len(c) + m] = d[m]
      BY <3>1, <3>2, FourPieces
    <3> QED
      BY <1>13, <3>3 DEF m
  <2>4. d[k - n] = file[k]
    BY <1>11, <2>2
  <2> QED
    BY <1>9, <1>11, <1>12, <2>2, <2>3, <2>4
<1> QED
  BY <1>14, <1>15

LEMMA EntriesAreTyped ==
  ASSUME NEW l \in Layouts, \A i \in DOMAIN l.partitions : HasLength(l.partitions[i])
  PROVE  [i \in DOMAIN l.partitions |-> TableEntry(l.partitions[i], l.erase)]
           \in Seq([lba : Nat, size : Nat])
<1> DEFINE ps == l.partitions
<1>1. ps \in Seq(Partition) /\ l.erase \in Nat \ {0}
  BY LayoutAssumption
<1>2. ASSUME NEW i \in DOMAIN ps
      PROVE  TableEntry(ps[i], l.erase) \in [lba : Nat, size : Nat]
  <2>1. ps[i] \in Partition
    BY <1>1
  <2>2. ps[i].start \in Nat /\ ps[i].here \in Nat
    BY <2>1 DEF Partition, HasLength
  <2>3. Sector \in Nat \ {0}
    BY SizeAssumption
  <2>4. \A m \in Nat, e \in Nat \ {0} : m \div e \in Nat
    OBVIOUS
  <2>5. ps[i].start \div Sector \in Nat
    BY <2>2, <2>3, <2>4
  <2>6. (ps[i].here + l.erase - 1) \div l.erase \in Nat
    <3>1. ps[i].here + l.erase - 1 \in Nat
      BY <1>1, <2>2
    <3> QED
      BY <1>1, <2>4, <3>1
  <2>7. EntryLength(ps[i], l.erase) \in Nat
    <3>1. \A x, y \in Nat : x * y \in Nat
      OBVIOUS
    <3> QED
      BY <1>1, <2>6, <3>1 DEF EntryLength
  <2>8. EntryLength(ps[i], l.erase) \div Sector \in Nat
    BY <2>3, <2>4, <2>7
  <2> QED
    BY <2>5, <2>8 DEF TableEntry
<1>3. DOMAIN ps = 1..Len(ps) /\ Len(ps) \in Nat
  BY <1>1
<1> QED
  BY <1>2, <1>3

LEMMA InitTypeOK == Init => TypeOK
BY DEF Init, TypeOK

LEMMA NextTypeOK ==
  ASSUME TypeOK, [Next]_vars
  PROVE  TypeOK'
<1>1. CASE CreateEmpty
  <2>1. layout.size \in Nat
    BY LayoutAssumption DEF TypeOK
  <2> QED
    BY <1>1, <2>1, ZerosAreCells DEF CreateEmpty, TypeOK
<1>2. CASE WriteMbr
  <2>1. CASE UNCHANGED <<table, file>>
    BY <1>2, <2>1 DEF WriteMbr, TypeOK
  <2>2. CASE /\ \A i \in DOMAIN layout.partitions : HasLength(layout.partitions[i])
             /\ table' = [i \in DOMAIN layout.partitions |->
                            TableEntry(layout.partitions[i], layout.erase)]
             /\ file' = Cells(OfRecord, Sector)
    <3>1. table' \in Seq([lba : Nat, size : Nat])
      BY <2>2, EntriesAreTyped DEF TypeOK
    <3>2. file' \in Seq(Cell)
      BY <2>2, CellsAreCells, SizeAssumption DEF OfRecord
    <3>3. /\ phase' \in {"failed", "partitions"} /\ cursor' = 1 /\ layout' = layout
      BY <1>2 DEF WriteMbr
    <3> QED
      BY <3>1, <3>2, <3>3 DEF TypeOK
  <2> QED
    BY <1>2, <2>1, <2>2 DEF WriteMbr
<1>3. CASE WritePartition
  <2>1. CASE UNCHANGED file
    BY <1>3, <2>1 DEF WritePartition, TypeOK
  <2>2. CASE /\ layout.partitions[cursor].there # Absent
             /\ file' = Written(file, Place(layout.partitions[cursor]),
                                Cells(cursor, layout.partitions[cursor].there))
    <3>1. layout.partitions[cursor] \in Partition
      BY <1>3, LayoutAssumption DEF WritePartition, TypeOK
    <3>2. /\ layout.partitions[cursor].start \in Nat
          /\ layout.partitions[cursor].there \in Nat
      BY <2>2, <3>1 DEF Partition
    <3>3. Cells(cursor, layout.partitions[cursor].there) \in Seq(Cell)
      <4>1. cursor \in Int
        BY DEF TypeOK
      <4> QED
        BY <3>2, <4>1, CellsAreCells
    <3>4. file \in Seq(Cell)
      BY DEF TypeOK
    <3>5. file' \in Seq(Cell)
      BY <2>2, <3>2, <3>3, <3>4, WrittenFacts DEF Place
    <3> QED
      BY <1>3, <3>5 DEF WritePartition, TypeOK
  <2> QED
    BY <1>3, <2>1, <2>2 DEF WritePartition
<1>4. CASE EndPartitions
  BY <1>4 DEF EndPartitions, TypeOK
<1>5. CASE InstallBootloader
  BY <1>5, InstallKeepsCells DEF InstallBootloader, TypeOK
<1>6. CASE RefuseBootloader
  BY <1>6 DEF RefuseBootloader, TypeOK
<1>7. CASE UNCHANGED vars
  BY <1>7 DEF vars, TypeOK
<1> QED
  BY <1>1, <1>2, <1>3, <1>4, <1>5, <1>6, <1>7 DEF Next

(* Whatever the layouts and the bootloaders, the image stays a sequence of *)
(* cells and the table one of entries.                                     *)
THEOREM TypeCorrect == Spec => []TypeOK
BY InitTypeOK, NextTypeOK, PTL DEF Spec

LEMMA InstallKeepsContent ==
  ASSUME TypeOK, InstallBootloader, NothingBeforeFirst,
         NEW i \in DOMAIN layout.partitions, Holds(i)
  PROVE  Holds(i)'
<1>1. layout' = layout
  BY DEF InstallBootloader
<1>2. layout.partitions[i].start \in Nat
  <2>1. layout.partitions \in Seq(Partition)
    BY LayoutAssumption DEF TypeOK
  <2>2. layout.partitions[i] \in Partition
    BY <2>1
  <2> QED
    BY <2>2 DEF Partition
<1> DEFINE start == layout.partitions[i].start
           lba == table[FirstPartition].lba
<1>3. Sector * lba <= start
  BY DEF NothingBeforeFirst
<1>4. Sector * lba \in Int
  <2>1. lba \in Nat
    BY FirstIsOne DEF InstallBootloader
  <2> QED
    BY <2>1, SizeAssumption
<1>5. Len(file) \in Nat
  BY DEF TypeOK
<1>6. ASSUME NEW k \in 1..Content(i)
      PROVE  start + k <= Len(file') /\ file'[start + k] = [of |-> i, at |-> k]
  <2>1. start + k <= Len(file) /\ file[start + k] = [of |-> i, at |-> k]
    BY <1>6 DEF Holds
  <2>2. start + k \in 1..Len(file) /\ start + k > Sector * lba
    BY <1>2, <1>3, <1>4, <1>5, <2>1
  <2> QED
    BY <2>1, <2>2, InstallKeepsCells
<1> QED
  BY <1>1, <1>6 DEF Holds, Content

(* Whatever the layouts and the bootloaders: when nothing lies before the  *)
(* partition write_yasboot.py takes for the first, installing a bootloader *)
(* leaves the content of every partition where it is.                      *)
THEOREM BootloaderSafe == Spec => BootloaderKeepsPartitions
<1>1. TypeOK /\ [Next]_vars =>
        [InstallBootloader /\ NothingBeforeFirst =>
           \A i \in DOMAIN layout.partitions : Holds(i) => Holds(i)']_vars
  BY InstallKeepsContent
<1> QED
  BY <1>1, TypeCorrect, PTL DEF Spec, BootloaderKeepsPartitions

-----------------------------------------------------------------------------
(* Numbers of blocks.                                                      *)
LEMMA BlocksOfMultiple ==
  ASSUME NEW n \in Nat \ {0}, NEW m \in Nat, NEW x \in Nat, x = n * m
  PROVE  x \div n = m /\ x % n = 0
OBVIOUS

LEMMA MultipleOfBlocks ==
  ASSUME NEW n \in Nat \ {0}, NEW x \in Nat, x % n = 0
  PROVE  x \div n \in Nat /\ x = n * (x \div n) /\ (x \div n) * n = x
OBVIOUS

(* Rounding up.                                                            *)
LEMMA RoundedUp ==
  ASSUME NEW x \in Nat, NEW n \in Nat \ {0}
  PROVE  /\ (x + n - 1) \div n \in Nat
         /\ n * ((x + n - 1) \div n) >= x
OBVIOUS

LEMMA ProductAssociates ==
  ASSUME NEW a \in Nat, NEW b \in Nat, NEW c \in Nat
  PROVE  (a * b) * c = a * (b * c) /\ b * c \in Nat /\ a * b = b * a
OBVIOUS

(* The table says of every partition what its file does.                   *)
TableRight ==
  /\ DOMAIN table = DOMAIN layout.partitions
  /\ \A i \in DOMAIN layout.partitions :
       /\ HasLength(layout.partitions[i])
       /\ table[i] = TableEntry(layout.partitions[i], layout.erase)

(* The table of an older image stays where write_mbr has failed, which     *)
(* leaves no record.                                                       *)
EntriesInv ==
  \/ phase \in {"partitions", "created", "installed"}
  \/ phase = "failed" /\ Intact
  => TableRight

(* What has been written of a careful layout is in its place; under a      *)
(* bootloader, if the layout follows the order of the disk.                *)
ContentsInv ==
  /\ Careful(layout)
  /\ \/ phase \in {"partitions", "created", "failed"}
     \/ phase = "installed" /\ InDiskOrder(layout)
  => \A i \in DOMAIN layout.partitions :
       i < cursor /\ layout.partitions[i].format = "raw" => Holds(i)

InstalledInv == phase = "installed" => Intact /\ YasbootWhole

BlankInv == phase = "mbr" => file = Zeros(layout.size)

ImageInv == TypeOK /\ EntriesInv /\ ContentsInv /\ InstalledInv /\ BlankInv

(* A partition of the layout.                                              *)
LEMMA PartitionTypes ==
  ASSUME TypeOK, NEW i \in DOMAIN layout.partitions
  PROVE  /\ layout \in Layouts /\ layout.erase \in Nat \ {0} /\ Sector \in Nat \ {0}
         /\ i \in Nat /\ i >= 1
         /\ layout.partitions[i].start \in Nat
         /\ layout.partitions[i].there \in Nat \cup {Absent}
         /\ HasLength(layout.partitions[i]) => layout.partitions[i].here \in Nat
<1>1. layout \in Layouts
  BY DEF TypeOK
<1>2. layout.partitions \in Seq(Partition) /\ layout.erase \in Nat \ {0}
  BY <1>1, LayoutAssumption
<1>3. layout.partitions[i] \in Partition /\ i \in Nat /\ i >= 1
  BY <1>2
<1> QED
  BY <1>1, <1>2, <1>3, SizeAssumption DEF Partition, HasLength

(* The entry of a partition of a careful layout.                           *)
LEMMA EntryOfCareful ==
  ASSUME TypeOK, TableRight, Careful(layout), NEW i \in DOMAIN layout.partitions
  PROVE  /\ table[i].lba \in Nat /\ table[i].lba > 0 /\ table[i].size \in Nat
         /\ table[i].lba * Sector = layout.partitions[i].start
         /\ Sector * table[i].lba = layout.partitions[i].start
         /\ Content(i) \in Nat /\ Content(i) <= table[i].size * Sector
         /\ Content(i) # 0 => table[i].size # 0
<1> DEFINE p     == layout.partitions[i]
           erase == layout.erase
<1>1. /\ erase \in Nat \ {0} /\ Sector \in Nat \ {0}
      /\ p.start \in Nat /\ p.here \in Nat /\ p.there = p.here
      /\ p.start % Sector = 0 /\ p.start >= Sector /\ erase % Sector = 0
  BY PartitionTypes DEF TableRight, Careful
<1>2. table[i] = [lba |-> p.start \div Sector, size |-> EntryLength(p, erase) \div Sector]
  BY DEF TableRight, TableEntry
<1>3. table[i].lba = p.start \div Sector /\ table[i].size = EntryLength(p, erase) \div Sector
  BY <1>2
<1> DEFINE lba    == p.start \div Sector
           blocks == (p.here + erase - 1) \div erase
           sectors == erase \div Sector
<1>4. lba \in Nat /\ p.start = Sector * lba /\ lba * Sector = p.start
  BY <1>1, MultipleOfBlocks
<1>5. lba > 0
  <2> HIDE DEF lba
  <2>1. CASE lba = 0
    <3>1. Sector * 0 = 0
      BY <1>1
    <3> QED
      BY <1>1, <1>4, <2>1, <3>1
  <2> QED
    BY <1>4, <2>1
<1>6. blocks \in Nat /\ erase * blocks >= p.here
  BY <1>1, RoundedUp
<1>7. sectors \in Nat /\ erase = Sector * sectors
  BY <1>1, MultipleOfBlocks
<1>8. EntryLength(p, erase) = erase * blocks
  BY DEF EntryLength
<1> HIDE DEF blocks, sectors, lba, erase
<1>9. erase * blocks = Sector * (sectors * blocks) /\ sectors * blocks \in Nat
  BY <1>1, <1>6, <1>7, ProductAssociates
<1> DEFINE size == sectors * blocks
<1>10. size \in Nat /\ EntryLength(p, erase) = Sector * size
  BY <1>8, <1>9
<1> HIDE DEF size
<1>11. EntryLength(p, erase) \in Nat
  BY <1>1, <1>10, ProductAssociates
<1>12. EntryLength(p, erase) \div Sector = size
  BY <1>1, <1>10, <1>11, BlocksOfMultiple
<1>13. size * Sector = EntryLength(p, erase)
  BY <1>1, <1>10, ProductAssociates
<1>14. p.here <= size * Sector
  BY <1>1, <1>6, <1>8, <1>11, <1>13
<1>15. p.here # 0 => size # 0
  <2>1. CASE size = 0
    <3>1. 0 * Sector = 0
      BY <1>1
    <3> QED
      BY <1>1, <1>14, <2>1, <3>1
  <2> QED
    BY <2>1
<1>16. table[i].lba = lba /\ table[i].size = size
  BY <1>3, <1>12 DEF lba
<1> QED
  BY <1>1, <1>4, <1>5, <1>10, <1>14, <1>15, <1>16 DEF Content

LEMMA HeldIsFound ==
  ASSUME TypeOK, TableRight, Careful(layout), NEW i \in DOMAIN layout.partitions, Holds(i)
  PROVE  FoundByEntry(i)
BY EntryOfCareful DEF FoundByEntry, Holds

(* Writing a partition beside others leaves them alone.                    *)
LEMMA WriteKeepsOthers ==
  ASSUME TypeOK, Careful(layout), WritePartition,
         NEW i \in DOMAIN layout.partitions, i # cursor, Holds(i)
  PROVE  Holds(i)'
<1> DEFINE p == layout.partitions[cursor]
           q == layout.partitions[i]
<1>1. layout' = layout
  BY DEF WritePartition
<1>2. CASE UNCHANGED file
  BY <1>1, <1>2 DEF Holds, Content
<1>3. CASE /\ p.there # Absent
           /\ file' = Written(file, Place(p), Cells(cursor, p.there))
  <2>1. cursor \in DOMAIN layout.partitions
    <3>1. layout.partitions \in Seq(Partition)
      BY LayoutAssumption DEF TypeOK
    <3> QED
      BY <3>1 DEF WritePartition, TypeOK
  <2>2. p.start \in Nat /\ p.there \in Nat /\ cursor \in Int
    BY <1>3, <2>1, PartitionTypes
  <2>3. q.start \in Nat /\ q.there \in Nat \cup {Absent}
    BY PartitionTypes
  <2>4. p.start + p.there <= q.start \/ q.start + q.there <= p.start
    BY <2>1 DEF Careful
  <2>5. file \in Seq(Cell) /\ Len(file) \in Nat
    BY DEF TypeOK
  <2> DEFINE data == Cells(cursor, p.there)
             at   == p.start
  <2>6. data \in Seq(Cell) /\ Len(data) = p.there
    BY <2>2, CellsAreCells
  <2>7. file' = Written(file, at, data)
    BY <1>3 DEF Place
  <2> HIDE DEF data, at
  <2>8. /\ Len(file') >= Len(file) /\ Len(file') \in Nat
        /\ \A k \in 1..Len(file) :
             ~(at < k /\ k <= at + Len(data)) => file'[k] = file[k]
    BY <2>2, <2>5, <2>6, <2>7, WrittenFacts, SMTT(20) DEF at
  <2>9. ASSUME NEW k \in 1..q.there
        PROVE  q.start + k <= Len(file') /\ file'[q.start + k] = [of |-> i, at |-> k]
    <3>1. q.start + k <= Len(file) /\ file[q.start + k] = [of |-> i, at |-> k]
      BY <2>9 DEF Holds, Content
    <3>2. q.there \in Nat
      BY <2>3, <2>9 DEF Absent
    <3>3. q.start + k \in 1..Len(file) /\ ~(at < q.start + k /\ q.start + k <= at + Len(data))
      <4>1. k \in Nat /\ 1 <= k /\ k <= q.there
        BY <3>2
      <4>2. ~(at < q.start + k /\ q.start + k <= at + p.there)
        BY <2>2, <2>3, <2>4, <3>2, <4>1 DEF at
      <4>3. q.start + k \in 1..Len(file)
        BY <2>3, <2>5, <3>1, <4>1
      <4> QED
        BY <2>6, <4>2, <4>3
    <3> QED
      BY <2>5, <2>8, <3>1, <3>2, <3>3
  <2> QED
    BY <1>1, <2>9 DEF Holds, Content
<1> QED
  BY <1>2, <1>3 DEF WritePartition

(* A partition that has been written is in its place.                      *)
LEMMA WritePutsContent ==
  ASSUME TypeOK, WritePartition, NEW i \in DOMAIN layout.partitions, i = cursor,
         cursor' # cursor, layout.partitions[i].format = "raw"
  PROVE  Holds(i)'
<1> DEFINE p == layout.partitions[i]
<1>1. /\ p.there # Absent /\ layout' = layout /\ cursor' = cursor + 1
      /\ file' = Written(file, p.start, Cells(i, p.there))
  BY DEF WritePartition, Place
<1>2. p.start \in Nat /\ p.there \in Nat /\ i \in Int
  BY <1>1, PartitionTypes
<1>3. file \in Seq(Cell)
  BY DEF TypeOK
<1> DEFINE data == Cells(i, p.there)
<1>4. /\ data \in Seq(Cell) /\ Len(data) = p.there
      /\ \A k \in 1..p.there : data[k] = [of |-> i, at |-> k]
  BY <1>2, CellsAreCells
<1>5. file' = Written(file, p.start, data)
  BY <1>1
<1> HIDE DEF data
<1>6. /\ data # <<>> => Len(file') >= p.start + Len(data)
      /\ Len(file') \in Nat
      /\ \A k \in 1..Len(data) : file'[p.start + k] = data[k]
  BY <1>2, <1>3, <1>4, <1>5, WrittenFacts, SMTT(20)
<1>7. ASSUME NEW k \in 1..p.there
      PROVE  p.start + k <= Len(file') /\ file'[p.start + k] = [of |-> i, at |-> k]
  <2>1. data # <<>>
    BY <1>2, <1>4, <1>7
  <2> QED
    BY <1>2, <1>4, <1>6, <1>7, <2>1
<1> QED
  BY <1>1, <1>7 DEF Holds, Content

(* The first pieces of four.                                               *)
LEMMA FirstPieces ==
  ASSUME NEW a \in Seq(Cell), NEW b \in Seq(Cell), NEW c \in Seq(Cell), NEW d \in Seq(Cell),
         NEW f, f = a \o b \o c \o d
  PROVE  /\ f \in Seq(Cell) /\ Len(f) >= Len(a) + Len(b)
         /\ SubSeq(f, 1, Len(a)) = a
         /\ SubSeq(f, Len(a) + 1, Len(a) + Len(b)) = b
<1> DEFINE e == a \o b
           g == e \o c
           m == Len(a)
           n == Len(b)
<1>1. m \in Nat /\ n \in Nat /\ Len(c) \in Nat /\ Len(d) \in Nat
  OBVIOUS
<1>2. /\ e \in Seq(Cell) /\ Len(e) = m + n
      /\ \A k \in 1..m : e[k] = a[k]
      /\ \A k \in 1..n : e[m + k] = b[k]
  BY TwoPieces
<1> HIDE DEF e
<1>3. /\ g \in Seq(Cell) /\ Len(g) = Len(e) + Len(c)
      /\ \A k \in 1..Len(e) : g[k] = e[k]
  BY <1>2, TwoPieces
<1> HIDE DEF g
<1>4. /\ f \in Seq(Cell) /\ Len(f) = Len(g) + Len(d)
      /\ \A k \in 1..Len(g) : f[k] = g[k]
  BY <1>3, TwoPieces DEF e, g
<1>5. ASSUME NEW k \in 1..m PROVE f[k] = a[k]
  <2>1. k \in 1..Len(e) /\ k \in 1..Len(g)
    BY <1>1, <1>2, <1>3
  <2> QED
    BY <1>2, <1>3, <1>4, <2>1
<1>6. ASSUME NEW k \in 1..n PROVE f[m + k] = b[k]
  <2>1. m + k \in 1..Len(e) /\ m + k \in 1..Len(g)
    BY <1>1, <1>2, <1>3
  <2> QED
    BY <1>2, <1>3, <1>4, <2>1
<1>7. Len(f) >= m + n /\ Len(f) \in Nat
  BY <1>1, <1>2, <1>3, <1>4
<1>8. SubSeq(f, 1, m) = a
  <2>1. /\ SubSeq(f, 1, m) \in Seq(Cell) /\ Len(SubSeq(f, 1, m)) = m
        /\ \A k \in 1..m : SubSeq(f, 1, m)[k] = f[k]
    BY <1>1, <1>4, <1>7
  <2> QED
    BY <1>1, <1>5, <2>1
<1>9. SubSeq(f, m + 1, m + n) = b
  <2> DEFINE s == SubSeq(f, m + 1, m + n)
  <2>1. s \in Seq(Cell) /\ Len(s) = n
    BY <1>1, <1>4, <1>7
  <2>2. \A k \in 1..n : s[k] = f[m + k]
    BY <1>1, <1>4, <1>7, SMTT(20)
  <2> HIDE DEF s
  <2>3. \A k \in 1..n : s[k] = b[k]
    BY <1>6, <2>2
  <2>4. s = b
    BY <1>1, <2>1, <2>3
  <2> QED
    BY <2>4 DEF s
<1> QED
  BY <1>4, <1>7, <1>8, <1>9

(* Installing writes the record and the whole bootloader.                  *)
LEMMA InstallWrites ==
  ASSUME TypeOK, InstallBootloader
  PROVE  Intact' /\ YasbootWhole'
<1> DEFINE first == table[FirstPartition]
           free == EmptySpace(first)
<1>1. first.lba \in Nat
  BY FirstIsOne DEF InstallBootloader
<1>2. PICK length \in Yasboots : length <= free /\ file' = WithYasboot(length, free)
  BY DEF InstallBootloader
<1>3. length \in Nat /\ Sector \in Nat \ {0}
  BY SizeAssumption
<1>4. free \in Int
  BY <1>1, <1>3 DEF EmptySpace
<1> HIDE DEF first, free
<1> DEFINE a == Cells(OfRecord, Sector)
           b == Cells(OfYasboot, length)
           c == Zeros(free - length)
           d == SubSeq(file, free + Sector + 1, Len(file))
<1>5. a \in Seq(Cell) /\ Len(a) = Sector /\ b \in Seq(Cell) /\ Len(b) = length
  <2>1. OfRecord \in Int /\ OfYasboot \in Int /\ Sector \in Nat
    BY <1>3 DEF OfRecord, OfYasboot
  <2> QED
    BY <1>3, <2>1, CellsAreCells
<1>6. c \in Seq(Cell)
  <2>1. free - length \in Nat
    BY <1>2, <1>3, <1>4
  <2> QED
    BY <2>1, ZerosAreCells
<1>7. d \in Seq(Cell)
  <2>1. file \in Seq(Cell) /\ Len(file) \in Nat
    BY DEF TypeOK
  <2>2. free + Sector + 1 \in 1..Len(file) + 1 \/ free + Sector + 1 > Len(file)
    BY <1>2, <1>3, <1>4, <2>1
  <2> QED
    BY <1>2, <1>3, <1>4, <2>1, <2>2
<1>8. file' = a \o b \o c \o d
  BY <1>2 DEF WithYasboot
<1> HIDE DEF a, b, c, d
<1>9. /\ file' \in Seq(Cell) /\ Len(file') >= Sector + length
      /\ SubSeq(file', 1, Sector) = a
      /\ SubSeq(file', Sector + 1, Sector + length) = b
  <2> DEFINE f == file'
  <2>1. f = a \o b \o c \o d
    BY <1>8
  <2> HIDE DEF f
  <2>a. a \in Seq(Cell) /\ b \in Seq(Cell) /\ c \in Seq(Cell) /\ d \in Seq(Cell)
    BY <1>5, <1>6, <1>7
  <2>2. /\ f \in Seq(Cell) /\ Len(f) >= Len(a) + Len(b)
        /\ SubSeq(f, 1, Len(a)) = a
        /\ SubSeq(f, Len(a) + 1, Len(a) + Len(b)) = b
    BY <2>1, <2>a, FirstPieces
  <2> QED
    BY <1>5, <2>2 DEF f
<1>10. Len(file') >= Sector /\ length <= Len(file') - Sector
  <2>1. Len(file') \in Nat
    BY <1>9
  <2> QED
    BY <1>3, <1>9, <2>1
<1> QED
  BY <1>9, <1>10 DEF Intact, YasbootWhole, a, b

(* In the order of the disk nothing with a content lies before the first.  *)
LEMMA InstallKeepsOrdered ==
  ASSUME TypeOK, TableRight, Careful(layout), InDiskOrder(layout), InstallBootloader,
         NEW i \in DOMAIN layout.partitions, Holds(i)
  PROVE  Holds(i)'
<1> DEFINE start == layout.partitions[i].start
           lba   == table[FirstPartition].lba
<1>1. layout' = layout
  BY DEF InstallBootloader
<1>2. start \in Nat /\ Content(i) \in Nat /\ i \in Nat
  BY PartitionTypes, EntryOfCareful
<1>3. CASE Content(i) = 0
  BY <1>1, <1>3 DEF Holds, Content
<1>4. CASE Content(i) # 0
  <2>1. i \in Nonempty
    BY <1>4, EntryOfCareful DEF Nonempty, TableRight
  <2>2. Candidates = Nonempty
    BY EntryOfCareful DEF Candidates, Nonempty, TableRight
  <2>3. FirstPartition \in DOMAIN layout.partitions /\ FirstPartition <= i
    BY <2>1, <2>2, FirstIsOne DEF TableRight
  <2>4. FirstPartition \in Nat
    BY <2>3, PartitionTypes
  <2>5. layout.partitions[FirstPartition].start <= start
    BY <1>2, <2>3, <2>4 DEF InDiskOrder
  <2>6. Sector * lba = layout.partitions[FirstPartition].start
    BY <2>3, EntryOfCareful
  <2>7. layout.partitions[FirstPartition].start \in Nat /\ Len(file) \in Nat
    BY <2>3, PartitionTypes DEF TypeOK
  <2>8. ASSUME NEW k \in 1..Content(i)
        PROVE  start + k <= Len(file') /\ file'[start + k] = [of |-> i, at |-> k]
    <3>1. start + k <= Len(file) /\ file[start + k] = [of |-> i, at |-> k]
      BY <2>8 DEF Holds
    <3>2. start + k \in 1..Len(file) /\ start + k > Sector * lba
      BY <1>2, <2>5, <2>6, <2>7, <3>1
    <3> QED
      BY <3>1, <3>2, InstallKeepsCells
  <2> QED
    BY <1>1, <2>8 DEF Holds, Content
<1> QED
  BY <1>3, <1>4

LEMMA WriteMbrKeeps ==
  ASSUME ImageInv, WriteMbr PROVE EntriesInv' /\ ContentsInv' /\ InstalledInv' /\ BlankInv'
<1> DEFINE ps == layout.partitions
<1>1. layout' = layout /\ cursor' = 1 /\ phase = "mbr"
  BY DEF WriteMbr
<1>2. ContentsInv'
  <2>1. \A i \in DOMAIN ps : ~(i < 1)
    BY PartitionTypes DEF ImageInv
  <2> QED
    BY <1>1, <2>1 DEF ContentsInv
<1>3. CASE phase' = "failed" /\ UNCHANGED <<table, file>>
  <2>1. file = Zeros(layout.size)
    BY <1>1 DEF ImageInv, BlankInv
  <2>2. layout.size \in Nat
    BY LayoutAssumption DEF ImageInv, TypeOK
  <2>3. ~Intact
    <3> SUFFICES ASSUME Intact PROVE FALSE
      OBVIOUS
    <3>1. Len(file) >= Sector /\ Len(file) = layout.size /\ Sector \in Nat \ {0}
      BY <2>1, <2>2, ZerosAreCells, SizeAssumption DEF Intact
    <3>2. file \in Seq(Cell) /\ Len(file) \in Nat
      BY DEF ImageInv, TypeOK
    <3>3. SubSeq(file, 1, Sector)[1] = file[1]
      BY <3>1, <3>2
    <3>4. Cells(OfRecord, Sector)[1] = [of |-> OfRecord, at |-> 1]
      BY <3>1 DEF Cells
    <3>5. file[1] = Zero
      BY <2>1, <2>2, <3>1 DEF Zeros
    <3>6. [of |-> OfRecord, at |-> 1].of = OfRecord /\ Zero.of = 0
      BY DEF Zero
    <3>7. Zero.of = OfRecord
      BY <3>3, <3>4, <3>5, <3>6 DEF Intact
    <3> QED
      BY <3>6, <3>7 DEF OfRecord
  <2>4. ~Intact'
    BY <1>3, <2>3 DEF Intact
  <2> QED
    BY <1>1, <1>2, <1>3, <2>4 DEF EntriesInv, InstalledInv, BlankInv
<1>4. CASE /\ \A i \in DOMAIN ps : HasLength(ps[i])
           /\ table' = [i \in DOMAIN ps |-> TableEntry(ps[i], layout.erase)]
           /\ phase' = "partitions"
  <2>1. TableRight'
    BY <1>1, <1>4 DEF TableRight
  <2> QED
    BY <1>2, <1>4, <2>1 DEF EntriesInv, InstalledInv, BlankInv
<1> QED
  BY <1>3, <1>4 DEF WriteMbr

LEMMA WritePartitionKeeps ==
  ASSUME ImageInv, WritePartition
  PROVE  EntriesInv' /\ ContentsInv' /\ InstalledInv' /\ BlankInv'
<1>1. /\ layout' = layout /\ table' = table
      /\ phase = "partitions" /\ phase' \in {"partitions", "failed"}
  BY DEF WritePartition
<1>2. TypeOK /\ TableRight
  BY <1>1 DEF ImageInv, EntriesInv
<1>3. TableRight'
  BY <1>1, <1>2 DEF TableRight
<1>4. ASSUME Careful(layout), NEW i \in DOMAIN layout.partitions,
             i < cursor', layout.partitions[i].format = "raw"
      PROVE  Holds(i)'
  <2>1. i \in Nat /\ cursor \in Nat /\ cursor' \in {cursor, cursor + 1}
    BY <1>2, PartitionTypes DEF WritePartition, TypeOK
  <2>2. CASE i < cursor
    <3>1. Holds(i)
      BY <1>1, <1>4, <2>2 DEF ImageInv, ContentsInv
    <3>2. i # cursor
      BY <2>1, <2>2
    <3> QED
      BY <1>2, <1>4, <3>1, <3>2, WriteKeepsOthers
  <2>3. CASE ~(i < cursor)
    <3>1. i = cursor /\ cursor' # cursor
      BY <1>4, <2>1, <2>3
    <3> QED
      BY <1>2, <1>4, <3>1, WritePutsContent
  <2> QED
    BY <2>2, <2>3
<1>5. ContentsInv'
  BY <1>1, <1>4 DEF ContentsInv
<1> QED
  BY <1>1, <1>3, <1>5 DEF EntriesInv, InstalledInv, BlankInv

LEMMA InstallKeeps ==
  ASSUME ImageInv, InstallBootloader
  PROVE  EntriesInv' /\ ContentsInv' /\ InstalledInv' /\ BlankInv'
<1>1. /\ layout' = layout /\ table' = table /\ cursor' = cursor
      /\ phase \in {"created", "failed", "installed"} /\ Intact
      /\ phase' = "installed"
  BY DEF InstallBootloader
<1>2. TypeOK /\ TableRight
  BY <1>1 DEF ImageInv, EntriesInv
<1>3. TableRight'
  BY <1>1, <1>2 DEF TableRight
<1>4. Intact' /\ YasbootWhole'
  BY <1>2, InstallWrites
<1>5. ASSUME Careful(layout), InDiskOrder(layout), NEW i \in DOMAIN layout.partitions,
             i < cursor, layout.partitions[i].format = "raw"
      PROVE  Holds(i)'
  <2>1. Holds(i)
    BY <1>1, <1>5 DEF ImageInv, ContentsInv
  <2> QED
    BY <1>2, <1>5, <2>1, InstallKeepsOrdered
<1>6. ContentsInv'
  BY <1>1, <1>5 DEF ContentsInv
<1> QED
  BY <1>1, <1>3, <1>4, <1>6 DEF EntriesInv, InstalledInv, BlankInv

LEMMA NextImageInv == ASSUME ImageInv, [Next]_vars PROVE ImageInv'
<1>1. TypeOK'
  BY NextTypeOK DEF ImageInv
<1>2. CASE UNCHANGED vars
  BY <1>1, <1>2 DEF vars, ImageInv, EntriesInv, TableRight, ContentsInv, Holds, Content,
                    InstalledInv, Intact, YasbootWhole, BlankInv
<1>3. CASE CreateEmpty
  BY <1>1, <1>3 DEF CreateEmpty, ImageInv, EntriesInv, ContentsInv, InstalledInv, BlankInv
<1>4. CASE WriteMbr
  BY <1>1, <1>4, WriteMbrKeeps DEF ImageInv
<1>5. CASE WritePartition
  BY <1>1, <1>5, WritePartitionKeeps DEF ImageInv
<1>6. CASE EndPartitions
  BY <1>1, <1>6 DEF EndPartitions, ImageInv, EntriesInv, TableRight, ContentsInv, Holds,
                    Content, InstalledInv, BlankInv
<1>7. CASE InstallBootloader
  BY <1>1, <1>7, InstallKeeps DEF ImageInv
<1>8. CASE RefuseBootloader
  BY <1>1, <1>8 DEF RefuseBootloader, ImageInv, EntriesInv, ContentsInv, InstalledInv,
                    BlankInv
<1> QED
  BY <1>2, <1>3, <1>4, <1>5, <1>6, <1>7, <1>8 DEF Next

LEMMA SpecImageInv == Spec => []ImageInv
<1>1. Init => ImageInv
  BY InitTypeOK DEF Init, ImageInv, EntriesInv, ContentsInv, InstalledInv, BlankInv
<1> QED
  BY <1>1, NextImageInv, PTL DEF Spec

(* Of a careful layout, whatever it is, every partition that has been      *)
(* written is where its entry in the record says, and not longer.          *)
THEOREM PartitionsAreFound == Spec => []PartitionsFound
<1>1. ASSUME ImageInv PROVE PartitionsFound
  BY <1>1, HeldIsFound DEF ImageInv, EntriesInv, ContentsInv, PartitionsFound
<1> QED
  BY <1>1, SpecImageInv, PTL

(* ... and so it is under a bootloader, which is there as a whole, when    *)
(* the partitions are in the order of the disk.                            *)
THEOREM InstalledDisksBoot == Spec => []InstalledDiskBoots
<1>1. ASSUME ImageInv PROVE InstalledDiskBoots
  BY <1>1, HeldIsFound
     DEF ImageInv, EntriesInv, ContentsInv, InstalledInv, InstalledDiskBoots
<1> QED
  BY <1>1, SpecImageInv, PTL
=============================================================================
