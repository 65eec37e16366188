----------------------------- MODULE DiskImage -----------------------------
(***************************************************************************)
(* The scripts that make the image of a disk: create_disk.py writes a      *)
(* master boot record and the contents of the partitions of a layout,      *)
(* write_yasboot.py puts the bootloader between the two.  An action stands *)
(* for one step of a script; wherever the Python code raises, the script   *)
(* ends and the file stays as it is.                                       *)
(*                                                                         *)
(* The library pymbr is external: it keeps what it is given and may refuse *)
(* a table.                                                                *)
(***************************************************************************)
EXTENDS Integers, Sequences

CONSTANTS
  Layouts,    \* layouts, their partitions in the order of their keys
  Yasboots,   \* lengths of the bootloader
  Sector      \* the length of a sector, and of the master boot record

Format == {"raw", "littlefs", "none"}
Absent == -1

(* A partition: where it starts, whether its length is given, whether its  *)
(* content is, and the length of the file of that name, seen from the      *)
(* directory of the script and from the one of the layout.                 *)
Partition == [start : Nat, length : BOOLEAN, content : BOOLEAN,
              here : Nat \cup {Absent}, there : Nat \cup {Absent}, format : Format]
ASSUME LayoutAssumption ==
  \A l \in Layouts : /\ l.size \in Nat /\ l.erase \in Nat \ {0} /\ l.plain \in BOOLEAN
                     /\ l.partitions \in Seq(Partition)
(* Erase sizes are powers of two: the script rounds with a bit mask, which *)
(* for others gives no multiple, and does not check it.                    *)
ASSUME EraseAssumption == \A l \in Layouts : \E k \in 0..31 : l.erase = 2 ^ k
ASSUME SizeAssumption == Yasboots \subseteq Nat /\ Sector \in Nat \ {0}

VARIABLES
  layout,   \* the layout of the image
  phase,    \* what is done next, or how the last script ended
  file,     \* the image, a sequence of cells
  table,    \* the partition table in the record
  cursor    \* the partition create_disk.py is at

vars == <<layout, phase, file, table, cursor>>

(* A cell of the image: whose it is and which one.                         *)
Zero == [of |-> 0, at |-> 0]
OfRecord == -1
OfYasboot == -2
Cells(of, n) == [k \in 1..n |-> [of |-> of, at |-> k]]
Zeros(n) == [k \in 1..n |-> Zero]

Longest(a, b) == IF a >= b THEN a ELSE b
(* seek and write: what lies between the end of the file and the place is  *)
(* zero; writing nothing does not make the file longer.                    *)
Written(f, at, data) ==
  IF data = <<>> THEN f
  ELSE [k \in 1..Longest(Len(f), at + Len(data)) |->
         IF at < k /\ k <= at + Len(data) THEN data[k - at]
         ELSE IF k <= Len(f) THEN f[k] ELSE Zero]
-----------------------------------------------------------------------------
(* get_entry_length: the length that is given is an exception, returned    *)
(* and not raised, that cannot be divided; neither is a KeyError; and the  *)
(* file is looked for where the script runs.                               *)
HasLength(p) == ~p.length /\ p.content /\ p.here # Absent
(* (filesize + alignment - 1) & ~(alignment - 1), see EraseAssumption      *)
EntryLength(p, alignment) == alignment * ((p.here + alignment - 1) \div alignment)

(* Mutant: the length is not rounded up.                                   *)
TableEntryTruncated(p, erase) ==
  [lba |-> p.start \div Sector, size |-> p.here \div Sector]
TableEntry(p, erase) ==
  [lba |-> p.start \div Sector, size |-> EntryLength(p, erase) \div Sector]

(* An old image is removed and an empty one of the disk's size written.    *)
CreateEmpty ==
  /\ phase \in {"none", "created", "failed", "installed", "refused"}
  /\ file' = Zeros(layout.size)
  /\ phase' = "mbr"
  /\ UNCHANGED <<layout, table, cursor>>

(* write_mbr: the erase size has to be a plain number.  The image is       *)
(* opened for writing, which cuts it off.                                  *)
WriteMbr ==
  /\ phase = "mbr"
  /\ LET ps == layout.partitions
     IN  IF \A i \in DOMAIN ps : HasLength(ps[i]) /\ layout.plain
         THEN /\ table' = [i \in DOMAIN ps |-> TableEntry(ps[i], layout.erase)]
              /\ file' = Cells(OfRecord, Sector)
              /\ phase' = "partitions"
         ELSE phase' = "failed" /\ UNCHANGED <<table, file>>
  /\ cursor' = 1
  /\ UNCHANGED layout

(* One partition: for littlefs get_entry_length lacks an argument; a raw   *)
(* one is read from the directory of the layout.                           *)
(* Mutant: every partition is appended.                                    *)
PlaceAtEnd(p) == Len(file)
Place(p) == p.start
WritePartition ==
  LET p == layout.partitions[cursor]
  IN  /\ phase = "partitions" /\ cursor <= Len(layout.partitions)
      /\ \/ /\ p.format = "raw" /\ p.there # Absent
            /\ file' = Written(file, Place(p), Cells(cursor, p.there))
            /\ cursor' = cursor + 1
            /\ UNCHANGED phase
         \/ /\ p.format = "littlefs" \/ (p.format = "raw" /\ p.there = Absent)
            /\ phase' = "failed"
            /\ UNCHANGED <<file, cursor>>
         \/ /\ p.format = "none"
            /\ cursor' = cursor + 1
            /\ UNCHANGED <<file, phase>>
      /\ UNCHANGED <<layout, table>>

EndPartitions ==
  /\ phase = "partitions" /\ cursor > Len(layout.partitions)
  /\ phase' = "created"
  /\ UNCHANGED <<layout, file, table, cursor>>
-----------------------------------------------------------------------------
(* The record can be parsed if nothing was written over it.                *)
Intact == Len(file) >= Sector /\ SubSeq(file, 1, Sector) = Cells(OfRecord, Sector)

(* find_first_partition: the key is false for block 0 and else true for    *)
(* every partition that is not empty; of equal keys the first is taken.    *)
Nonempty == {i \in DOMAIN table : table[i].size # 0}
Candidates == IF \E i \in Nonempty : table[i].lba = 0
              THEN {i \in Nonempty : table[i].lba = 0} ELSE Nonempty
(* Mutant: the last of them.                                               *)
LastPartition == CHOOSE i \in Candidates : \A j \in Candidates : j <= i
FirstPartition == CHOOSE i \in Candidates : \A j \in Candidates : i <= j

(* Mutant: forgets that the record takes a block.                          *)
EmptySpaceWithRecord(partition) == partition.lba * Sector
EmptySpace(partition) == (partition.lba - 1) * Sector

(* The image with a bootloader: the record, the bootloader, zeros up to    *)
(* the partition, and the rest of the drive as it was.                     *)
WithYasboot(length, free) ==
  Cells(OfRecord, Sector) \o Cells(OfYasboot, length) \o Zeros(free - length)
    \o SubSeq(file, free + Sector + 1, Len(file))

InstallBootloader ==
  /\ phase \in {"created", "failed", "installed"}
  /\ Intact /\ Nonempty # {}
  /\ \E length \in Yasboots :
       LET free == EmptySpace(table[FirstPartition])
       IN  /\ length <= free
           /\ file' = WithYasboot(length, free)
  /\ phase' = "installed"
  /\ UNCHANGED <<layout, table, cursor>>

(* No record, a table pymbr does not accept, no partition or no space.     *)
RefuseBootloader ==
  /\ phase \in {"created", "failed", "installed"}
  /\ phase' = "refused"
  /\ UNCHANGED <<layout, file, table, cursor>>
-----------------------------------------------------------------------------
Init == /\ layout \in Layouts
        /\ phase = "none" /\ file = <<>> /\ table = <<>> /\ cursor = 1

Next == \/ CreateEmpty \/ WriteMbr \/ WritePartition \/ EndPartitions
        \/ InstallBootloader \/ RefuseBootloader

Spec == Init /\ [][Next]_vars
-----------------------------------------------------------------------------
Cell == [of : Int, at : Nat]
TypeOK ==
  /\ layout \in Layouts
  /\ phase \in {"none", "mbr", "partitions", "created", "failed", "installed", "refused"}
  /\ file \in Seq(Cell)
  /\ table \in Seq([lba : Nat, size : Nat])
  /\ cursor \in Nat \ {0}

(* The content of a partition is in the image, where the layout puts it.   *)
Content(i) == layout.partitions[i].there
Holds(i) ==
  \A k \in 1..Content(i) :
    LET place == layout.partitions[i].start + k
    IN  place <= Len(file) /\ file[place] = [of |-> i, at |-> k]

(* The kernel, which knows a partition from its entry, finds the content   *)
(* at the entry's first block and within the entry's size.                 *)
FoundByEntry(i) ==
  /\ Content(i) <= table[i].size * Sector
  /\ \A k \in 1..Content(i) :
       LET place == table[i].lba * Sector + k
       IN  place <= Len(file) /\ file[place] = [of |-> i, at |-> k]

(* A careful layout: contents that do not overlap each other or the        *)
(* record, starting with a block, blocks of the flash that are multiples   *)
(* of blocks of the disk, and a script run in the layout's directory.      *)
Careful(l) ==
  /\ l.erase % Sector = 0
  /\ \A i \in DOMAIN l.partitions :
       LET p == l.partitions[i]
       IN  /\ p.start % Sector = 0 /\ p.start >= Sector
           /\ p.here = p.there
           /\ \A j \in DOMAIN l.partitions :
                LET q == l.partitions[j]
                IN  i # j => p.start + p.there <= q.start \/ q.start + q.there <= p.start
InDiskOrder(l) ==
  \A i, j \in DOMAIN l.partitions : i < j => l.partitions[i].start <= l.partitions[j].start

(* Of a careful layout every partition that has been written is found      *)
(* under its entry, while others are being written, too.                   *)
PartitionsFound ==
  Careful(layout) /\ phase \in {"partitions", "created"} =>
    \A i \in DOMAIN layout.partitions :
      i < cursor /\ layout.partitions[i].format = "raw" => FoundByEntry(i)

(* Where no content lies before the partition write_yasboot.py takes for   *)
(* the first, installing the bootloader, once or again, leaves the content *)
(* of every partition alone.                                               *)
NothingBeforeFirst ==
  \A i \in DOMAIN layout.partitions :
    Sector * table[FirstPartition].lba <= layout.partitions[i].start
BootloaderKeepsPartitions ==
  [][InstallBootloader /\ NothingBeforeFirst =>
       \A i \in DOMAIN layout.partitions : Holds(i) => Holds(i)']_vars

(* A careful layout in the order of the disk stays found under a           *)
(* bootloader, as far as it has been written; the record and the whole     *)
(* bootloader lie in front of it.                                          *)
YasbootWhole == \E length \in Yasboots :
  /\ length <= Len(file) - Sector
  /\ SubSeq(file, Sector + 1, Sector + length) = Cells(OfYasboot, length)
InstalledDiskBoots ==
  Careful(layout) /\ InDiskOrder(layout) /\ phase = "installed" =>
    /\ Intact /\ YasbootWhole
    /\ \A i \in DOMAIN layout.partitions :
         i < cursor /\ layout.partitions[i].format = "raw" => FoundByEntry(i)
=============================================================================
