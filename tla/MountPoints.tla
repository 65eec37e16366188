----------------------------- MODULE MountPoints -----------------------------
(***************************************************************************)
(* kernel/fs/mount_points.zig: the tree of mount points, through which the *)
(* virtual file system finds the file system of a path.                    *)
(*                                                                         *)
(* A mount point keeps the path below its parent, which may have several   *)
(* components, and the list of its children.  A path is a sequence of      *)
(* names, without the slashes around and between them; but the code        *)
(* compares bytes, so the path of a mount point may end inside a name.     *)
(***************************************************************************)
EXTENDS Naturals, SequencesExt

CONSTANTS
  Name,         \* the names of files and directories
  Size,         \* their numbers of bytes
  Rest,         \* <<m, n>> |-> what is left of the name n that starts with m
  Point,        \* the places of MountPoint objects
  Root,         \* the place of the root, within MountPoints
  FileSystem,   \* file systems
  MaxLength     \* max_mount_point_size, in names; bounds lookups as well

ASSUME RootAssumption == Root \in Point
ASSUME PointAssumption == IsFiniteSet(Point)
ASSUME SizeAssumption == Size \in [Name -> Nat \ {0}]
ASSUME RestAssumption ==
  /\ DOMAIN Rest \subseteq Name \X Name
  /\ \A pair \in DOMAIN Rest :
       Rest[pair] \in Name /\ Size[pair[2]] = Size[pair[1]] + Size[Rest[pair]]
  /\ \A m, n, name \in Name :
       <<m, name>> \in DOMAIN Rest /\ <<n, name>> \in DOMAIN Rest
       => m = n \/ <<m, n>> \in DOMAIN Rest \/ <<n, m>> \in DOMAIN Rest
ASSUME LengthAssumption == MaxLength \in Nat \ {0}

VARIABLES
  points,   \* the mount points that exist; Root among them if root # null
  alive,    \* the file systems that are handed to a mount point, undeleted
  given     \* history: the path the caller of mount_filesystem gave

vars == <<points, alive, given>>

(* A mount point is a record of its path, its file system and the sequence *)
(* of its children.                                                        *)
Path == UNION {[1..n -> Name] : n \in 0..MaxLength}

Init ==
  /\ points = [p \in {} |-> {}]
  /\ alive = {}
  /\ given = [p \in Point |-> <<>>]

-----------------------------------------------------------------------------
(* std.mem.startsWith on the bytes of two paths.                           *)
StartsWith(left, path) ==
  LET n == Len(path) IN
  /\ n =< Len(left)
  /\ \A k \in 1..n - 1 : left[k] = path[k]
  /\ n > 0 => left[n] = path[n] \/ <<path[n], left[n]>> \in DOMAIN Rest

(* What follows that prefix, without the slashes in front of it.           *)
After(left, path) ==
  LET n == Len(path) IN
  (IF left[n] = path[n] THEN <<>> ELSE <<Rest[<<path[n], left[n]>>]>>)
    \o SubSeq(left, n + 1, Len(left))

(* Mutant: the child listed last is taken.                                 *)
BestChildLast(point, left) ==
  SelectLastInSeq(points[point].children, LAMBDA c : StartsWith(left, points[c].path))

(* Of two prefixes of a path, the first has more bytes.                    *)
Longer(path, other) ==
  \/ Len(path) > Len(other)
  \/ /\ Len(path) = Len(other) /\ path # <<>>
     /\ Size[path[Len(path)]] > Size[other[Len(other)]]

(* The position of the first child with the longest matching path; 0 if    *)
(* none matches.                                                           *)
BestChild(point, left) ==
  LET children == points[point].children
      matches  == {c \in ToSet(children) : StartsWith(left, points[c].path)}
  IN  SelectInSeq(children, LAMBDA c :
        c \in matches /\ \A d \in matches : ~Longer(points[d].path, points[c].path))

(* One round of the search: the mount point that matched last, its parent, *)
(* and what is left of the path.                                           *)
Descend(at) ==
  LET best  == IF at.left = <<>> THEN 0 ELSE BestChild(at.point, at.left)
      child == points[at.point].children[best]
  IN  IF best = 0 THEN at
      ELSE [point |-> child, parent |-> at.point, left |-> After(at.left, points[child].path)]

(* find_longest_matching_point, once there is a root, which is its own     *)
(* parent.  A round that finds no child is the last; each other round goes *)
(* to another mount point, so that there are fewer than mount points.      *)
Find(path) ==
  LET walk[n \in 0..Cardinality(Point)] ==
        LET before == walk[n - 1]
        IN  IF n = 0 THEN [point |-> Root, parent |-> Root, left |-> path]
            ELSE Descend(before)
  IN  walk[Cardinality(Point)]

(* A mount point and all below it, what deinit works through: the smallest *)
(* set with the children of its members.                                   *)
HasChildren(set) == \A p \in set : ToSet(points[p].children) \subseteq set
Subtree(point) ==
  {p \in DOMAIN points :
     \A set \in SUBSET DOMAIN points : point \in set /\ HasChildren(set) => p \in set}

-----------------------------------------------------------------------------
NewPoint(path, fs) == [path |-> path, filesystem |-> fs, children |-> <<>>]

(* mount_filesystem when there is no root: only "/" can be mounted.        *)
MountRoot(fs) ==
  /\ Root \notin DOMAIN points
  /\ fs \notin alive
  /\ points' = [p \in {Root} |-> NewPoint(<<>>, fs)]
  /\ alive' = alive \cup {fs}
  /\ UNCHANGED given

(* Mutant: the new mount point is listed below the root.                   *)
MountFilesystemAtRoot(path, fs) ==
  LET found == Find(path) IN
  /\ Root \in DOMAIN points
  /\ fs \notin alive
  /\ found.left # <<>>
  /\ \E p \in Point \ (DOMAIN points \cup {Root}) :
       /\ points' = [q \in DOMAIN points \cup {p} |->
                       IF q = p THEN NewPoint(found.left, fs)
                       ELSE IF q = Root
                            THEN [points[q] EXCEPT !.children = Append(@, p)]
                            ELSE points[q]]
       /\ given' = [given EXCEPT ![p] = path]
  /\ alive' = alive \cup {fs}

(* mount_filesystem below the root: the path is not a mount point, the     *)
(* file system it belongs to knows it and the heap has room.  The child    *)
(* stays when the file system's own mount fails; the caller just gets the  *)
(* error.                                                                  *)
MountFilesystem(path, fs) ==
  LET found == Find(path) IN
  /\ Root \in DOMAIN points
  /\ fs \notin alive
  /\ found.left # <<>>
  /\ \E p \in Point \ (DOMAIN points \cup {Root}) :
       /\ points' = [q \in DOMAIN points \cup {p} |->
                       IF q = p THEN NewPoint(found.left, fs)
                       ELSE IF q = found.point
                            THEN [points[q] EXCEPT !.children = Append(@, p)]
                            ELSE points[q]]
       /\ given' = [given EXCEPT ![p] = path]
  /\ alive' = alive \cup {fs}

(* Mutant: the children of the children stay.                              *)
UmountShallow(path) ==
  LET found == Find(path)
      gone  == {found.point} \cup ToSet(points[found.point].children)
  IN  /\ Root \in DOMAIN points
      /\ found.left = <<>>
      /\ points' = [q \in DOMAIN points \ gone |->
                      [points[q] EXCEPT !.children = Remove(@, found.point)]]
      /\ alive' = alive \ {points[q].filesystem : q \in gone}
      /\ UNCHANGED given

(* umount: the mount point and all below it are destroyed with their file  *)
(* systems, then removeChild takes the first child of the parent with its  *)
(* path off the list.  The root itself is gone when "/" is unmounted.      *)
Umount(path) ==
  LET found    == Find(path)
      gone     == Subtree(found.point)
      Named(c) == points[c].path = points[found.point].path
      k        == SelectInSeq(points[found.parent].children, Named)
  IN  /\ Root \in DOMAIN points
      /\ found.left = <<>>
      /\ points' = [q \in DOMAIN points \ gone |->
                      IF q = found.parent
                      THEN [points[q] EXCEPT !.children = RemoveAt(@, k)]
                      ELSE points[q]]
      /\ alive' = alive \ {points[q].filesystem : q \in gone}
      /\ given' = [p \in Point |-> IF p \in gone THEN <<>> ELSE given[p]]

Next ==
  \/ \E fs \in FileSystem :
       MountRoot(fs) \/ \E path \in Path : MountFilesystem(path, fs)
  \/ \E path \in Path : Umount(path)

Spec == Init /\ [][Next]_vars

-----------------------------------------------------------------------------
(* Properties.                                                             *)

(* A mount point's path ends inside a name of another path: the bytes      *)
(* match, the names do not.                                                *)
EndsInside(path) ==
  \E p \in DOMAIN points : StartsWith(path, given[p]) /\ ~IsPrefix(given[p], path)

(* Lookup goes from parent to child and never back, yet it finds the mount *)
(* point whose path, as it was given to mount_filesystem, is the longest   *)
(* that a path starts with, in whichever order mount points came and went, *)
(* as long as no mount point's path ends inside a name of the path or of   *)
(* another mount point's path.                                             *)
LookupIsLongestMatch ==
  Root \in DOMAIN points /\ (\A p \in DOMAIN points : ~EndsInside(given[p])) =>
    \A path \in {q \in Path : ~EndsInside(q)} :
      LET found == Find(path)
          Above == {p \in DOMAIN points : IsPrefix(given[p], path)}
      IN  /\ found.point \in Above
          /\ \A p \in Above : IsPrefix(given[p], given[found.point])
          /\ path = given[found.point] \o found.left

(* Every mount point is found under the path it was mounted with, so that  *)
(* the files below it can be used and it can be unmounted: no later mount  *)
(* hides one, even where the names of mount points start with each other.  *)
NothingIsHidden ==
  \A p \in DOMAIN points :
    LET found == Find(given[p]) IN found.point = p /\ found.left = <<>>

(* Every mount point is listed by its parent alone and every file system   *)
(* that was mounted belongs to one mount point until it is deleted with it *)
(* once: an umount forgets nothing below it and deletes nothing twice.     *)
OwnedOnce ==
  /\ \A p \in DOMAIN points \ {Root} :
       \E q \in DOMAIN points : \E k \in DOMAIN points[q].children :
         \A r \in DOMAIN points : \A m \in DOMAIN points[r].children :
           points[r].children[m] = p <=> <<r, m>> = <<q, k>>
  /\ alive = {points[p].filesystem : p \in DOMAIN points}
  /\ \A p, q \in DOMAIN points :
       p # q => points[p].filesystem # points[q].filesystem
=============================================================================
