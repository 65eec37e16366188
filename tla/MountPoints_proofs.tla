------------------------- MODULE MountPoints_proofs -------------------------
(***************************************************************************)
(* Proofs about MountPoints, for any names, mount points and file systems. *)
(***************************************************************************)
EXTENDS MountPoints, Integers, FiniteSetTheorems, SequenceTheorems, WellFoundedInduction, TLAPS

(* A set of numbers has a least one.                                       *)
LEMMA LeastNumber ==
  ASSUME NEW T, T \subseteq Nat, T # {}
  PROVE  \E x \in T : \A y \in T : x <= y
<1>1. PICK less : /\ IsWellFoundedOn(less, Nat)
                  /\ \A x, y \in Nat : y < x => <<y, x>> \in less
  <2>1. \A x, y \in Nat : y < x => <<y, x>> \in OpToRel(<, Nat)
    BY DEF OpToRel
  <2> QED
    BY <2>1, NatLessThanWellFounded, Zenon
<1>2. PICK x \in T : \A y \in T : ~(<<y, x>> \in less)
  BY <1>1, WFMin
<1>3. \A y \in T : x <= y
  <2> SUFFICES ASSUME NEW y \in T PROVE x <= y
    OBVIOUS
  <2>1. x \in Nat /\ y \in Nat
    OBVIOUS
  <2>2. ~(y < x)
    BY <1>1, <1>2, <2>1, Zenon
  <2> QED
    BY <2>1, <2>2
<1> QED
  BY <1>3

(* A property that holds at 0 and of the next number holds up to a bound.  *)
LEMMA UpTo ==
  ASSUME NEW n \in Nat, NEW T, 0 \in T, \A k \in 0..n : k \in T /\ k < n => k + 1 \in T
  PROVE  \A k \in 0..n : k \in T
<1> DEFINE Bad == {k \in 0..n : k \notin T}
<1> SUFFICES ASSUME Bad # {} PROVE FALSE
  OBVIOUS
<1>1. PICK k \in Bad : \A y \in Bad : k <= y
  <2>1. Bad \subseteq Nat
    OBVIOUS
  <2> HIDE DEF Bad
  <2> QED
    BY <2>1, LeastNumber
<1>2. k \in 0..n /\ k \notin T /\ k # 0
  OBVIOUS
<1>3. k - 1 \in 0..n /\ k - 1 < n
  BY <1>2
<1>4. k - 1 \in T
  BY <1>1, <1>2, <1>3
<1>5. (k - 1) + 1 = k
  BY <1>2
<1> QED
  BY <1>2, <1>3, <1>4, <1>5

-----------------------------------------------------------------------------
(* Paths.                                                                  *)
LEMMA PathIsSeq ==
  /\ \A x \in Path : x \in Seq(Name) /\ Len(x) \in 0..MaxLength /\ DOMAIN x = 1..Len(x)
  /\ \A x \in Seq(Name) : Len(x) <= MaxLength => x \in Path
<1>1. ASSUME NEW x \in Path
      PROVE  x \in Seq(Name) /\ Len(x) \in 0..MaxLength /\ DOMAIN x = 1..Len(x)
  <2>1. PICK n \in 0..MaxLength : x \in [1..n -> Name]
    BY DEF Path
  <2>2. x \in Seq(Name) /\ Len(x) = n
    BY <2>1
  <2> QED
    BY <2>1, <2>2
<1>2. ASSUME NEW x \in Seq(Name), Len(x) <= MaxLength
      PROVE  x \in Path
  <2>1. Len(x) \in Nat /\ x \in [1..Len(x) -> Name]
    OBVIOUS
  <2>2. Len(x) \in 0..MaxLength
    BY <1>2, <2>1, LengthAssumption
  <2> QED
    BY <2>1, <2>2 DEF Path
<1> QED
  BY <1>1, <1>2

LEMMA EmptyIsShort ==
  /\ <<>> \in Path /\ Len(<<>>) = 0
  /\ \A x \in Path : Len(x) = 0 <=> x = <<>>
<1>1. <<>> \in Seq(Name) /\ Len(<<>>) = 0
  OBVIOUS
<1>2. <<>> \in Path
  <2>1. Len(<<>>) <= MaxLength
    BY <1>1, LengthAssumption
  <2> QED
    BY <1>1, <2>1, PathIsSeq, Zenon
<1>3. ASSUME NEW x \in Path PROVE Len(x) = 0 <=> x = <<>>
  BY PathIsSeq, EmptySeq
<1> QED
  BY <1>1, <1>2, <1>3

(* What is left of a path is a path.                                       *)
LEMMA AfterIsPath ==
  ASSUME NEW left \in Path, NEW path \in Path, path # <<>>, StartsWith(left, path)
  PROVE  After(left, path) \in Path
<1> DEFINE n == Len(path)
           m == Len(left)
           front == IF left[n] = path[n] THEN <<>> ELSE <<Rest[<<path[n], left[n]>>]>>
           tail == SubSeq(left, n + 1, m)
<1>1. /\ left \in Seq(Name) /\ path \in Seq(Name)
      /\ n \in 1..m /\ m \in Nat /\ m <= MaxLength
  BY PathIsSeq, EmptyIsShort, LengthAssumption DEF StartsWith
<1>2. front \in Seq(Name) /\ Len(front) \in {0, 1}
  <2>1. CASE left[n] = path[n]
    BY <2>1
  <2>2. CASE left[n] # path[n]
    <3>1. <<path[n], left[n]>> \in DOMAIN Rest
      BY <1>1, <2>2 DEF StartsWith
    <3>2. Rest[<<path[n], left[n]>>] \in Name
      BY <3>1, RestAssumption
    <3> QED
      BY <2>2, <3>2
  <2> QED
    BY <2>1, <2>2
<1>3. tail \in Seq(Name) /\ Len(tail) = m - n
  <2>1. \A i \in n + 1 .. m : left[i] \in Name
    BY <1>1
  <2>2. Len(tail) = IF n + 1 <= m THEN m - (n + 1) + 1 ELSE 0
    BY <1>1, <2>1, SubSeqProperties
  <2> QED
    BY <1>1, <2>1, <2>2, SubSeqProperties
<1> HIDE DEF front, tail
<1>4. front \o tail \in Seq(Name) /\ Len(front \o tail) <= MaxLength
  <2>1. front \o tail \in Seq(Name) /\ Len(front \o tail) = Len(front) + Len(tail)
    BY <1>2, <1>3, ConcatProperties
  <2> QED
    BY <1>1, <1>2, <1>3, <2>1, LengthAssumption
<1>5. front \o tail \in Path
  BY <1>4, PathIsSeq
<1> QED
  BY <1>5 DEF After, front, tail

(* Nothing is left of a path after itself.                                 *)
LEMMA AfterItself ==
  ASSUME NEW path \in Path, path # <<>>
  PROVE  StartsWith(path, path) /\ After(path, path) = <<>>
<1>1. path \in Seq(Name) /\ Len(path) \in Nat
  BY PathIsSeq
<1>2. SubSeq(path, Len(path) + 1, Len(path)) = <<>>
  BY <1>1, SubSeqEmpty
<1>3. <<>> \o <<>> = <<>>
  OBVIOUS
<1> QED
  BY <1>1, <1>2, <1>3 DEF StartsWith, After

(* A name that starts with another has more bytes.                         *)
LEMMA RestIsLonger ==
  \A k, l \in Name : <<k, l>> \in DOMAIN Rest
                     => Size[k] \in Nat /\ Size[l] \in Nat /\ Size[k] < Size[l]
<1> SUFFICES ASSUME NEW k \in Name, NEW l \in Name, <<k, l>> \in DOMAIN Rest
             PROVE  Size[k] \in Nat /\ Size[l] \in Nat /\ Size[k] < Size[l]
  OBVIOUS
<1>1. Size[k] \in Nat \ {0} /\ Size[l] \in Nat \ {0}
  BY SizeAssumption
<1>2. Rest[<<k, l>>] \in Name /\ Size[l] = Size[k] + Size[Rest[<<k, l>>]]
  BY RestAssumption
<1>3. Size[Rest[<<k, l>>]] \in Nat \ {0}
  BY <1>2, SizeAssumption
<1> QED
  BY <1>1, <1>2, <1>3

(* Of two prefixes of a path the longer one starts with the other, and     *)
(* those of equal length are equal.                                        *)
LEMMA PrefixesAreOrdered ==
  ASSUME NEW left \in Path, NEW path \in Path, NEW other \in Path,
         StartsWith(left, path), StartsWith(left, other), ~Longer(path, other)
  PROVE  StartsWith(other, path)
<1> DEFINE n == Len(path)
           m == Len(other)
<1>1. /\ left \in Seq(Name) /\ path \in Seq(Name) /\ other \in Seq(Name)
      /\ n \in Nat /\ m \in Nat
  BY PathIsSeq
<1>2. n <= m
  BY <1>1 DEF Longer
<1>3. CASE n = 0
  BY <1>1, <1>2, <1>3 DEF StartsWith
<1>4. CASE n > 0 /\ n < m
  <2>1. \A k \in 1..n : k \in 1..m - 1
    BY <1>1, <1>4
  <2>2. \A k \in 1..n : other[k] = left[k]
    BY <2>1 DEF StartsWith
  <2>3. \A k \in 1..n - 1 : other[k] = path[k]
    <3>1. \A k \in 1..n - 1 : k \in 1..n /\ left[k] = path[k]
      BY <1>1 DEF StartsWith
    <3> QED
      BY <2>2, <3>1
  <2>4. n \in 1..n
    BY <1>1, <1>4
  <2>5. other[n] = path[n] \/ <<path[n], other[n]>> \in DOMAIN Rest
    BY <1>4, <2>2, <2>4 DEF StartsWith
  <2> QED
    BY <1>2, <2>3, <2>5 DEF StartsWith
<1>5. CASE n > 0 /\ n = m
  <2>1. \A k \in 1..n - 1 : other[k] = path[k]
    BY <1>1, <1>5 DEF StartsWith
  <2>2. path[n] \in Name /\ other[n] \in Name /\ left[n] \in Name
    BY <1>1, <1>5 DEF StartsWith
  <2>3. ~(Size[path[n]] > Size[other[n]])
    BY <1>1, <1>5, EmptyIsShort DEF Longer
  <2>4. \A k, l \in Name : <<k, l>> \in DOMAIN Rest => Size[k] \in Nat /\ Size[l] \in Nat
                                                     /\ Size[k] < Size[l]
    BY RestIsLonger
  <2>5. path[n] = left[n] \/ <<path[n], left[n]>> \in DOMAIN Rest
    BY <1>1, <1>5 DEF StartsWith
  <2>6. other[n] = left[n] \/ <<other[n], left[n]>> \in DOMAIN Rest
    BY <1>1, <1>5 DEF StartsWith
  <2>7. other[n] = path[n] \/ <<path[n], other[n]>> \in DOMAIN Rest
    <3>1. CASE other[n] = left[n]
      BY <2>5, <3>1
    <3>2. CASE other[n] # left[n] /\ path[n] = left[n]
      <4>1. Size[other[n]] < Size[path[n]]
        BY <2>2, <2>4, <2>6, <3>2
      <4> QED
        BY <2>2, <2>3, <2>4, <4>1
    <3>3. CASE other[n] # left[n] /\ path[n] # left[n]
      <4>1. path[n] = other[n] \/ <<path[n], other[n]>> \in DOMAIN Rest
            \/ <<other[n], path[n]>> \in DOMAIN Rest
        BY <2>2, <2>5, <2>6, <3>3, RestAssumption
      <4>2. <<other[n], path[n]>> \in DOMAIN Rest => Size[other[n]] < Size[path[n]]
        BY <2>2, <2>4
      <4> QED
        BY <2>2, <2>3, <2>4, <4>1, <4>2
    <3> QED
      BY <3>1, <3>2, <3>3
  <2> QED
    BY <1>1, <1>5, <2>1, <2>7 DEF StartsWith
<1> QED
  BY <1>1, <1>2, <1>3, <1>4, <1>5

(* Paths that start with each other are equal.                             *)
LEMMA StartsWithEachOther ==
  ASSUME NEW path \in Path, NEW other \in Path,
         StartsWith(path, other), StartsWith(other, path)
  PROVE  path = other
<1> DEFINE n == Len(path)
<1>1. path \in Seq(Name) /\ other \in Seq(Name) /\ n \in Nat /\ Len(other) = n
  BY PathIsSeq DEF StartsWith
<1>2. CASE n = 0
  BY <1>1, <1>2
<1>3. CASE n > 0
  <2>1. \A k \in 1..n - 1 : path[k] = other[k]
    BY <1>1 DEF StartsWith
  <2>2. path[n] \in Name /\ other[n] \in Name
    BY <1>1, <1>3
  <2>3. path[n] = other[n] \/ <<path[n], other[n]>> \in DOMAIN Rest
    BY <1>1, <1>3 DEF StartsWith
  <2>4. other[n] = path[n] \/ <<other[n], path[n]>> \in DOMAIN Rest
    BY <1>1, <1>3 DEF StartsWith
  <2>5. \A k, l \in Name : <<k, l>> \in DOMAIN Rest => Size[k] \in Nat /\ Size[l] \in Nat
                                                     /\ Size[k] < Size[l]
    BY RestIsLonger
  <2>6. path[n] = other[n]
    BY <2>2, <2>3, <2>4, <2>5
  <2>7. \A k \in 1..n : path[k] = other[k]
    BY <1>1, <1>3, <2>1, <2>6
  <2> QED
    BY <1>1, <2>7
<1> QED
  BY <1>1, <1>2, <1>3

-----------------------------------------------------------------------------
(* Trees of mount points.                                                  *)
Entry == [path : Path, filesystem : FileSystem, children : Seq(Point)]
Kids(t, p) == ToSet(t[p].children)
Closed(t, S) == \A p \in S : Kids(t, p) \subseteq S

(* Everybody but the root is a child once, nobody is cut off from the      *)
(* root, and siblings have paths that differ and are not empty.            *)
Tree(t) ==
  /\ DOMAIN t \subseteq Point /\ Root \in DOMAIN t
  /\ \A p \in DOMAIN t : t[p] \in Entry /\ Kids(t, p) \subseteq DOMAIN t \ {Root}
  /\ \A p, q \in DOMAIN t : \A j \in DOMAIN t[p].children, k \in DOMAIN t[q].children :
       t[p].children[j] = t[q].children[k] => p = q /\ j = k
  /\ \A S \in SUBSET DOMAIN t : Root \in S /\ Closed(t, S) => S = DOMAIN t
  /\ \A p \in DOMAIN t : \A c, d \in Kids(t, p) :
       t[c].path # <<>> /\ (t[c].path = t[d].path => c = d)

(* The children are of one parent, and everybody else has one.             *)
LEMMA OneParent ==
  ASSUME NEW t, Tree(t), NEW p \in DOMAIN t, NEW q \in DOMAIN t,
         NEW c \in Kids(t, p), c \in Kids(t, q)
  PROVE  p = q
<1>1. PICK j \in DOMAIN t[p].children : t[p].children[j] = c
  BY DEF Kids, ToSet
<1>2. PICK k \in DOMAIN t[q].children : t[q].children[k] = c
  BY DEF Kids, ToSet
<1>3. t[p].children[j] = t[q].children[k]
  BY <1>1, <1>2
<1> QED
  BY <1>3 DEF Tree

LEMMA HasParent ==
  ASSUME NEW t, Tree(t), NEW c \in DOMAIN t, c # Root
  PROVE  \E p \in DOMAIN t : c \in Kids(t, p)
<1> SUFFICES ASSUME \A p \in DOMAIN t : c \notin Kids(t, p) PROVE FALSE
  OBVIOUS
<1> DEFINE S == DOMAIN t \ {c}
<1>1. Closed(t, S)
  BY DEF Closed, Tree
<1>2. S \in SUBSET DOMAIN t /\ Root \in S
  BY DEF Tree
<1>3. S = DOMAIN t
  BY <1>1, <1>2, Zenon DEF Tree
<1> QED
  BY <1>3

(* What a tree says of one mount point.                                    *)
LEMMA KidsAreThere ==
  ASSUME NEW t, Tree(t), NEW p \in DOMAIN t
  PROVE  /\ p \in Point /\ t[p].path \in Path /\ t[p].filesystem \in FileSystem
         /\ t[p].children \in Seq(Point) /\ DOMAIN t[p].children = 1..Len(t[p].children)
         /\ Len(t[p].children) \in Nat
         /\ Kids(t, p) \subseteq DOMAIN t \ {Root}
         /\ \A c \in Kids(t, p) :
              c \in DOMAIN t /\ c # Root /\ t[c].path \in Path /\ t[c].path # <<>>
<1>1. t[p] \in Entry /\ p \in Point /\ Kids(t, p) \subseteq DOMAIN t \ {Root}
  BY DEF Tree
<1>2. \A c \in Kids(t, p) : t[c] \in Entry /\ t[c].path # <<>>
  BY <1>1 DEF Tree
<1>3. t[p].children \in Seq(Point)
  BY <1>1 DEF Entry
<1>4. DOMAIN t[p].children = 1..Len(t[p].children) /\ Len(t[p].children) \in Nat
  BY <1>3
<1> QED
  BY <1>1, <1>2, <1>3, <1>4 DEF Entry

-----------------------------------------------------------------------------
(* The child a path leads to.                                              *)
IsBest(t, p, left, c) ==
  /\ c \in Kids(t, p) /\ StartsWith(left, t[c].path)
  /\ \A d \in Kids(t, p) : StartsWith(left, t[d].path) => ~Longer(t[d].path, t[c].path)

NoneMatches(t, p, left) == \A c \in Kids(t, p) : ~StartsWith(left, t[c].path)

(* There is one, unless none matches: among the matching children with the *)
(* most names, the one whose last name has the most bytes.                 *)
LEMMA BestExists ==
  ASSUME NEW t, Tree(t), NEW p \in DOMAIN t, NEW left \in Path, ~NoneMatches(t, p, left)
  PROVE  \E c \in Kids(t, p) : IsBest(t, p, left, c)
<1> DEFINE M == {c \in Kids(t, p) : StartsWith(left, t[c].path)}
           Names(c) == Len(t[c].path)
           LastName(c) == t[c].path[Names(c)]
<1>1. /\ left \in Seq(Name) /\ Len(left) \in Nat
      /\ \A c \in M : /\ t[c].path \in Seq(Name) /\ t[c].path # <<>>
                       /\ Names(c) \in Nat /\ Names(c) > 0 /\ Names(c) <= Len(left)
  <2> SUFFICES ASSUME NEW c \in M
               PROVE  /\ t[c].path \in Seq(Name) /\ t[c].path # <<>>
                      /\ Names(c) \in Nat /\ Names(c) > 0 /\ Names(c) <= Len(left)
    BY PathIsSeq
  <2>1. t[c].path \in Path /\ t[c].path # <<>> /\ StartsWith(left, t[c].path)
    BY KidsAreThere
  <2> QED
    BY <2>1, PathIsSeq, EmptyIsShort DEF StartsWith
<1>2. M # {}
  BY DEF NoneMatches
<1> HIDE DEF M
<1>3. PICK most \in Nat : /\ \A c \in M : Names(c) <= most
                          /\ \E c \in M : Names(c) = most
  <2> DEFINE D == {Len(left) - Names(c) : c \in M}
  <2>1. D \subseteq Nat /\ D # {}
    BY <1>1, <1>2
  <2>2. PICK x \in D : \A y \in D : x <= y
    <3> HIDE DEF D
    <3> QED
      BY <2>1, LeastNumber
  <2>3. PICK c \in M : x = Len(left) - Names(c)
    OBVIOUS
  <2>4. \A d \in M : Names(d) <= Names(c)
    <3> SUFFICES ASSUME NEW d \in M PROVE Names(d) <= Names(c)
      OBVIOUS
    <3>1. Len(left) - Names(c) <= Len(left) - Names(d)
      BY <2>2, <2>3
    <3> QED
      BY <1>1, <3>1
  <2> QED
    BY <1>1, <2>4
<1> DEFINE L == {c \in M : Names(c) = most}
           bound == Size[left[most]]
<1>4. most > 0 /\ most <= Len(left) /\ left[most] \in Name
  BY <1>1, <1>3
<1>5. \A c \in L : LastName(c) \in Name /\ bound - Size[LastName(c)] \in Nat
                  /\ Size[LastName(c)] \in Nat
  <2> SUFFICES ASSUME NEW c \in L
               PROVE  LastName(c) \in Name /\ bound - Size[LastName(c)] \in Nat
                      /\ Size[LastName(c)] \in Nat
    OBVIOUS
  <2>1. LastName(c) \in Name /\ Names(c) = most
    BY <1>1, <1>4
  <2>2. Size[LastName(c)] \in Nat /\ bound \in Nat
    BY <1>4, <2>1, SizeAssumption
  <2>3. StartsWith(left, t[c].path)
    BY DEF M
  <2>4. LastName(c) = left[most] \/ <<LastName(c), left[most]>> \in DOMAIN Rest
    BY <1>4, <2>1, <2>3 DEF StartsWith
  <2>5. ASSUME <<LastName(c), left[most]>> \in DOMAIN Rest
        PROVE  \E r \in Name : bound = Size[LastName(c)] + Size[r]
    BY <2>5, RestAssumption
  <2>6. \A r \in Name : Size[r] \in Nat
    BY SizeAssumption
  <2> QED
    BY <2>1, <2>2, <2>4, <2>5, <2>6
<1>6. PICK c \in L : \A d \in L : Size[LastName(d)] <= Size[LastName(c)]
  <2> DEFINE D == {bound - Size[LastName(c)] : c \in L}
  <2>1. D \subseteq Nat /\ D # {}
    BY <1>3, <1>5
  <2>2. PICK x \in D : \A y \in D : x <= y
    <3> HIDE DEF D
    <3> QED
      BY <2>1, LeastNumber
  <2>3. PICK c \in L : x = bound - Size[LastName(c)]
    OBVIOUS
  <2>4. ASSUME NEW d \in L PROVE Size[LastName(d)] <= Size[LastName(c)]
    <3>1. bound - Size[LastName(c)] <= bound - Size[LastName(d)]
      BY <2>2, <2>3
    <3>2. bound \in Nat
      BY <1>4, SizeAssumption
    <3> QED
      BY <1>5, <3>1, <3>2, SMTT(20)
  <2> QED
    BY <2>4
<1>7. ASSUME NEW d \in M PROVE ~Longer(t[d].path, t[c].path)
  <2>1. c \in M /\ Names(c) = most /\ Names(d) <= most /\ Names(d) \in Nat
    BY <1>1, <1>3, <1>6
  <2>2. CASE Names(d) < most
    BY <2>1, <2>2 DEF Longer
  <2>3. CASE Names(d) = most
    <3>1. d \in L
      BY <2>3
    <3>2. Size[LastName(d)] <= Size[LastName(c)]
      BY <1>6, <3>1
    <3>3. Size[LastName(d)] \in Nat /\ Size[LastName(c)] \in Nat
      BY <1>5, <3>1
    <3> QED
      BY <2>1, <2>3, <3>2, <3>3 DEF Longer
  <2> QED
    BY <2>1, <2>2, <2>3
<1> QED
  BY <1>6, <1>7 DEF IsBest, M

(* There is only one.                                                      *)
LEMMA BestIsUnique ==
  ASSUME NEW t, Tree(t), NEW p \in DOMAIN t, NEW left \in Path, NEW c, NEW d,
         IsBest(t, p, left, c), IsBest(t, p, left, d)
  PROVE  c = d
<1>1. /\ c \in Kids(t, p) /\ d \in Kids(t, p)
      /\ t[c].path \in Path /\ t[d].path \in Path
      /\ t[c].path # <<>> /\ t[d].path # <<>>
  BY KidsAreThere DEF IsBest
<1>2. StartsWith(t[c].path, t[d].path) /\ StartsWith(t[d].path, t[c].path)
  BY <1>1, PrefixesAreOrdered DEF IsBest
<1>3. t[c].path = t[d].path
  BY <1>1, <1>2, StartsWithEachOther
<1> QED
  BY <1>1, <1>3, Zenon DEF Tree

-----------------------------------------------------------------------------
(* The search.  A state of it, the step to the next and the last one.      *)
State(t) == [point : DOMAIN t, parent : DOMAIN t, left : Path]

Goes(t, a, b) ==
  /\ a.left # <<>> /\ IsBest(t, a.point, a.left, b.point)
  /\ b = [point |-> b.point, parent |-> a.point, left |-> After(a.left, t[b.point].path)]

Stays(t, a) == a.left = <<>> \/ NoneMatches(t, a.point, a.left)

LEMMA GoesOnInTree ==
  ASSUME NEW t, Tree(t), NEW a \in State(t), NEW b, Goes(t, a, b)
  PROVE  /\ b \in State(t) /\ ~Stays(t, a)
         /\ b.point \in Kids(t, a.point) /\ b.point # Root /\ b.parent = a.point
         /\ b.left = After(a.left, t[b.point].path)
         /\ StartsWith(a.left, t[b.point].path)
<1>1. a.point \in DOMAIN t /\ a.left \in Path
  BY DEF State
<1>2. /\ b.point \in Kids(t, a.point) /\ StartsWith(a.left, t[b.point].path)
      /\ a.left # <<>>
      /\ b = [point |-> b.point, parent |-> a.point, left |-> After(a.left, t[b.point].path)]
  BY DEF Goes, IsBest
<1>3. /\ b.point \in DOMAIN t /\ b.point # Root
      /\ t[b.point].path \in Path /\ t[b.point].path # <<>>
  BY <1>1, <1>2, KidsAreThere
<1>4. After(a.left, t[b.point].path) \in Path
  BY <1>1, <1>2, <1>3, AfterIsPath
<1>5. b.parent = a.point /\ b.left = After(a.left, t[b.point].path)
  BY <1>2
<1>6. b \in State(t)
  BY <1>1, <1>2, <1>3, <1>4 DEF State
<1> QED
  BY <1>2, <1>3, <1>5, <1>6 DEF Stays, NoneMatches

LEMMA GoesOneWay ==
  ASSUME NEW t, Tree(t), NEW a \in State(t), NEW b, NEW c, Goes(t, a, b), Goes(t, a, c)
  PROVE  b = c
<1>1. a.point \in DOMAIN t /\ a.left \in Path
  BY DEF State
<1>2. b.point = c.point
  BY <1>1, BestIsUnique DEF Goes
<1> QED
  BY <1>2, Zenon DEF Goes

(* What BestChild finds.                                                   *)
LEMMA BestChildIsBest ==
  ASSUME Tree(points), NEW p \in DOMAIN points, NEW left \in Path
  PROVE  \/ BestChild(p, left) = 0 /\ NoneMatches(points, p, left)
         \/ /\ BestChild(p, left) \in DOMAIN points[p].children
            /\ BestChild(p, left) # 0
            /\ IsBest(points, p, left, points[p].children[BestChild(p, left)])
<1> DEFINE children == points[p].children
           I == {i \in 1..Len(children) : IsBest(points, p, left, children[i])}
<1>1. /\ DOMAIN children = 1..Len(children) /\ Len(children) \in Nat
      /\ \A i \in 1..Len(children) : children[i] \in Kids(points, p)
  BY KidsAreThere DEF Kids, ToSet
<1>2. BestChild(p, left) = IF I # {} THEN Min(I) ELSE 0
  <2> DEFINE matches == {c \in ToSet(children) : StartsWith(left, points[c].path)}
             Test(c) == c \in matches
                        /\ \A d \in matches : ~Longer(points[d].path, points[c].path)
             J == {i \in 1..Len(children) : Test(children[i])}
  <2>1. BestChild(p, left) = IF J # {} THEN Min(J) ELSE 0
    BY Zenon DEF BestChild, SelectInSeq
  <2>2. J = I
    BY <1>1 DEF IsBest, Kids
  <2> QED
    BY <2>1, <2>2
<1>3. CASE I = {}
  <2>1. \A c \in Kids(points, p) : ~IsBest(points, p, left, c)
    BY <1>1, <1>3 DEF Kids, ToSet
  <2> QED
    BY <1>2, <1>3, <2>1, BestExists
<1>4. CASE I # {}
  <2>1. I \subseteq Nat
    BY <1>1
  <2>2. \E x \in I : \A y \in I : x <= y
    <3> HIDE DEF I
    <3> QED
      BY <1>4, <2>1, LeastNumber
  <2>3. Min(I) \in I
    BY <2>2 DEF Min
  <2> QED
    BY <1>1, <1>2, <1>4, <2>3
<1> QED
  BY <1>3, <1>4

(* A round of the code's loop is a step or finds none.                     *)
LEMMA DescendGoes ==
  ASSUME Tree(points), NEW a \in State(points)
  PROVE  \/ Goes(points, a, Descend(a))
         \/ Stays(points, a) /\ Descend(a) = a
<1>1. a.point \in DOMAIN points /\ a.left \in Path
  BY DEF State
<1> DEFINE best  == IF a.left = <<>> THEN 0 ELSE BestChild(a.point, a.left)
           child == points[a.point].children[best]
<1>2. Descend(a) = IF best = 0 THEN a
                   ELSE [point |-> child, parent |-> a.point,
                         left |-> After(a.left, points[child].path)]
  BY DEF Descend
<1>3. CASE best = 0
  BY <1>1, <1>2, <1>3, BestChildIsBest DEF Stays
<1>4. CASE best # 0
  <2>1. a.left # <<>> /\ IsBest(points, a.point, a.left, child)
    BY <1>1, <1>4, BestChildIsBest
  <2> QED
    BY <1>2, <1>4, <2>1 DEF Goes
<1> QED
  BY <1>3, <1>4

(* The states a search for a path passes through.                          *)
Start(path) == [point |-> Root, parent |-> Root, left |-> path]
Follows(t, S) == \A a \in S : \A b \in State(t) : Goes(t, a, b) => b \in S
LeadsFrom(t, a, b) == \A S \in SUBSET State(t) : a \in S /\ Follows(t, S) => b \in S
Leads(t, path, a) == a \in State(t) /\ LeadsFrom(t, Start(path), a)

LEMMA StartIsState ==
  ASSUME NEW t, Tree(t), NEW path \in Path
  PROVE  Start(path) \in State(t)
  BY DEF Start, State, Tree

LEMMA LeadsOn ==
  ASSUME NEW t, Tree(t), NEW path \in Path, NEW a, Leads(t, path, a), NEW b, Goes(t, a, b)
  PROVE  Leads(t, path, b)
<1>1. b \in State(t)
  BY GoesOnInTree DEF Leads
<1> QED
  BY <1>1 DEF Leads, LeadsFrom, Follows

(* It ends in one state only.                                              *)
LEMMA LeadsToOneEnd ==
  ASSUME NEW t, Tree(t), NEW path \in Path, NEW a, NEW b,
         Leads(t, path, a), Stays(t, a), Leads(t, path, b), Stays(t, b)
  PROVE  a = b
<1> DEFINE S == {s \in State(t) : LeadsFrom(t, s, b)}
<1>1. Start(path) \in S
  BY StartIsState DEF Leads
<1>2. ASSUME NEW s \in S, NEW r \in State(t), Goes(t, s, r)
      PROVE  LeadsFrom(t, r, b)
  <2> SUFFICES ASSUME NEW T \in SUBSET State(t), r \in T, Follows(t, T)
               PROVE  b \in T
    BY DEF LeadsFrom
  <2>1. T \cup {s} \in SUBSET State(t)
    OBVIOUS
  <2>2. Follows(t, T \cup {s})
    BY <1>2, GoesOneWay DEF Follows
  <2>3. b \in T \cup {s}
    BY <2>1, <2>2 DEF LeadsFrom
  <2>4. b # s
    BY <1>2, GoesOnInTree
  <2> QED
    BY <2>3, <2>4
<1>3. Follows(t, S)
  BY <1>2 DEF Follows
<1>4. a \in S
  BY <1>1, <1>3 DEF Leads, LeadsFrom
<1>5. {a} \in SUBSET State(t) /\ Follows(t, {a})
  BY GoesOnInTree DEF Leads, Follows
<1> QED
  BY <1>4, <1>5 DEF LeadsFrom

LEMMA LeadsIsState ==
  \A t, path, a : Leads(t, path, a) => a \in State(t)
BY DEF Leads

(* A set with the start of a search and what its members go on to has all  *)
(* the search passes through.                                              *)
LEMMA LeadsWithin ==
  ASSUME NEW t, NEW path, NEW a, Leads(t, path, a),
         NEW S \in SUBSET State(t), Start(path) \in S, Follows(t, S)
  PROVE  a \in S
BY DEF Leads, LeadsFrom

(* The code's walk, as a function of the number of rounds.                 *)
Walk(path, w, n) ==
  /\ w[0] = Start(path)
  /\ \A k \in 1..n : w[k] = Descend(w[k - 1])

LEMMA FindWalks ==
  ASSUME NEW path
  PROVE  /\ Cardinality(Point) \in Nat
         /\ \E w : Walk(path, w, Cardinality(Point)) /\ Find(path) = w[Cardinality(Point)]
<1> DEFINE N == Cardinality(Point)
           Is(w, n) == w = [k \in 0..n |-> IF k = 0 THEN Start(path) ELSE Descend(w[k - 1])]
           T == {n \in 0..N : \E w : Is(w, n)}
<1>1. N \in Nat
  BY PointAssumption, FS_CardinalityType
<1> HIDE DEF N
<1>2. 0 \in T
  <2> DEFINE w == [k \in 0..0 |-> Start(path)]
  <2>1. Is(w, 0)
    OBVIOUS
  <2>2. \E v : Is(v, 0)
    <3> HIDE DEF w, Is
    <3> QED
      BY <2>1
  <2> QED
    BY <1>1, <2>2
<1>3. ASSUME NEW n \in 0..N, n \in T, n < N PROVE n + 1 \in T
  <2>1. PICK w : Is(w, n)
    BY <1>3
  <2> DEFINE v == [k \in 0..n + 1 |-> IF k = n + 1 THEN Descend(w[n]) ELSE w[k]]
             u == [k \in 0..n + 1 |-> IF k = 0 THEN Start(path) ELSE Descend(v[k - 1])]
  <2>2. \A k \in 0..n + 1 : v[k] = u[k]
    <3> SUFFICES ASSUME NEW k \in 0..n + 1 PROVE v[k] = u[k]
      OBVIOUS
    <3>1. CASE k = 0
      BY <2>1, <3>1, <1>1
    <3>2. CASE k \in 1..n
      <4>1. k - 1 \in 0..n /\ k - 1 # n + 1 /\ k # n + 1 /\ k # 0 /\ k \in 0..n
        BY <1>1, <3>2
      <4>2. v[k] = w[k] /\ v[k - 1] = w[k - 1]
        BY <1>1, <4>1
      <4>3. w[k] = Descend(w[k - 1])
        BY <2>1, <4>1
      <4> QED
        BY <4>1, <4>2, <4>3
    <3>3. CASE k = n + 1
      <4>1. k - 1 = n /\ n \in 0..n + 1 /\ n # n + 1 /\ k # 0
        BY <1>1, <3>3
      <4> QED
        BY <3>3, <4>1
    <3> QED
      BY <1>1, <3>1, <3>2, <3>3
  <2>3. v = u
    BY <2>2
  <2>4. Is(v, n + 1)
    BY <2>3
  <2>5. \E f : Is(f, n + 1)
    <3> HIDE DEF v, Is
    <3> QED
      BY <2>4
  <2> QED
    BY <1>1, <1>3, <2>5
<1>4. N \in T
  <2>1. \A n \in 0..N : n \in T => (n < N => n + 1 \in T)
    BY <1>3
  <2> HIDE DEF T
  <2> QED
    BY <1>1, <1>2, <2>1, UpTo
<1>5. \E w : Is(w, N)
  BY <1>4
<1> DEFINE w == CHOOSE f : Is(f, N)
<1>6. Is(w, N)
  BY <1>5
<1>7. Find(path) = w[N]
  BY DEF Find, Start, N
<1> HIDE DEF w
<1>8. Walk(path, w, N)
  BY <1>1, <1>6 DEF Walk
<1> QED
  BY <1>1, <1>7, <1>8 DEF N

(* The code's search is the search: as each step goes to another mount     *)
(* point there are fewer steps than mount points, and the last round finds *)
(* nothing.                                                                *)
LEMMA FindIsTheEnd ==
  ASSUME Tree(points), NEW path \in Path
  PROVE  Leads(points, path, Find(path)) /\ Stays(points, Find(path))
<1> DEFINE N == Cardinality(Point)
<1>1. N \in Nat /\ \E v : Walk(path, v, N) /\ Find(path) = v[N]
  BY FindWalks
<1>2. PICK v : Walk(path, v, N) /\ Find(path) = v[N]
  BY <1>1
<1>3. \A k \in 0..N : Leads(points, path, v[k])
  <2> DEFINE T == {k \in 0..N : Leads(points, path, v[k])}
  <2>1. 0 \in T
    BY <1>1, <1>2, StartIsState DEF Walk, Leads, LeadsFrom
  <2>2. ASSUME NEW k \in 0..N, k \in T, k < N PROVE k + 1 \in T
    <3>1. k + 1 \in 1..N /\ k + 1 \in 0..N /\ (k + 1) - 1 = k
      BY <1>1, <2>2
    <3>2. v[k + 1] = Descend(v[k])
      BY <1>2, <3>1 DEF Walk
    <3>3. v[k] \in State(points) /\ Leads(points, path, v[k])
      BY <2>2, LeadsIsState
    <3>4. Goes(points, v[k], v[k + 1]) \/ v[k + 1] = v[k]
      BY <3>2, <3>3, DescendGoes
    <3> QED
      BY <3>1, <3>3, <3>4, LeadsOn
  <2>3. \A k \in 0..N : k \in T => (k < N => k + 1 \in T)
    BY <2>2
  <2> HIDE DEF T
  <2>4. \A k \in 0..N : k \in T
    BY <1>1, <2>1, <2>3, UpTo
  <2> QED
    BY <2>4 DEF T
<1>4. Stays(points, v[N])
  <2> SUFFICES ASSUME ~Stays(points, v[N]) PROVE FALSE
    OBVIOUS
  <2>1. \A k \in 1..N : Stays(points, v[k - 1]) => Stays(points, v[k])
    <3> SUFFICES ASSUME NEW k \in 1..N, Stays(points, v[k - 1])
                 PROVE  Stays(points, v[k])
      OBVIOUS
    <3>1. k - 1 \in 0..N /\ v[k] = Descend(v[k - 1])
      BY <1>1, <1>2 DEF Walk
    <3>2. v[k - 1] \in State(points)
      BY <1>3, <3>1, LeadsIsState
    <3>3. ~Goes(points, v[k - 1], v[k])
      BY <3>2, GoesOnInTree
    <3> QED
      BY <3>1, <3>2, <3>3, DescendGoes
  <2>2. \A k \in 0..N : ~Stays(points, v[k])
    <3> DEFINE T == {k \in 0..N : ~Stays(points, v[N - k])}
    <3>1. 0 \in T
      BY <1>1
    <3>2. ASSUME NEW k \in 0..N, k \in T, k < N PROVE k + 1 \in T
      <4>1. N - k \in 1..N /\ (N - k) - 1 = N - (k + 1) /\ k + 1 \in 0..N
        BY <1>1, <3>2
      <4> QED
        BY <2>1, <3>2, <4>1
    <3>3. \A k \in 0..N : k \in T => (k < N => k + 1 \in T)
      BY <3>2
    <3> HIDE DEF T
    <3>4. \A k \in 0..N : k \in T
      BY <1>1, <3>1, <3>3, UpTo
    <3>5. \A k \in 0..N : N - k \in 0..N /\ N - (N - k) = k
      BY <1>1
    <3> QED
      BY <3>4, <3>5 DEF T
  <2>3. \A k \in 1..N : Goes(points, v[k - 1], v[k])
    <3> SUFFICES ASSUME NEW k \in 1..N PROVE Goes(points, v[k - 1], v[k])
      OBVIOUS
    <3>1. k - 1 \in 0..N /\ v[k] = Descend(v[k - 1])
      BY <1>1, <1>2 DEF Walk
    <3> QED
      BY <1>3, <2>2, <3>1, DescendGoes, LeadsIsState
  <2> DEFINE at == [k \in 0..N |-> v[k].point]
  <2>4. at \in [0..N -> Point]
    BY <1>3, KidsAreThere, LeadsIsState DEF State
  <2>5. \E j, k \in 0..N : j # k /\ at[j] = at[k]
    <3>1. IsFiniteSet(0..N) /\ Cardinality(0..N) = N + 1
      BY <1>1, FS_Interval
    <3>2. Cardinality(Point) < Cardinality(0..N)
      BY <1>1, <3>1
    <3> HIDE DEF at
    <3> QED
      BY <2>4, <3>1, <3>2, PointAssumption, FS_PigeonHole
  <2> DEFINE R == {j \in 0..N : \E k \in 0..N : j < k /\ v[j].point = v[k].point}
  <2>6. R # {} /\ R \subseteq Nat
    BY <1>1, <2>5
  <2>7. PICK j \in R : \A i \in R : j <= i
    <3> HIDE DEF R
    <3> QED
      BY <2>6, LeastNumber
  <2>8. PICK k \in 0..N : j < k /\ v[j].point = v[k].point
    OBVIOUS
  <2>9. /\ k \in 1..N /\ k - 1 \in 0..N
        /\ v[k].point \in Kids(points, v[k - 1].point) /\ v[k].point # Root
    <3>1. k \in 1..N /\ k - 1 \in 0..N
      BY <1>1, <2>8
    <3> QED
      BY <1>3, <2>3, <3>1, GoesOnInTree, LeadsIsState
  <2>10. CASE j = 0
    BY <1>2, <2>8, <2>9, <2>10 DEF Walk, Start
  <2>11. CASE j # 0
    <3>1. j \in 1..N /\ j - 1 \in 0..N /\ j - 1 < k - 1
      BY <1>1, <2>8, <2>11
    <3>2. v[j].point \in Kids(points, v[j - 1].point)
      BY <1>3, <2>3, <3>1, GoesOnInTree, LeadsIsState
    <3>3. v[j - 1].point = v[k - 1].point
      <4>1. v[j - 1].point \in DOMAIN points /\ v[k - 1].point \in DOMAIN points
        BY <1>3, <2>9, <3>1, LeadsIsState DEF State
      <4> QED
        BY <2>8, <2>9, <3>2, <4>1, OneParent
    <3>4. j - 1 \in R
      BY <2>9, <3>1, <3>3
    <3> QED
      BY <1>1, <2>7, <3>1, <3>4
  <2> QED
    BY <2>10, <2>11
<1>5. N \in 0..N
  BY <1>1
<1> QED
  BY <1>2, <1>3, <1>4, <1>5

-----------------------------------------------------------------------------
(* A mount point more.                                                     *)
Added(t, at, p, path, fs) ==
  [q \in DOMAIN t \cup {p} |->
     IF q = p THEN NewPoint(path, fs)
     ELSE IF q = at THEN [t[q] EXCEPT !.children = Append(@, p)]
     ELSE t[q]]

IsAdded(t, at, p, path, fs, u) ==
  /\ DOMAIN u = DOMAIN t \cup {p}
  /\ u[p].path = path /\ u[p].filesystem = fs /\ u[p].children = <<>>
  /\ Kids(u, p) = {}
  /\ \A q \in DOMAIN t :
       /\ u[q].path = t[q].path /\ u[q].filesystem = t[q].filesystem
       /\ u[q].children = IF q = at THEN Append(t[q].children, p) ELSE t[q].children
       /\ Kids(u, q) = IF q = at THEN Kids(t, q) \cup {p} ELSE Kids(t, q)
  /\ \A q \in DOMAIN u : u[q] \in Entry

LEMMA AddedPoints ==
  ASSUME NEW t, Tree(t), NEW at \in DOMAIN t, NEW p \in Point \ (DOMAIN t \cup {Root}),
         NEW path \in Path, NEW fs \in FileSystem
  PROVE  IsAdded(t, at, p, path, fs, Added(t, at, p, path, fs))
<1> DEFINE u == Added(t, at, p, path, fs)
<1>1. DOMAIN u = DOMAIN t \cup {p} /\ u[p] = NewPoint(path, fs)
  BY DEF Added
<1>2. /\ u[p].path = path /\ u[p].filesystem = fs /\ u[p].children = <<>>
      /\ u[p] \in Entry
  BY <1>1 DEF NewPoint, Entry
<1>3. Kids(u, p) = {}
  BY <1>2 DEF Kids, ToSet
<1>4. ASSUME NEW q \in DOMAIN t
      PROVE  /\ u[q].path = t[q].path /\ u[q].filesystem = t[q].filesystem
             /\ u[q].children = IF q = at THEN Append(t[q].children, p) ELSE t[q].children
             /\ u[q] \in Entry
  <2>1. t[q] \in Entry /\ t[q].children \in Seq(Point)
    BY KidsAreThere DEF Tree
  <2>2. u[q] = IF q = at THEN [t[q] EXCEPT !.children = Append(t[q].children, p)] ELSE t[q]
    BY DEF Added
  <2>3. Append(t[q].children, p) \in Seq(Point)
    BY <2>1, AppendProperties
  <2> QED
    BY <2>1, <2>2, <2>3 DEF Entry
<1>5. ASSUME NEW q \in DOMAIN t
      PROVE  Kids(u, q) = IF q = at THEN Kids(t, q) \cup {p} ELSE Kids(t, q)
  <2>1. CASE q # at
    BY <1>4, <2>1 DEF Kids, ToSet
  <2>2. CASE q = at
    <3> DEFINE s == t[q].children
               n == Len(s)
    <3>1. s \in Seq(Point) /\ n \in Nat /\ DOMAIN s = 1..n
      BY KidsAreThere
    <3>2. /\ Append(s, p) \in Seq(Point) /\ Len(Append(s, p)) = n + 1
          /\ \A i \in 1..n : Append(s, p)[i] = s[i]
          /\ Append(s, p)[n + 1] = p
      BY <3>1, AppendProperties
    <3>3. DOMAIN Append(s, p) = 1..n + 1
      BY <3>2
    <3>4. u[q].children = Append(s, p)
      BY <1>4, <2>2
    <3> HIDE DEF s, n
    <3>5. ToSet(Append(s, p)) = ToSet(s) \cup {p}
      BY <3>1, <3>2, <3>3 DEF ToSet
    <3> QED
      BY <2>2, <3>4, <3>5 DEF Kids, s
  <2> QED
    BY <2>1, <2>2
<1> QED
  BY <1>1, <1>2, <1>3, <1>4, <1>5 DEF IsAdded

LEMMA AddedIsTree ==
  ASSUME NEW t, Tree(t), NEW at \in DOMAIN t, NEW p \in Point \ (DOMAIN t \cup {Root}),
         NEW path \in Path, path # <<>>, NEW fs \in FileSystem,
         \A c \in Kids(t, at) : t[c].path # path
  PROVE  Tree(Added(t, at, p, path, fs))
<1> DEFINE u == Added(t, at, p, path, fs)
<1>0. IsAdded(t, at, p, path, fs, u)
  BY AddedPoints, Zenon
<1> HIDE DEF u
<1>1. /\ DOMAIN u = DOMAIN t \cup {p}
      /\ u[p].path = path /\ u[p].children = <<>> /\ Kids(u, p) = {}
      /\ \A q \in DOMAIN t :
           /\ u[q].path = t[q].path
           /\ u[q].children = IF q = at THEN Append(t[q].children, p) ELSE t[q].children
           /\ Kids(u, q) = IF q = at THEN Kids(t, q) \cup {p} ELSE Kids(t, q)
      /\ \A q \in DOMAIN u : u[q] \in Entry
  BY <1>0, Zenon DEF IsAdded
<1>2. DOMAIN u \subseteq Point /\ Root \in DOMAIN u
  BY <1>1 DEF Tree
<1>3. \A q \in DOMAIN u : u[q] \in Entry /\ Kids(u, q) \subseteq DOMAIN u \ {Root}
  BY <1>1, KidsAreThere
<1>4. ASSUME NEW q \in DOMAIN u, NEW r \in DOMAIN u, NEW j \in DOMAIN u[q].children,
             NEW k \in DOMAIN u[r].children, u[q].children[j] = u[r].children[k]
      PROVE  q = r /\ j = k
  <2>1. ASSUME NEW s \in DOMAIN u, NEW i \in DOMAIN u[s].children
        PROVE  /\ s \in DOMAIN t
               /\ \/ /\ i \in DOMAIN t[s].children
                     /\ u[s].children[i] = t[s].children[i] /\ u[s].children[i] # p
                  \/ /\ s = at /\ i = Len(t[s].children) + 1 /\ u[s].children[i] = p
    <3>1. s \in DOMAIN t
      BY <1>1, <2>1
    <3>2. /\ t[s].children \in Seq(Point) /\ DOMAIN t[s].children = 1..Len(t[s].children)
          /\ Len(t[s].children) \in Nat
          /\ \A h \in DOMAIN t[s].children : t[s].children[h] # p
      BY <3>1, KidsAreThere DEF Kids, ToSet
    <3>3. CASE s # at
      BY <1>1, <2>1, <3>1, <3>2, <3>3
    <3>4. CASE s = at
      <4>1. u[s].children = Append(t[s].children, p)
        BY <1>1, <3>1, <3>4
      <4>2. /\ DOMAIN Append(t[s].children, p) = 1..Len(t[s].children) + 1
            /\ \A h \in 1..Len(t[s].children) : Append(t[s].children, p)[h] = t[s].children[h]
            /\ Append(t[s].children, p)[Len(t[s].children) + 1] = p
        BY <3>2, AppendProperties
      <4>3. i \in 1..Len(t[s].children) \/ i = Len(t[s].children) + 1
        BY <2>1, <3>2, <4>1, <4>2
      <4> QED
        BY <3>1, <3>2, <3>4, <4>1, <4>2, <4>3
    <3> QED
      BY <3>3, <3>4
  <2>2. q \in DOMAIN t /\ r \in DOMAIN t
    BY <2>1
  <2>3. CASE u[q].children[j] = p
    <3>1. \A i \in DOMAIN t[q].children : t[q].children[i] # p
      BY <2>2, KidsAreThere DEF Kids, ToSet
    <3>2. \A i \in DOMAIN t[r].children : t[r].children[i] # p
      BY <2>2, KidsAreThere DEF Kids, ToSet
    <3>3. q = at /\ j = Len(t[q].children) + 1
      BY <2>1, <2>3, <3>1
    <3>4. r = at /\ k = Len(t[r].children) + 1
      BY <1>4, <2>1, <2>3, <3>2, ZenonT(40)
    <3> QED
      BY <3>3, <3>4
  <2>4. CASE u[q].children[j] # p
    <3>1. /\ j \in DOMAIN t[q].children /\ k \in DOMAIN t[r].children
          /\ t[q].children[j] = t[r].children[k]
      BY <1>4, <2>1, <2>4
    <3>2. \A x, y \in DOMAIN t : \A i \in DOMAIN t[x].children, l \in DOMAIN t[y].children :
            t[x].children[i] = t[y].children[l] => x = y /\ i = l
      BY DEF Tree
    <3> QED
      BY <2>2, <3>1, <3>2
  <2> QED
    BY <2>3, <2>4
<1>5. ASSUME NEW S \in SUBSET DOMAIN u, Root \in S, Closed(u, S) PROVE S = DOMAIN u
  <2>1. Closed(t, S \cap DOMAIN t)
    BY <1>1, <1>5, KidsAreThere DEF Closed
  <2>2. Root \in S \cap DOMAIN t
    BY <1>5 DEF Tree
  <2>3. S \cap DOMAIN t \in SUBSET DOMAIN t
    OBVIOUS
  <2>4. S \cap DOMAIN t = DOMAIN t
    BY <2>1, <2>2, <2>3, Zenon DEF Tree
  <2>5. p \in S
    BY <1>1, <1>5, <2>4 DEF Closed
  <2> QED
    BY <1>1, <2>4, <2>5
<1>6. ASSUME NEW q \in DOMAIN u, NEW c \in Kids(u, q), NEW d \in Kids(u, q)
      PROVE  u[c].path # <<>> /\ (u[c].path = u[d].path => c = d)
  <2>1. q \in DOMAIN t
    BY <1>1, <1>6
  <2>2. \A x \in Kids(t, q) : x \in DOMAIN t /\ x # p
    BY <2>1, KidsAreThere
  <2>3. \A x, y \in Kids(t, q) : t[x].path # <<>> /\ (t[x].path = t[y].path => x = y)
    BY <2>1, Zenon DEF Tree
  <2> QED
    BY <1>1, <1>6, <2>1, <2>2, <2>3
<1>7. Tree(u)
  BY <1>2, <1>3, <1>4, <1>5, <1>6, Zenon DEF Tree
<1> QED
  BY <1>7 DEF u

(* No search goes another way for it, if it is where the search for its    *)
(* path ended.                                                             *)
LEMMA AddedHidesNothing ==
  ASSUME NEW t, Tree(t), NEW at \in DOMAIN t, NEW p \in Point \ (DOMAIN t \cup {Root}),
         NEW path \in Path, NEW fs \in FileSystem, NoneMatches(t, at, path),
         NEW a \in State(t), NEW b, Goes(t, a, b)
  PROVE  Goes(Added(t, at, p, path, fs), a, b)
<1> DEFINE u == Added(t, at, p, path, fs)
<1>0. IsAdded(t, at, p, path, fs, u)
  BY AddedPoints, Zenon
<1> HIDE DEF u
<1>1. /\ DOMAIN u = DOMAIN t \cup {p} /\ u[p].path = path
      /\ \A q \in DOMAIN t :
           /\ u[q].path = t[q].path
           /\ Kids(u, q) = IF q = at THEN Kids(t, q) \cup {p} ELSE Kids(t, q)
  BY <1>0, Zenon DEF IsAdded
<1>2. a.point \in DOMAIN t /\ a.left \in Path
  BY DEF State
<1>3. /\ IsBest(t, a.point, a.left, b.point) /\ b.point \in Kids(t, a.point)
      /\ StartsWith(a.left, t[b.point].path)
      /\ b.point \in DOMAIN t /\ t[b.point].path \in Path
  BY <1>2, KidsAreThere DEF Goes, IsBest
<1>4. ASSUME NEW d \in Kids(u, a.point), StartsWith(a.left, u[d].path)
      PROVE  ~Longer(u[d].path, u[b.point].path)
  <2>1. CASE d \in Kids(t, a.point)
    <3>1. d \in DOMAIN t
      BY <1>2, <2>1, KidsAreThere
    <3> QED
      BY <1>1, <1>3, <1>4, <2>1, <3>1 DEF IsBest
  <2>2. CASE d = p /\ a.point = at
    <3>1. StartsWith(a.left, path) /\ u[b.point].path = t[b.point].path
      BY <1>1, <1>3, <1>4, <2>2
    <3>2. ~StartsWith(path, t[b.point].path)
      BY <1>3, <2>2 DEF NoneMatches
    <3>3. Longer(t[b.point].path, path)
      BY <1>2, <1>3, <3>1, <3>2, PrefixesAreOrdered
    <3>4. ~Longer(path, t[b.point].path)
      <4>1. /\ path \in Seq(Name) /\ t[b.point].path \in Seq(Name)
            /\ Len(path) \in Nat /\ Len(t[b.point].path) \in Nat
        BY <1>3, PathIsSeq
      <4>2. ASSUME NEW x \in Path, x # <<>> PROVE Size[x[Len(x)]] \in Nat
        <5>1. x \in Seq(Name) /\ Len(x) \in Nat /\ Len(x) > 0
          BY <4>2, PathIsSeq, EmptyIsShort
        <5>2. x[Len(x)] \in Name
          BY <5>1
        <5> QED
          BY <5>2, SizeAssumption
      <4> QED
        BY <1>3, <3>3, <4>1, <4>2 DEF Longer
    <3> QED
      BY <1>1, <2>2, <3>1, <3>4
  <2> QED
    BY <1>1, <1>2, <2>1, <2>2
<1>5. IsBest(u, a.point, a.left, b.point)
  BY <1>1, <1>2, <1>3, <1>4 DEF IsBest
<1>6. Goes(u, a, b)
  BY <1>1, <1>3, <1>5 DEF Goes
<1> QED
  BY <1>6 DEF u

-----------------------------------------------------------------------------
(* Some mount points less.                                                 *)
Below(t, x) ==
  {p \in DOMAIN t : \A S \in SUBSET DOMAIN t : x \in S /\ Closed(t, S) => p \in S}

LEMMA SubtreeIsBelow ==
  \A x : Subtree(x) = Below(points, x)
<1>1. \A S \in SUBSET DOMAIN points : HasChildren(S) <=> Closed(points, S)
  BY DEF HasChildren, Closed, Kids
<1> QED
  BY <1>1 DEF Subtree, Below

LEMMA BelowIsClosed ==
  ASSUME NEW t, Tree(t), NEW x \in DOMAIN t
  PROVE  x \in Below(t, x) /\ Below(t, x) \subseteq DOMAIN t /\ Closed(t, Below(t, x))
BY KidsAreThere DEF Below, Closed

LEMMA RootIsAboveAll ==
  ASSUME NEW t, Tree(t)
  PROVE  Below(t, Root) = DOMAIN t
<1>1. Root \in Below(t, Root) /\ Below(t, Root) \in SUBSET DOMAIN t
      /\ Closed(t, Below(t, Root))
  BY BelowIsClosed DEF Tree
<1> QED
  BY <1>1, Zenon DEF Tree

(* Only its own parent lists a mount point below another that is not.      *)
LEMMA BelowIsCutOff ==
  ASSUME NEW t, Tree(t), NEW at \in DOMAIN t, NEW x \in Kids(t, at)
  PROVE  /\ Root \notin Below(t, x) /\ at \notin Below(t, x)
         /\ \A q \in DOMAIN t \ Below(t, x) : \A c \in Kids(t, q) :
              c \in Below(t, x) => c = x /\ q = at
<1> DEFINE G == Below(t, x)
<1>1. x \in DOMAIN t /\ x # Root
  BY KidsAreThere
<1>2. x \in G /\ G \subseteq DOMAIN t /\ Closed(t, G)
  BY <1>1, BelowIsClosed
<1>3. \A S \in SUBSET DOMAIN t : x \in S /\ Closed(t, S) => G \subseteq S
  BY DEF Below
<1> HIDE DEF G
<1>4. Root \notin G
  <2>1. Closed(t, DOMAIN t \ {Root})
    BY KidsAreThere DEF Closed
  <2>2. DOMAIN t \ {Root} \in SUBSET DOMAIN t /\ x \in DOMAIN t \ {Root}
    BY <1>1
  <2>3. G \subseteq DOMAIN t \ {Root}
    BY <1>3, <2>1, <2>2
  <2> QED
    BY <2>3
<1>5. ASSUME NEW q \in DOMAIN t \ G, NEW c \in Kids(t, q), c \in G
      PROVE  c = x /\ q = at
  <2>1. CASE c = x
    BY <1>5, <2>1, OneParent
  <2>2. CASE c # x
    <3>1. Closed(t, G \ {c})
      <4> SUFFICES ASSUME NEW p \in G \ {c}, NEW d \in Kids(t, p) PROVE d \in G \ {c}
        BY DEF Closed
      <4>1. d \in G /\ p # q
        BY <1>2 DEF Closed
      <4>2. d # c
        BY <1>2, <1>5, <4>1, OneParent
      <4> QED
        BY <4>1, <4>2
    <3>2. G \ {c} \in SUBSET DOMAIN t /\ x \in G \ {c}
      BY <1>2, <2>2
    <3>3. G \subseteq G \ {c}
      BY <1>3, <3>1, <3>2
    <3> QED
      BY <1>5, <3>3
  <2> QED
    BY <2>1, <2>2
<1>6. at \notin G
  <2> SUFFICES ASSUME at \in G PROVE FALSE
    OBVIOUS
  <2>1. Closed(t, DOMAIN t \ G)
    BY <1>5, KidsAreThere DEF Closed
  <2>2. DOMAIN t \ G \in SUBSET DOMAIN t /\ Root \in DOMAIN t \ G
    BY <1>4 DEF Tree
  <2>3. DOMAIN t \ G = DOMAIN t
    BY <2>1, <2>2, Zenon DEF Tree
  <2> QED
    BY <2>3
<1> QED
  BY <1>4, <1>5, <1>6 DEF G

(* What removing an element of a list leaves: the order of the others.     *)
LEMMA RemoveAtKeepsOthers ==
  ASSUME NEW S, NEW s \in Seq(S), NEW k \in 1..Len(s)
  PROVE  /\ RemoveAt(s, k) \in Seq(S)
         /\ Len(RemoveAt(s, k)) = Len(s) - 1
         /\ \A i \in 1..Len(s) - 1 :
              RemoveAt(s, k)[i] = s[IF i < k THEN i ELSE i + 1]
<1> DEFINE left  == SubSeq(s, 1, k - 1)
           right == SubSeq(s, k + 1, Len(s))
<1>0. Len(s) \in Nat
  BY LenProperties
<1>1. /\ left \in Seq(S) /\ Len(left) = k - 1
      /\ \A i \in 1..k - 1 : left[i] = s[i]
  BY SubSeqProperties, LenProperties
<1>2. /\ right \in Seq(S) /\ Len(right) = Len(s) - k
      /\ \A i \in 1..Len(s) - k : right[i] = s[k + i]
  BY SubSeqProperties, LenProperties
<1>3. RemoveAt(s, k) = left \o right
  BY DEF RemoveAt
<1> HIDE DEF left, right
<1>4. /\ left \o right \in Seq(S)
      /\ Len(left \o right) = Len(left) + Len(right)
      /\ \A i \in 1..Len(left) + Len(right) :
           (left \o right)[i] = IF i =< Len(left) THEN left[i] ELSE right[i - Len(left)]
  BY <1>1, <1>2, ConcatProperties
<1>5. Len(left) + Len(right) = Len(s) - 1
  BY <1>0, <1>1, <1>2
<1>6. ASSUME NEW i \in 1..Len(s) - 1
      PROVE  (left \o right)[i] = s[IF i < k THEN i ELSE i + 1]
  <2>1. CASE i < k
    BY <1>0, <1>1, <1>4, <1>5, <2>1
  <2>2. CASE ~(i < k)
    <3>1. i - (k - 1) \in 1..Len(s) - k /\ k + (i - (k - 1)) = i + 1
      BY <1>0, <2>2
    <3>2. (left \o right)[i] = right[i - (k - 1)]
      BY <1>0, <1>1, <1>4, <1>5, <2>2
    <3>3. QED
      BY <1>2, <2>2, <3>1, <3>2
  <2>3. QED
    BY <2>1, <2>2
<1>7. QED
  BY <1>3, <1>4, <1>5, <1>6

Removed(t, at, k, gone) ==
  [q \in DOMAIN t \ gone |->
     IF q = at THEN [t[q] EXCEPT !.children = RemoveAt(@, k)] ELSE t[q]]

IsRemoved(t, at, k, gone, u) ==
  /\ DOMAIN u = DOMAIN t \ gone
  /\ \A q \in DOMAIN u :
       /\ u[q] \in Entry /\ u[q].path = t[q].path /\ u[q].filesystem = t[q].filesystem
       /\ Kids(u, q) = Kids(t, q) \ {t[at].children[k]}
       /\ \A i \in DOMAIN u[q].children :
            \E j \in DOMAIN t[q].children :
              /\ j = IF q = at /\ i >= k THEN i + 1 ELSE i
              /\ u[q].children[i] = t[q].children[j]

LEMMA RemovedPoints ==
  ASSUME NEW t, Tree(t), NEW at \in DOMAIN t, NEW k \in DOMAIN t[at].children
  PROVE  LET gone == Below(t, t[at].children[k])
         IN  IsRemoved(t, at, k, gone, Removed(t, at, k, gone))
<1> DEFINE x == t[at].children[k]
           gone == Below(t, x)
           u == Removed(t, at, k, gone)
<1>1. x \in Kids(t, at)
  BY DEF Kids, ToSet
<1>2. DOMAIN u = DOMAIN t \ gone
  BY DEF Removed
<1>3. ASSUME NEW q \in DOMAIN u
      PROVE  /\ u[q] \in Entry /\ u[q].path = t[q].path
             /\ u[q].filesystem = t[q].filesystem
             /\ Kids(u, q) = Kids(t, q) \ {x}
             /\ \A i \in DOMAIN u[q].children :
                  \E j \in DOMAIN t[q].children :
                    /\ j = IF q = at /\ i >= k THEN i + 1 ELSE i
                    /\ u[q].children[i] = t[q].children[j]
  <2>1. /\ q \in DOMAIN t
        /\ u[q] = IF q = at THEN [t[q] EXCEPT !.children = RemoveAt(t[q].children, k)]
                  ELSE t[q]
    BY <1>2 DEF Removed
  <2> HIDE DEF u
  <2>2. CASE q # at
    <3>1. u[q] = t[q] /\ u[q] \in Entry
      BY <2>1, <2>2 DEF Tree
    <3>2. x \notin Kids(t, q)
      BY <1>1, <2>1, <2>2, OneParent
    <3> QED
      BY <2>2, <3>1, <3>2 DEF Kids
  <2>3. CASE q = at
    <3> DEFINE s == t[q].children
               n == Len(s)
    <3>1. /\ t[q] \in Entry /\ s \in Seq(Point) /\ n \in Nat /\ DOMAIN s = 1..n
          /\ k \in 1..n /\ s[k] = x
      BY <2>1, <2>3, KidsAreThere DEF Tree
    <3>2. \A i, j \in 1..n : s[i] = s[j] => i = j
      BY <2>1, <3>1 DEF Tree
    <3>3. u[q] = [t[q] EXCEPT !.children = RemoveAt(s, k)]
      BY <2>1, <2>3
    <3>4. ToSet(s) = Kids(t, q)
      BY DEF Kids
    <3>5. s = t[q].children
      OBVIOUS
    <3> HIDE DEF s, n, x
    <3>6. /\ RemoveAt(s, k) \in Seq(Point) /\ DOMAIN RemoveAt(s, k) = 1..n - 1
          /\ \A i \in 1..n - 1 : RemoveAt(s, k)[i] = s[IF i < k THEN i ELSE i + 1]
      <4>1. /\ RemoveAt(s, k) \in Seq(Point) /\ Len(RemoveAt(s, k)) = n - 1
            /\ \A i \in 1..n - 1 : RemoveAt(s, k)[i] = s[IF i < k THEN i ELSE i + 1]
        BY <3>1, RemoveAtKeepsOthers DEF n
      <4> QED
        BY <4>1
    <3>7. u[q] \in Entry /\ u[q].path = t[q].path /\ u[q].filesystem = t[q].filesystem
          /\ u[q].children = RemoveAt(s, k)
      BY <3>1, <3>3, <3>6 DEF Entry
    <3>8. ToSet(RemoveAt(s, k)) = ToSet(s) \ {x}
      <4>1. ASSUME NEW i \in 1..n - 1
            PROVE  RemoveAt(s, k)[i] \in ToSet(s) \ {x}
        <5>1. (IF i < k THEN i ELSE i + 1) \in 1..n /\ (IF i < k THEN i ELSE i + 1) # k
          BY <3>1
        <5> QED
          BY <3>1, <3>2, <3>6, <5>1 DEF ToSet
      <4>2. ASSUME NEW j \in 1..n, s[j] # x
            PROVE  \E i \in 1..n - 1 : RemoveAt(s, k)[i] = s[j]
        <5>1. CASE j < k
          <6>1. j \in 1..n - 1
            BY <3>1, <5>1
          <6> QED
            BY <3>6, <5>1, <6>1
        <5>2. CASE j > k
          <6>1. j - 1 \in 1..n - 1 /\ ~(j - 1 < k) /\ (j - 1) + 1 = j
            BY <3>1, <5>2
          <6> QED
            BY <3>6, <6>1
        <5>3. j # k
          BY <3>1, <4>2
        <5> QED
          BY <3>1, <5>1, <5>2, <5>3
      <4>3. /\ ToSet(RemoveAt(s, k)) = {RemoveAt(s, k)[i] : i \in 1..n - 1}
            /\ ToSet(s) = {s[j] : j \in 1..n}
        BY <3>1, <3>6 DEF ToSet
      <4>4. ToSet(s) \ {x} \subseteq ToSet(RemoveAt(s, k))
        BY <4>2, <4>3
      <4>5. ToSet(RemoveAt(s, k)) \subseteq ToSet(s) \ {x}
        BY <4>1, <4>3
      <4> QED
        BY <4>4, <4>5
    <3>9. ASSUME NEW i \in 1..n - 1
          PROVE  \E j \in 1..n : /\ j = IF q = at /\ i >= k THEN i + 1 ELSE i
                                 /\ RemoveAt(s, k)[i] = s[j]
      <4>1. CASE i >= k
        <5>1. i + 1 \in 1..n /\ ~(i < k)
          BY <3>1, <4>1
        <5> QED
          BY <2>3, <3>6, <4>1, <5>1
      <4>2. CASE ~(i >= k)
        <5>1. i \in 1..n /\ i < k
          BY <3>1, <4>2
        <5> QED
          BY <3>6, <4>2, <5>1
      <4> QED
        BY <4>1, <4>2
    <3> QED
      BY <3>1, <3>4, <3>5, <3>6, <3>7, <3>8, <3>9 DEF Kids
  <2> QED
    BY <2>2, <2>3
<1> QED
  BY <1>2, <1>3 DEF IsRemoved

LEMMA RemovedIsTree ==
  ASSUME NEW t, Tree(t), NEW at \in DOMAIN t, NEW k \in DOMAIN t[at].children
  PROVE  Tree(Removed(t, at, k, Below(t, t[at].children[k])))
<1> DEFINE x == t[at].children[k]
           gone == Below(t, x)
           u == Removed(t, at, k, gone)
<1>1. x \in Kids(t, at)
  BY DEF Kids, ToSet
<1>2. /\ x \in gone /\ gone \subseteq DOMAIN t /\ Closed(t, gone)
      /\ Root \notin gone /\ at \notin gone
      /\ \A q \in DOMAIN t \ gone : \A c \in Kids(t, q) : c \in gone => c = x /\ q = at
  BY <1>1, BelowIsClosed, BelowIsCutOff, KidsAreThere
<1>3. IsRemoved(t, at, k, gone, u)
  BY RemovedPoints
<1> HIDE DEF u, gone
<1>4. DOMAIN u = DOMAIN t \ gone
  BY <1>3 DEF IsRemoved
<1>5. \A q \in DOMAIN u : /\ q \in DOMAIN t /\ u[q] \in Entry /\ u[q].path = t[q].path
                          /\ Kids(u, q) = Kids(t, q) \ {x}
  BY <1>3, <1>4 DEF IsRemoved
<1> HIDE DEF x
<1>6. DOMAIN u \subseteq Point /\ Root \in DOMAIN u
  BY <1>2, <1>4 DEF Tree
<1>7. \A q \in DOMAIN u : u[q] \in Entry /\ Kids(u, q) \subseteq DOMAIN u \ {Root}
  BY <1>2, <1>4, <1>5, KidsAreThere
<1>8. ASSUME NEW q \in DOMAIN u, NEW r \in DOMAIN u, NEW i \in DOMAIN u[q].children,
             NEW l \in DOMAIN u[r].children, u[q].children[i] = u[r].children[l]
      PROVE  q = r /\ i = l
  <2>1. PICK i0 \in DOMAIN t[q].children :
          /\ i0 = IF q = at /\ i >= k THEN i + 1 ELSE i
          /\ u[q].children[i] = t[q].children[i0]
    BY <1>3 DEF IsRemoved
  <2>2. PICK l0 \in DOMAIN t[r].children :
          /\ l0 = IF r = at /\ l >= k THEN l + 1 ELSE l
          /\ u[r].children[l] = t[r].children[l0]
    BY <1>3 DEF IsRemoved
  <2>3. \A y, z \in DOMAIN t : \A m \in DOMAIN t[y].children, n \in DOMAIN t[z].children :
          t[y].children[m] = t[z].children[n] => y = z /\ m = n
    BY DEF Tree
  <2>4. q = r /\ i0 = l0
    <3>1. q \in DOMAIN t /\ r \in DOMAIN t
      BY <1>5
    <3>2. t[q].children[i0] = t[r].children[l0]
      BY <1>8, <2>1, <2>2
    <3> QED
      BY <2>3, <3>1, <3>2
  <2>5. i \in Nat /\ l \in Nat /\ k \in Nat
    <3>1. \A y \in DOMAIN u : DOMAIN u[y].children \subseteq Nat
      BY <1>7 DEF Entry
    <3> QED
      BY <3>1, KidsAreThere
  <2> QED
    BY <2>1, <2>2, <2>4, <2>5
<1>9. ASSUME NEW S \in SUBSET DOMAIN u, Root \in S, Closed(u, S) PROVE S = DOMAIN u
  <2>1. Closed(t, S \cup gone)
    BY <1>2, <1>5, <1>9 DEF Closed
  <2>2. S \cup gone \in SUBSET DOMAIN t /\ Root \in S \cup gone
    BY <1>2, <1>4, <1>9
  <2>3. S \cup gone = DOMAIN t
    BY <2>1, <2>2, Zenon DEF Tree
  <2> QED
    BY <1>4, <2>3
<1>10. ASSUME NEW q \in DOMAIN u, NEW c \in Kids(u, q), NEW d \in Kids(u, q)
       PROVE  u[c].path # <<>> /\ (u[c].path = u[d].path => c = d)
  <2>1. c \in DOMAIN u /\ d \in DOMAIN u /\ c \in Kids(t, q) /\ d \in Kids(t, q)
    BY <1>5, <1>7
  <2>2. \A y, z \in Kids(t, q) : t[y].path # <<>> /\ (t[y].path = t[z].path => y = z)
    BY <1>5, Zenon DEF Tree
  <2> QED
    BY <1>5, <2>1, <2>2
<1>11. Tree(u)
  BY <1>6, <1>7, <1>8, <1>9, <1>10, Zenon DEF Tree
<1> QED
  BY <1>11 DEF u, gone, x

-----------------------------------------------------------------------------
(* A path leads to a mount point when the search ends there with nothing   *)
(* left of it.                                                             *)
LeadsTo(t, path, p) ==
  \E a : Leads(t, path, a) /\ a.point = p /\ a.left = <<>>

(* The inductive invariant.                                                *)
Owned ==
  /\ DOMAIN points = {} \/ Tree(points)
  /\ alive = {points[p].filesystem : p \in DOMAIN points}
  /\ \A p, q \in DOMAIN points :
       p # q => points[p].filesystem # points[q].filesystem

Known ==
  /\ given \in [Point -> Path]
  /\ \A p \in DOMAIN points : LeadsTo(points, given[p], p)
  /\ \A p \in Point \ DOMAIN points : given[p] = <<>>

IInv == Owned /\ Known

LEMMA TreeHasRoot ==
  ASSUME Owned
  PROVE  (Root \in DOMAIN points <=> Tree(points))
         /\ (Root \notin DOMAIN points => DOMAIN points = {})
BY DEF Owned, Tree

LEMMA FindsOne ==
  ASSUME Owned, Root \in DOMAIN points, NEW path \in Path
  PROVE  /\ Tree(points) /\ Find(path) \in State(points)
         /\ Find(path).point \in DOMAIN points /\ Find(path).parent \in DOMAIN points
         /\ Find(path).left \in Path
         /\ Leads(points, path, Find(path)) /\ Stays(points, Find(path))
<1>1. Tree(points)
  BY TreeHasRoot
<1>2. Leads(points, path, Find(path)) /\ Stays(points, Find(path))
  BY <1>1, FindIsTheEnd
<1>3. Find(path) \in State(points)
  BY <1>2, LeadsIsState
<1> QED
  BY <1>1, <1>2, <1>3 DEF State

(* What a path leads to is what is found under it.                         *)
LEMMA LedToIsFound ==
  ASSUME Tree(points), NEW path \in Path, NEW p, LeadsTo(points, path, p)
  PROVE  Find(path).point = p /\ Find(path).left = <<>>
<1>1. PICK a : Leads(points, path, a) /\ a.point = p /\ a.left = <<>>
  BY DEF LeadsTo
<1>2. Stays(points, a)
  BY <1>1 DEF Stays
<1>3. Find(path) = a
  BY <1>1, <1>2, FindIsTheEnd, LeadsToOneEnd
<1> QED
  BY <1>1, <1>3

(* The search notes the parent of the mount point it is at.                *)
LEMMA ParentListsIt ==
  ASSUME NEW t, Tree(t), NEW path \in Path, NEW a, Leads(t, path, a), a.point # Root
  PROVE  a.point \in Kids(t, a.parent) /\ a.parent \in DOMAIN t
<1> DEFINE S == {b \in State(t) : b.point = Root \/ b.point \in Kids(t, b.parent)}
<1>1. Start(path) \in S
  BY StartIsState DEF Start
<1>2. Follows(t, S)
  BY GoesOnInTree DEF Follows
<1>3. a \in S
  BY <1>1, <1>2, LeadsWithin
<1> QED
  BY <1>3 DEF State

LEMMA RootIsTree ==
  ASSUME NEW fs \in FileSystem
  PROVE  LET t == [p \in {Root} |-> NewPoint(<<>>, fs)]
         IN  Tree(t) /\ LeadsTo(t, <<>>, Root)
<1> DEFINE t == [p \in {Root} |-> NewPoint(<<>>, fs)]
<1>1. /\ DOMAIN t = {Root} /\ t[Root].children = <<>>
      /\ t[Root] = [path |-> <<>>, filesystem |-> fs, children |-> <<>>]
  BY DEF NewPoint
<1> HIDE DEF t
<1>2. t[Root] \in Entry
  BY <1>1, EmptyIsShort DEF Entry
<1>3. Kids(t, Root) = {}
  BY <1>1 DEF Kids, ToSet
<1>4. \A S \in SUBSET DOMAIN t : Root \in S => S = DOMAIN t
  BY <1>1
<1>5. Tree(t)
  <2>1. DOMAIN t[Root].children = {}
    BY <1>1
  <2> QED
    BY <1>1, <1>2, <1>3, <1>4, <2>1, RootAssumption DEF Tree
<1>6. LeadsTo(t, <<>>, Root)
  <2>1. Leads(t, <<>>, Start(<<>>))
    BY <1>5, StartIsState, EmptyIsShort DEF Leads, LeadsFrom
  <2>2. Start(<<>>).point = Root /\ Start(<<>>).left = <<>>
    BY DEF Start
  <2> QED
    BY <2>1, <2>2 DEF LeadsTo
<1> QED
  BY <1>5, <1>6 DEF t

(* A new mount point is found and the others are still.                    *)
LEMMA AddedLeads ==
  ASSUME NEW t, Tree(t), NEW at \in DOMAIN t, NEW p \in Point \ (DOMAIN t \cup {Root}),
         NEW left \in Path, left # <<>>, NEW fs \in FileSystem, NoneMatches(t, at, left),
         NEW path \in Path
  PROVE  LET u == Added(t, at, p, left, fs)
         IN  /\ \A a : Leads(t, path, a) => Leads(u, path, a)
             /\ \A q : LeadsTo(t, path, q) => LeadsTo(u, path, q)
             /\ \A a : Leads(t, path, a) /\ a.point = at /\ a.left = left
                       => LeadsTo(u, path, p)
<1> DEFINE u == Added(t, at, p, left, fs)
<1>0. /\ IsAdded(t, at, p, left, fs, u)
      /\ \A a \in State(t) : \A b : Goes(t, a, b) => Goes(u, a, b)
  BY AddedPoints, AddedHidesNothing
<1> HIDE DEF u
<1>1. State(t) \subseteq State(u)
  BY <1>0 DEF State, IsAdded
<1>2. ASSUME NEW a, Leads(t, path, a) PROVE Leads(u, path, a)
  <2>1. a \in State(u)
    BY <1>1, <1>2, LeadsIsState
  <2> SUFFICES ASSUME NEW S \in SUBSET State(u), Start(path) \in S, Follows(u, S)
               PROVE  a \in S
    BY <2>1 DEF Leads, LeadsFrom
  <2>2. Follows(t, S \cap State(t))
    BY <1>0, <1>1 DEF Follows
  <2>3. Start(path) \in S \cap State(t)
    BY StartIsState
  <2>4. S \cap State(t) \in SUBSET State(t)
    OBVIOUS
  <2>5. a \in S \cap State(t)
    BY <1>2, <2>2, <2>3, <2>4, LeadsWithin
  <2> QED
    BY <2>5
<1>3. ASSUME NEW a, Leads(t, path, a), a.point = at, a.left = left
      PROVE  LeadsTo(u, path, p)
  <2> DEFINE b == [point |-> p, parent |-> at, left |-> <<>>]
  <2>1. /\ Kids(u, at) = Kids(t, at) \cup {p} /\ u[p].path = left
        /\ p \in DOMAIN u /\ at \in DOMAIN u
        /\ \A c \in Kids(t, at) : u[c].path = t[c].path
    BY <1>0, KidsAreThere DEF IsAdded
  <2>2. StartsWith(left, left) /\ After(left, left) = <<>>
    BY AfterItself
  <2>3. ~Longer(left, left)
    <3>1. /\ left \in Seq(Name) /\ Len(left) \in Nat /\ Len(left) > 0
      BY PathIsSeq, EmptyIsShort
    <3>2. left[Len(left)] \in Name
      BY <3>1
    <3>3. Size[left[Len(left)]] \in Nat
      BY <3>2, SizeAssumption
    <3> QED
      BY <3>1, <3>3 DEF Longer
  <2>4. IsBest(u, at, left, p)
    BY <2>1, <2>2, <2>3 DEF IsBest, NoneMatches
  <2>5. Goes(u, a, b)
    BY <1>3, <2>1, <2>2, <2>4 DEF Goes
  <2>6. b \in State(u)
    BY <2>1, EmptyIsShort DEF State
  <2>7. Leads(u, path, a)
    BY <1>2, <1>3
  <2>8. Leads(u, path, b)
    BY <2>5, <2>6, <2>7 DEF Leads, LeadsFrom, Follows
  <2>9. b.point = p /\ b.left = <<>>
    OBVIOUS
  <2> HIDE DEF b
  <2> QED
    BY <2>8, <2>9 DEF LeadsTo
<1>4. \A q : LeadsTo(t, path, q) => LeadsTo(u, path, q)
  BY <1>2 DEF LeadsTo
<1> QED
  BY <1>2, <1>3, <1>4 DEF u

(* A mount point that stays is found as before.                            *)
LEMMA RemovedLeads ==
  ASSUME NEW t, Tree(t), NEW at \in DOMAIN t, NEW k \in DOMAIN t[at].children,
         NEW path \in Path
  PROVE  LET gone == Below(t, t[at].children[k])
         IN  \A p \in DOMAIN t \ gone :
               LeadsTo(t, path, p) => LeadsTo(Removed(t, at, k, gone), path, p)
<1> DEFINE x == t[at].children[k]
           gone == Below(t, x)
           u == Removed(t, at, k, gone)
<1>1. x \in Kids(t, at)
  BY DEF Kids, ToSet
<1>2. /\ x \in gone /\ gone \subseteq DOMAIN t /\ Closed(t, gone) /\ Root \notin gone
      /\ \A q \in DOMAIN t \ gone : \A c \in Kids(t, q) : c \in gone => c = x /\ q = at
  BY <1>1, BelowIsClosed, BelowIsCutOff, KidsAreThere
<1>3. IsRemoved(t, at, k, gone, u)
  BY RemovedPoints
<1> HIDE DEF u, gone
<1>4. DOMAIN u = DOMAIN t \ gone
  BY <1>3 DEF IsRemoved
<1>5. \A q \in DOMAIN u : /\ q \in DOMAIN t /\ u[q].path = t[q].path
                          /\ Kids(u, q) = Kids(t, q) \ {x}
  BY <1>3, <1>4 DEF IsRemoved
<1> HIDE DEF x
<1>6. ASSUME NEW a, Leads(t, path, a), a.point \notin gone
      PROVE  Leads(u, path, a)
  <2> DEFINE In == {b \in State(t) : b.point \in gone}
  <2>1. ASSUME NEW S \in SUBSET State(u), Start(path) \in S, Follows(u, S)
        PROVE  a \in S
    <3>1. S \cup In \in SUBSET State(t)
      BY <1>4 DEF State
    <3>2. ASSUME NEW b \in S \cup In, NEW c \in State(t), Goes(t, b, c)
          PROVE  c \in S \cup In
      <4>1. b \in State(t)
        BY <3>1
      <4>2. /\ c.point \in Kids(t, b.point) /\ c.parent = b.point
            /\ c.left = After(b.left, t[c.point].path)
        BY <3>2, <4>1, GoesOnInTree
      <4>3. CASE b \in In
        BY <1>2, <4>2, <4>3 DEF Closed
      <4>4. CASE b \in S /\ c.point \notin gone
        <5>1. b \in State(u) /\ b.point \in DOMAIN u /\ c.point \in DOMAIN u
          BY <1>4, <4>4 DEF State
        <5>2. /\ u[c.point].path = t[c.point].path
              /\ c.point \in Kids(u, b.point)
          BY <1>2, <1>5, <4>2, <4>4, <5>1
        <5>3. ASSUME NEW d \in Kids(u, b.point)
              PROVE  u[d].path = t[d].path /\ d \in Kids(t, b.point)
          <6>1. d \in Kids(t, b.point) /\ d # x
            BY <1>5, <5>1
          <6>2. d \in DOMAIN u
            BY <1>2, <1>4, <1>5, <5>1, <6>1, KidsAreThere
          <6> QED
            BY <1>5, <6>1, <6>2
        <5>4. IsBest(u, b.point, b.left, c.point)
          BY <3>2, <5>2, <5>3 DEF IsBest, Goes
        <5>5. Goes(u, b, c)
          BY <3>2, <5>2, <5>4 DEF Goes
        <5>6. c \in State(u)
          BY <4>2, <5>1 DEF State
        <5> QED
          BY <2>1, <4>4, <5>5, <5>6 DEF Follows
      <4>5. CASE c.point \in gone
        BY <4>5
      <4> QED
        BY <4>3, <4>4, <4>5
    <3>3. Follows(t, S \cup In)
      BY <3>2 DEF Follows
    <3>4. a \in S \cup In
      BY <1>6, <2>1, <3>1, <3>3, LeadsWithin
    <3> QED
      BY <1>6, <3>4
  <2>2. a \in State(u)
    <3>1. Start(path) \in State(u)
      <4>1. Start(path) \in State(t)
        BY StartIsState
      <4> QED
        BY <1>2, <1>4, <4>1 DEF State, Start
    <3>2. Follows(u, State(u))
      BY DEF Follows
    <3> QED
      BY <2>1, <3>1, <3>2
  <2> QED
    BY <2>1, <2>2 DEF Leads, LeadsFrom
<1>7. ASSUME NEW p \in DOMAIN t \ gone, LeadsTo(t, path, p) PROVE LeadsTo(u, path, p)
  BY <1>6, <1>7 DEF LeadsTo
<1> QED
  BY <1>7 DEF u, gone, x

-----------------------------------------------------------------------------
(* The steps keep the invariant.                                           *)
LEMMA MountRootKeeps ==
  ASSUME IInv, NEW fs \in FileSystem, MountRoot(fs)
  PROVE  IInv'
<1> DEFINE t == [p \in {Root} |-> NewPoint(<<>>, fs)]
<1>1. /\ Root \notin DOMAIN points /\ points' = t /\ alive' = alive \cup {fs}
      /\ given' = given
  BY DEF MountRoot
<1>2. DOMAIN points = {} /\ alive = {}
  BY <1>1, TreeHasRoot DEF IInv, Owned
<1>3. DOMAIN t = {Root} /\ t[Root].filesystem = fs /\ Tree(t) /\ LeadsTo(t, <<>>, Root)
  BY RootIsTree DEF NewPoint
<1> HIDE DEF t
<1>4. given \in [Point -> Path] /\ \A p \in Point : given[p] = <<>>
  BY <1>2 DEF IInv, Known
<1>5. Owned'
  BY <1>1, <1>2, <1>3 DEF Owned
<1>6. Known'
  <2>1. \A p \in DOMAIN points' : LeadsTo(points', given'[p], p)
    BY <1>1, <1>3, <1>4, RootAssumption
  <2> QED
    BY <1>1, <1>4, <2>1 DEF Known
<1> QED
  BY <1>5, <1>6 DEF IInv

LEMMA MountFilesystemKeeps ==
  ASSUME IInv, NEW path \in Path, NEW fs \in FileSystem, MountFilesystem(path, fs)
  PROVE  IInv'
<1> DEFINE f == Find(path)
           at == f.point
           left == f.left
<1>1. /\ Root \in DOMAIN points /\ fs \notin alive /\ left # <<>>
      /\ alive' = alive \cup {fs}
  BY DEF MountFilesystem
<1>2. PICK p \in Point \ (DOMAIN points \cup {Root}) :
        /\ points' = Added(points, at, p, left, fs)
        /\ given' = [given EXCEPT ![p] = path]
  BY DEF MountFilesystem, Added
<1>3. /\ Tree(points) /\ at \in DOMAIN points /\ left \in Path
      /\ Leads(points, path, f) /\ NoneMatches(points, at, left)
  BY <1>1, FindsOne DEF IInv, Stays
<1>4. f.point = at /\ f.left = left
  OBVIOUS
<1> HIDE DEF f, at, left
<1>5. \A c \in Kids(points, at) : points[c].path # left
  BY <1>1, <1>3, AfterItself DEF NoneMatches
<1>6. Tree(points')
  BY <1>1, <1>2, <1>3, <1>5, AddedIsTree
<1>7. IsAdded(points, at, p, left, fs, points')
  BY <1>2, <1>3, AddedPoints
<1>8. Owned'
  <2>1. /\ DOMAIN points' = DOMAIN points \cup {p} /\ points'[p].filesystem = fs
        /\ \A q \in DOMAIN points : points'[q].filesystem = points[q].filesystem
    BY <1>7 DEF IsAdded
  <2>2. /\ alive = {points[q].filesystem : q \in DOMAIN points}
        /\ \A q, r \in DOMAIN points : q # r => points[q].filesystem # points[r].filesystem
    BY DEF IInv, Owned
  <2>3. alive' = {points'[q].filesystem : q \in DOMAIN points'}
    BY <1>1, <2>1, <2>2
  <2>4. \A q \in DOMAIN points : points[q].filesystem # fs
    BY <1>1, <2>2
  <2>5. ASSUME NEW q \in DOMAIN points', NEW r \in DOMAIN points', q # r
        PROVE  points'[q].filesystem # points'[r].filesystem
    BY <2>1, <2>2, <2>4, <2>5
  <2> QED
    BY <1>6, <2>3, <2>5 DEF Owned
<1>9. Known'
  <2>1. /\ given \in [Point -> Path] /\ \A q \in Point \ DOMAIN points : given[q] = <<>>
        /\ \A q \in DOMAIN points : q \in Point /\ LeadsTo(points, given[q], q)
    BY <1>3 DEF IInv, Known, Tree
  <2>2. DOMAIN points' = DOMAIN points \cup {p}
    BY <1>7 DEF IsAdded
  <2>3. /\ given' \in [Point -> Path] /\ given'[p] = path
        /\ \A q \in Point : q # p => given'[q] = given[q]
    BY <1>2, <2>1
  <2>4. ASSUME NEW q \in DOMAIN points PROVE LeadsTo(points', given'[q], q)
    <3>1. given'[q] = given[q] /\ given[q] \in Path /\ LeadsTo(points, given[q], q)
      BY <1>2, <2>1, <2>3
    <3> QED
      BY <1>1, <1>2, <1>3, <3>1, AddedLeads
  <2>5. LeadsTo(points', given'[p], p)
    BY <1>1, <1>2, <1>3, <1>4, <2>3, AddedLeads
  <2>6. \A q \in DOMAIN points' : LeadsTo(points', given'[q], q)
    BY <2>2, <2>4, <2>5
  <2>7. \A q \in Point \ DOMAIN points' : given'[q] = <<>>
    BY <2>1, <2>2, <2>3
  <2> QED
    BY <2>3, <2>6, <2>7 DEF Known
<1> QED
  BY <1>8, <1>9 DEF IInv

(* removeChild finds the mount point that is unmounted.                    *)
LEMMA UmountTakesItOff ==
  ASSUME Tree(points), NEW at \in DOMAIN points, NEW x \in Kids(points, at)
  PROVE  LET Named(c) == points[c].path = points[x].path
             k == SelectInSeq(points[at].children, Named)
         IN  k \in DOMAIN points[at].children /\ points[at].children[k] = x
<1> DEFINE s == points[at].children
           I == {i \in 1..Len(s) : points[s[i]].path = points[x].path}
<1>1. DOMAIN s = 1..Len(s) /\ Len(s) \in Nat
  BY KidsAreThere
<1>2. PICK i \in 1..Len(s) : s[i] = x
  BY <1>1 DEF Kids, ToSet
<1>3. \A c, d \in Kids(points, at) : points[c].path = points[d].path => c = d
  BY DEF Tree
<1>4. \A j \in I : s[j] = x
  BY <1>1, <1>3 DEF Kids, ToSet
<1>5. I # {} /\ I \subseteq Nat
  BY <1>1, <1>2
<1>6. \E j \in I : \A y \in I : j <= y
  <2> HIDE DEF I
  <2> QED
    BY <1>5, LeastNumber
<1>7. Min(I) \in I
  BY <1>6 DEF Min
<1>8. s[Min(I)] = x /\ Min(I) \in DOMAIN s
  BY <1>1, <1>4, <1>7
<1> QED
  BY <1>5, <1>8 DEF SelectInSeq

LEMMA UmountKeeps ==
  ASSUME IInv, NEW path \in Path, Umount(path)
  PROVE  IInv'
<1> DEFINE x == Find(path).point
           at == Find(path).parent
           gone == Below(points, x)
           Named(c) == points[c].path = points[x].path
           k == SelectInSeq(points[at].children, Named)
<1>1. /\ Root \in DOMAIN points
      /\ points' = Removed(points, at, k, gone)
      /\ alive' = alive \ {points[q].filesystem : q \in gone}
      /\ given' = [p \in Point |-> IF p \in gone THEN <<>> ELSE given[p]]
  <2>1. Subtree(x) = gone
    BY SubtreeIsBelow
  <2> QED
    BY <2>1, Zenon DEF Umount, Removed
<1>2. /\ Tree(points) /\ x \in DOMAIN points /\ at \in DOMAIN points
      /\ Leads(points, path, Find(path))
  BY <1>1, FindsOne DEF IInv
<1>3. x \in gone /\ gone \subseteq DOMAIN points
  BY <1>2, BelowIsClosed
<1>4. DOMAIN points' = DOMAIN points \ gone
  BY <1>1 DEF Removed
<1>5. given' \in [Point -> Path]
      /\ \A p \in Point : given'[p] = IF p \in gone THEN <<>> ELSE given[p]
  BY <1>1, EmptyIsShort DEF IInv, Known
<1>6. /\ given \in [Point -> Path] /\ \A q \in Point \ DOMAIN points : given[q] = <<>>
      /\ \A q \in DOMAIN points : q \in Point /\ LeadsTo(points, given[q], q)
  BY <1>2 DEF IInv, Known, Tree
<1>7. \A q \in Point \ DOMAIN points' : given'[q] = <<>>
  BY <1>4, <1>5, <1>6
<1>8. CASE x = Root
  <2>1. DOMAIN points' = {} /\ gone = DOMAIN points
    BY <1>2, <1>4, <1>8, RootIsAboveAll
  <2>2. alive' = {}
    BY <1>1, <2>1 DEF IInv, Owned
  <2>3. Owned'
    BY <2>1, <2>2 DEF Owned
  <2>4. Known'
    BY <1>5, <1>7, <2>1 DEF Known
  <2> QED
    BY <2>3, <2>4 DEF IInv
<1>9. CASE x # Root
  <2>1. x \in Kids(points, at)
    BY <1>2, <1>9, ParentListsIt
  <2>2. k \in DOMAIN points[at].children /\ points[at].children[k] = x
    BY <1>2, <2>1, UmountTakesItOff
  <2> HIDE DEF k, gone
  <2>3. gone = Below(points, points[at].children[k])
    BY <2>2 DEF gone
  <2>4. Tree(points')
    BY <1>1, <1>2, <2>2, <2>3, RemovedIsTree
  <2>5. \A p \in DOMAIN points \ gone : \A q \in Path :
          LeadsTo(points, q, p) => LeadsTo(points', q, p)
    BY <1>1, <1>2, <2>2, <2>3, RemovedLeads
  <2>6. IsRemoved(points, at, k, gone, points')
    BY <1>1, <1>2, <2>2, <2>3, RemovedPoints
  <2>7. \A q \in DOMAIN points' : points'[q].filesystem = points[q].filesystem
    BY <2>6 DEF IsRemoved
  <2>8. /\ alive = {points[q].filesystem : q \in DOMAIN points}
        /\ \A q, r \in DOMAIN points : q # r => points[q].filesystem # points[r].filesystem
    BY DEF IInv, Owned
  <2>9. alive' = {points'[q].filesystem : q \in DOMAIN points'}
    <3>1. ASSUME NEW q \in DOMAIN points'
          PROVE  points'[q].filesystem \in alive'
      BY <1>1, <1>3, <1>4, <2>7, <2>8
    <3>2. ASSUME NEW fs \in alive'
          PROVE  \E q \in DOMAIN points' : points'[q].filesystem = fs
      BY <1>1, <1>4, <2>7, <2>8
    <3> QED
      BY <3>1, <3>2
  <2>10. Owned'
    BY <1>4, <2>4, <2>7, <2>8, <2>9 DEF Owned
  <2>11. Known'
    <3>1. \A q \in DOMAIN points' : LeadsTo(points', given'[q], q)
      BY <1>4, <1>5, <1>6, <2>5
    <3> QED
      BY <1>5, <1>7, <3>1 DEF Known
  <2> QED
    BY <2>10, <2>11 DEF IInv
<1> QED
  BY <1>8, <1>9

LEMMA InvariantHolds ==
  Spec => []IInv
<1>1. Init => IInv
  <2> SUFFICES ASSUME Init PROVE IInv
    OBVIOUS
  <2>1. DOMAIN points = {} /\ alive = {} /\ given = [p \in Point |-> <<>>]
    BY DEF Init
  <2> QED
    BY <2>1, EmptyIsShort DEF IInv, Owned, Known
<1>2. IInv /\ [Next]_vars => IInv'
  <2> SUFFICES ASSUME IInv, [Next]_vars PROVE IInv'
    OBVIOUS
  <2>1. CASE \E fs \in FileSystem : MountRoot(fs)
    BY <2>1, MountRootKeeps
  <2>2. CASE \E fs \in FileSystem : \E path \in Path : MountFilesystem(path, fs)
    BY <2>2, MountFilesystemKeeps
  <2>3. CASE \E path \in Path : Umount(path)
    BY <2>3, UmountKeeps
  <2>4. CASE UNCHANGED vars
    BY <2>4 DEF vars, IInv, Owned, Known
  <2> QED
    BY <2>1, <2>2, <2>3, <2>4 DEF Next
<1> QED
  BY <1>1, <1>2, PTL DEF Spec

(* An umount forgets nothing and deletes nothing twice: every mount point  *)
(* but the root is listed once, by one parent, and the file systems that   *)
(* live are those of the mount points, each of one.                        *)
THEOREM EverythingIsOwned ==
  Spec => []OwnedOnce
<1>1. ASSUME IInv PROVE OwnedOnce
  <2>1. ASSUME NEW p \in DOMAIN points \ {Root}
        PROVE  \E q \in DOMAIN points : \E k \in DOMAIN points[q].children :
                 \A r \in DOMAIN points : \A m \in DOMAIN points[r].children :
                   points[r].children[m] = p <=> <<r, m>> = <<q, k>>
    <3>1. Tree(points)
      BY <1>1 DEF IInv, Owned
    <3>2. PICK q \in DOMAIN points : p \in Kids(points, q)
      BY <3>1, HasParent
    <3>3. PICK k \in DOMAIN points[q].children : points[q].children[k] = p
      BY <3>2 DEF Kids, ToSet
    <3>4. \A r \in DOMAIN points : \A m \in DOMAIN points[r].children :
            points[r].children[m] = p => r = q /\ m = k
      BY <3>1, <3>3 DEF Tree
    <3> QED
      BY <3>3, <3>4
  <2> QED
    BY <1>1, <2>1 DEF IInv, Owned, OwnedOnce
<1> QED
  BY <1>1, InvariantHolds, PTL

(* Every mount point is found under the path it was mounted with, whatever *)
(* was mounted and unmounted since.                                        *)
THEOREM EverythingIsFound ==
  Spec => []NothingIsHidden
<1>1. ASSUME IInv PROVE NothingIsHidden
  <2> SUFFICES ASSUME NEW p \in DOMAIN points
               PROVE  Find(given[p]).point = p /\ Find(given[p]).left = <<>>
    BY DEF NothingIsHidden
  <2>1. Tree(points) /\ p \in Point
    BY <1>1 DEF IInv, Owned, Tree
  <2>2. given[p] \in Path /\ LeadsTo(points, given[p], p)
    BY <1>1, <2>1 DEF IInv, Known
  <2> QED
    BY <2>1, <2>2, LedToIsFound
<1> QED
  BY <1>1, InvariantHolds, PTL

-----------------------------------------------------------------------------
(* Prefixes by names.                                                      *)
LEMMA PrefixByNames ==
  ASSUME NEW x \in Seq(Name), NEW y \in Seq(Name)
  PROVE  IsPrefix(x, y) <=> Len(x) <= Len(y) /\ \A i \in 1..Len(x) : x[i] = y[i]
<1> DEFINE n == Len(x)
<1>1. n \in Nat /\ Len(y) \in Nat
  OBVIOUS
<1>2. ASSUME n <= Len(y)
      PROVE  SubSeq(x, 1, n) = SubSeq(y, 1, n) <=> \A i \in 1..n : x[i] = y[i]
  <2>1. \A i \in 1..n : x[i] \in Name /\ y[i] \in Name
    BY <1>1, <1>2
  <2>2. /\ SubSeq(x, 1, n) \in Seq(Name) /\ Len(SubSeq(x, 1, n)) = n
        /\ \A i \in 1..n : SubSeq(x, 1, n)[i] = x[i]
    BY <1>1, <2>1, SubSeqProperties
  <2>3. /\ SubSeq(y, 1, n) \in Seq(Name) /\ Len(SubSeq(y, 1, n)) = n
        /\ \A i \in 1..n : SubSeq(y, 1, n)[i] = y[i]
    BY <1>1, <2>1, SubSeqProperties
  <2>4. ASSUME \A i \in 1..n : x[i] = y[i]
        PROVE  SubSeq(x, 1, n) = SubSeq(y, 1, n)
    <3>1. \A i \in 1..Len(SubSeq(x, 1, n)) : SubSeq(x, 1, n)[i] = SubSeq(y, 1, n)[i]
      BY <2>2, <2>3, <2>4
    <3> QED
      BY <2>2, <2>3, <3>1, SeqEqual
  <2>5. ASSUME SubSeq(x, 1, n) = SubSeq(y, 1, n)
        PROVE  \A i \in 1..n : x[i] = y[i]
    BY <2>2, <2>3, <2>5
  <2> QED
    BY <2>4, <2>5
<1> QED
  BY <1>2 DEF IsPrefix

LEMMA PrefixesCompare ==
  ASSUME NEW x \in Seq(Name), NEW y \in Seq(Name), NEW z \in Seq(Name)
  PROVE  /\ IsPrefix(x, x)
         /\ IsPrefix(x, y) /\ IsPrefix(y, z) => IsPrefix(x, z)
         /\ IsPrefix(x, z) /\ IsPrefix(y, z) => IsPrefix(x, y) \/ IsPrefix(y, x)
<1>1. Len(x) \in Nat /\ Len(y) \in Nat /\ Len(z) \in Nat
  OBVIOUS
<1>2. IsPrefix(x, x)
  BY <1>1, PrefixByNames
<1>3. ASSUME IsPrefix(x, y), IsPrefix(y, z) PROVE IsPrefix(x, z)
  <2>1. Len(x) <= Len(y) /\ \A i \in 1..Len(x) : x[i] = y[i]
    BY <1>3, PrefixByNames
  <2>2. Len(y) <= Len(z) /\ \A i \in 1..Len(y) : y[i] = z[i]
    BY <1>3, PrefixByNames
  <2>3. Len(x) <= Len(z) /\ \A i \in 1..Len(x) : x[i] = z[i]
    BY <1>1, <2>1, <2>2
  <2> QED
    BY <2>3, PrefixByNames
<1>4. ASSUME IsPrefix(x, z), IsPrefix(y, z) PROVE IsPrefix(x, y) \/ IsPrefix(y, x)
  <2>1. \A i \in 1..Len(x) : x[i] = z[i]
    BY <1>4, PrefixByNames
  <2>2. \A i \in 1..Len(y) : y[i] = z[i]
    BY <1>4, PrefixByNames
  <2>3. CASE Len(x) <= Len(y)
    <3>1. \A i \in 1..Len(x) : x[i] = y[i]
      BY <1>1, <2>1, <2>2, <2>3
    <3> QED
      BY <2>3, <3>1, PrefixByNames
  <2>4. CASE Len(y) <= Len(x)
    <3>1. \A i \in 1..Len(y) : y[i] = x[i]
      BY <1>1, <2>1, <2>2, <2>4
    <3> QED
      BY <2>4, <3>1, PrefixByNames
  <2> QED
    BY <1>1, <2>3, <2>4
<1> QED
  BY <1>2, <1>3, <1>4

(* A common beginning makes no difference.                                 *)
LEMMA PrefixesBehind ==
  ASSUME NEW x \in Seq(Name), NEW y \in Seq(Name), NEW z \in Seq(Name)
  PROVE  /\ IsPrefix(x, x \o y)
         /\ IsPrefix(x \o y, x \o z) <=> IsPrefix(y, z)
         /\ StartsWith(y, z) /\ z # <<>> => StartsWith(x \o y, x \o z)
<1> DEFINE n == Len(x)
           a == x \o y
           b == x \o z
<1>1. n \in Nat /\ Len(y) \in Nat /\ Len(z) \in Nat
  OBVIOUS
<1>2. /\ a \in Seq(Name) /\ Len(a) = n + Len(y)
      /\ \A i \in 1..n + Len(y) : a[i] = IF i <= n THEN x[i] ELSE y[i - n]
  BY ConcatProperties
<1>3. /\ b \in Seq(Name) /\ Len(b) = n + Len(z)
      /\ \A i \in 1..n + Len(z) : b[i] = IF i <= n THEN x[i] ELSE z[i - n]
  BY ConcatProperties
<1> HIDE DEF a, b
<1>4. /\ \A i \in 1..n : i \in 1..n + Len(y) /\ i \in 1..n + Len(z) /\ a[i] = x[i] /\ b[i] = x[i]
      /\ \A i \in 1..Len(y) : n + i \in 1..n + Len(y) /\ a[n + i] = y[i]
      /\ \A i \in 1..Len(z) : n + i \in 1..n + Len(z) /\ b[n + i] = z[i]
  <2>1. \A i \in 1..n : i \in 1..n + Len(y) /\ i \in 1..n + Len(z) /\ i <= n
    BY <1>1
  <2>2. \A i \in 1..Len(y) : n + i \in 1..n + Len(y) /\ ~(n + i <= n) /\ (n + i) - n = i
    BY <1>1
  <2>3. \A i \in 1..Len(z) : n + i \in 1..n + Len(z) /\ ~(n + i <= n) /\ (n + i) - n = i
    BY <1>1
  <2> QED
    BY <1>2, <1>3, <2>1, <2>2, <2>3
<1>5. IsPrefix(x, a)
  <2>1. Len(x) <= Len(a) /\ \A i \in 1..Len(x) : x[i] = a[i]
    BY <1>1, <1>2, <1>4
  <2> QED
    BY <1>2, <2>1, PrefixByNames
<1>6. ASSUME IsPrefix(y, z) PROVE IsPrefix(a, b)
  <2>1. Len(y) <= Len(z) /\ \A i \in 1..Len(y) : y[i] = z[i]
    BY <1>6, PrefixByNames
  <2>2. ASSUME NEW i \in 1..Len(a) PROVE a[i] = b[i]
    <3>1. CASE i <= n
      BY <1>1, <1>4, <3>1
    <3>2. CASE i > n
      <4>1. i - n \in 1..Len(y) /\ i - n \in 1..Len(z) /\ n + (i - n) = i
        BY <1>1, <1>2, <2>1, <3>2
      <4>2. a[n + (i - n)] = y[i - n] /\ b[n + (i - n)] = z[i - n]
        BY <1>4, <4>1
      <4> QED
        BY <2>1, <4>1, <4>2
    <3> QED
      BY <1>1, <1>2, <3>1, <3>2
  <2>3. Len(a) <= Len(b)
    BY <1>1, <1>2, <1>3, <2>1
  <2>4. \A i \in 1..Len(a) : a[i] = b[i]
    BY <2>2
  <2> QED
    BY <1>2, <1>3, <2>3, <2>4, PrefixByNames
<1>7. ASSUME IsPrefix(a, b) PROVE IsPrefix(y, z)
  <2>1. Len(a) <= Len(b) /\ \A i \in 1..Len(a) : a[i] = b[i]
    BY <1>2, <1>3, <1>7, PrefixByNames
  <2>2. Len(y) <= Len(z)
    BY <1>1, <1>2, <1>3, <2>1
  <2>3. ASSUME NEW i \in 1..Len(y) PROVE y[i] = z[i]
    <3>1. n + i \in 1..Len(a) /\ i \in 1..Len(z)
      BY <1>1, <1>2, <2>2
    <3> QED
      BY <1>4, <2>1, <3>1
  <2> QED
    BY <2>2, <2>3, PrefixByNames
<1>8. ASSUME StartsWith(y, z), z # <<>> PROVE StartsWith(a, b)
  <2> DEFINE m == Len(z)
  <2>1. m > 0 /\ m <= Len(y) /\ \A k \in 1..m - 1 : y[k] = z[k]
    BY <1>1, <1>8, EmptySeq DEF StartsWith
  <2>2. y[m] = z[m] \/ <<z[m], y[m]>> \in DOMAIN Rest
    BY <1>8, <2>1 DEF StartsWith
  <2>3. m \in 1..Len(z) /\ m \in 1..Len(y)
    BY <1>1, <2>1
  <2>4. a[n + m] = y[m] /\ b[n + m] = z[m]
    BY <1>4, <2>3
  <2>5. ASSUME NEW k \in 1..(n + m) - 1 PROVE a[k] = b[k]
    <3>1. CASE k <= n
      BY <1>1, <1>4, <3>1
    <3>2. CASE k > n
      <4>1. /\ k - n \in 1..m - 1 /\ k - n \in 1..Len(y) /\ k - n \in 1..Len(z)
            /\ n + (k - n) = k
        BY <1>1, <2>1, <3>2
      <4>2. a[n + (k - n)] = y[k - n] /\ b[n + (k - n)] = z[k - n]
        BY <1>4, <4>1
      <4> QED
        BY <2>1, <4>1, <4>2
    <3> QED
      BY <1>1, <3>1, <3>2
  <2>6. Len(b) = n + m /\ n + m <= Len(a)
    BY <1>1, <1>2, <1>3, <2>1
  <2> QED
    BY <2>2, <2>4, <2>5, <2>6 DEF StartsWith
<1> QED
  BY <1>5, <1>6, <1>7, <1>8 DEF a, b

(* The bytes of a path start with those of its prefixes, and what follows  *)
(* is the rest.                                                            *)
LEMMA AfterPrefix ==
  ASSUME NEW left \in Path, NEW path \in Path, path # <<>>
  PROVE  /\ IsPrefix(path, left) => /\ StartsWith(left, path)
                                    /\ left = path \o After(left, path)
         /\ StartsWith(left, path) /\ After(left, path) = <<>> => left = path
<1> DEFINE n == Len(path)
           m == Len(left)
           tail == SubSeq(left, n + 1, m)
<1>1. /\ left \in Seq(Name) /\ path \in Seq(Name)
      /\ n \in Nat /\ n > 0 /\ m \in Nat
  BY PathIsSeq, EmptyIsShort
<1>2. ASSUME n <= m
      PROVE  /\ tail \in Seq(Name) /\ Len(tail) = m - n
             /\ \A i \in 1..m - n : tail[i] = left[n + i]
  <2>1. \A i \in n + 1 .. m : left[i] \in Name
    BY <1>1
  <2>2. /\ tail \in Seq(Name)
        /\ Len(tail) = IF n + 1 <= m THEN m - (n + 1) + 1 ELSE 0
        /\ \A i \in 1..m - (n + 1) + 1 : tail[i] = left[(n + 1) + i - 1]
    BY <1>1, <2>1, SubSeqProperties
  <2>3. m - (n + 1) + 1 = m - n /\ \A i \in 1..m - n : (n + 1) + i - 1 = n + i
    BY <1>1
  <2> QED
    BY <1>1, <1>2, <2>2, <2>3
<1> HIDE DEF tail
<1>3. ASSUME IsPrefix(path, left)
      PROVE  StartsWith(left, path) /\ left = path \o After(left, path)
  <2>1. n <= m /\ \A i \in 1..n : path[i] = left[i]
    BY <1>1, <1>3, PrefixByNames
  <2>2. StartsWith(left, path)
    BY <1>1, <2>1 DEF StartsWith
  <2>3. left[n] = path[n]
    BY <1>1, <2>1
  <2>4. After(left, path) = tail
    <3>1. After(left, path) = <<>> \o tail
      BY <2>3 DEF After, tail
    <3>2. <<>> \o tail = tail
      BY <1>2, <2>1, ConcatEmptySeq
    <3> QED
      BY <3>1, <3>2
  <2>5. /\ path \o tail \in Seq(Name) /\ Len(path \o tail) = n + (m - n)
        /\ \A i \in 1..n + (m - n) :
             (path \o tail)[i] = IF i <= n THEN path[i] ELSE tail[i - n]
    BY <1>1, <1>2, <2>1, ConcatProperties
  <2>6. ASSUME NEW i \in 1..m PROVE left[i] = (path \o tail)[i]
    <3>1. i \in 1..n + (m - n)
      BY <1>1
    <3>2. CASE i <= n
      BY <1>1, <2>1, <2>5, <3>1, <3>2
    <3>3. CASE i > n
      <4>1. i - n \in 1..m - n /\ n + (i - n) = i /\ ~(i <= n)
        BY <1>1, <3>3
      <4>2. tail[i - n] = left[n + (i - n)]
        BY <1>2, <2>1, <4>1
      <4> QED
        BY <2>5, <3>1, <4>1, <4>2
    <3>4. i <= n \/ i > n
      BY <1>1
    <3> QED
      BY <3>2, <3>3, <3>4, Zenon
  <2>7. n + (m - n) = m
    BY <1>1
  <2>8. left = path \o tail
    BY <1>1, <2>5, <2>6, <2>7, SeqEqual
  <2> QED
    BY <2>2, <2>4, <2>8
<1>4. ASSUME StartsWith(left, path), After(left, path) = <<>>
      PROVE  left = path
  <2>1. n <= m /\ \A k \in 1..n - 1 : left[k] = path[k]
    BY <1>4 DEF StartsWith
  <2> DEFINE front == IF left[n] = path[n] THEN <<>> ELSE <<Rest[<<path[n], left[n]>>]>>
  <2>2. front \in Seq(Name) /\ Len(front) = IF left[n] = path[n] THEN 0 ELSE 1
    <3>1. CASE left[n] = path[n]
      BY <3>1
    <3>2. CASE left[n] # path[n]
      <4>1. <<path[n], left[n]>> \in DOMAIN Rest
        BY <1>1, <1>4, <3>2 DEF StartsWith
      <4>2. Rest[<<path[n], left[n]>>] \in Name
        BY <4>1, RestAssumption
      <4> QED
        BY <3>2, <4>2
    <3> QED
      BY <3>1, <3>2
  <2>3. After(left, path) = front \o tail
    BY DEF After, tail
  <2> HIDE DEF front
  <2>4. Len(front \o tail) = Len(front) + Len(tail)
    BY <1>2, <2>1, <2>2, ConcatProperties
  <2>5. Len(front \o tail) = 0
    BY <1>4, <2>3
  <2>6. left[n] = path[n] /\ n = m
    BY <1>1, <1>2, <2>1, <2>2, <2>4, <2>5
  <2>7. \A k \in 1..m : left[k] = path[k]
    BY <1>1, <2>1, <2>6
  <2> QED
    BY <1>1, <2>6, <2>7, SeqEqual
<1> QED
  BY <1>3, <1>4

-----------------------------------------------------------------------------
(* Paths on which bytes and names agree.                                   *)
Clean(path) == path \in Path /\ ~EndsInside(path)

AllClean ==
  Root \in DOMAIN points /\ \A p \in DOMAIN points : Clean(given[p])

(* What is left of a clean path is what follows the path of the mount      *)
(* point reached; a mount point's path is its parent's and its own.        *)
Exact(p) ==
  \A path : Clean(path) =>
    \A a : Leads(points, path, a) /\ a.point = p => path = given[p] \o a.left

Linked(p, c) == given[c] = given[p] \o points[c].path

(* A state of a search that is not its start is reached by a step.         *)
LEMMA ReachedByStep ==
  ASSUME NEW t, Tree(t), NEW path \in Path, NEW a, Leads(t, path, a), a # Start(path)
  PROVE  \E b : Leads(t, path, b) /\ Goes(t, b, a)
<1> DEFINE S == {s \in State(t) : /\ Leads(t, path, s)
                                 /\ \/ s = Start(path)
                                    \/ \E b : Leads(t, path, b) /\ Goes(t, b, s)}
<1>1. Start(path) \in S
  BY StartIsState DEF Leads, LeadsFrom
<1>2. Follows(t, S)
  BY LeadsOn DEF Follows
<1>3. a \in S
  BY <1>1, <1>2, LeadsWithin
<1> QED
  BY <1>3

LEMMA OnlyStartIsAtRoot ==
  ASSUME NEW t, Tree(t), NEW path \in Path, NEW a, Leads(t, path, a), a.point = Root
  PROVE  a = Start(path)
BY ReachedByStep, GoesOnInTree, LeadsIsState

(* A child that matches by its bytes matches by its names.                 *)
LEMMA CleanStep ==
  ASSUME Tree(points), given \in [Point -> Path],
         NEW path, Clean(path), NEW left \in Path, NEW p \in DOMAIN points,
         NEW c \in Kids(points, p), Linked(p, c), path = given[p] \o left,
         StartsWith(left, points[c].path)
  PROVE  /\ IsPrefix(points[c].path, left) /\ IsPrefix(given[c], path)
         /\ left = points[c].path \o After(left, points[c].path)
         /\ path = given[c] \o After(left, points[c].path)
<1>1. /\ c \in DOMAIN points /\ points[c].path \in Path /\ points[c].path # <<>>
      /\ p \in Point
  BY KidsAreThere
<1>2. /\ given[p] \in Seq(Name) /\ left \in Seq(Name) /\ points[c].path \in Seq(Name)
  BY <1>1, PathIsSeq
<1>3. StartsWith(path, given[c])
  BY <1>1, <1>2, PrefixesBehind DEF Linked
<1>4. IsPrefix(given[c], path)
  BY <1>1, <1>3 DEF Clean, EndsInside
<1>5. IsPrefix(points[c].path, left)
  BY <1>2, <1>4, PrefixesBehind DEF Linked
<1>6. left = points[c].path \o After(left, points[c].path)
  BY <1>1, <1>5, AfterPrefix
<1>7. After(left, points[c].path) \in Seq(Name)
  BY <1>1, AfterIsPath, PathIsSeq
<1>8. path = given[c] \o After(left, points[c].path)
  <2> DEFINE z == After(left, points[c].path)
             y == points[c].path
             x == given[p]
  <2>1. x \o (y \o z) = (x \o y) \o z
    <3>1. x \in Seq(Name) /\ y \in Seq(Name) /\ z \in Seq(Name)
      BY <1>2, <1>7
    <3> HIDE DEF x, y, z
    <3> QED
      BY <3>1, ConcatAssociative, SMTT(20)
  <2>2. path = x \o (y \o z)
    BY <1>6
  <2>3. given[c] = x \o y
    BY DEF Linked
  <2> QED
    BY <2>1, <2>2, <2>3
<1> QED
  BY <1>4, <1>5, <1>6, <1>8

LEMMA EverythingIsExact ==
  ASSUME IInv, AllClean
  PROVE  \A p \in DOMAIN points : Exact(p) /\ \A c \in Kids(points, p) : Linked(p, c)
<1> DEFINE S == {p \in DOMAIN points : Exact(p)}
<1>1. /\ Tree(points) /\ given \in [Point -> Path]
      /\ \A p \in DOMAIN points : LeadsTo(points, given[p], p)
  BY TreeHasRoot DEF IInv, Known, AllClean
<1>2. Root \in S
  <2>1. given[Root] = <<>>
    <3>1. PICK a : Leads(points, given[Root], a) /\ a.point = Root /\ a.left = <<>>
      BY <1>1 DEF LeadsTo, AllClean
    <3>2. a = Start(given[Root])
      BY <1>1, <3>1, OnlyStartIsAtRoot, RootAssumption
    <3> QED
      BY <3>1, <3>2 DEF Start
  <2>2. ASSUME NEW path, Clean(path), NEW a, Leads(points, path, a), a.point = Root
        PROVE  path = given[Root] \o a.left
    <3>1. path \in Path /\ path \in Seq(Name)
      BY <2>2, PathIsSeq DEF Clean
    <3>2. a.left = path
      BY <1>1, <2>2, <3>1, OnlyStartIsAtRoot DEF Start
    <3> QED
      BY <2>1, <3>1, <3>2, ConcatEmptySeq
  <2> QED
    BY <2>2 DEF Exact, AllClean
<1>3. ASSUME NEW p \in S, NEW c \in Kids(points, p)
      PROVE  Linked(p, c) /\ Exact(c)
  <2>1. /\ p \in DOMAIN points /\ p \in Point /\ c \in DOMAIN points /\ c \in Point /\ c # Root
        /\ points[c].path \in Path /\ points[c].path # <<>>
    BY <1>1, KidsAreThere
  <2>2. ASSUME NEW path \in Path, NEW a, Leads(points, path, a), a.point = c
        PROVE  \E b : /\ Leads(points, path, b) /\ b.point = p /\ b.left \in Path
                      /\ a.left = After(b.left, points[c].path)
                      /\ StartsWith(b.left, points[c].path)
    <3>1. a # Start(path)
      BY <2>1, <2>2 DEF Start
    <3>2. PICK b : Leads(points, path, b) /\ Goes(points, b, a)
      BY <1>1, <2>2, <3>1, ReachedByStep
    <3>3. /\ b \in State(points) /\ b.point \in DOMAIN points /\ b.left \in Path
          /\ c \in Kids(points, b.point)
          /\ a.left = After(b.left, points[c].path)
          /\ StartsWith(b.left, points[c].path)
      BY <1>1, <2>2, <3>2, GoesOnInTree, LeadsIsState DEF State
    <3>4. b.point = p
      BY <1>1, <2>1, <3>3, OneParent
    <3> QED
      BY <3>2, <3>3, <3>4
  <2>3. Linked(p, c)
    <3>1. given[c] \in Path /\ Clean(given[c])
      BY <1>1, <2>1 DEF AllClean
    <3>2. PICK a : Leads(points, given[c], a) /\ a.point = c /\ a.left = <<>>
      BY <1>1, <2>1 DEF LeadsTo
    <3>3. PICK b : /\ Leads(points, given[c], b) /\ b.point = p /\ b.left \in Path
                   /\ a.left = After(b.left, points[c].path)
                   /\ StartsWith(b.left, points[c].path)
      BY <2>2, <3>1, <3>2
    <3>4. b.left = points[c].path
      BY <2>1, <3>2, <3>3, AfterPrefix
    <3>5. given[c] = given[p] \o b.left
      BY <3>1, <3>3 DEF Exact
    <3> QED
      BY <3>4, <3>5 DEF Linked
  <2>4. ASSUME NEW path, Clean(path), NEW a, Leads(points, path, a), a.point = c
        PROVE  path = given[c] \o a.left
    <3>1. path \in Path
      BY <2>4 DEF Clean
    <3>2. PICK b : /\ Leads(points, path, b) /\ b.point = p /\ b.left \in Path
                   /\ a.left = After(b.left, points[c].path)
                   /\ StartsWith(b.left, points[c].path)
      BY <2>2, <2>4, <3>1
    <3>3. path = given[p] \o b.left
      BY <2>4, <3>2 DEF Exact
    <3>4. path = given[c] \o After(b.left, points[c].path)
      <4> DEFINE left == b.left
      <4>1. left \in Path /\ StartsWith(left, points[c].path) /\ path = given[p] \o left
        BY <3>2, <3>3
      <4> HIDE DEF left
      <4>2. path = given[c] \o After(left, points[c].path)
        BY <1>1, <2>1, <2>3, <2>4, <4>1, CleanStep, ZenonT(40)
      <4> QED
        BY <4>2 DEF left
    <3> QED
      BY <3>2, <3>4
  <2> QED
    BY <2>3, <2>4 DEF Exact
<1>4. Closed(points, S)
  BY <1>1, <1>3, KidsAreThere DEF Closed
<1>5. S \in SUBSET DOMAIN points
  OBVIOUS
<1>6. S = DOMAIN points
  BY <1>1, <1>2, <1>4, <1>5, Zenon DEF Tree
<1> QED
  BY <1>3, <1>6

(* The mount points a search passes have longer and longer paths.          *)
LEMMA PathsGrow ==
  ASSUME Tree(points), given \in [Point -> Path],
         \A p \in DOMAIN points : \A c \in Kids(points, p) : Linked(p, c),
         NEW path \in Path, NEW a, Leads(points, path, a),
         NEW b, Leads(points, path, b), Stays(points, b)
  PROVE  IsPrefix(given[a.point], given[b.point])
<1> DEFINE S == {s \in State(points) : IsPrefix(given[a.point], given[s.point])}
           T == {s \in State(points) : LeadsFrom(points, s, b)}
<1>1. \A s \in State(points) : /\ s.point \in DOMAIN points
                               /\ given[s.point] \in Path /\ given[s.point] \in Seq(Name)
  BY KidsAreThere, PathIsSeq DEF State
<1>2. a \in S
  BY <1>1, LeadsIsState, PrefixesCompare
<1>3. ASSUME NEW s \in S, NEW r \in State(points), Goes(points, s, r)
      PROVE  r \in S
  <2>1. r.point \in Kids(points, s.point)
    BY <1>3, GoesOnInTree
  <2>2. /\ points[r.point].path \in Seq(Name)
        /\ given[r.point] = given[s.point] \o points[r.point].path
    BY <1>1, <2>1, KidsAreThere, PathIsSeq DEF Linked
  <2>3. IsPrefix(given[s.point], given[r.point])
    BY <1>1, <2>2, PrefixesBehind
  <2>4. a.point \in DOMAIN points /\ given[a.point] \in Seq(Name)
    BY <1>1, LeadsIsState
  <2> QED
    BY <1>1, <2>3, <2>4, PrefixesCompare
<1>4. Follows(points, S)
  BY <1>3 DEF Follows
<1>5. a \in T
  <2>1. Start(path) \in T
    BY StartIsState DEF Leads
  <2>2. ASSUME NEW s \in T, NEW r \in State(points), Goes(points, s, r)
        PROVE  r \in T
    <3> SUFFICES ASSUME NEW U \in SUBSET State(points), r \in U, Follows(points, U)
                 PROVE  b \in U
      BY DEF LeadsFrom
    <3>1. U \cup {s} \in SUBSET State(points)
      OBVIOUS
    <3>2. Follows(points, U \cup {s})
      BY <2>2, GoesOneWay DEF Follows
    <3>3. b \in U \cup {s}
      BY <3>1, <3>2 DEF LeadsFrom
    <3>4. b # s
      BY <2>2, GoesOnInTree
    <3> QED
      BY <3>3, <3>4
  <2>3. Follows(points, T)
    BY <2>2 DEF Follows
  <2> QED
    BY <2>1, <2>3, LeadsWithin
<1>6. b \in S
  BY <1>2, <1>4, <1>5 DEF LeadsFrom
<1> QED
  BY <1>6

(* The search for a path passes each mount point above it, or one whose    *)
(* path is longer.                                                         *)
LEMMA PassesOrPassesBy ==
  ASSUME IInv, AllClean, NEW path, Clean(path), NEW p \in DOMAIN points,
         IsPrefix(given[p], path),
         NEW end, Leads(points, path, end), Stays(points, end)
  PROVE  IsPrefix(given[p], given[end.point])
<1> SUFFICES ASSUME ~IsPrefix(given[p], given[end.point]) PROVE FALSE
  OBVIOUS
<1>1. /\ Tree(points) /\ given \in [Point -> Path] /\ path \in Path /\ p \in Point
      /\ path \in Seq(Name) /\ given[p] \in Path /\ given[p] \in Seq(Name)
      /\ LeadsTo(points, given[p], p) /\ Clean(given[p])
  BY TreeHasRoot, KidsAreThere, PathIsSeq DEF IInv, Known, AllClean, Clean
<1>2. /\ \A q \in DOMAIN points : Exact(q)
      /\ \A q \in DOMAIN points : \A c \in Kids(points, q) : Linked(q, c)
  BY EverythingIsExact
<1> DEFINE S == {s \in State(points) :
                   /\ Leads(points, given[p], s)
                   /\ \E r : Leads(points, path, r) /\ r.point = s.point}
<1>3. Start(given[p]) \in S
  <2>1. Leads(points, given[p], Start(given[p])) /\ Leads(points, path, Start(path))
    BY <1>1, StartIsState DEF Leads, LeadsFrom
  <2>2. Start(path).point = Start(given[p]).point
    BY DEF Start
  <2> QED
    BY <2>1, <2>2, LeadsIsState
<1>4. ASSUME NEW s \in S, NEW s2 \in State(points), Goes(points, s, s2)
      PROVE  s2 \in S
  <2>1. PICK r : Leads(points, path, r) /\ r.point = s.point
    OBVIOUS
  <2> DEFINE q == s.point
             c == s2.point
  <2>2. /\ r \in State(points) /\ q \in DOMAIN points /\ q \in Point
        /\ s.left \in Path /\ r.left \in Path
        /\ s.left \in Seq(Name) /\ r.left \in Seq(Name)
        /\ given[q] \in Path /\ given[q] \in Seq(Name)
    BY <1>1, <2>1, LeadsIsState, KidsAreThere, PathIsSeq, SMTT(20) DEF State
  <2>3. given[p] = given[q] \o s.left /\ path = given[q] \o r.left
    BY <1>1, <1>2, <2>1, <2>2 DEF Exact
  <2>4. IsPrefix(s.left, r.left)
    BY <2>2, <2>3, PrefixesBehind
  <2>5. Leads(points, given[p], s2)
    BY <1>1, <1>4, LeadsOn
  <2>6. /\ c \in Kids(points, q) /\ StartsWith(s.left, points[c].path)
        /\ c \in DOMAIN points /\ points[c].path \in Path /\ points[c].path # <<>>
        /\ IsBest(points, q, s.left, c)
    BY <1>1, <1>4, <2>2, GoesOnInTree, KidsAreThere, SMTT(20) DEF Goes
  <2> HIDE DEF q, c
  <2>7. IsPrefix(points[c].path, s.left)
    BY <1>1, <1>2, <2>2, <2>3, <2>6, CleanStep
  <2>8. StartsWith(r.left, points[c].path)
    <3>1. IsPrefix(points[c].path, r.left)
      BY <2>2, <2>4, <2>6, <2>7, PrefixesCompare, PathIsSeq
    <3> QED
      BY <2>2, <2>6, <3>1, AfterPrefix
  <2>9. r.left # <<>> /\ r.point = q
    <3>1. Len(points[c].path) \in Nat /\ Len(points[c].path) # 0
      BY <2>6, EmptyIsShort, PathIsSeq
    <3> QED
      BY <2>1, <2>8, <3>1, EmptyIsShort DEF StartsWith, q
  <2>10. PICK d : IsBest(points, q, r.left, d)
    BY <1>1, <2>2, <2>6, <2>8, BestExists DEF NoneMatches
  <2>11. /\ d \in Kids(points, q) /\ d \in DOMAIN points
         /\ points[d].path \in Path /\ points[d].path # <<>>
         /\ points[d].path \in Seq(Name)
         /\ StartsWith(r.left, points[d].path)
    BY <1>1, <2>2, <2>10, KidsAreThere, PathIsSeq DEF IsBest
  <2>12. IsPrefix(points[d].path, r.left) /\ given[d] = given[q] \o points[d].path
    BY <1>1, <1>2, <2>2, <2>3, <2>11, CleanStep DEF Linked
  <2> DEFINE r2 == [point |-> d, parent |-> q, left |-> After(r.left, points[d].path)]
  <2>13. Leads(points, path, r2) /\ r2.point = d
    <3>1. Goes(points, r, r2)
      BY <2>9, <2>10 DEF Goes
    <3> HIDE DEF r2
    <3>2. Leads(points, path, r2)
      BY <1>1, <2>1, <3>1, LeadsOn
    <3> QED
      BY <3>2 DEF r2
  <2>14. d = c
    <3>1. CASE StartsWith(s.left, points[d].path)
      <4>1. ~Longer(points[d].path, points[c].path)
        BY <2>6, <2>11, <3>1 DEF IsBest
      <4>2. ~Longer(points[c].path, points[d].path)
        BY <2>6, <2>8, <2>10 DEF IsBest
      <4>3. StartsWith(points[c].path, points[d].path) /\ StartsWith(points[d].path, points[c].path)
        BY <2>2, <2>6, <2>8, <2>11, <4>1, <4>2, PrefixesAreOrdered
      <4>4. points[c].path = points[d].path
        BY <2>6, <2>11, <4>3, StartsWithEachOther
      <4> QED
        BY <1>1, <2>2, <2>6, <2>11, <4>4, Zenon DEF Tree
    <3>2. CASE ~StartsWith(s.left, points[d].path)
      <4>1. ~IsPrefix(points[d].path, s.left)
        BY <2>2, <2>11, <3>2, AfterPrefix
      <4>2. IsPrefix(s.left, points[d].path)
        BY <2>2, <2>4, <2>11, <2>12, <4>1, PrefixesCompare
      <4>3. IsPrefix(given[p], given[d])
        BY <2>2, <2>3, <2>11, <2>12, <4>2, PrefixesBehind
      <4>4. IsPrefix(given[d], given[end.point])
        <5> HIDE DEF r2
        <5> QED
          BY <1>1, <1>2, <2>13, PathsGrow
      <4>5. given[d] \in Seq(Name) /\ given[end.point] \in Seq(Name)
        BY <1>1, <2>11, LeadsIsState, KidsAreThere, PathIsSeq DEF State
      <4> QED
        BY <1>1, <4>3, <4>4, <4>5, PrefixesCompare
    <3> QED
      BY <3>1, <3>2
  <2> HIDE DEF r2
  <2> QED
    BY <2>5, <2>13, <2>14, LeadsIsState DEF c
<1>5. Follows(points, S)
  BY <1>4 DEF Follows
<1>6. PICK a : Leads(points, given[p], a) /\ a.point = p
  BY <1>1 DEF LeadsTo
<1>7. a \in S
  BY <1>1, <1>3, <1>5, <1>6, LeadsWithin
<1>8. PICK r : Leads(points, path, r) /\ r.point = p
  BY <1>6, <1>7
<1> QED
  BY <1>1, <1>2, <1>8, PathsGrow

(* Where bytes and names agree, the code's search that goes from parent to *)
(* child, to the one with the longest path, finds the mount point with the *)
(* longest path of all.                                                    *)
THEOREM LookupFindsLongest ==
  Spec => []LookupIsLongestMatch
<1>1. ASSUME IInv PROVE LookupIsLongestMatch
  <2> SUFFICES ASSUME Root \in DOMAIN points,
                      \A p \in DOMAIN points : ~EndsInside(given[p]),
                      NEW path \in Path, ~EndsInside(path)
               PROVE  LET found == Find(path)
                          Above == {p \in DOMAIN points : IsPrefix(given[p], path)}
                      IN  /\ found.point \in Above
                          /\ \A p \in Above : IsPrefix(given[p], given[found.point])
                          /\ path = given[found.point] \o found.left
    BY DEF LookupIsLongestMatch
  <2> DEFINE found == Find(path)
  <2>1. /\ Tree(points) /\ found.point \in DOMAIN points /\ found.left \in Path
        /\ Leads(points, path, found) /\ Stays(points, found)
    BY <1>1, FindsOne DEF IInv
  <2>2. AllClean /\ Clean(path)
    BY <1>1, <2>1, KidsAreThere DEF IInv, Known, AllClean, Clean
  <2> HIDE DEF found
  <2>3. path = given[found.point] \o found.left
    BY <1>1, <2>1, <2>2, EverythingIsExact DEF Exact
  <2>4. IsPrefix(given[found.point], path)
    <3>1. given[found.point] \in Seq(Name) /\ found.left \in Seq(Name)
      BY <1>1, <2>1, KidsAreThere, PathIsSeq DEF IInv, Known
    <3> QED
      BY <2>3, <3>1, PrefixesBehind
  <2>5. \A p \in DOMAIN points :
          IsPrefix(given[p], path) => IsPrefix(given[p], given[found.point])
    BY <1>1, <2>1, <2>2, PassesOrPassesBy
  <2> QED
    BY <2>1, <2>3, <2>4, <2>5 DEF found
<1> QED
  BY <1>1, InvariantHolds, PTL
=============================================================================
